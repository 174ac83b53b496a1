------------------------------ MODULE CsrfTokens ------------------------------
(***************************************************************************)
(* The CSRF token of the administration: signed by the process, kept in a  *)
(* cookie, read by the script of every page and sent back with every       *)
(* request that changes something.                                         *)
(*                                                                         *)
(* The actors are the tabs of the browsers, each with one request under    *)
(* way at most; the tabs of a browser share its cookie.  Requests and      *)
(* answers pass each other and are lost when the process restarts, and a   *)
(* restart brings a new signing secret unless one is configured.  What the *)
(* handler behind the middleware does is left open: it answers with a      *)
(* page, the outcome of a change, a redirect or an error.                  *)
(***************************************************************************)
EXTENDS Naturals

CONSTANTS
  Tabs,         \* tabs
  Browsers,     \* browsers
  BrowserOf,    \* the browser of a tab
  Nonces,       \* random parts of tokens; one nobody holds may come again
  NoToken,      \* no token
  Configured,   \* whether CSRF_SECRET is set: the cases to consider
  MaxRestarts,  \* bound: restarts
  MaxDrops      \* bound: cookies that are lost

ASSUME CsrfConstants ==
  /\ BrowserOf \in [Tabs -> Browsers]
  /\ NoToken \notin [secret : 0..MaxRestarts, nonce : Nonces]
  /\ Nonces \subseteq Nat
  /\ Configured \subseteq BOOLEAN
  /\ MaxRestarts \in Nat
  /\ MaxDrops \in Nat

VARIABLES
  configured, \* CSRF_SECRET is set
  boot,       \* restarts so far
  drops,      \* cookies lost so far
  cookie,     \* per browser: the csrf_token cookie
  page,       \* per tab: what it shows and the tokens its script has read
  pc,         \* per tab: where its request stands
  request,    \* per tab: what the request carries
  answer      \* per tab: the answer under way

process == <<configured, boot>>
vars == <<process, drops, cookie, page, pc, request, answer>>

Token == [secret : 0..MaxRestarts, nonce : Nonces]
Tokens == Token \cup {NoToken}

\* For a page; of a page's script (htmx and fetch, token in the header); of a
\* plain form (login and logout, token in a hidden field).
Op     == {"page", "change", "form"}
Unsafe == {"change", "form"}

\* The script's token, and the one in the page's forms.
Page    == [open : BOOLEAN, header : Tokens, form : Tokens]
Request == [op : Op, cookie : Tokens, token : Tokens]
Answer  == [to : {"page", "done", "redirect", "refusal", "error"},
            cookie : Tokens]

Blank     == [open |-> FALSE, header |-> NoToken, form |-> NoToken]
NoRequest == [op |-> "page", cookie |-> NoToken, token |-> NoToken]
NoAnswer  == [to |-> "error", cookie |-> NoToken]

Init ==
  /\ configured \in Configured
  /\ boot = 0
  /\ drops = 0
  /\ cookie = [b \in Browsers |-> NoToken]
  /\ page = [t \in Tabs |-> Blank]
  /\ pc = [t \in Tabs |-> "idle"]
  /\ request = [t \in Tabs |-> NoRequest]
  /\ answer = [t \in Tabs |-> NoAnswer]

---------------------------------------------------------------------------
(* The tab.                                                                *)

\* What a request for o carries, with this cookie and from this page.
Carrying(o, k, p) ==
  [op |-> o, cookie |-> k,
   token |-> CASE o = "page"   -> NoToken
               [] o = "change" -> p.header
               [] o = "form"   -> p.form]

\* A page is asked for at any time, anything else from a page.
Send(t, o) ==
  /\ pc[t] = "idle"
  /\ o \in Unsafe => page[t].open
  /\ pc' = [pc EXCEPT ![t] = "sent"]
  /\ request' = [request EXCEPT
                   ![t] = Carrying(o, cookie[BrowserOf[t]], page[t])]
  /\ UNCHANGED <<process, drops, cookie, page, answer>>

\* applyToken: the script reads the cookie when a page is loaded and after
\* every swap; forms that have their token keep it.  A refusal or an error
\* leaves the user without a working page until it is loaded again.
Shown(p, to, k) ==
  CASE to = "page"     -> [open |-> TRUE, header |-> k, form |-> k]
    [] to = "done"     -> [p EXCEPT !.header = IF k = NoToken THEN @ ELSE k]
    [] to = "redirect" -> p
    [] OTHER           -> Blank

\* The answer arrives: its cookie is stored, then the page is shown or the
\* redirect is followed with the cookie of that moment.
Receive(t) ==
  LET b  == BrowserOf[t]
      to == answer[t].to
      k  == IF answer[t].cookie = NoToken THEN cookie[b] ELSE answer[t].cookie
  IN
  /\ pc[t] = "answered"
  /\ cookie' = [cookie EXCEPT ![b] = k]
  /\ page' = [page EXCEPT ![t] = Shown(page[t], to, k)]
  /\ answer' = [answer EXCEPT ![t] = NoAnswer]
  /\ \/ /\ to = "redirect"
        /\ pc' = [pc EXCEPT ![t] = "sent"]
        /\ request' = [request EXCEPT ![t] = Carrying("page", k, page[t])]
     \/ /\ to # "redirect"
        /\ pc' = [pc EXCEPT ![t] = "idle"]
        /\ UNCHANGED request
  /\ UNCHANGED <<process, drops>>

\* The connection breaks before the answer is through: an error page.
LoseAnswer(t) ==
  /\ pc[t] = "answered"
  /\ page' = [page EXCEPT ![t] = Blank]
  /\ pc' = [pc EXCEPT ![t] = "idle"]
  /\ answer' = [answer EXCEPT ![t] = NoAnswer]
  /\ UNCHANGED <<process, drops, cookie, request>>

\* The cookie is gone after a day, or earlier if the user clears it.
DropCookie(b) ==
  /\ cookie[b] # NoToken
  /\ drops < MaxDrops
  /\ drops' = drops + 1
  /\ cookie' = [cookie EXCEPT ![b] = NoToken]
  /\ UNCHANGED <<process, page, pc, request, answer>>

---------------------------------------------------------------------------
(* The middleware.                                                         *)

\* What this process signs tokens with.
Secret == IF configured THEN 0 ELSE boot

\* validateSignedToken
Valid(k) == k # NoToken /\ k.secret = Secret

Held ==
  {cookie[b] : b \in Browsers} \cup
  UNION {{page[t].header, page[t].form, request[t].cookie, request[t].token,
          answer[t].cookie} : t \in Tabs}

Unseen == {k \in Token : k.secret = Secret} \ Held

\* Mutant: the token is signed with something else than the secret.
MutFreshUnsigned == {[secret |-> MaxRestarts + 1, nonce |-> n] : n \in Nonces}

\* newSignedToken: nobody has seen it yet.  One stands for all of them.
Fresh == {k \in Unseen : \A l \in Unseen : k.nonce <= l.nonce}

\* Mutant: every request brings a new token.
MutCookieTokensAlwaysNew(r) == Fresh

\* Mutant: a token is only made if there is none.
MutCookieTokensKeepsBad(r) == IF r.cookie # NoToken THEN {r.cookie} ELSE Fresh

\* The token the middleware goes by: the cookie's if it is good, else a new
\* one, which is set as a cookie even with a refusal.
CookieTokens(r) == IF Valid(r.cookie) THEN {r.cookie} ELSE Fresh
NewCookie(r, k) == IF k = r.cookie THEN NoToken ELSE k

\* Methods other than GET must bring that token.
Accepted(r, k) == r.op \in Unsafe => r.token = k /\ Valid(r.token)

\* What the handlers answer to the requests they are given.
Outcomes(o) == CASE o = "page"   -> {"page", "redirect", "error"}
                 [] o = "change" -> {"done", "redirect", "error"}
                 [] o = "form"   -> {"redirect", "error"}

Arrive(t) ==
  /\ pc[t] = "sent"
  /\ \E k \in CookieTokens(request[t]) :
     \E to \in IF Accepted(request[t], k) THEN Outcomes(request[t].op)
                                          ELSE {"refusal"} :
       answer' = [answer EXCEPT
                    ![t] = [to |-> to, cookie |-> NewCookie(request[t], k)]]
  /\ pc' = [pc EXCEPT ![t] = "answered"]
  /\ request' = [request EXCEPT ![t] = NoRequest]
  /\ UNCHANGED <<process, drops, cookie, page>>

\* Requests and answers under way are lost.
Restart ==
  /\ boot < MaxRestarts
  /\ boot' = boot + 1
  /\ page' = [t \in Tabs |-> IF pc[t] = "idle" THEN page[t] ELSE Blank]
  /\ pc' = [t \in Tabs |-> "idle"]
  /\ request' = [t \in Tabs |-> NoRequest]
  /\ answer' = [t \in Tabs |-> NoAnswer]
  /\ UNCHANGED <<configured, drops, cookie>>

Next ==
  \/ \E t \in Tabs : \/ \E o \in Op : Send(t, o)
                     \/ Arrive(t) \/ Receive(t) \/ LoseAnswer(t)
  \/ \E b \in Browsers : DropCookie(b)
  \/ Restart

Spec == Init /\ [][Next]_vars

\* Requests are answered and answers arrive or are lost.  Nothing makes a user
\* send one.
FairSpec ==
  Spec /\ \A t \in Tabs : WF_vars(Arrive(t)) /\ WF_vars(Receive(t))

TypeOK ==
  /\ configured \in BOOLEAN
  /\ boot \in 0..MaxRestarts
  /\ drops \in 0..MaxDrops
  /\ cookie \in [Browsers -> Tokens]
  /\ page \in [Tabs -> Page]
  /\ pc \in [Tabs -> {"idle", "sent", "answered"}]
  /\ request \in [Tabs -> Request]
  /\ answer \in [Tabs -> Answer]

=============================================================================
