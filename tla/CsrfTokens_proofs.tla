--------------------------- MODULE CsrfTokens_proofs ---------------------------
(***************************************************************************)
(* TypeOK is inductive. PagesKeepWorking is proved step by step: no action *)
(* but the loss of the cookie and the change of the secret disturbs a      *)
(* settled browser, because every request of its tabs carries the good     *)
(* token and the middleware sets no other one in answer to it. The last    *)
(* part asks who can hold a token (HeldBy): new ones are made in the       *)
(* answer to one tab only (NextGains), so no two browsers share one.       *)
(***************************************************************************)
EXTENDS CsrfTokensProperties, TLAPS

\* A tab without a page has the type of one.
LEMMA BlankIsPage == Blank \in Page
BY DEF Blank, Page, Tokens

\* What a page makes a browser send is a request.
LEMMA CarryingIsRequest ==
  ASSUME NEW o \in Op, NEW k \in Tokens, NEW p \in Page
  PROVE  Carrying(o, k, p) \in Request
<1>1. (CASE o = "page"   -> NoToken
         [] o = "change" -> p.header
         [] o = "form"   -> p.form) \in Tokens
  BY DEF Op, Page, Tokens
<1>2. QED
  BY <1>1 DEF Carrying, Request

\* What a browser makes of an answer is a page.
LEMMA ShownIsPage ==
  ASSUME NEW p \in Page, NEW to, NEW k \in Tokens
  PROVE  Shown(p, to, k) \in Page
<1>1. CASE to = "page"
  BY <1>1 DEF Shown, Page
<1>2. CASE to = "done"
  BY <1>2 DEF Shown, Page
<1>3. CASE to = "redirect"
  BY <1>3 DEF Shown
<1>4. CASE to \notin {"page", "done", "redirect"}
  BY <1>4, BlankIsPage DEF Shown
<1>5. QED
  BY <1>1, <1>2, <1>3, <1>4

\* TypeOK holds at the start.
LEMMA InitTypeOK == Init => TypeOK
BY CsrfConstants, BlankIsPage
DEF Init, TypeOK, Tokens, Request, NoRequest, Op, Answer, NoAnswer

\* Every step keeps TypeOK.
LEMMA NextTypeOK == TypeOK /\ [Next]_vars => TypeOK'
<1> SUFFICES ASSUME TypeOK, [Next]_vars
             PROVE  TypeOK'
    OBVIOUS
<1> USE CsrfConstants
<1>a. NoAnswer \in Answer /\ NoRequest \in Request
  BY DEF NoAnswer, Answer, NoRequest, Request, Op, Tokens
<1>1. ASSUME NEW t \in Tabs, NEW o \in Op, Send(t, o)
      PROVE  TypeOK'
  <2>1. Carrying(o, cookie[BrowserOf[t]], page[t]) \in Request
    BY CarryingIsRequest DEF TypeOK
  <2>2. QED
    BY <1>1, <2>1 DEF Send, TypeOK, process
<1>2. ASSUME NEW t \in Tabs, Arrive(t)
      PROVE  TypeOK'
  <2>1. answer' \in [Tabs -> Answer]
    <3>1. PICK k \in CookieTokens(request[t]) :
            \E to \in IF Accepted(request[t], k) THEN Outcomes(request[t].op)
                                                 ELSE {"refusal"} :
              answer' = [answer EXCEPT
                ![t] = [to |-> to, cookie |-> NewCookie(request[t], k)]]
      BY <1>2 DEF Arrive
    <3>2. PICK to \in IF Accepted(request[t], k) THEN Outcomes(request[t].op)
                                                 ELSE {"refusal"} :
            answer' = [answer EXCEPT
              ![t] = [to |-> to, cookie |-> NewCookie(request[t], k)]]
      BY <3>1
    <3>3. NewCookie(request[t], k) \in Tokens
      BY DEF NewCookie, CookieTokens, Fresh, Unseen, Tokens, TypeOK, Request
    <3>4. request[t].op \in {"page", "change", "form"}
      BY DEF TypeOK, Request, Op
    <3>5. to \in {"page", "done", "redirect", "refusal", "error"}
      BY <3>4 DEF Outcomes
    <3>6. QED
      BY <3>2, <3>3, <3>5 DEF TypeOK, Answer
  <2>2. QED
    BY <1>2, <1>a, <2>1 DEF Arrive, TypeOK, process
<1>3. ASSUME NEW t \in Tabs, Receive(t)
      PROVE  TypeOK'
  <2> DEFINE b == BrowserOf[t]
             k == IF answer[t].cookie = NoToken THEN cookie[b] ELSE answer[t].cookie
  <2>1. b \in Browsers /\ k \in Tokens /\ page[t] \in Page /\ "page" \in Op
    BY DEF TypeOK, Answer, Op
  <2>2. cookie' = [cookie EXCEPT ![b] = k] /\ UNCHANGED <<process, drops>>
    BY <1>3 DEF Receive
  <2>3. page' \in [Tabs -> Page]
    <3>1. Shown(page[t], answer[t].to, k) \in Page
      BY <2>1, ShownIsPage
    <3>2. QED
      BY <1>3, <3>1 DEF Receive, TypeOK
  <2>4. /\ pc' \in [Tabs -> {"idle", "sent", "answered"}]
        /\ request' \in [Tabs -> Request]
    <3>1. Carrying("page", k, page[t]) \in Request
      BY <2>1, CarryingIsRequest
    <3>2. QED
      BY <1>3, <3>1 DEF Receive, TypeOK
  <2>5. answer' \in [Tabs -> Answer]
    BY <1>3, <1>a DEF Receive, TypeOK
  <2>6. QED
    BY <2>1, <2>2, <2>3, <2>4, <2>5 DEF TypeOK, process
<1>4. ASSUME NEW t \in Tabs, LoseAnswer(t)
      PROVE  TypeOK'
  BY <1>4, <1>a, BlankIsPage DEF LoseAnswer, TypeOK, process
<1>5. ASSUME NEW b \in Browsers, DropCookie(b)
      PROVE  TypeOK'
  BY <1>5 DEF DropCookie, TypeOK, process, Tokens
<1>6. CASE Restart
  BY <1>6, <1>a, BlankIsPage DEF Restart, TypeOK
<1>7. CASE UNCHANGED vars
  BY <1>7 DEF vars, process, TypeOK
<1>8. QED
  BY <1>1, <1>2, <1>3, <1>4, <1>5, <1>6, <1>7 DEF Next

\* TypeOK holds in every state, for any tabs and browsers: every token that
\* is held anywhere has been signed by this process or an earlier one.
THEOREM TypeCorrect == Spec => []TypeOK
BY InitTypeOK, NextTypeOK, PTL DEF Spec

---------------------------------------------------------------------------
(* What a settled browser is disturbed by.                                 *)

\* A request that carries a good token is answered without a new one.
LEMMA GoodTokenStays ==
  ASSUME TypeOK, NEW u \in Tabs, Arrive(u), Valid(request[u].cookie)
  PROVE  /\ answer'[u].cookie = NoToken
         /\ \A v \in Tabs \ {u} : answer'[v] = answer[v]
         /\ (request[u].op \in Unsafe => request[u].token = request[u].cookie)
              => answer'[u].to # "refusal"
<1>1. CookieTokens(request[u]) = {request[u].cookie}
  BY DEF CookieTokens
<1>2. PICK to \in IF Accepted(request[u], request[u].cookie)
                    THEN Outcomes(request[u].op) ELSE {"refusal"} :
        answer' = [answer EXCEPT ![u] =
          [to |-> to, cookie |-> NewCookie(request[u], request[u].cookie)]]
  BY <1>1 DEF Arrive
<1>3. /\ answer'[u] = [to |-> to,
                       cookie |-> NewCookie(request[u], request[u].cookie)]
      /\ \A v \in Tabs \ {u} : answer'[v] = answer[v]
  BY <1>2 DEF TypeOK
<1>4. ASSUME request[u].op \in Unsafe => request[u].token = request[u].cookie
      PROVE  to # "refusal"
  <2>1. Accepted(request[u], request[u].cookie)
    BY <1>4 DEF Accepted
  <2>2. request[u].op \in {"page", "change", "form"}
    BY DEF TypeOK, Request, Op
  <2>3. QED
    BY <1>2, <2>1, <2>2 DEF Outcomes
<1>5. QED
  BY <1>3, <1>4 DEF NewCookie

\* The goodness of a token depends on the process alone.
LEMMA ValidStays ==
  ASSUME UNCHANGED process
  PROVE  \A k : Valid(k) <=> Valid(k)'
BY DEF Valid, Secret, process

\* A tab in step with its cookie stays so, unless it is upset (another answer
\* changes the cookie, the secret or the cookie is lost) or its page is gone.
LEMMA StepKeepsWorking ==
  ASSUME TypeOK, [Next]_vars, NEW t \in Tabs, InStep(t)
  PROVE  InStep(t)' \/ Upset(t) \/ Gone(t)
<1> USE CsrfConstants
<1> DEFINE b == BrowserOf[t]
<1>a. PICK k \in Tokens : k = cookie[b]
  BY DEF TypeOK
<1>b. /\ Valid(k)
      /\ b \in Browsers
      /\ \A u \in Tabs : BrowserOf[u] = b =>
           /\ pc[u] = "sent" => request[u].cookie = k
           /\ answer[u].cookie \in {NoToken, k}
      /\ page[t].header = k /\ page[t].form = k
      /\ pc[t] = "sent" /\ request[t].op \in Unsafe => request[t].token = k
      /\ answer[t].to # "refusal"
  BY <1>a DEF InStep, Settled
<1>c. k # NoToken
  BY <1>b DEF Valid
<1>d. ASSUME /\ cookie'[b] = k
             /\ Valid(k)'
             /\ \A u \in Tabs : BrowserOf[u] = b =>
                  /\ pc'[u] = "sent" => request'[u].cookie = k
                  /\ answer'[u].cookie \in {NoToken, k}
             /\ page'[t].header = k /\ page'[t].form = k
             /\ pc'[t] = "sent" /\ request'[t].op \in Unsafe
                  => request'[t].token = k
             /\ answer'[t].to # "refusal"
      PROVE  InStep(t)'
  BY <1>d DEF InStep, Settled, Valid, Secret
<1> HIDE DEF b
<1>1. ASSUME NEW u \in Tabs, NEW o \in Op, Send(u, o)
      PROVE  InStep(t)'
  <2>1. UNCHANGED <<process, cookie, page, answer>>
    BY <1>1 DEF Send
  <2>2. ASSUME NEW v \in Tabs, v # u
        PROVE  pc'[v] = pc[v] /\ request'[v] = request[v]
    BY <1>1, <2>2 DEF Send, TypeOK
  <2>3. request'[u] = Carrying(o, cookie[BrowserOf[u]], page[u])
    BY <1>1 DEF Send, TypeOK
  <2>4. /\ request'[u].cookie = cookie[BrowserOf[u]]
        /\ request'[u].op = o
        /\ o = "change" => request'[u].token = page[u].header
        /\ o = "form" => request'[u].token = page[u].form
    BY <2>3 DEF Carrying
  <2>5. \A v \in Tabs : BrowserOf[v] = b /\ pc'[v] = "sent"
                          => request'[v].cookie = k
    BY <1>a, <1>b, <2>2, <2>4
  <2>6. pc'[t] = "sent" /\ request'[t].op \in Unsafe => request'[t].token = k
    BY <1>b, <2>2, <2>4 DEF Unsafe
  <2>7. Valid(k)'
    BY <1>b, <2>1, ValidStays
  <2>8. QED
    BY <1>a, <1>b, <1>d, <2>1, <2>5, <2>6, <2>7
<1>2. ASSUME NEW u \in Tabs, Arrive(u)
      PROVE  InStep(t)'
  <2>1. /\ UNCHANGED <<process, cookie, page>>
        /\ pc[u] = "sent" /\ pc'[u] = "answered"
        /\ \A v \in Tabs \ {u} : /\ pc'[v] = pc[v]
                                 /\ request'[v] = request[v]
                                 /\ answer'[v] = answer[v]
    BY <1>2 DEF Arrive, TypeOK
  <2>2. BrowserOf[u] = b => /\ answer'[u].cookie = NoToken
                            /\ u = t => answer'[u].to # "refusal"
    BY <1>2, <1>b, <2>1, GoodTokenStays
  <2>3. Valid(k)'
    BY <1>b, <2>1, ValidStays
  <2>4. BrowserOf[t] = b
    BY DEF b
  <2>5. QED
    BY <1>a, <1>b, <1>d, <2>1, <2>2, <2>3, <2>4
<1>3. ASSUME NEW u \in Tabs, Receive(u)
      PROVE  InStep(t)' \/ Gone(t)
  <2> DEFINE c == BrowserOf[u]
             l == IF answer[u].cookie = NoToken THEN cookie[c] ELSE answer[u].cookie
  <2>1. /\ UNCHANGED process
        /\ cookie' = [cookie EXCEPT ![c] = l]
        /\ page' = [page EXCEPT ![u] = Shown(page[u], answer[u].to, l)]
        /\ answer' = [answer EXCEPT ![u] = NoAnswer]
        /\ pc'[u] = "sent" => request'[u] = Carrying("page", l, page[u])
        /\ \A v \in Tabs \ {u} : pc'[v] = pc[v] /\ request'[v] = request[v]
    BY <1>3 DEF Receive, TypeOK
  <2>2. c = b => l = k
    BY <1>a, <1>b
  <2>3. cookie'[b] = k
    BY <1>a, <1>b, <2>1, <2>2 DEF TypeOK
  <2>4. pc'[u] = "sent" =>
          request'[u].cookie = l /\ request'[u].op = "page"
    BY <2>1 DEF Carrying
  <2>5. \A v \in Tabs : BrowserOf[v] = b =>
          /\ pc'[v] = "sent" => request'[v].cookie = k
          /\ answer'[v].cookie \in {NoToken, k}
    BY <1>b, <2>1, <2>2, <2>4 DEF NoAnswer, TypeOK
  <2>6. pc'[t] = "sent" /\ request'[t].op \in Unsafe => request'[t].token = k
    BY <1>b, <2>1, <2>4 DEF Unsafe
  <2>7. answer'[t].to # "refusal"
    BY <1>b, <2>1 DEF NoAnswer, TypeOK
  <2>8. Valid(k)'
    BY <1>b, <2>1, ValidStays
  <2>9. (page'[t].header = k /\ page'[t].form = k) \/ Gone(t)
    <3>1. CASE t # u
      BY <1>b, <2>1, <3>1 DEF TypeOK
    <3>2. CASE t = u
      <4>1. page'[t] = Shown(page[t], answer[t].to, k)
        BY <2>1, <2>2, <3>2 DEF TypeOK, b
      <4>2. answer[t].to \in {"page", "done", "redirect", "error"}
        BY <1>b DEF TypeOK, Answer
      <4>3. CASE answer[t].to = "page"
        BY <4>1, <4>3 DEF Shown
      <4>4. CASE answer[t].to = "done"
        <5>1. page'[t] = [page[t] EXCEPT !.header = k] /\ page[t] \in Page
          BY <1>c, <4>1, <4>4 DEF Shown, TypeOK
        <5>2. QED
          BY <1>b, <5>1 DEF Page
      <4>5. CASE answer[t].to = "redirect"
        BY <1>b, <4>1, <4>5 DEF Shown
      <4>6. CASE answer[t].to = "error"
        BY <4>1, <4>6 DEF Shown, Gone
      <4>7. QED
        BY <4>2, <4>3, <4>4, <4>5, <4>6
    <3>3. QED
      BY <3>1, <3>2
  <2>10. QED
    BY <1>d, <2>3, <2>5, <2>6, <2>7, <2>8, <2>9
<1>4. ASSUME NEW u \in Tabs, LoseAnswer(u)
      PROVE  InStep(t)' \/ Gone(t)
  <2>1. /\ UNCHANGED <<process, cookie, request>>
        /\ pc'[u] = "idle"
        /\ answer'[u] = NoAnswer
        /\ page'[u] = Blank
        /\ \A v \in Tabs \ {u} : /\ pc'[v] = pc[v]
                                 /\ answer'[v] = answer[v]
                                 /\ page'[v] = page[v]
    BY <1>4 DEF LoseAnswer, TypeOK
  <2>2. CASE t = u
    BY <1>b, <2>1, <2>2 DEF Gone
  <2>3. CASE t # u
    <3>1. Valid(k)'
      BY <1>b, <2>1, ValidStays
    <3>2. \A v \in Tabs : BrowserOf[v] = b =>
            /\ pc'[v] = "sent" => request'[v].cookie = k
            /\ answer'[v].cookie \in {NoToken, k}
      BY <1>b, <2>1 DEF NoAnswer
    <3>3. QED
      BY <1>a, <1>b, <1>d, <2>1, <2>3, <3>1, <3>2
  <2>4. QED
    BY <2>2, <2>3
<1>5. ASSUME NEW c \in Browsers, DropCookie(c)
      PROVE  InStep(t)' \/ Upset(t)
  <2>1. /\ UNCHANGED <<process, page, pc, request, answer>>
        /\ cookie' = [cookie EXCEPT ![c] = NoToken]
    BY <1>5 DEF DropCookie
  <2>2. CASE c = b
    BY <1>b, <2>1, <2>2 DEF Upset, TypeOK, b
  <2>3. CASE c # b
    <3>1. cookie'[b] = k
      BY <1>a, <1>b, <2>1, <2>3 DEF TypeOK
    <3>2. Valid(k)'
      BY <1>b, <2>1, ValidStays
    <3>3. QED
      BY <1>b, <1>d, <2>1, <3>1, <3>2
  <2>4. QED
    BY <2>2, <2>3
<1>6. CASE Restart
  <2>1. CASE ~configured
    BY <1>6, <2>1 DEF Restart, Upset, TypeOK
  <2>2. CASE configured /\ pc[t] # "idle"
    BY <1>6, <1>b, <2>2 DEF Restart, Gone
  <2>3. CASE configured /\ pc[t] = "idle"
    <3>1. /\ UNCHANGED <<configured, cookie>>
          /\ page'[t] = page[t]
          /\ \A u \in Tabs : /\ pc'[u] = "idle"
                             /\ answer'[u] = NoAnswer
      BY <1>6, <2>3 DEF Restart
    <3>2. Valid(k)'
      BY <1>b, <2>3, <3>1 DEF Valid, Secret
    <3>3. QED
      BY <1>a, <1>b, <1>d, <3>1, <3>2 DEF NoAnswer
  <2>4. QED
    BY <2>1, <2>2, <2>3
<1>7. CASE UNCHANGED vars
  BY <1>7 DEF vars, process, InStep, Settled, Valid, Secret
<1>8. QED
  BY <1>1, <1>2, <1>3, <1>4, <1>5, <1>6, <1>7 DEF Next

\* PagesKeepWorking, for any tabs and browsers: a page that agrees with its
\* browser's cookie is not refused until the cookie or the secret is lost.
THEOREM PagesAreServed == Spec => PagesKeepWorking
<1>1. TypeOK /\ [Next]_vars =>
        [\A t \in Tabs : InStep(t) => InStep(t)' \/ Upset(t) \/ Gone(t)]_vars
  BY StepKeepsWorking
<1>2. QED
  BY <1>1, TypeCorrect, PTL DEF Spec, PagesKeepWorking

---------------------------------------------------------------------------
(* Whose token it is.                                                      *)

\* HeldBy, token by token.
LEMMA HeldByMeans ==
  ASSUME NEW b, NEW k
  PROVE  k \in HeldBy(b) <=>
           \/ k = cookie[b]
           \/ \E t \in Tabs : BrowserOf[t] = b /\ k \in TabHolds(t)
BY DEF HeldBy

\* The same after a step.
LEMMA HeldByMeansNext ==
  ASSUME NEW b, NEW k
  PROVE  k \in HeldBy(b)' <=>
           \/ k = cookie'[b]
           \/ \E t \in Tabs : BrowserOf[t] = b /\ k \in TabHolds(t)'
BY DEF HeldBy

\* What is held is held by some browser.
LEMMA HeldIsHeldBy ==
  ASSUME NEW k
  PROVE  k \in Held <=> \E b \in Browsers : k \in HeldBy(b)
<1> USE CsrfConstants
<1>1. k \in Held <=> \/ \E b \in Browsers : k = cookie[b]
                     \/ \E t \in Tabs : k \in TabHolds(t)
  BY DEF Held, TabHolds
<1>2. \A t \in Tabs : BrowserOf[t] \in Browsers
  OBVIOUS
<1>3. QED
  BY <1>1, <1>2, HeldByMeans

\* The same after a step.
LEMMA HeldIsHeldByNext ==
  ASSUME NEW k
  PROVE  k \in Held' <=> \E b \in Browsers : k \in HeldBy(b)'
<1> USE CsrfConstants
<1>1. k \in Held' <=> \/ \E b \in Browsers : k = cookie'[b]
                      \/ \E t \in Tabs : k \in TabHolds(t)'
  BY DEF Held, TabHolds
<1>2. \A t \in Tabs : BrowserOf[t] \in Browsers
  OBVIOUS
<1>3. QED
  BY <1>1, <1>2, HeldByMeansNext

\* The tokens of the browsers after a step: those they had, and new ones in
\* the tab t.
Gains(t, new) ==
  \A b \in Browsers :
    HeldBy(b)' \subseteq HeldBy(b) \cup {NoToken}
                           \cup (IF b = BrowserOf[t] THEN new ELSE {})

\* A step of one tab, which takes its browser's tokens and new ones.
LEMMA TabGains ==
  ASSUME NEW t \in Tabs, NEW new,
         cookie'[BrowserOf[t]] \in HeldBy(BrowserOf[t]) \cup {NoToken},
         \A b \in Browsers \ {BrowserOf[t]} : cookie'[b] = cookie[b],
         TabHolds(t)' \subseteq HeldBy(BrowserOf[t]) \cup {NoToken} \cup new,
         \A u \in Tabs \ {t} : TabHolds(u)' = TabHolds(u)
  PROVE  Gains(t, new)
<1> SUFFICES ASSUME NEW b \in Browsers, NEW k \in HeldBy(b)'
             PROVE  k \in HeldBy(b) \cup {NoToken}
                            \cup (IF b = BrowserOf[t] THEN new ELSE {})
    BY DEF Gains
<1>1. CASE k = cookie'[b]
  BY <1>1, HeldByMeans
<1>2. ASSUME NEW u \in Tabs, BrowserOf[u] = b, k \in TabHolds(u)'
      PROVE  k \in HeldBy(b) \cup {NoToken}
                     \cup (IF b = BrowserOf[t] THEN new ELSE {})
  BY <1>2, HeldByMeans
<1>3. QED
  BY <1>1, <1>2, HeldByMeansNext

\* A tab's own tokens and its browser's cookie belong to the browser.
LEMMA TabHoldsInHeldBy ==
  ASSUME NEW t \in Tabs
  PROVE  /\ TabHolds(t) \subseteq HeldBy(BrowserOf[t])
         /\ cookie[BrowserOf[t]] \in HeldBy(BrowserOf[t])
BY HeldByMeans

\* What a request carries the page or the cookie has.
LEMMA CarryingHolds ==
  ASSUME NEW o \in Op, NEW k, NEW p
  PROVE  /\ Carrying(o, k, p).cookie = k
         /\ Carrying(o, k, p).token \in {NoToken, p.header, p.form}
<1>1. CASE o = "page"
  BY <1>1 DEF Carrying
<1>2. CASE o = "change"
  BY <1>2 DEF Carrying
<1>3. CASE o = "form"
  BY <1>3 DEF Carrying
<1>4. QED
  BY <1>1, <1>2, <1>3 DEF Op

\* What a page shows after an answer it had before or reads in the cookie.
LEMMA ShownHolds ==
  ASSUME NEW p \in Page, NEW to, NEW k
  PROVE  {Shown(p, to, k).header, Shown(p, to, k).form}
           \subseteq {NoToken, p.header, p.form, k}
<1>1. CASE to = "page"
  BY <1>1 DEF Shown
<1>2. CASE to = "done"
  BY <1>2 DEF Shown, Page
<1>3. CASE to = "redirect"
  BY <1>3 DEF Shown
<1>4. CASE to \notin {"page", "done", "redirect"}
  BY <1>4 DEF Shown, Blank
<1>5. QED
  BY <1>1, <1>2, <1>3, <1>4

\* Only the middleware makes tokens: in the answer to one tab, one that nobody
\* has, signed with the secret of the moment.
LEMMA NextGains ==
  ASSUME TypeOK, [Next]_vars
  PROVE  \/ \A b \in Browsers : HeldBy(b)' \subseteq HeldBy(b) \cup {NoToken}
         \/ \E t \in Tabs : \E k \in Fresh : Gains(t, {k})
<1> USE CsrfConstants
<1>b. /\ DOMAIN page = Tabs /\ DOMAIN answer = Tabs /\ DOMAIN request = Tabs
      /\ DOMAIN cookie = Browsers
      /\ \A t \in Tabs : BrowserOf[t] \in Browsers
  BY DEF TypeOK
<1>q. ASSUME NEW t \in Tabs, Gains(t, {})
      PROVE  \A b \in Browsers : HeldBy(b)' \subseteq HeldBy(b) \cup {NoToken}
  BY <1>q DEF Gains
<1>1. ASSUME NEW t \in Tabs, NEW o \in Op, Send(t, o)
      PROVE  Gains(t, {})
  <2>1. /\ UNCHANGED <<cookie, page, answer>>
        /\ request'[t] = Carrying(o, cookie[BrowserOf[t]], page[t])
        /\ \A u \in Tabs \ {t} : request'[u] = request[u]
    BY <1>1, <1>b DEF Send
  <2>2. /\ request'[t].cookie = cookie[BrowserOf[t]]
        /\ request'[t].token \in {NoToken, page[t].header, page[t].form}
    BY <2>1, CarryingHolds
  <2>3. TabHolds(t)' \subseteq TabHolds(t) \cup {NoToken, cookie[BrowserOf[t]]}
    BY <2>1, <2>2 DEF TabHolds
  <2>4. \A u \in Tabs \ {t} : TabHolds(u)' = TabHolds(u)
    BY <2>1 DEF TabHolds
  <2>5. QED
    BY <2>1, <2>3, <2>4, TabHoldsInHeldBy, TabGains
<1>2. ASSUME NEW t \in Tabs, Arrive(t)
      PROVE  Gains(t, {}) \/ \E k \in Fresh : Gains(t, {k})
  <2>1. PICK k \in CookieTokens(request[t]) :
          \E to : answer' = [answer EXCEPT
                    ![t] = [to |-> to, cookie |-> NewCookie(request[t], k)]]
    BY <1>2 DEF Arrive
  <2>2. /\ UNCHANGED <<cookie, page>>
        /\ request'[t] = NoRequest
        /\ answer'[t].cookie = NewCookie(request[t], k)
        /\ \A u \in Tabs \ {t} : request'[u] = request[u] /\ answer'[u] = answer[u]
    BY <1>2, <1>b, <2>1 DEF Arrive
  <2>3. TabHolds(t)' \subseteq
          TabHolds(t) \cup {NoToken, NewCookie(request[t], k)}
    BY <2>2 DEF TabHolds, NoRequest
  <2>4. \A u \in Tabs \ {t} : TabHolds(u)' = TabHolds(u)
    BY <2>2 DEF TabHolds
  <2>5. CASE k = request[t].cookie
    <3>1. TabHolds(t)' \subseteq TabHolds(t) \cup {NoToken}
      BY <2>3, <2>5 DEF NewCookie
    <3>2. Gains(t, {})
      BY <2>2, <2>4, <3>1, TabHoldsInHeldBy, TabGains
    <3>3. QED
      BY <3>2
  <2>6. CASE k # request[t].cookie
    <3>1. k \in Fresh
      BY <2>6 DEF CookieTokens
    <3>2. TabHolds(t)' \subseteq TabHolds(t) \cup {NoToken} \cup {k}
      BY <2>3, <2>6 DEF NewCookie
    <3>3. Gains(t, {k})
      BY <2>2, <2>4, <3>2, TabHoldsInHeldBy, TabGains
    <3>4. QED
      BY <3>1, <3>3
  <2>7. QED
    BY <2>5, <2>6
<1>3. ASSUME NEW t \in Tabs, Receive(t)
      PROVE  Gains(t, {})
  <2> DEFINE c == BrowserOf[t]
             k == IF answer[t].cookie = NoToken THEN cookie[c] ELSE answer[t].cookie
  <2>1. /\ cookie'[c] = k
        /\ \A b \in Browsers \ {c} : cookie'[b] = cookie[b]
        /\ page'[t] = Shown(page[t], answer[t].to, k)
        /\ answer'[t] = NoAnswer
        /\ \A u \in Tabs \ {t} : page'[u] = page[u] /\ answer'[u] = answer[u]
    BY <1>3, <1>b DEF Receive
  <2>2. /\ request'[t] \in {Carrying("page", k, page[t]), request[t]}
        /\ \A u \in Tabs \ {t} : request'[u] = request[u]
    BY <1>3, <1>b DEF Receive
  <2>3. k \in HeldBy(c)
    BY HeldByMeans DEF TabHolds
  <2> HIDE DEF k
  <2>4. {page'[t].header, page'[t].form}
          \subseteq {NoToken, page[t].header, page[t].form, k}
    BY <2>1, ShownHolds DEF TypeOK
  <2>5. {request'[t].cookie, request'[t].token}
          \subseteq {NoToken, k, page[t].header, page[t].form,
                     request[t].cookie, request[t].token}
    BY <2>2, CarryingHolds DEF Op
  <2>6. TabHolds(t)' \subseteq TabHolds(t) \cup {NoToken, k}
    BY <2>1, <2>4, <2>5 DEF TabHolds, NoAnswer
  <2>7. \A u \in Tabs \ {t} : TabHolds(u)' = TabHolds(u)
    BY <2>1, <2>2 DEF TabHolds
  <2>8. QED
    BY <2>1, <2>3, <2>6, <2>7, TabHoldsInHeldBy, TabGains
<1>4. ASSUME NEW t \in Tabs, LoseAnswer(t)
      PROVE  Gains(t, {})
  <2>1. /\ UNCHANGED <<cookie, request>>
        /\ page'[t] = Blank /\ answer'[t] = NoAnswer
        /\ \A u \in Tabs \ {t} : page'[u] = page[u] /\ answer'[u] = answer[u]
    BY <1>4, <1>b DEF LoseAnswer
  <2>2. TabHolds(t)' \subseteq TabHolds(t) \cup {NoToken}
    BY <2>1 DEF TabHolds, Blank, NoAnswer
  <2>3. \A u \in Tabs \ {t} : TabHolds(u)' = TabHolds(u)
    BY <2>1 DEF TabHolds
  <2>4. QED
    BY <2>1, <2>2, <2>3, TabHoldsInHeldBy, TabGains
<1>5. ASSUME NEW b \in Browsers, DropCookie(b)
      PROVE  \A c \in Browsers : HeldBy(c)' \subseteq HeldBy(c) \cup {NoToken}
  <2>1. /\ UNCHANGED <<page, request, answer>>
        /\ cookie'[b] = NoToken
        /\ \A c \in Browsers \ {b} : cookie'[c] = cookie[c]
    BY <1>5, <1>b DEF DropCookie
  <2>2. \A u \in Tabs : TabHolds(u)' = TabHolds(u)
    BY <2>1 DEF TabHolds
  <2>3. QED
    BY <2>1, <2>2, HeldByMeans, HeldByMeansNext
<1>6. CASE Restart
  <2>1. /\ UNCHANGED cookie
        /\ \A u \in Tabs : /\ page'[u] \in {page[u], Blank}
                           /\ request'[u] = NoRequest
                           /\ answer'[u] = NoAnswer
    BY <1>6 DEF Restart
  <2>2. \A u \in Tabs : TabHolds(u)' \subseteq TabHolds(u) \cup {NoToken}
    BY <2>1 DEF TabHolds, Blank, NoRequest, NoAnswer
  <2>3. \A b \in Browsers : HeldBy(b)' \subseteq HeldBy(b) \cup {NoToken}
    BY <2>1, <2>2, HeldByMeans, HeldByMeansNext
  <2>4. QED
    BY <2>3
<1>7. CASE UNCHANGED vars
  BY <1>7 DEF vars, HeldBy, TabHolds
<1>8. QED
  BY <1>q, <1>1, <1>2, <1>3, <1>4, <1>5, <1>6, <1>7 DEF Next

\* So no token gets from one browser to another.
LEMMA NextPrivate ==
  TypeOK /\ TokensArePrivate /\ [Next]_vars => TokensArePrivate'
<1> SUFFICES ASSUME TypeOK, TokensArePrivate, [Next]_vars,
                    NEW b \in Browsers, NEW c \in Browsers, b # c,
                    NEW k, k \in HeldBy(b)', k \in HeldBy(c)', k # NoToken
             PROVE  FALSE
    BY DEF TokensArePrivate
<1>1. ~(k \in HeldBy(b) /\ k \in HeldBy(c))
  BY DEF TokensArePrivate
<1>2. PICK t \in Tabs, l \in Fresh : Gains(t, {l})
  BY <1>1, NextGains
<1>3. l \notin HeldBy(b) /\ l \notin HeldBy(c)
  BY HeldIsHeldBy DEF Fresh, Unseen
<1>4. /\ k \in HeldBy(b) \/ (b = BrowserOf[t] /\ k = l)
      /\ k \in HeldBy(c) \/ (c = BrowserOf[t] /\ k = l)
  BY <1>2 DEF Gains
<1>5. QED
  BY <1>1, <1>3, <1>4

\* And every token stays one that a secret of this process has signed.
LEMMA NextSigned ==
  TypeOK /\ TokensAreSigned /\ [Next]_vars => TokensAreSigned'
<1> SUFFICES ASSUME TypeOK, TokensAreSigned, [Next]_vars,
                    NEW k, k \in Held', k # NoToken
             PROVE  k.secret \in IF configured' THEN {0} ELSE 0..boot'
    BY DEF TokensAreSigned
<1> USE CsrfConstants
<1>1. /\ configured' = configured /\ boot \in Nat /\ boot' \in Nat
      /\ boot' >= boot
  <2>1. TypeOK'
    BY NextTypeOK
  <2>2. configured' = configured /\ (boot' = boot \/ boot' = boot + 1)
    BY DEF Next, Send, Arrive, Receive, LoseAnswer, DropCookie, Restart, vars,
           process
  <2>3. QED
    BY <2>1, <2>2 DEF TypeOK
<1>2. CASE k \in Held
  BY <1>1, <1>2 DEF TokensAreSigned
<1>3. CASE k \notin Held
  <2>1. PICK b \in Browsers : k \in HeldBy(b)' /\ k \notin HeldBy(b)
    BY <1>3, HeldIsHeldBy, HeldIsHeldByNext
  <2>2. PICK t \in Tabs, l \in Fresh : Gains(t, {l})
    BY <2>1, NextGains
  <2>3. k \in Fresh
    BY <2>1, <2>2 DEF Gains
  <2>4. k.secret = IF configured THEN 0 ELSE boot
    BY <2>3 DEF Fresh, Unseen, Secret
  <2>5. QED
    BY <1>1, <2>4
<1>4. QED
  BY <1>2, <1>3

\* At the start there are no tokens.
LEMMA InitHeld == Init => TokensArePrivate /\ TokensAreSigned
<1> SUFFICES ASSUME Init
             PROVE  TokensArePrivate /\ TokensAreSigned
    OBVIOUS
<1> USE CsrfConstants
<1>1. /\ \A b \in Browsers : cookie[b] = NoToken
      /\ \A t \in Tabs : TabHolds(t) = {NoToken}
  BY DEF Init, TabHolds, Blank, NoRequest, NoAnswer
<1>2. \A b \in Browsers : HeldBy(b) \subseteq {NoToken}
  BY <1>1, HeldByMeans
<1>3. TokensArePrivate
  BY <1>2 DEF TokensArePrivate
<1>4. Held \subseteq {NoToken}
  BY <1>2, HeldIsHeldBy
<1>5. QED
  BY <1>3, <1>4 DEF TokensAreSigned

\* No token is held by two browsers, for any number of them and of restarts.
THEOREM TokensPrivate == Spec => []TokensArePrivate
<1>1. Init => TypeOK /\ TokensArePrivate
  BY InitTypeOK, InitHeld
<1>2. (TypeOK /\ TokensArePrivate) /\ [Next]_vars => (TypeOK /\ TokensArePrivate)'
  BY NextTypeOK, NextPrivate
<1>3. QED
  BY <1>1, <1>2, PTL DEF Spec

\* Every token anywhere was signed with a secret that this process has had: a
\* configured one never ages, one of an earlier run is never taken for a new one.
THEOREM TokensSigned == Spec => []TokensAreSigned
<1>1. Init => TypeOK /\ TokensAreSigned
  BY InitTypeOK, InitHeld
<1>2. (TypeOK /\ TokensAreSigned) /\ [Next]_vars => (TypeOK /\ TokensAreSigned)'
  BY NextTypeOK, NextSigned
<1>3. QED
  BY <1>1, <1>2, PTL DEF Spec

=============================================================================
