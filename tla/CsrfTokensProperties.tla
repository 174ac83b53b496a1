-------------------------- MODULE CsrfTokensProperties --------------------------
(* What should hold of the CSRF tokens.                                        *)
EXTENDS CsrfTokens

\* The browser has a good token, and no request of its tabs is under way that
\* carries, or whose answer brings, another one.
Settled(b) ==
  /\ Valid(cookie[b])
  /\ \A t \in Tabs : BrowserOf[t] = b =>
       /\ pc[t] = "sent" => request[t].cookie = cookie[b]
       /\ answer[t].cookie \in {NoToken, cookie[b]}

\* The tab's page, and what it may have sent, go with that token.
InStep(t) ==
  LET k == cookie[BrowserOf[t]] IN
  /\ Settled(BrowserOf[t])
  /\ page[t].header = k
  /\ page[t].form = k
  /\ pc[t] = "sent" /\ request[t].op \in Unsafe => request[t].token = k
  /\ answer[t].to # "refusal"

\* The cookie is lost, or its signature: a restart without CSRF_SECRET.
Upset(t) ==
  \/ cookie'[BrowserOf[t]] = NoToken
  \/ ~configured /\ boot' # boot

\* The tab's page is gone: its request ended in an error.
Gone(t) == page'[t] = Blank /\ answer[t].to # "refusal"

\* Once a page, its browser's cookie and the requests under way agree on a
\* token they go on doing so, whatever the other tabs do, and the page is not
\* refused: until the cookie is lost or the secret changes.
PagesKeepWorking ==
  [][\A t \in Tabs : InStep(t) => InStep(t)' \/ Upset(t) \/ Gone(t)]_vars

\* The tokens in a tab's page, in its request and in the answer to it.
TabHolds(t) ==
  {page[t].header, page[t].form, request[t].cookie, request[t].token,
   answer[t].cookie}

\* The tokens of a browser: in its cookie and in its tabs.
HeldBy(b) ==
  {cookie[b]} \cup UNION {TabHolds(t) : t \in {u \in Tabs : BrowserOf[u] = b}}

\* No token is ever held by two browsers, so none is accepted that was made for
\* another one.
TokensArePrivate ==
  \A b, c \in Browsers : b # c => HeldBy(b) \cap HeldBy(c) \subseteq {NoToken}

\* Every token anywhere was signed with a secret the process has had: with
\* CSRF_SECRET set all of them stay good, without it none of a later run exists
\* and a new run begins with a secret that nobody's token is signed with.
TokensAreSigned ==
  \A k \in Held \ {NoToken} :
    k.secret \in IF configured THEN {0} ELSE 0..boot

\* A tab whose user reloads after a refusal is not refused for ever: neither
\* after restarts that changed the secret, nor because of tabs that fetched
\* tokens of their own at the same time.
RefusalsEnd ==
  \A t \in Tabs : <>[][~(Arrive(t) /\ answer'[t].to = "refusal")]_vars

=============================================================================
