------------------------ MODULE AdminSessionsProperties ------------------------
(* What should hold of logins and sessions.                                  *)
EXTENDS AdminSessions

\* A session found expired stays expired until it is deleted.
LapsedStays == \A t \in Tabs : pc[t] = "lapsed" => sid[t] \in expired

IInv == TypeOK /\ LapsedStays

Inside == [t \in Tabs |-> IF pc[t] = "handler" THEN sid[t] ELSE NoSession]

Door == INSTANCE AdminDoor WITH used <- created, due <- expired,
                                open <- rows, inside <- Inside

\* Whatever logins, logouts, expiry, the janitor and restarts run beside each
\* other: a protected handler starts only under a session that a login made
\* and that is neither logged out nor expired, and no session is lost before.
ImplementsDoor == Door!Spec

\* The sessions a browser has in its cookie, in the requests of its tabs and in
\* the answers on their way to them.
InHand(b) ==
  {cookie[b]} \cup
  UNION {{sid[t], answer[t].cookie} : t \in {u \in Tabs : BrowserOf[u] = b}}

\* No session is ever in the hands of two browsers: what one login gave out no
\* other login, lost answer, redirect or restart brings to another browser.
SessionsArePrivate ==
  \A b, c \in Browsers : b # c => InHand(b) \cap InHand(c) \cap Sessions = {}

\* The session in a browser's cookie is taken from the table only after it has
\* expired, or by a logout in a tab of that browser: the logouts of others, the
\* janitor and requests that come late do not end it.
OwnLogoutOnly ==
  [][\A b \in Browsers :
       cookie[b] \in rows \ rows' =>
         \/ cookie[b] \in expired
         \/ \E t \in Tabs : BrowserOf[t] = b /\ Logout(t)]_vars

\* Every expired session leaves the table, whether its browser comes back or not.
ExpiredAreSwept ==
  \A s \in Sessions : Lapsed(s) ~> s \notin rows

=============================================================================
