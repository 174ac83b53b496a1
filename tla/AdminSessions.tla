---------------------------- MODULE AdminSessions ----------------------------
(***************************************************************************)
(* Login, logout, the sessions in the database, and the check in front of  *)
(* every protected handler.                                                *)
(*                                                                         *)
(* The actors are the tabs of the browsers, each with one request under    *)
(* way at most; the tabs of a browser share its session cookie.  A request *)
(* goes from one access to the database to the next, requests and answers  *)
(* pass each other and are lost when the process restarts.  A call of the  *)
(* database may fail at any time.                                          *)
(*                                                                         *)
(* The middlewares in front are CsrfTokens and RateLimiter.                *)
(***************************************************************************)
EXTENDS Naturals

CONSTANTS
  Tabs,       \* tabs
  Browsers,   \* browsers
  BrowserOf,  \* the browser of a tab
  Sessions,   \* session ids; GenerateSecureToken never returns one again
  NoSession   \* no session cookie

ASSUME SessionConstants ==
  /\ BrowserOf \in [Tabs -> Browsers]
  /\ NoSession \notin Sessions
  /\ "keep" \notin Sessions \cup {NoSession}

VARIABLES
  rows,     \* the table of sessions
  created,  \* sessions made so far
  expired,  \* sessions whose expires_at has passed
  cookie,   \* per browser: the session_id cookie
  pc,       \* per tab: where its request stands
  op,       \* per tab: what the request asks for
  sid,      \* per tab: the session cookie the request carries
  answer    \* per tab: the answer under way

table == <<rows, created, expired>>
vars  == <<table, cookie, pc, op, sid, answer>>

\* What a cookie may hold: an id some login gave out.
SessionIds == created \cup {NoSession}

Protected == {"work", "logout"}
Op == Protected \cup {"loginPage", "login"}

\* Where the answer leads; it may set or clear the cookie, or "keep" it.
Redirect == {"toLogin", "toAdmin"}
Answer   == [to : {"page"} \cup Redirect, cookie : {"keep"} \cup SessionIds]
NoAnswer == [to |-> "page", cookie |-> "keep"]

Init ==
  /\ rows = {}
  /\ created = {}
  /\ expired = {}
  /\ cookie = [b \in Browsers |-> NoSession]
  /\ pc = [t \in Tabs |-> "idle"]
  /\ op = [t \in Tabs |-> "work"]
  /\ sid = [t \in Tabs |-> NoSession]
  /\ answer = [t \in Tabs |-> NoAnswer]

---------------------------------------------------------------------------
(* The tab.                                                                *)

Send(t, o) ==
  /\ pc[t] = "idle"
  /\ pc' = [pc EXCEPT ![t] = "sent"]
  /\ op' = [op EXCEPT ![t] = o]
  /\ sid' = [sid EXCEPT ![t] = cookie[BrowserOf[t]]]
  /\ UNCHANGED <<table, cookie, answer>>

Idle(t) ==
  /\ pc' = [pc EXCEPT ![t] = "idle"]
  /\ op' = [op EXCEPT ![t] = "work"]
  /\ sid' = [sid EXCEPT ![t] = NoSession]

\* The answer's cookie is stored, then the page is shown or the redirect is
\* followed with the cookie of that moment.
Receive(t) ==
  LET b == BrowserOf[t]
      s == IF answer[t].cookie = "keep" THEN cookie[b] ELSE answer[t].cookie
  IN
  /\ pc[t] = "answered"
  /\ cookie' = [cookie EXCEPT ![b] = s]
  /\ answer' = [answer EXCEPT ![t] = NoAnswer]
  /\ \/ answer[t].to = "page" /\ Idle(t)
     \/ /\ answer[t].to \in Redirect
        /\ pc' = [pc EXCEPT ![t] = "sent"]
        /\ op' = [op EXCEPT ![t] = IF answer[t].to = "toLogin" THEN "loginPage"
                                                               ELSE "work"]
        /\ sid' = [sid EXCEPT ![t] = s]
  /\ UNCHANGED table

\* The connection breaks before the answer is through.
LoseAnswer(t) ==
  /\ pc[t] = "answered"
  /\ Idle(t)
  /\ answer' = [answer EXCEPT ![t] = NoAnswer]
  /\ UNCHANGED <<table, cookie>>

\* The cookie expires together with the session.
DropCookie(b) ==
  /\ cookie[b] \in expired
  /\ cookie' = [cookie EXCEPT ![b] = NoSession]
  /\ UNCHANGED <<table, pc, op, sid, answer>>

---------------------------------------------------------------------------
(* RequireAuth and the handlers.                                           *)

Reply(t, to, s) ==
  /\ answer' = [answer EXCEPT ![t] = [to |-> to, cookie |-> s]]
  /\ pc' = [pc EXCEPT ![t] = "answered"]
  /\ UNCHANGED <<op, sid>>

GoTo(t, where) ==
  /\ pc' = [pc EXCEPT ![t] = where]
  /\ UNCHANGED <<op, sid, answer>>

\* One reading of the row decides.
Live(s) == s \in rows \ expired
Lapsed(s) == s \in rows \cap expired

\* No row, and an error of the database, count as no session.
RequireAuth(t) ==
  /\ pc[t] = "sent"
  /\ op[t] \in Protected
  /\ \/ Live(sid[t]) /\ GoTo(t, "handler")
     \/ Lapsed(sid[t]) /\ GoTo(t, "lapsed")
     \/ Reply(t, "toLogin", "keep")
  /\ UNCHANGED <<table, cookie>>

\* LoginPage sends who is logged in on to the dashboard (isValidSession).
LoginPage(t) ==
  /\ pc[t] = "sent"
  /\ op[t] = "loginPage"
  /\ \/ Live(sid[t]) /\ Reply(t, "toAdmin", "keep")
     \/ Lapsed(sid[t]) /\ GoTo(t, "lapsed")
     \/ Reply(t, "page", "keep")
  /\ UNCHANGED <<table, cookie>>

\* Both delete a session they have found expired; an error is only logged.
DeleteLapsed(t) ==
  /\ pc[t] = "lapsed"
  /\ rows' \in {rows, rows \ {sid[t]}}
  /\ Reply(t, IF op[t] = "loginPage" THEN "page" ELSE "toLogin", "keep")
  /\ UNCHANGED <<created, expired, cookie>>

\* The wrong password or none leads back to the form, an error to its page.
LoginRefused(t) ==
  /\ pc[t] = "sent"
  /\ op[t] = "login"
  /\ \E to \in {"toLogin", "page"} : Reply(t, to, "keep")
  /\ UNCHANGED <<table, cookie>>

\* Mutant: a failed insert goes unnoticed and the cookie is set all the same.
MutLoginUnrecorded(t) ==
  /\ pc[t] = "sent"
  /\ op[t] = "login"
  /\ \E s \in Sessions \ created :
       Reply(t, "toAdmin", s) /\ UNCHANGED <<rows, created>>
  /\ UNCHANGED <<expired, cookie>>

\* The right password makes a session, also for a browser that has one; that
\* one stays in the table.
Login(t) ==
  /\ pc[t] = "sent"
  /\ op[t] = "login"
  /\ \E s \in Sessions \ created :
       /\ created' = created \cup {s}
       /\ rows' = rows \cup {s}
       /\ Reply(t, "toAdmin", s)
  /\ UNCHANGED <<expired, cookie>>

\* Mutant: DeleteUserSessions in the place of DeleteSession.
MutLogoutEverywhere(t) ==
  /\ pc[t] = "handler"
  /\ op[t] = "logout"
  /\ rows' = {}
  /\ Reply(t, "toLogin", NoSession)
  /\ UNCHANGED <<created, expired, cookie>>

\* The cookie is cleared whether or not the session could be deleted.
Logout(t) ==
  /\ pc[t] = "handler"
  /\ op[t] = "logout"
  /\ rows' \in {rows, rows \ {sid[t]}}
  /\ Reply(t, "toLogin", NoSession)
  /\ UNCHANGED <<created, expired, cookie>>

\* Any other protected handler runs to its end.
Handle(t) ==
  /\ pc[t] = "handler"
  /\ op[t] = "work"
  /\ Reply(t, "page", "keep")
  /\ UNCHANGED <<table, cookie>>

---------------------------------------------------------------------------
(* Time, the janitor and the process.                                      *)

\* 24 hours after the login.
Expire(s) ==
  /\ s \in created \ expired
  /\ expired' = expired \cup {s}
  /\ UNCHANGED <<rows, created, cookie, pc, op, sid, answer>>

\* Mutant: the stored times do not compare with CURRENT_TIMESTAMP.
MutDeleteNoSessions ==
  /\ rows \cap expired # {}
  /\ UNCHANGED vars

\* The janitor's deleteExpiredSessions.
DeleteExpiredSessions ==
  /\ rows \cap expired # {}
  /\ rows' = rows \ expired
  /\ UNCHANGED <<created, expired, cookie, pc, op, sid, answer>>

\* The table stays; requests and answers under way are lost.
Restart ==
  /\ \E t \in Tabs : pc[t] # "idle"
  /\ pc' = [t \in Tabs |-> "idle"]
  /\ op' = [t \in Tabs |-> "work"]
  /\ sid' = [t \in Tabs |-> NoSession]
  /\ answer' = [t \in Tabs |-> NoAnswer]
  /\ UNCHANGED <<table, cookie>>

Next ==
  \/ \E t \in Tabs :
       \/ \E o \in Op : Send(t, o)
       \/ Receive(t) \/ LoseAnswer(t)
       \/ RequireAuth(t) \/ LoginPage(t) \/ DeleteLapsed(t)
       \/ LoginRefused(t) \/ Login(t) \/ Logout(t) \/ Handle(t)
  \/ \E b \in Browsers : DropCookie(b)
  \/ \E s \in Sessions : Expire(s)
  \/ DeleteExpiredSessions
  \/ Restart

Spec == Init /\ [][Next]_vars

\* The janitor runs once an hour.
FairSpec == Spec /\ WF_vars(DeleteExpiredSessions)

TypeOK ==
  /\ rows \subseteq created
  /\ created \subseteq Sessions
  /\ expired \subseteq created
  /\ cookie \in [Browsers -> SessionIds]
  /\ pc \in [Tabs -> {"idle", "sent", "lapsed", "handler", "answered"}]
  /\ op \in [Tabs -> Op]
  /\ sid \in [Tabs -> SessionIds]
  /\ answer \in [Tabs -> Answer]

=============================================================================
