------------------------- MODULE AdminSessions_proofs -------------------------
(***************************************************************************)
(* TypeOK is inductive; with LapsedStays it makes IInv, under which every  *)
(* step of AdminSessions is a step or a stutter of AdminDoor: a tab is     *)
(* inside while its request stands at "handler", so only RequireAuth       *)
(* enters and only what takes the request away from there leaves, and what *)
(* DeleteLapsed deletes has expired. The last part follows a session       *)
(* through cookies, requests and answers: it never gets from one browser   *)
(* to another, and only its own browser logs it out.                       *)
(***************************************************************************)
EXTENDS AdminSessionsProperties, TLAPS

\* TypeOK holds at the start.
LEMMA InitTypeOK == Init => TypeOK
BY SessionConstants DEF Init, TypeOK, Op, Protected, Answer, NoAnswer, Redirect, SessionIds

\* A tab that becomes idle keeps the types of what tabs hold.
LEMMA IdleTypeOK ==
  ASSUME TypeOK, NEW t \in Tabs, Idle(t)
  PROVE  /\ pc' \in [Tabs -> {"idle", "sent", "lapsed", "handler", "answered"}]
         /\ op' \in [Tabs -> Op]
         /\ sid' \in [Tabs -> SessionIds]
BY DEF TypeOK, Idle, Op, Protected, SessionIds

\* So does one that is answered, with or without a cookie.
LEMMA ReplyTypeOK ==
  ASSUME TypeOK, NEW t \in Tabs, NEW to \in {"page"} \cup Redirect,
         NEW s, s \in ({"keep"} \cup SessionIds)', created \subseteq created',
         Reply(t, to, s)
  PROVE  /\ pc' \in [Tabs -> {"idle", "sent", "lapsed", "handler", "answered"}]
         /\ op' = op
         /\ sid' = sid
         /\ answer' \in [Tabs -> Answer']
BY DEF TypeOK, Reply, Answer, SessionIds

\* So does a request that goes on to its next step.
LEMMA GoToTypeOK ==
  ASSUME TypeOK, NEW t \in Tabs, NEW where \in {"handler", "lapsed"},
         GoTo(t, where)
  PROVE  /\ pc' \in [Tabs -> {"idle", "sent", "lapsed", "handler", "answered"}]
         /\ op' = op
         /\ sid' = sid
         /\ answer' = answer
BY DEF TypeOK, GoTo, SessionIds, Answer

\* Every step keeps TypeOK.
LEMMA NextTypeOK == TypeOK /\ [Next]_vars => TypeOK'
<1> SUFFICES ASSUME TypeOK, [Next]_vars
             PROVE  TypeOK'
    OBVIOUS
<1> USE SessionConstants
<1>k. /\ "keep" \in ({"keep"} \cup SessionIds)'
      /\ NoSession \in ({"keep"} \cup SessionIds)'
  BY DEF SessionIds
<1>1. ASSUME NEW t \in Tabs, NEW o \in Op, Send(t, o)
      PROVE  TypeOK'
  BY <1>1 DEF Send, TypeOK, table, Op, Protected, SessionIds, Answer
<1>2. ASSUME NEW t \in Tabs, Receive(t)
      PROVE  TypeOK'
  <2> DEFINE b == BrowserOf[t]
             s == IF answer[t].cookie = "keep" THEN cookie[b] ELSE answer[t].cookie
  <2>1. /\ UNCHANGED table
        /\ answer' = [answer EXCEPT ![t] = NoAnswer]
        /\ cookie' = [cookie EXCEPT ![b] = s]
    BY <1>2 DEF Receive
  <2>2. s \in SessionIds
    BY DEF TypeOK, Answer, SessionIds
  <2>3. answer' \in [Tabs -> Answer]
    BY <2>1 DEF TypeOK, Answer, NoAnswer
  <2>4. cookie' \in [Browsers -> SessionIds]
    BY <2>1, <2>2 DEF TypeOK
  <2>5. /\ pc' \in [Tabs -> {"idle", "sent", "lapsed", "handler", "answered"}]
        /\ op' \in [Tabs -> Op]
        /\ sid' \in [Tabs -> SessionIds]
    <3>1. CASE Idle(t)
      BY <3>1, IdleTypeOK
    <3>2. CASE ~Idle(t)
      BY <1>2, <2>2, <3>2 DEF Receive, TypeOK, Op, Protected
    <3>3. QED
      BY <3>1, <3>2
  <2>6. QED
    BY <2>1, <2>3, <2>4, <2>5 DEF TypeOK, table, SessionIds, Answer
<1>3. ASSUME NEW t \in Tabs, LoseAnswer(t)
      PROVE  TypeOK'
  <2>1. answer' \in [Tabs -> Answer]
    BY <1>3 DEF LoseAnswer, TypeOK, Answer, NoAnswer
  <2>2. QED
    BY <1>3, <2>1, IdleTypeOK DEF LoseAnswer, TypeOK, table, SessionIds, Answer
<1>4. ASSUME NEW t \in Tabs, RequireAuth(t)
      PROVE  TypeOK'
  BY <1>4, <1>k, ReplyTypeOK, GoToTypeOK DEF RequireAuth, TypeOK, table, Redirect, SessionIds, Answer
<1>5. ASSUME NEW t \in Tabs, LoginPage(t)
      PROVE  TypeOK'
  BY <1>5, <1>k, ReplyTypeOK, GoToTypeOK DEF LoginPage, TypeOK, table, Redirect, SessionIds, Answer
<1>6. ASSUME NEW t \in Tabs, DeleteLapsed(t)
      PROVE  TypeOK'
  BY <1>6, <1>k, ReplyTypeOK DEF DeleteLapsed, TypeOK, Redirect, SessionIds, Answer
<1>7. ASSUME NEW t \in Tabs, LoginRefused(t)
      PROVE  TypeOK'
  BY <1>7, <1>k, ReplyTypeOK DEF LoginRefused, TypeOK, table, Redirect, SessionIds, Answer
<1>8. ASSUME NEW t \in Tabs, Login(t)
      PROVE  TypeOK'
  BY <1>8, ReplyTypeOK DEF Login, TypeOK, Redirect, SessionIds
<1>9. ASSUME NEW t \in Tabs, Logout(t)
      PROVE  TypeOK'
  BY <1>9, <1>k, ReplyTypeOK DEF Logout, TypeOK, Redirect, SessionIds, Answer
<1>10. ASSUME NEW t \in Tabs, Handle(t)
       PROVE  TypeOK'
  BY <1>10, <1>k, ReplyTypeOK DEF Handle, TypeOK, table, SessionIds, Answer
<1>11. ASSUME NEW b \in Browsers, DropCookie(b)
       PROVE  TypeOK'
  BY <1>11 DEF DropCookie, TypeOK, table, SessionIds, Answer
<1>12. ASSUME NEW s \in Sessions, Expire(s)
       PROVE  TypeOK'
  BY <1>12 DEF Expire, TypeOK, SessionIds, Answer
<1>13. CASE DeleteExpiredSessions
  BY <1>13 DEF DeleteExpiredSessions, TypeOK, SessionIds, Answer
<1>14. CASE Restart
  BY <1>14 DEF Restart, TypeOK, table, Op, Protected, Answer, NoAnswer, SessionIds
<1>15. CASE UNCHANGED vars
  BY <1>15 DEF vars, table, TypeOK, SessionIds, Answer
<1>16. QED
  BY <1>1, <1>2, <1>3, <1>4, <1>5, <1>6, <1>7, <1>8, <1>9, <1>10, <1>11,
     <1>12, <1>13, <1>14, <1>15 DEF Next

---------------------------------------------------------------------------
(* The refinement.                                                         *)

\* The initial states are initial states of the door.
LEMMA InitDoor == Init => Door!Init
BY DEF Init, Door!Init, Inside

\* A session in the hand of a request that found it expired is expired until
\* it is deleted: expiry is never taken back.
LEMMA NextLapsed == IInv /\ [Next]_vars => LapsedStays'
<1> SUFFICES ASSUME IInv, Next \/ UNCHANGED vars
             PROVE  LapsedStays'
    BY DEF IInv
<1> USE DEF IInv, LapsedStays
<1>1. ASSUME NEW t \in Tabs, RequireAuth(t) \/ LoginPage(t)
      PROVE  LapsedStays'
  BY <1>1 DEF RequireAuth, LoginPage, Reply, GoTo, Lapsed, TypeOK, table
<1>2. ASSUME NEW t \in Tabs, Receive(t) \/ LoseAnswer(t)
      PROVE  LapsedStays'
  BY <1>2 DEF Receive, LoseAnswer, Idle, TypeOK, table
<1>3. ASSUME NEW t \in Tabs, DeleteLapsed(t) \/ LoginRefused(t) \/ Login(t)
                            \/ Logout(t) \/ Handle(t)
      PROVE  LapsedStays'
  BY <1>3 DEF DeleteLapsed, LoginRefused, Login, Logout, Handle, Reply, TypeOK,
              table
<1>4. ASSUME NEW t \in Tabs, NEW o \in Op, Send(t, o)
      PROVE  LapsedStays'
  BY <1>4 DEF Send, TypeOK, table
<1>5. CASE \/ \E b \in Browsers : DropCookie(b)
           \/ \E s \in Sessions : Expire(s)
           \/ DeleteExpiredSessions \/ Restart \/ UNCHANGED vars
  BY <1>5 DEF DropCookie, Expire, DeleteExpiredSessions, Restart, vars, table,
              TypeOK
<1>6. QED
  BY <1>1, <1>2, <1>3, <1>4, <1>5 DEF Next

\* A tab that is not at "handler" and does not get there stays outside.
LEMMA StaysOutside ==
  ASSUME TypeOK, NEW t \in Tabs, pc[t] # "handler", pc'[t] # "handler",
         \A u \in Tabs \ {t} : (pc'[u] = "handler" <=> pc[u] = "handler")
                               /\ sid'[u] = sid[u]
  PROVE  Inside' = Inside
BY DEF Inside

\* A tab that leaves "handler" leaves.
LEMMA Leaves ==
  ASSUME TypeOK, NEW t \in Tabs, pc[t] = "handler", pc'[t] # "handler",
         sid' = sid, \A u \in Tabs \ {t} : pc'[u] = pc[u]
  PROVE  Inside' = [Inside EXCEPT ![t] = NoSession]
BY DEF Inside

\* Every step is a step of the door or changes nothing there.
LEMMA StepDoor == IInv /\ [Next]_vars => [Door!Next]_(Door!vars)
<1> SUFFICES ASSUME TypeOK, LapsedStays, [Next]_vars
             PROVE  Door!Next \/ UNCHANGED <<created, expired, rows, Inside>>
    BY DEF Door!vars, IInv
<1> USE SessionConstants
<1>1. ASSUME NEW t \in Tabs, NEW o \in Op, Send(t, o)
      PROVE  UNCHANGED <<created, expired, rows, Inside>>
  BY <1>1, StaysOutside DEF Send, TypeOK, table
<1>2. ASSUME NEW t \in Tabs, Receive(t)
      PROVE  UNCHANGED <<created, expired, rows, Inside>>
  BY <1>2, StaysOutside DEF Receive, Idle, TypeOK, table
<1>3. ASSUME NEW t \in Tabs, LoseAnswer(t)
      PROVE  UNCHANGED <<created, expired, rows, Inside>>
  BY <1>3, StaysOutside DEF LoseAnswer, Idle, TypeOK, table
<1>4. ASSUME NEW t \in Tabs, RequireAuth(t)
      PROVE  Door!Next \/ UNCHANGED <<created, expired, rows, Inside>>
  <2>1. CASE Live(sid[t]) /\ GoTo(t, "handler")
    <3>1. sid[t] \in rows \ expired /\ sid[t] \in Sessions
      BY <2>1 DEF Live, TypeOK
    <3>2. Inside[t] = NoSession /\ Inside' = [Inside EXCEPT ![t] = sid[t]]
      BY <1>4, <2>1 DEF RequireAuth, GoTo, Inside, TypeOK
    <3>3. Door!Enter(t, sid[t])
      BY <1>4, <3>1, <3>2 DEF Door!Enter, RequireAuth, table
    <3>4. QED
      BY <3>1, <3>3 DEF Door!Next
  <2>2. CASE Lapsed(sid[t]) /\ GoTo(t, "lapsed")
    BY <1>4, <2>2, StaysOutside DEF RequireAuth, GoTo, TypeOK, table
  <2>3. CASE Reply(t, "toLogin", "keep")
    BY <1>4, <2>3, StaysOutside DEF RequireAuth, Reply, TypeOK, table
  <2>4. QED
    BY <1>4, <2>1, <2>2, <2>3 DEF RequireAuth
<1>5. ASSUME NEW t \in Tabs, LoginPage(t)
      PROVE  UNCHANGED <<created, expired, rows, Inside>>
  BY <1>5, StaysOutside DEF LoginPage, Reply, GoTo, TypeOK, table
<1>6. ASSUME NEW t \in Tabs, DeleteLapsed(t)
      PROVE  Door!Next \/ UNCHANGED <<created, expired, rows, Inside>>
  <2>1. UNCHANGED <<created, expired, Inside>>
    BY <1>6, StaysOutside DEF DeleteLapsed, Reply, TypeOK
  <2>2. rows' = rows \/ rows' = rows \ {sid[t]}
    BY <1>6 DEF DeleteLapsed
  <2>3. sid[t] \in expired
    BY <1>6 DEF DeleteLapsed, LapsedStays
  <2>4. rows' = rows \/ Door!Close({sid[t]})
    BY <2>1, <2>2, <2>3 DEF Door!Close
  <2>5. QED
    BY <2>1, <2>3, <2>4 DEF Door!Next, TypeOK
<1>7. ASSUME NEW t \in Tabs, LoginRefused(t)
      PROVE  UNCHANGED <<created, expired, rows, Inside>>
  BY <1>7, StaysOutside DEF LoginRefused, Reply, TypeOK, table
<1>8. ASSUME NEW t \in Tabs, Login(t)
      PROVE  Door!Next
  <2>1. UNCHANGED <<expired, Inside>>
    BY <1>8, StaysOutside DEF Login, Reply, TypeOK
  <2>2. PICK s \in Sessions \ created :
          created' = created \cup {s} /\ rows' = rows \cup {s}
    BY <1>8 DEF Login
  <2>3. Door!LogIn(s)
    BY <2>1, <2>2 DEF Door!LogIn
  <2>4. QED
    BY <2>3 DEF Door!Next
<1>9. ASSUME NEW t \in Tabs, Logout(t)
      PROVE  Door!Next
  <2>1. UNCHANGED <<created, expired>> /\ Inside' = [Inside EXCEPT ![t] = NoSession]
    BY <1>9, Leaves DEF Logout, Reply, TypeOK
  <2>2. CASE rows' = rows \/ sid[t] = NoSession
    <3>1. rows' = rows
      BY <1>9, <2>2 DEF Logout, TypeOK
    <3>2. Door!Leave(t)
      BY <2>1, <3>1 DEF Door!Leave
    <3>3. QED
      BY <3>2 DEF Door!Next
  <2>3. CASE rows' = rows \ {sid[t]} /\ sid[t] # NoSession
    <3>1. Inside[t] = sid[t]
      BY <1>9 DEF Logout, Inside
    <3>2. Door!LogOut(t)
      BY <2>1, <2>3, <3>1 DEF Door!LogOut
    <3>3. QED
      BY <3>2 DEF Door!Next
  <2>4. QED
    BY <1>9, <2>2, <2>3 DEF Logout
<1>10. ASSUME NEW t \in Tabs, Handle(t)
       PROVE  Door!Next
  <2>1. UNCHANGED <<created, expired, rows>>
        /\ Inside' = [Inside EXCEPT ![t] = NoSession]
    BY <1>10, Leaves DEF Handle, Reply, TypeOK, table
  <2>2. Door!Leave(t)
    BY <2>1 DEF Door!Leave
  <2>3. QED
    BY <2>2 DEF Door!Next
<1>11. ASSUME NEW b \in Browsers, DropCookie(b)
       PROVE  UNCHANGED <<created, expired, rows, Inside>>
  BY <1>11 DEF DropCookie, table, Inside
<1>12. ASSUME NEW s \in Sessions, Expire(s)
       PROVE  Door!Next
  <2>1. Door!ComeDue(s)
    BY <1>12 DEF Expire, Door!ComeDue, Inside
  <2>2. QED
    BY <2>1 DEF Door!Next
<1>13. CASE DeleteExpiredSessions
  <2>1. Door!Close(expired)
    BY <1>13 DEF DeleteExpiredSessions, Door!Close, Inside
  <2>2. QED
    BY <2>1 DEF Door!Next, TypeOK
<1>14. CASE Restart
  <2>1. Door!Restart
    BY <1>14 DEF Restart, Door!Restart, Inside, table
  <2>2. QED
    BY <2>1 DEF Door!Next
<1>15. CASE UNCHANGED vars
  BY <1>15 DEF vars, table, Inside
<1>16. QED
  BY <1>1, <1>2, <1>3, <1>4, <1>5, <1>6, <1>7, <1>8, <1>9, <1>10, <1>11,
     <1>12, <1>13, <1>14, <1>15 DEF Next

---------------------------------------------------------------------------

\* IInv holds at the start.
LEMMA InitIInv == Init => IInv
BY InitTypeOK DEF Init, IInv, LapsedStays

\* Every step keeps IInv.
LEMMA NextIInv == IInv /\ [Next]_vars => IInv'
BY NextTypeOK, NextLapsed DEF IInv

\* TypeOK holds in every state, for any tabs, browsers and sessions: every id
\* in a cookie or a request was made by a login.
THEOREM TypeCorrect == Spec => []TypeOK
BY InitTypeOK, NextTypeOK, PTL DEF Spec


\* For any tabs, browsers and sessions, AdminSessions does what AdminDoor
\* promises: ImplementsDoor.
THEOREM DoorImplemented == Spec => ImplementsDoor
<1>1. Spec => Door!Init /\ [][Door!Next]_(Door!vars)
  BY InitIInv, NextIInv, InitDoor, StepDoor, PTL DEF Spec
<1>2. QED
  BY <1>1 DEF ImplementsDoor, Door!Spec

---------------------------------------------------------------------------
(* Whose session it is.                                                    *)

\* InHand, element by element.
LEMMA InHandMeans ==
  ASSUME NEW b, NEW s
  PROVE  s \in InHand(b) <=>
           \/ s = cookie[b]
           \/ \E t \in Tabs : BrowserOf[t] = b /\ s \in {sid[t], answer[t].cookie}
BY DEF InHand

\* What a browser holds is in its cookie or comes from a tab of it.
LEMMA InHandMeansNext ==
  ASSUME NEW b, NEW s
  PROVE  s \in InHand(b)' <=>
           \/ s = cookie'[b]
           \/ \E t \in Tabs : BrowserOf[t] = b /\ s \in {sid'[t], answer'[t].cookie}
BY DEF InHand

\* Sessions stay private in a step that gives out one session at most, that
\* only one browser gets, and that nobody has.
LEMMA PrivateStays ==
  ASSUME SessionsArePrivate, NEW t \in Tabs, NEW k,
         k \in Sessions => \A b \in Browsers : k \notin InHand(b),
         \A b \in Browsers :
           InHand(b)' \cap Sessions \subseteq
             InHand(b) \cup (IF b = BrowserOf[t] THEN {k} ELSE {})
  PROVE  SessionsArePrivate'
<1> SUFFICES ASSUME NEW b \in Browsers, NEW c \in Browsers, b # c,
                    NEW s \in Sessions, s \in InHand(b)', s \in InHand(c)'
             PROVE  FALSE
    BY DEF SessionsArePrivate
<1>1. \/ s \in InHand(b)
      \/ b = BrowserOf[t] /\ s = k
    OBVIOUS
<1>2. \/ s \in InHand(c)
      \/ c = BrowserOf[t] /\ s = k
    OBVIOUS
<1>3. ~(s \in InHand(b) /\ s \in InHand(c))
    BY DEF SessionsArePrivate
<1>4. QED
    BY <1>1, <1>2, <1>3

\* A step that gives no browser a session it did not have.
LEMMA PrivateKept ==
  ASSUME SessionsArePrivate,
         \A b \in Browsers : InHand(b)' \cap Sessions \subseteq InHand(b)
  PROVE  SessionsArePrivate'
<1> SUFFICES ASSUME NEW b \in Browsers, NEW c \in Browsers, b # c,
                    NEW s \in Sessions, s \in InHand(b)', s \in InHand(c)'
             PROVE  FALSE
    BY DEF SessionsArePrivate
<1>1. s \in InHand(b) /\ s \in InHand(c)
    OBVIOUS
<1>2. QED
    BY <1>1 DEF SessionsArePrivate

\* Sessions that are in hand have been created.
LEMMA InHandIsCreated ==
  ASSUME TypeOK, NEW b \in Browsers, NEW s \in Sessions, s \in InHand(b)
  PROVE  s \in created
<1> USE SessionConstants
<1>1. cookie[b] \in SessionIds
  BY DEF TypeOK
<1>2. \A t \in Tabs : sid[t] \in SessionIds /\ answer[t].cookie \in {"keep"} \cup SessionIds
  BY DEF TypeOK, Answer
<1>3. s \in {"keep"} \cup SessionIds
  BY <1>1, <1>2, InHandMeans
<1>4. QED
  BY <1>3 DEF SessionIds

\* No step brings a session from one browser to another.
LEMMA NextPrivate ==
  TypeOK /\ SessionsArePrivate /\ [Next]_vars => SessionsArePrivate'
<1> SUFFICES ASSUME TypeOK, SessionsArePrivate, [Next]_vars
             PROVE  SessionsArePrivate'
    OBVIOUS
<1> USE SessionConstants
<1>a. BrowserOf \in [Tabs -> Browsers]
  OBVIOUS
<1>b. /\ DOMAIN sid = Tabs /\ DOMAIN answer = Tabs /\ DOMAIN cookie = Browsers
  BY DEF TypeOK
<1>c. ASSUME NEW t \in Tabs, UNCHANGED <<cookie, sid>>,
             NEW to, NEW k \in {"keep", NoSession}, Reply(t, to, k)
      PROVE  SessionsArePrivate'
  <2>1. answer'[t].cookie = k /\ \A u \in Tabs \ {t} : answer'[u] = answer[u]
    BY <1>b, <1>c DEF Reply
  <2>2. k \notin Sessions
    OBVIOUS
  <2>3. \A b \in Browsers : InHand(b)' \cap Sessions \subseteq InHand(b)
    BY <1>c, <2>1, <2>2, InHandMeans, InHandMeansNext
  <2>4. QED
    BY <2>3, PrivateKept
<1>d. ASSUME UNCHANGED <<cookie, sid, answer>>
      PROVE  SessionsArePrivate'
  BY <1>d DEF SessionsArePrivate, InHand
<1>1. ASSUME NEW t \in Tabs, NEW o \in Op, Send(t, o)
      PROVE  SessionsArePrivate'
  <2>1. /\ UNCHANGED <<cookie, answer>>
        /\ sid'[t] = cookie[BrowserOf[t]]
        /\ \A u \in Tabs \ {t} : sid'[u] = sid[u]
    BY <1>1, <1>b DEF Send
  <2>2. \A b \in Browsers : InHand(b)' \cap Sessions \subseteq InHand(b)
    BY <2>1, InHandMeans, InHandMeansNext
  <2>3. QED
    BY <2>2, PrivateKept
<1>2. ASSUME NEW t \in Tabs, Receive(t)
      PROVE  SessionsArePrivate'
  <2> DEFINE c == BrowserOf[t]
             k == IF answer[t].cookie = "keep" THEN cookie[c] ELSE answer[t].cookie
  <2>1. /\ cookie'[c] = k
        /\ \A b \in Browsers \ {c} : cookie'[b] = cookie[b]
        /\ answer'[t].cookie = "keep"
        /\ \A u \in Tabs \ {t} : answer'[u] = answer[u]
    BY <1>2, <1>a, <1>b DEF Receive, NoAnswer
  <2>2. sid'[t] \in {k, NoSession} /\ \A u \in Tabs \ {t} : sid'[u] = sid[u]
    BY <1>2, <1>b DEF Receive, Idle
  <2>3. k \in InHand(c)
    BY InHandMeans
  <2> HIDE DEF k
  <2>4. \A b \in Browsers : InHand(b)' \cap Sessions \subseteq InHand(b)
    BY <2>1, <2>2, <2>3, InHandMeans, InHandMeansNext
  <2>5. QED
    BY <2>4, PrivateKept
<1>3. ASSUME NEW t \in Tabs, LoseAnswer(t)
      PROVE  SessionsArePrivate'
  <2>1. /\ UNCHANGED cookie
        /\ answer'[t].cookie = "keep"
        /\ sid'[t] = NoSession
        /\ \A u \in Tabs \ {t} : answer'[u] = answer[u] /\ sid'[u] = sid[u]
    BY <1>3, <1>b DEF LoseAnswer, Idle, NoAnswer
  <2>2. \A b \in Browsers : InHand(b)' \cap Sessions \subseteq InHand(b)
    BY <2>1, InHandMeans, InHandMeansNext
  <2>3. QED
    BY <2>2, PrivateKept
<1>4. ASSUME NEW t \in Tabs, RequireAuth(t)
      PROVE  SessionsArePrivate'
  BY <1>4, <1>c, <1>d DEF RequireAuth, GoTo, Reply
<1>5. ASSUME NEW t \in Tabs, LoginPage(t)
      PROVE  SessionsArePrivate'
  BY <1>5, <1>c, <1>d DEF LoginPage, GoTo, Reply
<1>6. ASSUME NEW t \in Tabs, DeleteLapsed(t) \/ Logout(t) \/ Handle(t) \/ LoginRefused(t)
      PROVE  SessionsArePrivate'
  <2>1. UNCHANGED <<cookie, sid>>
    BY <1>6 DEF DeleteLapsed, Logout, Handle, LoginRefused, Reply
  <2>2. \E to : \E k \in {"keep", NoSession} : Reply(t, to, k)
    BY <1>6 DEF DeleteLapsed, Logout, Handle, LoginRefused
  <2>3. QED
    BY <1>c, <2>1, <2>2
<1>7. ASSUME NEW t \in Tabs, Login(t)
      PROVE  SessionsArePrivate'
  <2>1. PICK s \in Sessions \ created : Reply(t, "toAdmin", s) /\ UNCHANGED cookie
    BY <1>7 DEF Login
  <2>2. /\ UNCHANGED <<cookie, sid>>
        /\ answer'[t].cookie = s
        /\ \A u \in Tabs \ {t} : answer'[u] = answer[u]
    BY <1>b, <2>1 DEF Reply
  <2>3. \A b \in Browsers : s \notin InHand(b)
    BY InHandIsCreated
  <2>4. \A b \in Browsers : InHand(b)' \cap Sessions \subseteq
                              InHand(b) \cup (IF b = BrowserOf[t] THEN {s} ELSE {})
    BY <2>2, InHandMeans, InHandMeansNext
  <2>5. QED
    BY <2>3, <2>4, PrivateStays
<1>8. ASSUME NEW b \in Browsers, DropCookie(b)
      PROVE  SessionsArePrivate'
  <2>1. /\ UNCHANGED <<sid, answer>>
        /\ cookie'[b] = NoSession
        /\ \A c \in Browsers \ {b} : cookie'[c] = cookie[c]
    BY <1>8, <1>b DEF DropCookie
  <2>2. \A c \in Browsers : InHand(c)' \cap Sessions \subseteq InHand(c)
    BY <2>1, InHandMeans, InHandMeansNext
  <2>3. QED
    BY <2>2, PrivateKept
<1>9. CASE (\E s \in Sessions : Expire(s)) \/ DeleteExpiredSessions \/ UNCHANGED vars
  BY <1>9, <1>d DEF Expire, DeleteExpiredSessions, vars
<1>10. CASE Restart
  <2>1. /\ UNCHANGED cookie
        /\ \A u \in Tabs : answer'[u].cookie = "keep" /\ sid'[u] = NoSession
    BY <1>10 DEF Restart, NoAnswer
  <2>2. \A b \in Browsers : InHand(b)' \cap Sessions \subseteq InHand(b)
    BY <2>1, InHandMeans, InHandMeansNext
  <2>3. QED
    BY <2>2, PrivateKept
<1>11. QED
  BY <1>1, <1>2, <1>3, <1>4, <1>5, <1>6, <1>7, <1>8, <1>9, <1>10 DEF Next

\* At the start nobody holds one.
LEMMA InitPrivate == Init => SessionsArePrivate
<1> SUFFICES ASSUME Init
             PROVE  SessionsArePrivate
    OBVIOUS
<1> USE SessionConstants
<1>1. /\ \A b \in Browsers : cookie[b] = NoSession
      /\ \A t \in Tabs : sid[t] = NoSession /\ answer[t].cookie = "keep"
  BY DEF Init, NoAnswer
<1>2. \A b \in Browsers : InHand(b) \cap Sessions = {}
  BY <1>1, InHandMeans
<1>3. QED
  BY <1>2 DEF SessionsArePrivate

\* A step that deletes rows deletes expired ones, or is a logout and deletes
\* the row of the session that its request carries.
LEMMA WhatIsDeleted ==
  ASSUME IInv, [Next]_vars, NEW s \in rows \ rows'
  PROVE  \/ s \in expired
         \/ \E t \in Tabs : Logout(t) /\ s = sid[t]
<1>1. ASSUME NEW t \in Tabs, NEW o \in Op, Send(t, o)
      PROVE  FALSE
  BY <1>1 DEF Send, table
<1>2. ASSUME NEW t \in Tabs,
             Receive(t) \/ LoseAnswer(t) \/ RequireAuth(t) \/ LoginPage(t)
                        \/ LoginRefused(t) \/ Login(t) \/ Handle(t)
      PROVE  FALSE
  BY <1>2 DEF Receive, LoseAnswer, RequireAuth, LoginPage, LoginRefused, Login,
              Handle, table
<1>3. ASSUME NEW t \in Tabs, DeleteLapsed(t)
      PROVE  s \in expired
  BY <1>3 DEF DeleteLapsed, IInv, LapsedStays
<1>4. ASSUME NEW t \in Tabs, Logout(t)
      PROVE  s = sid[t]
  BY <1>4 DEF Logout
<1>5. CASE (\E b \in Browsers : DropCookie(b)) \/ (\E e \in Sessions : Expire(e))
           \/ Restart \/ UNCHANGED vars
  BY <1>5 DEF DropCookie, Expire, Restart, vars, table
<1>6. CASE DeleteExpiredSessions
  BY <1>6 DEF DeleteExpiredSessions
<1>7. QED
  BY <1>1, <1>2, <1>3, <1>4, <1>5, <1>6 DEF Next

\* A logout ends the session of its own browser only.
LEMMA StepOwnLogout ==
  ASSUME IInv, SessionsArePrivate, [Next]_vars, NEW b \in Browsers,
         cookie[b] \in rows \ rows', cookie[b] \notin expired
  PROVE  \E t \in Tabs : BrowserOf[t] = b /\ Logout(t)
<1> USE SessionConstants
<1>1. PICK t \in Tabs : Logout(t) /\ cookie[b] = sid[t]
  BY WhatIsDeleted
<1>2. cookie[b] \in Sessions
  BY DEF IInv, TypeOK
<1>3. cookie[b] \in InHand(b) /\ cookie[b] \in InHand(BrowserOf[t])
  BY <1>1, InHandMeans
<1>4. BrowserOf[t] = b
  BY <1>2, <1>3 DEF SessionsArePrivate
<1>5. QED
  BY <1>1, <1>4

\* A session never gets from one browser to another, for any number of
\* browsers, tabs and logins.
THEOREM SessionsPrivate == Spec => []SessionsArePrivate
<1>1. Init => TypeOK /\ SessionsArePrivate
  BY InitTypeOK, InitPrivate
<1>2. (TypeOK /\ SessionsArePrivate) /\ [Next]_vars => (TypeOK /\ SessionsArePrivate)'
  BY NextTypeOK, NextPrivate
<1>3. QED
  BY <1>1, <1>2, PTL DEF Spec

\* The session of a browser ends when it has expired or that browser logs out.
THEOREM LogoutIsOwn == Spec => OwnLogoutOnly
<1>1. IInv /\ SessionsArePrivate /\ [Next]_vars =>
        [\A b \in Browsers :
           cookie[b] \in rows \ rows' =>
             \/ cookie[b] \in expired
             \/ \E t \in Tabs : BrowserOf[t] = b /\ Logout(t)]_vars
  BY StepOwnLogout
<1>2. Init => IInv /\ SessionsArePrivate
  BY InitIInv, InitPrivate
<1>3. (IInv /\ SessionsArePrivate) /\ [Next]_vars => (IInv /\ SessionsArePrivate)'
  BY NextIInv, NextPrivate DEF IInv
<1>4. QED
  BY <1>1, <1>2, <1>3, PTL DEF Spec, OwnLogoutOnly

=============================================================================
