------------------------------- MODULE AdminDoor -------------------------------
(***************************************************************************)
(* What login, logout and the session check promise: a protected handler   *)
(* starts only under a session that was opened by a login, has neither     *)
(* been logged out nor come due, and a session stays open until one of the *)
(* two happens, whatever the process goes through.  A session that is      *)
(* closed never opens again.  A handler that has started may outlive its   *)
(* session.                                                                *)
(***************************************************************************)
CONSTANTS Tabs, Sessions, NoSession

VARIABLES
  used,    \* sessions a login has opened
  due,     \* sessions whose time is over
  open,    \* sessions that are not closed
  inside   \* per tab: the session its handler runs under

vars == <<used, due, open, inside>>

Init ==
  /\ used = {}
  /\ due = {}
  /\ open = {}
  /\ inside = [t \in Tabs |-> NoSession]

LogIn(s) ==
  /\ s \notin used
  /\ used' = used \cup {s}
  /\ open' = open \cup {s}
  /\ UNCHANGED <<due, inside>>

Enter(t, s) ==
  /\ inside[t] = NoSession
  /\ s \in open \ due
  /\ inside' = [inside EXCEPT ![t] = s]
  /\ UNCHANGED <<used, due, open>>

Leave(t) ==
  /\ inside' = [inside EXCEPT ![t] = NoSession]
  /\ UNCHANGED <<used, due, open>>

LogOut(t) ==
  /\ inside[t] # NoSession
  /\ open' = open \ {inside[t]}
  /\ inside' = [inside EXCEPT ![t] = NoSession]
  /\ UNCHANGED <<used, due>>

ComeDue(s) ==
  /\ s \in used
  /\ due' = due \cup {s}
  /\ UNCHANGED <<used, open, inside>>

Close(S) ==
  /\ S \subseteq due
  /\ open' = open \ S
  /\ UNCHANGED <<used, due, inside>>

\* All handlers end with the process; the sessions do not.
Restart ==
  /\ inside' = [t \in Tabs |-> NoSession]
  /\ UNCHANGED <<used, due, open>>

Next ==
  \/ \E t \in Tabs : (\E s \in Sessions : Enter(t, s)) \/ Leave(t) \/ LogOut(t)
  \/ \E s \in Sessions : LogIn(s) \/ ComeDue(s)
  \/ \E S \in SUBSET Sessions : Close(S)
  \/ Restart

Spec == Init /\ [][Next]_vars

=============================================================================
