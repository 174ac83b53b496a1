------------------------------ MODULE ShareQuota ------------------------------
(***************************************************************************)
(* What a share link promises about its visitors: while it exists it       *)
(* admits distinct visitors one after the other, forgets none, and never   *)
(* more than its quota (and a slack that is 0 in the ideal case); when it  *)
(* is deleted so is all it knew of them, for good.                         *)
(***************************************************************************)
EXTENDS Naturals, FiniteSets

CONSTANTS Links, Visitors, Quotas, Slack

VARIABLES phase, quota, admitted

vars == <<phase, quota, admitted>>

Init ==
  /\ phase = [l \in Links |-> "none"]
  /\ quota = [l \in Links |-> 0]
  /\ admitted = [l \in Links |-> {}]

\* A quota of 0 is no quota.
Open(l) ==
  /\ phase[l] = "none"
  /\ phase' = [phase EXCEPT ![l] = "open"]
  /\ \E n \in Quotas : quota' = [quota EXCEPT ![l] = n]
  /\ UNCHANGED admitted

Admit(l, v) ==
  /\ phase[l] = "open"
  /\ quota[l] # 0 => Cardinality(admitted[l] \cup {v}) <= quota[l] + Slack
  /\ admitted' = [admitted EXCEPT ![l] = @ \cup {v}]
  /\ UNCHANGED <<phase, quota>>

Delete(gone) ==
  /\ \A l \in gone : phase[l] = "open"
  /\ phase' = [l \in Links |-> IF l \in gone THEN "deleted" ELSE phase[l]]
  /\ admitted' = [l \in Links |-> IF l \in gone THEN {} ELSE admitted[l]]
  /\ UNCHANGED quota

Next ==
  \/ \E l \in Links : Open(l) \/ \E v \in Visitors : Admit(l, v)
  \/ \E gone \in SUBSET Links : Delete(gone)

Spec == Init /\ [][Next]_vars

=============================================================================
