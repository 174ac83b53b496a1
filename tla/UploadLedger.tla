----------------------------- MODULE UploadLedger -----------------------------
(***************************************************************************)
(* What the upload queue promises, without workers, files and processes:   *)
(* an upload that was accepted for an album is published exactly once or   *)
(* refused, and for good; a published one may be erased by itself, once    *)
(* and for good; deleting the album withdraws, in one step, all that was   *)
(* ever accepted for it, and nothing is added to it afterwards.            *)
(***************************************************************************)
CONSTANTS Albums, Files, AlbumOf

VARIABLES albums, entry

vars == <<albums, entry>>

Init ==
  /\ albums = Albums
  /\ entry = [f \in Files |-> "absent"]

Move(f, from, to) ==
  /\ entry[f] = from
  /\ AlbumOf[f] \in albums
  /\ entry' = [entry EXCEPT ![f] = to]
  /\ UNCHANGED albums

Accept(f)  == Move(f, "absent", "accepted")
Publish(f) == Move(f, "accepted", "published")
Refuse(f)  == Move(f, "accepted", "refused")
Erase(f)   == Move(f, "published", "erased")

Withdraw(a) ==
  /\ albums' = albums \ {a}
  /\ entry' = [f \in Files |-> IF AlbumOf[f] = a /\ entry[f] # "absent"
                                 THEN "withdrawn" ELSE entry[f]]

Next ==
  \/ \E f \in Files : Accept(f) \/ Publish(f) \/ Refuse(f) \/ Erase(f)
  \/ \E a \in Albums : Withdraw(a)

Spec == Init /\ [][Next]_vars

=============================================================================
