---------------------------- MODULE MCUploadQueue ----------------------------
(* Instances of UploadQueue for TLC: two uploads of one album.             *)
EXTENDS UploadQueueProperties

CONSTANTS a1, f1, f2, r1

MCAlbumOf == [f \in Files |-> a1]
MCTargetOf == [r \in Requests |-> a1]

=============================================================================
