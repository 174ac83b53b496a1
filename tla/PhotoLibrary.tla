----------------------------- MODULE PhotoLibrary -----------------------------
(***************************************************************************)
(* Albums, their covers and the photos in them, as the admin pages change  *)
(* them: creating, editing and deleting albums, setting a cover, deleting  *)
(* and rotating a photo, while the worker saves new ones and the janitor   *)
(* removes photos that have lost their album, and empty directories.       *)
(*                                                                         *)
(* Every request runs in a goroutine of its own: between two of its SQL    *)
(* statements or file operations any other step may happen.  Only saving a *)
(* photo holds a transaction; the database has one connection, so no       *)
(* statement runs beside it (SqlFree).                                     *)
(*                                                                         *)
(* A picture is the number of quarter turns it has been given.  A photo    *)
(* whose saving was rolled back does not use its name again.               *)
(***************************************************************************)
EXTENDS Naturals, FiniteSets

CONSTANTS
  Albums, Photos, \* ids
  Requests,       \* admin requests at work at a time
  NoAlbum, NoPhoto,
  NoFile,         \* nothing at the photo's path
  Broken,         \* a file that is no picture: half written, or two mixed
  Angles,         \* quarter turns a rotation may ask for
  ListLimit,      \* the LIMIT of DeleteAlbum's listing (1000)
  MaxFaults       \* bound: failing calls, kills, albums removed from outside

ASSUME LibraryConstants ==
  /\ NoAlbum \notin Albums
  /\ NoPhoto \notin Photos
  /\ NoFile \notin 0..3 /\ Broken \notin 0..3 /\ NoFile # Broken
  /\ Angles \subseteq 1..3
  /\ ListLimit \in Nat
  /\ MaxFaults \in Nat

VARIABLES
  albumRow, \* per album id: "unused", "live" or "gone"
  cover,    \* per album: cover_photo_id
  photoRow, \* per photo id: "unused", "saving" (not committed), "live", "gone"
  albumOf,  \* per photo: album_id
  swapped,  \* per photo: width and height are those of a quarter turn (0 or 1)
  file,     \* per photo: what its path holds
  dirs,     \* albums whose directory exists
  req,      \* per request: its next step and its locals
  saving,   \* the photo SaveProcessedImage has in its transaction
  janList,  \* photos whose rows the janitor has removed, their files still to come
  faults,   \* failures so far
  turned,   \* history: quarter turns the admin was told have been done
  excuse    \* history: per photo, the worst that has interfered with it

rowVars  == <<albumRow, cover, photoRow, albumOf, swapped>>
diskVars == <<file, dirs>>
histVars == <<turned, excuse>>
vars == <<rowVars, diskVars, req, saving, janList, faults, histVars>>

Picture == 0..3

\* What may have interfered with a photo, the worse the higher: an update of its
\* row that failed, a write of its file that was cut short, and a deletion that
\* was interrupted or did not reach it, a file that could not be removed, or two
\* requests that changed the file at once.
None == 0
StaleRow == 1
CutShort == 2
Loose == 3

Request == [op    : {"idle", "setCover", "writeAlbum", "clear", "delRow", "delFile",
                     "open", "create", "encode", "redim", "remove"},
            photo : Photos \cup {NoPhoto},
            album : Albums \cup {NoAlbum},
            seen  : Picture \cup Photos \cup {NoPhoto},  \* what it read or will write
            turn  : 0..3,
            fd    : BOOLEAN,         \* the file it has open is the one at the path
            list  : SUBSET Photos]   \* photos whose files it has still to remove

Idle == [op |-> "idle", photo |-> NoPhoto, album |-> NoAlbum, seen |-> NoPhoto,
         turn |-> 0, fd |-> FALSE, list |-> {}]

TypeOK ==
  /\ albumRow \in [Albums -> {"unused", "live", "gone"}]
  /\ cover \in [Albums -> Photos \cup {NoPhoto}]
  /\ photoRow \in [Photos -> {"unused", "saving", "live", "gone"}]
  /\ albumOf \in [Photos -> Albums \cup {NoAlbum}]
  /\ swapped \in [Photos -> 0..1]
  /\ file \in [Photos -> Picture \cup {NoFile, Broken}]
  /\ dirs \in SUBSET Albums
  /\ req \in [Requests -> Request]
  /\ saving \in Photos \cup {NoPhoto}
  /\ janList \in SUBSET Photos
  /\ faults \in 0..MaxFaults
  /\ turned \in [Photos -> Picture]
  /\ excuse \in [Photos -> None..Loose]

Init ==
  /\ albumRow = [a \in Albums |-> "unused"]
  /\ cover = [a \in Albums |-> NoPhoto]
  /\ photoRow = [p \in Photos |-> "unused"]
  /\ albumOf = [p \in Photos |-> NoAlbum]
  /\ swapped = [p \in Photos |-> 0]
  /\ file = [p \in Photos |-> NoFile]
  /\ dirs = {}
  /\ req = [q \in Requests |-> Idle]
  /\ saving = NoPhoto
  /\ janList = {}
  /\ faults = 0
  /\ turned = [p \in Photos |-> 0]
  /\ excuse = [p \in Photos |-> None]

-----------------------------------------------------------------------------

LiveAlbums == {a \in Albums : albumRow[a] = "live"}
LivePhotos == {p \in Photos : photoRow[p] = "live"}
PhotosIn(a) == {p \in LivePhotos : albumOf[p] = a}

\* The one connection is not held by a transaction.
SqlFree == saving = NoPhoto

At(q, step) == req[q].op = step
Answer(q) == req' = [req EXCEPT ![q] = Idle]
GoTo(q, step) == req' = [req EXCEPT ![q].op = step]

Fault == faults < MaxFaults /\ faults' = faults + 1

Excused(S, why) ==
  excuse' = [p \in Photos |-> IF p \in S /\ excuse[p] < why THEN why ELSE excuse[p]]

RotatingBy(q, p) == req[q].photo = p /\ req[q].op \in {"open", "create", "encode", "redim"}
DeletingBy(q, p) ==
  \/ req[q].photo = p /\ req[q].op \in {"clear", "delRow", "delFile"}
  \/ req[q].album = albumOf[p] /\ req[q].op = "remove"
InStep(p, step) == \E q \in Requests : req[q].photo = p /\ req[q].op = step
Rotating(p) == \E q \in Requests : RotatingBy(q, p)
Deleting(p) == (\E q \in Requests : DeletingBy(q, p)) \/ p \in janList

\* What requests keep when the file of p is unlinked: an open file is detached.
Detached(p) == [q \in Requests |-> IF req[q].photo = p THEN [req[q] EXCEPT !.fd = FALSE]
                                                       ELSE req[q]]

-----------------------------------------------------------------------------
(* Albums and covers.                                                      *)

CreateAlbum(a) ==
  /\ SqlFree
  /\ albumRow[a] = "unused"
  /\ albumRow' = [albumRow EXCEPT ![a] = "live"]
  /\ UNCHANGED <<cover, photoRow, albumOf, swapped, diskVars, req, saving, janList, faults, histVars>>

\* UpdateAlbum: GetAlbum, and later an UPDATE with the cover it read.
UpdateAlbumRead(q, a) ==
  /\ At(q, "idle") /\ SqlFree
  /\ a \in LiveAlbums
  /\ req' = [req EXCEPT ![q] = [Idle EXCEPT !.op = "writeAlbum", !.album = a, !.seen = cover[a]]]
  /\ UNCHANGED <<rowVars, diskVars, saving, janList, faults, histVars>>

\* Mutant of WriteCover: the two ids are mixed up.
MutWriteCoverMixesIds(a, p) ==
  cover' = IF a \in LiveAlbums THEN [cover EXCEPT ![a] = a] ELSE cover

\* Both statements that write a cover: no row, no change.
WriteCover(a, p) == cover' = IF a \in LiveAlbums THEN [cover EXCEPT ![a] = p] ELSE cover

UpdateAlbumWrite(q) ==
  /\ At(q, "writeAlbum") /\ SqlFree
  /\ WriteCover(req[q].album, req[q].seen)
  /\ Answer(q)
  /\ UNCHANGED <<albumRow, photoRow, albumOf, swapped, diskVars, saving, janList, faults, histVars>>

\* SetCoverPhoto: GetPhoto for the photo's album, and later SetAlbumCover.
SetCoverRead(q, p) ==
  /\ At(q, "idle") /\ SqlFree
  /\ p \in LivePhotos
  /\ req' = [req EXCEPT ![q] = [Idle EXCEPT !.op = "setCover", !.photo = p, !.album = albumOf[p]]]
  /\ UNCHANGED <<rowVars, diskVars, saving, janList, faults, histVars>>

SetCoverWrite(q) ==
  /\ At(q, "setCover") /\ SqlFree
  /\ WriteCover(req[q].album, req[q].photo)
  /\ Answer(q)
  /\ UNCHANGED <<albumRow, photoRow, albumOf, swapped, diskVars, saving, janList, faults, histVars>>

-----------------------------------------------------------------------------
(* Deleting a photo: the row first, then the file.                         *)

DeletePhotoRead(q, p) ==
  /\ At(q, "idle") /\ SqlFree
  /\ p \in LivePhotos
  /\ req' = [req EXCEPT ![q] = [Idle EXCEPT !.op = "clear", !.photo = p]]
  /\ Excused({p} \cap {r \in Photos : Rotating(r)}, Loose)
  /\ UNCHANGED <<rowVars, diskVars, saving, janList, faults, turned>>

\* ClearAlbumCoverIfPhoto; an error is logged and the handler goes on.
ClearCover(q) ==
  /\ At(q, "clear") /\ SqlFree
  /\ \/ /\ cover' = [a \in Albums |-> IF cover[a] = req[q].photo THEN NoPhoto ELSE cover[a]]
        /\ UNCHANGED faults
     \/ Fault /\ UNCHANGED cover
  /\ GoTo(q, "delRow")
  /\ UNCHANGED <<albumRow, photoRow, albumOf, swapped, diskVars, saving, janList, histVars>>

DeletePhotoRow(q) ==
  /\ At(q, "delRow") /\ SqlFree
  /\ \/ photoRow' = [photoRow EXCEPT ![req[q].photo] = "gone"] /\ GoTo(q, "delFile") /\ UNCHANGED faults
     \/ Fault /\ Answer(q) /\ UNCHANGED photoRow
  /\ UNCHANGED <<albumRow, cover, albumOf, swapped, diskVars, saving, janList, histVars>>

\* os.Remove; an error is logged.
DeletePhotoFile(q) ==
  /\ At(q, "delFile")
  /\ \/ /\ file' = [file EXCEPT ![req[q].photo] = NoFile]
        /\ req' = [Detached(req[q].photo) EXCEPT ![q] = Idle]
        /\ UNCHANGED <<faults, excuse>>
     \/ Fault /\ Answer(q) /\ Excused({req[q].photo}, Loose) /\ UNCHANGED file
  /\ UNCHANGED <<rowVars, dirs, saving, janList, turned>>

-----------------------------------------------------------------------------
(* Deleting an album: the files of the listed photos first, then the row,   *)
(* and with it, by the foreign key, the rows of its photos.                 *)

\* A photo past the limit of the listing keeps its file.
DeleteAlbumList(q, a) ==
  /\ At(q, "idle") /\ SqlFree
  /\ a \in LiveAlbums
  /\ \E list \in SUBSET PhotosIn(a) :
       /\ IF Cardinality(PhotosIn(a)) <= ListLimit
          THEN list = PhotosIn(a) ELSE Cardinality(list) = ListLimit
       /\ req' = [req EXCEPT ![q] = [Idle EXCEPT !.op = "remove", !.album = a, !.list = list]]
       /\ Excused({p \in PhotosIn(a) : Rotating(p) \/ p \notin list}, Loose)
  /\ UNCHANGED <<rowVars, diskVars, saving, janList, faults, turned>>

\* os.Remove; an error is ignored.
DeleteAlbumFile(q) ==
  /\ At(q, "remove")
  /\ \E p \in req[q].list :
       \/ /\ file' = [file EXCEPT ![p] = NoFile]
          /\ req' = [Detached(p) EXCEPT ![q].list = @ \ {p}]
          /\ UNCHANGED <<faults, excuse>>
       \/ /\ Fault /\ Excused({p}, Loose)
          /\ req' = [req EXCEPT ![q].list = @ \ {p}]
          /\ UNCHANGED file
  /\ UNCHANGED <<rowVars, dirs, saving, janList, turned>>

\* The foreign key takes along nothing if the album's row has gone already.
Cascade(a) == IF a \in LiveAlbums THEN PhotosIn(a) ELSE {}

DeleteAlbumRow(q) ==
  /\ At(q, "remove") /\ SqlFree
  /\ req[q].list = {}
  /\ LET a == req[q].album IN
       \/ /\ albumRow' = [albumRow EXCEPT ![a] = "gone"]
          /\ photoRow' = [p \in Photos |-> IF p \in Cascade(a) THEN "gone" ELSE photoRow[p]]
          /\ Excused(PhotosIn(a) \ Cascade(a), Loose)
          /\ UNCHANGED faults
       \/ /\ Fault
          /\ Excused(PhotosIn(a), Loose)
          /\ UNCHANGED <<albumRow, photoRow>>
  /\ Answer(q)
  /\ UNCHANGED <<cover, albumOf, swapped, diskVars, saving, janList, turned>>

\* A connection that has not switched foreign keys on (the sqlite3 shell) deletes
\* the album's row only.
AlbumLost(a) ==
  /\ Fault /\ SqlFree
  /\ a \in LiveAlbums
  /\ albumRow' = [albumRow EXCEPT ![a] = "gone"]
  /\ UNCHANGED <<cover, photoRow, albumOf, swapped, diskVars, req, saving, janList, histVars>>

-----------------------------------------------------------------------------
(* Rotating a photo: the file is read, truncated, written, and the row is   *)
(* given the new dimensions.                                                *)

RotateRead(q, p) ==
  /\ At(q, "idle") /\ SqlFree
  /\ p \in LivePhotos
  /\ \E k \in Angles :
       req' = [req EXCEPT ![q] = [Idle EXCEPT !.op = "open", !.photo = p, !.turn = k]]
  /\ Excused({p} \cap {r \in Photos : Rotating(r) \/ Deleting(r)}, Loose)
  /\ UNCHANGED <<rowVars, diskVars, saving, janList, faults, turned>>

\* The path always ends in .webp: an AVIF photo is never found, and not rotated.
RotateOpen(q) ==
  /\ At(q, "open")
  /\ LET p == req[q].photo IN
       IF file[p] \in Picture
       THEN req' = [req EXCEPT ![q].op = "create", ![q].seen = (file[p] + req[q].turn) % 4]
       ELSE Answer(q)
  /\ UNCHANGED <<rowVars, diskVars, saving, janList, faults, histVars>>

\* os.Create empties the file, or makes a new one where there is none.
RotateCreate(q) ==
  /\ At(q, "create")
  /\ LET p == req[q].photo IN
       IF albumOf[p] \in dirs
       THEN /\ file' = [file EXCEPT ![p] = Broken]
            /\ req' = [req EXCEPT ![q].op = "encode", ![q].fd = TRUE]
       ELSE Answer(q) /\ UNCHANGED file
  /\ UNCHANGED <<rowVars, dirs, saving, janList, faults, histVars>>

\* Bytes written over the bytes of another rotation may leave a part of them.
RotateEncode(q) ==
  /\ At(q, "encode")
  /\ LET p == req[q].photo IN
       \/ /\ ~req[q].fd
          /\ GoTo(q, "redim")
          /\ UNCHANGED <<file, faults, excuse>>
       \/ /\ req[q].fd
          /\ \E bytes \in {req[q].seen} \cup {b \in {Broken} : file[p] # Broken} :
               file' = [file EXCEPT ![p] = bytes]
          /\ req' = [req EXCEPT ![q].op = "redim", ![q].fd = FALSE]
          /\ UNCHANGED <<faults, excuse>>
       \/ Fault /\ Answer(q) /\ Excused({p}, CutShort) /\ UNCHANGED file
  /\ UNCHANGED <<rowVars, dirs, saving, janList, turned>>

\* Mutant of RotateRedim: the dimensions follow from the angle that was asked for.
MutRotateRedimFromAngle(q) ==
  /\ At(q, "redim") /\ SqlFree
  /\ LET p == req[q].photo IN
       \/ /\ p \in LivePhotos
          /\ swapped' = [swapped EXCEPT ![p] = req[q].turn % 2]
          /\ turned' = [turned EXCEPT ![p] = (turned[p] + req[q].turn) % 4]
          /\ UNCHANGED <<faults, excuse>>
       \/ p \notin LivePhotos /\ UNCHANGED <<swapped, turned, faults, excuse>>
       \/ Fault /\ Excused({p}, StaleRow) /\ UNCHANGED <<swapped, turned>>
  /\ Answer(q)
  /\ UNCHANGED <<albumRow, cover, photoRow, albumOf, diskVars, saving, janList>>

RotateRedim(q) ==
  /\ At(q, "redim") /\ SqlFree
  /\ LET p == req[q].photo IN
       \/ /\ p \in LivePhotos
          /\ swapped' = [swapped EXCEPT ![p] = req[q].seen % 2]
          /\ turned' = [turned EXCEPT ![p] = (turned[p] + req[q].turn) % 4]
          /\ UNCHANGED <<faults, excuse>>
       \/ p \notin LivePhotos /\ UNCHANGED <<swapped, turned, faults, excuse>>
       \/ Fault /\ Excused({p}, StaleRow) /\ UNCHANGED <<swapped, turned>>
  /\ Answer(q)
  /\ UNCHANGED <<albumRow, cover, photoRow, albumOf, diskVars, saving, janList>>

-----------------------------------------------------------------------------
(* Saving a photo: in one transaction the row, the directory, the file.     *)

\* Mutant of SaveBegin: the ids of deleted photos are given again.
MutSaveBeginReusesIds(p, a) ==
  /\ SqlFree
  /\ a \in LiveAlbums
  /\ photoRow[p] \in {"unused", "gone"}
  /\ photoRow' = [photoRow EXCEPT ![p] = "saving"]
  /\ albumOf' = [albumOf EXCEPT ![p] = a]
  /\ saving' = p
  /\ dirs' = dirs \cup {a}
  /\ UNCHANGED <<albumRow, cover, swapped, file, req, janList, faults, histVars>>

SaveBegin(p, a) ==
  /\ SqlFree
  /\ a \in LiveAlbums
  /\ photoRow[p] = "unused"
  /\ photoRow' = [photoRow EXCEPT ![p] = "saving"]
  /\ albumOf' = [albumOf EXCEPT ![p] = a]
  /\ saving' = p
  /\ dirs' = dirs \cup {a}
  /\ UNCHANGED <<albumRow, cover, swapped, file, req, janList, faults, histVars>>

\* AtomicWrite after its EnsureDir; without the directory it fails.
SaveWrite ==
  /\ saving # NoPhoto
  /\ file[saving] = NoFile
  /\ IF albumOf[saving] \in dirs
     THEN file' = [file EXCEPT ![saving] = 0] /\ UNCHANGED <<photoRow, saving>>
     ELSE /\ photoRow' = [photoRow EXCEPT ![saving] = "gone"]
          /\ saving' = NoPhoto
          /\ UNCHANGED file
  /\ UNCHANGED <<albumRow, cover, albumOf, swapped, dirs, req, janList, faults, histVars>>

\* The album is being emptied: a photo that comes to it now is not listed.
SavedTooLate ==
  {saving} \cap {p \in Photos : \E q \in Requests : At(q, "remove") /\ req[q].album = albumOf[p]}

\* Mutant of SaveCommit: the file stays when the transaction does not commit.
MutSaveCommitKeepsFile ==
  /\ saving # NoPhoto
  /\ file[saving] # NoFile
  /\ \/ /\ photoRow' = [photoRow EXCEPT ![saving] = "live"]
        /\ Excused(SavedTooLate, Loose)
        /\ UNCHANGED <<file, faults>>
     \/ /\ Fault
        /\ photoRow' = [photoRow EXCEPT ![saving] = "gone"]
        /\ UNCHANGED <<file, excuse>>
  /\ saving' = NoPhoto
  /\ UNCHANGED <<albumRow, cover, albumOf, swapped, dirs, req, janList, turned>>

\* The transaction commits, or it does not and the file is taken away again, by
\* an os.Remove whose error is ignored.
SaveCommit ==
  /\ saving # NoPhoto
  /\ file[saving] # NoFile
  /\ \/ /\ photoRow' = [photoRow EXCEPT ![saving] = "live"]
        /\ Excused(SavedTooLate, Loose)
        /\ UNCHANGED <<file, faults>>
     \/ /\ Fault
        /\ photoRow' = [photoRow EXCEPT ![saving] = "gone"]
        /\ \/ file' = [file EXCEPT ![saving] = NoFile] /\ UNCHANGED excuse
           \/ Excused({saving}, Loose) /\ UNCHANGED file
  /\ saving' = NoPhoto
  /\ UNCHANGED <<albumRow, cover, albumOf, swapped, dirs, req, janList, turned>>

-----------------------------------------------------------------------------
(* The janitor.                                                             *)

\* Mutant of Orphans: the albums are joined, not left joined.
MutOrphansInnerJoin == {p \in LivePhotos : albumRow[albumOf[p]] = "unused"}

Orphans == {p \in LivePhotos : albumRow[albumOf[p]] # "live"}

SweepRows ==
  /\ janList = {} /\ SqlFree
  /\ Orphans # {}
  /\ photoRow' = [p \in Photos |-> IF p \in Orphans THEN "gone" ELSE photoRow[p]]
  /\ janList' = Orphans
  /\ Excused({p \in Orphans : Rotating(p)}, Loose)
  /\ UNCHANGED <<albumRow, cover, albumOf, swapped, diskVars, req, saving, faults, turned>>

\* os.Remove; an error is logged.
SweepFile ==
  /\ \E p \in janList :
       /\ janList' = janList \ {p}
       /\ \/ /\ file' = [file EXCEPT ![p] = NoFile]
             /\ req' = Detached(p)
             /\ UNCHANGED <<faults, excuse>>
          \/ Fault /\ Excused({p}, Loose) /\ UNCHANGED <<file, req>>
  /\ UNCHANGED <<rowVars, dirs, saving, turned>>

\* The walk after the files: os.Remove of a directory succeeds if it is empty.
\* It follows any cycle that found an orphan, of an album outside Albums too, and
\* comes to a directory at any time: it is not tied to janList.
SweepDir ==
  /\ janList = {}
  /\ \E a \in dirs :
       /\ \A p \in Photos : albumOf[p] = a => file[p] = NoFile
       /\ dirs' = dirs \ {a}
  /\ UNCHANGED <<rowVars, file, req, saving, janList, faults, histVars>>

-----------------------------------------------------------------------------

\* The process is killed and started again: what was under way is gone, an open
\* transaction is rolled back, the files are what they are.
Crash ==
  /\ Fault
  /\ req' = [q \in Requests |-> Idle]
  /\ saving' = NoPhoto
  /\ photoRow' = [p \in Photos |-> IF photoRow[p] = "saving" THEN "gone" ELSE photoRow[p]]
  /\ janList' = {}
  /\ excuse' = [p \in Photos |->
       IF Deleting(p) \/ p = saving THEN Loose
       ELSE IF InStep(p, "encode") /\ excuse[p] < CutShort THEN CutShort
       ELSE IF InStep(p, "redim") /\ excuse[p] < StaleRow THEN StaleRow
       ELSE excuse[p]]
  /\ UNCHANGED <<albumRow, cover, albumOf, swapped, diskVars, turned>>

Step(q) ==
  \/ UpdateAlbumWrite(q) \/ SetCoverWrite(q)
  \/ ClearCover(q) \/ DeletePhotoRow(q) \/ DeletePhotoFile(q)
  \/ DeleteAlbumFile(q) \/ DeleteAlbumRow(q)
  \/ RotateOpen(q) \/ RotateCreate(q) \/ RotateEncode(q) \/ RotateRedim(q)

Sweep == SweepRows \/ SweepFile
Save  == SaveWrite \/ SaveCommit

Next ==
  \/ \E q \in Requests :
       \/ \E a \in Albums : UpdateAlbumRead(q, a) \/ DeleteAlbumList(q, a)
       \/ \E p \in Photos : SetCoverRead(q, p) \/ DeletePhotoRead(q, p) \/ RotateRead(q, p)
       \/ Step(q)
  \/ \E a \in Albums : CreateAlbum(a) \/ AlbumLost(a) \/ (\E p \in Photos : SaveBegin(p, a))
  \/ Save
  \/ Sweep
  \/ SweepDir
  \/ Crash

Spec == Init /\ [][Next]_vars

\* The janitor's ticker fires again and again, and a save that has begun ends.
FairSpec == Spec /\ WF_vars(Sweep) /\ WF_vars(Save)

=============================================================================
