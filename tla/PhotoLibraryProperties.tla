------------------------ MODULE PhotoLibraryProperties ------------------------
(* What should hold of albums, covers, photos and their files.               *)
EXTENDS PhotoLibrary

AtWork(p) == Rotating(p) \/ Deleting(p)

\* A photo nothing has interfered with shows exactly the rotations the admin was
\* told of, and its row has the dimensions of that picture.  Interference is two
\* rotations, or a rotation and a deletion, under way at once, a write that was
\* cut short or a row that was not updated because of a failure, and a deletion
\* that was interrupted.  Even a photo with a stale row has a whole picture.
PictureMatchesRow ==
  \A p \in LivePhotos :
    ~AtWork(p) =>
      /\ excuse[p] < CutShort => file[p] \in Picture
      /\ excuse[p] = None => file[p] = turned[p] /\ swapped[p] = turned[p] % 2

\* A file without a row is one a deletion will still remove, or the photo is
\* excused: a call that should have removed the file failed or was interrupted, a
\* rotation made the file again after a deletion had removed it, or DeleteAlbum's
\* listing missed the photo, because it was committed after the listing or lay
\* past its limit.
FilesHaveRows ==
  \A p \in Photos :
    file[p] # NoFile /\ p \notin LivePhotos
      => p = saving \/ AtWork(p) \/ excuse[p] = Loose

\* A cover never shows another album's photo, however late it was written:
\* neither the id of a deleted photo nor that of an album is given again.
CoverOfOwnAlbum ==
  \A a \in Albums : cover[a] # NoPhoto => albumOf[cover[a]] = a

\* A photo whose album has gone is removed, rows first, whatever removed the album.
OrphansAreSwept ==
  \A p \in Photos :
    (p \in LivePhotos /\ albumOf[p] \notin LiveAlbums) ~> p \notin LivePhotos

\* Nobody loses a photo unasked: its row goes because a request deletes it or
\* its album, and otherwise the janitor takes it, after its album has gone.
PhotosLeaveOnRequest ==
  [][\A p \in LivePhotos \ LivePhotos' :
       \/ \E q \in Requests : DeletePhotoRow(q) /\ req[q].photo = p
       \/ \E q \in Requests : DeleteAlbumRow(q) /\ req[q].album = albumOf[p]
       \/ SweepRows /\ albumOf[p] \notin LiveAlbums]_vars

\* The file of a photo that is still there is removed by nothing but a request
\* that deletes its album: not by the end of another photo's deletion, by the
\* janitor, nor by a transaction that does not commit.
LivePhotosKeepFiles ==
  [][\A p \in LivePhotos :
       file[p] # NoFile /\ file'[p] = NoFile =>
         \E q \in Requests : DeleteAlbumFile(q) /\ req[q].album = albumOf[p]]_vars

\* The cover of an album, if it is a photo, stays one, until that photo is
\* deleted or a request writes the album's cover, be it one it read long before.
\* Neither the janitor, another album's deletion, a rolled back transaction nor a
\* crash takes it away.
CoverLapsesOnRequest ==
  [][\A a \in LiveAlbums :
       cover[a] \in LivePhotos /\ cover'[a] \notin LivePhotos' /\ a \in LiveAlbums' =>
         \E q \in Requests :
           \/ (ClearCover(q) \/ DeletePhotoRow(q)) /\ req[q].photo = cover[a]
           \/ (UpdateAlbumWrite(q) \/ SetCoverWrite(q)) /\ req[q].album = a]_vars

-----------------------------------------------------------------------------
(* What makes CoverOfOwnAlbum and FilesHaveRows inductive.                   *)

\* A photo has an album from its first row on; at most one row is not committed.
Rows ==
  \A p \in Photos :
    /\ photoRow[p] = "unused" <=> albumOf[p] = NoAlbum
    /\ photoRow[p] = "saving" <=> p = saving

\* What requests carry over their steps is still so when they use it.
Locals ==
  \A q \in Requests : LET u == req[q] IN
    /\ u.op \notin {"idle", "writeAlbum", "remove"}
         => u.photo \in Photos /\ albumOf[u.photo] # NoAlbum
    /\ u.op = "setCover" => u.album = albumOf[u.photo]
    /\ u.op \in {"writeAlbum", "remove"} => u.album \in Albums
    /\ u.op = "writeAlbum"
         => u.seen = NoPhoto \/ (u.seen \in Photos /\ albumOf[u.seen] = u.album)
    /\ u.op \in {"create", "encode", "redim"} => u.seen \in Picture

\* A rotation meets no deletion, nor a photo already deleted, unnoticed.
RotationsNoticed ==
  \A p \in Photos :
    Rotating(p) /\ (Deleting(p) \/ p \notin LivePhotos) => excuse[p] = Loose

\* Whose the file of a photo without a row is.
FilesOwned ==
  \A p \in Photos :
    file[p] # NoFile /\ p \notin LivePhotos
      => p = saving \/ InStep(p, "delFile") \/ p \in janList \/ excuse[p] = Loose

\* What is left of an album that is being emptied, but for what its listing missed.
ListsComplete ==
  \A q \in Requests : req[q].op = "remove" =>
    \A p \in PhotosIn(req[q].album) :
      file[p] # NoFile => p \in req[q].list \/ excuse[p] = Loose

IInv ==
  /\ TypeOK
  /\ Rows
  /\ Locals
  /\ CoverOfOwnAlbum
  /\ RotationsNoticed
  /\ FilesOwned
  /\ ListsComplete

-----------------------------------------------------------------------------
(* What makes PictureMatchesRow inductive, for a photo that is followed: its  *)
(* row is there, its album is not being emptied, nothing has interfered.      *)

Emptying(p) == \E q \in Requests : req[q].op = "remove" /\ req[q].album = albumOf[p]
Followed(p) == p \in LivePhotos /\ excuse[p] # Loose /\ ~Emptying(p)

\* Requests and the janitor work on photos that have been saved, and remove the
\* files of deleted ones, or of an album they are emptying.
Lifetimes ==
  /\ \A p \in Photos :
       photoRow[p] \in {"unused", "saving"}
         => turned[p] = 0 /\ swapped[p] = 0 /\ file[p] \in {NoFile, 0}
  /\ \A p \in janList : photoRow[p] = "gone"
  /\ \A q \in Requests : LET u == req[q] IN
       /\ u.op \notin {"idle", "writeAlbum", "remove"} => photoRow[u.photo] \in {"live", "gone"}
       /\ u.op = "delFile" => photoRow[u.photo] = "gone"
       /\ u.op = "remove"
            => \A p \in u.list : albumOf[p] = u.album /\ photoRow[p] \in {"live", "gone"}

OneRotation ==
  \A p \in Photos : \A q, r \in Requests :
    RotatingBy(q, p) /\ RotatingBy(r, p) /\ excuse[p] # Loose => q = r

\* The picture request q is about to give its photo.
Turned(q) == (turned[req[q].photo] + req[q].turn) % 4

RotationOf(q) == LET u == req[q] IN
  (u.op \in {"create", "encode", "redim"} /\ Followed(u.photo))
    => /\ excuse[u.photo] = None => u.seen = Turned(q)
       /\ u.op = "encode" => u.fd /\ file[u.photo] = Broken
       /\ u.op = "redim" => file[u.photo] \in Picture
       /\ u.op = "redim" /\ excuse[u.photo] = None => file[u.photo] = u.seen

\* A photo whose file no rotation is writing.
PictureOf(p) ==
  (Followed(p) /\ ~InStep(p, "encode") /\ ~InStep(p, "redim"))
    => /\ excuse[p] < CutShort => file[p] \in Picture
       /\ excuse[p] = None => file[p] = turned[p] /\ swapped[p] = turned[p] % 2

Rotations == \A q \in Requests : RotationOf(q)
StillPictures == \A p \in Photos : PictureOf(p)

PInv ==
  /\ IInv
  /\ Lifetimes
  /\ OneRotation
  /\ Rotations
  /\ StillPictures

=============================================================================
