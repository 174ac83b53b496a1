-------------------------- MODULE PhotoLibrary_proofs --------------------------
(***************************************************************************)
(* Proofs about the photo library, for any albums, photos and requests.    *)
(* IInv ties covers, rows, files and what requests remember together; PInv *)
(* adds, for a photo nothing has interfered with, where its rotation       *)
(* stands. One lemma per action (XStep for IInv, XPicture for PInv), with  *)
(* one step per part of the invariant; the theorems follow. At the end,    *)
(* what photos, files and covers are lost to.                              *)
(***************************************************************************)
EXTENDS PhotoLibraryProperties, TLAPS

\* What a request keeps when the file of some photo is unlinked.
Same(u, v) ==
  u.op = v.op /\ u.photo = v.photo /\ u.album = v.album /\ u.seen = v.seen

\* Detaching an open file changes nothing else a request holds.
LEMMA DetachedRequests ==
  ASSUME TypeOK, NEW p
  PROVE  /\ Detached(p) \in [Requests -> Request]
         /\ \A q \in Requests : Same(Detached(p)[q], req[q]) /\ Detached(p)[q].list = req[q].list
<1>1. \A u \in Request : [u EXCEPT !.fd = FALSE] \in Request /\ Same([u EXCEPT !.fd = FALSE], u)
                         /\ [u EXCEPT !.fd = FALSE].list = u.list
  BY DEF Request, Same
<1>2. \A q \in Requests : Detached(p)[q] = [req[q] EXCEPT !.fd = FALSE] \/ Detached(p)[q] = req[q]
  BY DEF Detached
<1>3. Detached(p) = [q \in Requests |-> Detached(p)[q]]
  BY DEF Detached
<1>4. \A q \in Requests : req[q] \in Request
  BY DEF TypeOK
<1> HIDE DEF Detached
<1>5. \A q \in Requests : Detached(p)[q] \in Request
  BY <1>1, <1>2, <1>4
<1> QED
  BY <1>1, <1>2, <1>3, <1>4, <1>5 DEF Same

\* An idle request has the type of requests.
LEMMA IdleRequest == Idle \in Request
  BY DEF Idle, Request, Picture

\* A step on the files and lists of albums that are being emptied: what it takes
\* from a list loses its file or is excused, and no live photo gains a file.
LEMMA KeepLists ==
  ASSUME ListsComplete,
         \A p \in LivePhotos' :
           /\ p \in LivePhotos /\ albumOf'[p] = albumOf[p]
           /\ excuse[p] = Loose => excuse'[p] = Loose
           /\ file'[p] # NoFile => file[p] # NoFile \/ excuse'[p] = Loose,
         \A r \in Requests : req'[r].op = "remove" =>
           /\ req[r].op = "remove" /\ req'[r].album = req[r].album
           /\ \A p \in req[r].list \ req'[r].list : file'[p] = NoFile \/ excuse'[p] = Loose
  PROVE  ListsComplete'
BY DEF ListsComplete, PhotosIn

\* CreateAlbum keeps IInv: a new album has no photo and no request knows of
\* it.
LEMMA CreateAlbumStep ==
  ASSUME IInv, NEW a \in Albums, CreateAlbum(a)
  PROVE  IInv'
<1>1. TypeOK'
  BY DEF IInv, TypeOK, CreateAlbum, diskVars, histVars
<1>2. Rows'
  BY DEF IInv, Rows, CreateAlbum
<1>3. Locals'
  BY DEF IInv, Locals, CreateAlbum
<1>4. CoverOfOwnAlbum'
  BY DEF IInv, CoverOfOwnAlbum, CreateAlbum
<1>5. RotationsNoticed'
  BY DEF IInv, RotationsNoticed, Rotating, RotatingBy, Deleting, DeletingBy, LivePhotos,
         CreateAlbum, histVars
<1>6. FilesOwned'
  BY DEF IInv, FilesOwned, InStep, LivePhotos, CreateAlbum, diskVars, histVars
<1>7. ListsComplete'
  BY DEF IInv, TypeOK, Request, Idle, ListsComplete, PhotosIn, LivePhotos, CreateAlbum, At,
         Answer, GoTo, Excused, rowVars, diskVars, histVars
<1> QED
  BY <1>1, <1>2, <1>3, <1>4, <1>5, <1>6, <1>7 DEF IInv

\* UpdateAlbumRead keeps IInv: the cover that is read is of the album it is
\* read from.
LEMMA UpdateAlbumReadStep ==
  ASSUME IInv, NEW q \in Requests, NEW a \in Albums, UpdateAlbumRead(q, a)
  PROVE  IInv'
<1>1. TypeOK'
  <2>1. [Idle EXCEPT !.op = "writeAlbum", !.album = a, !.seen = cover[a]] \in Request
    BY IdleRequest DEF IInv, TypeOK, Request, LivePhotos, PhotosIn
  <2> QED
    BY <2>1, LibraryConstants
       DEF IInv, TypeOK, UpdateAlbumRead, rowVars, diskVars, histVars
<1>2. Rows'
  BY DEF IInv, Rows, UpdateAlbumRead, rowVars
<1>3. Locals'
  BY DEF IInv, TypeOK, Locals, CoverOfOwnAlbum, UpdateAlbumRead, rowVars
<1>4. CoverOfOwnAlbum'
  BY DEF IInv, CoverOfOwnAlbum, UpdateAlbumRead, rowVars
<1>5. RotationsNoticed'
  BY DEF IInv, RotationsNoticed, Rotating, RotatingBy, Deleting, DeletingBy, LivePhotos,
         UpdateAlbumRead, rowVars, histVars
<1>6. FilesOwned'
  BY DEF IInv, FilesOwned, InStep, LivePhotos, UpdateAlbumRead, At, rowVars, diskVars,
         histVars
<1>7. ListsComplete'
  BY DEF IInv, TypeOK, Request, Idle, ListsComplete, PhotosIn, LivePhotos, UpdateAlbumRead, At,
         Answer, GoTo, Excused, rowVars, diskVars, histVars
<1> QED
  BY <1>1, <1>2, <1>3, <1>4, <1>5, <1>6, <1>7 DEF IInv

\* UpdateAlbumWrite keeps IInv: the cover written back, however old, was one
\* of the same album, and a photo never changes its album.
LEMMA UpdateAlbumWriteStep ==
  ASSUME IInv, NEW q \in Requests, UpdateAlbumWrite(q)
  PROVE  IInv'
<1>1. TypeOK'
  BY DEF IInv, TypeOK, Locals, Request, Idle, UpdateAlbumWrite, At, Answer, diskVars,
         histVars, WriteCover
<1>2. Rows'
  BY DEF IInv, Rows, UpdateAlbumWrite
<1>3. Locals'
  BY DEF IInv, Locals, Idle, UpdateAlbumWrite, Answer
<1>4. CoverOfOwnAlbum'
  BY DEF IInv, Locals, CoverOfOwnAlbum, UpdateAlbumWrite, At, WriteCover
<1>5. RotationsNoticed'
  BY DEF IInv, RotationsNoticed, Rotating, RotatingBy, Deleting, DeletingBy, Idle,
         LivePhotos, UpdateAlbumWrite, Answer, histVars
<1>6. FilesOwned'
  BY DEF IInv, FilesOwned, InStep, LivePhotos, UpdateAlbumWrite, At, Answer, diskVars,
         histVars
<1>7. ListsComplete'
  BY DEF IInv, TypeOK, Request, Idle, ListsComplete, PhotosIn, LivePhotos, UpdateAlbumWrite, At,
         Answer, GoTo, Excused, rowVars, diskVars, histVars
<1> QED
  BY <1>1, <1>2, <1>3, <1>4, <1>5, <1>6, <1>7 DEF IInv

\* SetCoverRead keeps IInv: the album that is read is that of the photo.
LEMMA SetCoverReadStep ==
  ASSUME IInv, NEW q \in Requests, NEW p \in Photos, SetCoverRead(q, p)
  PROVE  IInv'
<1>1. TypeOK'
  <2>1. [Idle EXCEPT !.op = "setCover", !.photo = p, !.album = albumOf[p]] \in Request
    BY IdleRequest DEF IInv, TypeOK, Request, LivePhotos, PhotosIn
  <2> QED
    BY <2>1, LibraryConstants
       DEF IInv, TypeOK, SetCoverRead, rowVars, diskVars, histVars
<1>2. Rows'
  BY DEF IInv, Rows, SetCoverRead, rowVars
<1>3. Locals'
  BY DEF IInv, Rows, Locals, LivePhotos, SetCoverRead, rowVars
<1>4. CoverOfOwnAlbum'
  BY DEF IInv, CoverOfOwnAlbum, SetCoverRead, rowVars
<1>5. RotationsNoticed'
  BY DEF IInv, RotationsNoticed, Rotating, RotatingBy, Deleting, DeletingBy, LivePhotos,
         SetCoverRead, rowVars, histVars
<1>6. FilesOwned'
  BY DEF IInv, FilesOwned, InStep, LivePhotos, SetCoverRead, At, rowVars, diskVars,
         histVars
<1>7. ListsComplete'
  BY DEF IInv, TypeOK, Request, Idle, ListsComplete, PhotosIn, LivePhotos, SetCoverRead, At,
         Answer, GoTo, Excused, rowVars, diskVars, histVars
<1> QED
  BY <1>1, <1>2, <1>3, <1>4, <1>5, <1>6, <1>7 DEF IInv

\* SetCoverWrite keeps IInv: the cover written is of the album it is written
\* to, also if the photo has gone meanwhile.
LEMMA SetCoverWriteStep ==
  ASSUME IInv, NEW q \in Requests, SetCoverWrite(q)
  PROVE  IInv'
<1>1. TypeOK'
  BY DEF IInv, TypeOK, Request, Idle, LiveAlbums, SetCoverWrite, Answer, diskVars,
         histVars, WriteCover
<1>2. Rows'
  BY DEF IInv, Rows, SetCoverWrite
<1>3. Locals'
  BY DEF IInv, Locals, Idle, SetCoverWrite, Answer
<1>4. CoverOfOwnAlbum'
  BY DEF IInv, Locals, CoverOfOwnAlbum, SetCoverWrite, At, WriteCover
<1>5. RotationsNoticed'
  BY DEF IInv, RotationsNoticed, Rotating, RotatingBy, Deleting, DeletingBy, Idle,
         LivePhotos, SetCoverWrite, Answer, histVars
<1>6. FilesOwned'
  BY DEF IInv, FilesOwned, InStep, LivePhotos, SetCoverWrite, At, Answer, diskVars,
         histVars
<1>7. ListsComplete'
  BY DEF IInv, TypeOK, Request, Idle, ListsComplete, PhotosIn, LivePhotos, SetCoverWrite, At,
         Answer, GoTo, Excused, rowVars, diskVars, histVars
<1> QED
  BY <1>1, <1>2, <1>3, <1>4, <1>5, <1>6, <1>7 DEF IInv

\* DeletePhotoRead keeps IInv: a deletion that meets a rotation is noticed.
LEMMA DeletePhotoReadStep ==
  ASSUME IInv, NEW q \in Requests, NEW p \in Photos, DeletePhotoRead(q, p)
  PROVE  IInv'
<1>1. TypeOK'
  <2>1. [Idle EXCEPT !.op = "clear", !.photo = p] \in Request
    BY IdleRequest DEF IInv, TypeOK, Request, LivePhotos, PhotosIn
  <2> QED
    BY <2>1, LibraryConstants
       DEF IInv, TypeOK, None, Loose, DeletePhotoRead, rowVars, diskVars, Excused
<1>2. Rows'
  BY DEF IInv, Rows, DeletePhotoRead, rowVars
<1>3. Locals'
  BY DEF IInv, Rows, Locals, LivePhotos, DeletePhotoRead, rowVars
<1>4. CoverOfOwnAlbum'
  BY DEF IInv, CoverOfOwnAlbum, DeletePhotoRead, rowVars
<1>5. RotationsNoticed'
  BY DEF IInv, TypeOK, RotationsNoticed, Rotating, RotatingBy, Deleting, DeletingBy,
         LivePhotos, Loose, DeletePhotoRead, rowVars, Excused
<1>6. FilesOwned'
  BY DEF IInv, FilesOwned, InStep, LivePhotos, DeletePhotoRead, At, rowVars, diskVars,
         Excused
<1>7. ListsComplete'
  BY DEF IInv, TypeOK, Request, Idle, ListsComplete, PhotosIn, LivePhotos, DeletePhotoRead, At,
         Answer, GoTo, Excused, rowVars, diskVars, histVars
<1> QED
  BY <1>1, <1>2, <1>3, <1>4, <1>5, <1>6, <1>7 DEF IInv

\* ClearCover keeps IInv: a cover that is cleared is no cover.
LEMMA ClearCoverStep ==
  ASSUME IInv, NEW q \in Requests, ClearCover(q)
  PROVE  IInv'
<1>1. TypeOK'
  <2>1. req' \in [Requests -> Request]
    BY DEF IInv, TypeOK, Request, ClearCover, GoTo
  <2>2. cover' \in [Albums -> Photos \cup {NoPhoto}]
    BY DEF IInv, TypeOK, ClearCover
  <2>3. faults' \in 0..MaxFaults
    BY LibraryConstants DEF IInv, TypeOK, ClearCover, Fault
  <2> QED
    BY <2>1, <2>2, <2>3 DEF IInv, TypeOK, ClearCover, diskVars, histVars
<1>2. Rows'
  BY DEF IInv, Rows, ClearCover
<1>3. Locals'
  BY DEF IInv, Locals, ClearCover, At, GoTo
<1>4. CoverOfOwnAlbum'
  BY DEF IInv, CoverOfOwnAlbum, ClearCover
<1>5. RotationsNoticed'
  BY DEF IInv, RotationsNoticed, Rotating, RotatingBy, Deleting, DeletingBy, LivePhotos,
         ClearCover, At, GoTo, histVars
<1>6. FilesOwned'
  BY DEF IInv, FilesOwned, InStep, LivePhotos, ClearCover, At, GoTo, diskVars, histVars
<1>7. ListsComplete'
  BY DEF IInv, TypeOK, Request, Idle, ListsComplete, PhotosIn, LivePhotos, ClearCover, At,
         Answer, GoTo, Excused, rowVars, diskVars, histVars
<1> QED
  BY <1>1, <1>2, <1>3, <1>4, <1>5, <1>6, <1>7 DEF IInv

\* DeletePhotoRow keeps IInv: from now on the file of the photo is left to
\* this request.
LEMMA DeletePhotoRowStep ==
  ASSUME IInv, NEW q \in Requests, DeletePhotoRow(q)
  PROVE  IInv'
<1>0. req[q].photo \in Photos
  BY DEF IInv, Locals, DeletePhotoRow, At
<1>a. /\ \A r \in Requests \ {q} : req'[r] = req[r]
      /\ req'[q] = Idle \/ (req'[q].op = "delFile" /\ req'[q].photo = req[q].photo)
  BY DEF IInv, TypeOK, Request, DeletePhotoRow, GoTo, Answer
<1>b. req[q].op = "delRow" /\ UNCHANGED albumOf
  BY DEF DeletePhotoRow, At
<1>1. TypeOK'
  <2>1. [req[q] EXCEPT !.op = "delFile"] \in Request /\ Idle \in Request
    BY IdleRequest DEF IInv, TypeOK, Request
  <2>2. req' \in [Requests -> Request]
    BY <2>1 DEF IInv, TypeOK, DeletePhotoRow, Answer, GoTo
  <2>3. photoRow' \in [Photos -> {"unused", "saving", "live", "gone"}] /\ faults' \in 0..MaxFaults
    BY LibraryConstants DEF IInv, TypeOK, DeletePhotoRow, Fault
  <2> QED
    BY <2>2, <2>3 DEF IInv, TypeOK, DeletePhotoRow, rowVars, diskVars, histVars
<1>2. Rows'
  BY LibraryConstants DEF IInv, TypeOK, Rows, Locals, DeletePhotoRow, At, SqlFree
<1>3. Locals'
  BY <1>a, <1>b DEF IInv, Locals, Idle
<1>4. CoverOfOwnAlbum'
  BY DEF IInv, CoverOfOwnAlbum, DeletePhotoRow
<1>5. RotationsNoticed'
  <2>1. \A r \in Photos : Rotating(r)' => Rotating(r)
    BY DEF IInv, TypeOK, Request, Idle, Rotating, RotatingBy, DeletePhotoRow, Answer,
           GoTo
  <2>a. \A r \in Requests, x \in Photos : DeletingBy(r, x)' => DeletingBy(r, x)
    BY <1>a, <1>b DEF DeletingBy, Idle
  <2>2. \A r \in Photos : Deleting(r)' => Deleting(r)
    BY <2>a DEF Deleting, DeletePhotoRow
  <2>3. \A r \in LivePhotos \ LivePhotos' : Deleting(r)
    BY <1>0 DEF IInv, TypeOK, LivePhotos, Deleting, DeletingBy, DeletePhotoRow, At
  <2>4. LivePhotos' \subseteq LivePhotos /\ UNCHANGED excuse
    BY <1>0 DEF IInv, TypeOK, LivePhotos, DeletePhotoRow, histVars
  <2> QED
    BY <2>1, <2>2, <2>3, <2>4 DEF IInv, RotationsNoticed
<1>6. FilesOwned'
  <2> SUFFICES ASSUME NEW r \in Photos, file'[r] # NoFile, r \notin LivePhotos'
               PROVE  r = saving' \/ InStep(r, "delFile")' \/ r \in janList' \/ excuse'[r] = Loose
    BY DEF FilesOwned
  <2>1. UNCHANGED <<file, saving, janList, excuse>>
    BY DEF DeletePhotoRow, diskVars, histVars
  <2>2. InStep(r, "delFile") => InStep(r, "delFile")'
    BY DEF IInv, TypeOK, InStep, DeletePhotoRow, At, Answer, GoTo
  <2>3. CASE r \in LivePhotos
    <3>1. r = req[q].photo /\ GoTo(q, "delFile")
      BY <2>3, <1>0 DEF IInv, TypeOK, LivePhotos, DeletePhotoRow
    <3> QED
      BY <3>1 DEF IInv, TypeOK, Request, InStep, GoTo
  <2>4. CASE r \notin LivePhotos
    BY <2>1, <2>2, <2>4 DEF IInv, FilesOwned
  <2> QED
    BY <2>3, <2>4
<1>7. ListsComplete'
  BY DEF IInv, TypeOK, Request, Idle, ListsComplete, PhotosIn, LivePhotos, DeletePhotoRow, At,
         Answer, GoTo, Excused, rowVars, diskVars, histVars
<1> QED
  BY <1>1, <1>2, <1>3, <1>4, <1>5, <1>6, <1>7 DEF IInv

\* DeletePhotoFile keeps IInv: the file is gone, or its remaining is noticed.
LEMMA DeletePhotoFileStep ==
  ASSUME IInv, NEW q \in Requests, DeletePhotoFile(q)
  PROVE  IInv'
<1> DEFINE p == req[q].photo
<1>0. p \in Photos /\ req[q].op = "delFile"
  BY DEF IInv, Locals, DeletePhotoFile, At
<1>a. req' \in [Requests -> Request] /\ req'[q] = Idle
  BY DetachedRequests, IdleRequest, <1>0 DEF IInv, TypeOK, DeletePhotoFile, Answer
<1>b. \A r \in Requests \ {q} : Same(req'[r], req[r])
  BY DetachedRequests, <1>0 DEF IInv, TypeOK, Same, DeletePhotoFile, Answer
<1>c. UNCHANGED <<rowVars, dirs, saving, janList, turned>>
  BY DEF DeletePhotoFile
<1>d. \/ file' = [file EXCEPT ![p] = NoFile] /\ UNCHANGED <<faults, excuse>>
      \/ UNCHANGED file /\ Fault /\ Excused({p}, Loose)
  BY DEF DeletePhotoFile
<1>1. TypeOK'
  <2>1. excuse' \in [Photos -> None..Loose]
    BY <1>d DEF IInv, TypeOK, Excused, None, Loose
  <2>2. file' \in [Photos -> Picture \cup {NoFile, Broken}] /\ faults' \in 0..MaxFaults
    BY <1>d, LibraryConstants DEF IInv, TypeOK, Fault
  <2> QED
    BY <2>1, <2>2, <1>a, <1>c DEF IInv, TypeOK, rowVars
<1>2. Rows'
  BY DEF IInv, Rows, DeletePhotoFile, rowVars
<1>3. Locals'
  BY <1>a, <1>b, <1>c DEF IInv, Locals, Same, Idle, rowVars
<1>4. CoverOfOwnAlbum'
  BY DEF IInv, CoverOfOwnAlbum, DeletePhotoFile, rowVars
<1>5. RotationsNoticed'
  <2>1. \A r \in Photos : Rotating(r)' => Rotating(r)
    BY <1>a, <1>b DEF Rotating, RotatingBy, Same, Idle
  <2>2. \A r \in Photos : Deleting(r)' => Deleting(r)
    BY <1>a, <1>b, <1>c DEF Deleting, DeletingBy, Same, Idle, rowVars
  <2>3. \A r \in Photos : excuse[r] = Loose => excuse'[r] = Loose
    BY <1>d DEF IInv, TypeOK, Excused, Loose
  <2> QED
    BY <2>1, <2>2, <2>3, <1>c DEF IInv, RotationsNoticed, LivePhotos, rowVars
<1>6. FilesOwned'
  <2> SUFFICES ASSUME NEW r \in Photos, file'[r] # NoFile, r \notin LivePhotos'
               PROVE  r = saving' \/ InStep(r, "delFile")' \/ r \in janList' \/ excuse'[r] = Loose
    BY DEF FilesOwned
  <2>1. CASE r = p
    BY <2>1, <1>0, <1>d DEF IInv, TypeOK, Excused, Loose, None
  <2>2. CASE r # p
    <3>1. InStep(r, "delFile") => InStep(r, "delFile")'
      BY <1>b, <2>2 DEF InStep, Same
    <3> QED
      BY <3>1, <2>2, <1>c, <1>d DEF IInv, TypeOK, FilesOwned, Excused, LivePhotos, rowVars
  <2> QED
    BY <2>1, <2>2
<1>7. ListsComplete'
  <2>1. \A r \in Requests \ {q} : req'[r].list = req[r].list
    BY DetachedRequests, <1>0 DEF IInv, TypeOK, DeletePhotoFile, Answer
  <2>2. \A x \in Photos : excuse[x] = Loose => excuse'[x] = Loose
    BY <1>d DEF IInv, TypeOK, Excused, Loose
  <2>3. \A x \in Photos : file'[x] # NoFile => file[x] # NoFile
    BY <1>0, <1>d DEF IInv, TypeOK
  <2> QED
    BY <2>1, <2>2, <2>3, <1>a, <1>b, <1>c, KeepLists DEF IInv, LivePhotos, Same, Idle, rowVars
<1> QED
  BY <1>1, <1>2, <1>3, <1>4, <1>5, <1>6, <1>7 DEF IInv

\* DeleteAlbumList keeps IInv: a listing that meets a rotation is noticed.
LEMMA DeleteAlbumListStep ==
  ASSUME IInv, NEW q \in Requests, NEW a \in Albums, DeleteAlbumList(q, a)
  PROVE  IInv'
<1>0. PICK list \in SUBSET PhotosIn(a) :
        /\ req' = [req EXCEPT ![q] = [Idle EXCEPT !.op = "remove", !.album = a, !.list = list]]
        /\ Excused({p \in PhotosIn(a) : Rotating(p) \/ p \notin list}, Loose)
  BY DEF DeleteAlbumList
<1>1. TypeOK'
  <2>1. [Idle EXCEPT !.op = "remove", !.album = a, !.list = list] \in Request
    BY IdleRequest DEF IInv, TypeOK, Request, LivePhotos, PhotosIn
  <2> QED
    BY <1>0, <2>1, LibraryConstants
       DEF IInv, TypeOK, None, Loose, DeleteAlbumList, rowVars, diskVars, Excused
<1>2. Rows'
  BY DEF IInv, Rows, DeleteAlbumList, rowVars
<1>3. Locals'
  BY DEF IInv, Locals, DeleteAlbumList, rowVars
<1>4. CoverOfOwnAlbum'
  BY DEF IInv, CoverOfOwnAlbum, DeleteAlbumList, rowVars
<1>5. RotationsNoticed'
  BY DEF IInv, TypeOK, RotationsNoticed, Rotating, RotatingBy, Deleting, DeletingBy,
         LivePhotos, PhotosIn, Loose, DeleteAlbumList, rowVars, Excused
<1>6. FilesOwned'
  BY DEF IInv, FilesOwned, InStep, LivePhotos, DeleteAlbumList, At, rowVars, diskVars,
         Excused
<1>7. ListsComplete'
  <2>1. UNCHANGED <<file, albumOf, photoRow>> /\ \A r \in Requests \ {q} : req'[r] = req[r]
    BY <1>0 DEF IInv, TypeOK, DeleteAlbumList, rowVars, diskVars
  <2>2. req'[q].album = a /\ req'[q].list = list
    BY <1>0, IdleRequest DEF IInv, TypeOK, Request, Idle
  <2>3. \A p \in Photos : excuse[p] = Loose => excuse'[p] = Loose
    BY <1>0 DEF Excused, Loose
  <2>4. \A p \in PhotosIn(a) \ list : excuse'[p] = Loose
    BY <1>0 DEF IInv, TypeOK, Excused, None, Loose, PhotosIn, LivePhotos
  <2> QED
    BY <2>1, <2>2, <2>3, <2>4 DEF IInv, ListsComplete, PhotosIn, LivePhotos
<1> QED
  BY <1>1, <1>2, <1>3, <1>4, <1>5, <1>6, <1>7 DEF IInv

\* DeleteAlbumFile keeps IInv: a file less.
LEMMA DeleteAlbumFileStep ==
  ASSUME IInv, NEW q \in Requests, DeleteAlbumFile(q)
  PROVE  IInv'
<1>0a. PICK p \in req[q].list : \E d \in {Detached(p), req} :
        /\ req' = [d EXCEPT ![q].list = @ \ {p}]
        /\ \/ file' = [file EXCEPT ![p] = NoFile] /\ UNCHANGED <<faults, excuse>>
           \/ UNCHANGED file /\ Fault /\ Excused({p}, Loose)
  BY DEF DeleteAlbumFile
<1>0. PICK d \in {Detached(p), req} :
        /\ req' = [d EXCEPT ![q].list = @ \ {p}]
        /\ \/ file' = [file EXCEPT ![p] = NoFile] /\ UNCHANGED <<faults, excuse>>
           \/ UNCHANGED file /\ Fault /\ Excused({p}, Loose)
  BY <1>0a
<1>1a. /\ p \in Photos /\ d \in [Requests -> Request]
       /\ \A r \in Requests : Same(d[r], req[r]) /\ d[r].list = req[r].list
  BY <1>0, DetachedRequests DEF IInv, TypeOK, Request, Same
<1>1b. \A u \in Request : /\ [u EXCEPT !.list = u.list \ {p}] \in Request
                          /\ Same([u EXCEPT !.list = u.list \ {p}], u)
                          /\ [u EXCEPT !.list = u.list \ {p}].list = u.list \ {p}
  BY DEF Request, Same
<1>1c. req' = [d EXCEPT ![q] = [d[q] EXCEPT !.list = d[q].list \ {p}]]
  BY <1>0, <1>1a
<1>a. req' \in [Requests -> Request] /\ p \in Photos
  BY <1>1a, <1>1b, <1>1c
<1>b. \A r \in Requests : Same(req'[r], req[r])
  BY <1>1a, <1>1b, <1>1c DEF IInv, Same
<1>c. UNCHANGED <<rowVars, dirs, saving, janList, turned>>
  BY DEF DeleteAlbumFile
<1>d. \A r \in Photos : excuse[r] = Loose => excuse'[r] = Loose
  BY <1>0, <1>a DEF IInv, TypeOK, Excused, None, Loose
<1>e. \A r \in Photos : file'[r] # NoFile => file[r] # NoFile
  BY <1>0, <1>a DEF IInv, TypeOK
<1>f. file'[p] = NoFile \/ excuse'[p] = Loose
  BY <1>0, <1>a DEF IInv, TypeOK, Excused, None, Loose
<1>1. TypeOK'
  <2>1. excuse' \in [Photos -> None..Loose]
    BY <1>0 DEF IInv, TypeOK, Excused, None, Loose
  <2>2. file' \in [Photos -> Picture \cup {NoFile, Broken}] /\ faults' \in 0..MaxFaults
    BY <1>0, LibraryConstants DEF IInv, TypeOK, Fault
  <2> QED
    BY <2>1, <2>2, <1>a, <1>c DEF IInv, TypeOK, rowVars
<1>2. Rows'
  BY DEF IInv, Rows, DeleteAlbumFile, rowVars
<1>3. Locals'
  BY <1>b, <1>c DEF IInv, Locals, Same, rowVars
<1>4. CoverOfOwnAlbum'
  BY DEF IInv, CoverOfOwnAlbum, DeleteAlbumFile, rowVars
<1>5. RotationsNoticed'
  <2>1. \A r \in Photos : Rotating(r)' => Rotating(r)
    BY <1>b DEF Rotating, RotatingBy, Same
  <2>3. \A r \in Photos : Deleting(r)' => Deleting(r)
    BY <1>0, <1>b, <1>c DEF Deleting, DeletingBy, Same, rowVars
  <2> QED
    BY <2>1, <2>3, <1>c, <1>d DEF IInv, RotationsNoticed, LivePhotos, rowVars
<1>6. FilesOwned'
  <2>1. \A r \in Photos : InStep(r, "delFile") => InStep(r, "delFile")'
    BY <1>b DEF InStep, Same
  <2> QED
    BY <2>1, <1>a, <1>c, <1>d, <1>e, <1>f DEF IInv, FilesOwned, LivePhotos, rowVars
<1>7. ListsComplete'
  <2>1. \A r \in Requests : req[r].list \ req'[r].list \subseteq {p}
    BY <1>1a, <1>1b, <1>1c
  <2> QED
    BY <2>1, <1>b, <1>c, <1>d, <1>e, <1>f, KeepLists DEF IInv, LivePhotos, Same, rowVars
<1> QED
  BY <1>1, <1>2, <1>3, <1>4, <1>5, <1>6, <1>7 DEF IInv

\* DeleteAlbumRow keeps IInv: the list is empty, so a photo that loses its row
\* with a file in place is one the listing missed or a failure left.
LEMMA DeleteAlbumRowStep ==
  ASSUME IInv, NEW q \in Requests, DeleteAlbumRow(q)
  PROVE  IInv'
<1>1. TypeOK'
  BY LibraryConstants
     DEF IInv, TypeOK, Request, Idle, None, Loose, DeleteAlbumRow, Answer, diskVars,
         Fault, Excused
<1>2. Rows'
  BY DEF IInv, Rows, LivePhotos, PhotosIn, DeleteAlbumRow, Cascade
<1>3. Locals'
  BY DEF IInv, Locals, Idle, DeleteAlbumRow, Answer
<1>4. CoverOfOwnAlbum'
  BY DEF IInv, CoverOfOwnAlbum, DeleteAlbumRow
<1>5. RotationsNoticed'
  BY DEF IInv, RotationsNoticed, Rotating, RotatingBy, Deleting, DeletingBy, Idle,
         LivePhotos, PhotosIn, DeleteAlbumRow, At, Answer, Excused, Cascade
<1>6. FilesOwned'
  <2> DEFINE a == req[q].album
  <2>1. req[q].op = "remove" /\ req[q].list = {} /\ UNCHANGED <<file, saving, janList>>
    BY DEF DeleteAlbumRow, At, diskVars
  <2>2. \A p \in Photos : InStep(p, "delFile") => InStep(p, "delFile")'
    BY <2>1 DEF IInv, TypeOK, InStep, DeleteAlbumRow, Answer
  <2>3. \A p \in Photos : excuse[p] = Loose => excuse'[p] = Loose
    BY DEF DeleteAlbumRow, Excused, Loose
  <2>4. \A p \in LivePhotos \ LivePhotos' : p \in PhotosIn(a)
    BY DEF DeleteAlbumRow, Cascade, LivePhotos, PhotosIn
  <2>5. \A p \in PhotosIn(a) : file[p] # NoFile => excuse[p] = Loose
    BY <2>1 DEF IInv, ListsComplete
  <2> QED
    BY <2>1, <2>2, <2>3, <2>4, <2>5 DEF IInv, FilesOwned, LivePhotos
<1>7. ListsComplete'
  BY DEF IInv, TypeOK, Request, Idle, ListsComplete, PhotosIn, LivePhotos, DeleteAlbumRow, At,
         Answer, GoTo, Excused, rowVars, diskVars, histVars
<1> QED
  BY <1>1, <1>2, <1>3, <1>4, <1>5, <1>6, <1>7 DEF IInv

\* AlbumLost keeps IInv: rows of photos and covers stay what they were.
LEMMA AlbumLostStep ==
  ASSUME IInv, NEW a \in Albums, AlbumLost(a)
  PROVE  IInv'
<1>1. TypeOK'
  BY LibraryConstants DEF IInv, TypeOK, AlbumLost, diskVars, histVars, Fault
<1>2. Rows'
  BY DEF IInv, Rows, AlbumLost
<1>3. Locals'
  BY DEF IInv, Locals, AlbumLost
<1>4. CoverOfOwnAlbum'
  BY DEF IInv, CoverOfOwnAlbum, AlbumLost
<1>5. RotationsNoticed'
  BY DEF IInv, RotationsNoticed, Rotating, RotatingBy, Deleting, DeletingBy, LivePhotos,
         AlbumLost, histVars
<1>6. FilesOwned'
  BY DEF IInv, FilesOwned, InStep, LivePhotos, AlbumLost, diskVars, histVars
<1>7. ListsComplete'
  BY DEF IInv, TypeOK, Request, Idle, ListsComplete, PhotosIn, LivePhotos, AlbumLost, At,
         Answer, GoTo, Excused, rowVars, diskVars, histVars
<1> QED
  BY <1>1, <1>2, <1>3, <1>4, <1>5, <1>6, <1>7 DEF IInv

\* RotateRead keeps IInv: a rotation that meets another request on its photo
\* is noticed.
LEMMA RotateReadStep ==
  ASSUME IInv, NEW q \in Requests, NEW p \in Photos, RotateRead(q, p)
  PROVE  IInv'
<1>1. TypeOK'
  <2>1. PICK k \in Angles : req' = [req EXCEPT ![q] = [Idle EXCEPT !.op = "open", !.photo = p, !.turn = k]]
    BY DEF RotateRead
  <2>a. k \in 0..3
    BY LibraryConstants
  <2>2. [Idle EXCEPT !.op = "open", !.photo = p, !.turn = k] \in Request
    BY IdleRequest, <2>a DEF Request
  <2> QED
    BY <2>1, <2>2, LibraryConstants
       DEF IInv, TypeOK, None, Loose, RotateRead, rowVars, diskVars, Excused
<1>2. Rows'
  BY DEF IInv, Rows, RotateRead, rowVars
<1>3. Locals'
  BY DEF IInv, Rows, Locals, LivePhotos, RotateRead, rowVars
<1>4. CoverOfOwnAlbum'
  BY DEF IInv, CoverOfOwnAlbum, RotateRead, rowVars
<1>5. RotationsNoticed'
  BY DEF IInv, TypeOK, RotationsNoticed, Rotating, RotatingBy, Deleting, DeletingBy,
         LivePhotos, Loose, RotateRead, rowVars, Excused
<1>6. FilesOwned'
  BY DEF IInv, FilesOwned, InStep, LivePhotos, RotateRead, At, rowVars, diskVars,
         Excused
<1>7. ListsComplete'
  BY DEF IInv, TypeOK, Request, Idle, ListsComplete, PhotosIn, LivePhotos, RotateRead, At,
         Answer, GoTo, Excused, rowVars, diskVars, histVars
<1> QED
  BY <1>1, <1>2, <1>3, <1>4, <1>5, <1>6, <1>7 DEF IInv

\* RotateOpen keeps IInv: what is read from a file is a picture.
LEMMA RotateOpenStep ==
  ASSUME IInv, NEW q \in Requests, RotateOpen(q)
  PROVE  IInv'
<1>1. TypeOK'
  <2> DEFINE p == req[q].photo
             seen == (file[p] + req[q].turn) % 4
  <2>0. p \in Photos
    BY DEF IInv, Locals, RotateOpen, At
  <2>1. CASE file[p] \in Picture
    <3>1. seen \in Picture
      BY <2>0, <2>1 DEF IInv, TypeOK, Request, Picture
    <3>2. req' = [req EXCEPT ![q] = [req[q] EXCEPT !.op = "create", !.seen = seen]]
      BY <2>1 DEF IInv, TypeOK, RotateOpen
    <3> HIDE DEF seen
    <3>3. \A u \in Request, x \in Picture : [u EXCEPT !.op = "create", !.seen = x] \in Request
      BY DEF Request
    <3>4. [req[q] EXCEPT !.op = "create", !.seen = seen] \in Request
      BY <3>1, <3>3 DEF IInv, TypeOK, Request
    <3> QED
      BY <3>2, <3>4 DEF IInv, TypeOK, RotateOpen, rowVars, diskVars, histVars
  <2>2. CASE file[p] \notin Picture
    BY <2>2, IdleRequest
       DEF IInv, TypeOK, RotateOpen, Answer, rowVars, diskVars, histVars
  <2> QED
    BY <2>1, <2>2
<1>2. Rows'
  BY DEF IInv, Rows, RotateOpen, rowVars
<1>3. Locals'
  <2>1. \/ req'[q] = Idle
        \/ /\ req'[q].op = "create" /\ req'[q].photo = req[q].photo
           /\ req'[q].seen \in Picture
    <3>1. (file[req[q].photo] + req[q].turn) % 4 \in Picture
             \/ file[req[q].photo] \notin Picture
      BY DEF IInv, TypeOK, Request, Picture
    <3> QED
      BY <3>1 DEF IInv, TypeOK, Request, RotateOpen, Answer
  <2>2. \A r \in Requests \ {q} : req'[r] = req[r]
    BY DEF IInv, TypeOK, RotateOpen, Answer
  <2>3. req[q].op = "open" /\ UNCHANGED albumOf
    BY DEF RotateOpen, At, rowVars
  <2> QED
    BY <2>1, <2>2, <2>3 DEF IInv, Locals, Idle
<1>4. CoverOfOwnAlbum'
  BY DEF IInv, CoverOfOwnAlbum, RotateOpen, rowVars
<1>5. RotationsNoticed'
  <2>1. \A r \in Requests \ {q} : req'[r] = req[r]
    BY DEF IInv, TypeOK, RotateOpen, Answer
  <2>2. req[q].op = "open"
    BY DEF RotateOpen, At
  <2>3. req'[q].op = "idle" \/ (req'[q].op = "create" /\ req'[q].photo = req[q].photo)
    BY DEF IInv, TypeOK, Request, Idle, RotateOpen, Answer
  <2>4. UNCHANGED <<photoRow, albumOf, janList, excuse>>
    BY DEF RotateOpen, rowVars, histVars
  <2>5. \A p \in Photos : Rotating(p)' => Rotating(p)
    BY <2>1, <2>2, <2>3 DEF Rotating, RotatingBy
  <2>6. \A p \in Photos : Deleting(p)' => Deleting(p)
    BY <2>1, <2>3, <2>4 DEF Deleting, DeletingBy
  <2> QED
    BY <2>4, <2>5, <2>6 DEF IInv, RotationsNoticed, LivePhotos
<1>6. FilesOwned'
  <2>1. req'[q].op # "delFile" /\ \A r \in Requests \ {q} : req'[r] = req[r]
    BY DEF IInv, TypeOK, Request, Idle, RotateOpen, Answer
  <2>2. \A r \in Photos : InStep(r, "delFile") => InStep(r, "delFile")'
    BY <2>1 DEF InStep, RotateOpen, At
  <2> QED
    BY <2>2 DEF IInv, FilesOwned, LivePhotos, RotateOpen, rowVars, diskVars, histVars
<1>7. ListsComplete'
  BY DEF IInv, TypeOK, Request, Idle, ListsComplete, PhotosIn, LivePhotos, RotateOpen, At,
         Answer, GoTo, Excused, rowVars, diskVars, histVars
<1> QED
  BY <1>1, <1>2, <1>3, <1>4, <1>5, <1>6, <1>7 DEF IInv

\* RotateCreate keeps IInv: a file made again after a deletion is noticed.
LEMMA RotateCreateStep ==
  ASSUME IInv, NEW q \in Requests, RotateCreate(q)
  PROVE  IInv'
<1>1. TypeOK'
  <2>1. [req[q] EXCEPT !.op = "encode", !.fd = TRUE] \in Request /\ Idle \in Request
    BY IdleRequest DEF IInv, TypeOK, Request
  <2>2. \/ req' = [req EXCEPT ![q] = [req[q] EXCEPT !.op = "encode", !.fd = TRUE]]
        \/ req' = [req EXCEPT ![q] = Idle]
    BY DEF RotateCreate, Answer
  <2>3. req' \in [Requests -> Request]
    BY <2>1, <2>2 DEF IInv, TypeOK
  <2> QED
    BY <2>3 DEF IInv, TypeOK, RotateCreate, rowVars, histVars
<1>2. Rows'
  BY DEF IInv, Rows, RotateCreate, rowVars
<1>3. Locals'
  <2>1. \/ req' = [req EXCEPT ![q] = [req[q] EXCEPT !.op = "encode", !.fd = TRUE]]
        \/ req' = [req EXCEPT ![q] = Idle]
    BY DEF RotateCreate, Answer
  <2>2. UNCHANGED <<rowVars>> /\ req[q].op = "create"
    BY DEF RotateCreate, At
  <2> DEFINE v == [req[q] EXCEPT !.op = "encode", !.fd = TRUE]
  <2>a. v.op = "encode" /\ v.photo = req[q].photo /\ v.seen = req[q].seen
    BY DEF IInv, TypeOK, Request
  <2>b. req' = [req EXCEPT ![q] = v] \/ req' = [req EXCEPT ![q] = Idle]
    BY <2>1
  <2> HIDE DEF v
  <2>3. req'[q] = Idle \/ (/\ req'[q].op = "encode" /\ req'[q].photo = req[q].photo
                          /\ req'[q].seen = req[q].seen)
    BY <2>a, <2>b DEF IInv, TypeOK
  <2>4. \A r \in Requests \ {q} : req'[r] = req[r]
    BY <2>1 DEF IInv, TypeOK
  <2> QED
    BY <2>2, <2>3, <2>4 DEF IInv, Locals, Idle, rowVars
<1>4. CoverOfOwnAlbum'
  BY DEF IInv, CoverOfOwnAlbum, RotateCreate, rowVars
<1>5. RotationsNoticed'
  <2>1. \A r \in Requests \ {q} : req'[r] = req[r]
    BY DEF IInv, TypeOK, RotateCreate, Answer
  <2>2. req[q].op = "create"
    BY DEF RotateCreate, At
  <2>3. req'[q].op = "idle" \/ (req'[q].op = "encode" /\ req'[q].photo = req[q].photo)
    BY DEF IInv, TypeOK, Request, Idle, RotateCreate, Answer
  <2>4. UNCHANGED <<photoRow, albumOf, janList, excuse>>
    BY DEF RotateCreate, rowVars, histVars
  <2>5. \A p \in Photos : Rotating(p)' => Rotating(p)
    BY <2>1, <2>2, <2>3 DEF Rotating, RotatingBy
  <2>6. \A p \in Photos : Deleting(p)' => Deleting(p)
    BY <2>1, <2>3, <2>4 DEF Deleting, DeletingBy
  <2> QED
    BY <2>4, <2>5, <2>6 DEF IInv, RotationsNoticed, LivePhotos
<1>6. FilesOwned'
  BY DEF IInv, TypeOK, RotationsNoticed, FilesOwned, Rotating, RotatingBy, DeletingBy,
         InStep, Idle, Picture, LivePhotos, None, Loose, RotateCreate, At, Answer,
         rowVars, histVars
<1>7. ListsComplete'
  <2> DEFINE p == req[q].photo
  <2>1. /\ req[q].op = "create" /\ p \in Photos
        /\ UNCHANGED <<rowVars, excuse>>
        /\ \A x \in Photos \ {p} : file'[x] = file[x]
    BY DEF IInv, TypeOK, Locals, RotateCreate, At, histVars
  <2>2. req'[q].op # "remove" /\ \A r \in Requests \ {q} : req'[r] = req[r]
    BY DEF IInv, TypeOK, Request, Idle, RotateCreate, Answer
  <2>3. Emptying(p) => excuse[p] = Loose
    BY <2>1 DEF IInv, RotationsNoticed, Rotating, RotatingBy, Deleting, DeletingBy, Emptying
  <2> QED
    BY <2>1, <2>2, <2>3 DEF IInv, ListsComplete, PhotosIn, LivePhotos, Emptying, rowVars
<1> QED
  BY <1>1, <1>2, <1>3, <1>4, <1>5, <1>6, <1>7 DEF IInv

\* RotateEncode keeps IInv: only a rotation whose file is still at the path
\* writes it.
LEMMA RotateEncodeStep ==
  ASSUME IInv, NEW q \in Requests, RotateEncode(q)
  PROVE  IInv'
<1> DEFINE p == req[q].photo
<1>0. /\ p \in Photos /\ albumOf[p] # NoAlbum /\ req[q].seen \in Picture
      /\ p \in LivePhotos \/ excuse[p] = Loose
  BY DEF IInv, Locals, RotationsNoticed, Rotating, RotatingBy, RotateEncode, At
<1>a. \/ req' = [req EXCEPT ![q] = [req[q] EXCEPT !.op = "redim"]]
      \/ req' = [req EXCEPT ![q] = [req[q] EXCEPT !.op = "redim", !.fd = FALSE]]
      \/ req' = [req EXCEPT ![q] = Idle]
  BY DEF IInv, TypeOK, RotateEncode, GoTo, Answer
<1>b. UNCHANGED file \/ \E b \in Picture \cup {Broken} : file' = [file EXCEPT ![p] = b]
  BY <1>0 DEF RotateEncode
<1>c. UNCHANGED <<rowVars, dirs, saving, janList, turned>>
  BY DEF RotateEncode
<1>d. (UNCHANGED <<faults, excuse>>) \/ (Fault /\ Excused({p}, CutShort))
  BY DEF RotateEncode
<1>e. /\ \A r \in Requests \ {q} : req'[r] = req[r]
      /\ \/ req'[q] = Idle
         \/ /\ req'[q].op = "redim" /\ req'[q].photo = req[q].photo
            /\ req'[q].seen = req[q].seen
  <2> DEFINE v == [req[q] EXCEPT !.op = "redim"]
             w == [req[q] EXCEPT !.op = "redim", !.fd = FALSE]
  <2>1. /\ v.op = "redim" /\ v.photo = req[q].photo /\ v.seen = req[q].seen
        /\ w.op = "redim" /\ w.photo = req[q].photo /\ w.seen = req[q].seen
    BY DEF IInv, TypeOK, Request
  <2>2. \E x \in {v, w, Idle} : req' = [req EXCEPT ![q] = x]
    BY <1>a
  <2> HIDE DEF v, w
  <2> QED
    BY <2>1, <2>2 DEF IInv, TypeOK
<1>1. TypeOK'
  <2>1. /\ [req[q] EXCEPT !.op = "redim"] \in Request
        /\ [req[q] EXCEPT !.op = "redim", !.fd = FALSE] \in Request
        /\ Idle \in Request
    BY IdleRequest DEF IInv, TypeOK, Request
  <2>2. req' \in [Requests -> Request]
    BY <1>a, <2>1 DEF IInv, TypeOK
  <2>3. file' \in [Photos -> Picture \cup {NoFile, Broken}]
    BY <1>b DEF IInv, TypeOK
  <2>4. excuse' \in [Photos -> None..Loose] /\ faults' \in 0..MaxFaults
    BY <1>d, LibraryConstants DEF IInv, TypeOK, Excused, Fault, None, CutShort, Loose
  <2> QED
    BY <2>2, <2>3, <2>4, <1>c DEF IInv, TypeOK, rowVars
<1>2. Rows'
  BY DEF IInv, Rows, RotateEncode, rowVars
<1>3. Locals'
  BY <1>0, <1>c, <1>e DEF IInv, Locals, Idle, rowVars
<1>4. CoverOfOwnAlbum'
  BY DEF IInv, CoverOfOwnAlbum, RotateEncode, rowVars
<1>5. RotationsNoticed'
  <2>1. \A x \in Photos : Rotating(x)' => Rotating(x)
    <3>1. \A x \in Photos : \A r \in Requests : RotatingBy(r, x)' => RotatingBy(r, x)
      <4>1. req[q].op = "encode"
        BY DEF RotateEncode, At
      <4> QED
        BY <1>e, <4>1 DEF RotatingBy, Idle
    <3> QED
      BY <3>1 DEF Rotating
  <2>2. \A x \in Photos : Deleting(x)' => Deleting(x)
    BY <1>c, <1>e DEF Deleting, DeletingBy, Idle, rowVars
  <2>3. \A x \in Photos : excuse[x] = Loose => excuse'[x] = Loose
    BY <1>d DEF Excused, CutShort, Loose
  <2> QED
    BY <1>c, <2>1, <2>2, <2>3 DEF IInv, RotationsNoticed, LivePhotos, Loose, rowVars
<1>6. FilesOwned'
  <2> SUFFICES ASSUME NEW r \in Photos, file'[r] # NoFile, r \notin LivePhotos'
               PROVE  r = saving' \/ InStep(r, "delFile")' \/ r \in janList' \/ excuse'[r] = Loose
    BY DEF FilesOwned
  <2>1. InStep(r, "delFile") => InStep(r, "delFile")'
    BY <1>a DEF IInv, TypeOK, Request, Idle, InStep, RotateEncode, At
  <2>2. excuse[r] = Loose => excuse'[r] = Loose
    BY <1>d DEF IInv, TypeOK, Excused, Loose, CutShort
  <2>3. CASE r = p
    BY <2>2, <2>3, <1>0, <1>c DEF LivePhotos, rowVars
  <2>4. CASE r # p
    BY <2>1, <2>2, <2>4, <1>b, <1>c DEF IInv, TypeOK, FilesOwned, LivePhotos, rowVars
  <2> QED
    BY <2>3, <2>4
<1>7. ListsComplete'
  <2>1. req[q].op = "encode" /\ \A x \in Photos \ {p} : file'[x] = file[x]
    BY <1>b DEF IInv, TypeOK, RotateEncode, At
  <2>2. \A x \in Photos : excuse[x] = Loose => excuse'[x] = Loose
    BY <1>d DEF Excused, CutShort, Loose
  <2>3. Emptying(p) => excuse[p] = Loose
    BY <1>0, <2>1 DEF IInv, RotationsNoticed, Rotating, RotatingBy, Deleting, DeletingBy, Emptying
  <2> QED
    BY <2>1, <2>2, <2>3, <1>c, <1>e
       DEF IInv, ListsComplete, PhotosIn, LivePhotos, Emptying, Idle, rowVars
<1> QED
  BY <1>1, <1>2, <1>3, <1>4, <1>5, <1>6, <1>7 DEF IInv

\* RotateRedim keeps IInv: only dimensions change.
LEMMA RotateRedimStep ==
  ASSUME IInv, NEW q \in Requests, RotateRedim(q)
  PROVE  IInv'
<1>1. TypeOK'
  <2>1. req' \in [Requests -> Request]
    BY IdleRequest DEF IInv, TypeOK, RotateRedim, Answer
  <2>2. swapped' \in [Photos -> 0..1]
    <3>1. req[q].op = "redim" => req[q].seen \in Nat
      BY DEF IInv, Locals, Picture
    <3>2. req[q].op = "redim" => req[q].seen % 2 \in 0..1
      BY <3>1
    <3> QED
      BY <3>2 DEF IInv, TypeOK, RotateRedim, At
  <2>3. turned' \in [Photos -> Picture]
    <3>1. \A n \in Picture : (n + req[q].turn) % 4 \in Picture
      <4>1. req[q].turn \in 0..3
        BY DEF IInv, TypeOK, Request
      <4> QED
        BY <4>1 DEF Picture
    <3> QED
      BY <3>1 DEF IInv, TypeOK, RotateRedim
  <2>4. faults' \in 0..MaxFaults /\ excuse' \in [Photos -> None..Loose]
    BY LibraryConstants
       DEF IInv, TypeOK, RotateRedim, Fault, Excused, None, StaleRow, Loose
  <2> QED
    BY <2>1, <2>2, <2>3, <2>4 DEF IInv, TypeOK, RotateRedim, diskVars
<1>2. Rows'
  BY DEF IInv, Rows, RotateRedim
<1>3. Locals'
  BY DEF IInv, Locals, Idle, RotateRedim, Answer
<1>4. CoverOfOwnAlbum'
  BY DEF IInv, CoverOfOwnAlbum, RotateRedim
<1>5. RotationsNoticed'
  BY DEF IInv, RotationsNoticed, Rotating, RotatingBy, Deleting, DeletingBy, Idle,
         LivePhotos, StaleRow, Loose, RotateRedim, Answer, Excused
<1>6. FilesOwned'
  BY DEF IInv, FilesOwned, InStep, LivePhotos, StaleRow, Loose, RotateRedim, At, Answer,
         diskVars, Excused
<1>7. ListsComplete'
  <2>1. /\ UNCHANGED <<file, photoRow, albumOf>>
        /\ req'[q].op # "remove" /\ \A r \in Requests \ {q} : req'[r] = req[r]
        /\ \A x \in Photos : excuse[x] = Loose => excuse'[x] = Loose
    BY DEF IInv, TypeOK, Idle, RotateRedim, Answer, Excused, StaleRow, Loose, diskVars
  <2> QED
    BY <2>1 DEF IInv, ListsComplete, PhotosIn, LivePhotos
<1> QED
  BY <1>1, <1>2, <1>3, <1>4, <1>5, <1>6, <1>7 DEF IInv

\* SaveBegin keeps IInv: the photo gets its album here, and here only.
LEMMA SaveBeginStep ==
  ASSUME IInv, NEW p \in Photos, NEW a \in Albums, SaveBegin(p, a)
  PROVE  IInv'
<1>1. TypeOK'
  BY DEF IInv, TypeOK, SaveBegin, histVars
<1>2. Rows'
  BY LibraryConstants DEF IInv, TypeOK, Rows, SaveBegin, SqlFree
<1>3. Locals'
  BY LibraryConstants DEF IInv, Rows, Locals, SaveBegin
<1>4. CoverOfOwnAlbum'
  BY LibraryConstants DEF IInv, Rows, CoverOfOwnAlbum, SaveBegin
<1>5. RotationsNoticed'
  BY DEF IInv, RotationsNoticed, Rotating, RotatingBy, Deleting, DeletingBy, LivePhotos,
         SaveBegin, histVars
<1>6. FilesOwned'
  BY LibraryConstants
     DEF IInv, FilesOwned, InStep, LivePhotos, SaveBegin, SqlFree, histVars
<1>7. ListsComplete'
  BY DEF IInv, TypeOK, Request, Idle, ListsComplete, PhotosIn, LivePhotos, SaveBegin, At,
         Answer, GoTo, Excused, rowVars, diskVars, histVars
<1> QED
  BY <1>1, <1>2, <1>3, <1>4, <1>5, <1>6, <1>7 DEF IInv

\* SaveWrite keeps IInv: the file belongs to the photo being saved.
LEMMA SaveWriteStep ==
  ASSUME IInv, SaveWrite
  PROVE  IInv'
<1>1. TypeOK'
  <2>1. file' \in [Photos -> Picture \cup {NoFile, Broken}]
    BY DEF IInv, TypeOK, SaveWrite, Picture
  <2>2. photoRow' \in [Photos -> {"unused", "saving", "live", "gone"}]
    BY DEF IInv, TypeOK, SaveWrite
  <2>3. saving' \in Photos \cup {NoPhoto}
    BY DEF IInv, TypeOK, SaveWrite
  <2> QED
    BY <2>1, <2>2, <2>3 DEF IInv, TypeOK, SaveWrite, histVars
<1>2. Rows'
  BY LibraryConstants DEF IInv, TypeOK, Rows, SaveWrite
<1>3. Locals'
  BY DEF IInv, Locals, SaveWrite
<1>4. CoverOfOwnAlbum'
  BY DEF IInv, CoverOfOwnAlbum, SaveWrite
<1>5. RotationsNoticed'
  BY DEF IInv, TypeOK, Rows, RotationsNoticed, Rotating, RotatingBy, Deleting,
         DeletingBy, LivePhotos, SaveWrite, histVars
<1>6. FilesOwned'
  BY DEF IInv, TypeOK, FilesOwned, InStep, LivePhotos, SaveWrite, histVars
<1>7. ListsComplete'
  <2>1. \A p \in LivePhotos' : p \in LivePhotos /\ file'[p] = file[p]
    BY DEF IInv, TypeOK, Rows, LivePhotos, SaveWrite
  <2> QED
    BY <2>1 DEF IInv, ListsComplete, PhotosIn, SaveWrite, histVars
<1> QED
  BY <1>1, <1>2, <1>3, <1>4, <1>5, <1>6, <1>7 DEF IInv

\* SaveCommit keeps IInv: the row becomes visible, or row and file go; coming to
\* an album that is being emptied, or keeping its file, is noticed.
LEMMA SaveCommitStep ==
  ASSUME IInv, SaveCommit
  PROVE  IInv'
<1>a. /\ \A p \in Photos \ {saving} : excuse'[p] = excuse[p] /\ file'[p] = file[p]
      /\ \A p \in Photos : excuse[p] = Loose => excuse'[p] = Loose
      /\ excuse' \in [Photos -> None..Loose]
  BY DEF IInv, TypeOK, SaveCommit, Excused, SavedTooLate, None, Loose
<1>b. /\ saving \in Photos /\ UNCHANGED <<albumOf, req, janList>>
      /\ \A p \in Photos \ {saving} : photoRow'[p] = photoRow[p]
  BY DEF IInv, TypeOK, SaveCommit
<1>c. \/ photoRow'[saving] = "live" /\ (Emptying(saving) => excuse'[saving] = Loose)
      \/ photoRow'[saving] = "gone" /\ (file'[saving] = NoFile \/ excuse'[saving] = Loose)
  BY <1>b DEF IInv, TypeOK, SaveCommit, Excused, SavedTooLate, Emptying, At, None, Loose
<1>1. TypeOK'
  BY <1>a, LibraryConstants DEF IInv, TypeOK, SaveCommit, Fault
<1>2. Rows'
  BY LibraryConstants DEF IInv, TypeOK, Rows, SaveCommit
<1>3. Locals'
  BY DEF IInv, Locals, SaveCommit
<1>4. CoverOfOwnAlbum'
  BY DEF IInv, CoverOfOwnAlbum, SaveCommit
<1>5. RotationsNoticed'
  BY <1>a, <1>b
     DEF IInv, Rows, RotationsNoticed, Rotating, RotatingBy, Deleting, DeletingBy, LivePhotos
<1>6. FilesOwned'
  BY <1>a, <1>b, <1>c DEF IInv, FilesOwned, InStep, LivePhotos
<1>7. ListsComplete'
  BY <1>a, <1>b, <1>c DEF IInv, ListsComplete, PhotosIn, LivePhotos, Emptying
<1> QED
  BY <1>1, <1>2, <1>3, <1>4, <1>5, <1>6, <1>7 DEF IInv

\* SweepRows keeps IInv: the files of removed rows are listed by the janitor.
LEMMA SweepRowsStep ==
  ASSUME IInv, SweepRows
  PROVE  IInv'
<1>1. TypeOK'
  BY DEF IInv, TypeOK, None, Loose, LivePhotos, SweepRows, diskVars, Excused, Orphans
<1>2. Rows'
  BY DEF IInv, Rows, LivePhotos, SweepRows, Orphans
<1>3. Locals'
  BY DEF IInv, Locals, SweepRows
<1>4. CoverOfOwnAlbum'
  BY DEF IInv, CoverOfOwnAlbum, SweepRows
<1>5. RotationsNoticed'
  BY DEF IInv, TypeOK, RotationsNoticed, Rotating, RotatingBy, Deleting, DeletingBy,
         LivePhotos, Loose, SweepRows, Excused
<1>6. FilesOwned'
  BY DEF IInv, FilesOwned, InStep, LivePhotos, SweepRows, diskVars, Excused
<1>7. ListsComplete'
  BY DEF IInv, TypeOK, Request, Idle, ListsComplete, PhotosIn, LivePhotos, SweepRows, At,
         Answer, GoTo, Excused, rowVars, diskVars, histVars
<1> QED
  BY <1>1, <1>2, <1>3, <1>4, <1>5, <1>6, <1>7 DEF IInv

\* SweepFile keeps IInv: a file less, and one name less on the list.
LEMMA SweepFileStep ==
  ASSUME IInv, SweepFile
  PROVE  IInv'
<1>0. PICK p \in janList :
        /\ janList' = janList \ {p} /\ req' \in {Detached(p), req}
        /\ \/ file' = [file EXCEPT ![p] = NoFile] /\ UNCHANGED <<faults, excuse>>
           \/ UNCHANGED file /\ Fault /\ Excused({p}, Loose)
  BY DEF SweepFile
<1>a. /\ p \in Photos /\ req' \in [Requests -> Request]
      /\ \A r \in Requests : Same(req'[r], req[r]) /\ req'[r].list = req[r].list
  BY <1>0, DetachedRequests DEF IInv, TypeOK, Same
<1>b. \A r \in Requests : Same(req'[r], req[r])
  BY <1>a
<1>c. UNCHANGED <<rowVars, dirs, saving, turned>>
  BY DEF SweepFile
<1>d. \A r \in Photos : excuse[r] = Loose => excuse'[r] = Loose
  BY <1>0, <1>a DEF IInv, TypeOK, Excused, None, Loose
<1>e. \A r \in Photos : file'[r] # NoFile => file[r] # NoFile
  BY <1>0, <1>a DEF IInv, TypeOK
<1>f. file'[p] = NoFile \/ excuse'[p] = Loose
  BY <1>0, <1>a DEF IInv, TypeOK, Excused, None, Loose
<1>1. TypeOK'
  <2>1. excuse' \in [Photos -> None..Loose]
    BY <1>0 DEF IInv, TypeOK, Excused, None, Loose
  <2>2. file' \in [Photos -> Picture \cup {NoFile, Broken}] /\ faults' \in 0..MaxFaults
    BY <1>0, LibraryConstants DEF IInv, TypeOK, Fault
  <2> QED
    BY <2>1, <2>2, <1>0, <1>a, <1>c DEF IInv, TypeOK, rowVars
<1>2. Rows'
  BY DEF IInv, Rows, SweepFile, rowVars
<1>3. Locals'
  BY <1>b, <1>c DEF IInv, Locals, Same, rowVars
<1>4. CoverOfOwnAlbum'
  BY DEF IInv, CoverOfOwnAlbum, SweepFile, rowVars
<1>5. RotationsNoticed'
  <2>1. \A r \in Photos : Rotating(r)' => Rotating(r)
    BY <1>b DEF Rotating, RotatingBy, Same
  <2>3. \A r \in Photos : Deleting(r)' => Deleting(r)
    BY <1>0, <1>b, <1>c DEF Deleting, DeletingBy, Same, rowVars
  <2> QED
    BY <2>1, <2>3, <1>c, <1>d DEF IInv, RotationsNoticed, LivePhotos, rowVars
<1>6. FilesOwned'
  <2>1. \A r \in Photos : InStep(r, "delFile") => InStep(r, "delFile")'
    BY <1>b DEF InStep, Same
  <2> QED
    BY <2>1, <1>0, <1>a, <1>c, <1>d, <1>e, <1>f DEF IInv, FilesOwned, LivePhotos, rowVars
<1>7. ListsComplete'
  BY <1>a, <1>c, <1>d, <1>e, <1>f, KeepLists DEF IInv, LivePhotos, Same, rowVars
<1> QED
  BY <1>1, <1>2, <1>3, <1>4, <1>5, <1>6, <1>7 DEF IInv

\* SweepDir keeps IInv: directories are nobody's files.
LEMMA SweepDirStep ==
  ASSUME IInv, SweepDir
  PROVE  IInv'
<1>1. TypeOK'
  BY DEF IInv, TypeOK, SweepDir, rowVars, histVars
<1>2. Rows'
  BY DEF IInv, Rows, SweepDir, rowVars
<1>3. Locals'
  BY DEF IInv, Locals, SweepDir, rowVars
<1>4. CoverOfOwnAlbum'
  BY DEF IInv, CoverOfOwnAlbum, SweepDir, rowVars
<1>5. RotationsNoticed'
  BY DEF IInv, RotationsNoticed, Rotating, RotatingBy, Deleting, DeletingBy, LivePhotos,
         SweepDir, rowVars, histVars
<1>6. FilesOwned'
  BY DEF IInv, FilesOwned, InStep, LivePhotos, SweepDir, rowVars, histVars
<1>7. ListsComplete'
  BY DEF IInv, TypeOK, Request, Idle, ListsComplete, PhotosIn, LivePhotos, SweepDir, At,
         Answer, GoTo, Excused, rowVars, diskVars, histVars
<1> QED
  BY <1>1, <1>2, <1>3, <1>4, <1>5, <1>6, <1>7 DEF IInv

\* Crash keeps IInv: what was interrupted on a photo is noticed before its
\* request is forgotten.
LEMMA CrashStep ==
  ASSUME IInv, Crash
  PROVE  IInv'
<1>1. TypeOK'
  BY LibraryConstants
     DEF IInv, TypeOK, Request, Idle, None, StaleRow, CutShort, Loose, Crash, diskVars,
         Fault
<1>2. Rows'
  BY LibraryConstants DEF IInv, Rows, Crash
<1>3. Locals'
  BY DEF Locals, Idle, Crash
<1>4. CoverOfOwnAlbum'
  BY DEF IInv, CoverOfOwnAlbum, Crash
<1>5. RotationsNoticed'
  BY DEF RotationsNoticed, Rotating, RotatingBy, Idle, Crash
<1>6. FilesOwned'
  BY DEF IInv, FilesOwned, Deleting, DeletingBy, InStep, LivePhotos, StaleRow, CutShort,
         Loose, Crash, diskVars
<1>7. ListsComplete'
  BY DEF IInv, TypeOK, Request, Idle, ListsComplete, PhotosIn, LivePhotos, Crash, At,
         Answer, GoTo, Excused, rowVars, diskVars, histVars
<1> QED
  BY <1>1, <1>2, <1>3, <1>4, <1>5, <1>6, <1>7 DEF IInv

\* IInv holds at the start.
LEMMA InitIInv == Init => IInv
<1> SUFFICES ASSUME Init PROVE IInv
  OBVIOUS
<1>1. TypeOK
  BY IdleRequest, LibraryConstants DEF Init, TypeOK, Picture, None, Loose
<1>2. Rows /\ Locals /\ CoverOfOwnAlbum /\ FilesOwned /\ ListsComplete
  BY LibraryConstants
     DEF Init, Rows, Locals, CoverOfOwnAlbum, FilesOwned, ListsComplete, Idle
<1>3. RotationsNoticed
  BY DEF Init, RotationsNoticed, Rotating, RotatingBy, Idle
<1> QED
  BY <1>1, <1>2, <1>3 DEF IInv

\* A stutter keeps IInv.
LEMMA StutterIInv == ASSUME IInv, UNCHANGED vars PROVE IInv'
<1>0. UNCHANGED <<albumRow, cover, photoRow, albumOf, swapped, file, dirs, req, saving, janList, faults, turned, excuse>>
  BY DEF vars, rowVars, diskVars, histVars
<1>1. TypeOK' /\ Rows' /\ Locals' /\ CoverOfOwnAlbum'
  BY <1>0 DEF IInv, TypeOK, Rows, Locals, CoverOfOwnAlbum
<1>2. RotationsNoticed' /\ FilesOwned' /\ ListsComplete'
  BY <1>0
     DEF IInv, RotationsNoticed, FilesOwned, ListsComplete, Rotating, RotatingBy, Deleting,
         DeletingBy, InStep, LivePhotos, PhotosIn
<1> QED
  BY <1>1, <1>2 DEF IInv

\* Every step keeps the invariant.
LEMMA NextIInv == IInv /\ [Next]_vars => IInv'
<1> SUFFICES ASSUME IInv, [Next]_vars PROVE IInv'
  OBVIOUS
<1>1. CASE Next
  BY <1>1, CreateAlbumStep, UpdateAlbumReadStep, UpdateAlbumWriteStep,
     SetCoverReadStep, SetCoverWriteStep, DeletePhotoReadStep,
     ClearCoverStep, DeletePhotoRowStep, DeletePhotoFileStep,
     DeleteAlbumListStep, DeleteAlbumFileStep, DeleteAlbumRowStep,
     AlbumLostStep, RotateReadStep, RotateOpenStep, RotateCreateStep,
     RotateEncodeStep, RotateRedimStep, SaveBeginStep, SaveWriteStep,
     SaveCommitStep, SweepRowsStep, SweepFileStep, SweepDirStep, CrashStep
     DEF Next, Step, Sweep, Save
<1>2. CASE UNCHANGED vars
  BY <1>2, StutterIInv
<1> QED
  BY <1>1, <1>2

-----------------------------------------------------------------------------
(* Pictures.                                                                *)


\* Detaching keeps the turn a request is about to give.
LEMMA DetachedFields ==
  ASSUME TypeOK, NEW p, NEW q \in Requests
  PROVE  Detached(p)[q].turn = req[q].turn
<1> DEFINE v == [req[q] EXCEPT !.fd = FALSE]
<1>1. v.turn = req[q].turn
  BY DEF TypeOK, Request
<1>2. Detached(p)[q] = v \/ Detached(p)[q] = req[q]
  BY DEF Detached
<1> HIDE DEF v
<1> QED
  BY <1>1, <1>2

\* The step leaves file, row and history of p as they are.
Still(p) ==
  /\ file'[p] = file[p] /\ swapped'[p] = swapped[p]
  /\ turned'[p] = turned[p] /\ excuse'[p] = excuse[p]

\* A request the step does not concern, and whose photo it leaves alone.
LEMMA KeepRotation ==
  ASSUME NEW r \in Requests, NEW p, p = req[r].photo, RotationOf(r),
         Same(req'[r], req[r]), req'[r].turn = req[r].turn,
         Followed(p)' => Followed(p) /\ Still(p) /\ req'[r].fd = req[r].fd
  PROVE  RotationOf(r)'
<1>1. CASE Followed(p)'
  BY <1>1 DEF RotationOf, Turned, Same, Still, None
<1>2. CASE ~Followed(p)'
  BY <1>2 DEF RotationOf, Same
<1> QED
  BY <1>1, <1>2

\* A photo the step does not concern.
LEMMA KeepPicture ==
  ASSUME NEW p \in Photos, PictureOf(p),
         Followed(p)' => /\ Followed(p) /\ Still(p)
                         /\ InStep(p, "encode")' \/ ~InStep(p, "encode")
                         /\ InStep(p, "redim")' \/ ~InStep(p, "redim")
  PROVE  PictureOf(p)'
<1>1. CASE Followed(p)'
  BY <1>1 DEF PictureOf, Still, None, CutShort
<1>2. CASE ~Followed(p)'
  BY <1>2 DEF PictureOf
<1> QED
  BY <1>1, <1>2

\* A step of q, after which it is not rotating, on photos it does not change.
LEMMA QuietStep ==
  ASSUME PInv, NEW q \in Requests,
         req'[q].op \notin {"create", "encode", "redim"},
         req[q].op \notin {"encode", "redim"},
         \A r \in Requests \ {q} : Same(req'[r], req[r]) /\ req'[r].turn = req[r].turn,
         \A p \in Photos : Followed(p)' => Followed(p) /\ Still(p),
         \A r \in Requests \ {q} : \A p \in Photos :
           p = req[r].photo /\ Followed(p)' => req'[r].fd = req[r].fd
  PROVE  Rotations' /\ StillPictures'
<1>1. ASSUME NEW r \in Requests PROVE RotationOf(r)'
  <2>1. CASE r = q
    BY <2>1 DEF RotationOf
  <2>2. CASE r # q /\ req[r].op \in {"create", "encode", "redim"}
    <3>1. req[r].photo \in Photos /\ RotationOf(r)
      BY <2>2 DEF PInv, IInv, Locals, Rotations
    <3> QED
      BY <2>2, <3>1, KeepRotation
  <2>3. CASE r # q /\ req[r].op \notin {"create", "encode", "redim"}
    BY <2>3 DEF RotationOf, Same
  <2> QED
    BY <2>1, <2>2, <2>3
<1>2. ASSUME NEW p \in Photos PROVE PictureOf(p)'
  <2>1. InStep(p, "encode") => InStep(p, "encode")'
    BY DEF InStep, Same
  <2>2. InStep(p, "redim") => InStep(p, "redim")'
    BY DEF InStep, Same
  <2> QED
    BY <2>1, <2>2, KeepPicture DEF PInv, StillPictures
<1> QED
  BY <1>1, <1>2 DEF Rotations, StillPictures

\* A step of the saving worker, the janitor or the album table, which leaves the
\* requests alone, on photos it does not change.
LEMMA CalmStep ==
  ASSUME PInv, UNCHANGED req,
         \A p \in Photos : Followed(p)' => Followed(p) /\ Still(p)
  PROVE  Rotations' /\ StillPictures'
<1>1. ASSUME NEW r \in Requests PROVE RotationOf(r)'
  <2>1. CASE req[r].op \in {"create", "encode", "redim"}
    <3>1. req[r].photo \in Photos /\ RotationOf(r)
      BY <2>1 DEF PInv, IInv, Locals, Rotations
    <3> QED
      BY <2>1, <3>1, KeepRotation DEF Same
  <2>2. CASE req[r].op \notin {"create", "encode", "redim"}
    BY <2>2 DEF RotationOf
  <2> QED
    BY <2>1, <2>2
<1>2. ASSUME NEW p \in Photos PROVE PictureOf(p)'
  BY KeepPicture DEF PInv, StillPictures, InStep
<1> QED
  BY <1>1, <1>2 DEF Rotations, StillPictures

\* A step of a rotation: q is the only one at its photo, unless there is an excuse.
LEMMA RotationStep ==
  ASSUME PInv, NEW q \in Requests, NEW p \in Photos, RotatingBy(q, p),
         req'[q] = Idle \/ req'[q].photo = p,
         \A r \in Requests \ {q} : req'[r] = req[r],
         UNCHANGED <<photoRow, albumOf>>,
         \A x \in Photos \ {p} : Still(x),
         excuse[p] = Loose => excuse'[p] = Loose,
         RotationOf(q)', PictureOf(p)'
  PROVE  Rotations' /\ StillPictures'
<1>1. \A x \in Photos \ {p} : Followed(x)' => Followed(x)
  <2>1. \A x \in Photos : Emptying(x) => Emptying(x)'
    BY DEF Emptying, RotatingBy
  <2> QED
    BY <2>1 DEF Followed, LivePhotos, Still
<1>2. ASSUME NEW r \in Requests \ {q} PROVE RotationOf(r)'
  <2>1. CASE req[r].op \notin {"create", "encode", "redim"}
    BY <2>1 DEF RotationOf
  <2>2. CASE req[r].op \in {"create", "encode", "redim"} /\ req[r].photo = p
    <3>1. excuse[p] = Loose
      BY <2>2 DEF PInv, OneRotation, RotatingBy
    <3> QED
      BY <2>2, <3>1 DEF RotationOf, Followed
  <2>3. CASE req[r].op \in {"create", "encode", "redim"} /\ req[r].photo # p
    <3>1. req[r].photo \in Photos \ {p} /\ RotationOf(r)
      BY <2>3 DEF PInv, IInv, Locals, Rotations
    <3> QED
      BY <3>1, <1>1, KeepRotation DEF Same
  <2> QED
    BY <2>1, <2>2, <2>3
<1>3. ASSUME NEW x \in Photos \ {p} PROVE PictureOf(x)'
  <2>1. (InStep(x, "encode") => InStep(x, "encode")') /\ (InStep(x, "redim") => InStep(x, "redim")')
    BY DEF InStep, RotatingBy
  <2> QED
    BY <2>1, <1>1, KeepPicture DEF PInv, StillPictures
<1> QED
  BY <1>2, <1>3 DEF Rotations, StillPictures

\* CreateAlbum keeps the pictures: no photo is touched.
LEMMA CreateAlbumPicture ==
  ASSUME PInv, TypeOK', NEW a \in Albums, CreateAlbum(a)
  PROVE  Lifetimes' /\ OneRotation' /\ Rotations' /\ StillPictures'
<1>1. Lifetimes'
  BY DEF PInv, Lifetimes, CreateAlbum, diskVars, histVars
<1>2. OneRotation'
  BY DEF PInv, OneRotation, RotatingBy, CreateAlbum, histVars
<1>3. Rotations' /\ StillPictures'
  <2>1. UNCHANGED req
    BY DEF CreateAlbum
  <2>2. \A x \in Photos : Followed(x)' => Followed(x) /\ Still(x)
    BY <2>1 DEF Followed, Emptying, Still, LivePhotos, CreateAlbum, diskVars, histVars
  <2> QED
    BY <2>1, <2>2, CalmStep
<1> QED
  BY <1>1, <1>2, <1>3

\* UpdateAlbumRead keeps the pictures: no photo is touched.
LEMMA UpdateAlbumReadPicture ==
  ASSUME PInv, TypeOK', NEW q \in Requests, NEW a \in Albums, UpdateAlbumRead(q, a)
  PROVE  Lifetimes' /\ OneRotation' /\ Rotations' /\ StillPictures'
<1>a. req[q].op = "idle" /\ req'[q].op = "writeAlbum"
  BY IdleRequest DEF TypeOK, UpdateAlbumRead, At
<1>b. \A r \in Requests \ {q} : req'[r] = req[r]
  BY DEF PInv, IInv, TypeOK, UpdateAlbumRead, GoTo, Answer
<1>1. Lifetimes'
  BY DEF PInv, Lifetimes, UpdateAlbumRead, rowVars, diskVars, histVars
<1>2. OneRotation'
  BY DEF PInv, OneRotation, RotatingBy, UpdateAlbumRead, histVars
<1>3. Rotations' /\ StillPictures'
  <2>1. req[q].op \notin {"create", "encode", "redim", "remove"} /\ req'[q].op \notin {"create", "encode", "redim"}
    BY <1>a DEF UpdateAlbumRead, At, Idle
  <2>2. \A p \in Photos : Followed(p)' => Followed(p) /\ Still(p)
    <3>1. \A p \in Photos : Emptying(p) => Emptying(p)'
      BY <1>b, <2>1 DEF Emptying, UpdateAlbumRead, rowVars
    <3> QED
      BY <3>1
         DEF Followed, Still, LivePhotos, UpdateAlbumRead, rowVars, diskVars, histVars
  <2> QED
    BY <1>b, <2>1, <2>2, QuietStep DEF Same
<1> QED
  BY <1>1, <1>2, <1>3

\* UpdateAlbumWrite keeps the pictures: no photo is touched.
LEMMA UpdateAlbumWritePicture ==
  ASSUME PInv, TypeOK', NEW q \in Requests, UpdateAlbumWrite(q)
  PROVE  Lifetimes' /\ OneRotation' /\ Rotations' /\ StillPictures'
<1>1. Lifetimes'
  BY DEF PInv, Lifetimes, Idle, UpdateAlbumWrite, Answer, diskVars, histVars
<1>2. OneRotation'
  BY DEF PInv, OneRotation, RotatingBy, Idle, UpdateAlbumWrite, Answer, histVars
<1>3. Rotations' /\ StillPictures'
  <2>1. req[q].op = "writeAlbum" /\ req'[q].op = "idle"
    BY IdleRequest DEF TypeOK, Idle, UpdateAlbumWrite, At, Answer
  <2>2. \A r \in Requests \ {q} : req'[r] = req[r]
    BY DEF PInv, IInv, TypeOK, UpdateAlbumWrite, Answer
  <2>3. \A x \in Photos : Followed(x)' => Followed(x) /\ Still(x)
    <3>1. \A x \in Photos : Emptying(x) => Emptying(x)'
      BY <2>1, <2>2 DEF Emptying, UpdateAlbumWrite, rowVars
    <3> QED
      BY <3>1 DEF Followed, Still, LivePhotos, UpdateAlbumWrite, diskVars, histVars
  <2> QED
    BY <2>1, <2>2, <2>3, QuietStep DEF Same
<1> QED
  BY <1>1, <1>2, <1>3

\* SetCoverRead keeps the pictures: no photo is touched.
LEMMA SetCoverReadPicture ==
  ASSUME PInv, TypeOK', NEW q \in Requests, NEW p \in Photos, SetCoverRead(q, p)
  PROVE  Lifetimes' /\ OneRotation' /\ Rotations' /\ StillPictures'
<1>1. Lifetimes'
  BY DEF PInv, Lifetimes, LivePhotos, SetCoverRead, rowVars, diskVars, histVars
<1>2. OneRotation'
  BY DEF PInv, OneRotation, RotatingBy, SetCoverRead, histVars
<1>3. Rotations' /\ StillPictures'
  <2>1. req[q].op = "idle" /\ req'[q].op = "setCover"
    BY IdleRequest DEF TypeOK, SetCoverRead, At
  <2>2. \A r \in Requests \ {q} : req'[r] = req[r]
    BY DEF PInv, IInv, TypeOK, SetCoverRead, Answer
  <2>3. \A x \in Photos : Followed(x)' => Followed(x) /\ Still(x)
    <3>1. \A x \in Photos : Emptying(x) => Emptying(x)'
      BY <2>1, <2>2 DEF Emptying, SetCoverRead, rowVars
    <3> QED
      BY <3>1 DEF Followed, Still, LivePhotos, SetCoverRead, rowVars, diskVars, histVars
  <2> QED
    BY <2>1, <2>2, <2>3, QuietStep DEF Same
<1> QED
  BY <1>1, <1>2, <1>3

\* SetCoverWrite keeps the pictures: no photo is touched.
LEMMA SetCoverWritePicture ==
  ASSUME PInv, TypeOK', NEW q \in Requests, SetCoverWrite(q)
  PROVE  Lifetimes' /\ OneRotation' /\ Rotations' /\ StillPictures'
<1>1. Lifetimes'
  BY DEF PInv, Lifetimes, Idle, SetCoverWrite, Answer, diskVars, histVars
<1>2. OneRotation'
  BY DEF PInv, OneRotation, RotatingBy, Idle, SetCoverWrite, Answer, histVars
<1>3. Rotations' /\ StillPictures'
  <2>1. req[q].op = "setCover" /\ req'[q].op = "idle"
    BY IdleRequest DEF TypeOK, Idle, SetCoverWrite, At, Answer
  <2>2. \A r \in Requests \ {q} : req'[r] = req[r]
    BY DEF PInv, IInv, TypeOK, SetCoverWrite, Answer
  <2>3. \A x \in Photos : Followed(x)' => Followed(x) /\ Still(x)
    <3>1. \A x \in Photos : Emptying(x) => Emptying(x)'
      BY <2>1, <2>2 DEF Emptying, SetCoverWrite, rowVars
    <3> QED
      BY <3>1 DEF Followed, Still, LivePhotos, SetCoverWrite, diskVars, histVars
  <2> QED
    BY <2>1, <2>2, <2>3, QuietStep DEF Same
<1> QED
  BY <1>1, <1>2, <1>3

\* DeletePhotoRead keeps the pictures: a rotation under way is no longer
\* followed.
LEMMA DeletePhotoReadPicture ==
  ASSUME PInv, TypeOK', NEW q \in Requests, NEW p \in Photos, DeletePhotoRead(q, p)
  PROVE  Lifetimes' /\ OneRotation' /\ Rotations' /\ StillPictures'
<1>1. Lifetimes'
  BY DEF PInv, Lifetimes, LivePhotos, DeletePhotoRead, rowVars, diskVars
<1>2. OneRotation'
  BY DEF PInv, OneRotation, RotatingBy, DeletePhotoRead, Excused
<1>3. Rotations' /\ StillPictures'
  <2>1. req[q].op = "idle" /\ req'[q].op = "clear"
    BY IdleRequest DEF TypeOK, DeletePhotoRead, At
  <2>2. \A r \in Requests \ {q} : req'[r] = req[r]
    BY DEF PInv, IInv, TypeOK, DeletePhotoRead, Answer
  <2>3. \A x \in Photos : Followed(x)' => Followed(x) /\ Still(x)
    <3>1. \A x \in Photos : Emptying(x) => Emptying(x)'
      BY <2>1, <2>2 DEF Emptying, DeletePhotoRead, rowVars
    <3> QED
      <4>1. \A x \in Photos : excuse'[x] # Loose => excuse'[x] = excuse[x]
        BY DEF DeletePhotoRead, Excused
      <4> QED
        BY <3>1, <4>1
           DEF Followed, Still, LivePhotos, DeletePhotoRead, rowVars, diskVars
  <2> QED
    BY <2>1, <2>2, <2>3, QuietStep DEF Same
<1> QED
  BY <1>1, <1>2, <1>3

\* ClearCover keeps the pictures: no photo is touched.
LEMMA ClearCoverPicture ==
  ASSUME PInv, TypeOK', NEW q \in Requests, ClearCover(q)
  PROVE  Lifetimes' /\ OneRotation' /\ Rotations' /\ StillPictures'
<1>a. req[q].op = "clear" /\ req'[q].op = "delRow"
  BY IdleRequest DEF TypeOK, ClearCover, At, GoTo
<1>b. \A r \in Requests \ {q} : req'[r] = req[r]
  BY DEF PInv, IInv, TypeOK, ClearCover, GoTo, Answer
<1>1. Lifetimes'
  BY DEF PInv, Lifetimes, ClearCover, At, GoTo, diskVars, histVars
<1>2. OneRotation'
  BY DEF PInv, OneRotation, RotatingBy, ClearCover, GoTo, histVars
<1>3. Rotations' /\ StillPictures'
  <2>1. req[q].op \notin {"create", "encode", "redim", "remove"} /\ req'[q].op \notin {"create", "encode", "redim"}
    BY <1>a DEF ClearCover, At, Idle
  <2>2. \A p \in Photos : Followed(p)' => Followed(p) /\ Still(p)
    <3>1. \A p \in Photos : Emptying(p) => Emptying(p)'
      BY <1>b, <2>1 DEF Emptying, ClearCover, rowVars
    <3> QED
      BY <3>1 DEF Followed, Still, LivePhotos, ClearCover, diskVars, histVars
  <2> QED
    BY <1>b, <2>1, <2>2, QuietStep DEF Same
<1> QED
  BY <1>1, <1>2, <1>3

\* DeletePhotoRow keeps the pictures: the photo is no longer followed.
LEMMA DeletePhotoRowPicture ==
  ASSUME PInv, TypeOK', NEW q \in Requests, DeletePhotoRow(q)
  PROVE  Lifetimes' /\ OneRotation' /\ Rotations' /\ StillPictures'
<1>a. req[q].op = "delRow" /\ (req'[q] = Idle \/ (req'[q].op = "delFile" /\ req'[q].photo = req[q].photo))
  BY IdleRequest DEF TypeOK, Request, DeletePhotoRow, At, GoTo, Answer
<1>b. \A r \in Requests \ {q} : req'[r] = req[r]
  BY DEF PInv, IInv, TypeOK, DeletePhotoRow, GoTo, Answer
<1>1. Lifetimes'
  <2>1. req[q].photo \in Photos /\ photoRow[req[q].photo] \in {"live", "gone"}
    BY <1>a DEF PInv, IInv, Locals, Lifetimes
  <2>2. \A p \in Photos : \/ photoRow'[p] = photoRow[p]
                          \/ photoRow[p] \in {"live", "gone"} /\ photoRow'[p] = "gone"
    BY <2>1 DEF PInv, IInv, TypeOK, DeletePhotoRow
  <2>3. req'[q] = Idle \/ photoRow'[req[q].photo] = "gone"
    BY <1>a, <2>1 DEF PInv, IInv, TypeOK, DeletePhotoRow, Answer
  <2>4. UNCHANGED <<turned, swapped, file, albumOf, janList>>
    BY DEF DeletePhotoRow, diskVars, histVars
  <2>5. /\ \A p \in janList : p \in Photos
        /\ \A r \in Requests : req[r].list \subseteq Photos
    BY DEF PInv, IInv, TypeOK, Request
  <2>6. ASSUME NEW p \in Photos, photoRow'[p] \in {"unused", "saving"}
        PROVE  turned'[p] = 0 /\ swapped'[p] = 0 /\ file'[p] \in {NoFile, 0}
    BY <2>2, <2>4, <2>6 DEF PInv, Lifetimes
  <2>7. \A p \in janList' : photoRow'[p] = "gone"
    BY <2>2, <2>4, <2>5 DEF PInv, Lifetimes
  <2>8. ASSUME NEW r \in Requests
        PROVE  LET u == req'[r] IN
          /\ u.op \notin {"idle", "writeAlbum", "remove"} => photoRow'[u.photo] \in {"live", "gone"}
          /\ u.op = "delFile" => photoRow'[u.photo] = "gone"
          /\ u.op = "remove"
               => \A p \in u.list : albumOf'[p] = u.album /\ photoRow'[p] \in {"live", "gone"}
    <3>1. CASE r = q
      BY <3>1, <1>a, <2>1, <2>3 DEF Idle
    <3>2. CASE r # q
      BY <3>2, <1>b, <2>2, <2>4, <2>5 DEF PInv, IInv, Locals, Lifetimes
    <3> QED
      BY <3>1, <3>2
  <2> QED
    BY <2>6, <2>7, <2>8 DEF Lifetimes
<1>2. OneRotation'
  <2>1. \A r \in Requests, x \in Photos : RotatingBy(r, x)' => RotatingBy(r, x)
    BY <1>a, <1>b DEF RotatingBy, Idle, Same
  <2>2. \A x \in Photos : excuse'[x] # Loose => excuse[x] # Loose
    BY DEF DeletePhotoRow, histVars
  <2> QED
    BY <2>1, <2>2 DEF PInv, OneRotation
<1>3. Rotations' /\ StillPictures'
  <2>1. req[q].op \notin {"create", "encode", "redim", "remove"} /\ req'[q].op \notin {"create", "encode", "redim"}
    BY <1>a DEF DeletePhotoRow, At, Idle
  <2>2. \A p \in Photos : Followed(p)' => Followed(p) /\ Still(p)
    <3>1. \A p \in Photos : Emptying(p) => Emptying(p)'
      BY <1>b, <2>1 DEF Emptying, DeletePhotoRow, rowVars
    <3> QED
      BY <3>1
         DEF TypeOK, Followed, Still, LivePhotos, DeletePhotoRow, diskVars, histVars
  <2> QED
    BY <1>b, <2>1, <2>2, QuietStep DEF Same
<1> QED
  BY <1>1, <1>2, <1>3

\* DeletePhotoFile keeps the pictures: the photo had lost its row before.
LEMMA DeletePhotoFilePicture ==
  ASSUME PInv, TypeOK', NEW q \in Requests, DeletePhotoFile(q)
  PROVE  Lifetimes' /\ OneRotation' /\ Rotations' /\ StillPictures'
<1> DEFINE p == req[q].photo
<1>0. p \in Photos /\ req[q].op = "delFile" /\ photoRow[p] = "gone"
  BY DEF PInv, IInv, Locals, Lifetimes, DeletePhotoFile, At
<1>a. req'[q] = Idle
  BY DetachedRequests, IdleRequest, <1>0 DEF PInv, IInv, TypeOK, DeletePhotoFile, Answer
<1>b. \A r \in Requests \ {q} : Same(req'[r], req[r]) /\ req'[r].turn = req[r].turn /\ req'[r].list = req[r].list
  BY DetachedRequests, DetachedFields, <1>0
     DEF PInv, IInv, TypeOK, Same, DeletePhotoFile, Answer
<1>e. \A r \in Requests \ {q} : req[r].photo # p => req'[r] = req[r]
  BY <1>0 DEF PInv, IInv, TypeOK, Detached, DeletePhotoFile, Answer
<1>c. UNCHANGED <<rowVars, dirs, saving, janList, turned>>
  BY DEF DeletePhotoFile
<1>d. /\ \A x \in Photos \ {p} : file'[x] = file[x]
      /\ \A x \in Photos : excuse'[x] = excuse[x] \/ excuse'[x] = Loose
      /\ \A x \in Photos \ {p} : excuse'[x] = excuse[x]
  BY <1>0 DEF PInv, IInv, TypeOK, Excused, DeletePhotoFile
<1>1. Lifetimes'
  <2>1. \A x \in Photos : photoRow[x] \in {"unused", "saving"} => file'[x] = file[x]
    BY <1>0, <1>d
  <2> QED
    BY <1>a, <1>b, <1>c, <2>1 DEF PInv, Lifetimes, Same, Idle, rowVars
<1>2. OneRotation'
  <2>1. \A r \in Requests, x \in Photos : RotatingBy(r, x)' => RotatingBy(r, x)
    BY <1>a, <1>b DEF RotatingBy, Idle, Same
  <2> QED
    BY <2>1, <1>d DEF PInv, OneRotation
<1>3. Rotations' /\ StillPictures'
  <2>1. \A x \in Photos : Emptying(x) => Emptying(x)'
    BY <1>0, <1>b, <1>c DEF Emptying, Same, rowVars
  <2>2. \A x \in Photos : Followed(x)' => x # p /\ Followed(x) /\ Still(x)
    BY <1>0, <1>c, <1>d, <2>1 DEF Followed, Still, LivePhotos, rowVars
  <2>3. req[q].op \notin {"encode", "redim"} /\ req'[q].op \notin {"create", "encode", "redim"}
    BY <1>0, <1>a DEF Idle
  <2>4. \A r \in Requests \ {q} : \A x \in Photos : x = req[r].photo /\ Followed(x)' => req'[r].fd = req[r].fd
    BY <2>2, <1>e
  <2> QED
    BY <1>b, <2>2, <2>3, <2>4, QuietStep
<1> QED
  BY <1>1, <1>2, <1>3

\* DeleteAlbumList keeps the pictures: the photos of the album are no longer
\* followed.
LEMMA DeleteAlbumListPicture ==
  ASSUME PInv, TypeOK', NEW q \in Requests, NEW a \in Albums, DeleteAlbumList(q, a)
  PROVE  Lifetimes' /\ OneRotation' /\ Rotations' /\ StillPictures'
<1>a. /\ req[q].op = "idle" /\ req'[q].op = "remove"
      /\ req'[q].album = a /\ req'[q].list \subseteq PhotosIn(a)
  <2>1. PICK list \in SUBSET PhotosIn(a) :
          req' = [req EXCEPT ![q] = [Idle EXCEPT !.op = "remove", !.album = a, !.list = list]]
    BY DEF DeleteAlbumList
  <2> QED
    BY <2>1, IdleRequest DEF PInv, IInv, TypeOK, Request, Idle, DeleteAlbumList, At
<1>b. \A r \in Requests \ {q} : req'[r] = req[r]
  BY DEF PInv, IInv, TypeOK, DeleteAlbumList, GoTo, Answer
<1>1. Lifetimes'
  <2>1. UNCHANGED <<turned, swapped, file, albumOf, photoRow, janList>>
    BY DEF DeleteAlbumList, rowVars, diskVars
  <2>2. \A p \in PhotosIn(a) : albumOf[p] = a /\ photoRow[p] = "live"
    BY DEF PhotosIn, LivePhotos
  <2> QED
    BY <1>a, <1>b, <2>1, <2>2 DEF PInv, Lifetimes
<1>2. OneRotation'
  BY DEF PInv, OneRotation, RotatingBy, DeleteAlbumList, Excused
<1>3. Rotations' /\ StillPictures'
  <2>1. req[q].op \notin {"create", "encode", "redim", "remove"} /\ req'[q].op \notin {"create", "encode", "redim"}
    BY <1>a DEF DeleteAlbumList, At, Idle
  <2>2. \A p \in Photos : Followed(p)' => Followed(p) /\ Still(p)
    <3>1. \A p \in Photos : Emptying(p) => Emptying(p)'
      BY <1>b, <2>1 DEF Emptying, DeleteAlbumList, rowVars
    <3> QED
      BY <3>1
         DEF Followed, Still, LivePhotos, DeleteAlbumList, rowVars, diskVars, Excused
  <2> QED
    BY <1>b, <2>1, <2>2, QuietStep DEF Same
<1> QED
  BY <1>1, <1>2, <1>3

\* DeleteAlbumFile keeps the pictures: its album is being emptied, so the
\* photo is not followed.
LEMMA DeleteAlbumFilePicture ==
  ASSUME PInv, TypeOK', NEW q \in Requests, DeleteAlbumFile(q)
  PROVE  Lifetimes' /\ OneRotation' /\ Rotations' /\ StillPictures'
<1>0a. PICK p \in req[q].list : \E d \in {Detached(p), req} :
        /\ req' = [d EXCEPT ![q].list = @ \ {p}]
        /\ \/ file' = [file EXCEPT ![p] = NoFile] /\ UNCHANGED <<faults, excuse>>
           \/ UNCHANGED file /\ Fault /\ Excused({p}, Loose)
  BY DEF DeleteAlbumFile
<1>0. PICK d \in {Detached(p), req} :
        /\ req' = [d EXCEPT ![q].list = @ \ {p}]
        /\ \/ file' = [file EXCEPT ![p] = NoFile] /\ UNCHANGED <<faults, excuse>>
           \/ UNCHANGED file /\ Fault /\ Excused({p}, Loose)
  BY <1>0a
<1>1a. /\ p \in Photos /\ d \in [Requests -> Request]
       /\ req[q].op = "remove" /\ albumOf[p] = req[q].album /\ photoRow[p] \in {"live", "gone"}
  BY <1>0, DetachedRequests DEF PInv, IInv, TypeOK, Request, Lifetimes, DeleteAlbumFile, At
<1>1b. \A u \in Request : LET v == [u EXCEPT !.list = u.list \ {p}] IN
         Same(v, u) /\ v.turn = u.turn /\ v.fd = u.fd /\ v.list \subseteq u.list
  BY DEF Request, Same
<1>1c. req' = [d EXCEPT ![q] = [d[q] EXCEPT !.list = d[q].list \ {p}]]
  BY <1>0, <1>1a
<1>1d. \A r \in Requests : Same(d[r], req[r]) /\ d[r].list = req[r].list /\ d[r].turn = req[r].turn
  BY <1>0, DetachedRequests, DetachedFields DEF PInv, IInv, Same
<1>b. \A r \in Requests : Same(req'[r], req[r]) /\ req'[r].turn = req[r].turn /\ req'[r].list \subseteq req[r].list
  BY <1>1a, <1>1b, <1>1c, <1>1d DEF Same
<1>a. req'[q].op = "remove"
  BY <1>b, <1>1a DEF Same
<1>e. \A r \in Requests \ {q} : req[r].photo # p => req'[r] = req[r]
  BY <1>0, <1>1c DEF PInv, IInv, TypeOK, Detached
<1>c. UNCHANGED <<rowVars, dirs, saving, janList, turned>>
  BY DEF DeleteAlbumFile
<1>d. /\ \A x \in Photos \ {p} : file'[x] = file[x] /\ excuse'[x] = excuse[x]
      /\ excuse[p] = Loose => excuse'[p] = Loose
  BY <1>0, <1>1a DEF PInv, IInv, TypeOK, Excused, Loose
<1>1. Lifetimes'
  <2>1. \A x \in Photos : photoRow[x] \in {"unused", "saving"} => file'[x] = file[x]
    BY <1>1a, <1>d
  <2> QED
    BY <1>b, <1>c, <2>1 DEF PInv, Lifetimes, Same, rowVars
<1>2. OneRotation'
  <2>1. \A r \in Requests, x \in Photos : RotatingBy(r, x)' => RotatingBy(r, x)
    BY <1>b DEF RotatingBy, Same
  <2> QED
    BY <2>1, <1>d DEF PInv, OneRotation
<1>3. Rotations' /\ StillPictures'
  <2>1. \A x \in Photos : Emptying(x) => Emptying(x)'
    BY <1>b, <1>c DEF Emptying, Same, rowVars
  <2>2. Emptying(p)'
    BY <2>1, <1>1a DEF Emptying
  <2>3. \A x \in Photos : Followed(x)' => x # p /\ Followed(x) /\ Still(x)
    BY <1>c, <1>d, <2>1, <2>2 DEF Followed, Still, LivePhotos, rowVars
  <2>4. \A r \in Requests \ {q} : \A x \in Photos : x = req[r].photo /\ Followed(x)' => req'[r].fd = req[r].fd
    BY <2>3, <1>e
  <2> QED
    BY <1>a, <1>1a, <1>b, <2>3, <2>4, QuietStep
<1> QED
  BY <1>1, <1>2, <1>3

\* DeleteAlbumRow keeps the pictures: a photo of the album that keeps its row
\* is noticed if the files were removed for nothing.
LEMMA DeleteAlbumRowPicture ==
  ASSUME PInv, TypeOK', NEW q \in Requests, DeleteAlbumRow(q)
  PROVE  Lifetimes' /\ OneRotation' /\ Rotations' /\ StillPictures'
<1>1. Lifetimes'
  BY DEF PInv, IInv, TypeOK, Locals, Lifetimes, Request, Idle, DeleteAlbumRow, Answer,
         diskVars
<1>2. OneRotation'
  BY DEF PInv, OneRotation, RotatingBy, Idle, DeleteAlbumRow, Answer, Excused
<1>3. Rotations' /\ StillPictures'
  <2>1. req[q].op = "remove" /\ req'[q].op = "idle"
    BY IdleRequest DEF TypeOK, Idle, DeleteAlbumRow, At, Answer
  <2>2. \A r \in Requests \ {q} : req'[r] = req[r]
    BY DEF PInv, IInv, TypeOK, DeleteAlbumRow, Answer
  <2>3. \A x \in Photos : Followed(x)' => Followed(x) /\ Still(x)
    <3>1. \A x \in Photos : /\ photoRow'[x] = "live" => photoRow[x] = "live"
                            /\ excuse'[x] # Loose => excuse'[x] = excuse[x]
      BY DEF DeleteAlbumRow, Excused
    <3>2. UNCHANGED <<albumOf, file, swapped, turned>>
      BY DEF DeleteAlbumRow, diskVars
    <3>3. ASSUME NEW x \in Photos, photoRow'[x] = "live", excuse'[x] # Loose
          PROVE  albumOf[x] # req[q].album
      <4>1. excuse[x] < Loose
        BY <3>1, <3>3 DEF PInv, IInv, TypeOK, None, Loose
      <4> QED
        BY <3>1, <3>3, <4>1
           DEF DeleteAlbumRow, Excused, PhotosIn, LivePhotos, Cascade, Loose
    <3>4. ASSUME NEW x \in Photos, Followed(x)'
          PROVE  Followed(x)
      <4>1. \A r \in Requests : req[r].op = "remove" => req[r].album # albumOf[x]
        BY <3>2, <3>3, <3>4, <2>2 DEF Followed, Emptying, LivePhotos, Loose
      <4> QED
        BY <3>1, <3>4, <4>1 DEF Followed, Emptying, LivePhotos, Loose
    <3> QED
      BY <3>1, <3>2, <3>4 DEF Followed, Still, Loose
  <2> QED
    BY <2>1, <2>2, <2>3, QuietStep DEF Same
<1> QED
  BY <1>1, <1>2, <1>3

\* AlbumLost keeps the pictures: no photo is touched.
LEMMA AlbumLostPicture ==
  ASSUME PInv, TypeOK', NEW a \in Albums, AlbumLost(a)
  PROVE  Lifetimes' /\ OneRotation' /\ Rotations' /\ StillPictures'
<1>1. Lifetimes'
  BY DEF PInv, Lifetimes, AlbumLost, diskVars, histVars
<1>2. OneRotation'
  BY DEF PInv, OneRotation, RotatingBy, AlbumLost, histVars
<1>3. Rotations' /\ StillPictures'
  <2>1. UNCHANGED req
    BY DEF AlbumLost
  <2>2. \A x \in Photos : Followed(x)' => Followed(x) /\ Still(x)
    BY <2>1 DEF Followed, Emptying, Still, LivePhotos, AlbumLost, diskVars, histVars
  <2> QED
    BY <2>1, <2>2, CalmStep
<1> QED
  BY <1>1, <1>2, <1>3

\* RotateRead keeps the pictures: two rotations of one photo are noticed.
LEMMA RotateReadPicture ==
  ASSUME PInv, TypeOK', NEW q \in Requests, NEW p \in Photos, RotateRead(q, p)
  PROVE  Lifetimes' /\ OneRotation' /\ Rotations' /\ StillPictures'
<1>0. PICK k \in Angles : req' = [req EXCEPT ![q] = [Idle EXCEPT !.op = "open", !.photo = p, !.turn = k]]
  BY DEF RotateRead
<1>a. req[q].op = "idle" /\ req'[q].op = "open"
  BY <1>0, IdleRequest DEF PInv, IInv, TypeOK, Request, RotateRead, At
<1>b. \A r \in Requests \ {q} : req'[r] = req[r]
  BY <1>0 DEF PInv, IInv, TypeOK
<1>1. Lifetimes'
  BY DEF PInv, Lifetimes, LivePhotos, RotateRead, rowVars, diskVars
<1>2. OneRotation'
  BY DEF PInv, TypeOK, OneRotation, RotatingBy, Rotating, Loose, RotateRead, At,
         SqlFree, rowVars, diskVars, Excused
<1>3. Rotations' /\ StillPictures'
  <2>1. req[q].op \notin {"create", "encode", "redim", "remove"} /\ req'[q].op \notin {"create", "encode", "redim"}
    BY <1>a DEF RotateRead, At, Idle
  <2>2. \A x \in Photos : Followed(x)' => Followed(x) /\ Still(x)
    <3>1. \A x \in Photos : Emptying(x) => Emptying(x)'
      BY <1>b, <2>1 DEF Emptying, RotateRead, rowVars
    <3> QED
      BY <3>1 DEF Followed, Still, LivePhotos, RotateRead, rowVars, diskVars, Excused
  <2> QED
    BY <1>b, <2>1, <2>2, QuietStep DEF Same
<1> QED
  BY <1>1, <1>2, <1>3

\* RotateOpen keeps the pictures: a photo that is followed is read as it was
\* left.
LEMMA RotateOpenPicture ==
  ASSUME PInv, TypeOK', NEW q \in Requests, RotateOpen(q)
  PROVE  Lifetimes' /\ OneRotation' /\ Rotations' /\ StillPictures'
<1>0. PICK p \in Photos : p = req[q].photo /\ req[q].op = "open" /\ RotatingBy(q, p)
  BY DEF PInv, IInv, Locals, RotatingBy, RotateOpen, At
<1>a. \/ /\ req'[q].op = "create" /\ req'[q].photo = p /\ req'[q].turn = req[q].turn
         /\ req'[q].seen = (file[p] + req[q].turn) % 4 /\ file[p] \in Picture
         /\ \A r \in Requests \ {q} : req'[r] = req[r]
      \/ req' = [req EXCEPT ![q] = Idle]
  <2> DEFINE v == [req[q] EXCEPT !.op = "create", !.seen = (file[p] + req[q].turn) % 4]
  <2>1. v.op = "create" /\ v.photo = p /\ v.turn = req[q].turn /\ v.seen = (file[p] + req[q].turn) % 4
    BY <1>0 DEF PInv, IInv, TypeOK, Request
  <2>2. \/ req' = [req EXCEPT ![q] = v] /\ file[p] \in Picture
        \/ req' = [req EXCEPT ![q] = Idle]
    BY <1>0 DEF PInv, IInv, TypeOK, RotateOpen, Answer
  <2> HIDE DEF v
  <2> QED
    BY <2>1, <2>2 DEF PInv, IInv, TypeOK
<1>b. \A r \in Requests \ {q} : req'[r] = req[r]
  BY <1>a DEF PInv, IInv, TypeOK
<1>q. req'[q] = Idle \/ req'[q].photo = p
  BY <1>a DEF PInv, IInv, TypeOK
<1>e. UNCHANGED <<photoRow, albumOf>> /\ \A x \in Photos \ {p} : Still(x)
  BY <1>0 DEF RotateOpen, Still, rowVars, diskVars, histVars
<1>g. excuse[p] = Loose => excuse'[p] = Loose
  BY <1>0 DEF RotateOpen, histVars
<1>h. Followed(p)' => Followed(p)
  <2>1. Emptying(p) => Emptying(p)'
    BY <1>0, <1>b, <1>e DEF Emptying
  <2> QED
    BY <2>1, <1>e, <1>g DEF Followed, LivePhotos
<1>i. Followed(p) => \A r \in Requests : RotatingBy(r, p) => r = q
  BY <1>0 DEF PInv, OneRotation, Followed
<1>j. Followed(p) /\ PictureOf(p) /\ req[q].op \in {"open", "create"}
        => /\ excuse[p] < CutShort => file[p] \in Picture
           /\ excuse[p] = None => file[p] = turned[p] /\ swapped[p] = turned[p] % 2
  BY <1>i DEF PictureOf, InStep, RotatingBy
<1>1. Lifetimes'
  <2>1. /\ photoRow[p] \in {"live", "gone"}
        /\ UNCHANGED <<photoRow, albumOf, janList>>
    BY <1>0, <1>e DEF PInv, Lifetimes, RotateOpen
  <2>2. ASSUME NEW x \in Photos, photoRow'[x] \in {"unused", "saving"}
        PROVE  turned'[x] = 0 /\ swapped'[x] = 0 /\ file'[x] \in {NoFile, 0}
    BY <2>1, <2>2, <1>e DEF PInv, Lifetimes, Still
  <2>3. \A x \in janList' : photoRow'[x] = "gone"
    BY <2>1 DEF PInv, Lifetimes
  <2>4. req'[q].op \in {"idle", "create", "encode"} /\ (req'[q].op # "idle" => req'[q].photo = p)
    BY <1>a, <1>0 DEF PInv, IInv, TypeOK, Idle
  <2>5. ASSUME NEW r \in Requests
        PROVE  LET u == req'[r] IN
          /\ u.op \notin {"idle", "writeAlbum", "remove"} => photoRow'[u.photo] \in {"live", "gone"}
          /\ u.op = "delFile" => photoRow'[u.photo] = "gone"
          /\ u.op = "remove"
               => \A x \in u.list : albumOf'[x] = u.album /\ photoRow'[x] \in {"live", "gone"}
    <3>1. CASE r = q
      BY <3>1, <2>1, <2>4
    <3>2. CASE r # q
      BY <3>2, <1>b, <2>1 DEF PInv, Lifetimes
    <3> QED
      BY <3>1, <3>2
  <2> QED
    BY <2>2, <2>3, <2>5 DEF Lifetimes
<1>2. OneRotation'
  <2>1. \A r \in Requests, x \in Photos : RotatingBy(r, x)' => RotatingBy(r, x)
    BY <1>0, <1>a, <1>b, <1>q DEF RotatingBy, Idle
  <2>2. \A x \in Photos : excuse[x] = Loose => excuse'[x] = Loose
    BY <1>e, <1>g DEF Still
  <2> QED
    BY <2>1, <2>2 DEF PInv, OneRotation
<1>3. Rotations' /\ StillPictures'
  <2>1. UNCHANGED <<file, turned, excuse, swapped>>
    BY DEF RotateOpen, rowVars, diskVars, histVars
  <2>2. PictureOf(p)
    BY <1>0 DEF PInv, StillPictures
  <2>3. RotationOf(q)'
    <3>1. CASE req' = [req EXCEPT ![q] = Idle]
      BY <3>1 DEF PInv, IInv, TypeOK, RotationOf, Idle
    <3>2. CASE /\ req'[q].op = "create" /\ req'[q].photo = p /\ req'[q].turn = req[q].turn
               /\ req'[q].seen = (file[p] + req[q].turn) % 4
      <4>1. SUFFICES ASSUME Followed(p)'
                     PROVE  (excuse'[p] = None => req'[q].seen = Turned(q)')
        BY <3>2 DEF RotationOf
      <4> QED
        BY <4>1, <3>2, <1>0, <1>j, <1>h, <2>1, <2>2 DEF Turned, Idle, None, CutShort
    <3> QED
      BY <1>a, <3>1, <3>2
  <2>4. PictureOf(p)'
    BY <1>0, <1>h, <1>j, <2>1, <2>2 DEF PictureOf
  <2> QED
    BY <1>0, <1>b, <1>e, <1>g, <1>q, <2>3, <2>4, RotationStep
<1> QED
  BY <1>1, <1>2, <1>3

\* RotateCreate keeps the pictures: the file of the followed photo is broken
\* until it is encoded.
LEMMA RotateCreatePicture ==
  ASSUME PInv, TypeOK', NEW q \in Requests, RotateCreate(q)
  PROVE  Lifetimes' /\ OneRotation' /\ Rotations' /\ StillPictures'
<1>0. PICK p \in Photos : p = req[q].photo /\ req[q].op = "create" /\ RotatingBy(q, p)
  BY DEF PInv, IInv, Locals, RotatingBy, RotateCreate, At
<1>a. \/ /\ req'[q].op = "encode" /\ req'[q].photo = p /\ req'[q].turn = req[q].turn
         /\ req'[q].seen = req[q].seen /\ req'[q].fd /\ file'[p] = Broken
         /\ \A r \in Requests \ {q} : req'[r] = req[r]
      \/ req' = [req EXCEPT ![q] = Idle] /\ UNCHANGED file
  <2> DEFINE v == [req[q] EXCEPT !.op = "encode", !.fd = TRUE]
  <2>1. v.op = "encode" /\ v.photo = p /\ v.turn = req[q].turn /\ v.seen = req[q].seen /\ v.fd
    BY <1>0 DEF PInv, IInv, TypeOK, Request
  <2>2. \/ req' = [req EXCEPT ![q] = v] /\ file'[p] = Broken
        \/ req' = [req EXCEPT ![q] = Idle] /\ UNCHANGED file
    BY <1>0 DEF PInv, IInv, TypeOK, RotateCreate, Answer
  <2> HIDE DEF v
  <2> QED
    BY <2>1, <2>2 DEF PInv, IInv, TypeOK
<1>b. \A r \in Requests \ {q} : req'[r] = req[r]
  BY <1>a DEF PInv, IInv, TypeOK
<1>q. req'[q] = Idle \/ req'[q].photo = p
  BY <1>a DEF PInv, IInv, TypeOK
<1>e. UNCHANGED <<photoRow, albumOf>> /\ \A x \in Photos \ {p} : Still(x)
  BY <1>0 DEF TypeOK, RotateCreate, Still, rowVars, histVars
<1>g. excuse[p] = Loose => excuse'[p] = Loose
  BY <1>0 DEF RotateCreate, histVars
<1>h. Followed(p)' => Followed(p)
  <2>1. Emptying(p) => Emptying(p)'
    BY <1>0, <1>b, <1>e DEF Emptying
  <2> QED
    BY <2>1, <1>e, <1>g DEF Followed, LivePhotos
<1>i. Followed(p) => \A r \in Requests : RotatingBy(r, p) => r = q
  BY <1>0 DEF PInv, OneRotation, Followed
<1>j. Followed(p) /\ PictureOf(p) /\ req[q].op \in {"open", "create"}
        => /\ excuse[p] < CutShort => file[p] \in Picture
           /\ excuse[p] = None => file[p] = turned[p] /\ swapped[p] = turned[p] % 2
  BY <1>i DEF PictureOf, InStep, RotatingBy
<1>1. Lifetimes'
  <2>1. /\ photoRow[p] \in {"live", "gone"}
        /\ UNCHANGED <<photoRow, albumOf, janList>>
    BY <1>0, <1>e DEF PInv, Lifetimes, RotateCreate
  <2>2. ASSUME NEW x \in Photos, photoRow'[x] \in {"unused", "saving"}
        PROVE  turned'[x] = 0 /\ swapped'[x] = 0 /\ file'[x] \in {NoFile, 0}
    BY <2>1, <2>2, <1>e DEF PInv, Lifetimes, Still
  <2>3. \A x \in janList' : photoRow'[x] = "gone"
    BY <2>1 DEF PInv, Lifetimes
  <2>4. req'[q].op \in {"idle", "create", "encode"} /\ (req'[q].op # "idle" => req'[q].photo = p)
    BY <1>a, <1>0 DEF PInv, IInv, TypeOK, Idle
  <2>5. ASSUME NEW r \in Requests
        PROVE  LET u == req'[r] IN
          /\ u.op \notin {"idle", "writeAlbum", "remove"} => photoRow'[u.photo] \in {"live", "gone"}
          /\ u.op = "delFile" => photoRow'[u.photo] = "gone"
          /\ u.op = "remove"
               => \A x \in u.list : albumOf'[x] = u.album /\ photoRow'[x] \in {"live", "gone"}
    <3>1. CASE r = q
      BY <3>1, <2>1, <2>4
    <3>2. CASE r # q
      BY <3>2, <1>b, <2>1 DEF PInv, Lifetimes
    <3> QED
      BY <3>1, <3>2
  <2> QED
    BY <2>2, <2>3, <2>5 DEF Lifetimes
<1>2. OneRotation'
  <2>1. \A r \in Requests, x \in Photos : RotatingBy(r, x)' => RotatingBy(r, x)
    BY <1>0, <1>a, <1>b, <1>q DEF RotatingBy, Idle
  <2>2. \A x \in Photos : excuse[x] = Loose => excuse'[x] = Loose
    BY <1>e, <1>g DEF Still
  <2> QED
    BY <2>1, <2>2 DEF PInv, OneRotation
<1>3. Rotations' /\ StillPictures'
  <2>1. UNCHANGED <<turned, excuse, swapped>>
    BY DEF RotateCreate, rowVars, histVars
  <2>2. PictureOf(p) /\ RotationOf(q)
    BY <1>0 DEF PInv, StillPictures, Rotations
  <2>3. RotationOf(q)'
    <3>1. CASE req' = [req EXCEPT ![q] = Idle]
      BY <3>1 DEF PInv, IInv, TypeOK, RotationOf, Idle
    <3>2. CASE /\ req'[q].op = "encode" /\ req'[q].photo = p /\ req'[q].turn = req[q].turn
               /\ req'[q].seen = req[q].seen /\ req'[q].fd /\ file'[p] = Broken
      <4>1. SUFFICES ASSUME Followed(p)'
                     PROVE  (excuse'[p] = None => req'[q].seen = Turned(q)') /\ req'[q].fd /\ file'[p] = Broken
        BY <3>2 DEF RotationOf
      <4> QED
        BY <4>1, <3>2, <1>0, <1>h, <2>1, <2>2 DEF RotationOf, Turned, Idle
    <3> QED
      BY <1>a, <3>1, <3>2
  <2>4. PictureOf(p)'
    <3>1. CASE req' = [req EXCEPT ![q] = Idle] /\ UNCHANGED file
      BY <3>1, <1>0, <1>h, <1>j, <2>1, <2>2 DEF PictureOf
    <3>2. CASE req'[q].op = "encode" /\ req'[q].photo = p
      BY <3>2 DEF PictureOf, InStep
    <3> QED
      BY <3>1, <3>2, <1>a
  <2> QED
    BY <1>0, <1>b, <1>e, <1>g, <1>q, <2>3, <2>4, RotationStep
<1> QED
  BY <1>1, <1>2, <1>3

\* RotateEncode keeps the pictures: the picture written is the one that was
\* read, turned.
LEMMA RotateEncodePicture ==
  ASSUME PInv, TypeOK', NEW q \in Requests, RotateEncode(q)
  PROVE  Lifetimes' /\ OneRotation' /\ Rotations' /\ StillPictures'
<1>0. PICK p \in Photos : p = req[q].photo /\ req[q].op = "encode" /\ RotatingBy(q, p)
  BY DEF PInv, IInv, Locals, RotatingBy, RotateEncode, At
<1>a. /\ \/ /\ req'[q].op = "redim" /\ req'[q].photo = p /\ req'[q].turn = req[q].turn
            /\ req'[q].seen = req[q].seen
         \/ req'[q] = Idle
      /\ \A r \in Requests \ {q} : req'[r] = req[r]
  <2> DEFINE v == [req[q] EXCEPT !.op = "redim"]
             w == [req[q] EXCEPT !.op = "redim", !.fd = FALSE]
  <2>1. /\ v.op = "redim" /\ v.photo = p /\ v.turn = req[q].turn /\ v.seen = req[q].seen
        /\ w.op = "redim" /\ w.photo = p /\ w.turn = req[q].turn /\ w.seen = req[q].seen
    BY <1>0 DEF PInv, IInv, TypeOK, Request
  <2>2. \E x \in {v, w, Idle} : req' = [req EXCEPT ![q] = x]
    BY DEF PInv, IInv, TypeOK, RotateEncode, GoTo, Answer
  <2> HIDE DEF v, w
  <2> QED
    BY <2>1, <2>2 DEF PInv, IInv, TypeOK
<1>f. \/ ~req[q].fd /\ UNCHANGED <<file, excuse>> /\ req'[q].op = "redim"
      \/ /\ UNCHANGED excuse
         /\ file'[p] = req[q].seen \/ (file'[p] = Broken /\ file[p] # Broken)
         /\ req'[q].op = "redim"
      \/ excuse'[p] >= CutShort /\ UNCHANGED file /\ req'[q] = Idle
  <2> DEFINE v == [req[q] EXCEPT !.op = "redim"]
             w == [req[q] EXCEPT !.op = "redim", !.fd = FALSE]
  <2>1. v.op = "redim" /\ w.op = "redim"
    BY <1>0 DEF PInv, IInv, TypeOK, Request
  <2>2. \/ ~req[q].fd /\ UNCHANGED <<file, excuse>> /\ req' = [req EXCEPT ![q] = v]
        \/ /\ UNCHANGED excuse
           /\ file'[p] = req[q].seen \/ (file'[p] = Broken /\ file[p] # Broken)
           /\ req' = [req EXCEPT ![q] = w]
        \/ Fault /\ Answer(q) /\ Excused({p}, CutShort) /\ UNCHANGED file
    BY <1>0 DEF PInv, IInv, TypeOK, RotateEncode, GoTo
  <2>3. (Answer(q) /\ Excused({p}, CutShort)) => excuse'[p] >= CutShort /\ req'[q] = Idle
    BY <1>0 DEF IInv, TypeOK, Answer, Excused
  <2> HIDE DEF v, w
  <2> QED
    BY <2>1, <2>2, <2>3 DEF PInv, IInv, TypeOK
<1>b. \A r \in Requests \ {q} : req'[r] = req[r]
  BY <1>a DEF PInv, IInv, TypeOK
<1>q. req'[q] = Idle \/ req'[q].photo = p
  BY <1>a DEF PInv, IInv, TypeOK
<1>e. UNCHANGED <<photoRow, albumOf>> /\ \A x \in Photos \ {p} : Still(x)
  BY <1>0 DEF TypeOK, RotateEncode, Still, Excused, rowVars
<1>g. excuse[p] = Loose => excuse'[p] = Loose
  BY <1>0 DEF PInv, IInv, TypeOK, RotateEncode, Excused
<1>h. Followed(p)' => Followed(p)
  <2>1. Emptying(p) => Emptying(p)'
    BY <1>0, <1>b, <1>e DEF Emptying
  <2> QED
    BY <2>1, <1>e, <1>g DEF Followed, LivePhotos
<1>i. Followed(p) => \A r \in Requests : RotatingBy(r, p) => r = q
  BY <1>0 DEF PInv, OneRotation, Followed
<1>j. Followed(p) /\ PictureOf(p) /\ req[q].op \in {"open", "create"}
        => /\ excuse[p] < CutShort => file[p] \in Picture
           /\ excuse[p] = None => file[p] = turned[p] /\ swapped[p] = turned[p] % 2
  BY <1>i DEF PictureOf, InStep, RotatingBy
<1>1. Lifetimes'
  <2>1. /\ photoRow[p] \in {"live", "gone"}
        /\ UNCHANGED <<photoRow, albumOf, janList>>
    BY <1>0, <1>e DEF PInv, Lifetimes, RotateEncode
  <2> QED
    BY <1>a, <1>b, <1>q, <1>0, <1>e, <2>1 DEF PInv, Lifetimes, Still, Idle
<1>2. OneRotation'
  <2>1. \A r \in Requests, x \in Photos : RotatingBy(r, x)' => RotatingBy(r, x)
    BY <1>0, <1>a, <1>b, <1>q DEF RotatingBy, Idle
  <2>2. \A x \in Photos : excuse[x] = Loose => excuse'[x] = Loose
    BY <1>e, <1>g DEF Still
  <2> QED
    BY <2>1, <2>2 DEF PInv, OneRotation
<1>3. Rotations' /\ StillPictures'
  <2>1. UNCHANGED <<turned, swapped>>
    BY DEF RotateEncode, rowVars
  <2>2. RotationOf(q) /\ req[q].seen \in Picture
    BY <1>0 DEF PInv, IInv, Locals, Rotations
  <2>3. RotationOf(q)'
    BY <1>0, <1>a, <1>f, <1>h, <2>1, <2>2 DEF RotationOf, Turned, Idle
  <2>4. PictureOf(p)'
    <3>1. CASE req'[q].op = "redim" /\ req'[q].photo = p
      BY <3>1 DEF PictureOf, InStep
    <3>2. CASE excuse'[p] >= CutShort
      <4>1. excuse'[p] \in Nat
        BY DEF TypeOK, None, Loose
      <4> QED
        BY <3>2, <4>1 DEF PictureOf, CutShort, None
    <3> QED
      BY <3>1, <3>2, <1>a, <1>f DEF Idle
  <2> QED
    BY <1>0, <1>b, <1>e, <1>g, <1>q, <2>3, <2>4, RotationStep
<1> QED
  BY <1>1, <1>2, <1>3

\* RotateRedim keeps the pictures: the dimensions become those of the picture
\* in the file, or the failure is noticed.
LEMMA RotateRedimPicture ==
  ASSUME PInv, TypeOK', NEW q \in Requests, RotateRedim(q)
  PROVE  Lifetimes' /\ OneRotation' /\ Rotations' /\ StillPictures'
<1>0. PICK p \in Photos : p = req[q].photo /\ req[q].op = "redim" /\ RotatingBy(q, p)
  BY DEF PInv, IInv, Locals, RotatingBy, RotateRedim, At
<1>a. req' = [req EXCEPT ![q] = Idle]
  BY DEF RotateRedim, Answer
<1>b. \A r \in Requests \ {q} : req'[r] = req[r]
  BY <1>a DEF PInv, IInv, TypeOK
<1>q. req'[q] = Idle \/ req'[q].photo = p
  BY <1>a DEF PInv, IInv, TypeOK
<1>e. UNCHANGED <<photoRow, albumOf>> /\ \A x \in Photos \ {p} : Still(x)
  BY <1>0 DEF TypeOK, RotateRedim, Still, Excused, diskVars
<1>g. excuse[p] = Loose => excuse'[p] = Loose
  BY <1>0 DEF PInv, IInv, TypeOK, RotateRedim, Excused
<1>h. Followed(p)' => Followed(p)
  <2>1. Emptying(p) => Emptying(p)'
    BY <1>0, <1>b, <1>e DEF Emptying
  <2> QED
    BY <2>1, <1>e, <1>g DEF Followed, LivePhotos
<1>i. Followed(p) => \A r \in Requests : RotatingBy(r, p) => r = q
  BY <1>0 DEF PInv, OneRotation, Followed
<1>j. Followed(p) /\ PictureOf(p) /\ req[q].op \in {"open", "create"}
        => /\ excuse[p] < CutShort => file[p] \in Picture
           /\ excuse[p] = None => file[p] = turned[p] /\ swapped[p] = turned[p] % 2
  BY <1>i DEF PictureOf, InStep, RotatingBy
<1>1. Lifetimes'
  <2>1. /\ photoRow[p] \in {"live", "gone"}
        /\ UNCHANGED <<photoRow, albumOf, janList>>
    BY <1>0, <1>e DEF PInv, Lifetimes, RotateRedim
  <2> QED
    BY <1>a, <1>b, <1>q, <1>0, <1>e, <2>1 DEF PInv, Lifetimes, Still, Idle
<1>2. OneRotation'
  <2>1. \A r \in Requests, x \in Photos : RotatingBy(r, x)' => RotatingBy(r, x)
    BY <1>0, <1>a, <1>b, <1>q DEF RotatingBy, Idle
  <2>2. \A x \in Photos : excuse[x] = Loose => excuse'[x] = Loose
    BY <1>e, <1>g DEF Still
  <2> QED
    BY <2>1, <2>2 DEF PInv, OneRotation
<1>3. Rotations' /\ StillPictures'
  <2>1. UNCHANGED file
    BY DEF RotateRedim, diskVars
  <2>2. RotationOf(q) /\ req[q].seen \in Picture
    BY <1>0 DEF PInv, IInv, Locals, Rotations
  <2>3. RotationOf(q)'
    BY <1>a DEF PInv, IInv, TypeOK, RotationOf, Idle
  <2>4. \/ UNCHANGED excuse /\ turned'[p] = Turned(q) /\ swapped'[p] = req[q].seen % 2
        \/ p \notin LivePhotos
        \/ excuse'[p] >= StaleRow /\ (excuse'[p] < CutShort => excuse[p] < CutShort)
    BY <1>0 DEF PInv, IInv, TypeOK, RotateRedim, Excused, Turned, StaleRow, CutShort
  <2>5. PictureOf(p)'
    <3> SUFFICES ASSUME Followed(p)'
                 PROVE  /\ excuse'[p] < CutShort => file'[p] \in Picture
                        /\ excuse'[p] = None => file'[p] = turned'[p] /\ swapped'[p] = turned'[p] % 2
      BY DEF PictureOf
    <3>1. /\ file[p] \in Picture
          /\ excuse[p] = None => file[p] = req[q].seen /\ req[q].seen = Turned(q)
      BY <1>0, <1>h, <2>2 DEF RotationOf
    <3>2. p \in LivePhotos /\ excuse[p] \in Nat
      BY <1>0, <1>h DEF Followed, PInv, IInv, TypeOK, None, Loose
    <3> QED
      BY <2>1, <2>4, <3>1, <3>2 DEF None, StaleRow
  <2> QED
    BY <1>0, <1>b, <1>e, <1>g, <1>q, <2>3, <2>5, RotationStep
<1> QED
  BY <1>1, <1>2, <1>3

\* SaveBegin keeps the pictures: a photo begins without turns.
LEMMA SaveBeginPicture ==
  ASSUME PInv, TypeOK', NEW p \in Photos, NEW a \in Albums, SaveBegin(p, a)
  PROVE  Lifetimes' /\ OneRotation' /\ Rotations' /\ StillPictures'
<1>1. Lifetimes'
  BY DEF PInv, Lifetimes, SaveBegin, histVars
<1>2. OneRotation'
  BY DEF PInv, OneRotation, RotatingBy, SaveBegin, histVars
<1>3. Rotations' /\ StillPictures'
  <2>1. UNCHANGED req
    BY DEF SaveBegin
  <2>2. \A x \in Photos : Followed(x)' => Followed(x) /\ Still(x)
    BY <2>1 DEF Followed, Emptying, Still, LivePhotos, SaveBegin, histVars
  <2> QED
    BY <2>1, <2>2, CalmStep
<1> QED
  BY <1>1, <1>2, <1>3

\* SaveWrite keeps the pictures: the file is the picture as it was stored.
LEMMA SaveWritePicture ==
  ASSUME PInv, TypeOK', SaveWrite
  PROVE  Lifetimes' /\ OneRotation' /\ Rotations' /\ StillPictures'
<1>1. Lifetimes'
  BY DEF PInv, IInv, TypeOK, Locals, Lifetimes, Request, SaveWrite, histVars
<1>2. OneRotation'
  BY DEF PInv, OneRotation, RotatingBy, SaveWrite, histVars
<1>3. Rotations' /\ StillPictures'
  <2>1. UNCHANGED req
    BY DEF SaveWrite
  <2>2. \A x \in Photos : Followed(x)' => Followed(x) /\ Still(x)
    <3>1. saving \in Photos /\ photoRow[saving] = "saving"
      BY DEF PInv, IInv, TypeOK, Rows, SaveWrite
    <3>2. \A x \in Photos : photoRow'[x] = "live" => photoRow[x] = "live" /\ file'[x] = file[x]
      BY <3>1 DEF PInv, IInv, TypeOK, SaveWrite
    <3> QED
      BY <2>1, <3>2 DEF Followed, Emptying, Still, LivePhotos, SaveWrite, histVars
  <2> QED
    BY <2>1, <2>2, CalmStep
<1> QED
  BY <1>1, <1>2, <1>3

\* SaveCommit keeps the pictures: a photo begins as it was stored.
LEMMA SaveCommitPicture ==
  ASSUME PInv, TypeOK', SaveCommit
  PROVE  Lifetimes' /\ OneRotation' /\ Rotations' /\ StillPictures'
<1>a. /\ \A p \in Photos \ {saving} : /\ excuse'[p] = excuse[p] /\ file'[p] = file[p]
                                     /\ photoRow'[p] = photoRow[p]
      /\ excuse'[saving] \in {excuse[saving], Loose}
      /\ saving \in Photos /\ UNCHANGED <<albumOf, swapped, req, janList, turned>>
      /\ photoRow'[saving] \in {"live", "gone"} /\ photoRow[saving] = "saving"
      /\ photoRow'[saving] = "live" => file'[saving] = file[saving]
      /\ file[saving] # NoFile
  BY DEF PInv, IInv, TypeOK, Rows, SaveCommit, Excused, SavedTooLate
<1>1. Lifetimes'
  <2>1. /\ \A p \in Photos : photoRow'[p] = photoRow[p] \/ photoRow'[p] \in {"live", "gone"}
        /\ \A p \in Photos : photoRow[p] \in {"live", "gone"} => photoRow'[p] = photoRow[p]
        /\ \A p \in Photos : photoRow'[p] \in {"unused", "saving"} => p # saving
    BY <1>a
  <2>2. /\ \A p \in janList : p \in Photos
        /\ \A q \in Requests : req[q].list \subseteq Photos
        /\ \A q \in Requests : req[q].op \notin {"idle", "writeAlbum", "remove"} => req[q].photo \in Photos
    BY DEF PInv, IInv, TypeOK, Locals, Request
  <2> QED
    BY <1>a, <2>1, <2>2 DEF PInv, Lifetimes
<1>2. OneRotation'
  BY <1>a DEF PInv, OneRotation, RotatingBy
<1>3. Rotations'
  <2> SUFFICES ASSUME NEW r \in Requests, req[r].op \in {"create", "encode", "redim"}
               PROVE  RotationOf(r)'
    BY <1>a DEF Rotations, RotationOf
  <2>1. req[r].photo \in Photos /\ req[r].photo # saving /\ RotationOf(r)
    BY <1>a DEF PInv, IInv, Locals, Lifetimes, Rotations
  <2> QED
    BY <1>a, <2>1, KeepRotation DEF Same, Followed, Emptying, LivePhotos, Still
<1>4. StillPictures'
  <2> SUFFICES ASSUME NEW p \in Photos PROVE PictureOf(p)'
    BY DEF StillPictures
  <2>1. CASE p = saving
    BY <1>a, <2>1
       DEF PInv, Lifetimes, PictureOf, Followed, LivePhotos, Picture, Loose
  <2>2. CASE p # saving
    BY <1>a, <2>2, KeepPicture
       DEF PInv, StillPictures, Followed, Emptying, InStep, LivePhotos, Still
  <2> QED
    BY <2>1, <2>2
<1> QED
  BY <1>1, <1>2, <1>3, <1>4

\* SweepRows keeps the pictures: a rotation of an orphan is no longer
\* followed.
LEMMA SweepRowsPicture ==
  ASSUME PInv, TypeOK', SweepRows
  PROVE  Lifetimes' /\ OneRotation' /\ Rotations' /\ StillPictures'
<1>1. Lifetimes'
  BY DEF PInv, IInv, TypeOK, Locals, Lifetimes, Request, SweepRows, diskVars
<1>2. OneRotation'
  BY DEF PInv, OneRotation, RotatingBy, SweepRows, Excused
<1>3. Rotations' /\ StillPictures'
  <2>1. UNCHANGED req
    BY DEF SweepRows
  <2>2. \A x \in Photos : Followed(x)' => Followed(x) /\ Still(x)
    <3>1. \A x \in Photos : /\ photoRow'[x] = "live" => photoRow[x] = "live"
                            /\ excuse'[x] # Loose => excuse'[x] = excuse[x]
      BY DEF SweepRows, Excused
    <3> QED
      BY <2>1, <3>1 DEF Followed, Emptying, Still, LivePhotos, SweepRows, diskVars
  <2> QED
    BY <2>1, <2>2, CalmStep
<1> QED
  BY <1>1, <1>2, <1>3

\* SweepFile keeps the pictures: the photo had lost its row before.
LEMMA SweepFilePicture ==
  ASSUME PInv, TypeOK', SweepFile
  PROVE  Lifetimes' /\ OneRotation' /\ Rotations' /\ StillPictures'
<1>0. PICK p \in janList :
        /\ janList' = janList \ {p} /\ req' \in {Detached(p), req}
        /\ \/ file' = [file EXCEPT ![p] = NoFile] /\ UNCHANGED <<faults, excuse>>
           \/ UNCHANGED file /\ Fault /\ Excused({p}, Loose)
  BY DEF SweepFile
<1>a. /\ p \in Photos /\ photoRow[p] = "gone"
      /\ UNCHANGED <<albumRow, photoRow, albumOf, swapped, turned>>
      /\ \A x \in Photos \ {p} : file'[x] = file[x] /\ excuse'[x] = excuse[x]
      /\ excuse[p] = Loose => excuse'[p] = Loose
  BY <1>0 DEF PInv, IInv, TypeOK, Lifetimes, SweepFile, Excused, Loose, rowVars
<1>b. \A r \in Requests : /\ Same(req'[r], req[r]) /\ req'[r].list = req[r].list
                          /\ req'[r].turn = req[r].turn
                          /\ req[r].photo # p => req'[r] = req[r]
  <2>1. \A r \in Requests : req[r].photo # p => Detached(p)[r] = req[r]
    BY DEF Detached
  <2> QED
    BY <1>0, <2>1, DetachedRequests, DetachedFields DEF PInv, IInv, Same
<1>1. Lifetimes'
  BY <1>0, <1>a, <1>b DEF PInv, Lifetimes, Same
<1>2. OneRotation'
  BY <1>a, <1>b DEF PInv, OneRotation, RotatingBy, Same
<1>c. \A x \in Photos : Followed(x)' => x # p /\ Followed(x) /\ Still(x)
  BY <1>a, <1>b DEF Followed, Emptying, LivePhotos, Still, Same
<1>3. Rotations'
  <2> SUFFICES ASSUME NEW r \in Requests, req[r].op \in {"create", "encode", "redim"}
               PROVE  RotationOf(r)'
    BY <1>b DEF Rotations, RotationOf, Same
  <2>1. req[r].photo \in Photos /\ RotationOf(r)
    BY DEF PInv, IInv, Locals, Rotations
  <2> QED
    BY <1>b, <1>c, <2>1, KeepRotation
<1>4. StillPictures'
  <2> SUFFICES ASSUME NEW x \in Photos PROVE PictureOf(x)'
    BY DEF StillPictures
  <2> QED
    BY <1>b, <1>c, KeepPicture DEF PInv, StillPictures, InStep, Same
<1> QED
  BY <1>1, <1>2, <1>3, <1>4

\* SweepDir keeps the pictures: no photo is touched.
LEMMA SweepDirPicture ==
  ASSUME PInv, TypeOK', SweepDir
  PROVE  Lifetimes' /\ OneRotation' /\ Rotations' /\ StillPictures'
<1>1. Lifetimes'
  BY DEF PInv, Lifetimes, SweepDir, rowVars, histVars
<1>2. OneRotation'
  BY DEF PInv, OneRotation, RotatingBy, SweepDir, histVars
<1>3. Rotations' /\ StillPictures'
  <2>1. UNCHANGED req
    BY DEF SweepDir
  <2>2. \A x \in Photos : Followed(x)' => Followed(x) /\ Still(x)
    BY <2>1 DEF Followed, Emptying, Still, LivePhotos, SweepDir, rowVars, histVars
  <2> QED
    BY <2>1, <2>2, CalmStep
<1> QED
  BY <1>1, <1>2, <1>3

\* Crash keeps the pictures: a rotation that was interrupted is noticed by how
\* far it had come.
LEMMA CrashPicture ==
  ASSUME PInv, TypeOK', Crash
  PROVE  Lifetimes' /\ OneRotation' /\ Rotations' /\ StillPictures'
<1>1. Lifetimes'
  BY DEF PInv, Lifetimes, Idle, Crash, diskVars
<1>2. OneRotation'
  BY DEF OneRotation, RotatingBy, Idle, Crash
<1>3. Rotations'
  BY DEF Rotations, RotationOf, Idle, Crash
<1>4. StillPictures'
  BY DEF PInv, IInv, TypeOK, Rotations, RotationOf, PictureOf, StillPictures, Followed,
         Emptying, RotatingBy, Deleting, DeletingBy, InStep, Request, LivePhotos, None,
         StaleRow, CutShort, Crash, diskVars
<1> QED
  BY <1>1, <1>2, <1>3, <1>4

\* PInv holds at the start.
LEMMA InitPInv == Init => PInv
<1> SUFFICES ASSUME Init PROVE PInv
  OBVIOUS
<1>1. Lifetimes
  BY DEF Init, Lifetimes, Idle
<1>2. OneRotation /\ Rotations
  BY DEF Init, OneRotation, Rotations, RotationOf, RotatingBy, Idle
<1>3. StillPictures
  BY DEF Init, StillPictures, PictureOf, Followed, LivePhotos
<1> QED
  BY <1>1, <1>2, <1>3, InitIInv DEF PInv

\* A stutter keeps PInv.
LEMMA StutterPInv == ASSUME PInv, UNCHANGED vars PROVE PInv'
<1>0. UNCHANGED <<albumRow, cover, photoRow, albumOf, swapped, file, dirs, req, saving, janList, faults, turned, excuse>>
  BY DEF vars, rowVars, diskVars, histVars
<1>1. IInv'
  BY StutterIInv DEF PInv
<1>2. Lifetimes' /\ OneRotation'
  BY <1>0 DEF PInv, Lifetimes, OneRotation, RotatingBy
<1>3. Rotations'
  BY <1>0 DEF PInv, Rotations, RotationOf, Turned, Followed, Emptying, LivePhotos
<1>4. StillPictures'
  BY <1>0 DEF PInv, StillPictures, PictureOf, InStep, Followed, Emptying, LivePhotos
<1> QED
  BY <1>1, <1>2, <1>3, <1>4 DEF PInv

\* Every step keeps what is known of the pictures.
LEMMA NextPInv == PInv /\ [Next]_vars => PInv'
<1> SUFFICES ASSUME PInv, [Next]_vars PROVE PInv'
  OBVIOUS
<1>1. IInv' /\ TypeOK'
  BY NextIInv DEF PInv, IInv
<1>2. CASE Next
  <2>1. Lifetimes' /\ OneRotation' /\ Rotations' /\ StillPictures'
    BY <1>1, <1>2, CreateAlbumPicture, UpdateAlbumReadPicture, UpdateAlbumWritePicture,
     SetCoverReadPicture, SetCoverWritePicture, DeletePhotoReadPicture,
     ClearCoverPicture, DeletePhotoRowPicture, DeletePhotoFilePicture,
     DeleteAlbumListPicture, DeleteAlbumFilePicture, DeleteAlbumRowPicture,
     AlbumLostPicture, RotateReadPicture, RotateOpenPicture, RotateCreatePicture,
     RotateEncodePicture, RotateRedimPicture, SaveBeginPicture, SaveWritePicture,
     SaveCommitPicture, SweepRowsPicture, SweepFilePicture, SweepDirPicture,
     CrashPicture
       DEF Next, Step, Sweep, Save
  <2> QED
    BY <1>1, <2>1 DEF PInv
<1>3. CASE UNCHANGED vars
  BY <1>3, StutterPInv
<1> QED
  BY <1>2, <1>3

-----------------------------------------------------------------------------
(* The theorems.                                                            *)

\* Covers, rows, files and requests stay in step, whatever admins, worker and
\* janitor do, and whatever fails.
THEOREM LibraryInvariant == Spec => []IInv
<1>1. Init => IInv
  BY InitIInv
<1>2. IInv /\ [Next]_vars => IInv'
  BY NextIInv
<1> QED
  BY <1>1, <1>2, PTL DEF Spec

\* Every variable keeps its type.
THEOREM TypeCorrect == Spec => []TypeOK
<1>1. IInv => TypeOK
  BY DEF IInv
<1> QED
  BY <1>1, LibraryInvariant, PTL

\* A cover is a photo of its own album (SetCoverPhoto, UpdateAlbum), for any number
\* of albums, photos and requests.
THEOREM CoversOfOwnAlbum == Spec => []CoverOfOwnAlbum
<1>1. IInv => CoverOfOwnAlbum
  BY DEF IInv
<1> QED
  BY <1>1, LibraryInvariant, PTL

\* A file outlives its row only if a deletion is still to remove it, failed or was
\* interrupted, met a rotation, or did not list its photo: one committed after the
\* listing or past its limit (DeletePhoto, DeleteAlbum, deleteOrphanedPhotos,
\* SaveProcessedImage).
THEOREM NoFileLost == Spec => []FilesHaveRows
<1>1. IInv => FilesHaveRows
  BY DEF IInv, FilesOwned, FilesHaveRows, AtWork, Deleting, DeletingBy, InStep
<1> QED
  BY <1>1, LibraryInvariant, PTL

\* A photo nothing interfered with shows the rotations that were acknowledged, and its
\* row the dimensions of that picture (AdminRotatePhoto, pipeline.Rotate).
THEOREM PicturesMatchRows == Spec => []PictureMatchesRow
<1>1. Init => PInv
  BY InitPInv
<1>2. PInv /\ [Next]_vars => PInv'
  BY NextPInv
<1>3. PInv => PictureMatchesRow
  <2> SUFFICES ASSUME PInv, NEW p \in LivePhotos, ~AtWork(p)
               PROVE  /\ excuse[p] < CutShort => file[p] \in Picture
                      /\ excuse[p] = None => file[p] = turned[p] /\ swapped[p] = turned[p] % 2
    BY DEF PictureMatchesRow
  <2>1. p \in Photos /\ excuse[p] \in None..Loose
    BY DEF LivePhotos, PInv, IInv, TypeOK
  <2>2. ~Emptying(p) /\ ~InStep(p, "encode") /\ ~InStep(p, "redim")
    BY DEF AtWork, Emptying, InStep, Rotating, RotatingBy, Deleting, DeletingBy
  <2>3. PictureOf(p)
    BY <2>1 DEF PInv, StillPictures
  <2> QED
    BY <2>1, <2>2, <2>3 DEF PictureOf, Followed, None, CutShort, Loose
<1> QED
  BY <1>1, <1>2, <1>3, PTL DEF Spec

---------------------------------------------------------------------------
(* What a photo and its file are lost to.                                  *)

\* A photo's row goes in one of three ways.
LEMMA PhotoLeaves ==
  ASSUME IInv, [Next]_vars, NEW p \in LivePhotos \ LivePhotos'
  PROVE  \/ \E q \in Requests : DeletePhotoRow(q) /\ req[q].photo = p
         \/ \E q \in Requests : DeleteAlbumRow(q) /\ req[q].album = albumOf[p]
         \/ SweepRows /\ albumOf[p] \notin LiveAlbums
<1>a. p \in Photos /\ photoRow[p] = "live" /\ photoRow'[p] # "live"
  BY DEF LivePhotos
<1>b. DOMAIN photoRow = Photos /\ p # saving
  BY <1>a DEF IInv, TypeOK, Rows
<1>1. ASSUME NEW q \in Requests, NEW a \in Albums,
             UpdateAlbumRead(q, a) \/ DeleteAlbumList(q, a)
      PROVE  FALSE
  BY <1>1, <1>a DEF UpdateAlbumRead, DeleteAlbumList, rowVars
<1>2. ASSUME NEW q \in Requests, NEW r \in Photos,
             SetCoverRead(q, r) \/ DeletePhotoRead(q, r) \/ RotateRead(q, r)
      PROVE  FALSE
  BY <1>2, <1>a DEF SetCoverRead, DeletePhotoRead, RotateRead, rowVars
<1>3. ASSUME NEW q \in Requests,
             \/ UpdateAlbumWrite(q) \/ SetCoverWrite(q) \/ ClearCover(q)
             \/ DeletePhotoFile(q) \/ DeleteAlbumFile(q)
             \/ RotateOpen(q) \/ RotateCreate(q) \/ RotateEncode(q) \/ RotateRedim(q)
      PROVE  FALSE
  BY <1>3, <1>a
     DEF UpdateAlbumWrite, SetCoverWrite, ClearCover, DeletePhotoFile, DeleteAlbumFile,
         RotateOpen, RotateCreate, RotateEncode, RotateRedim, rowVars
<1>4. ASSUME NEW q \in Requests, DeletePhotoRow(q)
      PROVE  req[q].photo = p
  BY <1>4, <1>a, <1>b DEF DeletePhotoRow
<1>5. ASSUME NEW q \in Requests, DeleteAlbumRow(q)
      PROVE  req[q].album = albumOf[p]
  BY <1>5, <1>a DEF DeleteAlbumRow, Cascade, PhotosIn
<1>6. ASSUME NEW a \in Albums,
             CreateAlbum(a) \/ AlbumLost(a) \/ \E r \in Photos : SaveBegin(r, a)
      PROVE  FALSE
  BY <1>6, <1>a, <1>b DEF CreateAlbum, AlbumLost, SaveBegin
<1>7. CASE SaveWrite \/ SaveCommit
  BY <1>7, <1>a, <1>b DEF SaveWrite, SaveCommit
<1>8. CASE SweepRows
  BY <1>8, <1>a DEF SweepRows, Orphans, LiveAlbums
<1>9. CASE SweepFile \/ SweepDir \/ Crash \/ UNCHANGED vars
  BY <1>9, <1>a DEF SweepFile, SweepDir, Crash, vars, rowVars
<1> QED
  BY <1>1, <1>2, <1>3, <1>4, <1>5, <1>6, <1>7, <1>8, <1>9
     DEF Next, Step, Save, Sweep

\* The file of a photo that is there goes in one way.
LEMMA FileLeaves ==
  ASSUME PInv, [Next]_vars, NEW p \in LivePhotos, file[p] # NoFile, file'[p] = NoFile
  PROVE  \E q \in Requests : DeleteAlbumFile(q) /\ req[q].album = albumOf[p]
<1> USE LibraryConstants
<1>a. p \in Photos /\ photoRow[p] = "live"
  BY DEF LivePhotos
<1>b. DOMAIN file = Photos /\ p # saving /\ p \notin janList
  BY <1>a DEF PInv, IInv, TypeOK, Rows, Lifetimes
<1>1. ASSUME NEW q \in Requests, NEW a \in Albums,
             UpdateAlbumRead(q, a) \/ DeleteAlbumList(q, a)
      PROVE  FALSE
  BY <1>1 DEF UpdateAlbumRead, DeleteAlbumList, diskVars
<1>2. ASSUME NEW q \in Requests, NEW r \in Photos,
             SetCoverRead(q, r) \/ DeletePhotoRead(q, r) \/ RotateRead(q, r)
      PROVE  FALSE
  BY <1>2 DEF SetCoverRead, DeletePhotoRead, RotateRead, diskVars
<1>3. ASSUME NEW q \in Requests,
             \/ UpdateAlbumWrite(q) \/ SetCoverWrite(q) \/ ClearCover(q)
             \/ DeletePhotoRow(q) \/ DeleteAlbumRow(q) \/ RotateOpen(q) \/ RotateRedim(q)
      PROVE  FALSE
  BY <1>3
     DEF UpdateAlbumWrite, SetCoverWrite, ClearCover, DeletePhotoRow, DeleteAlbumRow,
         RotateOpen, RotateRedim, diskVars
<1>4. ASSUME NEW q \in Requests, DeletePhotoFile(q)
      PROVE  FALSE
  <2>1. req[q].photo # p
    BY <1>4, <1>a DEF PInv, Lifetimes, DeletePhotoFile, At
  <2> QED
    BY <1>4, <1>a, <1>b, <2>1 DEF DeletePhotoFile
<1>5. ASSUME NEW q \in Requests, DeleteAlbumFile(q)
      PROVE  req[q].album = albumOf[p]
  <2>1. p \in req[q].list
    BY <1>5, <1>b, <1>a DEF PInv, IInv, TypeOK, Request, DeleteAlbumFile, At
  <2> QED
    BY <1>5, <2>1 DEF PInv, Lifetimes, DeleteAlbumFile, At
<1>6. ASSUME NEW q \in Requests, RotateCreate(q)
      PROVE  FALSE
  BY <1>6, <1>a, <1>b DEF RotateCreate
<1>7. ASSUME NEW q \in Requests, RotateEncode(q)
      PROVE  FALSE
  <2>1. req[q].seen \in Picture
    BY <1>7 DEF PInv, IInv, Locals, RotateEncode, At
  <2> QED
    BY <1>7, <1>a, <1>b, <2>1 DEF RotateEncode, Picture
<1>8. ASSUME NEW a \in Albums,
             CreateAlbum(a) \/ AlbumLost(a) \/ \E r \in Photos : SaveBegin(r, a)
      PROVE  FALSE
  BY <1>8 DEF CreateAlbum, AlbumLost, SaveBegin, diskVars
<1>9. CASE SaveWrite \/ SaveCommit
  BY <1>9, <1>a, <1>b DEF SaveWrite, SaveCommit
<1>10. CASE SweepFile
  BY <1>10, <1>a, <1>b DEF SweepFile
<1>11. CASE SweepRows \/ SweepDir \/ Crash \/ UNCHANGED vars
  BY <1>11 DEF SweepRows, SweepDir, Crash, vars, diskVars
<1> QED
  BY <1>1, <1>2, <1>3, <1>4, <1>5, <1>6, <1>7, <1>8, <1>9, <1>10, <1>11
     DEF Next, Step, Save, Sweep

\* PhotosLeaveOnRequest, for any albums, photos and requests: the janitor takes no
\* photo of an album that is there (DeletePhoto, DeleteAlbum, deleteOrphanedPhotos).
THEOREM NoPhotoLeavesUnasked == Spec => PhotosLeaveOnRequest
<1>1. IInv /\ [Next]_vars =>
        [\A p \in LivePhotos \ LivePhotos' :
           \/ \E q \in Requests : DeletePhotoRow(q) /\ req[q].photo = p
           \/ \E q \in Requests : DeleteAlbumRow(q) /\ req[q].album = albumOf[p]
           \/ SweepRows /\ albumOf[p] \notin LiveAlbums]_vars
  BY PhotoLeaves
<1> QED
  BY <1>1, LibraryInvariant, PTL DEF Spec, PhotosLeaveOnRequest

\* LivePhotosKeepFiles: whatever runs beside it, the file of a photo that is there
\* is removed by nothing but the deletion of its album.
THEOREM FilesOfLivePhotosStay == Spec => LivePhotosKeepFiles
<1>1. PInv /\ [Next]_vars =>
        [\A p \in LivePhotos :
           file[p] # NoFile /\ file'[p] = NoFile =>
             \E q \in Requests : DeleteAlbumFile(q) /\ req[q].album = albumOf[p]]_vars
  BY FileLeaves
<1>2. Init => PInv
  BY InitPInv
<1>3. PInv /\ [Next]_vars => PInv'
  BY NextPInv
<1> QED
  BY <1>1, <1>2, <1>3, PTL DEF Spec, LivePhotosKeepFiles

-----------------------------------------------------------------------------
(* Covers.                                                                 *)

\* The cover of an album that stays, if it was a photo that is there, goes in
\* two ways. Its photo is of that album, so neither another album's deletion
\* nor the janitor removes it.
LEMMA CoverLapses ==
  ASSUME IInv, [Next]_vars, NEW a \in LiveAlbums, a \in LiveAlbums',
         cover[a] \in LivePhotos, cover'[a] \notin LivePhotos'
  PROVE  \E q \in Requests :
           \/ (ClearCover(q) \/ DeletePhotoRow(q)) /\ req[q].photo = cover[a]
           \/ (UpdateAlbumWrite(q) \/ SetCoverWrite(q)) /\ req[q].album = a
<1> USE LibraryConstants
<1>a. /\ a \in Albums /\ cover[a] \in Photos /\ photoRow[cover[a]] = "live"
      /\ albumRow[a] = "live" /\ albumRow'[a] = "live" /\ albumOf[cover[a]] = a
  BY DEF IInv, CoverOfOwnAlbum, LiveAlbums, LivePhotos
<1>b. /\ cover \in [Albums -> Photos \cup {NoPhoto}] /\ DOMAIN photoRow = Photos
      /\ DOMAIN albumRow = Albums /\ cover[a] # saving
  BY <1>a DEF IInv, TypeOK, Rows
<1>c. cover'[a] # cover[a] \/ photoRow'[cover[a]] # "live"
  BY <1>a DEF LivePhotos
<1>1. ASSUME NEW q \in Requests, NEW b \in Albums,
             UpdateAlbumRead(q, b) \/ DeleteAlbumList(q, b)
      PROVE  FALSE
  BY <1>1, <1>a, <1>c DEF UpdateAlbumRead, DeleteAlbumList, rowVars
<1>2. ASSUME NEW q \in Requests, NEW p \in Photos,
             SetCoverRead(q, p) \/ DeletePhotoRead(q, p) \/ RotateRead(q, p)
      PROVE  FALSE
  BY <1>2, <1>a, <1>c DEF SetCoverRead, DeletePhotoRead, RotateRead, rowVars
<1>3. ASSUME NEW q \in Requests,
             \/ DeletePhotoFile(q) \/ DeleteAlbumFile(q)
             \/ RotateOpen(q) \/ RotateCreate(q) \/ RotateEncode(q) \/ RotateRedim(q)
      PROVE  FALSE
  BY <1>3, <1>a, <1>c
     DEF DeletePhotoFile, DeleteAlbumFile, RotateOpen, RotateCreate, RotateEncode,
         RotateRedim, rowVars
<1>4. ASSUME NEW q \in Requests, UpdateAlbumWrite(q) \/ SetCoverWrite(q)
      PROVE  req[q].album = a
  BY <1>4, <1>a, <1>b, <1>c DEF UpdateAlbumWrite, SetCoverWrite, WriteCover
<1>5. ASSUME NEW q \in Requests, ClearCover(q) \/ DeletePhotoRow(q)
      PROVE  req[q].photo = cover[a]
  BY <1>5, <1>a, <1>b, <1>c DEF ClearCover, DeletePhotoRow
<1>6. ASSUME NEW q \in Requests, DeleteAlbumRow(q)
      PROVE  FALSE
  BY <1>6, <1>a, <1>b, <1>c DEF DeleteAlbumRow, Cascade, PhotosIn
<1>7. ASSUME NEW b \in Albums, CreateAlbum(b) \/ AlbumLost(b)
      PROVE  FALSE
  BY <1>7, <1>a, <1>c DEF CreateAlbum, AlbumLost
<1>8. ASSUME NEW b \in Albums, NEW p \in Photos, SaveBegin(p, b)
      PROVE  FALSE
  BY <1>8, <1>a, <1>b, <1>c DEF SaveBegin
<1>9. CASE SaveWrite \/ SaveCommit
  BY <1>9, <1>a, <1>b, <1>c DEF SaveWrite, SaveCommit
<1>10. CASE SweepRows
  BY <1>10, <1>a, <1>b, <1>c DEF SweepRows, Orphans
<1>11. CASE SweepFile \/ SweepDir \/ Crash \/ UNCHANGED vars
  BY <1>11, <1>a, <1>c DEF SweepFile, SweepDir, Crash, vars, rowVars
<1> QED
  BY <1>1, <1>2, <1>3, <1>4, <1>5, <1>6, <1>7, <1>8, <1>9, <1>10, <1>11
     DEF Next, Step, Save, Sweep

\* CoverLapsesOnRequest: a cover that shows a photo goes on showing it until that
\* photo is deleted or a request writes the cover (SetCoverPhoto, UpdateAlbum,
\* DeletePhoto), whatever albums are deleted, swept or saved to meanwhile.
THEOREM CoversLapseOnRequest == Spec => CoverLapsesOnRequest
<1>1. IInv /\ [Next]_vars =>
        [\A a \in LiveAlbums :
           cover[a] \in LivePhotos /\ cover'[a] \notin LivePhotos' /\ a \in LiveAlbums' =>
             \E q \in Requests :
               \/ (ClearCover(q) \/ DeletePhotoRow(q)) /\ req[q].photo = cover[a]
               \/ (UpdateAlbumWrite(q) \/ SetCoverWrite(q)) /\ req[q].album = a]_vars
  BY CoverLapses
<1> QED
  BY <1>1, LibraryInvariant, PTL DEF Spec, CoverLapsesOnRequest

=============================================================================
