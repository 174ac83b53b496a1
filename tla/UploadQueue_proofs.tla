-------------------------- MODULE UploadQueue_proofs --------------------------
(***************************************************************************)
(* Proofs, for any number of albums, uploads, handlers and restarts, of    *)
(* the safety of the upload queue and of its refinement of UploadLedger.   *)
(* The last parts are about what the end of a process leaves behind, who   *)
(* removes a temporary file and how a status moves.                        *)
(***************************************************************************)
EXTENDS UploadQueueProperties, FiniteSetTheorems, TLAPS

-----------------------------------------------------------------------------
(* The inductive invariant.                                                *)

\* A process that has been told to stop still has an exit left.
ExitBudget == mainPc \notin {"serving", "down"} => exits < MaxExits

\* Inside a job the worker holds an upload.
JobInHand == Busy => wJob \in Files

\* A handler about to enqueue holds a file of its album that no job names, and
\* that no other handler holds; a file not yet received has no job.
HandInv ==
  /\ \A r \in Requests : reqPc[r] = "enqueue" =>
       /\ hand[r] \in Files
       /\ AlbumOf[hand[r]] = TargetOf[r]
       /\ job[hand[r]] = "none"
       /\ tmp[hand[r]] # "unborn"
  /\ \A r, s \in Requests :
       reqPc[r] = "enqueue" /\ reqPc[s] = "enqueue" /\ hand[r] = hand[s] => r = s
  /\ \A f \in Files : tmp[f] = "unborn" => job[f] = "none"

\* The photo of f has been committed; it may have been deleted since.
Published(f) == rows[f] = 1 \/ f \in erased \/ job[f] = "deleted"

\* So it has, or f has left no photo file but one that could not be removed.
Settled(f) == Published(f) \/ f \notin disk \/ "photo" \in undone[f]

\* What the status of a job says of its photo.
JobInv ==
  \A f \in Files :
    /\ rows[f] <= 1
    /\ f \in erased => rows[f] = 0
    /\ job[f] \in {"none", "pending", "failed"} => rows[f] = 0 /\ f \notin erased
    /\ job[f] \in {"none", "pending"} => f \notin disk /\ "status" \notin undone[f]
    /\ job[f] = "failed" => f \notin disk \/ "photo" \in undone[f]
    /\ job[f] = "completed" => rows[f] = 1 \/ f \in erased
    /\ job[f] = "deleted" => rows[f] = 0
    /\ AlbumOf[f] \notin albums => job[f] \in {"none", "deleted"}
    /\ job[f] = "deleted" => AlbumOf[f] \notin albums

\* A photo being deleted was committed, and a status that could not be recorded
\* was to be the last.
FaultInv ==
  \A f \in Files :
    /\ erase[f] # "none" => Published(f)
    /\ "status" \in undone[f] => Settled(f)

\* What the worker's place says of its job: it is in "processing" unless it was
\* deleted with its album, which cannot happen while the transaction is open.
WorkerInv ==
  /\ wPc \in {"open", "unopened", "work", "inserted", "renamed", "complete", "fail"} =>
       job[wJob] \in {"processing", "deleted"} /\ "status" \notin undone[wJob]
  /\ wPc \in {"open", "unopened", "work", "inserted", "renamed", "fail"} =>
       rows[wJob] = 0 /\ (wJob \notin erased \/ job[wJob] = "deleted")
  /\ wPc \in {"open", "unopened", "work", "inserted"} => wJob \notin disk
  /\ wPc \in {"inserted", "renamed"} => job[wJob] = "processing"
  /\ wPc = "complete" => Published(wJob)
  /\ wPc = "fail" => wJob \notin disk \/ "photo" \in undone[wJob]
  /\ wPc = "remove" => job[wJob] \notin {"none", "pending"} /\ Settled(wJob)

TypeInv == TypeOK /\ ExitBudget /\ JobInHand

IInv == TypeInv /\ HandInv /\ JobInv /\ FaultInv /\ WorkerInv

-----------------------------------------------------------------------------

\* IInv holds at the start.
LEMMA InitIInv == Init => IInv
<1> SUFFICES ASSUME Init PROVE IInv
  OBVIOUS
<1>1. TypeOK
  <2>1. exits \in 0..MaxExits /\ faults \in 0..MaxFaults
    BY ConstantsAssumption DEF Init
  <2>2. tmpAge \in [Files -> 0..TempMaxAge] /\ jobAge \in [Files -> 0..TempMaxAge]
    BY ConstantsAssumption DEF Init
  <2> QED
    BY <2>1, <2>2 DEF Init, TypeOK, ReqPc, TmpSt, JobSt, WPc, JanPc, DelPc,
                         ErasePc, MainPc
<1>2. ExitBudget /\ JobInHand /\ HandInv /\ JobInv /\ FaultInv /\ WorkerInv
  BY ConstantsAssumption DEF Init, ExitBudget, JobInHand, Busy, HandInv,
                                 JobInv, FaultInv, WorkerInv
<1> QED
  BY <1>1, <1>2 DEF IInv, TypeInv

-----------------------------------------------------------------------------
(* Type correctness.                                                       *)

\* Resetting the age of a file keeps the type of ages.
LEMMA ResetAge ==
  ASSUME NEW age \in [Files -> 0..TempMaxAge], NEW f
  PROVE  [age EXCEPT ![f] = 0] \in [Files -> 0..TempMaxAge]
<1>1. 0 \in 0..TempMaxAge
  BY ConstantsAssumption
<1> QED
  BY <1>1

\* The clock keeps the type of ages and touches nothing else.
LEMMA TickAges ==
  ASSUME TypeInv, Tick
  PROVE  /\ tmpAge' \in [Files -> 0..TempMaxAge]
         /\ jobAge' \in [Files -> 0..TempMaxAge]
         /\ UNCHANGED <<requestVars, tmp, job, photoVars, workerVars,
                        janitorVars, deleteVars, eraseVars, mainVars, faultVars>>
<1>1. tmpAge \in [Files -> 0..TempMaxAge] /\ jobAge \in [Files -> 0..TempMaxAge]
  BY DEF TypeInv, TypeOK
<1>2. tmpAge' \in [Files -> 0..TempMaxAge]
  BY <1>1, ConstantsAssumption DEF Tick, Old
<1>3. jobAge' \in [Files -> 0..TempMaxAge]
  BY <1>1, ConstantsAssumption DEF Tick
<1> QED
  BY <1>2, <1>3 DEF Tick, notUpload

\* The types of what a failing call is remembered by.
FaultType == faults \in 0..MaxFaults /\ undone \in [Files -> SUBSET Undone]

LEMMA FaultTypes ==
  ASSUME TypeInv, NEW f, NEW what \in Undone, NoFault \/ Hiccup \/ Fault(f, what)
  PROVE  FaultType'
BY ConstantsAssumption
DEF TypeInv, TypeOK, FaultType, NoFault, Hiccup, Fault, Undone, faultVars

\* os.Remove keeps the types, whether it succeeds or fails.
LEMMA DropTypes ==
  ASSUME TypeInv, NEW f \in Files
  PROVE  /\ DropTemp(f) => /\ FaultType'
                           /\ tmp' \in [Files -> TmpSt]
                           /\ tmpAge' \in [Files -> 0..TempMaxAge]
         /\ DropPhoto(f) => FaultType' /\ disk' \subseteq Files
<1>1. DropTemp(f) \/ DropPhoto(f) => FaultType'
  BY FaultTypes DEF DropTemp, DropPhoto, Undone
<1>2. DropTemp(f) => tmp' \in [Files -> TmpSt] /\ tmpAge' \in [Files -> 0..TempMaxAge]
  <2>1. CASE UNCHANGED tempVars
    BY <2>1 DEF TypeInv, TypeOK, tempVars
  <2>2. CASE tmp' = [tmp EXCEPT ![f] = "gone"] /\ tmpAge' = [tmpAge EXCEPT ![f] = 0]
    BY <2>2, ResetAge DEF TypeInv, TypeOK, TmpSt
  <2> QED
    BY <2>1, <2>2 DEF DropTemp
<1>3. DropPhoto(f) => disk' \subseteq Files
  BY DEF DropPhoto, TypeInv, TypeOK
<1> QED
  BY <1>1, <1>2, <1>3

\* Giving a job its status keeps the types.
LEMMA StatusTypes ==
  ASSUME TypeInv, NEW s \in {"completed", "failed"}, SetStatus(s)
  PROVE  FaultType' /\ job' \in [Files -> JobSt]
<1>1. FaultType'
  BY FaultTypes DEF SetStatus, Undone
<1>2. job' \in [Files -> JobSt]
  BY DEF SetStatus, TypeInv, TypeOK, JobSt
<1> QED
  BY <1>1, <1>2

\* The steps of an upload handler keep the types; a handler that enqueues holds
\* a file.
LEMMA TypeUpload ==
  ASSUME TypeInv, HandInv, NEW r \in Requests, Upload(r)
  PROVE  TypeInv'
<1> USE DEF TypeInv, TypeOK, ExitBudget, JobInHand, Busy, requestVars, tempVars, jobVars,
            photoVars, workerVars, janitorVars, deleteVars, eraseVars, mainVars, faultVars,
            notUpload
<1>1. CASE StartUpload(r)
  BY <1>1 DEF StartUpload, ReqPc
<1>2. CASE Enqueue(r)
  BY <1>2 DEF Enqueue, ReqPc, JobSt
<1>3. CASE EnqueueFails(r)
  <2>1. hand[r] \in Files /\ DropTemp(hand[r])
    BY <1>3 DEF EnqueueFails, HandInv
  <2>2. /\ FaultType'
        /\ tmp' \in [Files -> TmpSt]
        /\ tmpAge' \in [Files -> 0..TempMaxAge]
    BY <2>1, DropTypes
  <2>3. UNCHANGED <<queued, jobVars, notUpload>>
    BY <1>3 DEF EnqueueFails
  <2>4. /\ hand' \in [Requests -> Files \cup {NoFile}]
        /\ reqPc' \in [Requests -> ReqPc]
    BY <1>3 DEF EnqueueFails, ReqPc
  <2> QED
    BY <2>2, <2>3, <2>4 DEF FaultType
<1>4. CASE BodyBreaks(r)
  BY <1>4 DEF BodyBreaks, ReqPc
<1>5. CASE EndUpload(r)
  BY <1>5 DEF EndUpload, HandlerHasWorker, ReqPc
<1>6. ASSUME NEW f \in Files, RejectPart(r, f)
      PROVE  TypeInv'
  <2>1. FaultType'
    BY <1>6, FaultTypes DEF RejectPart, Undone
  <2>2. /\ tmp' \in [Files -> TmpSt]
        /\ UNCHANGED <<requestVars, tmpAge, jobVars, notUpload>>
    BY <1>6 DEF RejectPart, TmpSt
  <2> QED
    BY <2>1, <2>2 DEF FaultType
<1>7. ASSUME NEW f \in Files, SaveTemp(r, f)
      PROVE  TypeInv'
  BY <1>7 DEF SaveTemp, ReqPc, TmpSt
<1> QED
  BY <1>1, <1>2, <1>3, <1>4, <1>5, <1>6, <1>7 DEF Upload

\* So do the steps of the worker.
LEMMA TypeWorker ==
  ASSUME TypeInv, Worker
  PROVE  TypeInv'
<1> USE DEF TypeInv, TypeOK, ExitBudget, JobInHand, Busy, requestVars, tempVars, jobVars,
            photoVars, workerVars, janitorVars, deleteVars, eraseVars, mainVars, faultVars,
            WorkerStep, WPc
<1>1. CASE WorkerWakes
  BY <1>1 DEF WorkerWakes
<1>2. CASE WorkerStops
  BY <1>2 DEF WorkerStops
<1>3. CASE BatchEnds
  <2>1. FaultType'
    BY <1>3, FaultTypes DEF BatchEnds, Undone
  <2> QED
    BY <1>3, <2>1 DEF BatchEnds, FaultType
<1>4. ASSUME NEW f \in Files, TakeJob(f)
      PROVE  TypeInv'
  BY <1>4, ConstantsAssumption DEF TakeJob, MarkProcessing, JobSt
<1>5. CASE OpenTemp
  BY <1>5 DEF OpenTemp
<1>6. CASE OpenFails
  <2>1. FaultType'
    BY <1>6, FaultTypes DEF OpenFails, Undone
  <2> QED
    BY <1>6, <2>1 DEF OpenFails, FaultType
<1>7. CASE FailUnopened
  <2>1. FaultType' /\ job' \in [Files -> JobSt]
    BY <1>7, StatusTypes DEF FailUnopened
  <2> QED
    BY <1>7, <2>1 DEF FailUnopened, FaultType
<1>8. CASE SaveFails \/ InsertPhoto
  BY <1>8 DEF SaveFails, InsertPhoto
<1>9. CASE WritePhoto
  BY <1>9 DEF WritePhoto
<1>10. CASE CommitPhoto
  BY <1>10 DEF CommitPhoto
<1>11. CASE CommitFails
  <2>1. FaultType' /\ disk' \subseteq Files
    BY <1>11, DropTypes DEF CommitFails, UndoWrite
  <2> QED
    BY <1>11, <2>1 DEF CommitFails, FaultType
<1>12. CASE RecordOutcome
  <2>1. FaultType' /\ job' \in [Files -> JobSt]
    BY <1>12, StatusTypes DEF RecordOutcome
  <2> QED
    BY <1>12, <2>1 DEF RecordOutcome, FaultType
<1>13. CASE RemoveTemp
  <2>1. /\ FaultType'
        /\ tmp' \in [Files -> TmpSt]
        /\ tmpAge' \in [Files -> 0..TempMaxAge]
    BY <1>13, DropTypes DEF RemoveTemp
  <2> QED
    BY <1>13, <2>1 DEF RemoveTemp, FaultType
<1> QED
  BY <1>1, <1>2, <1>3, <1>4, <1>5, <1>6, <1>7, <1>8, <1>9, <1>10, <1>11, <1>12, <1>13
  DEF Worker

\* So do those of the janitor.
LEMMA TypeJanitor ==
  ASSUME TypeInv, Janitor
  PROVE  TypeInv'
<1>1. FaultType'
  BY FaultTypes DEF Janitor, JanitorScans, JanitorRests, JanitorRemoves, NoFault, Undone
<1>2. /\ tmp' \in [Files -> TmpSt] /\ tmpAge' = tmpAge
      /\ janPc' \in JanPc /\ scan' \subseteq Files
      /\ UNCHANGED notJanitor
  BY DEF TypeInv, TypeOK, tempVars, Janitor, JanitorScans, JanitorRests, JanitorRemoves,
         OldTemps, JanPc, TmpSt
<1> QED
  BY <1>1, <1>2
  DEF TypeInv, TypeOK, FaultType, ExitBudget, JobInHand, Busy, requestVars, jobVars,
      photoVars, workerVars, deleteVars, eraseVars, mainVars, notJanitor

\* So do those of the two deletions.
LEMMA TypeDelete ==
  ASSUME TypeInv, NEW a \in Albums, DeleteAlbum(a)
  PROVE  TypeInv'
<1> USE DEF TypeInv, TypeOK, ExitBudget, JobInHand, Busy, requestVars, tempVars, jobVars,
            photoVars, workerVars, janitorVars, eraseVars, mainVars, faultVars, notDelete,
            DelPc
<1>1. CASE ListForDelete(a)
  BY <1>1 DEF ListForDelete, PhotosOf
<1>2. ASSUME NEW f \in Files, RemovePhotoFile(a, f)
      PROVE  TypeInv'
  <2>1. FaultType' /\ disk' \subseteq Files
    BY <1>2, DropTypes DEF RemovePhotoFile
  <2> QED
    BY <1>2, <2>1 DEF RemovePhotoFile, FaultType
<1>3. CASE DeleteAlbumRow(a)
  BY <1>3 DEF DeleteAlbumRow, CascadeJobs, JobSt
<1>4. CASE DeleteAlbumFails(a)
  BY <1>4 DEF DeleteAlbumFails
<1> QED
  BY <1>1, <1>2, <1>3, <1>4 DEF DeleteAlbum

LEMMA TypeErase ==
  ASSUME TypeInv, NEW f \in Files, DeletePhoto(f)
  PROVE  TypeInv'
<1> USE DEF TypeInv, TypeOK, ExitBudget, JobInHand, Busy, requestVars, tempVars, jobVars,
            photoVars, workerVars, janitorVars, deleteVars, mainVars, faultVars, notErase,
            ErasePc
<1>1. CASE FindPhoto(f) \/ EraseFails(f)
  BY <1>1 DEF FindPhoto, EraseFails
<1>2. CASE ErasePhoto(f)
  BY <1>2 DEF ErasePhoto
<1>3. CASE EraseFile(f)
  <2>1. FaultType' /\ disk' \subseteq Files
    BY <1>3, DropTypes DEF EraseFile
  <2> QED
    BY <1>3, <2>1 DEF EraseFile, FaultType
<1> QED
  BY <1>1, <1>2, <1>3 DEF DeletePhoto

\* So do those of main, crashes and the clock.
LEMMA TypeMain ==
  ASSUME TypeInv, Main \/ Tick
  PROVE  TypeInv'
<1> USE DEF TypeInv, TypeOK, ExitBudget, JobInHand, Busy, requestVars, tempVars, jobVars,
            photoVars, workerVars, janitorVars, deleteVars, eraseVars, mainVars, faultVars,
            notMain, MainPc
<1>1. CASE Signal \/ ServerDrained \/ Restart
  BY <1>1 DEF Signal, ServerDrained, Restart
<1>2. CASE JanitorStopped
  BY <1>2 DEF JanitorStopped, JanPc
<1>3. CASE Exit \/ ForcedExit \/ Crash
  <2>1. exits < MaxExits
    BY <1>3 DEF Exit, ForcedExit, Crash, Alive
  <2>2. ProcessEnds
    BY <1>3 DEF Exit, ForcedExit, Crash
  <2>3. exits' \in 0..MaxExits
    BY <2>1, <2>2, ConstantsAssumption DEF ProcessEnds
  <2> QED
    BY <2>2, <2>3 DEF ProcessEnds, ReqPc, WPc, JanPc, DelPc, ErasePc
<1>4. CASE Tick
  BY <1>4, TickAges
<1> QED
  BY <1>1, <1>2, <1>3, <1>4 DEF Main

\* Every step keeps the types.
LEMMA TypeStep ==
  ASSUME TypeInv, HandInv, [Next]_vars
  PROVE  TypeInv'
<1>1. CASE UNCHANGED vars
  BY <1>1 DEF vars, TypeInv, TypeOK, ExitBudget, JobInHand, Busy, requestVars,
              tempVars, jobVars, photoVars, workerVars, janitorVars,
              deleteVars, eraseVars, mainVars, faultVars
<1> QED
  BY <1>1, TypeUpload, TypeWorker, TypeJanitor, TypeDelete, TypeErase, TypeMain DEF Next

-----------------------------------------------------------------------------
(* Safety: one step per action, for each part of the invariant.            *)

SafeInv == HandInv /\ JobInv /\ FaultInv /\ WorkerInv

\* What the rest of IInv is about.
LEMMA SafeFrame ==
  ASSUME SafeInv, UNCHANGED <<reqPc, hand, tmp, job, rows, disk, albums, wPc, wJob,
                              erase, erased, undone>>
  PROVE  SafeInv'
BY DEF SafeInv, HandInv, JobInv, FaultInv, WorkerInv, Published, Settled

\* A failing os.Remove of a temporary file, or a call that will be made again,
\* leaves nothing undone that the rest of IInv speaks of.
LEMMA TempFault ==
  ASSUME TypeInv, NEW f, NoFault \/ Hiccup \/ Fault(f, "temp")
  PROVE  \A g \in Files : /\ "status" \in undone'[g] <=> "status" \in undone[g]
                          /\ "photo" \in undone'[g] <=> "photo" \in undone[g]
BY DEF TypeInv, TypeOK, NoFault, Hiccup, Fault, faultVars

\* Steps that concern temporary files and what is undone about them.
LEMMA SafeTemps ==
  ASSUME TypeInv, TypeInv', SafeInv,
         \A g \in Files : /\ "status" \in undone'[g] <=> "status" \in undone[g]
                          /\ "photo" \in undone'[g] <=> "photo" \in undone[g],
         UNCHANGED <<job, rows, disk, albums, wPc, wJob, erase, erased>>
  PROVE  (JobInv /\ FaultInv /\ WorkerInv)'
<1>1. JobInv' /\ FaultInv'
  BY DEF SafeInv, JobInv, FaultInv, Published, Settled
<1>2. Busy => wJob \in Files
  BY DEF TypeInv, JobInHand
<1>3. WorkerInv'
  BY <1>2 DEF SafeInv, WorkerInv, Published, Settled, Busy
<1> QED
  BY <1>1, <1>3

\* The steps of an upload handler keep the rest of IInv: a file in hand has no
\* job.
LEMMA SafeUpload ==
  ASSUME IInv, TypeInv', NEW q \in Requests, Upload(q)
  PROVE  SafeInv'
<1> USE DEF IInv, SafeInv, requestVars, tempVars, jobVars, photoVars, workerVars,
            deleteVars, eraseVars, faultVars, notUpload
<1>0. /\ tmp \in [Files -> TmpSt] /\ job \in [Files -> JobSt]
      /\ hand \in [Requests -> Files \cup {NoFile}] /\ reqPc \in [Requests -> ReqPc]
      /\ TypeInv
  BY DEF TypeInv, TypeOK
<1>1. CASE StartUpload(q) \/ BodyBreaks(q) \/ EndUpload(q)
  <2>1. UNCHANGED <<hand, tmp, job, rows, disk, albums, wPc, wJob, erase, erased, undone>>
    BY <1>1 DEF StartUpload, BodyBreaks, EndUpload
  <2>2. JobInv' /\ FaultInv' /\ WorkerInv'
    BY <1>0, <2>1, SafeTemps
  <2>3. HandInv'
    BY <1>0, <1>1, <2>1 DEF StartUpload, BodyBreaks, EndUpload, HandInv
  <2> QED
    BY <2>2, <2>3
<1>2. CASE Enqueue(q)
  <2>1. /\ reqPc[q] = "enqueue"
        /\ hand[q] \in Files
        /\ job[hand[q]] = "none"
        /\ AlbumOf[hand[q]] \in albums
    BY <1>2 DEF Enqueue, HandInv
  <2>2. /\ job' = [job EXCEPT ![hand[q]] = "pending"]
        /\ hand' = [hand EXCEPT ![q] = NoFile]
        /\ reqPc' = [reqPc EXCEPT ![q] = "reading"]
        /\ UNCHANGED <<tmp, rows, disk, albums, wPc, wJob, erase, erased, undone>>
    BY <1>2 DEF Enqueue
  <2>3. HandInv'
    BY <1>0, <2>1, <2>2 DEF HandInv
  <2>4. JobInv'
    BY <1>0, <2>1, <2>2 DEF JobInv
  <2>5. FaultInv'
    BY <1>0, <2>1, <2>2 DEF FaultInv, JobInv, Published, Settled
  <2>6. WorkerInv'
    <3>1. Busy => wJob \in Files
      BY <1>0 DEF TypeInv, JobInHand
    <3>2. Busy /\ wJob = hand[q] => FALSE
      BY <2>1, <3>1 DEF WorkerInv, Busy, TypeInv, TypeOK, WPc
    <3>3. Busy => job'[wJob] = job[wJob]
      BY <1>0, <2>2, <3>1, <3>2
    <3> QED
      BY <2>2, <3>3 DEF WorkerInv, Busy, Published, Settled
  <2> QED
    BY <2>3, <2>4, <2>5, <2>6
<1>3. CASE EnqueueFails(q)
  <2>1. /\ hand[q] \in Files
        /\ hand' = [hand EXCEPT ![q] = NoFile]
        /\ reqPc' = [reqPc EXCEPT ![q] = "reading"]
        /\ UNCHANGED <<job, rows, disk, albums, wPc, wJob, erase, erased>>
        /\ tmp[hand[q]] # "unborn"
    BY <1>3 DEF EnqueueFails, HandInv
  <2>2. /\ tmp' = [tmp EXCEPT ![hand[q]] = "gone"] \/ tmp' = tmp
        /\ NoFault \/ Fault(hand[q], "temp")
    BY <1>3 DEF EnqueueFails, DropTemp
  <2>3. JobInv' /\ FaultInv' /\ WorkerInv'
    BY <1>0, <2>1, <2>2, TempFault, SafeTemps
  <2>4. HandInv'
    BY <1>0, <2>1, <2>2 DEF HandInv
  <2> QED
    BY <2>3, <2>4
<1>4. ASSUME NEW f \in Files, RejectPart(q, f)
      PROVE  SafeInv'
  <2>1. /\ UNCHANGED <<reqPc, hand, job, rows, disk, albums, wPc, wJob, erase, erased>>
        /\ tmp[f] = "unborn"
        /\ \E t \in {"gone", "present"} : tmp' = [tmp EXCEPT ![f] = t]
        /\ NoFault \/ Fault(f, "temp")
    BY <1>4 DEF RejectPart, NextPart
  <2>2. JobInv' /\ FaultInv' /\ WorkerInv'
    BY <1>0, <2>1, TempFault, SafeTemps
  <2>3. HandInv'
    BY <1>0, <2>1 DEF HandInv
  <2> QED
    BY <2>2, <2>3
<1>5. ASSUME NEW f \in Files, SaveTemp(q, f)
      PROVE  SafeInv'
  <2>1. /\ UNCHANGED <<job, rows, disk, albums, wPc, wJob, erase, erased, undone>>
        /\ tmp[f] = "unborn" /\ AlbumOf[f] = TargetOf[q]
        /\ tmp' = [tmp EXCEPT ![f] = "present"]
        /\ hand' = [hand EXCEPT ![q] = f]
        /\ reqPc' = [reqPc EXCEPT ![q] = "enqueue"]
    BY <1>5 DEF SaveTemp, NextPart
  <2>2. JobInv' /\ FaultInv' /\ WorkerInv'
    BY <1>0, <2>1, SafeTemps
  <2>3. HandInv'
    BY <1>0, <2>1 DEF HandInv
  <2> QED
    BY <2>2, <2>3
<1> QED
  BY <1>1, <1>2, <1>3, <1>4, <1>5 DEF Upload

\* Recording the outcome of a job in the worker's hands: its photo is committed,
\* or none is left of it.
LEMMA SafeStatus ==
  ASSUME IInv, TypeInv', NEW s \in {"completed", "failed"}, SetStatus(s),
         s = "completed" => wPc = "complete",
         s = "failed" => wPc \in {"unopened", "fail"},
         (wPc' = "remove" /\ wJob' = wJob) \/ wPc' = "batch",
         UNCHANGED <<reqPc, hand, tmp, rows, disk, albums, erase, erased>>
  PROVE  SafeInv'
<1> USE DEF IInv, SafeInv
<1>0. /\ wJob \in Files /\ job[wJob] \in {"processing", "deleted"}
      /\ job \in [Files -> JobSt] /\ undone \in [Files -> SUBSET Undone]
      /\ rows \in [Files -> Nat]
  BY DEF TypeInv, TypeOK, JobInHand, Busy, WorkerInv
<1>1. \/ /\ job' = [job EXCEPT ![wJob] = s] /\ job[wJob] = "processing"
         /\ undone' = undone
      \/ job' = job /\ undone' = undone
      \/ job' = job /\ undone' = [undone EXCEPT ![wJob] = @ \cup {"status"}]
  BY <1>0 DEF SetStatus, NoFault, Fault, faultVars
<1>2. /\ s = "completed" => Published(wJob)
      /\ s = "failed" => /\ rows[wJob] = 0
                         /\ wJob \notin erased \/ job[wJob] = "deleted"
                         /\ wJob \notin disk \/ "photo" \in undone[wJob]
  BY DEF WorkerInv
<1>3. Settled(wJob)
  BY <1>2 DEF Settled
<1>4. HandInv'
  BY <1>0, <1>1 DEF HandInv
<1>5. JobInv'
  BY <1>0, <1>1, <1>2 DEF JobInv, Published
<1>6. \A f \in Files : /\ Published(f) => Published(f)'
                       /\ Settled(f) => Settled(f)'
  BY <1>0, <1>1 DEF Published, Settled
<1>7. FaultInv'
  BY <1>0, <1>1, <1>3, <1>6 DEF FaultInv
<1>8. WorkerInv'
  BY <1>0, <1>1, <1>3, <1>6 DEF WorkerInv, Settled, Published
<1> QED
  BY <1>4, <1>5, <1>7, <1>8

\* The steps of the worker keep it: a job's status, row and file change in the
\* order of processNextJob.
LEMMA SafeWorker ==
  ASSUME IInv, TypeInv', Worker
  PROVE  SafeInv'
<1> USE DEF IInv, SafeInv, requestVars, tempVars, jobVars, photoVars, deleteVars, eraseVars,
            faultVars, WorkerStep
<1>0. /\ TypeInv /\ (Busy => wJob \in Files)
      /\ job \in [Files -> JobSt] /\ undone \in [Files -> SUBSET Undone]
      /\ rows \in [Files -> Nat] /\ disk \subseteq Files
  BY DEF TypeInv, TypeOK, JobInHand
<1>1. CASE WorkerWakes \/ WorkerStops \/ BatchEnds
  <2>1. /\ wPc' \in {"idle", "batch", "stopped"}
        /\ UNCHANGED <<reqPc, hand, tmp, job, rows, disk, albums, erase, erased, undone>>
    BY <1>1 DEF WorkerWakes, WorkerStops, BatchEnds, NoFault, Hiccup
  <2> QED
    BY <2>1 DEF HandInv, JobInv, FaultInv, WorkerInv, Published, Settled
<1>2. ASSUME NEW f \in Files, TakeJob(f)
      PROVE  SafeInv'
  <2>1. /\ job[f] = "pending" /\ job' = [job EXCEPT ![f] = "processing"]
        /\ wPc' = "open" /\ wJob' = f
        /\ UNCHANGED <<reqPc, hand, tmp, rows, disk, albums, erase, erased, undone>>
    BY <1>2 DEF TakeJob, MarkProcessing, Pending
  <2>2. HandInv' /\ JobInv'
    BY <1>0, <2>1 DEF HandInv, JobInv
  <2>3. FaultInv'
    BY <1>0, <2>1 DEF FaultInv, JobInv, Published, Settled
  <2>4. WorkerInv'
    BY <1>0, <2>1 DEF WorkerInv, JobInv
  <2> QED
    BY <2>2, <2>3, <2>4
<1>3. CASE OpenTemp \/ OpenFails
  <2>1. /\ wPc = "open" /\ wPc' \in {"work", "unopened"}
        /\ UNCHANGED <<reqPc, hand, tmp, job, rows, disk, albums, wJob, erase, erased>>
        /\ NoFault \/ Fault(wJob, "temp")
    BY <1>3 DEF OpenTemp, OpenFails, NoFault
  <2>2. \A g \in Files : /\ "status" \in undone'[g] <=> "status" \in undone[g]
                         /\ "photo" \in undone'[g] <=> "photo" \in undone[g]
    BY <1>0, <2>1, TempFault
  <2>3. HandInv' /\ JobInv' /\ FaultInv'
    BY <2>1, <2>2 DEF HandInv, JobInv, FaultInv, Published, Settled
  <2>4. WorkerInv'
    BY <1>0, <2>1, <2>2 DEF WorkerInv, Busy
  <2> QED
    BY <2>3, <2>4
<1>4. CASE FailUnopened
  BY <1>4, SafeStatus DEF FailUnopened
<1>5. CASE SaveFails \/ InsertPhoto
  <2>1. /\ UNCHANGED <<reqPc, hand, tmp, job, rows, disk, albums, wJob, erase, erased, undone>>
        /\ wPc \in {"work", "inserted"} /\ wPc' \in {"fail", "inserted"}
        /\ wPc' = "inserted" => AlbumOf[wJob] \in albums
    BY <1>5 DEF SaveFails, InsertPhoto, AlbumExists
  <2>2. HandInv' /\ JobInv' /\ FaultInv'
    BY <2>1 DEF HandInv, JobInv, FaultInv, Published, Settled
  <2>3. WorkerInv'
    BY <1>0, <2>1 DEF WorkerInv, JobInv, Busy
  <2> QED
    BY <2>2, <2>3
<1>6. CASE WritePhoto
  <2>1. /\ UNCHANGED <<reqPc, hand, tmp, job, rows, albums, wJob, erase, erased, undone>>
        /\ disk' = disk \cup {wJob}
        /\ wPc = "inserted" /\ wPc' = "renamed" /\ wJob \in Files
    BY <1>0, <1>6 DEF WritePhoto, Busy
  <2>2. HandInv'
    BY <2>1 DEF HandInv
  <2>3. JobInv'
    BY <2>1 DEF JobInv, WorkerInv
  <2>4. FaultInv'
    BY <2>1 DEF FaultInv, WorkerInv, Published, Settled
  <2>5. WorkerInv'
    BY <2>1 DEF WorkerInv
  <2> QED
    BY <2>2, <2>3, <2>4, <2>5
<1>7. CASE CommitPhoto
  <2>1. /\ UNCHANGED <<reqPc, hand, tmp, job, disk, albums, wJob, erase, erased, undone>>
        /\ rows' = [rows EXCEPT ![wJob] = @ + 1]
        /\ wPc = "renamed" /\ wPc' = "complete" /\ wJob \in Files
        /\ rows[wJob] = 0 /\ job[wJob] = "processing" /\ wJob \notin erased
    BY <1>0, <1>7 DEF CommitPhoto, Busy, WorkerInv
  <2>2. rows'[wJob] = 1 /\ \A f \in Files \ {wJob} : rows'[f] = rows[f]
    BY <1>0, <2>1
  <2>3. HandInv'
    BY <2>1 DEF HandInv
  <2>4. JobInv'
    BY <2>1, <2>2 DEF JobInv
  <2>5. FaultInv'
    BY <2>1, <2>2 DEF FaultInv, Published, Settled
  <2>6. WorkerInv'
    BY <2>1, <2>2 DEF WorkerInv, Published
  <2> QED
    BY <2>3, <2>4, <2>5, <2>6
<1>8. CASE CommitFails
  <2>1. /\ UNCHANGED <<reqPc, hand, tmp, job, rows, albums, wJob, erase, erased>>
        /\ \/ disk' = disk \ {wJob} /\ undone' = undone
           \/ disk' = disk /\ undone' = [undone EXCEPT ![wJob] = @ \cup {"photo"}]
        /\ wPc = "renamed" /\ wPc' = "fail" /\ wJob \in Files
    BY <1>0, <1>8 DEF CommitFails, UndoWrite, DropPhoto, NoFault, Fault, Busy
  <2>2. \A f \in Files :
          /\ f \in disk' => f \in disk
          /\ "status" \in undone'[f] <=> "status" \in undone[f]
          /\ "photo" \in undone[f] => "photo" \in undone'[f]
    BY <1>0, <2>1
  <2>3. HandInv'
    BY <2>1 DEF HandInv
  <2>4. JobInv'
    BY <2>1, <2>2 DEF JobInv
  <2>5. FaultInv'
    BY <2>1, <2>2 DEF FaultInv, Published, Settled
  <2>6. wJob \notin disk' \/ "photo" \in undone'[wJob]
    BY <1>0, <2>1
  <2>7. WorkerInv'
    BY <2>1, <2>2, <2>6 DEF WorkerInv
  <2> QED
    BY <2>3, <2>4, <2>5, <2>7
<1>9. CASE RecordOutcome
  BY <1>9, SafeStatus DEF RecordOutcome
<1>10. CASE RemoveTemp
  <2>1. /\ UNCHANGED <<reqPc, hand, job, rows, disk, albums, erase, erased>>
        /\ wPc = "remove" /\ wPc' = "batch" /\ wJob \in Files
        /\ tmp' = [tmp EXCEPT ![wJob] = "gone"] \/ tmp' = tmp
        /\ NoFault \/ Fault(wJob, "temp")
    BY <1>0, <1>10 DEF RemoveTemp, DropTemp, Busy
  <2>2. \A g \in Files : /\ "status" \in undone'[g] <=> "status" \in undone[g]
                         /\ "photo" \in undone'[g] <=> "photo" \in undone[g]
    BY <1>0, <2>1, TempFault
  <2>3. HandInv'
    BY <2>1 DEF HandInv, TypeInv, TypeOK
  <2>4. JobInv' /\ FaultInv' /\ WorkerInv'
    BY <2>1, <2>2 DEF JobInv, FaultInv, WorkerInv, Published, Settled
  <2> QED
    BY <2>3, <2>4
<1> QED
  BY <1>1, <1>2, <1>3, <1>4, <1>5, <1>6, <1>7, <1>8, <1>9, <1>10 DEF Worker

\* os.Remove of a photo file takes no row and no status with it.
LEMMA SafeUnlink ==
  ASSUME IInv, NEW f \in Files,
         UNCHANGED <<reqPc, hand, tmp, job, rows, albums, wPc, wJob, erased>>,
         \/ disk' = disk \ {f} /\ undone' = undone
         \/ disk' = disk /\ undone' = [undone EXCEPT ![f] = @ \cup {"photo"}],
         \A g \in Files : erase'[g] # "none" => erase[g] # "none"
  PROVE  SafeInv'
<1> USE DEF IInv, SafeInv
<1>0. (Busy => wJob \in Files) /\ undone \in [Files -> SUBSET Undone]
  BY DEF TypeInv, TypeOK, JobInHand
<1>1. \A g \in Files :
        /\ g \in disk' => g \in disk
        /\ "status" \in undone'[g] <=> "status" \in undone[g]
        /\ "photo" \in undone[g] => "photo" \in undone'[g]
  BY <1>0
<1>2. HandInv' /\ JobInv'
  BY <1>1 DEF HandInv, JobInv
<1>3. FaultInv'
  BY <1>1 DEF FaultInv, Published, Settled
<1>4. WorkerInv'
  BY <1>0, <1>1 DEF WorkerInv, Busy, Published, Settled
<1> QED
  BY <1>2, <1>3, <1>4

\* The janitor touches temporary files only.
LEMMA SafeJanitor ==
  ASSUME IInv, TypeInv', Janitor
  PROVE  SafeInv'
<1> USE DEF IInv, SafeInv
<1>1. UNCHANGED <<reqPc, hand, job, rows, disk, albums, wPc, wJob, erase, erased>>
  BY DEF requestVars, jobVars, photoVars, workerVars, deleteVars, eraseVars, notJanitor,
         Janitor, JanitorScans, JanitorRests, JanitorRemoves
<1>2. NoFault \/ Hiccup
  BY DEF Janitor, JanitorScans, JanitorRests, JanitorRemoves, NoFault
<1>3. JobInv' /\ FaultInv' /\ WorkerInv'
  BY <1>1, <1>2, TempFault, SafeTemps
<1>4. \A f \in Files : tmp'[f] = tmp[f] \/ tmp'[f] = "gone"
  BY DEF TypeInv, TypeOK, tempVars, Janitor, JanitorScans, JanitorRests, JanitorRemoves
<1>5. HandInv'
  BY <1>1, <1>4 DEF HandInv
<1> QED
  BY <1>3, <1>5

\* An album deletion takes jobs and rows away together, and not while the
\* worker has a transaction open.
LEMMA SafeDelete ==
  ASSUME IInv, TypeInv', NEW a \in Albums, DeleteAlbum(a)
  PROVE  SafeInv'
<1> USE DEF IInv, SafeInv, requestVars, tempVars, jobVars, photoVars, workerVars, eraseVars,
            faultVars, notDelete
<1>0. /\ (Busy => wJob \in Files)
      /\ job \in [Files -> JobSt] /\ undone \in [Files -> SUBSET Undone]
      /\ rows \in [Files -> Nat] /\ disk \subseteq Files
  BY DEF TypeInv, TypeOK, JobInHand
<1>1. CASE ListForDelete(a) \/ DeleteAlbumFails(a)
  BY <1>1, SafeFrame DEF ListForDelete, DeleteAlbumFails
<1>2. ASSUME NEW f \in Files, RemovePhotoFile(a, f)
      PROVE  SafeInv'
  <2>1. /\ UNCHANGED <<reqPc, hand, tmp, job, rows, albums, wPc, wJob, erase, erased>>
        /\ \/ disk' = disk \ {f} /\ undone' = undone
           \/ disk' = disk /\ undone' = [undone EXCEPT ![f] = @ \cup {"photo"}]
    BY <1>2 DEF RemovePhotoFile, DropPhoto, NoFault, Fault
  <2> QED
    BY <1>0, <2>1, SafeUnlink
<1>3. CASE DeleteAlbumRow(a)
  <2>1. /\ UNCHANGED <<reqPc, hand, tmp, disk, wPc, wJob, erase, erased, undone>>
        /\ albums' = albums \ {a}
        /\ rows' = [f \in Files |-> IF AlbumOf[f] = a THEN 0 ELSE rows[f]]
        /\ job' = [f \in Files |-> IF AlbumOf[f] = a /\ job[f] # "none"
                                     THEN "deleted" ELSE job[f]]
        /\ wPc \notin {"inserted", "renamed"}
    BY <1>3 DEF DeleteAlbumRow, CascadeJobs, DbFree
  <2>2. \A f \in Files :
          \/ job'[f] = job[f] /\ rows'[f] = rows[f]
          \/ job'[f] = "deleted" /\ rows'[f] = 0 /\ AlbumOf[f] = a /\ job[f] # "none"
    BY <1>0, <2>1 DEF JobInv
  <2>3. HandInv'
    BY <2>1 DEF HandInv, TypeInv, TypeOK
  <2>4. JobInv'
    BY <2>1, <2>2, ConstantsAssumption DEF JobInv, TypeInv, TypeOK
  <2>5. FaultInv'
    BY <2>1, <2>2 DEF FaultInv, Published, Settled
  <2>6. WorkerInv'
    BY <1>0, <2>1, <2>2 DEF WorkerInv, Busy, Published, Settled
  <2> QED
    BY <2>3, <2>4, <2>5, <2>6
<1> QED
  BY <1>1, <1>2, <1>3 DEF DeleteAlbum

\* A photo is deleted after its commit, and not while the worker has a
\* transaction open.
LEMMA SafeErase ==
  ASSUME IInv, TypeInv', NEW f \in Files, DeletePhoto(f)
  PROVE  SafeInv'
<1> USE DEF IInv, SafeInv, requestVars, tempVars, jobVars, photoVars, workerVars, deleteVars,
            faultVars, notErase
<1>0. /\ (Busy => wJob \in Files)
      /\ erase \in [Files -> ErasePc] /\ undone \in [Files -> SUBSET Undone]
      /\ rows \in [Files -> Nat] /\ disk \subseteq Files
  BY DEF TypeInv, TypeOK, JobInHand
<1>1. CASE FindPhoto(f) \/ EraseFails(f)
  <2>1. /\ UNCHANGED <<reqPc, hand, tmp, job, rows, disk, albums, wPc, wJob, erased, undone>>
        /\ \/ erase' = [erase EXCEPT ![f] = "none"]
           \/ erase' = [erase EXCEPT ![f] = "found"] /\ rows[f] > 0
    BY <1>1 DEF FindPhoto, EraseFails
  <2>2. FaultInv'
    BY <1>0, <2>1 DEF FaultInv, JobInv, Published, Settled
  <2> QED
    BY <2>1, <2>2 DEF HandInv, JobInv, WorkerInv, Published, Settled
<1>2. CASE ErasePhoto(f)
  <2>1. /\ UNCHANGED <<reqPc, hand, tmp, job, disk, albums, wPc, wJob, undone>>
        /\ rows' = [rows EXCEPT ![f] = 0]
        /\ erased' = erased \cup {f}
        /\ erase' = [erase EXCEPT ![f] = "removed"]
        /\ Published(f)
        /\ wPc \notin {"inserted", "renamed"}
    BY <1>0, <1>2 DEF ErasePhoto, DbFree, FaultInv
  <2>2. HandInv'
    BY <2>1 DEF HandInv
  <2>3. JobInv'
    BY <1>0, <2>1 DEF JobInv, Published
  <2>4. \A g \in Files : /\ Published(g) => Published(g)'
                         /\ Settled(g) => Settled(g)'
    BY <1>0, <2>1 DEF Published, Settled
  <2>5. FaultInv'
    BY <1>0, <2>1, <2>4 DEF FaultInv
  <2>6. WorkerInv'
    BY <1>0, <2>1, <2>4 DEF WorkerInv, JobInv, Busy, Published
  <2> QED
    BY <2>2, <2>3, <2>5, <2>6
<1>3. CASE EraseFile(f)
  <2>1. /\ UNCHANGED <<reqPc, hand, tmp, job, rows, albums, wPc, wJob, erased>>
        /\ \/ disk' = disk \ {f} /\ undone' = undone
           \/ disk' = disk /\ undone' = [undone EXCEPT ![f] = @ \cup {"photo"}]
        /\ erase' = [erase EXCEPT ![f] = "none"]
    BY <1>3 DEF EraseFile, DropPhoto, NoFault, Fault
  <2>2. \A g \in Files : erase'[g] # "none" => erase[g] # "none"
    BY <1>0, <2>1
  <2> QED
    BY <1>0, <2>1, <2>2, SafeUnlink
<1> QED
  BY <1>1, <1>2, <1>3 DEF DeletePhoto

\* The end of a process, at any step of the worker, leaves rows and status as
\* they were.
LEMMA SafeMain ==
  ASSUME IInv, TypeInv', Main \/ Tick
  PROVE  SafeInv'
<1> USE DEF IInv, SafeInv, requestVars, tempVars, jobVars, photoVars, workerVars, deleteVars,
            eraseVars, faultVars, notMain
<1>1. CASE Signal \/ ServerDrained \/ JanitorStopped \/ Restart
  BY <1>1, SafeFrame DEF Signal, ServerDrained, JanitorStopped, Restart
<1>2. CASE Exit \/ ForcedExit \/ Crash
  <2>1. /\ UNCHANGED <<tmp, job, rows, disk, albums, erased, undone>>
        /\ reqPc' = [r \in Requests |-> "idle"]
        /\ wPc' = "idle" /\ erase' = [f \in Files |-> "none"]
    BY <1>2 DEF Exit, ForcedExit, Crash, ProcessEnds
  <2> QED
    BY <2>1 DEF HandInv, JobInv, FaultInv, WorkerInv, Published, Settled
<1>3. CASE Tick
  BY <1>3, SafeFrame DEF Tick, notUpload
<1> QED
  BY <1>1, <1>2, <1>3 DEF Main

\* IInv is an invariant.
THEOREM Invariance == Spec => []IInv
<1>1. IInv /\ [Next]_vars => IInv'
  <2> SUFFICES ASSUME IInv, [Next]_vars PROVE IInv'
    OBVIOUS
  <2>1. TypeInv'
    BY TypeStep DEF IInv
  <2>2. CASE UNCHANGED vars
    <3>1. UNCHANGED <<reqPc, hand, tmp, job, rows, disk, albums, wPc, wJob, erase, erased,
                      undone>>
      BY <2>2 DEF vars, requestVars, tempVars, jobVars, photoVars, workerVars, deleteVars,
                  eraseVars, faultVars
    <3> QED
      BY <2>1, <3>1, SafeFrame DEF IInv, SafeInv
  <2>3. CASE Next
    BY <2>1, <2>3, SafeUpload, SafeWorker, SafeJanitor, SafeDelete, SafeErase,
           SafeMain
    DEF Next, IInv, SafeInv
  <2> QED
    BY <2>2, <2>3
<1> QED
  BY <1>1, InitIInv, PTL DEF Spec

-----------------------------------------------------------------------------
(* What follows from it.                                                   *)

\* Every variable keeps its type.
THEOREM TypeCorrect == Spec => []TypeOK
<1>1. IInv => TypeOK
  BY DEF IInv, TypeInv
<1> QED
  BY <1>1, Invariance, PTL

\* An upload becomes at most one photo, whatever crashes, restarts and album
\* deletions come between: "processing" is never taken back, and the commit of
\* the photo precedes the update of the status.
THEOREM AtMostOnce == Spec => []OnePhotoPerUpload
<1>1. IInv => OnePhotoPerUpload
  BY DEF IInv, TypeInv, TypeOK, JobSt, JobInv, OnePhotoPerUpload
<1> QED
  BY <1>1, Invariance, PTL

\* A job the admin sees as completed has its photo or had one that he deleted;
\* one he sees as failed has none, and left a file only if os.Remove failed.
THEOREM StatusIsTrue == Spec => []StatusTellsTheTruth
<1>1. IInv => StatusTellsTheTruth
  BY DEF IInv, JobInv, StatusTellsTheTruth
<1> QED
  BY <1>1, Invariance, PTL

\* Neither a handler nor a worker that is late brings anything back into a
\* deleted album.
THEOREM DeletionIsFinal == Spec => []DeletedAlbumStaysEmpty
<1>1. IInv => DeletedAlbumStaysEmpty
  BY DEF IInv, JobInv, DeletedAlbumStaysEmpty
<1> QED
  BY <1>1, Invariance, PTL

-----------------------------------------------------------------------------
(* Photo files.                                                            *)

\* Photos listed for removal, or being removed, have been committed, so none is
\* that of the open transaction; its file is there once it is written.
FileInv ==
  /\ PhotoHasFile
  /\ \A a \in Albums : \A f \in doomed[a] :
       AlbumOf[f] = a /\ delPc[a] = "listed" /\ Published(f)
  /\ \A f \in Files : erase[f] = "removed" => f \in erased
  /\ wPc = "renamed" => wJob \in disk

\* Steps that touch no photo.
LEMMA FileFrame ==
  ASSUME IInv, FileInv, UNCHANGED <<rows, disk, delPc, doomed, erase, erased>>,
         aborted \subseteq aborted',
         \A f \in Files : job[f] = "deleted" => job'[f] = "deleted",
         wPc' = "renamed" => wPc = "renamed" /\ wJob' = wJob
  PROVE  FileInv'
BY DEF FileInv, PhotoHasFile, Published, IInv, TypeInv, TypeOK

\* The worker writes a photo's file before it commits its row, and takes the
\* file of a row that was not committed away.
LEMMA FileWorker ==
  ASSUME IInv, FileInv, Worker
  PROVE  FileInv'
<1> USE DEF WorkerStep, deleteVars, eraseVars, photoVars, jobVars
<1>0. /\ Busy => wJob \in Files
      /\ rows \in [Files -> Nat] /\ job \in [Files -> JobSt]
      /\ doomed \in [Albums -> SUBSET Files]
  BY DEF IInv, TypeInv, TypeOK, JobInHand
<1>1. CASE \/ WorkerWakes \/ WorkerStops \/ BatchEnds \/ OpenTemp \/ OpenFails
           \/ SaveFails \/ InsertPhoto \/ RemoveTemp
  <2>1. UNCHANGED <<job, rows, disk, delPc, doomed, aborted, erase, erased>> /\ wPc' # "renamed"
    BY <1>1 DEF WorkerWakes, WorkerStops, BatchEnds, OpenTemp, OpenFails, SaveFails,
                InsertPhoto, RemoveTemp
  <2> QED
    BY <2>1, FileFrame
<1>2. CASE FailUnopened \/ RecordOutcome \/ \E f \in Files : TakeJob(f)
  <2>1. UNCHANGED <<rows, disk, delPc, doomed, aborted, erase, erased>> /\ wPc' # "renamed"
    BY <1>2 DEF FailUnopened, RecordOutcome, TakeJob
  <2>2. \A f \in Files : job[f] = "deleted" => job'[f] = "deleted"
    BY <1>0, <1>2 DEF FailUnopened, RecordOutcome, TakeJob, SetStatus, MarkProcessing, Pending
  <2> QED
    BY <2>1, <2>2, FileFrame
<1>3. CASE WritePhoto
  BY <1>3 DEF WritePhoto, FileInv, PhotoHasFile, Published
<1>4. CASE CommitPhoto
  <2>1. /\ wPc = "renamed" /\ wPc' = "complete" /\ wJob \in disk /\ wJob \in Files
        /\ rows[wJob] = 0
        /\ rows' = [rows EXCEPT ![wJob] = @ + 1]
        /\ UNCHANGED <<job, disk, delPc, doomed, aborted, erase, erased>>
    BY <1>0, <1>4 DEF CommitPhoto, FileInv, Busy, IInv, WorkerInv
  <2>2. PhotoHasFile'
    BY <1>0, <2>1 DEF FileInv, PhotoHasFile
  <2>3. \A f \in Files : Published(f) => Published(f)'
    BY <1>0, <2>1 DEF Published
  <2> QED
    BY <1>0, <2>1, <2>2, <2>3 DEF FileInv
<1>5. CASE CommitFails
  <2>1. /\ wPc = "renamed" /\ wPc' = "fail" /\ rows[wJob] = 0 /\ wJob \in Files
        /\ disk \ {wJob} \subseteq disk'
        /\ UNCHANGED <<job, rows, delPc, doomed, aborted, erase, erased>>
    BY <1>0, <1>5 DEF CommitFails, UndoWrite, DropPhoto, Busy, IInv, WorkerInv
  <2> QED
    BY <2>1 DEF FileInv, PhotoHasFile, Published
<1> QED
  BY <1>1, <1>2, <1>3, <1>4, <1>5 DEF Worker

\* Deleting an album removes its files while it is listed, and takes the rows
\* away before anybody can tell, or is remembered as cut off.
LEMMA FileDelete ==
  ASSUME IInv, FileInv, NEW a \in Albums, DeleteAlbum(a)
  PROVE  FileInv'
<1> USE DEF workerVars, photoVars, jobVars, eraseVars, notDelete
<1>0. /\ rows \in [Files -> Nat] /\ job \in [Files -> JobSt]
      /\ delPc \in [Albums -> DelPc] /\ doomed \in [Albums -> SUBSET Files]
      /\ AlbumOf \in [Files -> Albums]
  BY ConstantsAssumption DEF IInv, TypeInv, TypeOK
<1>1. CASE ListForDelete(a)
  <2>1. /\ delPc' = [delPc EXCEPT ![a] = "listed"]
        /\ UNCHANGED <<rows, job, disk, wPc, wJob, aborted, erase, erased>>
    BY <1>1 DEF ListForDelete
  <2>2. PICK s \in SUBSET PhotosOf(a) : doomed' = [doomed EXCEPT ![a] = s]
    BY <1>1 DEF ListForDelete
  <2>3. \A f \in s : AlbumOf[f] = a /\ Published(f)
    BY <1>0 DEF PhotosOf, IInv, JobInv, Published
  <2>4. \A b \in Albums : \A f \in doomed'[b] :
          AlbumOf[f] = b /\ delPc'[b] = "listed" /\ Published(f)
    BY <1>0, <2>1, <2>2, <2>3 DEF FileInv
  <2> QED
    BY <1>0, <2>1, <2>4 DEF FileInv, PhotoHasFile, Published
<1>2. ASSUME NEW f \in Files, RemovePhotoFile(a, f)
      PROVE  FileInv'
  <2>1. /\ f \in doomed[a]
        /\ disk \ {f} \subseteq disk'
        /\ doomed' = [doomed EXCEPT ![a] = @ \ {f}]
        /\ UNCHANGED <<rows, job, delPc, wPc, wJob, aborted, erase, erased>>
    BY <1>2 DEF RemovePhotoFile, DropPhoto
  <2>2. AlbumOf[f] = a /\ delPc[a] = "listed" /\ Published(f)
    BY <2>1 DEF FileInv
  <2>3. wPc = "renamed" => wJob # f
    BY <2>2 DEF IInv, WorkerInv, Published
  <2>4. \A b \in Albums : doomed'[b] \subseteq doomed[b]
    BY <1>0, <2>1
  <2> QED
    BY <2>1, <2>2, <2>3, <2>4 DEF FileInv, PhotoHasFile, Published
<1>3. CASE DeleteAlbumRow(a)
  <2>1. /\ doomed[a] = {}
        /\ delPc' = [delPc EXCEPT ![a] = "none"]
        /\ rows' = [f \in Files |-> IF AlbumOf[f] = a THEN 0 ELSE rows[f]]
        /\ \A f \in Files : AlbumOf[f] # a => job'[f] = job[f]
        /\ UNCHANGED <<disk, doomed, wPc, wJob, aborted, erase, erased>>
    BY <1>3 DEF DeleteAlbumRow, CascadeJobs
  <2>2. PhotoHasFile'
    BY <1>0, <2>1 DEF FileInv, PhotoHasFile
  <2>3. \A b \in Albums : \A f \in doomed'[b] :
          AlbumOf[f] = b /\ delPc'[b] = "listed" /\ Published(f)'
    BY <1>0, <2>1 DEF FileInv, Published
  <2> QED
    BY <2>1, <2>2, <2>3 DEF FileInv
<1>4. CASE DeleteAlbumFails(a)
  <2>1. /\ doomed[a] = {}
        /\ delPc' = [delPc EXCEPT ![a] = "none"]
        /\ aborted' = aborted \cup {a}
        /\ UNCHANGED <<rows, job, disk, doomed, wPc, wJob, erase, erased>>
    BY <1>4 DEF DeleteAlbumFails
  <2> QED
    BY <1>0, <2>1 DEF FileInv, PhotoHasFile, Published
<1> QED
  BY <1>1, <1>2, <1>3, <1>4 DEF DeleteAlbum

\* Deleting a photo removes its row before its file.
LEMMA FileErase ==
  ASSUME IInv, FileInv, NEW g \in Files, DeletePhoto(g)
  PROVE  FileInv'
<1> USE DEF workerVars, photoVars, jobVars, deleteVars, notErase
<1>0. /\ rows \in [Files -> Nat] /\ erase \in [Files -> ErasePc]
      /\ doomed \in [Albums -> SUBSET Files]
  BY DEF IInv, TypeInv, TypeOK
<1>1. CASE FindPhoto(g) \/ EraseFails(g)
  <2>1. /\ UNCHANGED <<rows, job, disk, delPc, doomed, wPc, wJob, aborted, erased>>
        /\ \A f \in Files : erase'[f] = "removed" => erase[f] = "removed"
    BY <1>0, <1>1 DEF FindPhoto, EraseFails
  <2> QED
    BY <2>1 DEF FileInv, PhotoHasFile, Published
<1>2. CASE ErasePhoto(g)
  <2>1. /\ rows' = [rows EXCEPT ![g] = 0]
        /\ erased' = erased \cup {g}
        /\ erase' = [erase EXCEPT ![g] = "removed"]
        /\ UNCHANGED <<job, disk, delPc, doomed, wPc, wJob, aborted>>
    BY <1>2 DEF ErasePhoto
  <2>2. \A f \in Files : Published(f) => Published(f)'
    BY <1>0, <2>1 DEF Published
  <2> QED
    BY <1>0, <2>1, <2>2 DEF FileInv, PhotoHasFile
<1>3. CASE EraseFile(g)
  <2>1. /\ erase[g] = "removed"
        /\ disk \ {g} \subseteq disk'
        /\ erase' = [erase EXCEPT ![g] = "none"]
        /\ UNCHANGED <<rows, job, delPc, doomed, wPc, wJob, aborted, erased>>
    BY <1>3 DEF EraseFile, DropPhoto
  <2>2. g \in erased /\ rows[g] = 0
    BY <2>1 DEF FileInv, IInv, JobInv
  <2>3. wPc = "renamed" => wJob # g
    BY <2>2 DEF IInv, WorkerInv
  <2> QED
    BY <1>0, <2>1, <2>2, <2>3 DEF FileInv, PhotoHasFile, Published
<1> QED
  BY <1>1, <1>2, <1>3 DEF DeletePhoto

\* A committed photo has its file, whatever the worker and the two deletions were
\* doing when the process ended; only an album deletion that runs, or that was
\* cut off before its DELETE, leaves a row without one.
THEOREM PhotosKeepFiles == Spec => []PhotoHasFile
<1>1. Init => FileInv
  BY DEF Init, FileInv, PhotoHasFile
<1>2. IInv /\ FileInv /\ [Next]_vars => FileInv'
  <2> SUFFICES ASSUME IInv, FileInv, [Next]_vars PROVE FileInv'
    OBVIOUS
  <2>1. CASE \/ UNCHANGED vars
             \/ \E r \in Requests : Upload(r)
             \/ Janitor \/ Tick
             \/ Signal \/ ServerDrained \/ JanitorStopped \/ Restart
    <3>1. /\ UNCHANGED <<rows, disk, delPc, doomed, aborted, erase, erased, wPc, wJob>>
          /\ UNCHANGED job \/ \E r \in Requests : Enqueue(r)
      BY <2>1 DEF vars, Upload, StartUpload, Enqueue, EnqueueFails, BodyBreaks, EndUpload,
                  RejectPart, SaveTemp, Janitor, JanitorScans, JanitorRemoves, JanitorRests,
                  Tick, Signal, ServerDrained, JanitorStopped, Restart, notUpload, notJanitor,
                  notMain, jobVars, photoVars, deleteVars, eraseVars, workerVars
    <3>2. \A f \in Files : job[f] = "deleted" => job'[f] = "deleted"
      BY <3>1 DEF Enqueue, IInv, HandInv, TypeInv, TypeOK
    <3> QED
      BY <3>1, <3>2, FileFrame
  <2>2. CASE Exit \/ ForcedExit \/ Crash
    <3>1. /\ UNCHANGED <<rows, job, disk, erased>> /\ wPc' = "idle"
          /\ delPc' = [a \in Albums |-> "none"] /\ doomed' = [a \in Albums |-> {}]
          /\ aborted' = aborted \cup {a \in Albums : delPc[a] = "listed"}
          /\ erase' = [f \in Files |-> "none"]
      BY <2>2 DEF Exit, ForcedExit, Crash, ProcessEnds, photoVars, jobVars
    <3> QED
      BY <3>1, ConstantsAssumption DEF FileInv, PhotoHasFile
  <2> QED
    BY <2>1, <2>2, FileWorker, FileDelete, FileErase DEF Next, Main
<1>3. FileInv => PhotoHasFile
  BY DEF FileInv
<1> QED
  BY <1>1, <1>2, <1>3, Invariance, PTL DEF Spec

-----------------------------------------------------------------------------
(* Temporary files.                                                        *)

\* Somebody is still going to open the temporary file of f, or to enqueue it.
Needed(f) == job[f] = "pending" \/ \E r \in Requests : hand[r] = f

\* A file the sweep will remove was old when it was scanned; it still is, or
\* nobody needs it any more.
TempInv ==
  /\ FreshUploadKeepsTemp
  /\ \A r \in Requests : hand[r] # NoFile => reqPc[r] = "enqueue"
  /\ \A f \in scan : tmp[f] # "unborn" /\ (Old(f) \/ ~Needed(f))

\* A handler hands its file over to the queue, or removes it.
LEMMA TempUpload ==
  ASSUME IInv, TempInv, NEW q \in Requests, Upload(q)
  PROVE  TempInv'
<1> USE ConstantsAssumption
    DEF IInv, TypeInv, TypeOK, HandInv, TempInv, FreshUploadKeepsTemp, Needed, Old,
        tempVars, jobVars, requestVars, janitorVars, notUpload
<1>1. CASE StartUpload(q) \/ BodyBreaks(q) \/ EndUpload(q)
  <2>1. /\ UNCHANGED <<hand, tmp, tmpAge, job, scan>>
        /\ \A r \in Requests : reqPc[r] = "enqueue" => reqPc'[r] = "enqueue"
    BY <1>1 DEF StartUpload, BodyBreaks, EndUpload
  <2> QED
    BY <2>1
<1>2. CASE Enqueue(q)
  <2>1. /\ hand[q] \in Files
        /\ job' = [job EXCEPT ![hand[q]] = "pending"]
        /\ hand' = [hand EXCEPT ![q] = NoFile]
        /\ reqPc' = [reqPc EXCEPT ![q] = "reading"]
        /\ UNCHANGED <<tmp, tmpAge, scan>>
    BY <1>2 DEF Enqueue
  <2>2. \A f \in Files : Needed(f)' => Needed(f)
    BY <2>1
  <2> QED
    BY <2>1, <2>2
<1>3. CASE EnqueueFails(q)
  <2>1. PICK g \in Files :
          /\ g = hand[q] /\ reqPc[q] = "enqueue" /\ job[g] = "none"
          /\ tmp'[g] # "unborn"
          /\ \A f \in Files \ {g} : tmp'[f] = tmp[f] /\ tmpAge'[f] = tmpAge[f]
          /\ hand' = [hand EXCEPT ![q] = NoFile]
          /\ reqPc' = [reqPc EXCEPT ![q] = "reading"]
          /\ UNCHANGED <<job, scan>>
    BY <1>3 DEF EnqueueFails, DropTemp
  <2>2. ~Needed(g)'
    <3>1. ASSUME NEW r \in Requests, hand'[r] = g PROVE FALSE
      <4>1. r # q /\ hand[r] = g
        BY <2>1, <3>1
      <4>2. reqPc[r] = "enqueue"
        BY <4>1, <2>1
      <4> QED
        BY <4>1, <4>2, <2>1
    <3> QED
      BY <3>1, <2>1
  <2>3. \A f \in Files \ {g} : (Needed(f)' => Needed(f)) /\ tmp'[f] = tmp[f] /\ (Old(f)' <=> Old(f))
    BY <2>1
  <2>4. \A r \in Requests : hand'[r] # NoFile => reqPc'[r] = "enqueue"
    BY <2>1
  <2>5. \A f \in scan' : tmp'[f] # "unborn" /\ (Old(f)' \/ ~Needed(f)')
    BY <2>1, <2>2, <2>3
  <2>6. \A f \in Files : Needed(f)' => Old(f)' \/ tmp'[f] = "present"
    BY <2>1, <2>2, <2>3
  <2> QED
    BY <2>4, <2>5, <2>6
<1>4. ASSUME NEW g \in Files, RejectPart(q, g) \/ SaveTemp(q, g)
      PROVE  TempInv'
  <2>1. /\ reqPc[q] = "reading" /\ hand[q] = NoFile
        /\ tmp[g] = "unborn" /\ ~Needed(g) /\ g \notin scan
        /\ UNCHANGED <<job, scan, tmpAge>>
    BY <1>4 DEF RejectPart, SaveTemp, NextPart
  <2>2. CASE RejectPart(q, g)
    <3>1. /\ tmp'[g] # "unborn" /\ UNCHANGED <<hand, reqPc>>
          /\ \A f \in Files \ {g} : tmp'[f] = tmp[f]
      BY <2>2 DEF RejectPart
    <3> QED
      BY <2>1, <3>1
  <2>3. CASE SaveTemp(q, g)
    <3>1. /\ tmp' = [tmp EXCEPT ![g] = "present"]
          /\ hand' = [hand EXCEPT ![q] = g]
          /\ reqPc' = [reqPc EXCEPT ![q] = "enqueue"]
      BY <2>3 DEF SaveTemp
    <3>2. \A f \in Files \ {g} : Needed(f)' => Needed(f)
      BY <2>1, <3>1
    <3> QED
      BY <2>1, <3>1, <3>2
  <2> QED
    BY <1>4, <2>2, <2>3
<1> QED
  BY <1>1, <1>2, <1>3, <1>4 DEF Upload

\* The worker removes a temporary file when its job is no longer pending.
LEMMA TempWorker ==
  ASSUME IInv, TempInv, Worker
  PROVE  TempInv'
<1> USE DEF IInv, TypeInv, TypeOK, JobInHand, Busy, HandInv, WorkerInv, TempInv,
            FreshUploadKeepsTemp, Needed, Old, tempVars, jobVars, requestVars, janitorVars,
            WorkerStep
<1>1. CASE \/ WorkerWakes \/ WorkerStops \/ BatchEnds \/ OpenTemp \/ OpenFails
           \/ SaveFails \/ InsertPhoto \/ WritePhoto \/ CommitPhoto \/ CommitFails
  <2>1. UNCHANGED <<reqPc, hand, tmp, tmpAge, job, scan>>
    BY <1>1 DEF WorkerWakes, WorkerStops, BatchEnds, OpenTemp, OpenFails, SaveFails,
                InsertPhoto, WritePhoto, CommitPhoto, CommitFails
  <2> QED
    BY <2>1
<1>2. CASE FailUnopened \/ RecordOutcome \/ \E f \in Files : TakeJob(f)
  <2>1. /\ UNCHANGED <<reqPc, hand, tmp, tmpAge, scan>>
        /\ \A f \in Files : job'[f] = "pending" => job[f] = "pending"
    BY <1>2 DEF FailUnopened, RecordOutcome, SetStatus, TakeJob, MarkProcessing
  <2> QED
    BY <2>1
<1>3. CASE RemoveTemp
  <2>1. /\ wJob \in Files /\ job[wJob] \notin {"none", "pending"}
        /\ tmp'[wJob] \in {tmp[wJob], "gone"}
        /\ \A f \in Files \ {wJob} : tmp'[f] = tmp[f] /\ tmpAge'[f] = tmpAge[f]
        /\ UNCHANGED <<reqPc, hand, job, scan>>
    BY <1>3 DEF RemoveTemp, DropTemp
  <2>2. ASSUME NEW r \in Requests PROVE hand[r] # wJob
    BY <2>1, ConstantsAssumption
  <2>3. ~Needed(wJob)
    BY <2>1, <2>2
  <2> QED
    BY <2>1, <2>3
<1> QED
  BY <1>1, <1>2, <1>3 DEF Worker

\* The sweep removes what it has scanned; the clock makes files older only.
LEMMA TempJanitor ==
  ASSUME IInv, TempInv, Janitor \/ Tick
  PROVE  TempInv'
<1> USE ConstantsAssumption
    DEF IInv, TypeInv, TypeOK, TempInv, FreshUploadKeepsTemp, Needed,
        tempVars, jobVars, requestVars, janitorVars, notJanitor, notUpload
<1>1. CASE Tick
  <2>1. UNCHANGED <<requestVars, tmp, job, scan>>
    BY <1>1 DEF Tick
  <2>2. \A f \in Files : Old(f) => Old(f)'
    BY <1>1 DEF Tick, Old
  <2> QED
    BY <2>1, <2>2
<1>2. CASE JanitorScans \/ JanitorRests
  BY <1>2 DEF JanitorScans, JanitorRests, OldTemps, Old
<1>3. ASSUME NEW f \in Files, JanitorRemoves(f)
      PROVE  TempInv'
  BY <1>3 DEF JanitorRemoves, Old
<1> QED
  BY <1>1, <1>2, <1>3 DEF Janitor

\* An upload younger than the janitor's limit keeps its temporary file until the
\* worker opens it: through sweeps, failed enqueues, deletions and restarts.
THEOREM FreshUploadsKeepTemps == Spec => []FreshUploadKeepsTemp
<1>1. Init => TempInv
  BY ConstantsAssumption DEF Init, TempInv, FreshUploadKeepsTemp, Needed
<1>2. IInv /\ TempInv /\ [Next]_vars => TempInv'
  <2> SUFFICES ASSUME IInv, TempInv, [Next]_vars PROVE TempInv'
    OBVIOUS
  <2>1. CASE UNCHANGED vars \/ Signal \/ ServerDrained \/ JanitorStopped \/ Restart
    <3>1. UNCHANGED <<reqPc, hand, tmp, tmpAge, job, scan>>
      BY <2>1 DEF vars, Signal, ServerDrained, JanitorStopped, Restart, notMain, requestVars,
                  tempVars, jobVars, janitorVars
    <3> QED
      BY <3>1 DEF TempInv, FreshUploadKeepsTemp, Needed, Old
  <2>2. CASE Exit \/ ForcedExit \/ Crash
    <3>1. /\ hand' = [r \in Requests |-> NoFile] /\ scan' = {}
          /\ UNCHANGED <<tmp, tmpAge, job>>
      BY <2>2 DEF Exit, ForcedExit, Crash, ProcessEnds, tempVars, jobVars
    <3> QED
      BY <3>1, ConstantsAssumption DEF TempInv, FreshUploadKeepsTemp, Old
  <2>3. ASSUME NEW f \in Files, DeletePhoto(f) PROVE TempInv'
    <3>1. UNCHANGED <<reqPc, hand, tmp, tmpAge, job, scan>>
      BY <2>3 DEF DeletePhoto, FindPhoto, ErasePhoto, EraseFails, EraseFile, notErase,
                  requestVars, tempVars, jobVars, janitorVars
    <3> QED
      BY <3>1 DEF TempInv, FreshUploadKeepsTemp, Needed, Old
  <2>4. ASSUME NEW a \in Albums, DeleteAlbum(a) PROVE TempInv'
    <3>1. /\ UNCHANGED <<reqPc, hand, tmp, tmpAge, scan>>
          /\ \A f \in Files : job'[f] = "pending" => job[f] = "pending"
      BY <2>4 DEF DeleteAlbum, ListForDelete, RemovePhotoFile, DeleteAlbumRow, DeleteAlbumFails,
                  CascadeJobs, notDelete, requestVars, tempVars, jobVars, janitorVars
    <3> QED
      BY <3>1 DEF TempInv, FreshUploadKeepsTemp, Needed, Old, IInv, TypeInv, TypeOK
  <2> QED
    BY <2>1, <2>2, <2>3, <2>4, TempUpload, TempWorker, TempJanitor DEF Next, Main
<1>3. TempInv => FreshUploadKeepsTemp
  BY DEF TempInv
<1> QED
  BY <1>1, <1>2, <1>3, Invariance, PTL DEF Spec

-----------------------------------------------------------------------------
(* Stranded jobs.                                                          *)

\* The end of the process is about to cost a job, and the worker holds none any
\* more that it could still cost.
Spent == Cancelled /\ ~Busy

\* A job leaves the worker's hands in "processing" only when the UPDATE fails, the
\* context is cancelled or the process ends; the last two take one at most.
StrandInv ==
  /\ IsFiniteSet(StrandedByExit)
  /\ Cardinality(StrandedByExit) <= exits + (IF Spent THEN 1 ELSE 0)
  /\ wPc = "remove" => job[wJob] # "processing" \/ Cancelled \/ "status" \in undone[wJob]

\* What a failing call left undone is not forgotten.
LEMMA UndoneGrows ==
  ASSUME TypeInv, [Next]_vars
  PROVE  \A f \in Files : undone[f] \subseteq undone'[f]
<1>1. \A f, what : NoFault \/ Hiccup \/ Fault(f, what) =>
        \A g \in Files : undone[g] \subseteq undone'[g]
  BY DEF TypeInv, TypeOK, NoFault, Hiccup, Fault, faultVars
<1>2. CASE Worker
  BY <1>1, <1>2
  DEF Worker, WorkerWakes, WorkerStops, BatchEnds, TakeJob, OpenTemp, OpenFails, FailUnopened,
      SaveFails, InsertPhoto, WritePhoto, CommitPhoto, CommitFails, UndoWrite, RecordOutcome,
      RemoveTemp, SetStatus, DropTemp, DropPhoto, NoFault
<1>3. ASSUME NEW r \in Requests, Upload(r)
      PROVE  \A g \in Files : undone[g] \subseteq undone'[g]
  BY <1>1, <1>3
  DEF Upload, StartUpload, Enqueue, EnqueueFails, BodyBreaks, EndUpload, RejectPart, SaveTemp,
      DropTemp, NoFault
<1>4. CASE Janitor
  BY <1>1, <1>4 DEF Janitor, JanitorScans, JanitorRests, JanitorRemoves, NoFault
<1>5. ASSUME NEW a \in Albums, DeleteAlbum(a)
      PROVE  \A g \in Files : undone[g] \subseteq undone'[g]
  BY <1>1, <1>5
  DEF DeleteAlbum, ListForDelete, RemovePhotoFile, DeleteAlbumRow, DeleteAlbumFails, DropPhoto,
      NoFault
<1>6. ASSUME NEW f \in Files, DeletePhoto(f)
      PROVE  \A g \in Files : undone[g] \subseteq undone'[g]
  BY <1>1, <1>6
  DEF DeletePhoto, FindPhoto, ErasePhoto, EraseFails, EraseFile, DropPhoto, NoFault
<1>7. CASE Main \/ Tick \/ UNCHANGED vars
  BY <1>1, <1>7
  DEF vars, Main, Signal, ServerDrained, JanitorStopped, Exit, ForcedExit, Crash, Restart,
      ProcessEnds, Tick, notMain, NoFault, faultVars
<1> QED
  BY <1>2, <1>3, <1>4, <1>5, <1>6, <1>7 DEF Next

\* Steps that strand no further job.
LEMMA NoneStranded ==
  ASSUME IInv, StrandInv, exits' = exits, StrandedByExit' \subseteq StrandedByExit,
         Spent => Spent',
         wPc' = "remove" =>
           job'[wJob'] # "processing" \/ Cancelled' \/ "status" \in undone'[wJob']
  PROVE  StrandInv'
<1>1. /\ IsFiniteSet(StrandedByExit')
      /\ Cardinality(StrandedByExit') <= Cardinality(StrandedByExit)
  BY FS_Subset DEF StrandInv
<1>2. /\ Cardinality(StrandedByExit) \in Nat /\ Cardinality(StrandedByExit') \in Nat
      /\ exits \in Nat
  BY <1>1, FS_CardinalityType, ConstantsAssumption DEF StrandInv, IInv, TypeInv, TypeOK
<1>3. Cardinality(StrandedByExit') <= exits' + (IF Spent' THEN 1 ELSE 0)
  BY <1>1, <1>2 DEF StrandInv
<1> QED
  BY <1>1, <1>3 DEF StrandInv

\* Steps that may strand the job in the worker's hands, once per process.
LEMMA OneStranded ==
  ASSUME IInv, StrandInv, StrandedByExit' \subseteq StrandedByExit \cup {wJob},
         \/ exits' = exits + 1 /\ ~Spent
         \/ exits' = exits /\ ~Spent /\ Spent',
         wPc' # "remove"
  PROVE  StrandInv'
<1>1. /\ IsFiniteSet(StrandedByExit \cup {wJob})
      /\ Cardinality(StrandedByExit \cup {wJob})
           = IF wJob \in StrandedByExit THEN Cardinality(StrandedByExit)
                                        ELSE Cardinality(StrandedByExit) + 1
  BY FS_AddElement DEF StrandInv
<1>2. /\ IsFiniteSet(StrandedByExit')
      /\ Cardinality(StrandedByExit') <= Cardinality(StrandedByExit \cup {wJob})
  BY <1>1, FS_Subset
<1>3. /\ Cardinality(StrandedByExit) \in Nat /\ Cardinality(StrandedByExit') \in Nat
      /\ Cardinality(StrandedByExit \cup {wJob}) \in Nat /\ exits \in Nat
  BY <1>1, <1>2, FS_CardinalityType, ConstantsAssumption DEF StrandInv, IInv, TypeInv, TypeOK
<1>4. Cardinality(StrandedByExit') <= Cardinality(StrandedByExit) + 1
  BY <1>1, <1>2, <1>3
<1>5. Cardinality(StrandedByExit') <= exits' + (IF Spent' THEN 1 ELSE 0)
  BY <1>3, <1>4 DEF StrandInv
<1> QED
  BY <1>2, <1>5 DEF StrandInv

\* The worker gives every job a final status, fails to, or is cancelled while it
\* holds it.
LEMMA StrandWorker ==
  ASSUME IInv, StrandInv, Worker
  PROVE  StrandInv'
<1> USE DEF IInv, TypeInv, TypeOK, JobInHand, WorkerInv, StrandInv, StrandedByExit,
            StrandedJobs, Busy, Spent, Cancelled, jobVars, mainVars, WorkerStep
<1>0. \A f \in Files : undone[f] \subseteq undone'[f]
  BY UndoneGrows DEF Next
<1>1. CASE \/ WorkerWakes \/ WorkerStops \/ BatchEnds \/ OpenTemp \/ OpenFails
           \/ SaveFails \/ InsertPhoto \/ WritePhoto \/ CommitPhoto \/ CommitFails
  <2>1. /\ UNCHANGED <<job, wJob, mainPc, exits>> /\ wPc' # "remove"
        /\ Busy' <=> Busy
    BY <1>1 DEF WorkerWakes, WorkerStops, BatchEnds, OpenTemp, OpenFails, SaveFails,
                InsertPhoto, WritePhoto, CommitPhoto, CommitFails
  <2> QED
    BY <1>0, <2>1, NoneStranded
<1>2. ASSUME NEW f \in Files, TakeJob(f)
      PROVE  StrandInv'
  <2>1. /\ job' = [job EXCEPT ![f] = "processing"] /\ wJob' = f /\ wPc' = "open"
        /\ ~Cancelled /\ UNCHANGED <<mainPc, exits>> /\ wPc = "batch"
    BY <1>2 DEF TakeJob, MarkProcessing
  <2> QED
    BY <1>0, <2>1, NoneStranded
<1>3. CASE RecordOutcome
  <2>1. /\ UNCHANGED <<wJob, mainPc, exits>> /\ wPc' = "remove" /\ Busy /\ Busy'
        /\ \A f \in Files \ {wJob} : job'[f] = job[f]
        /\ job'[wJob] # "processing" \/ Cancelled \/ "status" \in undone'[wJob]
    BY <1>3 DEF RecordOutcome, SetStatus, Fault
  <2> QED
    BY <1>0, <2>1, NoneStranded
<1>4. CASE FailUnopened \/ RemoveTemp
  <2>1. /\ UNCHANGED <<mainPc, exits>> /\ wPc' = "batch" /\ Busy /\ wJob \in Files
        /\ \A f \in Files \ {wJob} : job'[f] = job[f]
    BY <1>4 DEF FailUnopened, RemoveTemp, SetStatus
  <2>2. job'[wJob] # "processing" \/ Cancelled \/ "status" \in undone'[wJob]
    <3>1. CASE FailUnopened
      BY <2>1, <3>1 DEF FailUnopened, SetStatus, Fault
    <3>2. CASE RemoveTemp
      BY <1>0, <2>1, <3>2 DEF RemoveTemp
    <3> QED
      BY <1>4, <3>1, <3>2
  <2>3. CASE Cancelled
    <3>1. StrandedByExit' \subseteq StrandedByExit \cup {wJob} /\ ~Spent /\ Spent'
      BY <1>0, <2>1, <2>3
    <3> QED
      BY <2>1, <3>1, OneStranded
  <2>4. CASE ~Cancelled
    <3>1. StrandedByExit' \subseteq StrandedByExit /\ ~Spent
      BY <1>0, <2>1, <2>2, <2>4
    <3> QED
      BY <2>1, <3>1, NoneStranded
  <2> QED
    BY <2>3, <2>4
<1> QED
  BY <1>1, <1>2, <1>3, <1>4 DEF Worker

\* The end of the process takes at most the worker's job.
LEMMA StrandMain ==
  ASSUME IInv, StrandInv, Main
  PROVE  StrandInv'
<1>0. Cardinality(StrandedByExit) \in Nat /\ exits \in Nat
  BY FS_CardinalityType, ConstantsAssumption DEF StrandInv, IInv, TypeInv, TypeOK
<1> USE DEF IInv, TypeInv, TypeOK, StrandInv, StrandedByExit, StrandedJobs, Busy, Spent,
            Cancelled
<1>1. CASE Signal \/ ServerDrained \/ JanitorStopped \/ Restart
  <2>1. UNCHANGED <<job, wPc, wJob, exits, undone>> /\ (Cancelled => Cancelled')
    BY <1>1 DEF Signal, ServerDrained, JanitorStopped, Restart, notMain, jobVars, workerVars,
                faultVars
  <2> QED
    BY <2>1, NoneStranded
<1>2. CASE Exit \/ ForcedExit \/ Crash
  <2>1. /\ job' = job /\ wPc' = "idle" /\ exits' = exits + 1 /\ mainPc' = "down"
        /\ undone' = undone
    BY <1>2 DEF Exit, ForcedExit, Crash, ProcessEnds, jobVars, faultVars
  <2>2. CASE Spent
    <3>1. StrandedByExit' = StrandedByExit
      BY <2>1, <2>2
    <3>2. Cardinality(StrandedByExit') <= exits' + (IF Spent' THEN 1 ELSE 0)
      <4>1. Cardinality(StrandedByExit') <= exits + 1
        BY <3>1, <2>2
      <4>2. ~Spent' /\ Cardinality(StrandedByExit') \in Nat
        BY <1>0, <2>1, <3>1
      <4> QED
        BY <1>0, <4>1, <4>2, <2>1
    <3> QED
      BY <3>1, <3>2, <2>1
  <2>3. CASE ~Spent
    <3>1. StrandedByExit' \subseteq StrandedByExit \cup {wJob}
      BY <2>1
    <3> QED
      BY <2>1, <2>3, <3>1, OneStranded
  <2> QED
    BY <2>2, <2>3
<1> QED
  BY <1>1, <1>2 DEF Main

\* StrandInv is an invariant.
LEMMA StrandInvariance == Spec => []StrandInv
<1>1. Init => StrandInv
  <2> SUFFICES ASSUME Init PROVE StrandInv
    OBVIOUS
  <2>1. StrandedByExit = {} /\ exits = 0 /\ ~Spent /\ wPc # "remove"
    BY DEF Init, StrandedByExit, StrandedJobs, Spent, Cancelled
  <2> QED
    BY <2>1, FS_EmptySet DEF StrandInv
<1>2. IInv /\ StrandInv /\ [Next]_vars => StrandInv'
  <2> SUFFICES ASSUME IInv, StrandInv, [Next]_vars PROVE StrandInv'
    OBVIOUS
  <2>1. CASE UNCHANGED vars \/ (\E r \in Requests : Upload(r)) \/ Janitor \/ Tick
             \/ (\E a \in Albums : DeleteAlbum(a)) \/ \E f \in Files : DeletePhoto(f)
    <3>1. UNCHANGED <<wPc, wJob, mainPc, exits>>
      BY <2>1 DEF vars, Upload, StartUpload, Enqueue, EnqueueFails, BodyBreaks, EndUpload,
                  RejectPart, SaveTemp, Janitor, JanitorScans, JanitorRemoves, JanitorRests,
                  Tick, DeleteAlbum, ListForDelete, RemovePhotoFile, DeleteAlbumRow,
                  DeleteAlbumFails, DeletePhoto, FindPhoto, ErasePhoto, EraseFails, EraseFile,
                  notUpload, notJanitor, notDelete, notErase, workerVars, mainVars
    <3>2. \A f \in Files : job'[f] = "processing" => job[f] = "processing"
      BY <2>1 DEF vars, Upload, StartUpload, Enqueue, EnqueueFails, BodyBreaks, EndUpload,
                  RejectPart, SaveTemp, Janitor, JanitorScans, JanitorRemoves, JanitorRests,
                  Tick, DeleteAlbum, ListForDelete, RemovePhotoFile, DeleteAlbumRow,
                  DeleteAlbumFails, CascadeJobs, DeletePhoto, FindPhoto, ErasePhoto,
                  EraseFails, EraseFile, jobVars, notJanitor, notErase, IInv, TypeInv, TypeOK
    <3>3. wPc = "remove" => wJob \in Files
      BY DEF IInv, TypeInv, JobInHand, Busy
    <3>4. \A f \in Files : undone[f] \subseteq undone'[f]
      BY UndoneGrows DEF IInv
    <3> QED
      BY <3>1, <3>2, <3>3, <3>4, NoneStranded
      DEF StrandInv, StrandedByExit, StrandedJobs, Spent, Cancelled, Busy
  <2> QED
    BY <2>1, StrandWorker, StrandMain DEF Next
<1> QED
  BY <1>1, <1>2, Invariance, PTL DEF Spec

\* Apart from the jobs whose last UPDATE failed, at most one job is left in
\* "processing" by each end of a process, orderly or not.
THEOREM StrandedAreFew == Spec => []OneStrandedPerExit
<1>1. IInv /\ StrandInv => OneStrandedPerExit
  <2> SUFFICES ASSUME IInv, StrandInv PROVE OneStrandedPerExit
    OBVIOUS
  <2>1. Cardinality(StrandedByExit) \in Nat /\ exits \in Nat
    BY FS_CardinalityType, ConstantsAssumption DEF StrandInv, IInv, TypeInv, TypeOK
  <2> QED
    BY <2>1 DEF StrandInv, Spent, OneStrandedPerExit
<1> QED
  BY <1>1, StrandInvariance, Invariance, PTL

-----------------------------------------------------------------------------
(* Orphaned files.                                                         *)

\* A photo file that never had a row belongs to a job in "processing" that nobody
\* is at work on, to the open transaction or to a deleted album; otherwise its
\* commit failed and os.Remove after it.
THEOREM OrphansAreStranded == Spec => []OrphanIsStranded
<1>1. IInv => OrphanIsStranded
  <2> SUFFICES ASSUME IInv, NEW f \in Orphans
               PROVE  \/ f \in StrandedJobs
                      \/ "photo" \in undone[f] /\ job[f] \in {"processing", "failed"}
    BY DEF OrphanIsStranded
  <2>1. /\ f \in Files /\ f \in disk /\ rows[f] = 0 /\ f \notin erased
        /\ AlbumOf[f] \in albums
    BY DEF Orphans, IInv, TypeInv, TypeOK
  <2>2. job[f] = "processing" \/ (job[f] = "failed" /\ "photo" \in undone[f])
    BY <2>1 DEF IInv, JobInv, TypeInv, TypeOK, JobSt
  <2>3. CASE job[f] = "processing" /\ Busy /\ wJob = f
    <3>1. wPc \in {"open", "unopened", "work", "inserted", "complete", "fail", "remove"}
      BY <2>3 DEF Busy, Orphans, IInv, TypeInv, TypeOK, WPc
    <3>2. "photo" \in undone[f]
      BY <2>1, <2>3, <3>1 DEF IInv, WorkerInv, Published, Settled
    <3> QED
      BY <2>3, <3>2
  <2> QED
    BY <2>1, <2>2, <2>3 DEF StrandedJobs
<1> QED
  BY <1>1, Invariance, PTL

\* Apart from files that os.Remove left, the end of a process leaves at most one
\* photo file behind that never had a row.
THEOREM OrphansAreFew == Spec => []OneOrphanPerExit
<1>1. IInv /\ StrandInv /\ OneStrandedPerExit /\ OrphanIsStranded => OneOrphanPerExit
  <2> SUFFICES ASSUME IInv, StrandInv, OneStrandedPerExit, OrphanIsStranded
               PROVE  OneOrphanPerExit
    OBVIOUS
  <2>0. OrphansByExit \subseteq StrandedByExit
    <3> SUFFICES ASSUME NEW f \in OrphansByExit PROVE f \in StrandedByExit
      OBVIOUS
    <3>1. /\ f \in StrandedJobs /\ f \in Files /\ f \in disk /\ rows[f] = 0
          /\ f \notin erased /\ "photo" \notin undone[f] /\ job[f] = "processing"
      BY DEF OrphansByExit, Orphans, OrphanIsStranded, StrandedJobs
    <3>2. "status" \notin undone[f]
      BY <3>1 DEF IInv, FaultInv, Settled, Published
    <3> QED
      BY <3>1, <3>2 DEF StrandedByExit
  <2>1. /\ IsFiniteSet(StrandedByExit) /\ IsFiniteSet(OrphansByExit)
        /\ Cardinality(OrphansByExit) <= Cardinality(StrandedByExit)
    BY <2>0, FS_Subset DEF StrandInv
  <2>2. /\ Cardinality(OrphansByExit) \in Nat /\ Cardinality(StrandedByExit) \in Nat
        /\ exits \in Nat
    BY <2>1, FS_CardinalityType, ConstantsAssumption DEF IInv, TypeInv, TypeOK
  <2> QED
    BY <2>1, <2>2 DEF OneStrandedPerExit, OneOrphanPerExit
<1> QED
  BY <1>1, Invariance, StrandInvariance, StrandedAreFew, OrphansAreStranded, PTL

-----------------------------------------------------------------------------
(* Who removes a temporary file.                                           *)

\* A temporary file that was not opened is gone, or left.
OwnerInv ==
  /\ TempFileHasOwner
  /\ \A r \in Requests : hand[r] # NoFile => reqPc[r] = "enqueue"
  /\ wPc = "unopened" => tmp[wJob] # "present" \/ "temp" \in undone[wJob]

\* A handler that gives up its file has enqueued or removed it.
LEMMA OwnerUpload ==
  ASSUME IInv, OwnerInv, NEW q \in Requests, Upload(q)
  PROVE  OwnerInv'
<1> USE ConstantsAssumption
    DEF IInv, TypeInv, TypeOK, HandInv, OwnerInv, TempFileHasOwner, Busy, requestVars,
        tempVars, jobVars, workerVars, mainVars, faultVars, notUpload
<1>0. wPc = "unopened" => wJob \in Files /\ tmp[wJob] # "unborn"
  BY DEF WorkerInv, JobInHand
<1>1. CASE StartUpload(q) \/ BodyBreaks(q) \/ EndUpload(q)
  <2>1. /\ UNCHANGED <<hand, tmp, job, wPc, wJob, exits, undone>>
        /\ \A r \in Requests : reqPc[r] = "enqueue" => reqPc'[r] = "enqueue"
    BY <1>1 DEF StartUpload, BodyBreaks, EndUpload
  <2> QED
    BY <2>1
<1>2. CASE Enqueue(q)
  <2>1. /\ hand[q] \in Files
        /\ job' = [job EXCEPT ![hand[q]] = "pending"]
        /\ hand' = [hand EXCEPT ![q] = NoFile]
        /\ reqPc' = [reqPc EXCEPT ![q] = "reading"]
        /\ UNCHANGED <<tmp, wPc, wJob, exits, undone>>
    BY <1>2 DEF Enqueue
  <2> QED
    BY <2>1
<1>3. CASE EnqueueFails(q)
  <2>1. /\ hand[q] \in Files
        /\ hand' = [hand EXCEPT ![q] = NoFile]
        /\ reqPc' = [reqPc EXCEPT ![q] = "reading"]
        /\ UNCHANGED <<job, wPc, wJob, exits>>
    BY <1>3 DEF EnqueueFails
  <2>2. /\ \A f \in Files \ {hand[q]} : tmp'[f] = tmp[f]
        /\ \/ tmp'[hand[q]] = "gone"
           \/ tmp' = tmp /\ "temp" \in undone'[hand[q]]
        /\ \A f \in Files : undone[f] \subseteq undone'[f]
    BY <1>3, <2>1 DEF EnqueueFails, DropTemp, NoFault, Fault
  <2> QED
    BY <1>0, <2>1, <2>2
<1>4. ASSUME NEW g \in Files, RejectPart(q, g)
      PROVE  OwnerInv'
  <2>1. /\ UNCHANGED <<reqPc, hand, job, wPc, wJob, exits>> /\ tmp[g] = "unborn"
        /\ \A f \in Files \ {g} : tmp'[f] = tmp[f]
        /\ tmp'[g] = "gone" \/ "temp" \in undone'[g]
        /\ \A f \in Files : undone[f] \subseteq undone'[f]
    BY <1>4 DEF RejectPart, NextPart, NoFault, Fault
  <2> QED
    BY <1>0, <2>1
<1>5. ASSUME NEW g \in Files, SaveTemp(q, g)
      PROVE  OwnerInv'
  <2>1. /\ tmp[g] = "unborn" /\ hand[q] = NoFile
        /\ tmp' = [tmp EXCEPT ![g] = "present"]
        /\ hand' = [hand EXCEPT ![q] = g]
        /\ reqPc' = [reqPc EXCEPT ![q] = "enqueue"]
        /\ UNCHANGED <<job, wPc, wJob, exits, undone>>
    BY <1>5 DEF SaveTemp, NextPart
  <2> QED
    BY <1>0, <2>1
<1> QED
  BY <1>1, <1>2, <1>3, <1>4, <1>5 DEF Upload

\* The worker lets go of a job when the temporary file is gone or could not be
\* removed.
LEMMA OwnerWorker ==
  ASSUME IInv, OwnerInv, Worker
  PROVE  OwnerInv'
<1>0. \A f \in Files : undone[f] \subseteq undone'[f]
  BY UndoneGrows DEF IInv, Next
<1> USE DEF IInv, TypeInv, TypeOK, JobInHand, Busy, OwnerInv, TempFileHasOwner, requestVars,
            tempVars, jobVars, mainVars, WorkerStep
<1>1. CASE \/ WorkerWakes \/ WorkerStops \/ BatchEnds \/ OpenTemp \/ SaveFails
           \/ InsertPhoto \/ WritePhoto \/ CommitPhoto \/ CommitFails
  <2>1. /\ UNCHANGED <<reqPc, hand, tmp, job, wJob, exits>>
        /\ Busy => Busy'
        /\ wPc' # "unopened"
    BY <1>1 DEF WorkerWakes, WorkerStops, BatchEnds, OpenTemp, SaveFails, InsertPhoto,
                WritePhoto, CommitPhoto, CommitFails
  <2> QED
    BY <1>0, <2>1
<1>2. ASSUME NEW f \in Files, TakeJob(f)
      PROVE  OwnerInv'
  <2>1. /\ job[f] = "pending" /\ job' = [job EXCEPT ![f] = "processing"]
        /\ wJob' = f /\ wPc = "batch" /\ wPc' = "open"
        /\ UNCHANGED <<reqPc, hand, tmp, exits>>
    BY <1>2 DEF TakeJob, MarkProcessing, Pending
  <2> QED
    BY <1>0, <2>1
<1>3. CASE OpenFails
  <2>1. /\ wJob \in Files /\ wPc' = "unopened"
        /\ tmp[wJob] # "present" \/ "temp" \in undone'[wJob]
        /\ UNCHANGED <<reqPc, hand, tmp, job, wJob, exits>>
    BY <1>3 DEF OpenFails, Fault
  <2> QED
    BY <1>0, <2>1
<1>4. CASE FailUnopened
  <2>1. /\ wJob \in Files /\ wPc = "unopened" /\ wPc' = "batch"
        /\ \A f \in Files \ {wJob} : job'[f] = job[f]
        /\ UNCHANGED <<reqPc, hand, tmp, exits>>
    BY <1>4 DEF FailUnopened, SetStatus
  <2> QED
    BY <1>0, <2>1
<1>5. CASE RecordOutcome
  <2>1. /\ wJob \in Files /\ wJob' = wJob /\ wPc' = "remove"
        /\ \A f \in Files \ {wJob} : job'[f] = job[f]
        /\ UNCHANGED <<reqPc, hand, tmp, exits>>
    BY <1>5 DEF RecordOutcome, SetStatus
  <2> QED
    BY <1>0, <2>1
<1>6. CASE RemoveTemp
  <2>1. /\ wJob \in Files /\ wPc' = "batch"
        /\ \A f \in Files \ {wJob} : tmp'[f] = tmp[f]
        /\ tmp'[wJob] = "gone" \/ "temp" \in undone'[wJob]
        /\ UNCHANGED <<reqPc, hand, job, exits>>
    BY <1>6 DEF RemoveTemp, DropTemp, Fault
  <2> QED
    BY <1>0, <2>1
<1> QED
  BY <1>1, <1>2, <1>3, <1>4, <1>5, <1>6 DEF Worker

\* While the process runs and albums stay, only a temporary file that could not
\* be opened or removed is left to the janitor alone.
THEOREM TempFilesHaveOwners == Spec => []TempFileHasOwner
<1>1. Init => OwnerInv
  BY DEF Init, OwnerInv, TempFileHasOwner
<1>2. IInv /\ OwnerInv /\ [Next]_vars => OwnerInv'
  <2> SUFFICES ASSUME IInv, OwnerInv, [Next]_vars PROVE OwnerInv'
    OBVIOUS
  <2>0. \A f \in Files : undone[f] \subseteq undone'[f]
    BY UndoneGrows DEF IInv
  <2>00. wPc = "unopened" => wJob \in Files
    BY DEF IInv, TypeInv, JobInHand, Busy
  <2>1. CASE \/ UNCHANGED vars \/ Tick
             \/ Signal \/ ServerDrained \/ JanitorStopped \/ Restart
             \/ \E f \in Files : DeletePhoto(f)
    <3>1. UNCHANGED <<reqPc, hand, tmp, job, wPc, wJob, exits>>
      BY <2>1 DEF vars, Tick, Signal, ServerDrained, JanitorStopped, Restart, DeletePhoto,
                  FindPhoto, ErasePhoto, EraseFails, EraseFile, notMain, notUpload, notErase,
                  requestVars, tempVars, jobVars, workerVars, mainVars
    <3> QED
      BY <2>0, <2>00, <3>1 DEF OwnerInv, TempFileHasOwner, Busy
  <2>2. CASE Exit \/ ForcedExit \/ Crash
    <3>1. /\ hand' = [r \in Requests |-> NoFile] /\ exits' = exits + 1 /\ exits \in Nat
          /\ wPc' = "idle"
      BY <2>2, ConstantsAssumption
      DEF Exit, ForcedExit, Crash, ProcessEnds, IInv, TypeInv, TypeOK
    <3> QED
      BY <3>1 DEF OwnerInv, TempFileHasOwner
  <2>3. CASE Janitor
    <3>1. /\ UNCHANGED <<reqPc, hand, job, wPc, wJob, exits>>
          /\ \A f \in Files : tmp'[f] = "present" => tmp[f] = "present"
      BY <2>3 DEF Janitor, JanitorScans, JanitorRests, JanitorRemoves, notJanitor, requestVars,
                  tempVars, jobVars, workerVars, mainVars, IInv, TypeInv, TypeOK
    <3> QED
      BY <2>0, <2>00, <3>1 DEF OwnerInv, TempFileHasOwner, Busy
  <2>4. ASSUME NEW a \in Albums, DeleteAlbum(a) PROVE OwnerInv'
    <3>1. /\ UNCHANGED <<reqPc, hand, tmp, wPc, wJob, exits>>
          /\ \A f \in Files : job'[f] = job[f] \/ job'[f] = "deleted"
      BY <2>4 DEF DeleteAlbum, ListForDelete, RemovePhotoFile, DeleteAlbumRow, DeleteAlbumFails,
                  CascadeJobs, notDelete, requestVars, tempVars, jobVars, workerVars, mainVars
    <3> QED
      BY <2>0, <2>00, <3>1 DEF OwnerInv, TempFileHasOwner, Busy
  <2> QED
    BY <2>1, <2>2, <2>3, <2>4, OwnerUpload, OwnerWorker DEF Next, Main
<1>3. OwnerInv => TempFileHasOwner
  BY DEF OwnerInv
<1> QED
  BY <1>1, <1>2, <1>3, Invariance, PTL DEF Spec

-----------------------------------------------------------------------------
(* The status of a job.                                                    *)

\* Outside the worker, a status changes when a file in hand is enqueued and when
\* an album goes.
LEMMA StatusElsewhere ==
  ASSUME IInv, [Next]_vars, ~Worker, NEW f \in Files
  PROVE  \/ job'[f] = job[f]
         \/ job[f] = "none" /\ job'[f] = "pending"
         \/ job'[f] = "deleted" /\ AlbumOf[f] \notin albums'
<1> USE DEF IInv, TypeInv, TypeOK
<1>1. CASE UNCHANGED vars \/ Janitor \/ Main \/ Tick \/ \E g \in Files : DeletePhoto(g)
  BY <1>1 DEF DeletePhoto, FindPhoto, ErasePhoto, EraseFails, EraseFile, notErase,
              vars, Janitor, JanitorScans, JanitorRests, JanitorRemoves, Main, Signal,
              ServerDrained, JanitorStopped, Exit, ForcedExit, Crash, Restart, ProcessEnds,
              Tick, notJanitor, notMain, jobVars
<1>2. ASSUME NEW r \in Requests, Upload(r)
      PROVE  job'[f] = job[f] \/ (job[f] = "none" /\ job'[f] = "pending")
  <2>1. CASE Enqueue(r)
    <3>1. PICK g \in Files : g = hand[r] /\ job[g] = "none"
      BY <2>1 DEF Enqueue, HandInv
    <3>2. job' = [job EXCEPT ![g] = "pending"]
      BY <2>1, <3>1 DEF Enqueue
    <3> QED
      BY <3>1, <3>2
  <2>2. CASE ~Enqueue(r)
    <3>1. UNCHANGED jobVars
      BY <1>2, <2>2 DEF Upload, StartUpload, EnqueueFails, BodyBreaks, EndUpload, RejectPart,
                        SaveTemp
    <3> QED
      BY <3>1 DEF jobVars
  <2> QED
    BY <2>1, <2>2
<1>3. ASSUME NEW a \in Albums, DeleteAlbum(a)
      PROVE  job'[f] = job[f] \/ (job'[f] = "deleted" /\ AlbumOf[f] \notin albums')
  <2>1. CASE DeleteAlbumRow(a)
    BY <2>1 DEF DeleteAlbumRow, CascadeJobs
  <2>2. CASE ~DeleteAlbumRow(a)
    BY <1>3, <2>2 DEF DeleteAlbum, ListForDelete, RemovePhotoFile, DeleteAlbumFails, jobVars
  <2> QED
    BY <2>1, <2>2
<1> QED
  BY <1>1, <1>2, <1>3 DEF Next

\* The worker takes a pending job, and gives a job that it is processing, or
\* that is gone, its outcome.
LEMMA StatusWorker ==
  ASSUME IInv, Worker, NEW f \in Files
  PROVE  /\ job'[f] = job[f] \/ <<job[f], job'[f]>> \in Forward
         /\ job'[f] # job[f] => job[f] = "pending" \/ (Busy /\ wJob = f)
<1> USE DEF IInv, TypeInv, TypeOK, WorkerStep
<1>1. ASSUME NEW g \in Files, TakeJob(g)
      PROVE  /\ job'[f] = job[f] \/ <<job[f], job'[f]>> \in Forward
             /\ job'[f] # job[f] => job[f] = "pending"
  BY <1>1 DEF TakeJob, MarkProcessing, Pending, Forward
<1>2. CASE FailUnopened \/ RecordOutcome
  <2>1. /\ Busy /\ wJob \in Files /\ job[wJob] \in {"processing", "deleted"}
        /\ \/ job' = job
           \/ /\ job[wJob] # "deleted"
              /\ \E s \in {"completed", "failed"} : job' = [job EXCEPT ![wJob] = s]
    BY <1>2 DEF FailUnopened, RecordOutcome, SetStatus, WorkerInv, JobInHand, Busy
  <2> QED
    BY <2>1 DEF Forward
<1>3. CASE \/ WorkerWakes \/ WorkerStops \/ BatchEnds \/ OpenTemp \/ OpenFails
           \/ SaveFails \/ InsertPhoto \/ WritePhoto \/ CommitPhoto \/ CommitFails \/ RemoveTemp
  BY <1>3 DEF WorkerWakes, WorkerStops, BatchEnds, OpenTemp, OpenFails, SaveFails, InsertPhoto,
              WritePhoto, CommitPhoto, CommitFails, RemoveTemp, jobVars
<1>4. CASE \E g \in Files : TakeJob(g)
  BY <1>1, <1>4
<1> QED
  BY <1>2, <1>3, <1>4 DEF Worker

\* Statuses only move forward, and to "deleted" with the album.
THEOREM StatusesMoveForward == Spec => StatusMovesForward
<1>1. IInv /\ [Next]_vars =>
        \A f \in Files : \/ job'[f] = job[f]
                         \/ <<job[f], job'[f]>> \in Forward
                         \/ job'[f] = "deleted" /\ AlbumOf[f] \notin albums'
  BY StatusElsewhere, StatusWorker DEF Forward
<1> QED
  BY <1>1, Invariance, PTL DEF Spec, StatusMovesForward

\* Which job the worker has in hand changes when it takes a pending one.
LEMMA WorkerHolds ==
  ASSUME IInv, [Next]_vars, Busy'
  PROVE  \/ Busy /\ wJob' = wJob
         \/ \E g \in Pending : wJob' = g
<1> USE DEF Busy
<1>1. CASE Worker
  BY <1>1 DEF Worker, WorkerWakes, WorkerStops, BatchEnds, TakeJob, OpenTemp, OpenFails, FailUnopened,
              SaveFails, InsertPhoto, WritePhoto, CommitPhoto, CommitFails, RecordOutcome,
              RemoveTemp, WorkerStep
<1>2. CASE Main
  BY <1>2 DEF Main, Signal, ServerDrained, JanitorStopped, Exit, ForcedExit, Crash, Restart,
              ProcessEnds, notMain, workerVars
<1>3. CASE UNCHANGED vars \/ Janitor \/ Tick
  BY <1>3 DEF vars, Janitor, JanitorScans, JanitorRests, JanitorRemoves, Tick, notJanitor,
              notUpload, workerVars
<1>4. ASSUME NEW r \in Requests, Upload(r)
      PROVE  Busy /\ wJob' = wJob
  BY <1>4 DEF Upload, StartUpload, Enqueue, EnqueueFails, BodyBreaks, EndUpload, RejectPart,
              SaveTemp, notUpload, workerVars
<1>5. ASSUME NEW a \in Albums, DeleteAlbum(a)
      PROVE  Busy /\ wJob' = wJob
  BY <1>5 DEF DeleteAlbum, ListForDelete, RemovePhotoFile, DeleteAlbumRow, DeleteAlbumFails,
              notDelete, workerVars
<1>6. ASSUME NEW f \in Files, DeletePhoto(f)
      PROVE  Busy /\ wJob' = wJob
  BY <1>6 DEF DeletePhoto, FindPhoto, ErasePhoto, EraseFails, EraseFile, notErase, workerVars
<1> QED
  BY <1>1, <1>2, <1>3, <1>4, <1>5, <1>6 DEF Next

\* No process ever takes a stranded job up again.
THEOREM StrandedStayStranded == Spec => StrandedForGood
<1>1. IInv /\ [Next]_vars =>
        \A f \in StrandedJobs : f \in StrandedJobs' \/ job'[f] = "deleted"
  <2> SUFFICES ASSUME IInv, [Next]_vars, NEW f \in StrandedJobs,
                      job'[f] # "deleted"
               PROVE  f \in StrandedJobs'
    OBVIOUS
  <2>1. f \in Files /\ job[f] = "processing" /\ ~(Busy /\ wJob = f)
    BY DEF StrandedJobs
  <2>2. job'[f] = "processing"
    <3>1. CASE Worker
      BY <2>1, <3>1, StatusWorker
    <3>2. CASE ~Worker
      BY <2>1, <3>2, StatusElsewhere
    <3> QED
      BY <3>1, <3>2
  <2>3. ~(Busy' /\ wJob' = f)
    BY <2>1, WorkerHolds DEF Pending
  <2> QED
    BY <2>1, <2>2, <2>3 DEF StrandedJobs
<1> QED
  BY <1>1, Invariance, PTL DEF Spec, StrandedForGood

-----------------------------------------------------------------------------
(* Refinement of UploadLedger.                                             *)

\* Where jobs, rows and albums stay, the ledger stays.
LEMMA EntryFrame ==
  ASSUME UNCHANGED <<job, rows, erased, albums>>
  PROVE  UNCHANGED Ledger!vars
BY DEF entry, Ledger!vars

\* One entry moves when the status or the photo of one upload does.
LEMMA EntryMoves ==
  ASSUME NEW f \in Files, NEW to,
         \A g \in Files \ {f} : /\ job'[g] = job[g]
                               /\ rows'[g] = rows[g]
                               /\ (g \in erased') = (g \in erased),
         entry'[f] = to
  PROVE  entry' = [entry EXCEPT ![f] = to]
<1>1. \A g \in Files \ {f} : entry'[g] = entry[g]
  BY DEF entry
<1>2. /\ entry = [g \in Files |-> entry[g]]
      /\ entry' = [g \in Files |-> entry'[g]]
  BY DEF entry
<1> QED
  BY <1>1, <1>2

\* The steps of an upload handler are steps or stutters of the ledger:
\* enqueueing accepts.
LEMMA LedgerUpload ==
  ASSUME IInv, NEW q \in Requests, Upload(q)
  PROVE  [Ledger!Next]_(Ledger!vars)
<1> USE DEF jobVars, photoVars, deleteVars, eraseVars, notUpload
<1>1. CASE Enqueue(q)
  <2> DEFINE f == hand[q]
  <2>1. /\ f \in Files
        /\ job[f] = "none"
        /\ rows[f] = 0 /\ f \notin erased
        /\ AlbumOf[f] \in albums
    BY <1>1 DEF Enqueue, IInv, HandInv, JobInv
  <2>2. /\ job' = [job EXCEPT ![f] = "pending"]
        /\ UNCHANGED <<rows, erased, albums>>
    BY <1>1 DEF Enqueue
  <2>3. job \in [Files -> JobSt]
    BY DEF IInv, TypeInv, TypeOK
  <2>4. entry[f] = "absent" /\ entry'[f] = "accepted"
    BY <2>1, <2>2, <2>3 DEF entry
  <2>5. entry' = [entry EXCEPT ![f] = "accepted"]
    BY <2>1, <2>2, <2>3, <2>4, EntryMoves
  <2> QED
    BY <2>1, <2>2, <2>4, <2>5 DEF Ledger!Next, Ledger!Accept, Ledger!Move
<1>2. ASSUME NEW f \in Files, RejectPart(q, f) \/ SaveTemp(q, f)
      PROVE  UNCHANGED <<job, rows, erased, albums>>
  BY <1>2 DEF RejectPart, SaveTemp
<1>3. CASE ~Enqueue(q)
  BY <1>2, <1>3, EntryFrame
  DEF Upload, StartUpload, EnqueueFails, BodyBreaks, EndUpload
<1> QED
  BY <1>1, <1>3

\* Marking a job failed refuses the upload, unless its album is gone.
LEMMA LedgerRefuse ==
  ASSUME IInv, wPc \in {"unopened", "fail"}, SetStatus("failed"),
         UNCHANGED <<rows, erased, albums>>
  PROVE  [Ledger!Next]_(Ledger!vars)
<1>1. CASE job' = job
  BY <1>1, EntryFrame
<1>2. CASE job' # job
  <2>1. /\ wJob \in Files
        /\ job \in [Files -> JobSt]
        /\ job[wJob] = "processing"
        /\ rows[wJob] = 0 /\ wJob \notin erased
        /\ AlbumOf[wJob] \in albums
        /\ job' = [job EXCEPT ![wJob] = "failed"]
    BY <1>2 DEF IInv, TypeInv, TypeOK, JobInHand, Busy, JobInv, WorkerInv,
                SetStatus
  <2>2. entry[wJob] = "accepted" /\ entry'[wJob] = "refused"
    BY <2>1 DEF entry
  <2>3. entry' = [entry EXCEPT ![wJob] = "refused"]
    BY <2>1, <2>2, EntryMoves
  <2> QED
    BY <2>1, <2>2, <2>3 DEF Ledger!Next, Ledger!Refuse, Ledger!Move
<1> QED
  BY <1>1, <1>2

\* So are those of the worker: committing publishes, failing refuses.
LEMMA LedgerWorker ==
  ASSUME IInv, Worker
  PROVE  [Ledger!Next]_(Ledger!vars)
<1> USE DEF WorkerStep, jobVars, photoVars, deleteVars, eraseVars
<1>1. ASSUME NEW f \in Files, TakeJob(f)
      PROVE  UNCHANGED Ledger!vars
  <2>1. /\ job \in [Files -> JobSt]
        /\ job[f] = "pending"
        /\ job' = [job EXCEPT ![f] = "processing"]
        /\ UNCHANGED <<rows, erased, albums>>
    BY <1>1 DEF TakeJob, MarkProcessing, Pending, IInv, TypeInv, TypeOK
  <2>2. entry'[f] = entry[f]
    BY <2>1 DEF entry
  <2>3. entry' = [entry EXCEPT ![f] = entry[f]]
    BY <2>1, <2>2, EntryMoves
  <2> QED
    BY <2>1, <2>3 DEF entry, Ledger!vars
<1>2. CASE FailUnopened
  BY <1>2, LedgerRefuse DEF FailUnopened
<1>3. CASE CommitPhoto
  <2>1. /\ wJob \in Files
        /\ job[wJob] = "processing"
        /\ rows \in [Files -> Nat]
        /\ rows[wJob] = 0 /\ wJob \notin erased
        /\ AlbumOf[wJob] \in albums
        /\ rows' = [rows EXCEPT ![wJob] = rows[wJob] + 1]
        /\ UNCHANGED <<job, erased, albums>>
    BY <1>3 DEF CommitPhoto, IInv, TypeInv, TypeOK, JobInHand, Busy, JobInv,
                WorkerInv
  <2>2. entry[wJob] = "accepted" /\ entry'[wJob] = "published"
    BY <2>1 DEF entry
  <2>3. entry' = [entry EXCEPT ![wJob] = "published"]
    BY <2>1, <2>2, EntryMoves
  <2> QED
    BY <2>1, <2>2, <2>3 DEF Ledger!Next, Ledger!Publish, Ledger!Move
<1>4. CASE RecordOutcome /\ wPc = "fail"
  BY <1>4, LedgerRefuse DEF RecordOutcome
<1>5. CASE RecordOutcome /\ wPc = "complete"
  <2>1. CASE job' = job
    BY <1>5, <2>1, EntryFrame DEF RecordOutcome
  <2>2. CASE job' # job
    <3>1. /\ wJob \in Files
          /\ job \in [Files -> JobSt]
          /\ job[wJob] = "processing"
          /\ Published(wJob)
          /\ job' = [job EXCEPT ![wJob] = "completed"]
          /\ UNCHANGED <<rows, erased, albums>>
      BY <1>5, <2>2 DEF RecordOutcome, SetStatus, IInv, TypeInv, TypeOK,
                        JobInHand, Busy, WorkerInv
    <3>2. entry'[wJob] = entry[wJob]
      BY <3>1 DEF entry, Published
    <3>3. entry' = [entry EXCEPT ![wJob] = entry[wJob]]
      BY <3>1, <3>2, EntryMoves
    <3> QED
      BY <3>1, <3>3 DEF entry, Ledger!vars
  <2> QED
    BY <2>1, <2>2
<1>6. ASSUME WorkerWakes \/ WorkerStops \/ BatchEnds \/ OpenTemp \/ OpenFails
               \/ SaveFails \/ InsertPhoto \/ WritePhoto \/ CommitFails \/ RemoveTemp
      PROVE  UNCHANGED <<job, rows, erased, albums>>
  BY <1>6 DEF WorkerWakes, WorkerStops, BatchEnds, OpenTemp, OpenFails,
              SaveFails, InsertPhoto, WritePhoto, CommitFails, RemoveTemp
<1>7. RecordOutcome => wPc \in {"complete", "fail"}
  BY DEF RecordOutcome
<1> QED
  BY <1>1, <1>2, <1>3, <1>4, <1>5, <1>6, <1>7, EntryFrame DEF Worker

\* So are those of an album deletion: it withdraws.
LEMMA LedgerDelete ==
  ASSUME IInv, NEW a \in Albums, DeleteAlbum(a)
  PROVE  [Ledger!Next]_(Ledger!vars)
<1> USE DEF jobVars, photoVars, deleteVars, eraseVars, notDelete
<1>1. CASE DeleteAlbumRow(a)
  <2>1. /\ job \in [Files -> JobSt]
        /\ \A f \in Files : job[f] = "none" => rows[f] = 0
        /\ albums' = albums \ {a} /\ erased' = erased
        /\ rows' = [f \in Files |-> IF AlbumOf[f] = a THEN 0 ELSE rows[f]]
        /\ job' = [f \in Files |-> IF AlbumOf[f] = a /\ job[f] # "none"
                                     THEN "deleted" ELSE job[f]]
    BY <1>1 DEF DeleteAlbumRow, CascadeJobs, IInv, TypeInv, TypeOK, JobInv
  <2>2. \A f \in Files :
          /\ (entry[f] = "absent") <=> (job[f] = "none")
          /\ AlbumOf[f] = a /\ job[f] # "none" => entry'[f] = "withdrawn"
          /\ ~(AlbumOf[f] = a /\ job[f] # "none") => entry'[f] = entry[f]
    BY <2>1 DEF entry, JobSt
  <2>3. entry' = [f \in Files |-> IF AlbumOf[f] = a /\ entry[f] # "absent"
                                    THEN "withdrawn" ELSE entry[f]]
    BY <2>2 DEF entry
  <2> QED
    BY <2>1, <2>3 DEF Ledger!Next, Ledger!Withdraw
<1>2. ASSUME NEW f \in Files, RemovePhotoFile(a, f)
      PROVE  UNCHANGED <<job, rows, erased, albums>>
  BY <1>2 DEF RemovePhotoFile
<1>3. CASE ~DeleteAlbumRow(a)
  BY <1>2, <1>3, EntryFrame DEF DeleteAlbum, ListForDelete, DeleteAlbumFails
<1> QED
  BY <1>1, <1>3

\* So are those of a photo deletion: it erases a published one, once.
LEMMA LedgerErase ==
  ASSUME IInv, NEW f \in Files, DeletePhoto(f)
  PROVE  [Ledger!Next]_(Ledger!vars)
<1> USE DEF jobVars, photoVars, deleteVars, notErase
<1>1. CASE ErasePhoto(f)
  <2>1. /\ job \in [Files -> JobSt] /\ rows \in [Files -> Nat] /\ erased \subseteq Files
        /\ Published(f)
        /\ rows' = [rows EXCEPT ![f] = 0]
        /\ erased' = erased \cup {f}
        /\ UNCHANGED <<job, albums>>
    BY <1>1 DEF ErasePhoto, IInv, TypeInv, TypeOK, FaultInv
  <2>2. CASE rows[f] = 1
    <3>1. job[f] \in {"processing", "completed"} /\ AlbumOf[f] \in albums
      BY <2>1, <2>2 DEF IInv, JobInv, JobSt
    <3>2. entry[f] = "published" /\ entry'[f] = "erased"
      BY <2>1, <2>2, <3>1 DEF entry
    <3>3. entry' = [entry EXCEPT ![f] = "erased"]
      BY <2>1, <3>2, EntryMoves
    <3> QED
      BY <2>1, <3>1, <3>2, <3>3 DEF Ledger!Next, Ledger!Erase, Ledger!Move
  <2>3. CASE rows[f] # 1
    <3>1. rows[f] = 0
      BY <2>1, <2>3 DEF IInv, JobInv
    <3>2. entry'[f] = entry[f]
      BY <2>1, <3>1 DEF entry, Published
    <3>3. entry' = [entry EXCEPT ![f] = entry[f]]
      BY <2>1, <3>2, EntryMoves
    <3> QED
      BY <2>1, <3>3 DEF entry, Ledger!vars
  <2> QED
    BY <2>2, <2>3
<1>2. CASE FindPhoto(f) \/ EraseFails(f) \/ EraseFile(f)
  BY <1>2, EntryFrame DEF FindPhoto, EraseFails, EraseFile
<1> QED
  BY <1>1, <1>2 DEF DeletePhoto

\* Nothing else touches the ledger.
LEMMA LedgerRest ==
  ASSUME Janitor \/ Main \/ Tick \/ UNCHANGED vars
  PROVE  UNCHANGED Ledger!vars
<1>1. UNCHANGED <<job, rows, erased, albums>>
  BY DEF Janitor, JanitorScans, JanitorRests, JanitorRemoves, Main, Signal,
         ServerDrained, JanitorStopped, Exit, ForcedExit, Crash, ProcessEnds,
         Restart, Tick, vars, notJanitor, notMain, notUpload, jobVars,
         photoVars, deleteVars, eraseVars
<1> QED
  BY <1>1, EntryFrame

\* The handlers, the worker, the janitor, the deletions and every failing call,
\* crash and restart together do what the ledger says: an accepted upload is
\* published once or refused, for good; a published one is erased by the admin's
\* request only, and all are withdrawn with their album.
THEOREM Refinement == Spec => ImplementsLedger
<1>1. Init => Ledger!Init
  BY DEF Init, Ledger!Init, entry
<1>2. IInv /\ [Next]_vars => [Ledger!Next]_(Ledger!vars)
  BY LedgerUpload, LedgerWorker, LedgerDelete, LedgerErase, LedgerRest DEF Next
<1> QED
  BY <1>1, <1>2, Invariance, PTL DEF Spec, ImplementsLedger, Ledger!Spec

=============================================================================
