----------------------------- MODULE UploadQueue -----------------------------
(***************************************************************************)
(* The life of an uploaded file: the multipart handler that stores it in   *)
(* the temporary directory and enqueues a job, the background worker that  *)
(* turns the job into a photo (row and file), the janitor that sweeps old  *)
(* temporary files, the admin deleting a photo or an album under all of    *)
(* them, and the process being stopped by a signal or killed at any point. *)
(*                                                                         *)
(* An upload is named by the member of Files it carries: its temporary     *)
(* file, its row in processing_queue and the photo made from it share that *)
(* name.  All SQL goes through one connection (internal/db/db.go:39), so   *)
(* a statement is one step, and while the transaction of                   *)
(* SaveProcessedImage is open no other statement runs (see DbFree).        *)
(*                                                                         *)
(* Any call may fail.  Where the code goes on and leaves something undone  *)
(* (an UPDATE whose error is logged, an os.Remove whose error is ignored), *)
(* the failure is counted and remembered for the properties: see Fault.    *)
(*                                                                         *)
(* Covers, rotations and the janitor's sweep of photos whose album is gone *)
(* are in PhotoLibrary; none of them touches a job, a temporary file or a  *)
(* row of an album that is there.                                          *)
(***************************************************************************)
EXTENDS Naturals, FiniteSets

CONSTANTS
  Albums,      \* the albums that exist when the system starts
  Deletable,   \* the albums the admin may delete
  Erasable,    \* the files whose photo the admin may delete by itself
  Requests,    \* handlers of POST /admin/albums/{id}/photos running at a time
  Files,       \* the parts named "photos" that are ever uploaded
  NoFile,      \* no file in hand
  AlbumOf,     \* the album a file is uploaded to
  TargetOf,    \* the album in the URL of a request
  TempMaxAge,  \* ticks after which a temporary file is old (15 minutes)
  ListLimit,   \* the LIMIT of DeleteAlbum's listing (1000)
  MaxExits,    \* bound: how often the process ends, by signal or by crash
  MaxFaults    \* bound: how many calls fail and leave something undone

ASSUME ConstantsAssumption ==
  /\ Deletable \subseteq Albums
  /\ Erasable \subseteq Files
  /\ NoFile \notin Files
  /\ AlbumOf \in [Files -> Albums]
  /\ TargetOf \in [Requests -> Albums]
  /\ TempMaxAge \in Nat \ {0}
  /\ ListLimit \in Nat
  /\ MaxExits \in Nat
  /\ MaxFaults \in Nat

VARIABLES
  albums,   \* rows of the table albums
  reqPc,    \* per request: where its handler stands
  hand,     \* per request: the temporary file written and not yet enqueued
  queued,   \* per request: filesQueued > 0, in a handler that is running
  trigger,  \* the worker's trigger channel holds its one signal
  tmp,      \* per file: its upload-*.tmp in the temporary directory
  tmpAge,   \* per file: ticks since the temporary file was written
  job,      \* per file: the status column of its processing_queue row
  jobAge,   \* per file: ticks since that row was created
  rows,     \* per file: committed rows of photos made from it
  disk,     \* files whose photo file is in the storage directory
  wPc,      \* where the worker goroutine stands
  wJob,     \* the job it holds
  janPc,    \* where the janitor goroutine stands
  scan,     \* temporary files its current sweep found old
  delPc,    \* per album: where a DELETE /admin/albums/{id} handler stands
  doomed,   \* per album: listed photos whose files are still to be removed
  erase,    \* per file: where a DELETE /admin/photos/{id} handler stands
  mainPc,   \* where main() stands, "down" between two processes
  exits,    \* how often the process has ended
  faults,   \* how many calls have failed and left something undone
  undone,   \* history, per file: what such calls left undone
  erased,   \* history: files whose photo was deleted by itself
  aborted   \* history: albums whose deletion went no further than the files

requestVars == <<reqPc, hand, queued>>
tempVars    == <<tmp, tmpAge>>
jobVars     == <<job, jobAge>>
photoVars   == <<rows, disk>>
workerVars  == <<wPc, wJob, trigger>>
janitorVars == <<janPc, scan>>
deleteVars  == <<albums, delPc, doomed, aborted>>
eraseVars   == <<erase, erased>>
mainVars    == <<mainPc, exits>>
faultVars   == <<faults, undone>>

\* What the handlers of uploads, the janitor, the two deletions and main()
\* leave alone.
notUpload  == <<photoVars, workerVars, janitorVars, deleteVars, eraseVars, mainVars>>
notJanitor == <<requestVars, jobVars, photoVars, workerVars, deleteVars, eraseVars,
                mainVars>>
notDelete  == <<requestVars, tempVars, workerVars, janitorVars, eraseVars, mainVars>>
notErase   == <<requestVars, tempVars, jobVars, workerVars, janitorVars, deleteVars,
                mainVars>>
notMain    == <<requestVars, tempVars, jobVars, photoVars, workerVars, deleteVars,
                eraseVars, faultVars>>

vars == <<requestVars, tempVars, jobVars, photoVars, workerVars, janitorVars,
          deleteVars, eraseVars, mainVars, faultVars>>

-----------------------------------------------------------------------------

ReqPc   == {"idle", "reading", "enqueue", "spinning"}
TmpSt   == {"unborn", "present", "gone"}
JobSt   == {"none", "pending", "processing", "completed", "failed", "deleted"}
WPc     == {"idle", "batch", "open", "unopened", "work", "inserted", "renamed",
            "complete", "fail", "remove", "stopped"}
JanPc   == {"due", "cleaning", "idle", "stopped"}
DelPc   == {"none", "listed"}
ErasePc == {"none", "found", "removed"}
Undone  == {"status", "photo", "temp"}
MainPc  == {"serving", "draining", "stopping", "cancelled", "down"}

Alive     == mainPc # "down"
Cancelled == mainPc = "cancelled"   \* the context given to worker and janitor

\* The single connection is free: the worker's transaction is not open.
DbFree == Alive /\ wPc \notin {"inserted", "renamed"}

Old(f) == tmpAge[f] >= TempMaxAge

Pending  == {f \in Files : job[f] = "pending"}

PhotosOf(a) == {f \in Files : AlbumOf[f] = a /\ rows[f] > 0}

TypeOK ==
  /\ albums \subseteq Albums
  /\ reqPc \in [Requests -> ReqPc]
  /\ hand \in [Requests -> Files \cup {NoFile}]
  /\ queued \in [Requests -> BOOLEAN]
  /\ trigger \in BOOLEAN
  /\ tmp \in [Files -> TmpSt]
  /\ tmpAge \in [Files -> 0..TempMaxAge]
  /\ job \in [Files -> JobSt]
  /\ jobAge \in [Files -> 0..TempMaxAge]
  /\ rows \in [Files -> Nat]
  /\ disk \subseteq Files
  /\ wPc \in WPc
  /\ wJob \in Files \cup {NoFile}
  /\ janPc \in JanPc
  /\ scan \subseteq Files
  /\ delPc \in [Albums -> DelPc]
  /\ doomed \in [Albums -> SUBSET Files]
  /\ mainPc \in MainPc
  /\ erase \in [Files -> ErasePc]
  /\ exits \in 0..MaxExits
  /\ faults \in 0..MaxFaults
  /\ undone \in [Files -> SUBSET Undone]
  /\ erased \subseteq Files
  /\ aborted \subseteq Albums

Init ==
  /\ albums = Albums
  /\ reqPc = [r \in Requests |-> "idle"]
  /\ hand = [r \in Requests |-> NoFile]
  /\ queued = [r \in Requests |-> FALSE]
  /\ trigger = FALSE
  /\ tmp = [f \in Files |-> "unborn"]
  /\ tmpAge = [f \in Files |-> 0]
  /\ job = [f \in Files |-> "none"]
  /\ jobAge = [f \in Files |-> 0]
  /\ rows = [f \in Files |-> 0]
  /\ disk = {}
  /\ wPc = "idle"
  /\ wJob = NoFile
  /\ janPc = "due"
  /\ scan = {}
  /\ delPc = [a \in Albums |-> "none"]
  /\ doomed = [a \in Albums |-> {}]
  /\ mainPc = "serving"
  /\ erase = [f \in Files |-> "none"]
  /\ exits = 0
  /\ faults = 0
  /\ undone = [f \in Files |-> {}]
  /\ erased = {}
  /\ aborted = {}

-----------------------------------------------------------------------------
(* Failing calls.                                                          *)

\* A call fails and its caller goes on: what it was to do for f stays undone.
Fault(f, what) ==
  /\ faults < MaxFaults
  /\ faults' = faults + 1
  /\ undone' = [undone EXCEPT ![f] = @ \cup {what}]

\* A call fails that will be made again: nothing stays undone.
Hiccup ==
  /\ faults < MaxFaults
  /\ faults' = faults + 1
  /\ UNCHANGED undone

NoFault == UNCHANGED faultVars

\* os.Remove of a temporary file and of a photo's file; errors are ignored.
DropTemp(f) ==
  \/ /\ tmp' = [tmp EXCEPT ![f] = "gone"]
     /\ tmpAge' = [tmpAge EXCEPT ![f] = 0]
     /\ NoFault
  \/ tmp[f] = "present" /\ UNCHANGED tempVars /\ Fault(f, "temp")

DropPhoto(f) ==
  \/ disk' = disk \ {f} /\ NoFault
  \/ f \in disk /\ UNCHANGED disk /\ Fault(f, "photo")

-----------------------------------------------------------------------------
(* AdminUploadPhotos.                                                      *)

StartUpload(r) ==
  /\ mainPc = "serving"
  /\ reqPc[r] = "idle"
  /\ reqPc' = [reqPc EXCEPT ![r] = "reading"]
  /\ UNCHANGED <<hand, queued, tempVars, jobVars, faultVars, notUpload>>

NextPart(r, f) ==
  Alive /\ reqPc[r] = "reading" /\ tmp[f] = "unborn" /\ AlbumOf[f] = TargetOf[r]

\* A part that is not enqueued: CreateTemp or the copy failed, or it exceeds
\* the 25 MB limit.  Its temporary file, if any, is removed again.
RejectPart(r, f) ==
  /\ NextPart(r, f)
  /\ \/ tmp' = [tmp EXCEPT ![f] = "gone"] /\ NoFault
     \/ tmp' = [tmp EXCEPT ![f] = "present"] /\ Fault(f, "temp")
  /\ UNCHANGED <<requestVars, tmpAge, jobVars, notUpload>>

SaveTemp(r, f) ==
  /\ NextPart(r, f)
  /\ tmp' = [tmp EXCEPT ![f] = "present"]
  /\ hand' = [hand EXCEPT ![r] = f]
  /\ reqPc' = [reqPc EXCEPT ![r] = "enqueue"]
  /\ UNCHANGED <<queued, tmpAge, jobVars, faultVars, notUpload>>

\* EnqueueJob: an INSERT whose foreign key needs the album.
Enqueue(r) ==
  LET f == hand[r] IN
  /\ DbFree
  /\ reqPc[r] = "enqueue"
  /\ TargetOf[r] \in albums
  /\ job' = [job EXCEPT ![f] = "pending"]
  /\ queued' = [queued EXCEPT ![r] = TRUE]
  /\ hand' = [hand EXCEPT ![r] = NoFile]
  /\ reqPc' = [reqPc EXCEPT ![r] = "reading"]
  /\ UNCHANGED <<tempVars, jobAge, faultVars, notUpload>>

\* The album is gone (its foreign key), or any other database error.
EnqueueFails(r) ==
  /\ Alive
  /\ reqPc[r] = "enqueue"
  /\ DropTemp(hand[r])
  /\ hand' = [hand EXCEPT ![r] = NoFile]
  /\ reqPc' = [reqPc EXCEPT ![r] = "reading"]
  /\ UNCHANGED <<queued, jobVars, notUpload>>

\* NextPart returned an error that is not io.EOF (the client stalled or went
\* away, or the body is malformed).  The error is sticky and the loop
\* continues on it, so the handler never leaves this state.
BodyBreaks(r) ==
  /\ Alive
  /\ reqPc[r] = "reading"
  /\ reqPc' = [reqPc EXCEPT ![r] = "spinning"]
  /\ UNCHANGED <<hand, queued, tempVars, jobVars, faultVars, notUpload>>

\* handler.New takes the worker and never stores it, so h.worker is nil.
HandlerHasWorker == FALSE

EndUpload(r) ==
  /\ Alive
  /\ reqPc[r] = "reading"
  /\ reqPc' = [reqPc EXCEPT ![r] = "idle"]
  /\ trigger' = (trigger \/ (HandlerHasWorker /\ queued[r]))
  /\ queued' = [queued EXCEPT ![r] = FALSE]
  /\ UNCHANGED <<hand, tempVars, jobVars, photoVars, wPc, wJob,
                 janitorVars, deleteVars, eraseVars, mainVars, faultVars>>

-----------------------------------------------------------------------------
(* The worker: Start's loop, processBatch, processNextJob.                  *)

\* The worker goes from one place of its code to another and leaves alone
\* what belongs to the other goroutines.
WorkerStep(from, to) ==
  /\ Alive
  /\ wPc \in from
  /\ wPc' = to
  /\ UNCHANGED <<requestVars, janitorVars, deleteVars, eraseVars, mainVars>>

\* The select of Start's loop: the 2 s ticker leaves the trigger as it is,
\* the trigger branch consumes it.
WorkerWakes ==
  /\ WorkerStep({"idle"}, "batch")
  /\ trigger' \in {trigger, FALSE}
  /\ UNCHANGED <<tempVars, jobVars, photoVars, wJob, faultVars>>

\* ctx.Done() in the select, or ctx.Err() in processBatch.
WorkerStops ==
  /\ Cancelled
  /\ WorkerStep({"idle", "batch"}, "stopped")
  /\ UNCHANGED <<tempVars, jobVars, photoVars, wJob, trigger, faultVars>>

\* Mutant of MarkProcessing: a SELECT that leaves the row pending.
LeavePending(f) == job' = job

\* SET status = 'processing', in the statement that picks the row.
MarkProcessing(f) == job' = [job EXCEPT ![f] = "processing"]

\* GetNextPendingJob: the oldest created_at.  Rows of equal (or equally
\* saturated) age tie; the age is read only while the row is pending.
TakeJob(f) ==
  /\ ~Cancelled
  /\ WorkerStep({"batch"}, "open")
  /\ f \in Pending
  /\ \A g \in Pending : jobAge[g] <= jobAge[f]
  /\ MarkProcessing(f)
  /\ jobAge' = [jobAge EXCEPT ![f] = 0]
  /\ wJob' = f
  /\ UNCHANGED <<tempVars, photoVars, trigger, faultVars>>

\* Mutant of QueueEmpty: processNextJob always reports that it did no work.
QueueIgnored == TRUE

\* sql.ErrNoRows, or the error of a cancelled context.
QueueEmpty == Pending = {} \/ Cancelled

\* Any other error of GetNextPendingJob ends the batch like an empty queue.
BatchEnds ==
  /\ WorkerStep({"batch"}, "idle")
  /\ (QueueEmpty /\ NoFault) \/ Hiccup
  /\ UNCHANGED <<tempVars, jobVars, photoVars, wJob, trigger>>

\* Mutants of SetStatus: failJob is forgotten; a status the schema does not
\* list.
SetStatusUnlessFailed(status) ==
  /\ job' = IF Cancelled \/ job[wJob] = "deleted" \/ status = "failed"
              THEN job
              ELSE [job EXCEPT ![wJob] = status]
  /\ NoFault

SetStatusUnlisted(status) == job' = [job EXCEPT ![wJob] = "error"] /\ NoFault

\* A statement of failJob or completeJob: an UPDATE by id, which does nothing
\* when the row is gone.  Its error, certain on a cancelled context, is logged.
SetStatus(status) ==
  \/ /\ job' = IF Cancelled \/ job[wJob] = "deleted"
                 THEN job
                 ELSE [job EXCEPT ![wJob] = status]
     /\ NoFault
  \/ ~Cancelled /\ UNCHANGED job /\ Fault(wJob, "status")

\* os.Open, which also fixes the file for the rest of the job: removing its
\* name later does not take the open handle away.
OpenTemp ==
  /\ WorkerStep({"open"}, "work")
  /\ tmp[wJob] = "present"
  /\ UNCHANGED <<tempVars, jobVars, photoVars, wJob, trigger, faultVars>>

\* The file is gone, or cannot be opened and stays: nothing is set up to
\* remove it yet.
OpenFails ==
  /\ WorkerStep({"open"}, "unopened")
  /\ \/ tmp[wJob] # "present" /\ NoFault
     \/ tmp[wJob] = "present" /\ Fault(wJob, "temp")
  /\ UNCHANGED <<tempVars, jobVars, photoVars, wJob, trigger>>

\* failJob for it, and back to the queue.
FailUnopened ==
  /\ WorkerStep({"unopened"}, "batch")
  /\ SetStatus("failed")
  /\ wJob' = NoFile
  /\ UNCHANGED <<tempVars, jobAge, photoVars, trigger>>

\* Any error up to AtomicWrite: decoding, encoding, BeginTx, CreatePhoto (its
\* foreign key needs the album), the write.  The transaction is rolled back.
SaveFails ==
  /\ WorkerStep({"work", "inserted"}, "fail")
  /\ UNCHANGED <<tempVars, jobVars, photoVars, wJob, trigger, faultVars>>

\* Mutant of AlbumExists: a connection without the PRAGMA.
AlbumUnchecked(f) == TRUE

\* The foreign key of photos, enforced by PRAGMA foreign_keys = ON.
AlbumExists(f) == AlbumOf[f] \in albums

\* BeginTx and CreatePhoto: from here to the end of the transaction the
\* worker holds the connection.
InsertPhoto ==
  /\ ~Cancelled
  /\ WorkerStep({"work"}, "inserted")
  /\ AlbumExists(wJob)
  /\ UNCHANGED <<tempVars, jobVars, photoVars, wJob, trigger, faultVars>>

\* AtomicWrite: the rename that puts the photo file in place.
WritePhoto ==
  /\ WorkerStep({"inserted"}, "renamed")
  /\ disk' = disk \cup {wJob}
  /\ UNCHANGED <<tempVars, jobVars, rows, wJob, trigger, faultVars>>

CommitPhoto ==
  /\ ~Cancelled
  /\ WorkerStep({"renamed"}, "complete")
  /\ rows' = [rows EXCEPT ![wJob] = @ + 1]
  /\ UNCHANGED <<tempVars, jobVars, disk, wJob, trigger, faultVars>>

\* Mutant of UndoWrite: the file written before the commit is kept.
KeepWrite == UNCHANGED <<disk, faultVars>>

\* os.Remove(path) after an error of Commit.
UndoWrite == DropPhoto(wJob)

CommitFails ==
  /\ WorkerStep({"renamed"}, "fail")
  /\ UndoWrite
  /\ UNCHANGED <<tempVars, jobVars, rows, wJob, trigger>>

\* completeJob or failJob after ProcessAndSaveWithFormat.
RecordOutcome ==
  /\ \/ wPc = "complete" /\ SetStatus("completed")
     \/ wPc = "fail" /\ SetStatus("failed")
  /\ WorkerStep({"complete", "fail"}, "remove")
  /\ UNCHANGED <<tempVars, jobAge, photoVars, wJob, trigger>>

\* The deferred Close and Remove of processNextJob.
RemoveTemp ==
  /\ WorkerStep({"remove"}, "batch")
  /\ DropTemp(wJob)
  /\ wJob' = NoFile
  /\ UNCHANGED <<jobVars, photoVars, trigger>>

Worker ==
  \/ WorkerWakes \/ WorkerStops \/ BatchEnds
  \/ \E f \in Files : TakeJob(f)
  \/ OpenTemp \/ OpenFails \/ FailUnopened
  \/ SaveFails \/ InsertPhoto \/ WritePhoto \/ CommitPhoto \/ CommitFails
  \/ RecordOutcome \/ RemoveTemp

-----------------------------------------------------------------------------
(* The janitor's sweep of the temporary directory.                         *)

\* Mutants of OldTemps: no look at the age; the comparison the wrong way round.
AllTemps   == {f \in Files : tmp[f] = "present"}
YoungTemps == {f \in Files : tmp[f] = "present" /\ ~Old(f)}

\* CleanOrphanedTempFiles: upload-*.tmp with a ModTime before the cutoff.
OldTemps == {f \in Files : tmp[f] = "present" /\ Old(f)}

JanitorScans ==
  /\ Alive
  /\ janPc \in {"due", "idle"}
  /\ janPc' = "cleaning"
  /\ scan' = OldTemps
  /\ UNCHANGED <<tempVars, faultVars, notJanitor>>

\* A file that cannot be removed is left to the next sweep.
JanitorRemoves(f) ==
  /\ Alive
  /\ janPc = "cleaning"
  /\ f \in scan
  /\ scan' = scan \ {f}
  /\ \/ tmp' = [tmp EXCEPT ![f] = "gone"] /\ NoFault
     \/ tmp[f] = "present" /\ UNCHANGED tmp /\ Hiccup
  /\ UNCHANGED <<tmpAge, janPc, notJanitor>>

JanitorRests ==
  /\ Alive
  /\ janPc = "cleaning"
  /\ scan = {}
  /\ janPc' = "idle"
  /\ UNCHANGED <<tempVars, scan, faultVars, notJanitor>>

Janitor == JanitorScans \/ JanitorRests \/ \E f \in Files : JanitorRemoves(f)

-----------------------------------------------------------------------------
(* DeleteAlbum: list, remove the files, delete the row.                    *)

\* The first ListLimit photos of the listing, in an order left open.
ListForDelete(a) ==
  /\ mainPc = "serving" /\ DbFree
  /\ a \in Deletable
  /\ delPc[a] = "none"
  /\ \E s \in SUBSET PhotosOf(a) :
       /\ \/ s = PhotosOf(a) /\ Cardinality(s) <= ListLimit
          \/ s # PhotosOf(a) /\ Cardinality(s) = ListLimit
       /\ doomed' = [doomed EXCEPT ![a] = s]
  /\ delPc' = [delPc EXCEPT ![a] = "listed"]
  /\ UNCHANGED <<albums, aborted, jobVars, photoVars, faultVars, notDelete>>

RemovePhotoFile(a, f) ==
  /\ Alive
  /\ delPc[a] = "listed"
  /\ f \in doomed[a]
  /\ DropPhoto(f)
  /\ doomed' = [doomed EXCEPT ![a] = @ \ {f}]
  /\ UNCHANGED <<albums, delPc, aborted, jobVars, rows, notDelete>>

\* Mutant of CascadeJobs: processing_queue without ON DELETE CASCADE.
KeepJobs(a) == job' = job

CascadeJobs(a) ==
  job' = [f \in Files |-> IF AlbumOf[f] = a /\ job[f] # "none"
                            THEN "deleted" ELSE job[f]]

\* DELETE FROM albums, which cascades to photos and to processing_queue.
DeleteAlbumRow(a) ==
  /\ DbFree
  /\ delPc[a] = "listed" /\ doomed[a] = {}
  /\ albums' = albums \ {a}
  /\ rows' = [f \in Files |-> IF AlbumOf[f] = a THEN 0 ELSE rows[f]]
  /\ CascadeJobs(a)
  /\ delPc' = [delPc EXCEPT ![a] = "none"]
  /\ UNCHANGED <<doomed, aborted, jobAge, disk, faultVars, notDelete>>

\* The statement fails, for one because the client went away and its context
\* was cancelled: the files are gone and the rows stay.
DeleteAlbumFails(a) ==
  /\ Alive
  /\ delPc[a] = "listed" /\ doomed[a] = {}
  /\ delPc' = [delPc EXCEPT ![a] = "none"]
  /\ aborted' = aborted \cup {a}
  /\ UNCHANGED <<albums, doomed, jobVars, photoVars, faultVars, notDelete>>

DeleteAlbum(a) ==
  \/ ListForDelete(a) \/ DeleteAlbumRow(a) \/ DeleteAlbumFails(a)
  \/ \E f \in Files : RemovePhotoFile(a, f)

-----------------------------------------------------------------------------
(* DeletePhoto: look the photo up, delete its row, remove its file.  One    *)
(* request per photo at a time.                                             *)

FindPhoto(f) ==
  /\ mainPc = "serving" /\ DbFree
  /\ f \in Erasable
  /\ erase[f] = "none"
  /\ rows[f] > 0
  /\ erase' = [erase EXCEPT ![f] = "found"]
  /\ UNCHANGED <<erased, photoVars, faultVars, notErase>>

\* Mutant of ErasePhoto: an error of the DELETE is only logged.
EraseAnyway(f) ==
  /\ DbFree
  /\ erase[f] = "found"
  /\ rows' \in {rows, [rows EXCEPT ![f] = 0]}
  /\ erased' = {g \in erased \cup {f} : rows'[g] = 0}
  /\ erase' = [erase EXCEPT ![f] = "removed"]
  /\ UNCHANGED <<disk, faultVars, notErase>>

\* DELETE FROM photos; the job keeps its status.  No error if the photo has
\* gone with its album meanwhile.
ErasePhoto(f) ==
  /\ DbFree
  /\ erase[f] = "found"
  /\ rows' = [rows EXCEPT ![f] = 0]
  /\ erased' = erased \cup {f}
  /\ erase' = [erase EXCEPT ![f] = "removed"]
  /\ UNCHANGED <<disk, faultVars, notErase>>

\* The DELETE fails: the handler answers 500 and nothing has changed.
EraseFails(f) ==
  /\ Alive
  /\ erase[f] = "found"
  /\ erase' = [erase EXCEPT ![f] = "none"]
  /\ UNCHANGED <<erased, photoVars, faultVars, notErase>>

EraseFile(f) ==
  /\ Alive
  /\ erase[f] = "removed"
  /\ DropPhoto(f)
  /\ erase' = [erase EXCEPT ![f] = "none"]
  /\ UNCHANGED <<erased, rows, notErase>>

DeletePhoto(f) == FindPhoto(f) \/ ErasePhoto(f) \/ EraseFails(f) \/ EraseFile(f)

-----------------------------------------------------------------------------
(* main(): a signal drains the server for up to 30 s; then the deferred     *)
(* calls stop the janitor, cancel the context and close the database.       *)

Signal ==
  /\ mainPc = "serving"
  /\ exits < MaxExits
  /\ mainPc' = "draining"
  /\ UNCHANGED <<janitorVars, exits, notMain>>

HandlersDone ==
  /\ \A r \in Requests : reqPc[r] = "idle"
  /\ \A a \in Albums : delPc[a] = "none"
  /\ \A f \in Files : erase[f] = "none"

\* srv.Shutdown returns once no handler is running.
ServerDrained ==
  /\ mainPc = "draining"
  /\ HandlersDone
  /\ mainPc' = "stopping"
  /\ UNCHANGED <<janitorVars, exits, notMain>>

\* jan.Stop waits for the sweep under way, then cancel() runs.  Nothing calls
\* bgWorker.Stop.
JanitorStopped ==
  /\ mainPc = "stopping"
  /\ janPc = "idle"
  /\ janPc' = "stopped"
  /\ mainPc' = "cancelled"
  /\ UNCHANGED <<scan, exits, notMain>>

\* The process is gone: goroutines, channels and an open transaction with it.
ProcessEnds ==
  /\ mainPc' = "down"
  /\ exits' = exits + 1
  /\ reqPc' = [r \in Requests |-> "idle"]
  /\ hand' = [r \in Requests |-> NoFile]
  /\ queued' = [r \in Requests |-> FALSE]
  /\ trigger' = FALSE
  /\ wPc' = "idle"
  /\ wJob' = NoFile
  /\ janPc' = "due"
  /\ scan' = {}
  /\ delPc' = [a \in Albums |-> "none"]
  /\ doomed' = [a \in Albums |-> {}]
  /\ aborted' = aborted \cup {a \in Albums : delPc[a] = "listed"}
  /\ erase' = [f \in Files |-> "none"]
  /\ UNCHANGED <<albums, erased, tempVars, jobVars, photoVars, faultVars>>

\* main returns after database.Close.
Exit == mainPc = "cancelled" /\ ProcessEnds

\* Shutdown's 30 s are over: log.Fatalf, without the deferred calls.
ForcedExit == mainPc = "draining" /\ ~HandlersDone /\ ProcessEnds

Crash == Alive /\ (mainPc = "serving" => exits < MaxExits) /\ ProcessEnds

\* A new process.  NewWorker and janitor.New start from nothing: no job is
\* taken back from "processing".
Restart ==
  /\ mainPc = "down"
  /\ mainPc' = "serving"
  /\ UNCHANGED <<janitorVars, exits, notMain>>

\* Time passes, whether or not the process is up.  Ages stop at TempMaxAge.
Tick ==
  /\ tmpAge' = [f \in Files |->
                  IF tmp[f] = "present" /\ ~Old(f) THEN tmpAge[f] + 1
                                                   ELSE tmpAge[f]]
  /\ jobAge' = [f \in Files |->
                  IF f \in Pending /\ jobAge[f] < TempMaxAge THEN jobAge[f] + 1
                                                             ELSE jobAge[f]]
  /\ UNCHANGED <<requestVars, tmp, job, faultVars, notUpload>>

Main == Signal \/ ServerDrained \/ JanitorStopped \/ Exit \/ ForcedExit
          \/ Crash \/ Restart

Upload(r) ==
  \/ StartUpload(r) \/ Enqueue(r) \/ EnqueueFails(r) \/ BodyBreaks(r)
  \/ EndUpload(r)
  \/ \E f \in Files : RejectPart(r, f) \/ SaveTemp(r, f)

Next ==
  \/ \E r \in Requests : Upload(r)
  \/ Worker
  \/ Janitor
  \/ \E a \in Albums : DeleteAlbum(a)
  \/ \E f \in Files : DeletePhoto(f)
  \/ Main
  \/ Tick

Spec == Init /\ [][Next]_vars

\* The worker and janitor goroutines run while the process does, the 2 s and
\* the 6 h ticker fire, a stopping process ends, an ended one is restarted
\* (systemd, Docker), and time passes.
Fairness ==
  /\ WF_vars(Worker)
  /\ WF_vars(Janitor)
  /\ WF_vars(ServerDrained \/ JanitorStopped \/ Exit \/ ForcedExit \/ Restart)
  /\ WF_vars(Tick)

FairSpec == Spec /\ Fairness

=============================================================================
