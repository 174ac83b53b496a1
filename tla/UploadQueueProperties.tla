------------------------ MODULE UploadQueueProperties ------------------------
(* What the upload queue promises.                                         *)
EXTENDS UploadQueue

-----------------------------------------------------------------------------
(* Safety.                                                                 *)

\* The worker is in the middle of wJob.
Busy == wPc \notin {"idle", "batch", "stopped"}

\* An upload becomes at most one photo, through crashes and restarts, and only
\* one whose job was taken from the queue and has not failed; a photo the admin
\* deleted does not come back.
OnePhotoPerUpload ==
  \A f \in Files :
    /\ rows[f] <= 1
    /\ rows[f] = 1 => job[f] \in {"processing", "completed"}
    /\ f \in erased => rows[f] = 0

\* What the admin reads as completed was published: the photo is there, unless
\* he has deleted it since.  What he reads as failed never was, and left no
\* file behind but one that os.Remove failed to remove (save.go:80).
StatusTellsTheTruth ==
  \A f \in Files :
    /\ job[f] = "completed" => rows[f] = 1 \/ f \in erased
    /\ job[f] = "failed" =>
         /\ rows[f] = 0 /\ f \notin erased
         /\ f \notin disk \/ "photo" \in undone[f]

\* A committed photo has its file, whatever moment the process died at: the file
\* is in place before the row is committed, and a photo's row goes before its
\* file.  Only DeleteAlbum removes files first: while it runs, and for good when
\* its DELETE fails or the process ends before it.
PhotoHasFile ==
  \A f \in Files :
    rows[f] > 0 => \/ f \in disk
                   \/ delPc[AlbumOf[f]] = "listed"
                   \/ AlbumOf[f] \in aborted

\* No trace of a deleted album comes back: a worker still busy with one of its
\* jobs, or a handler still receiving files for it, leaves no row behind.
DeletedAlbumStaysEmpty ==
  \A f \in Files :
    AlbumOf[f] \notin albums => rows[f] = 0 /\ job[f] \in {"none", "deleted"}

\* An upload younger than the janitor's limit has its temporary file until the
\* worker opens it, also across restarts.
FreshUploadKeepsTemp ==
  \A f \in Files :
    \/ job[f] = "pending"
    \/ \E r \in Requests : hand[r] = f
    => Old(f) \/ tmp[f] = "present"

\* Jobs in "processing" that no worker is on.
StrandedJobs ==
  {f \in Files : job[f] = "processing" /\ ~(Busy /\ wJob = f)}

\* Those of them that no failing UPDATE has left so.
StrandedByExit == {f \in StrandedJobs : "status" \notin undone[f]}

\* A job is stranded by an UPDATE that failed and was only logged
\* (worker.go:159-161, 170-172) or by the end of a process, which strands one
\* at most.
OneStrandedPerExit ==
  Cardinality(StrandedByExit) <= exits + (IF Cancelled THEN 1 ELSE 0)

\* Photo files that never had a row, the one of the transaction under way and
\* those of deleted albums apart.  What a deleted photo may leave is the
\* subject of PhotoLibrary.
Orphans == {f \in disk : rows[f] = 0 /\ f \notin erased /\ AlbumOf[f] \in albums
                            /\ ~(wPc = "renamed" /\ wJob = f)}

\* Where a process ended between the rename and the commit, the orphan's job is
\* left in "processing".  Otherwise the commit failed and os.Remove with it.
OrphanIsStranded ==
  \A f \in Orphans :
    f \in StrandedJobs \/ ("photo" \in undone[f] /\ job[f] \in {"processing", "failed"})

\* So the end of a process leaves at most one orphan, apart from those that
\* os.Remove left.
OrphansByExit == {f \in Orphans : "photo" \notin undone[f]}

OneOrphanPerExit ==
  Cardinality(OrphansByExit) <= exits + (IF Cancelled THEN 1 ELSE 0)

\* Every temporary file has somebody who will remove it: the handler that holds
\* it, the worker, now or when it comes to its job; the janitor alone if the job
\* went with its album, if the process that held the file has ended, or if it
\* could not be opened or removed.
TempFileHasOwner ==
  \A f \in Files : tmp[f] = "present" =>
    \/ \E r \in Requests : hand[r] = f
    \/ job[f] = "pending"
    \/ Busy /\ wJob = f
    \/ job[f] = "deleted" \/ exits > 0
    \/ "temp" \in undone[f]

-----------------------------------------------------------------------------
(* What a step may do.                                                     *)

\* The status of a job moves from "pending" over "processing" to a final one
\* and never back, although the statements that set it ask only for the id;
\* the row goes when its album does.
Forward == {<<"none", "pending">>, <<"pending", "processing">>,
            <<"processing", "completed">>, <<"processing", "failed">>}

StatusMovesForward ==
  [][\A f \in Files :
       \/ job'[f] = job[f]
       \/ <<job[f], job'[f]>> \in Forward
       \/ job'[f] = "deleted" /\ AlbumOf[f] \notin albums']_vars

\* A job that the end of a process left in "processing" is never taken up
\* again, by no later process: only its album's deletion ends it.
StrandedForGood ==
  [][\A f \in StrandedJobs :
       f \in StrandedJobs' \/ job'[f] = "deleted"]_vars

-----------------------------------------------------------------------------
(* Refinement.                                                             *)

\* What has become of an upload: the photo decides as soon as it is committed,
\* before the worker gets to record it, and when it is deleted.
entry == [f \in Files |->
  CASE job[f] = "none"    -> "absent"
    [] job[f] = "deleted" -> "withdrawn"
    [] OTHER -> IF rows[f] > 0 THEN "published"
                ELSE IF f \in erased THEN "erased"
                ELSE IF job[f] = "failed" THEN "refused" ELSE "accepted"]

Ledger == INSTANCE UploadLedger

\* The queue, its worker, deletions, failing calls, crashes and restarts
\* implement the ledger: every step is a step of it or changes nothing in it.
ImplementsLedger == Ledger!Spec

-----------------------------------------------------------------------------
(* Liveness.                                                               *)

\* Pending jobs are taken (or deleted with their album) until none is left, also
\* when the process dies and is restarted before: the queue is in the database.
PendingIsTaken == Pending # {} ~> Pending = {}

\* Every temporary file is removed in the end, whoever it was left by.
TempFileIsRemoved ==
  (\E f \in Files : tmp[f] = "present") ~> (\A f \in Files : tmp[f] # "present")

\* AdminUploadStatus: the page polls while a job is pending or processing, and
\* shows the share of jobs that are neither.
JobsOf(a, status) == {f \in Files : AlbumOf[f] = a /\ job[f] \in status}

Percent(a) ==
  LET processed == Cardinality(JobsOf(a, {"completed", "failed"}))
      total == processed + Cardinality(JobsOf(a, {"pending", "processing"}))
  IN  IF total = 0 THEN 0 ELSE (processed * 100) \div total

Polling(a) == JobsOf(a, {"pending", "processing"}) # {}

\* A progress view that polls comes to an end, at 100 % unless the album is
\* deleted under it.
Completes(a) == ~Polling(a) /\ (Percent(a) = 100 \/ a \notin albums)

\* Unless the process ends or an UPDATE that sets a status fails: the job it was
\* for is never taken again.
ProgressCompletesInOneRun ==
  \A a \in Albums :
    Polling(a) ~> \/ Completes(a)
                  \/ exits > 0
                  \/ \E f \in Files : "status" \in undone[f]

=============================================================================
