------------------------------ MODULE Migrations ------------------------------
(***************************************************************************)
(* Opening the database: every process creates the table of applied        *)
(* migrations if need be, reads it once, and then applies the migrations   *)
(* of its release that it did not find there, in the order of their        *)
(* numbers, each in a transaction together with the row that records it.   *)
(*                                                                         *)
(* Processes of different releases may start one after the other or while  *)
(* another one is still at it; each may crash anywhere, and what it has    *)
(* not committed is then gone.  Transactions that write exclude each other *)
(* (SQLite's lock on the file).                                            *)
(*                                                                         *)
(* A migration is known by its number.  Of what it does only the schema    *)
(* objects it creates matter, those it cannot do without, and whether it   *)
(* minds that they are there already (no IF NOT EXISTS).                   *)
(***************************************************************************)
EXTENDS Naturals, FiniteSets

CONSTANTS
  Procs,     \* processes that open the database
  Versions,  \* numbers of migrations
  Releases,  \* the sets of migrations that binaries carry
  Objects,   \* tables and columns
  Creates,   \* per migration: the objects it creates
  Needs,     \* per migration: objects it refers to
  Lenient,   \* migrations all of whose statements say IF NOT EXISTS
  NoVersion, \* no migration
  NoProc,    \* no process
  MaxFaults  \* bound: crashes, failing statements and broken readings

ASSUME MigrationConstants ==
  /\ Versions \subseteq Nat
  /\ IsFiniteSet(Versions)
  /\ Releases \subseteq SUBSET Versions
  /\ Creates \in [Versions -> SUBSET Objects]
  /\ Needs \in [Versions -> SUBSET Objects]
  /\ Lenient \subseteq Versions
  /\ NoVersion \notin Versions
  /\ NoProc \notin Procs
  /\ MaxFaults \in Nat

VARIABLES
  schema,   \* the objects in the database
  recorded, \* the rows of schema_migrations
  writer,   \* the process whose transaction holds the lock
  draft,    \* the objects as that transaction sees them
  pc,       \* per process: where it stands
  release,  \* per process: the migrations of its binary
  applied,  \* per process: the versions it read
  current,  \* per process: the migration it is applying
  faults    \* faults so far

database == <<schema, recorded>>
transaction == <<writer, draft>>
vars == <<database, transaction, pc, release, applied, current, faults>>

Pc == {"down", "open", "apply", "executed", "inserted", "ready"}

Init ==
  /\ schema = {}
  /\ recorded = {}
  /\ writer = NoProc
  /\ draft = {}
  /\ pc = [p \in Procs |-> "down"]
  /\ release = [p \in Procs |-> {}]
  /\ applied = [p \in Procs |-> {}]
  /\ current = [p \in Procs |-> NoVersion]
  /\ faults = 0

\* The process is gone, or InitDB returned an error, which main dies of; an
\* open transaction is rolled back.
Die(p) ==
  /\ pc' = [pc EXCEPT ![p] = "down"]
  /\ release' = [release EXCEPT ![p] = {}]
  /\ applied' = [applied EXCEPT ![p] = {}]
  /\ current' = [current EXCEPT ![p] = NoVersion]
  /\ writer' = IF writer = p THEN NoProc ELSE writer
  /\ draft' = IF writer = p THEN {} ELSE draft

\* A binary starts: InitDB opens the file and sets its pragmas, and
\* ApplyMigrations sees to it that there is a table of versions.
Start(p) ==
  /\ pc[p] = "down"
  /\ \E r \in Releases : release' = [release EXCEPT ![p] = r]
  /\ pc' = [pc EXCEPT ![p] = "open"]
  /\ UNCHANGED <<database, transaction, applied, current, faults>>

\* The versions are read, once.  The loop over the rows does not look at
\* rows.Err, so a reading that breaks off counts as a complete one.
ReadApplied(p) ==
  /\ pc[p] = "open"
  /\ \/ /\ applied' = [applied EXCEPT ![p] = recorded]
        /\ UNCHANGED faults
     \/ /\ faults < MaxFaults
        /\ faults' = faults + 1
        /\ \E seen \in SUBSET recorded : applied' = [applied EXCEPT ![p] = seen]
  /\ pc' = [pc EXCEPT ![p] = "apply"]
  /\ UNCHANGED <<database, transaction, release, current>>

\* Mutant: only what is newer than anything applied.
MutPendingNewer(p) == {v \in release[p] : \A u \in applied[p] : u < v}

\* What the process has still to apply.
Pending(p) == release[p] \ applied[p]

\* Of that, the one with the lowest number comes next.
IsNext(p, v) == v \in Pending(p) /\ \A u \in Pending(p) : v <= u

\* The statements of v run into an object that is there, or miss one.
Conflicts(v) ==
  \/ v \notin Lenient /\ Creates[v] \cap schema # {}
  \/ ~(Needs[v] \subseteq schema)

\* Mutant: the file is executed outside the transaction.
MutExecuteAtOnce(p) ==
  /\ pc[p] = "apply"
  /\ writer = NoProc
  /\ \E v \in Pending(p) :
       /\ IsNext(p, v)
       /\ ~Conflicts(v)
       /\ current' = [current EXCEPT ![p] = v]
       /\ schema' = schema \cup Creates[v]
       /\ draft' = schema \cup Creates[v]
  /\ writer' = p
  /\ pc' = [pc EXCEPT ![p] = "executed"]
  /\ UNCHANGED <<recorded, release, applied, faults>>

\* Mutant: the number of the file is not kept.
MutExecuteUnnumbered(p) ==
  /\ pc[p] = "apply"
  /\ writer = NoProc
  /\ \E v \in Pending(p) :
       /\ IsNext(p, v)
       /\ ~Conflicts(v)
       /\ draft' = schema \cup Creates[v]
  /\ writer' = p
  /\ pc' = [pc EXCEPT ![p] = "executed"]
  /\ UNCHANGED <<database, release, applied, current, faults>>

\* Begin and the statements of the file, as soon as the lock is free.
Execute(p) ==
  /\ pc[p] = "apply"
  /\ writer = NoProc
  /\ \E v \in Pending(p) :
       /\ IsNext(p, v)
       /\ ~Conflicts(v)
       /\ current' = [current EXCEPT ![p] = v]
       /\ draft' = schema \cup Creates[v]
  /\ writer' = p
  /\ pc' = [pc EXCEPT ![p] = "executed"]
  /\ UNCHANGED <<database, release, applied, faults>>

\* A statement fails: InitDB, and with it the process, gives up.
ExecuteFails(p) ==
  /\ pc[p] = "apply"
  /\ writer = NoProc
  /\ \E v \in Pending(p) : IsNext(p, v) /\ Conflicts(v)
  /\ Die(p)
  /\ UNCHANGED <<database, faults>>

\* The lock was not to be had within the five seconds of busy_timeout.
LockTimesOut(p) ==
  /\ pc[p] = "apply"
  /\ Pending(p) # {}
  /\ writer \notin {NoProc, p}
  /\ Die(p)
  /\ UNCHANGED <<database, faults>>

\* The row for the version; it is the primary key of its table.
Insert(p) ==
  /\ pc[p] = "executed"
  /\ \/ /\ current[p] \notin recorded
        /\ pc' = [pc EXCEPT ![p] = "inserted"]
        /\ UNCHANGED <<transaction, release, applied, current>>
     \/ current[p] \in recorded /\ Die(p)
  /\ UNCHANGED <<database, faults>>

\* What the loop has applied it does not come back to.
Commit(p) ==
  /\ pc[p] = "inserted"
  /\ schema' = draft
  /\ recorded' = recorded \cup {current[p]}
  /\ writer' = NoProc
  /\ draft' = {}
  /\ applied' = [applied EXCEPT ![p] = @ \cup {current[p]}]
  /\ current' = [current EXCEPT ![p] = NoVersion]
  /\ pc' = [pc EXCEPT ![p] = "apply"]
  /\ UNCHANGED <<release, faults>>

\* Nothing is left to apply and InitDB returns.
Ready(p) ==
  /\ pc[p] = "apply"
  /\ Pending(p) = {}
  /\ pc' = [pc EXCEPT ![p] = "ready"]
  /\ UNCHANGED <<database, transaction, release, applied, current, faults>>

\* A crash, or an error of the disk, at any point up to the commit.
Crash(p) ==
  /\ pc[p] \notin {"down", "ready"}
  /\ faults < MaxFaults
  /\ faults' = faults + 1
  /\ Die(p)
  /\ UNCHANGED database

\* A process that was ready is stopped.
Stop(p) ==
  /\ pc[p] = "ready"
  /\ Die(p)
  /\ UNCHANGED <<database, faults>>

Step(p) ==
  \/ ReadApplied(p) \/ Execute(p) \/ ExecuteFails(p) \/ Insert(p) \/ Commit(p)
  \/ Ready(p)

Next ==
  \E p \in Procs :
    \/ Start(p) \/ ReadApplied(p) \/ Execute(p) \/ ExecuteFails(p)
    \/ LockTimesOut(p) \/ Insert(p) \/ Commit(p) \/ Ready(p)
    \/ Crash(p) \/ Stop(p)

Spec == Init /\ [][Next]_vars

\* A process that was started goes on, and the container is restarted when its
\* process has died (restart: unless-stopped).
FairSpec ==
  Spec /\ \A p \in Procs : WF_vars(Step(p)) /\ WF_vars(Start(p))

TypeOK ==
  /\ schema \subseteq Objects
  /\ recorded \subseteq Versions
  /\ writer \in Procs \cup {NoProc}
  /\ draft \subseteq Objects
  /\ pc \in [Procs -> Pc]
  /\ release \in [Procs -> SUBSET Versions]
  /\ applied \in [Procs -> SUBSET Versions]
  /\ current \in [Procs -> Versions \cup {NoVersion}]
  /\ faults \in 0..MaxFaults

=============================================================================
