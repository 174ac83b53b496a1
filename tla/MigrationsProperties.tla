------------------------- MODULE MigrationsProperties -------------------------
(* What should hold of the migrations.                                       *)
EXTENDS Migrations

\* What the recorded migrations have created.
Created(V) == UNION {Creates[v] : v \in V}

\* Whatever crashes and whoever else is migrating: what a migration creates is
\* in the database if and only if the migration is recorded.
SchemaIsRecorded == schema = Created(recorded)

\* A process that serves has every migration of its release behind it, also
\* if its reading of the versions was cut short or another process migrated
\* at the same time.
ReadyIsComplete ==
  \A p \in Procs : pc[p] = "ready" => release[p] \subseteq recorded

\* Migrations are applied in the order of their numbers: those before a
\* recorded one, in the release that applied it, are recorded too.
OrderIsKept ==
  \A v \in recorded : \E r \in Releases :
    v \in r /\ {u \in r : u < v} \subseteq recorded

Serving == {<<p, release[p]>> : p \in {q \in Procs : pc[q] = "ready"}}

Log == INSTANCE MigrationLog WITH done <- recorded, serving <- Serving

\* Processes that start together, crash half-way and read incomplete lists of
\* versions look from outside like one that applies the migrations one by one,
\* each of them at once, in order and never again, and like servers that start
\* on a database that has all they need.
ImplementsMigrationLog == Log!Spec

\* A process knows no version that is not recorded, has a known release, and
\* is in a transaction exactly while it holds the lock: for the lowest version
\* that it lacks, with the objects of that version added to the schema it fits
\* in.  Once it has inserted the row nobody else has.
Underway(p) ==
  /\ applied[p] \subseteq recorded
  /\ pc[p] # "down" => release[p] \in Releases
  /\ pc[p] \in {"executed", "inserted"} <=> writer = p
  /\ writer = p => /\ IsNext(p, current[p])
                   /\ draft = schema \cup Creates[current[p]]
                   /\ ~Conflicts(current[p])
  /\ pc[p] = "inserted" => current[p] \notin recorded

IInv ==
  /\ TypeOK
  /\ SchemaIsRecorded
  /\ ReadyIsComplete
  /\ OrderIsKept
  /\ \A p \in Procs : Underway(p)

\* No crash, broken reading or rival leaves a database behind that cannot be
\* migrated: a process that is restarted when it dies serves in the end.
ServesInTheEnd == \A p \in Procs : pc[p] = "down" ~> pc[p] = "ready"

=============================================================================
