--------------------------- MODULE Migrations_proofs ---------------------------
(***************************************************************************)
(* IInv is inductive.  Only Commit changes the database, and it adds what  *)
(* the holder of the lock prepared: the objects of the lowest version that *)
(* its release has and that it does not know, on top of a schema nobody    *)
(* else can have changed meanwhile.                                        *)
(***************************************************************************)
EXTENDS MigrationsProperties, TLAPS

\* IInv holds at the start.
LEMMA InitIInv == Init => IInv
BY MigrationConstants
DEF Init, IInv, TypeOK, SchemaIsRecorded, Created, ReadyIsComplete, OrderIsKept,
    Underway, Pc

\* What the process that stops leaves behind.
LEMMA AfterDeath ==
  ASSUME TypeOK, NEW p \in Procs, Die(p)
  PROVE  /\ pc'[p] = "down" /\ applied'[p] = {} /\ writer' # p
         /\ \A q \in Procs \ {p} :
              /\ pc'[q] = pc[q]
              /\ release'[q] = release[q]
              /\ applied'[q] = applied[q]
              /\ current'[q] = current[q]
              /\ writer' = q <=> writer = q
              /\ writer = q => draft' = draft
BY MigrationConstants DEF TypeOK, Die

\* A process that dies, its transaction rolled back, leaves the types as they
\* are.
LEMMA DeathTypeOK ==
  ASSUME TypeOK, NEW p \in Procs, Die(p), UNCHANGED database, faults' \in 0..MaxFaults
  PROVE  TypeOK'
BY DEF TypeOK, Die, database, Pc

\* It leaves IInv as it is.
LEMMA DeathIInv ==
  ASSUME IInv, NEW p \in Procs, Die(p), UNCHANGED database, faults' \in 0..MaxFaults
  PROVE  IInv'
<1>1. TypeOK'
  BY DeathTypeOK DEF IInv
<1>2. TypeOK /\ UNCHANGED <<schema, recorded>>
  BY DEF IInv, database
<1>3. SchemaIsRecorded' /\ OrderIsKept'
  BY <1>2 DEF IInv, SchemaIsRecorded, Created, OrderIsKept
<1>4. ReadyIsComplete'
  BY <1>2, AfterDeath DEF IInv, ReadyIsComplete
<1>5. ASSUME NEW q \in Procs
      PROVE  Underway(q)'
  <2>1. CASE q = p
    BY <1>2, <2>1, AfterDeath DEF Underway
  <2>2. CASE q # p
    <3>1. Underway(q)
      BY DEF IInv
    <3>2. QED
      BY <1>2, <2>2, <3>1, AfterDeath DEF Underway, IsNext, Pending, Conflicts
  <2>3. QED
    BY <2>1, <2>2
<1>6. QED
  BY <1>1, <1>3, <1>4, <1>5 DEF IInv

\* A process that leaves the database, the lock and the others alone.
LEMMA OwnStepIInv ==
  ASSUME IInv, TypeOK', NEW p \in Procs, UNCHANGED <<database, transaction>>,
         \A q \in Procs \ {p} : /\ pc'[q] = pc[q]
                                /\ release'[q] = release[q]
                                /\ applied'[q] = applied[q]
                                /\ current'[q] = current[q],
         Underway(p)',
         pc'[p] = "ready" => release'[p] \subseteq recorded
  PROVE  IInv'
<1>1. UNCHANGED <<schema, recorded, writer, draft>>
  BY DEF database, transaction
<1>2. SchemaIsRecorded' /\ OrderIsKept'
  BY <1>1 DEF IInv, SchemaIsRecorded, Created, OrderIsKept
<1>3. ReadyIsComplete'
  BY <1>1 DEF IInv, ReadyIsComplete
<1>4. ASSUME NEW q \in Procs \ {p}
      PROVE  Underway(q)'
  <2>1. Underway(q)
    BY DEF IInv
  <2>2. QED
    BY <1>1, <2>1 DEF Underway, IsNext, Pending, Conflicts
<1>5. QED
  BY <1>2, <1>3, <1>4 DEF IInv

\* Every step keeps IInv.
LEMMA NextIInv == IInv /\ [Next]_vars => IInv'
<1> SUFFICES ASSUME IInv, [Next]_vars
             PROVE  IInv'
    OBVIOUS
<1> USE MigrationConstants
<1>t. TypeOK /\ \A p \in Procs : Underway(p)
  BY DEF IInv
<1>1. ASSUME NEW p \in Procs, Start(p)
      PROVE  IInv'
  <2>1. TypeOK'
    BY <1>1, <1>t DEF Start, TypeOK, database, transaction, Pc
  <2>2. Underway(p)'
    BY <1>1, <1>t DEF Start, Underway, TypeOK, database, transaction
  <2>3. QED
    BY <1>1, <1>t, <2>1, <2>2, OwnStepIInv DEF Start, TypeOK
<1>2. ASSUME NEW p \in Procs, ReadApplied(p)
      PROVE  IInv'
  <2>0. PICK seen \in SUBSET recorded : applied' = [applied EXCEPT ![p] = seen]
    BY <1>2 DEF ReadApplied
  <2>1. TypeOK'
    <3>1. applied' \in [Procs -> SUBSET Versions]
      BY <1>t, <2>0 DEF TypeOK
    <3>2. faults' \in 0..MaxFaults
      BY <1>2, <1>t DEF ReadApplied, TypeOK
    <3>3. QED
      BY <1>2, <1>t, <3>1, <3>2 DEF ReadApplied, TypeOK, database, transaction, Pc
  <2>2. Underway(p)'
    BY <1>2, <1>t, <2>0 DEF ReadApplied, Underway, TypeOK, database, transaction
  <2>3. QED
    BY <1>2, <1>t, <2>1, <2>2, OwnStepIInv DEF ReadApplied, TypeOK
<1>3. ASSUME NEW p \in Procs, Execute(p)
      PROVE  IInv'
  <2>1. TypeOK'
    BY <1>3, <1>t DEF Execute, TypeOK, database, Pending, Pc
  <2>2. PICK v \in Pending(p) : /\ IsNext(p, v)
                                /\ current' = [current EXCEPT ![p] = v]
                                /\ draft' = schema \cup Creates[v]
                                /\ ~Conflicts(v)
    BY <1>3 DEF Execute
  <2>3. /\ writer = NoProc /\ writer' = p
        /\ pc' = [pc EXCEPT ![p] = "executed"]
        /\ UNCHANGED <<schema, recorded, release, applied>>
    BY <1>3 DEF Execute, database
  <2>4. SchemaIsRecorded' /\ OrderIsKept'
    BY <2>3 DEF IInv, SchemaIsRecorded, Created, OrderIsKept
  <2>5. ReadyIsComplete'
    BY <1>t, <2>3 DEF IInv, ReadyIsComplete, TypeOK
  <2>6. Underway(p)'
    <3>1. pc[p] = "apply" /\ pc'[p] = "executed" /\ current'[p] = v
      BY <1>3, <1>t, <2>2, <2>3 DEF Execute, TypeOK
    <3>2. QED
      BY <1>t, <2>2, <2>3, <3>1 DEF Underway, IsNext, Pending, Conflicts
  <2>7. ASSUME NEW q \in Procs \ {p}
        PROVE  Underway(q)'
    <3>1. pc'[q] = pc[q] /\ Underway(q)
      BY <1>t, <2>3 DEF TypeOK
    <3>2. QED
      BY <2>3, <3>1 DEF Underway
  <2>8. QED
    BY <2>1, <2>4, <2>5, <2>6, <2>7 DEF IInv
<1>4. ASSUME NEW p \in Procs, ExecuteFails(p)
      PROVE  IInv'
  BY <1>4, <1>t, DeathIInv DEF ExecuteFails, TypeOK
<1>5. ASSUME NEW p \in Procs, LockTimesOut(p)
      PROVE  IInv'
  BY <1>5, <1>t, DeathIInv DEF LockTimesOut, TypeOK
<1>6. ASSUME NEW p \in Procs, Insert(p)
      PROVE  IInv'
  <2>1. CASE Die(p)
    BY <1>6, <1>t, <2>1, DeathIInv DEF Insert, TypeOK
  <2>2. CASE /\ current[p] \notin recorded
             /\ pc' = [pc EXCEPT ![p] = "inserted"]
             /\ UNCHANGED <<transaction, release, applied, current>>
    <3>1. TypeOK'
      BY <1>6, <1>t, <2>2 DEF Insert, TypeOK, database, transaction, Pc
    <3>2. Underway(p)'
      <4>1. /\ pc[p] = "executed" /\ pc'[p] = "inserted" /\ Underway(p)
            /\ UNCHANGED <<schema, recorded, writer, draft, release, applied, current>>
        BY <1>6, <1>t, <2>2 DEF Insert, TypeOK, database, transaction
      <4>2. QED
        BY <2>2, <4>1 DEF Underway, IsNext, Pending, Conflicts
    <3>3. QED
      BY <1>6, <1>t, <2>2, <3>1, <3>2, OwnStepIInv DEF Insert, TypeOK
  <2>3. QED
    BY <1>6, <2>1, <2>2 DEF Insert
<1>7. ASSUME NEW p \in Procs, Commit(p)
      PROVE  IInv'
  <2> DEFINE c == current[p]
  <2>1. /\ writer = p /\ IsNext(p, c) /\ draft = schema \cup Creates[c]
        /\ applied[p] \subseteq recorded
        /\ release[p] \in Releases
        /\ c \in Versions /\ c \in release[p]
        /\ \A u \in release[p] \ applied[p] : c <= u
    BY <1>7, <1>t DEF Commit, Underway, IsNext, Pending, TypeOK
  <2>2. /\ schema' = schema \cup Creates[c]
        /\ recorded' = recorded \cup {c}
        /\ writer' = NoProc
        /\ applied' = [applied EXCEPT ![p] = @ \cup {c}]
        /\ pc' = [pc EXCEPT ![p] = "apply"]
        /\ release' = release
    BY <1>7, <2>1 DEF Commit
  <2>3. TypeOK'
    <3>1. recorded' \in SUBSET Versions /\ schema' \in SUBSET Objects
      BY <1>t, <2>1, <2>2 DEF TypeOK
    <3>2. applied' \in [Procs -> SUBSET Versions]
      BY <1>t, <2>1, <2>2 DEF TypeOK
    <3>3. current' \in [Procs -> Versions \cup {NoVersion}]
      BY <1>7, <1>t DEF Commit, TypeOK
    <3>4. QED
      BY <1>7, <1>t, <2>2, <3>1, <3>2, <3>3 DEF Commit, TypeOK, Pc
  <2>4. SchemaIsRecorded'
    BY <2>2 DEF IInv, SchemaIsRecorded, Created
  <2>5. OrderIsKept'
    <3>1. ASSUME NEW v \in recorded
          PROVE  \E r \in Releases : v \in r /\ {u \in r : u < v} \subseteq recorded'
      BY <2>2 DEF IInv, OrderIsKept
    <3>2. {u \in release[p] : u < c} \subseteq recorded
      <4>1. \A u \in release[p] : u \in Nat /\ c \in Nat
        BY <1>t, <2>1 DEF TypeOK
      <4>2. QED
        BY <2>1, <4>1
    <3>3. QED
      BY <2>1, <2>2, <3>1, <3>2 DEF OrderIsKept
  <2>6. ReadyIsComplete'
    BY <1>t, <2>2 DEF IInv, ReadyIsComplete, TypeOK
  <2>7. ASSUME NEW q \in Procs
        PROVE  Underway(q)'
    <3>1. CASE q = p
      BY <1>t, <2>1, <2>2, <3>1 DEF Underway, TypeOK
    <3>2. CASE q # p
      <4>1. Underway(q) /\ pc'[q] = pc[q] /\ applied'[q] = applied[q]
        BY <1>t, <2>2, <3>2 DEF TypeOK
      <4>2. QED
        BY <2>1, <2>2, <3>2, <4>1 DEF Underway
    <3>3. QED
      BY <3>1, <3>2
  <2>8. QED
    BY <2>3, <2>4, <2>5, <2>6, <2>7 DEF IInv
<1>8. ASSUME NEW p \in Procs, Ready(p)
      PROVE  IInv'
  <2>1. TypeOK'
    BY <1>8, <1>t DEF Ready, TypeOK, database, transaction, Pc
  <2>2. Underway(p)'
    BY <1>8, <1>t
    DEF Ready, Underway, IsNext, Pending, TypeOK, database, transaction
  <2>3. release[p] \subseteq recorded
    BY <1>8, <1>t DEF Ready, Pending, Underway
  <2>4. QED
    BY <1>8, <1>t, <2>1, <2>2, <2>3, OwnStepIInv DEF Ready, TypeOK
<1>9. ASSUME NEW p \in Procs, Crash(p)
      PROVE  IInv'
  <2>1. faults' \in 0..MaxFaults
    BY <1>9, <1>t DEF Crash, TypeOK
  <2>2. QED
    BY <1>9, <2>1, DeathIInv DEF Crash
<1>10. ASSUME NEW p \in Procs, Stop(p)
       PROVE  IInv'
  BY <1>10, <1>t, DeathIInv DEF Stop, TypeOK
<1>11. CASE UNCHANGED vars
  BY <1>11
  DEF vars, database, transaction, IInv, TypeOK, SchemaIsRecorded, Created,
      ReadyIsComplete, OrderIsKept, Underway, IsNext, Pending, Conflicts
<1>12. QED
  BY <1>1, <1>2, <1>3, <1>4, <1>5, <1>6, <1>7, <1>8, <1>9, <1>10, <1>11
  DEF Next

\* IInv holds in every state, for any releases and any number of processes.
THEOREM MigrationsInvariant == Spec => []IInv
BY InitIInv, NextIInv, PTL DEF Spec

\* TypeOK holds in every state.
THEOREM TypeCorrect == Spec => []TypeOK
<1>1. IInv => TypeOK
  BY DEF IInv
<1>2. QED
  BY <1>1, MigrationsInvariant, PTL

\* What a migration creates is there exactly if it is recorded, through all
\* crashes and rivals.
THEOREM SchemaRecorded == Spec => []SchemaIsRecorded
<1>1. IInv => SchemaIsRecorded
  BY DEF IInv
<1>2. QED
  BY <1>1, MigrationsInvariant, PTL

\* A process that serves has all migrations of its release.
THEOREM ReadyComplete == Spec => []ReadyIsComplete
<1>1. IInv => ReadyIsComplete
  BY DEF IInv
<1>2. QED
  BY <1>1, MigrationsInvariant, PTL

\* No migration is recorded before the lower ones of a release it belongs to.
THEOREM OrderKept == Spec => []OrderIsKept
<1>1. IInv => OrderIsKept
  BY DEF IInv
<1>2. QED
  BY <1>1, MigrationsInvariant, PTL

-----------------------------------------------------------------------------
(* The refinement: of all steps only the commit, the last step of opening   *)
(* the database and the end of a process that serves are seen from outside. *)

\* Where the database stays as it is and nobody begins or ends to serve,
\* nothing is seen from outside.
LEMMA UnseenStep ==
  ASSUME UNCHANGED database,
         \A q \in Procs : /\ (pc'[q] = "ready") <=> (pc[q] = "ready")
                          /\ pc[q] = "ready" => release'[q] = release[q]
  PROVE  UNCHANGED Log!vars
<1>1. Serving' = Serving
  BY DEF Serving
<1>2. QED
  BY <1>1 DEF database, Log!vars

\* A process that dies before it serves is not seen from outside.
LEMMA UnseenDeath ==
  ASSUME TypeOK, NEW p \in Procs, Die(p), pc[p] # "ready", UNCHANGED database
  PROVE  UNCHANGED Log!vars
BY AfterDeath, UnseenStep

\* A commit applies one migration, whole and for the first time.
LEMMA CommitRefines ==
  ASSUME IInv, NEW p \in Procs, Commit(p)
  PROVE  Log!Apply(current[p]) /\ current[p] \in Versions
<1>1. TypeOK /\ Underway(p) /\ pc[p] = "inserted"
  BY DEF IInv, Commit
<1>2. PICK v \in Versions : v = current[p] /\ v \in release[p]
  BY <1>1 DEF Underway, IsNext, Pending, TypeOK
<1>3. /\ draft = schema \cup Creates[v] /\ ~Conflicts(v) /\ v \notin recorded
      /\ applied[p] \subseteq recorded /\ release[p] \in Releases
      /\ \A u \in release[p] \ applied[p] : v <= u
  BY <1>1, <1>2 DEF Underway, IsNext, Pending
<1>4. \A u \in release[p] : u < v => u \in recorded
  <2>1. \A u \in release[p] : u \in Nat /\ v \in Nat
    BY <1>1, <1>2, MigrationConstants DEF TypeOK
  <2>2. QED
    BY <1>3, <2>1
<1>5. UNCHANGED Serving
  <2>1. \A q \in Procs : /\ pc'[q] = "ready" <=> pc[q] = "ready"
                         /\ release'[q] = release[q]
    BY <1>1 DEF Commit, TypeOK
  <2>2. QED
    BY <2>1 DEF Serving
<1>6. schema' = schema \cup Creates[v] /\ recorded' = recorded \cup {v}
  BY <1>2, <1>3 DEF Commit
<1>7. QED
  BY <1>2, <1>3, <1>4, <1>5, <1>6 DEF Log!Apply, Conflicts

\* A process that has nothing left to apply begins to serve.
LEMMA ReadyRefines ==
  ASSUME IInv, NEW p \in Procs, Ready(p)
  PROVE  Log!Serve(p, release[p]) /\ release[p] \in Releases
<1>1. TypeOK /\ Underway(p) /\ pc[p] = "apply"
  BY DEF IInv, Ready
<1>2. release[p] \subseteq recorded /\ release[p] \in Releases
  BY <1>1 DEF Ready, Pending, Underway
<1>3. \A s \in Releases : <<p, s>> \notin Serving
  BY <1>1 DEF Serving
<1>4. Serving' = Serving \cup {<<p, release[p]>>}
  <2>1. \A q \in Procs : /\ pc'[q] = "ready" <=> (pc[q] = "ready" \/ q = p)
                         /\ release'[q] = release[q]
    BY <1>1 DEF Ready, TypeOK
  <2>2. QED
    BY <2>1 DEF Serving
<1>5. QED
  BY <1>2, <1>3, <1>4 DEF Log!Serve, Ready, database

\* A process that serves and is stopped leaves.
LEMMA StopRefines ==
  ASSUME IInv, NEW p \in Procs, Stop(p)
  PROVE  Log!Leave(p, release[p]) /\ release[p] \in Releases
<1>1. TypeOK /\ Underway(p) /\ pc[p] = "ready" /\ Die(p)
  BY DEF IInv, Stop
<1>2. release[p] \in Releases /\ <<p, release[p]>> \in Serving
  BY <1>1 DEF Underway, Serving
<1>3. Serving' = Serving \ {<<p, release[p]>>}
  BY <1>1, AfterDeath DEF Serving
<1>4. QED
  BY <1>2, <1>3 DEF Log!Leave, Stop, database

\* However the processes that open the database interleave, crash and give up,
\* from outside the migrations are applied one at a time, each as a whole, in
\* order and once, and only a complete release is served from.
THEOREM LogImplemented == Spec => ImplementsMigrationLog
<1>1. Init => Log!Init
  BY DEF Init, Log!Init, Serving
<1>2. IInv /\ [Next]_vars => [Log!Next]_Log!vars
  <2> SUFFICES ASSUME IInv, [Next]_vars
               PROVE  Log!Next \/ UNCHANGED Log!vars
    OBVIOUS
  <2>0. TypeOK
    BY DEF IInv
  <2>1. ASSUME NEW p \in Procs, Start(p) \/ ReadApplied(p) \/ Execute(p)
        PROVE  UNCHANGED Log!vars
    <3>1. /\ UNCHANGED database /\ pc[p] # "ready" /\ pc'[p] # "ready"
          /\ \A q \in Procs \ {p} : pc'[q] = pc[q] /\ release'[q] = release[q]
      BY <2>0, <2>1 DEF Start, ReadApplied, Execute, TypeOK
    <3>2. QED
      BY <3>1, UnseenStep
  <2>2. ASSUME NEW p \in Procs, ExecuteFails(p) \/ LockTimesOut(p) \/ Crash(p)
        PROVE  UNCHANGED Log!vars
    BY <2>0, <2>2, UnseenDeath DEF ExecuteFails, LockTimesOut, Crash
  <2>3. ASSUME NEW p \in Procs, Insert(p)
        PROVE  UNCHANGED Log!vars
    <3>1. CASE Die(p)
      BY <2>0, <2>3, <3>1, UnseenDeath DEF Insert
    <3>2. CASE pc' = [pc EXCEPT ![p] = "inserted"] /\ UNCHANGED release
      BY <2>0, <2>3, <3>2, UnseenStep DEF Insert, TypeOK
    <3>3. QED
      BY <2>3, <3>1, <3>2 DEF Insert
  <2>4. ASSUME NEW p \in Procs, Commit(p) PROVE Log!Next
    BY <2>4, CommitRefines DEF Log!Next
  <2>5. ASSUME NEW p \in Procs, Ready(p) PROVE Log!Next
    BY <2>5, ReadyRefines DEF Log!Next
  <2>6. ASSUME NEW p \in Procs, Stop(p) PROVE Log!Next
    BY <2>6, StopRefines DEF Log!Next
  <2>7. CASE UNCHANGED vars
    BY <2>7, UnseenStep DEF vars
  <2>8. QED
    BY <2>1, <2>2, <2>3, <2>4, <2>5, <2>6, <2>7 DEF Next
<1>3. QED
  BY <1>1, <1>2, MigrationsInvariant, PTL DEF Spec, ImplementsMigrationLog, Log!Spec

=============================================================================
