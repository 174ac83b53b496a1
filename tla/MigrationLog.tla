----------------------------- MODULE MigrationLog -----------------------------
(***************************************************************************)
(* What opening the database promises to those who serve from it: a set of *)
(* migrations that are done, to which one is added at a time, whole and    *)
(* once, when those before it in a release that has it are done, and on    *)
(* which a process begins to serve when all of its release are.  Who       *)
(* crashes, who waits for a lock and who read what does not show.          *)
(***************************************************************************)
EXTENDS Naturals

CONSTANTS Procs, Versions, Releases, Creates, Needs, Lenient

VARIABLES
  schema,  \* the objects in the database
  done,    \* the migrations behind it
  serving  \* processes that serve, each with its release

vars == <<schema, done, serving>>

Init ==
  /\ schema = {}
  /\ done = {}
  /\ serving = {}

Apply(v) ==
  /\ v \notin done
  /\ \E r \in Releases : v \in r /\ \A u \in r : u < v => u \in done
  /\ Needs[v] \subseteq schema
  /\ v \in Lenient \/ Creates[v] \cap schema = {}
  /\ schema' = schema \cup Creates[v]
  /\ done' = done \cup {v}
  /\ UNCHANGED serving

Serve(p, r) ==
  /\ \A s \in Releases : <<p, s>> \notin serving
  /\ r \subseteq done
  /\ serving' = serving \cup {<<p, r>>}
  /\ UNCHANGED <<schema, done>>

Leave(p, r) ==
  /\ <<p, r>> \in serving
  /\ serving' = serving \ {<<p, r>>}
  /\ UNCHANGED <<schema, done>>

Next ==
  \/ \E v \in Versions : Apply(v)
  \/ \E p \in Procs, r \in Releases : Serve(p, r) \/ Leave(p, r)

Spec == Init /\ [][Next]_vars

=============================================================================
