------------------------------- MODULE RateBound -------------------------------
(***************************************************************************)
(* What the rate limiter promises of a client: an account that gains       *)
(* requestsPerMin / Minute of a request with every tick, up to less than   *)
(* requestsPerMin + 1 requests.  A request is served exactly if the        *)
(* account covers it and the client is not locked out.  Serving it takes   *)
(* one request from the account, and at most a fraction of a second one    *)
(* is forfeited.  A lockout runs its full time.                            *)
(*                                                                         *)
(* The exception are requests that were already on their way when the      *)
(* limiter forgot a client whose account was full: each of those is        *)
(* answered at will, once, beside the account.                             *)
(***************************************************************************)
EXTENDS Integers

CONSTANTS Clients, Requests, NoClient, requestsPerMin, Minute, lockoutDuration

VARIABLES
  pc,     \* per request: "idle", "asking", "allowed", "denied"
  from,   \* per request: the client
  credit, \* per client: the account, in 1/Minute of a request
  ban,    \* per client: ticks until its lockout ends
  late    \* requests overtaken by the forgetting of their client

vars == <<pc, from, credit, ban, late>>

Full == requestsPerMin * Minute + Minute - 1

Init ==
  /\ pc = [q \in Requests |-> "idle"]
  /\ from = [q \in Requests |-> NoClient]
  /\ credit = [c \in Clients |-> Full]
  /\ ban = [c \in Clients |-> 0]
  /\ late = {}

\* A client the limiter does not know starts with requestsPerMin requests.
Ask(q, c) ==
  /\ pc[q] = "idle"
  /\ pc' = [pc EXCEPT ![q] = "asking"]
  /\ from' = [from EXCEPT ![q] = c]
  /\ \/ UNCHANGED credit
     \/ /\ credit[c] = Full
        /\ credit' = [credit EXCEPT ![c] = requestsPerMin * Minute]
  /\ UNCHANGED <<ban, late>>

\* Served: one request's worth leaves the account, and less than two.
Serve(q) ==
  /\ pc[q] = "asking"
  /\ q \notin late
  /\ ban[from[q]] = 0
  /\ \E cost \in Minute..(2 * Minute - 1) :
       /\ cost <= credit[from[q]]
       /\ credit' = [credit EXCEPT ![from[q]] = credit[from[q]] - cost]
  /\ pc' = [pc EXCEPT ![q] = "allowed"]
  /\ UNCHANGED <<from, ban, late>>

\* Refused: because of a lockout, or because the account does not cover it.
Refuse(q) ==
  /\ pc[q] = "asking"
  /\ q \notin late
  /\ \/ ban[from[q]] > 0 /\ UNCHANGED ban
     \/ /\ ban[from[q]] = 0
        /\ credit[from[q]] < Minute
        /\ \E b \in {0, lockoutDuration} : ban' = [ban EXCEPT ![from[q]] = b]
  /\ pc' = [pc EXCEPT ![q] = "denied"]
  /\ UNCHANGED <<from, credit, late>>

AnswerLate(q) ==
  /\ pc[q] = "asking"
  /\ q \in late
  /\ \E answer \in {"allowed", "denied"} : pc' = [pc EXCEPT ![q] = answer]
  /\ late' = late \ {q}
  /\ UNCHANGED <<from, credit, ban>>

Finish(q) ==
  /\ pc[q] \in {"allowed", "denied"}
  /\ pc' = [pc EXCEPT ![q] = "idle"]
  /\ from' = [from EXCEPT ![q] = NoClient]
  /\ UNCHANGED <<credit, ban, late>>

Forget(c) ==
  /\ credit[c] = Full
  /\ ban[c] = 0
  /\ late' = late \cup {q \in Requests : pc[q] = "asking" /\ from[q] = c}
  /\ UNCHANGED <<pc, from, credit, ban>>

Tick ==
  /\ credit' = [c \in Clients |-> IF credit[c] + requestsPerMin <= Full
                                  THEN credit[c] + requestsPerMin ELSE Full]
  /\ ban' = [c \in Clients |-> IF ban[c] > 0 THEN ban[c] - 1 ELSE 0]
  /\ UNCHANGED <<pc, from, late>>

Next ==
  \/ \E q \in Requests : \/ \E c \in Clients : Ask(q, c)
                         \/ Serve(q) \/ Refuse(q) \/ AnswerLate(q) \/ Finish(q)
  \/ \E c \in Clients : Forget(c)
  \/ Tick

Spec == Init /\ [][Next]_vars

=============================================================================
