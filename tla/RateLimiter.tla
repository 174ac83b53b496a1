----------------------------- MODULE RateLimiter -----------------------------
(***************************************************************************)
(* The token bucket in front of the share pages and of the login form: a   *)
(* map from client addresses to buckets under one mutex, a mutex in every  *)
(* bucket, the calls of Allow that have fetched a bucket and not yet       *)
(* locked it, and the loop that deletes the buckets of quiet clients.      *)
(*                                                                         *)
(* Allow lets go of the map before it locks the bucket, and cleanup lets   *)
(* go of a bucket between looking at it and deleting it, so a call may     *)
(* work on a bucket that is no longer in the map.                          *)
(*                                                                         *)
(* Times are kept as distances from now, in ticks, and stop counting once  *)
(* no comparison of the code tells them apart.  The readings of the clock  *)
(* in one call of Allow fall into the same tick.                           *)
(***************************************************************************)
EXTENDS Integers, FiniteSets

CONSTANTS
  Clients,         \* client addresses
  Requests,        \* requests that may be in the middleware at a time
  Buckets,         \* names of clientBucket values; one no longer used is reused
  NoBucket,        \* no bucket
  NoClient,        \* no client
  requestsPerMin,  \* tokens of a full bucket, and what a minute brings
  Minute,          \* ticks of a minute
  lockoutDuration, \* ticks of a lockout (5 minutes); 0: nobody is locked out
  maxViolations,   \* refusals that lead to a lockout (10)
  StaleThreshold,  \* ticks after which cleanup deletes a bucket (10 minutes)
  MaxSweep         \* bound: ticks that pass while cleanup holds the map

ASSUME RateConstants ==
  /\ NoBucket \notin Buckets
  /\ NoClient \notin Clients
  /\ requestsPerMin \in Nat \ {0}
  /\ Minute \in Nat \ {0}
  /\ lockoutDuration \in Nat
  /\ maxViolations \in Nat \ {0}
  /\ StaleThreshold \in Nat
  /\ 2 * Minute <= StaleThreshold
  /\ MaxSweep \in Nat

VARIABLES
  bucket,     \* the clientBucket values
  clients,    \* the map from client addresses to buckets
  pc,         \* per request: where it stands in the middleware
  from,       \* per request: its client address
  held,       \* per request: the bucket Allow fetched
  todo,       \* clients cleanup has still to look at
  condemned,  \* the client whose bucket cleanup found stale and will delete
  sweeping,   \* cleanup holds the map's mutex
  swept       \* ticks since cleanup read the clock

requestVars == <<pc, from, held>>
cleanVars   == <<todo, condemned, sweeping, swept>>
vars == <<bucket, clients, requestVars, cleanVars>>

MaxAge == StaleThreshold + 1 + MaxSweep

Bucket == [tokens     : 0..requestsPerMin,
           age        : 0..MaxAge,                \* since lastRefill
           violations : 0..maxViolations,
           lockout    : BOOLEAN,                  \* lockedUntil is not zero
           left       : (-1 - MaxSweep)..lockoutDuration]  \* until lockedUntil

TypeOK ==
  /\ bucket \in [Buckets -> Bucket]
  /\ clients \in [Clients -> Buckets \cup {NoBucket}]
  /\ pc \in [Requests -> {"idle", "asking", "allowed", "denied"}]
  /\ from \in [Requests -> Clients \cup {NoClient}]
  /\ held \in [Requests -> Buckets \cup {NoBucket}]
  /\ todo \in SUBSET Clients
  /\ condemned \in Clients \cup {NoClient}
  /\ sweeping \in BOOLEAN
  /\ swept \in 0..MaxSweep

NewBucket == [tokens |-> requestsPerMin, age |-> 0, violations |-> 0,
              lockout |-> FALSE, left |-> 0]

Init ==
  /\ bucket = [b \in Buckets |-> NewBucket]
  /\ clients = [c \in Clients |-> NoBucket]
  /\ pc = [q \in Requests |-> "idle"]
  /\ from = [q \in Requests |-> NoClient]
  /\ held = [q \in Requests |-> NoBucket]
  /\ todo = {}
  /\ condemned = NoClient
  /\ sweeping = FALSE
  /\ swept = 0

-----------------------------------------------------------------------------
(* The arithmetic of a bucket.                                             *)

Smaller(a, b) == IF a <= b THEN a ELSE b
Larger(a, b)  == IF a >= b THEN a ELSE b

LockedOut(bk) == bk.lockout /\ bk.left > 0

\* The lockout is over: it and its violations are forgotten (not in the very
\* tick lockedUntil names, when neither Before nor After holds).
AfterLockout(bk) ==
  IF bk.lockout /\ bk.left < 0
  THEN [bk EXCEPT !.lockout = FALSE, !.left = 0, !.violations = 0]
  ELSE bk

\* Mutant of TokensToAdd: rounded up.
MutTokensToAddRoundsUp(age) == (requestsPerMin * age + Minute - 1) \div Minute

TokensToAdd(age) == (requestsPerMin * age) \div Minute

Refilled(bk) ==
  IF bk.age >= Minute
  THEN [bk EXCEPT !.tokens = requestsPerMin, !.age = 0]
  ELSE [bk EXCEPT !.tokens = Smaller(bk.tokens + TokensToAdd(bk.age), requestsPerMin),
                  !.age = IF TokensToAdd(bk.age) > 0 THEN 0 ELSE bk.age]

\* Only "at least maxViolations" is ever asked of the counter: it stops there.
Violated(bk) ==
  LET v == Smaller(bk.violations + 1, maxViolations)
  IN  IF lockoutDuration > 0 /\ v >= maxViolations
      THEN [bk EXCEPT !.violations = v, !.lockout = TRUE, !.left = lockoutDuration]
      ELSE [bk EXCEPT !.violations = v]

-----------------------------------------------------------------------------
(* Requests.                                                               *)

InUse(b) == (\E c \in Clients : clients[c] = b) \/ (\E q \in Requests : held[q] = b)

\* The first half of Allow, under the map's mutex: the client's bucket, made
\* if there is none.
Ask(q, c) ==
  /\ pc[q] = "idle"
  /\ ~sweeping
  /\ \/ /\ clients[c] # NoBucket
        /\ held' = [held EXCEPT ![q] = clients[c]]
        /\ UNCHANGED <<bucket, clients>>
     \/ /\ clients[c] = NoBucket
        /\ \E b \in Buckets :
             /\ ~InUse(b)
             /\ bucket' = [bucket EXCEPT ![b] = NewBucket]
             /\ clients' = [clients EXCEPT ![c] = b]
             /\ held' = [held EXCEPT ![q] = b]
  /\ pc' = [pc EXCEPT ![q] = "asking"]
  /\ from' = [from EXCEPT ![q] = c]
  /\ UNCHANGED cleanVars

\* Mutant of RefuseLocked: a call during a lockout starts it again.
MutRefuseLockedExtendsLockout(q) ==
  /\ pc[q] = "asking"
  /\ LockedOut(bucket[held[q]])
  /\ bucket' = [bucket EXCEPT ![held[q]].left = lockoutDuration]
  /\ pc' = [pc EXCEPT ![q] = "denied"]
  /\ held' = [held EXCEPT ![q] = NoBucket]
  /\ UNCHANGED <<clients, from, cleanVars>>

\* The second half, under the mutex of the bucket it fetched.
RefuseLocked(q) ==
  /\ pc[q] = "asking"
  /\ LockedOut(bucket[held[q]])
  /\ pc' = [pc EXCEPT ![q] = "denied"]
  /\ held' = [held EXCEPT ![q] = NoBucket]
  /\ UNCHANGED <<bucket, clients, from, cleanVars>>

\* The bucket after the lockout check and the refill.
Current(q) == Refilled(AfterLockout(bucket[held[q]]))

\* Mutant of Grant: the bucket is not asked for a token.
MutGrantUnchecked(q) ==
  /\ pc[q] = "asking"
  /\ ~LockedOut(bucket[held[q]])
  /\ bucket' = [bucket EXCEPT ![held[q]] =
                  [Current(q) EXCEPT !.tokens = Current(q).tokens - 1]]
  /\ pc' = [pc EXCEPT ![q] = "allowed"]
  /\ held' = [held EXCEPT ![q] = NoBucket]
  /\ UNCHANGED <<clients, from, cleanVars>>

Grant(q) ==
  /\ pc[q] = "asking"
  /\ ~LockedOut(bucket[held[q]])
  /\ Current(q).tokens > 0
  /\ bucket' = [bucket EXCEPT ![held[q]] =
                  [Current(q) EXCEPT !.tokens = Current(q).tokens - 1]]
  /\ pc' = [pc EXCEPT ![q] = "allowed"]
  /\ held' = [held EXCEPT ![q] = NoBucket]
  /\ UNCHANGED <<clients, from, cleanVars>>

RefuseEmpty(q) ==
  /\ pc[q] = "asking"
  /\ ~LockedOut(bucket[held[q]])
  /\ Current(q).tokens = 0
  /\ bucket' = [bucket EXCEPT ![held[q]] = Violated(Current(q))]
  /\ pc' = [pc EXCEPT ![q] = "denied"]
  /\ held' = [held EXCEPT ![q] = NoBucket]
  /\ UNCHANGED <<clients, from, cleanVars>>

\* The handler behind the middleware returns, or the page with status 429.
Finish(q) ==
  /\ pc[q] \in {"allowed", "denied"}
  /\ pc' = [pc EXCEPT ![q] = "idle"]
  /\ from' = [from EXCEPT ![q] = NoClient]
  /\ UNCHANGED <<bucket, clients, held, cleanVars>>

-----------------------------------------------------------------------------
(* The cleanup loop.                                                       *)

StartSweep ==
  /\ ~sweeping
  /\ sweeping' = TRUE
  /\ swept' = 0
  /\ todo' = {c \in Clients : clients[c] # NoBucket}
  /\ UNCHANGED <<bucket, clients, requestVars, condemned>>

\* Mutant of Stale: a lockout counts as long as lockedUntil is set.
MutStaleNeverAfterLockout(bk) == ~bk.lockout /\ bk.age - swept > StaleThreshold

\* What cleanup asks of a bucket, with the time it read when it began.
Stale(bk) ==
  /\ ~(bk.lockout /\ bk.left + swept > 0)
  /\ bk.age - swept > StaleThreshold

Inspect(c) ==
  /\ sweeping
  /\ condemned = NoClient
  /\ c \in todo
  /\ todo' = todo \ {c}
  /\ condemned' = IF Stale(bucket[clients[c]]) THEN c ELSE NoClient
  /\ UNCHANGED <<bucket, clients, requestVars, sweeping, swept>>

DeleteStale ==
  /\ condemned # NoClient
  /\ clients' = [clients EXCEPT ![condemned] = NoBucket]
  /\ condemned' = NoClient
  /\ UNCHANGED <<bucket, requestVars, todo, sweeping, swept>>

EndSweep ==
  /\ sweeping
  /\ todo = {}
  /\ condemned = NoClient
  /\ sweeping' = FALSE
  /\ swept' = 0
  /\ UNCHANGED <<bucket, clients, requestVars, todo, condemned>>

-----------------------------------------------------------------------------

Older(bk) ==
  [bk EXCEPT !.age  = Smaller(bk.age + 1, MaxAge),
             !.left = IF bk.lockout THEN Larger(bk.left - 1, -1 - MaxSweep) ELSE bk.left]

\* A bucket nobody can reach any more is garbage.
Tick ==
  /\ sweeping => swept < MaxSweep
  /\ bucket' = [b \in Buckets |-> IF InUse(b) THEN Older(bucket[b]) ELSE NewBucket]
  /\ swept' = IF sweeping THEN swept + 1 ELSE swept
  /\ UNCHANGED <<clients, requestVars, todo, condemned, sweeping>>

Allow(q) == RefuseLocked(q) \/ Grant(q) \/ RefuseEmpty(q)
Cleanup  == (\E c \in Clients : Inspect(c)) \/ DeleteStale \/ EndSweep

Next ==
  \/ \E q \in Requests : (\E c \in Clients : Ask(q, c)) \/ Allow(q) \/ Finish(q)
  \/ StartSweep
  \/ Cleanup
  \/ Tick

Spec == Init /\ [][Next]_vars

\* Goroutines that can run do run, the ticker fires again and again and time
\* passes.  No client is bound to ask.
FairSpec ==
  /\ Spec
  /\ \A q \in Requests : WF_vars(Allow(q)) /\ WF_vars(Finish(q))
  /\ WF_vars(StartSweep)
  /\ WF_vars(Cleanup)
  /\ WF_vars(Tick)

=============================================================================
