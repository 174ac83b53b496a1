-------------------------- MODULE RateLimiter_proofs --------------------------
(***************************************************************************)
(* The rate limiter implements RateBound, for any number of clients and    *)
(* requests and any rate.  The arithmetic of a single bucket comes first,  *)
(* then the invariant that ties requests, map and cleanup together, then   *)
(* the refinement, action by action.  Last, what the account comes to for  *)
(* somebody who counts requests and ticks.                                 *)
(***************************************************************************)
EXTENDS RateWindow, TLAPS

-----------------------------------------------------------------------------
(* Arithmetic.                                                             *)

\* Integer division, in the form the proofs use it.
LEMMA Floor ==
  ASSUME NEW a \in Nat, NEW m \in Nat \ {0}
  PROVE  /\ a \div m \in Nat
         /\ (a \div m) * m <= a
         /\ a < (a \div m) * m + m
  OBVIOUS

\* TokensToAdd is the whole number of tokens that the time since the last
\* refill is worth.
LEMMA TokensToAddBounds ==
  ASSUME NEW a \in Nat
  PROVE  /\ TokensToAdd(a) \in Nat
         /\ TokensToAdd(a) * Minute <= requestsPerMin * a
         /\ requestsPerMin * a < TokensToAdd(a) * Minute + Minute
<1>1. requestsPerMin * a \in Nat /\ Minute \in Nat \ {0}
  BY RateConstants
<1> QED
  BY <1>1, Floor DEF TokensToAdd

\* What is known of the fields of a bucket.
LEMMA BucketFields ==
  ASSUME NEW bk \in Bucket
  PROVE  /\ bk.tokens \in Nat /\ bk.tokens <= requestsPerMin
         /\ bk.age \in Nat /\ bk.age <= MaxAge
         /\ bk.violations \in Nat
         /\ bk.lockout \in BOOLEAN
         /\ bk.left \in Int
  BY RateConstants DEF Bucket, MaxAge

\* The operators on a bucket return buckets.
LEMMA BucketOperators ==
  /\ NewBucket \in Bucket
  /\ \A bk \in Bucket : /\ AfterLockout(bk) \in Bucket
                        /\ Refilled(bk) \in Bucket
                        /\ Violated(bk) \in Bucket
                        /\ Older(bk) \in Bucket
                        /\ bk.tokens > 0 => [bk EXCEPT !.tokens = bk.tokens - 1] \in Bucket
<1>1. NewBucket \in Bucket
  BY RateConstants DEF NewBucket, Bucket, MaxAge
<1>2. ASSUME NEW bk \in Bucket PROVE AfterLockout(bk) \in Bucket
  <2>1. CASE bk.lockout /\ bk.left < 0
    <3>1. AfterLockout(bk) = [bk EXCEPT !.lockout = FALSE, !.left = 0, !.violations = 0]
      BY <2>1 DEF AfterLockout
    <3>2. 0 \in 0..maxViolations /\ 0 \in (-1 - MaxSweep)..lockoutDuration
      BY RateConstants
    <3> QED
      BY <3>1, <3>2 DEF Bucket
  <2>2. CASE ~(bk.lockout /\ bk.left < 0)
    BY <2>2 DEF AfterLockout
  <2> QED
    BY <2>1, <2>2
<1>3. ASSUME NEW bk \in Bucket PROVE Refilled(bk) \in Bucket
  <2>1. TokensToAdd(bk.age) \in Nat
    BY TokensToAddBounds, BucketFields
  <2>2. CASE bk.age >= Minute
    <3>1. Refilled(bk) = [bk EXCEPT !.tokens = requestsPerMin, !.age = 0]
      BY <2>2 DEF Refilled
    <3>2. 0 \in 0..MaxAge /\ requestsPerMin \in 0..requestsPerMin
      BY RateConstants DEF MaxAge
    <3> QED
      BY <3>1, <3>2 DEF Bucket
  <2>3. CASE ~(bk.age >= Minute)
    <3> DEFINE t == Smaller(bk.tokens + TokensToAdd(bk.age), requestsPerMin)
               a == IF TokensToAdd(bk.age) > 0 THEN 0 ELSE bk.age
    <3>1. Refilled(bk) = [bk EXCEPT !.tokens = t, !.age = a]
      BY <2>3 DEF Refilled
    <3>2. t \in 0..requestsPerMin /\ a \in 0..MaxAge
      BY <2>1, BucketFields, RateConstants DEF Smaller, MaxAge
    <3> HIDE DEF t, a
    <3> QED
      BY <3>1, <3>2 DEF Bucket
  <2> QED
    BY <2>2, <2>3
<1>4. ASSUME NEW bk \in Bucket PROVE Violated(bk) \in Bucket
  <2> DEFINE v == Smaller(bk.violations + 1, maxViolations)
  <2>1. v \in 0..maxViolations
    BY BucketFields, RateConstants DEF Smaller
  <2>2. Violated(bk) = IF lockoutDuration > 0 /\ v >= maxViolations
                       THEN [bk EXCEPT !.violations = v, !.lockout = TRUE, !.left = lockoutDuration]
                       ELSE [bk EXCEPT !.violations = v]
    BY DEF Violated
  <2> HIDE DEF v
  <2>3. lockoutDuration \in (-1 - MaxSweep)..lockoutDuration
    BY RateConstants
  <2> QED
    BY <2>1, <2>2, <2>3 DEF Bucket
<1>5. ASSUME NEW bk \in Bucket PROVE Older(bk) \in Bucket
  <2> DEFINE a == Smaller(bk.age + 1, MaxAge)
             l == IF bk.lockout THEN Larger(bk.left - 1, -1 - MaxSweep) ELSE bk.left
  <2>1. a \in 0..MaxAge
    BY BucketFields, RateConstants DEF Smaller, MaxAge
  <2>2. l \in (-1 - MaxSweep)..lockoutDuration
    BY RateConstants DEF Larger, Bucket
  <2>3. Older(bk) = [bk EXCEPT !.age = a, !.left = l]
    BY DEF Older
  <2> HIDE DEF a, l
  <2> QED
    BY <2>1, <2>2, <2>3 DEF Bucket
<1>6. ASSUME NEW bk \in Bucket, bk.tokens > 0
      PROVE  [bk EXCEPT !.tokens = bk.tokens - 1] \in Bucket
  BY <1>6, RateConstants DEF Bucket, MaxAge
<1> QED
  BY <1>1, <1>2, <1>3, <1>4, <1>5, <1>6

\* What a bucket is worth stays within the account.
LEMMA WorthType ==
  ASSUME NEW bk \in Bucket
  PROVE  Worth(bk) \in Nat /\ Worth(bk) <= FullCredit
<1>1. requestsPerMin * Minute \in Nat /\ bk.tokens * Minute \in Nat /\ requestsPerMin * bk.age \in Nat
  BY BucketFields, RateConstants
<1> QED
  BY <1>1, RateConstants DEF Worth, Smaller, FullCredit

\* The lockout does not touch tokens and age.
LEMMA AfterLockoutKeeps ==
  ASSUME NEW bk \in Bucket
  PROVE  /\ AfterLockout(bk).tokens = bk.tokens
         /\ AfterLockout(bk).age = bk.age
         /\ ~LockedOut(bk) => ~LockedOut(AfterLockout(bk))
  BY DEF AfterLockout, Bucket, LockedOut

\* A bucket that yields a token was worth a request, and loses less than two.
LEMMA ServingCosts ==
  ASSUME NEW bk \in Bucket, Refilled(bk).tokens > 0,
         NEW after, after = [Refilled(bk) EXCEPT !.tokens = Refilled(bk).tokens - 1]
  PROVE  \E cost \in Minute..(2 * Minute - 1) :
           cost <= Worth(bk) /\ Worth(after) = Worth(bk) - cost
<1> DEFINE R == requestsPerMin
           M == Minute
           t == bk.tokens
           a == bk.age
<1>0. R \in Nat \ {0} /\ M \in Nat \ {0} /\ t \in Nat /\ t <= R /\ a \in Nat
  BY RateConstants, BucketFields
<1>1. CASE a >= M
  <2>1. after.tokens = R - 1 /\ after.age = 0
    BY <1>1, <1>0 DEF Refilled, Bucket
  <2>2. Worth(after) = R * M - M
    <3>1. after.tokens * M + R * after.age = R * M - M
      BY <2>1, <1>0
    <3>2. R * M - M <= R * M + M - 1
      BY <1>0
    <3> QED
      BY <1>0, <3>1, <3>2 DEF Worth, Smaller, FullCredit
  <2>3. R * M <= Worth(bk) /\ Worth(bk) <= R * M + M - 1 /\ Worth(bk) \in Nat
    <3>1. R * M <= R * a
      BY <1>0, <1>1
    <3>2. R * M <= t * M + R * a
      BY <1>0, <3>1
    <3> QED
      BY <1>0, <3>2, WorthType DEF Worth, Smaller, FullCredit
  <2> DEFINE cost == Worth(bk) - Worth(after)
  <2>4. cost \in M..(2 * M - 1)
    BY <2>2, <2>3, <1>0
  <2>5. cost <= Worth(bk)
    BY <2>2, <2>3, <1>0
  <2>6. Worth(after) = Worth(bk) - cost
    BY <2>2, <2>3, <1>0
  <2> QED
    BY <2>4, <2>5, <2>6
<1>2. CASE ~(a >= M)
  <2> DEFINE k == TokensToAdd(a)
  <2>1. k \in Nat /\ k * M <= R * a /\ R * a < k * M + M
    BY TokensToAddBounds, <1>0
  <2>2. after.tokens = Smaller(t + k, R) - 1 /\ after.age = (IF k > 0 THEN 0 ELSE a)
    BY <1>2, <1>0 DEF Refilled, Bucket
  <2>3. Worth(bk) = Smaller(R * M + M - 1, t * M + R * a) /\ Worth(bk) \in Nat
    BY WorthType DEF Worth, FullCredit
  <2> HIDE DEF k
  <2>4. CASE k = 0
    <3>1. after.tokens = t - 1 /\ after.age = a /\ t > 0
      BY <2>2, <2>4, <1>0, <1>2 DEF Smaller, Refilled, Bucket, k
    <3>2. (t - 1) * M + R * a = t * M + R * a - M
      BY <1>0
    <3>3. t * M <= R * M /\ R * a < M /\ t * M \in Nat /\ R * a \in Nat /\ R * M \in Nat /\ M <= t * M
      BY <1>0, <2>1, <2>4, <3>1
    <3>4. Worth(bk) = t * M + R * a
      BY <2>3, <3>3, <1>0 DEF Smaller
    <3>5. Worth(after) = t * M + R * a - M
      BY <3>1, <3>2, <3>3, <1>0 DEF Worth, FullCredit, Smaller
    <3>6. M \in M..(2 * M - 1) /\ M <= Worth(bk) /\ Worth(after) = Worth(bk) - M
      BY <3>3, <3>4, <3>5, <1>0
    <3> QED
      BY <3>6
  <2>5. CASE k > 0
    <3> DEFINE s == Smaller(t + k, R)
    <3>1. after.tokens = s - 1 /\ after.age = 0 /\ s \in Nat /\ s > 0 /\ s <= R /\ s <= t + k
      BY <2>2, <2>5, <2>1, <1>0 DEF Smaller
    <3>2. Worth(after) = s * M - M
      <4>1. after.tokens * M + R * after.age = s * M - M /\ s * M \in Nat
        BY <3>1, <1>0
      <4>2. s * M <= R * M
        BY <3>1, <1>0
      <4> HIDE DEF s
      <4> QED
        BY <4>1, <4>2, <1>0 DEF Worth, FullCredit, Smaller
    <3>3. s * M <= Worth(bk) /\ Worth(bk) <= s * M + M - 1
      <4>1. CASE s = R
        <5>1. R * M <= t * M + R * a
          <6>1. R * M <= (t + k) * M
            BY <4>1, <3>1, <2>1, <1>0
          <6>2. (t + k) * M = t * M + k * M
            BY <2>1, <1>0
          <6> QED
            BY <6>1, <6>2, <2>1, <1>0
        <5> QED
          BY <5>1, <4>1, <2>3, <1>0 DEF Smaller
      <4>2. CASE s = t + k
        <5>1. s * M = t * M + k * M
          BY <4>2, <2>1, <1>0
        <5>2. s * M <= R * M
          BY <3>1, <1>0
        <5> QED
          BY <5>1, <5>2, <2>1, <2>3, <1>0 DEF Smaller
      <4> QED
        BY <4>1, <4>2 DEF Smaller
    <3> DEFINE cost == Worth(bk) - Worth(after)
    <3>4. M <= s * M
      BY <3>1, <1>0
    <3> HIDE DEF s
    <3>5. cost \in M..(2 * M - 1) /\ cost <= Worth(bk) /\ Worth(after) = Worth(bk) - cost
      BY <3>1, <3>2, <3>3, <3>4, <2>3, <1>0
    <3> QED
      BY <3>5
  <2> QED
    BY <2>1, <2>4, <2>5
<1> QED
  BY <1>1, <1>2

\* A bucket that yields no token is worth less than a request, and stays so.
LEMMA RefusingIsDue ==
  ASSUME NEW bk \in Bucket, Refilled(bk).tokens = 0
  PROVE  Worth(bk) < Minute /\ Worth(Violated(Refilled(bk))) = Worth(bk)
<1> DEFINE R == requestsPerMin
           M == Minute
           t == bk.tokens
           a == bk.age
           k == TokensToAdd(a)
<1>0. R \in Nat \ {0} /\ M \in Nat \ {0} /\ t \in Nat /\ t <= R /\ a \in Nat
  BY RateConstants, BucketFields
<1>1. k \in Nat /\ k * M <= R * a /\ R * a < k * M + M
  BY TokensToAddBounds, <1>0
<1>2. ~(a >= M)
  BY <1>0 DEF Refilled, Bucket
<1>3. t = 0 /\ k = 0 /\ Refilled(bk).age = a /\ Refilled(bk).tokens = 0
  BY <1>0, <1>1, <1>2 DEF Refilled, Bucket, Smaller
<1>4. Violated(Refilled(bk)).tokens = 0 /\ Violated(Refilled(bk)).age = a
  BY <1>3, BucketOperators DEF Violated, Bucket
<1>5. R * a < M /\ R * a \in Nat /\ R * M \in Nat
  BY <1>0, <1>1, <1>3
<1> HIDE DEF k
<1>6. Worth(bk) = R * a
  BY <1>0, <1>3, <1>5 DEF Worth, FullCredit, Smaller
<1>7. Worth(Violated(Refilled(bk))) = R * a
  BY <1>0, <1>4, <1>5 DEF Worth, FullCredit, Smaller
<1> QED
  BY <1>5, <1>6, <1>7

\* A bucket old enough for cleanup is worth a full account, and not locked.
LEMMA StaleIsFull ==
  ASSUME NEW bk \in Bucket, swept \in Nat, Stale(bk)
  PROVE  Worth(bk) = FullCredit /\ TimeLeft(bk) = 0
<1>1. bk.age \in Nat /\ bk.age >= 2 * Minute /\ bk.tokens \in Nat
  BY BucketFields, RateConstants DEF Stale
<1>2. requestsPerMin * bk.age >= requestsPerMin * (2 * Minute)
  BY <1>1, RateConstants
<1>3. requestsPerMin * (2 * Minute) >= requestsPerMin * Minute + Minute
  BY RateConstants
<1>4. bk.tokens * Minute \in Nat /\ requestsPerMin * bk.age \in Nat /\ requestsPerMin * Minute \in Nat
  BY <1>1, RateConstants
<1>5. Worth(bk) = FullCredit
  BY <1>2, <1>3, <1>4, RateConstants DEF Worth, FullCredit, Smaller
<1>6. TimeLeft(bk) = 0
  BY BucketFields DEF Stale, TimeLeft, LockedOut
<1> QED
  BY <1>5, <1>6

\* A tick adds what a tick brings, up to the full account.
LEMMA TickAdds ==
  ASSUME NEW bk \in Bucket
  PROVE  /\ Worth(Older(bk)) = IF Worth(bk) + requestsPerMin <= FullCredit
                               THEN Worth(bk) + requestsPerMin ELSE FullCredit
         /\ TimeLeft(Older(bk)) = IF TimeLeft(bk) > 0 THEN TimeLeft(bk) - 1 ELSE 0
<1> DEFINE R == requestsPerMin
           M == Minute
<1>0. R \in Nat \ {0} /\ M \in Nat \ {0} /\ bk.tokens \in Nat /\ bk.age \in Nat
  BY RateConstants, BucketFields
<1>1. Older(bk).tokens = bk.tokens /\ Older(bk).age = Smaller(bk.age + 1, MaxAge)
  BY DEF Older, Bucket
<1>2. bk.tokens * M \in Nat /\ R * bk.age \in Nat /\ R * M \in Nat
  BY <1>0
<1>6. TimeLeft(Older(bk)) = IF TimeLeft(bk) > 0 THEN TimeLeft(bk) - 1 ELSE 0
  BY BucketFields, RateConstants DEF TimeLeft, Older, LockedOut, Larger, Bucket
<1>3. CASE bk.age < MaxAge
  <2>1. Older(bk).age = bk.age + 1 /\ R * (bk.age + 1) = R * bk.age + R
    BY <1>0, <1>1, <1>3, RateConstants DEF Smaller, MaxAge
  <2>2. Worth(Older(bk)) = Smaller(FullCredit, bk.tokens * M + R * bk.age + R)
    BY <1>0, <1>1, <1>2, <2>1 DEF Worth
  <2>3. Worth(bk) = Smaller(FullCredit, bk.tokens * M + R * bk.age) /\ FullCredit \in Nat
    BY <1>0, <1>2 DEF Worth, FullCredit
  <2>4. Worth(Older(bk)) = IF Worth(bk) + R <= FullCredit THEN Worth(bk) + R ELSE FullCredit
    BY <1>0, <1>2, <2>2, <2>3 DEF Smaller
  <2> QED
    BY <1>6, <2>4
<1>4. CASE bk.age >= MaxAge
  <2>1. Older(bk).age = bk.age /\ bk.age >= 2 * M
    BY <1>0, <1>1, <1>4, RateConstants, BucketFields DEF Smaller, MaxAge
  <2>2. R * bk.age >= R * (2 * M) /\ R * (2 * M) >= R * M + M
    BY <1>0, <2>1
  <2>3. bk.tokens * M + R * bk.age >= FullCredit /\ FullCredit \in Nat
    BY <1>0, <1>2, <2>2 DEF FullCredit
  <2>4. Worth(bk) = FullCredit /\ Worth(Older(bk)) = FullCredit
    BY <1>0, <1>1, <1>2, <2>1, <2>3 DEF Worth, Smaller
  <2> QED
    BY <1>0, <1>6, <2>3, <2>4
<1>5. MaxAge \in Nat
  BY RateConstants DEF MaxAge
<1> QED
  BY <1>0, <1>3, <1>4, <1>5, <1>6

-----------------------------------------------------------------------------
(* The invariant that ties requests, map and cleanup together.             *)

\* A request holds a bucket exactly while Allow is at work for it.
HeldWhileAsking == \A q \in Requests : (pc[q] = "asking") <=> (held[q] # NoBucket)

\* Every request that is under way has a client.
FromIsKnown == \A q \in Requests : pc[q] # "idle" => from[q] \in Clients

\* No two clients share a bucket, and no request holds another client's.
OneOwner ==
  /\ \A c, d \in Clients : clients[c] = clients[d] /\ clients[c] # NoBucket => c = d
  /\ \A q \in Requests, c \in Clients :
       held[q] # NoBucket /\ clients[c] = held[q] => from[q] = c

\* Cleanup looks at buckets in the map only, while it holds the map's mutex.
SweepIsLocked ==
  /\ condemned # NoClient => sweeping /\ clients[condemned] # NoBucket
  /\ todo # {} => sweeping
  /\ \A c \in todo : clients[c] # NoBucket /\ c # condemned

IInv == TypeOK /\ HeldWhileAsking /\ FromIsKnown /\ OneOwner /\ SweepIsLocked

\* IInv holds at the start.
LEMMA InitIInv == Init => IInv
<1> SUFFICES ASSUME Init PROVE IInv
  OBVIOUS
<1>1. TypeOK
  <2>1. 0 \in 0..MaxSweep
    BY RateConstants
  <2> QED
    BY <2>1, BucketOperators DEF Init, TypeOK
<1>2. HeldWhileAsking /\ FromIsKnown /\ OneOwner /\ SweepIsLocked
  BY RateConstants DEF Init, HeldWhileAsking, FromIsKnown, OneOwner, SweepIsLocked
<1> QED
  BY <1>1, <1>2 DEF IInv

\* What an answer writes is a bucket.
LEMMA CurrentIsBucket ==
  ASSUME TypeOK, NEW q \in Requests, held[q] \in Buckets
  PROVE  bucket[held[q]] \in Bucket /\ AfterLockout(bucket[held[q]]) \in Bucket /\ Current(q) \in Bucket
  BY BucketOperators DEF TypeOK, Current

\* Every step keeps IInv.
LEMMA NextIInv == IInv /\ [Next]_vars => IInv'
<1> SUFFICES ASSUME IInv, [Next]_vars PROVE IInv'
  OBVIOUS
<1> USE DEF IInv
<1>0. HeldWhileAsking /\ FromIsKnown /\ OneOwner /\ SweepIsLocked /\ TypeOK
  OBVIOUS
<1>1. ASSUME NEW q \in Requests, NEW c \in Clients, Ask(q, c) PROVE IInv'
  <2>1. TypeOK'
    BY <1>1, BucketOperators DEF Ask, TypeOK, cleanVars
  <2>2. HeldWhileAsking'
    BY <1>1, RateConstants DEF Ask, TypeOK, HeldWhileAsking
  <2>3. FromIsKnown'
    BY <1>1 DEF Ask, TypeOK, FromIsKnown
  <2>4. OneOwner'
    <3>1. CASE clients[c] # NoBucket
      BY <1>1, <3>1 DEF Ask, TypeOK, OneOwner
    <3>2. CASE clients[c] = NoBucket
      <4>1. PICK b \in Buckets : /\ ~InUse(b)
                                 /\ clients' = [clients EXCEPT ![c] = b]
                                 /\ held' = [held EXCEPT ![q] = b]
        BY <1>1, <3>2 DEF Ask
      <4>2. from' = [from EXCEPT ![q] = c]
        BY <1>1 DEF Ask
      <4>3. ASSUME NEW x \in Clients, NEW y \in Clients, clients'[x] = clients'[y],
                   clients'[x] # NoBucket
            PROVE  x = y
        BY <4>1, <4>3 DEF InUse, TypeOK, OneOwner
      <4>4. ASSUME NEW p \in Requests, NEW x \in Clients, held'[p] # NoBucket,
                   clients'[x] = held'[p]
            PROVE  from'[p] = x
        BY <4>1, <4>2, <4>4 DEF InUse, TypeOK, OneOwner
      <4> QED
        BY <4>3, <4>4 DEF OneOwner
    <3> QED
      BY <3>1, <3>2
  <2>5. SweepIsLocked'
    BY <1>1 DEF Ask, TypeOK, SweepIsLocked, cleanVars
  <2> QED
    BY <2>1, <2>2, <2>3, <2>4, <2>5
<1>2. ASSUME NEW q \in Requests, Allow(q) PROVE IInv'
  <2>1. pc[q] = "asking" /\ held[q] \in Buckets
    BY <1>2 DEF Allow, RefuseLocked, Grant, RefuseEmpty, HeldWhileAsking, TypeOK
  <2>2. /\ pc' \in {[pc EXCEPT ![q] = "denied"], [pc EXCEPT ![q] = "allowed"]}
        /\ held' = [held EXCEPT ![q] = NoBucket]
        /\ UNCHANGED <<clients, from, cleanVars>>
    BY <1>2 DEF Allow, RefuseLocked, Grant, RefuseEmpty
  <2>3. bucket' \in [Buckets -> Bucket]
    <3>1. CASE RefuseLocked(q)
      BY <3>1 DEF RefuseLocked, TypeOK
    <3>2. CASE Grant(q)
      <4>1. [Current(q) EXCEPT !.tokens = Current(q).tokens - 1] \in Bucket
        BY <3>2, <2>1, CurrentIsBucket, BucketOperators DEF Grant
      <4> QED
        BY <4>1, <3>2 DEF Grant, TypeOK
    <3>3. CASE RefuseEmpty(q)
      <4>1. Violated(Current(q)) \in Bucket
        BY <2>1, CurrentIsBucket, BucketOperators
      <4> QED
        BY <4>1, <3>3 DEF RefuseEmpty, TypeOK
    <3> QED
      BY <1>2, <3>1, <3>2, <3>3 DEF Allow
  <2>4. TypeOK'
    BY <2>2, <2>3 DEF TypeOK, cleanVars
  <2>5. HeldWhileAsking' /\ FromIsKnown'
    BY <2>1, <2>2 DEF TypeOK, HeldWhileAsking, FromIsKnown
  <2>6. OneOwner'
    BY <2>2 DEF TypeOK, OneOwner
  <2>7. SweepIsLocked'
    BY <2>2 DEF SweepIsLocked, cleanVars
  <2> QED
    BY <2>4, <2>5, <2>6, <2>7
<1>3. ASSUME NEW q \in Requests, Finish(q) PROVE IInv'
  <2>1. held[q] = NoBucket
    BY <1>3 DEF Finish, HeldWhileAsking
  <2>2. TypeOK'
    BY <1>3 DEF Finish, TypeOK, cleanVars
  <2>3. HeldWhileAsking' /\ FromIsKnown' /\ OneOwner'
    BY <1>3, <2>1 DEF Finish, TypeOK, HeldWhileAsking, FromIsKnown, OneOwner
  <2>4. SweepIsLocked'
    BY <1>3 DEF Finish, SweepIsLocked, cleanVars
  <2> QED
    BY <2>2, <2>3, <2>4
<1>4. CASE StartSweep
  BY <1>4, RateConstants
     DEF StartSweep, requestVars, TypeOK, HeldWhileAsking, FromIsKnown, OneOwner, SweepIsLocked
<1>5. ASSUME NEW c \in Clients, Inspect(c) PROVE IInv'
  BY <1>5, RateConstants
     DEF Inspect, requestVars, TypeOK, HeldWhileAsking, FromIsKnown, OneOwner, SweepIsLocked
<1>6. CASE DeleteStale
  BY <1>6, RateConstants
     DEF DeleteStale, requestVars, TypeOK, HeldWhileAsking, FromIsKnown, OneOwner, SweepIsLocked
<1>7. CASE EndSweep
  <2>1. 0 \in 0..MaxSweep
    BY RateConstants
  <2> QED
    BY <1>7, <2>1
       DEF EndSweep, requestVars, TypeOK, HeldWhileAsking, FromIsKnown, OneOwner, SweepIsLocked
<1>8. CASE Tick
  <2>1. bucket' \in [Buckets -> Bucket]
    BY <1>8, BucketOperators DEF Tick, TypeOK
  <2>2. swept' \in 0..MaxSweep
    BY <1>8, RateConstants DEF Tick, TypeOK
  <2> QED
    BY <1>8, <2>1, <2>2
       DEF Tick, requestVars, TypeOK, HeldWhileAsking, FromIsKnown, OneOwner, SweepIsLocked
<1>9. CASE UNCHANGED vars
  BY <1>9 DEF vars, requestVars, cleanVars,
              TypeOK, HeldWhileAsking, FromIsKnown, OneOwner, SweepIsLocked
<1> QED
  BY <1>1, <1>2, <1>3, <1>4, <1>5, <1>6, <1>7, <1>8, <1>9 DEF Next, Cleanup

\* The map, the requests and the cleanup loop agree with each other, and no
\* bucket leaves its range: tokens never go below zero or above a full bucket.
THEOREM RateLimiterInvariant == Spec => []IInv
<1> QED
  BY InitIInv, NextIInv, PTL DEF Spec

\* Type correctness: a bucket never holds fewer than no tokens or more than
\* the rate.
THEOREM TypeCorrect == Spec => []TypeOK
<1>1. IInv => TypeOK
  BY DEF IInv
<1> QED
  BY <1>1, RateLimiterInvariant, PTL

-----------------------------------------------------------------------------
(* The refinement.                                                         *)

\* The initial states are initial states of RateBound.
LEMMA InitRefines == Init => Bound!Init
<1> SUFFICES ASSUME Init PROVE Bound!Init
  OBVIOUS
<1>1. \A c \in Clients : ~Kept(c)
  BY DEF Init, Kept
<1>2. Credits = [c \in Clients |-> Bound!Full] /\ Bans = [c \in Clients |-> 0]
  BY <1>1 DEF Credits, Bans, Credit, Ban, FullCredit, Bound!Full
<1>3. Late = {}
  BY DEF Init, Late, Overtaken
<1> QED
  BY <1>2, <1>3 DEF Init, Bound!Init

\* Where the map, what is condemned and the kept buckets stay as they are, so
\* do the accounts.
LEMMA SameAccounts ==
  ASSUME UNCHANGED <<clients, condemned>>,
         \A c \in Clients : Kept(c) => bucket'[clients[c]] = bucket[clients[c]]
  PROVE  UNCHANGED <<Credits, Bans>>
<1>1. \A c \in Clients : Kept(c)' = Kept(c)
  BY DEF Kept
<1> QED
  BY <1>1 DEF Credits, Bans, Credit, Ban

\* Where a request with a kept bucket works, only its client's account moves.
LEMMA OneAccount ==
  ASSUME IInv, NEW q \in Requests, pc[q] = "asking", UNCHANGED <<clients, condemned>>,
         NEW bk, bucket' = [bucket EXCEPT ![held[q]] = bk]
  PROVE  /\ q \in Late => UNCHANGED <<Credits, Bans>>
         /\ q \notin Late =>
              /\ from[q] \in Clients
              /\ Credits[from[q]] = Worth(bucket[held[q]])
              /\ Bans[from[q]] = TimeLeft(bucket[held[q]])
              /\ Credits' = [Credits EXCEPT ![from[q]] = Worth(bk)]
              /\ Bans' = [Bans EXCEPT ![from[q]] = TimeLeft(bk)]
<1>1. held[q] \in Buckets /\ from[q] \in Clients
  BY DEF IInv, TypeOK, HeldWhileAsking, FromIsKnown
<1>2. \A c \in Clients : clients[c] = held[q] => from[q] = c
  BY <1>1, RateConstants DEF IInv, OneOwner
<1>3. CASE q \in Late
  <2>1. \A c \in Clients : Kept(c) => clients[c] # held[q]
    BY <1>2, <1>3 DEF Late, Overtaken
  <2>2. \A c \in Clients : Kept(c) => bucket'[clients[c]] = bucket[clients[c]]
    BY <2>1 DEF IInv, TypeOK, Kept
  <2> QED
    BY <1>3, <2>2, SameAccounts
<1>4. CASE q \notin Late
  <2>0. PICK u \in Clients : u = from[q]
    BY <1>1
  <2>1. Kept(u) /\ clients[u] = held[q]
    BY <1>4, <2>0 DEF Late, Overtaken
  <2>2. \A c \in Clients : Kept(c)' = Kept(c)
    BY DEF Kept
  <2>3. \A c \in Clients \ {u} : Kept(c) => bucket'[clients[c]] = bucket[clients[c]]
    BY <1>2, <2>0 DEF IInv, TypeOK, Kept
  <2>4. bucket'[clients[u]] = bk
    BY <1>1, <2>1 DEF IInv, TypeOK
  <2>5. Credits[from[q]] = Worth(bucket[held[q]]) /\ Bans[from[q]] = TimeLeft(bucket[held[q]])
    BY <2>0, <2>1 DEF Credits, Bans, Credit, Ban
  <2>6. /\ \A c \in Clients \ {u} : Credit(c)' = Credit(c) /\ Ban(c)' = Ban(c)
        /\ Credit(u)' = Worth(bucket'[clients[u]]) /\ Ban(u)' = TimeLeft(bucket'[clients[u]])
    BY <2>1, <2>2, <2>3 DEF Credit, Ban
  <2>7. Credits' = [Credits EXCEPT ![from[q]] = Worth(bk)]
    BY <2>0, <2>4, <2>6 DEF Credits
  <2>8. Bans' = [Bans EXCEPT ![from[q]] = TimeLeft(bk)]
    BY <2>0, <2>4, <2>6 DEF Bans
  <2> QED
    BY <1>1, <1>4, <2>5, <2>7, <2>8
<1> QED
  BY <1>3, <1>4

\* An answered request is no longer late, and no other becomes late.
LEMMA AnsweredIsNotLate ==
  ASSUME IInv, NEW q \in Requests, pc[q] = "asking",
         NEW answer \in {"allowed", "denied"}, pc' = [pc EXCEPT ![q] = answer],
         held' = [held EXCEPT ![q] = NoBucket], UNCHANGED <<clients, from, condemned>>
  PROVE  Late' = Late \ {q}
<1>1. \A p \in Requests \ {q} : Overtaken(p)' = Overtaken(p)
  BY DEF Overtaken, Kept, IInv, TypeOK
<1>2. ~Overtaken(q)'
  BY DEF Overtaken, IInv, TypeOK
<1> QED
  BY <1>1, <1>2 DEF Late

\* A request that arrives is one that asks.
LEMMA AskRefines ==
  ASSUME IInv, NEW q \in Requests, NEW c \in Clients, Ask(q, c)
  PROVE  Bound!Ask(q, c)
<1>1. condemned = NoClient /\ condemned' = NoClient /\ c # NoClient /\ pc[q] # "asking"
  BY RateConstants DEF Ask, IInv, SweepIsLocked, cleanVars
<1>2. held[q] = NoBucket
  BY <1>1 DEF IInv, HeldWhileAsking
<1>3. /\ pc' = [pc EXCEPT ![q] = "asking"]
      /\ from' = [from EXCEPT ![q] = c]
      /\ pc[q] = "idle"
  BY DEF Ask
<1>4. CASE clients[c] # NoBucket
  <2>1. held' = [held EXCEPT ![q] = clients[c]] /\ UNCHANGED <<bucket, clients>>
    BY <1>4 DEF Ask
  <2>2. UNCHANGED <<Credits, Bans>>
    BY <1>1, <2>1, SameAccounts
  <2>3. \A p \in Requests : Overtaken(p)' = Overtaken(p)
    BY <1>1, <1>3, <1>4, <2>1 DEF Overtaken, Kept, IInv, TypeOK
  <2>4. UNCHANGED Late
    BY <2>3 DEF Late
  <2> QED
    BY <1>3, <2>2, <2>4 DEF Bound!Ask
<1>5. CASE clients[c] = NoBucket
  <2>1. PICK b \in Buckets : /\ ~InUse(b)
                             /\ bucket' = [bucket EXCEPT ![b] = NewBucket]
                             /\ clients' = [clients EXCEPT ![c] = b]
                             /\ held' = [held EXCEPT ![q] = b]
    BY <1>5 DEF Ask
  <2>2. /\ \A d \in Clients \ {c} : clients'[d] = clients[d] /\ clients[d] # b
        /\ clients'[c] = b /\ bucket'[b] = NewBucket /\ b # NoBucket
        /\ \A p \in Requests : held[p] # b
    BY <2>1, RateConstants DEF InUse, IInv, TypeOK
  <2>3. \A d \in Clients \ {c} : Kept(d)' = Kept(d)
    BY <1>1, <2>2 DEF Kept
  <2>4. ~Kept(c) /\ Kept(c)'
    BY <1>1, <1>5, <2>2 DEF Kept
  <2>5. \A d \in Clients \ {c} : Kept(d) => bucket'[clients[d]] = bucket[clients[d]]
    BY <2>1, <2>2 DEF IInv, TypeOK, Kept
  <2>6. \A d \in Clients \ {c} : Credit(d)' = Credit(d) /\ Ban(d)' = Ban(d)
    BY <2>2, <2>3, <2>5 DEF Credit, Ban
  <2>7. Worth(NewBucket) = requestsPerMin * Minute /\ TimeLeft(NewBucket) = 0
    BY RateConstants DEF Worth, NewBucket, FullCredit, Smaller, TimeLeft, LockedOut
  <2>8. /\ Credit(c) = FullCredit /\ Credit(c)' = requestsPerMin * Minute
        /\ Ban(c) = 0 /\ Ban(c)' = 0
    <3>1. Credit(c)' = Worth(NewBucket) /\ Ban(c)' = TimeLeft(NewBucket)
      BY <2>2, <2>4 DEF Credit, Ban
    <3> QED
      BY <2>4, <2>7, <3>1 DEF Credit, Ban
  <2>9. /\ Credits[c] = Bound!Full
        /\ Credits' = [Credits EXCEPT ![c] = requestsPerMin * Minute]
        /\ UNCHANGED Bans
    BY <2>6, <2>8 DEF Credits, Bans, FullCredit, Bound!Full
  <2>10. \A p \in Requests : Overtaken(p)' <=> Overtaken(p)
    <3>1. ~Overtaken(q) /\ ~Overtaken(q)'
      BY <1>1, <1>3, <2>1, <2>2, <2>4 DEF Overtaken, IInv, TypeOK
    <3>2. ASSUME NEW p \in Requests \ {q} PROVE Overtaken(p)' <=> Overtaken(p)
      <4>1. pc'[p] = pc[p] /\ from'[p] = from[p] /\ held'[p] = held[p]
        BY <1>3, <2>1 DEF IInv, TypeOK
      <4>2. CASE from[p] = c
        BY <1>5, <2>2, <2>4, <4>1, <4>2 DEF Overtaken
      <4>3. CASE pc[p] = "asking" /\ from[p] # c
        <5>1. from[p] \in Clients \ {c}
          BY <4>3 DEF IInv, FromIsKnown
        <5> QED
          BY <2>2, <2>3, <4>1, <5>1 DEF Overtaken
      <4>4. CASE pc[p] # "asking"
        BY <4>1, <4>4 DEF Overtaken
      <4> QED
        BY <4>2, <4>3, <4>4
    <3> QED
      BY <3>1, <3>2
  <2>11. UNCHANGED Late
    BY <2>10 DEF Late
  <2> QED
    BY <1>3, <2>9, <2>11 DEF Bound!Ask
<1> QED
  BY <1>4, <1>5

\* What Allow decides is a request served, refused, or answered on a bucket
\* the clean-up has taken away.
LEMMA AllowRefines ==
  ASSUME IInv, NEW q \in Requests, Allow(q)
  PROVE  Bound!Serve(q) \/ Bound!Refuse(q) \/ Bound!AnswerLate(q)
<1> DEFINE bk == bucket[held[q]]
           now == AfterLockout(bk)
<1>0. /\ pc[q] = "asking"
      /\ held' = [held EXCEPT ![q] = NoBucket]
      /\ UNCHANGED <<clients, from, condemned>>
  BY DEF Allow, RefuseLocked, Grant, RefuseEmpty, cleanVars
<1>1. held[q] \in Buckets /\ bk \in Bucket /\ now \in Bucket
  BY <1>0, CurrentIsBucket DEF IInv, TypeOK, HeldWhileAsking
<1>2. Worth(now) = Worth(bk)
  BY <1>1, AfterLockoutKeeps DEF Worth
<1>3. Current(q) = Refilled(now)
  BY DEF Current
<1>4. bucket = [bucket EXCEPT ![held[q]] = bk]
  BY <1>1 DEF IInv, TypeOK
<1>5. Late' = Late \ {q}
  BY <1>0, AnsweredIsNotLate DEF Allow, RefuseLocked, Grant, RefuseEmpty
<1>6. CASE RefuseLocked(q)
  <2>1. bucket' = [bucket EXCEPT ![held[q]] = bk] /\ pc' = [pc EXCEPT ![q] = "denied"] /\ LockedOut(bk)
    BY <1>4, <1>6 DEF RefuseLocked
  <2>2. TimeLeft(bk) > 0
    BY <2>1 DEF TimeLeft, LockedOut
  <2>3. UNCHANGED <<Credits, Bans>>
    BY <1>0, <1>6, SameAccounts DEF RefuseLocked
  <2>4. CASE q \in Late
    BY <1>0, <1>5, <2>1, <2>3, <2>4 DEF Bound!AnswerLate
  <2>5. CASE q \notin Late
    <3>1. Bans[from[q]] > 0
      BY <1>0, <2>1, <2>2, <2>5, OneAccount
    <3> QED
      BY <1>0, <1>5, <2>1, <2>3, <2>5, <3>1 DEF Bound!Refuse
  <2> QED
    BY <2>4, <2>5
<1>7. CASE Grant(q)
  <2> DEFINE after == [Refilled(now) EXCEPT !.tokens = Refilled(now).tokens - 1]
  <2>1. /\ bucket' = [bucket EXCEPT ![held[q]] = after]
        /\ pc' = [pc EXCEPT ![q] = "allowed"]
        /\ ~LockedOut(bk)
        /\ Refilled(now).tokens > 0
    BY <1>3, <1>7 DEF Grant
  <2>2. PICK cost \in Minute..(2 * Minute - 1) :
              cost <= Worth(now) /\ Worth(after) = Worth(now) - cost
    BY <1>1, <2>1, ServingCosts
  <2>3. TimeLeft(bk) = 0 /\ TimeLeft(after) = 0
    <3>1. ~LockedOut(now)
      BY <1>1, <2>1, AfterLockoutKeeps
    <3>2. ~LockedOut(after)
      BY <1>1, <3>1 DEF LockedOut, Refilled, Bucket
    <3> QED
      BY <2>1, <3>2 DEF TimeLeft
  <2> HIDE DEF after, bk, now
  <2>4. CASE q \in Late
    <3>1. UNCHANGED <<Credits, Bans>>
      BY <1>0, <2>1, <2>4, OneAccount
    <3> QED
      BY <1>0, <1>5, <2>1, <2>4, <3>1 DEF Bound!AnswerLate
  <2>5. CASE q \notin Late
    <3>1. /\ from[q] \in Clients
          /\ Credits[from[q]] = Worth(now)
          /\ Bans[from[q]] = 0
          /\ Credits' = [Credits EXCEPT ![from[q]] = Worth(after)]
          /\ Bans' = [Bans EXCEPT ![from[q]] = 0]
      <4>1. /\ from[q] \in Clients
            /\ Credits[from[q]] = Worth(bucket[held[q]])
            /\ Bans[from[q]] = TimeLeft(bucket[held[q]])
            /\ Credits' = [Credits EXCEPT ![from[q]] = Worth(after)]
            /\ Bans' = [Bans EXCEPT ![from[q]] = TimeLeft(after)]
        BY <1>0, <2>1, <2>5, OneAccount
      <4> QED
        BY <1>2, <2>3, <4>1 DEF bk
    <3>2. UNCHANGED Bans
      BY <3>1 DEF Bans
    <3>3. UNCHANGED Late
      BY <1>5, <2>5
    <3> QED
      BY <1>0, <2>1, <2>2, <2>5, <3>1, <3>2, <3>3 DEF Bound!Serve
  <2> QED
    BY <2>4, <2>5
<1>8. CASE RefuseEmpty(q)
  <2> DEFINE after == Violated(Refilled(now))
  <2>1. /\ bucket' = [bucket EXCEPT ![held[q]] = after]
        /\ pc' = [pc EXCEPT ![q] = "denied"]
        /\ ~LockedOut(bk)
        /\ Refilled(now).tokens = 0
    BY <1>3, <1>8 DEF RefuseEmpty
  <2>2. Worth(now) < Minute /\ Worth(after) = Worth(now)
    BY <1>1, <2>1, RefusingIsDue
  <2>3. TimeLeft(bk) = 0 /\ TimeLeft(after) \in {0, lockoutDuration}
    <3>1. ~LockedOut(now)
      BY <1>1, <2>1, AfterLockoutKeeps
    <3>2. ~LockedOut(Refilled(now)) /\ Refilled(now) \in Bucket
      BY <1>1, <3>1, BucketOperators DEF LockedOut, Refilled, Bucket
    <3>3. TimeLeft(Violated(Refilled(now))) \in {0, lockoutDuration}
      BY <3>2, RateConstants DEF Violated, TimeLeft, LockedOut, Bucket
    <3> QED
      BY <2>1, <3>3 DEF TimeLeft
  <2> HIDE DEF after, bk, now
  <2>4. CASE q \in Late
    <3>1. UNCHANGED <<Credits, Bans>>
      BY <1>0, <2>1, <2>4, OneAccount
    <3> QED
      BY <1>0, <1>5, <2>1, <2>4, <3>1 DEF Bound!AnswerLate
  <2>5. CASE q \notin Late
    <3>1. /\ from[q] \in Clients
          /\ Credits[from[q]] = Worth(now)
          /\ Bans[from[q]] = 0
          /\ Credits' = [Credits EXCEPT ![from[q]] = Worth(now)]
          /\ Bans' = [Bans EXCEPT ![from[q]] = TimeLeft(after)]
      <4>1. /\ from[q] \in Clients
            /\ Credits[from[q]] = Worth(bucket[held[q]])
            /\ Bans[from[q]] = TimeLeft(bucket[held[q]])
            /\ Credits' = [Credits EXCEPT ![from[q]] = Worth(after)]
            /\ Bans' = [Bans EXCEPT ![from[q]] = TimeLeft(after)]
        BY <1>0, <2>1, <2>5, OneAccount
      <4> QED
        BY <1>2, <2>2, <2>3, <4>1 DEF bk
    <3>2. UNCHANGED Credits
      BY <3>1 DEF Credits
    <3>3. UNCHANGED Late
      BY <1>5, <2>5
    <3> QED
      BY <1>0, <2>1, <2>2, <2>3, <2>5, <3>1, <3>2, <3>3 DEF Bound!Refuse
  <2> QED
    BY <2>4, <2>5
<1> QED
  BY <1>6, <1>7, <1>8 DEF Allow

\* A handler that returns gives its place back.
LEMMA FinishRefines ==
  ASSUME IInv, NEW q \in Requests, Finish(q)
  PROVE  Bound!Finish(q)
<1>1. UNCHANGED <<Credits, Bans>>
  BY SameAccounts DEF Finish, cleanVars
<1>2. \A p \in Requests : Overtaken(p)' = Overtaken(p)
  BY DEF Finish, Overtaken, Kept, IInv, TypeOK, cleanVars
<1>3. UNCHANGED Late
  BY <1>2 DEF Late
<1> QED
  BY <1>1, <1>3 DEF Finish, Bound!Finish

\* A step that leaves requests, buckets, the map and what is condemned alone.
LEMMA StutterRefines ==
  ASSUME UNCHANGED <<bucket, clients, requestVars, condemned>>
  PROVE  UNCHANGED Bound!vars
<1>1. UNCHANGED <<Credits, Bans>>
  BY SameAccounts
<1>2. UNCHANGED Late
  BY DEF Late, Overtaken, Kept, requestVars
<1> QED
  BY <1>1, <1>2 DEF Bound!vars, requestVars

\* The clean-up that looks at a bucket forgets its client, at this moment, or
\* nobody.
LEMMA InspectRefines ==
  ASSUME IInv, NEW c \in Clients, Inspect(c)
  PROVE  Bound!Forget(c) \/ UNCHANGED Bound!vars
<1>1. CASE ~Stale(bucket[clients[c]])
  BY <1>1, StutterRefines DEF Inspect
<1>2. CASE Stale(bucket[clients[c]])
  <2>1. /\ condemned = NoClient /\ condemned' = c /\ c # NoClient
        /\ UNCHANGED <<bucket, clients, requestVars>>
        /\ clients[c] # NoBucket /\ clients[c] \in Buckets
    BY <1>2, RateConstants DEF Inspect, IInv, SweepIsLocked, TypeOK
  <2>2. bucket[clients[c]] \in Bucket /\ swept \in Nat
    BY <2>1, RateConstants DEF IInv, TypeOK
  <2>3. Worth(bucket[clients[c]]) = FullCredit /\ TimeLeft(bucket[clients[c]]) = 0
    BY <1>2, <2>2, StaleIsFull
  <2>4. ~Kept(c)' /\ \A d \in Clients \ {c} : Kept(d)' = Kept(d)
    BY <2>1, RateConstants DEF Kept
  <2>5. \A d \in Clients : Credit(d)' = Credit(d) /\ Ban(d)' = Ban(d)
    BY <2>1, <2>3, <2>4 DEF Credit, Ban
  <2>6. UNCHANGED <<Credits, Bans>>
    BY <2>5 DEF Credits, Bans
  <2>7. Credits[c] = Bound!Full /\ Bans[c] = 0
    BY <2>3 DEF Credits, Bans, Credit, Ban, FullCredit, Bound!Full
  <2>8. \A p \in Requests : Overtaken(p)' <=> Overtaken(p) \/ (pc[p] = "asking" /\ from[p] = c)
    <3>1. ASSUME NEW p \in Requests, pc[p] = "asking"
          PROVE  from[p] \in Clients
      BY <3>1 DEF IInv, FromIsKnown
    <3> QED
      BY <2>1, <2>4, <3>1 DEF Overtaken, requestVars
  <2>9. Late' = Late \cup {p \in Requests : pc[p] = "asking" /\ from[p] = c}
    BY <2>8 DEF Late
  <2> QED
    BY <2>1, <2>6, <2>7, <2>9 DEF Bound!Forget, requestVars
<1> QED
  BY <1>1, <1>2

\* Deleting a bucket found stale changes nothing in the account: the client
\* was forgotten when it was looked at.
LEMMA DeleteStaleRefines ==
  ASSUME IInv, DeleteStale
  PROVE  UNCHANGED Bound!vars
<1>1. \A c \in Clients : Kept(c)' = Kept(c) /\ (Kept(c) => clients'[c] = clients[c])
  BY RateConstants DEF DeleteStale, Kept, IInv, TypeOK
<1>2. UNCHANGED <<Credits, Bans>>
  BY <1>1 DEF DeleteStale, Credits, Bans, Credit, Ban
<1>3. \A p \in Requests : Overtaken(p)' = Overtaken(p)
  <2>1. ASSUME NEW p \in Requests, pc[p] = "asking"
        PROVE  from[p] \in Clients
    BY <2>1 DEF IInv, FromIsKnown
  <2> QED
    BY <1>1, <2>1 DEF DeleteStale, Overtaken, requestVars
<1>4. UNCHANGED Late
  BY <1>3 DEF Late
<1> QED
  BY <1>2, <1>4 DEF DeleteStale, Bound!vars, requestVars

\* A second is a second.
LEMMA TickRefines ==
  ASSUME IInv, Tick
  PROVE  Bound!Tick
<1>1. \A c \in Clients : Kept(c)' = Kept(c)
  BY DEF Tick, Kept
<1>2. ASSUME NEW c \in Clients, Kept(c)
      PROVE  /\ clients[c] \in Buckets
             /\ bucket[clients[c]] \in Bucket
             /\ bucket'[clients[c]] = Older(bucket[clients[c]])
  <2>1. clients[c] \in Buckets
    BY <1>2 DEF Kept, IInv, TypeOK
  <2>2. InUse(clients[c])
    BY DEF InUse
  <2> QED
    BY <2>1, <2>2 DEF Tick, IInv, TypeOK
<1>3. ASSUME NEW c \in Clients
      PROVE  /\ Credit(c)' = IF Credit(c) + requestsPerMin <= FullCredit
                             THEN Credit(c) + requestsPerMin ELSE FullCredit
             /\ Ban(c)' = IF Ban(c) > 0 THEN Ban(c) - 1 ELSE 0
  <2>1. CASE Kept(c)
    <3>1. Credit(c)' = Worth(Older(bucket[clients[c]])) /\ Ban(c)' = TimeLeft(Older(bucket[clients[c]]))
      BY <1>1, <1>2, <2>1 DEF Credit, Ban, Tick
    <3>2. Credit(c) = Worth(bucket[clients[c]]) /\ Ban(c) = TimeLeft(bucket[clients[c]])
      BY <2>1 DEF Credit, Ban
    <3> QED
      BY <1>2, <2>1, <3>1, <3>2, TickAdds
  <2>2. CASE ~Kept(c)
    <3>1. Credit(c) = FullCredit /\ Credit(c)' = FullCredit /\ Ban(c) = 0 /\ Ban(c)' = 0
      BY <1>1, <2>2 DEF Credit, Ban, FullCredit
    <3>2. FullCredit \in Nat
      BY RateConstants DEF FullCredit
    <3> QED
      BY <3>1, <3>2, RateConstants
  <2> QED
    BY <2>1, <2>2
<1>4. Credits' = [c \in Clients |-> IF Credits[c] + requestsPerMin <= Bound!Full
                                    THEN Credits[c] + requestsPerMin ELSE Bound!Full]
  BY <1>3 DEF Credits, FullCredit, Bound!Full
<1>5. Bans' = [c \in Clients |-> IF Bans[c] > 0 THEN Bans[c] - 1 ELSE 0]
  BY <1>3 DEF Bans
<1>6. UNCHANGED Late
  <2>1. ASSUME NEW p \in Requests, pc[p] = "asking"
        PROVE  from[p] \in Clients
    BY <2>1 DEF IInv, FromIsKnown
  <2>2. \A p \in Requests : Overtaken(p)' <=> Overtaken(p)
    BY <1>1, <2>1 DEF Tick, Overtaken, requestVars
  <2> QED
    BY <2>2 DEF Late
<1> QED
  BY <1>4, <1>5, <1>6 DEF Tick, Bound!Tick, requestVars

\* The limiter implements RateBound: what a client is granted is covered by its
\* account, it is refused only for lack of credit or in a lockout, and a lockout
\* runs its full time, but for requests overtaken by the cleanup.
THEOREM BoundImplemented == Spec => ImplementsBound
<1>1. IInv /\ [Next]_vars => [Bound!Next]_Bound!vars
  <2> SUFFICES ASSUME IInv, [Next]_vars PROVE [Bound!Next]_Bound!vars
    OBVIOUS
  <2>1. ASSUME NEW q \in Requests, NEW c \in Clients, Ask(q, c) PROVE Bound!Next
    BY <2>1, AskRefines DEF Bound!Next
  <2>2. ASSUME NEW q \in Requests, Allow(q) PROVE Bound!Next
    BY <2>2, AllowRefines DEF Bound!Next
  <2>3. ASSUME NEW q \in Requests, Finish(q) PROVE Bound!Next
    BY <2>3, FinishRefines DEF Bound!Next
  <2>4. CASE StartSweep
    BY <2>4, StutterRefines DEF StartSweep
  <2>5. ASSUME NEW c \in Clients, Inspect(c) PROVE [Bound!Next]_Bound!vars
    BY <2>5, InspectRefines DEF Bound!Next
  <2>6. CASE DeleteStale
    BY <2>6, DeleteStaleRefines
  <2>7. CASE EndSweep
    BY <2>7, StutterRefines DEF EndSweep
  <2>8. CASE Tick
    BY <2>8, TickRefines DEF Bound!Next
  <2>9. CASE UNCHANGED vars
    BY <2>9, StutterRefines DEF vars, cleanVars
  <2> QED
    BY <2>1, <2>2, <2>3, <2>4, <2>5, <2>6, <2>7, <2>8, <2>9 DEF Next, Cleanup
<1> QED
  BY <1>1, InitRefines, RateLimiterInvariant, PTL DEF Spec, ImplementsBound, Bound!Spec

-----------------------------------------------------------------------------
(* What the account means to somebody who counts.                          *)

\* What the counting rests on: the invariant of the limiter, the counters'
\* types and the balance.
WindowInv ==
  /\ IInv
  /\ served \in [Clients -> Nat]
  /\ elapsed \in Nat
  /\ Balanced

\* An account is a natural number and never more than full.
LEMMA CreditType ==
  ASSUME TypeOK, NEW c \in Clients
  PROVE  Credit(c) \in Nat /\ Credit(c) <= FullCredit
<1>1. FullCredit \in Nat
  BY RateConstants DEF FullCredit
<1>2. ASSUME Kept(c) PROVE bucket[clients[c]] \in Bucket
  BY <1>2 DEF Kept, TypeOK
<1>3. ASSUME NEW bk \in Bucket PROVE Worth(bk) \in Nat /\ Worth(bk) <= FullCredit
  BY <1>3, WorthType
<1> QED
  BY <1>1, <1>2, <1>3 DEF Credit

\* The same after a step.
LEMMA CreditTypeNext ==
  ASSUME TypeOK', NEW c \in Clients
  PROVE  Credit(c)' \in Nat /\ Credit(c)' <= FullCredit
<1>1. FullCredit \in Nat
  BY RateConstants DEF FullCredit
<1>2. ASSUME Kept(c)' PROVE bucket'[clients'[c]] \in Bucket
  BY <1>2 DEF Kept, TypeOK
<1>3. ASSUME NEW bk \in Bucket PROVE Worth(bk) \in Nat /\ Worth(bk) <= FullCredit
  BY <1>3, WorthType
<1> QED
  BY <1>1, <1>2, <1>3 DEF Credit

\* A window that opens counts nothing yet.
LEMMA OpenWindowBalances ==
  ASSUME IInv, UNCHANGED vars, served' = [c \in Clients |-> 0], elapsed' = 0
  PROVE  WindowInv'
<1>1. IInv'
  BY NextIInv
<1>2. TypeOK'
  BY <1>1 DEF IInv
<1>3. ASSUME NEW c \in Clients PROVE Credit(c)' <= FullCredit /\ Credit(c)' \in Nat
  BY <1>2, CreditTypeNext
<1>4. Balanced'
  BY <1>3, RateConstants DEF Balanced, FullCredit
<1> QED
  BY <1>1, <1>4 DEF WindowInv

\* A request that was not overtaken is granted at the price of a request.
LEMMA GrantIsPaid ==
  ASSUME IInv, NEW q \in Requests, Grant(q)
  PROVE  /\ from[q] \in Clients
         /\ Overtaken(q) => UNCHANGED Credits
         /\ ~Overtaken(q) => \E cost \in Minute..(2 * Minute - 1) :
              /\ cost <= Credits[from[q]]
              /\ Credits' = [Credits EXCEPT ![from[q]] = Credits[from[q]] - cost]
<1>1. pc[q] = "asking" /\ pc'[q] = "allowed" /\ from[q] \in Clients
  BY DEF Grant, IInv, TypeOK, FromIsKnown
<1>2. Bound!Serve(q) \/ Bound!Refuse(q) \/ Bound!AnswerLate(q)
  BY AllowRefines DEF Allow
<1>3. ~Bound!Refuse(q)
  BY <1>1 DEF Bound!Refuse, IInv, TypeOK
<1>4. q \in Late <=> Overtaken(q)
  BY DEF Late
<1> QED
  BY <1>1, <1>2, <1>3, <1>4 DEF Bound!Serve, Bound!AnswerLate

\* Nothing but the clock adds to an account.
LEMMA UncountedAddsNothing ==
  ASSUME IInv, Uncounted, NEW c \in Clients
  PROVE  Credit(c)' <= Credit(c)
<1>0. Credits[c] = Credit(c) /\ Credits'[c] = Credit(c)'
  BY DEF Credits
<1>1. Credit(c) \in Nat /\ FullCredit \in Nat /\ requestsPerMin * Minute \in Nat
      /\ requestsPerMin * Minute <= FullCredit
  BY CreditType, RateConstants DEF IInv, FullCredit
<1>2. ASSUME UNCHANGED Credits PROVE Credit(c)' <= Credit(c)
  BY <1>0, <1>1, <1>2
<1>3. ASSUME NEW q \in Requests, NEW d \in Clients, Ask(q, d) PROVE Credit(c)' <= Credit(c)
  <2>1. Bound!Ask(q, d)
    BY <1>3, AskRefines
  <2>2. CASE Credits[d] = Bound!Full /\ Credits' = [Credits EXCEPT ![d] = requestsPerMin * Minute]
    <3>1. Credits[d] = FullCredit
      BY <2>2 DEF Bound!Full, FullCredit
    <3>2. Credits'[c] = IF c = d THEN requestsPerMin * Minute ELSE Credits[c]
      BY <2>2 DEF Credits
    <3> QED
      BY <1>0, <1>1, <3>1, <3>2
  <2> QED
    BY <1>2, <2>1, <2>2 DEF Bound!Ask
<1>4. ASSUME NEW q \in Requests, RefuseLocked(q) \/ RefuseEmpty(q)
      PROVE  Credit(c)' <= Credit(c)
  <2>1. Bound!Serve(q) \/ Bound!Refuse(q) \/ Bound!AnswerLate(q)
    BY <1>4, AllowRefines DEF Allow
  <2>2. pc'[q] = "denied"
    BY <1>4 DEF RefuseLocked, RefuseEmpty, IInv, TypeOK
  <2>3. ~Bound!Serve(q)
    BY <2>2 DEF Bound!Serve, IInv, TypeOK
  <2> QED
    BY <1>2, <2>1, <2>3 DEF Bound!Refuse, Bound!AnswerLate
<1>5. ASSUME NEW q \in Requests, Finish(q) PROVE Credit(c)' <= Credit(c)
  BY <1>2, <1>5, FinishRefines DEF Bound!Finish
<1>6. CASE StartSweep \/ EndSweep
  BY <1>2, <1>6, StutterRefines DEF StartSweep, EndSweep, Bound!vars
<1>7. ASSUME NEW d \in Clients, Inspect(d) PROVE Credit(c)' <= Credit(c)
  BY <1>2, <1>7, InspectRefines DEF Bound!Forget, Bound!vars
<1>8. CASE DeleteStale
  BY <1>2, <1>8, DeleteStaleRefines DEF Bound!vars
<1> QED
  BY <1>3, <1>4, <1>5, <1>6, <1>7, <1>8 DEF Uncounted, Cleanup

\* Every step keeps the balance.
LEMMA WindowNextBalances == WindowInv /\ [WindowNext]_<<vars, windowVars>> => WindowInv'
<1> SUFFICES ASSUME WindowInv, [WindowNext]_<<vars, windowVars>> PROVE WindowInv'
  OBVIOUS
<1> DEFINE brought == requestsPerMin * elapsed
<1>0. /\ IInv /\ served \in [Clients -> Nat] /\ elapsed \in Nat /\ Balanced
      /\ Minute \in Nat \ {0} /\ requestsPerMin \in Nat \ {0}
      /\ FullCredit \in Nat /\ brought \in Nat
  BY RateConstants DEF WindowInv, FullCredit
<1>1. ASSUME NEW c \in Clients
      PROVE  /\ Credit(c) \in Nat /\ Credits[c] = Credit(c) /\ Credits'[c] = Credit(c)'
             /\ served[c] \in Nat /\ served[c] * Minute \in Nat
             /\ served[c] * Minute + Credit(c) <= FullCredit + brought
  BY <1>0, CreditType DEF Credits, Balanced, IInv
<1>2. ASSUME NEW q \in Requests, CountGrant(q) PROVE WindowInv'
  <2>1. /\ Grant(q) /\ UNCHANGED elapsed
        /\ served' = IF Overtaken(q) THEN served ELSE [served EXCEPT ![from[q]] = @ + 1]
    BY <1>2 DEF CountGrant
  <2>2. IInv'
    BY <1>0, <2>1, NextIInv DEF Next, Allow
  <2>3. from[q] \in Clients
    BY <1>0, <2>1, GrantIsPaid
  <2>4. served' \in [Clients -> Nat]
    BY <1>0, <2>1, <2>3
  <2>5. CASE Overtaken(q)
    <3>1. UNCHANGED <<Credits, served, elapsed>>
      BY <1>0, <2>1, <2>5, GrantIsPaid
    <3>2. Balanced'
      BY <1>0, <1>1, <3>1 DEF Balanced, FullCredit
    <3> QED
      BY <1>0, <2>2, <3>1, <3>2 DEF WindowInv
  <2>6. CASE ~Overtaken(q)
    <3>1. PICK cost \in Minute..(2 * Minute - 1) :
                 /\ cost <= Credits[from[q]]
                 /\ Credits' = [Credits EXCEPT ![from[q]] = Credits[from[q]] - cost]
      BY <1>0, <2>1, <2>6, GrantIsPaid
    <3>2. ASSUME NEW c \in Clients
          PROVE  served'[c] * Minute + Credit(c)' <= FullCredit + brought
      <4>1. CASE c = from[q]
        <5>1. served'[c] = served[c] + 1
          BY <1>0, <2>1, <2>6, <4>1
        <5>2. (served[c] + 1) * Minute = served[c] * Minute + Minute
          BY <1>0, <1>1
        <5>3. Credit(c)' = Credit(c) - cost /\ cost \in Nat /\ cost >= Minute
          BY <1>0, <1>1, <3>1, <4>1 DEF Credits
        <5> QED
          BY <1>0, <1>1, <5>1, <5>2, <5>3
      <4>2. CASE c # from[q]
        <5>1. served'[c] = served[c] /\ Credit(c)' = Credit(c)
          BY <1>0, <1>1, <2>1, <2>6, <3>1, <4>2 DEF Credits
        <5> QED
          BY <1>1, <5>1
      <4> QED
        BY <4>1, <4>2
    <3>3. Balanced'
      BY <2>1, <3>2 DEF Balanced, FullCredit
    <3> QED
      BY <1>0, <2>1, <2>2, <2>4, <3>3 DEF WindowInv
  <2> QED
    BY <2>5, <2>6
<1>3. CASE CountTick
  <2>1. Tick /\ elapsed' = elapsed + 1 /\ UNCHANGED served
    BY <1>3 DEF CountTick
  <2>2. IInv'
    BY <1>0, <2>1, NextIInv DEF Next
  <2>3. Bound!Tick
    BY <1>0, <2>1, TickRefines
  <2>4. requestsPerMin * (elapsed + 1) = brought + requestsPerMin
    BY <1>0
  <2>5. ASSUME NEW c \in Clients
        PROVE  Credit(c)' <= Credit(c) + requestsPerMin /\ Credit(c)' \in Nat
    <3>1. Credits'[c] = IF Credits[c] + requestsPerMin <= Bound!Full
                        THEN Credits[c] + requestsPerMin ELSE Bound!Full
      BY <2>3 DEF Bound!Tick
    <3>2. Bound!Full = FullCredit
      BY DEF Bound!Full, FullCredit
    <3> QED
      BY <1>0, <1>1, <3>1, <3>2
  <2>6. ASSUME NEW c \in Clients
        PROVE  served[c] * Minute + Credit(c)' <= FullCredit + (brought + requestsPerMin)
    BY <1>0, <1>1, <2>5
  <2>7. Balanced'
    BY <2>1, <2>4, <2>6 DEF Balanced, FullCredit
  <2> QED
    BY <1>0, <2>1, <2>2, <2>7 DEF WindowInv
<1>4. CASE Uncounted /\ UNCHANGED windowVars
  <2>1. IInv'
    BY <1>0, <1>4, NextIInv DEF Uncounted, Next, Allow
  <2>2. ASSUME NEW c \in Clients PROVE Credit(c)' <= Credit(c) /\ Credit(c)' \in Nat
    <3>1. TypeOK'
      BY <2>1 DEF IInv
    <3>2. Credit(c)' <= Credit(c)
      BY <1>0, <1>4, UncountedAddsNothing
    <3> QED
      BY <3>1, <3>2, CreditTypeNext
  <2>3. ASSUME NEW c \in Clients
        PROVE  served[c] * Minute + Credit(c)' <= FullCredit + brought
    BY <1>0, <1>1, <2>2
  <2>4. Balanced'
    BY <1>4, <2>3 DEF Balanced, FullCredit, windowVars
  <2> QED
    BY <1>0, <1>4, <2>1, <2>4 DEF WindowInv, windowVars
<1>5. CASE OpenWindow
  BY <1>0, <1>5, OpenWindowBalances DEF OpenWindow
<1>6. CASE UNCHANGED <<vars, windowVars>>
  <2>1. IInv'
    BY <1>0, <1>6, NextIInv
  <2>2. UNCHANGED Credits
    BY <1>6, StutterRefines DEF vars, cleanVars, Bound!vars
  <2>3. Balanced'
    BY <1>1, <1>6, <2>2 DEF Balanced, FullCredit, windowVars
  <2> QED
    BY <1>0, <1>6, <2>1, <2>3 DEF WindowInv, windowVars
<1> QED
  BY <1>2, <1>3, <1>4, <1>5, <1>6 DEF WindowNext

\* The first window opens with the limiter.
LEMMA WindowStarts == WindowInit => WindowInv
<1> SUFFICES ASSUME WindowInit PROVE WindowInv
  OBVIOUS
<1>1. IInv
  BY InitIInv DEF WindowInit
<1>2. \A c \in Clients : Credit(c) \in Nat /\ Credit(c) <= FullCredit
  BY <1>1, CreditType DEF IInv
<1>3. served = [c \in Clients |-> 0] /\ elapsed = 0 /\ FullCredit \in Nat
  BY RateConstants DEF WindowInit, FullCredit
<1>4. Balanced
  BY <1>2, <1>3, RateConstants DEF Balanced
<1> QED
  BY <1>1, <1>3, <1>4 DEF WindowInv

\* The balance is kept in every window, wherever it begins.
LEMMA WindowInvariant == WindowSpec => []WindowInv
<1> QED
  BY WindowStarts, WindowNextBalances, PTL DEF WindowSpec

\* No window sees more requests of a client granted than a full bucket, a token
\* under way and the window's minutes bring.
THEOREM RateKept == WindowSpec => []WithinRate
<1>1. WindowInv => WithinRate
  <2> SUFFICES ASSUME WindowInv, NEW c \in Clients
               PROVE  served[c] * Minute
                        < (requestsPerMin + 1) * Minute + requestsPerMin * elapsed
    BY DEF WithinRate
  <2>1. /\ served[c] * Minute + Credit(c) <= FullCredit + requestsPerMin * elapsed
        /\ served[c] * Minute \in Nat /\ requestsPerMin * elapsed \in Nat
    BY RateConstants DEF WindowInv, Balanced
  <2>2. Credit(c) \in Nat
    BY CreditType DEF WindowInv, IInv
  <2>3. (requestsPerMin + 1) * Minute = FullCredit + 1 /\ FullCredit \in Nat
    BY RateConstants DEF FullCredit
  <2> QED
    BY <2>1, <2>2, <2>3
<1> QED
  BY <1>1, WindowInvariant, PTL

=============================================================================
