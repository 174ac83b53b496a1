------------------------- MODULE RateLimiterProperties -------------------------
(* What should hold of the rate limiter, and the promise it implements.      *)
EXTENDS RateLimiter

\* The client's bucket is in the map and cleanup is not about to delete it.
Kept(c) == clients[c] # NoBucket /\ c # condemned

\* The bucket at work for a request is not one that is kept.
Overtaken(q) ==
  /\ pc[q] = "asking"
  /\ ~(Kept(from[q]) /\ clients[from[q]] = held[q])

\* The time a full bucket has waited for a further token is not lost: a part
\* of a request beyond the full bucket.
FullCredit == requestsPerMin * Minute + Minute - 1

\* A bucket is worth its tokens and the time since its last refill.
Worth(bk) == Smaller(FullCredit, bk.tokens * Minute + requestsPerMin * bk.age)

Credit(c) == IF Kept(c) THEN Worth(bucket[clients[c]]) ELSE FullCredit

TimeLeft(bk) == IF LockedOut(bk) THEN bk.left ELSE 0

Ban(c) == IF Kept(c) THEN TimeLeft(bucket[clients[c]]) ELSE 0

Credits == [c \in Clients |-> Credit(c)]
Bans    == [c \in Clients |-> Ban(c)]
Late    == {q \in Requests : Overtaken(q)}

Bound == INSTANCE RateBound WITH credit <- Credits, ban <- Bans, late <- Late

\* The limiter keeps its promise: over any time a client is served no more
\* than a full bucket and requestsPerMin per minute, is refused only when its
\* account is empty or it is locked out, and sits a lockout out in full, except
\* for requests that already held a bucket when cleanup found it stale.
ImplementsBound == Bound!Spec

\* A client that asks again and again is served again and again: no lockout
\* lasts for ever, and the map's mutex is always given back.
ServedAgain ==
  \A c \in Clients :
    []<><<\E q \in Requests : Ask(q, c)>>_vars
      => []<><<\E q \in Requests : Grant(q) /\ from[q] = c>>_vars

\* A client that stops asking is forgotten: the map does not grow for ever.
QuietIsForgotten ==
  \A c \in Clients :
    <>[](\A q \in Requests : from[q] # c) => <>[](clients[c] = NoBucket)

=============================================================================
