------------------------------- MODULE RateWindow -------------------------------
(***************************************************************************)
(* What the account of RateBound comes to for somebody who watches the     *)
(* limiter for a while: the requests a client is granted, counted against  *)
(* the clock.  A window may be opened at any moment; two history variables *)
(* count what happens in it.  They are read by nothing but the property,   *)
(* and every step of the limiter is counted, so they constrain nothing.    *)
(***************************************************************************)
EXTENDS RateLimiterProperties

VARIABLES
  served,  \* per client: requests granted in the window, overtaken ones apart
  elapsed  \* ticks the window has been open

windowVars == <<served, elapsed>>

OpenWindow ==
  /\ served' = [c \in Clients |-> 0]
  /\ elapsed' = 0
  /\ UNCHANGED vars

WindowInit ==
  /\ Init
  /\ served = [c \in Clients |-> 0]
  /\ elapsed = 0

CountGrant(q) ==
  /\ Grant(q)
  /\ served' = IF Overtaken(q) THEN served ELSE [served EXCEPT ![from[q]] = @ + 1]
  /\ UNCHANGED elapsed

CountTick ==
  /\ Tick
  /\ elapsed' = elapsed + 1
  /\ UNCHANGED served

Uncounted ==
  \/ \E q \in Requests : \/ \E c \in Clients : Ask(q, c)
                         \/ RefuseLocked(q) \/ RefuseEmpty(q) \/ Finish(q)
  \/ StartSweep
  \/ Cleanup

WindowNext ==
  \/ \E q \in Requests : CountGrant(q)
  \/ CountTick
  \/ Uncounted /\ UNCHANGED windowVars
  \/ OpenWindow

WindowSpec == WindowInit /\ [][WindowNext]_<<vars, windowVars>>

\* What is left of the account and what was taken from it came from a full
\* account and from the clock.
Balanced ==
  \A c \in Clients :
    served[c] * Minute + Credit(c) <= FullCredit + requestsPerMin * elapsed

\* In any window a client is granted no more than the requestsPerMin tokens of
\* a full bucket, less than one token that was under way, and requestsPerMin
\* per minute of the window, however its requests fall, whatever the clean-up
\* deletes and however often Allow makes it a new bucket.
WithinRate ==
  \A c \in Clients :
    served[c] * Minute < (requestsPerMin + 1) * Minute + requestsPerMin * elapsed

=============================================================================
