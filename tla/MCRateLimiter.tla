---------------------------- MODULE MCRateLimiter ----------------------------
(* Instances of RateLimiter for TLC.                                        *)
EXTENDS RateLimiterProperties

=============================================================================
