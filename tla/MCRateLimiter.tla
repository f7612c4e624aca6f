--------------------------- MODULE MCRateLimiter ---------------------------
(* A small instance of RateLimiter: two keys, two events per window of two   *)
(* ticks, and a clock that runs for three windows.                           *)
EXTENDS RateLimiter
=============================================================================
