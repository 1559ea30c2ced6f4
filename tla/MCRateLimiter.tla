--------------------------- MODULE MCRateLimiter ---------------------------
(***************************************************************************)
(* Small rate limits for RateLimiter; Unit = 2, so rps 1 is half a token a *)
(* tick.                                                                   *)
(***************************************************************************)
EXTENDS RateLimiter, TLC

CONSTANTS w1, w2, k1, k2

\* A reload that changes the rate and keeps the burst.
Rates == {[rps |-> 1, burst |-> 2], [rps |-> 3, burst |-> 2]}

\* Workers are alike, and so are clients.
Alike == Permutations({w1, w2}) \union Permutations({k1, k2})
=============================================================================
