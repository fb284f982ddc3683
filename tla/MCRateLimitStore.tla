-------------------------- MODULE MCRateLimitStore --------------------------
(* Instances of RateLimitStore: two callers, whose requests are small,      *)
(* middling or larger than the whole hourly budget.                         *)
EXTENDS RateLimitStore
CONSTANTS c1, c2
MCCallers == {c1, c2}
=============================================================================
