---------------------------- MODULE MCRateLimiter ---------------------------
(* Small instances of the rate limiter for TLC.                            *)
EXTENDS RateLimiter, TLC

CONSTANTS t1, t2, p1, p2

TwoThreads == {t1, t2}
TwoPrincipals == {p1, p2}

Symmetric == Permutations(TwoThreads) \cup Permutations(TwoPrincipals)
=============================================================================
