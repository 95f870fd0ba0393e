------------------------------ MODULE MCGateway -----------------------------
(* Two tokens, two client ids, two projects and two calls for TLC.         *)
EXTENDS Gateway, TLC

CONSTANTS k1, k2, x, y, a, b, c1, c2

TwoTokens == {k1, k2}
TwoClients == {x, y}
TwoProjects == {a, b}
TwoCalls == {c1, c2}

\* No definition tells one of them from another; no liveness is checked.
Symmetric ==
    Permutations(TwoTokens) \cup Permutations(TwoClients)
      \cup Permutations(TwoProjects) \cup Permutations(TwoCalls)
=============================================================================
