--------------------------- MODULE MCKnowledgeQuery -------------------------
(* Small databases and answers for TLC.                                    *)
EXTENDS KnowledgeQuery, TLC

CONSTANTS alpha, beta, gamma

TheProjects == {alpha, beta, gamma}
SmallSizes == {1, 2, 3}
\* Below zero, at zero, and two distances of which the score tells only the
\* farther one from zero.
SmallNumbers == {-1, 0, 1, 2}
Rounding == (0 :> 2) @@ (1 :> 2) @@ (2 :> 1)
Symmetric == Permutations(TheProjects)
=============================================================================
