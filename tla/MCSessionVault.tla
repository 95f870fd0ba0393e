--------------------------- MODULE MCSessionVault ---------------------------
(* Small instances of the vault for TLC: two principals, a small and a     *)
(* large document, two entity types.                                       *)
EXTENDS SessionVault, TLC

CONSTANTS t1, t2, p1, p2, small, large, email, secret

TwoThreads == {t1, t2}

MCPrincipals == {p1, p2}
OnePrincipal == {p1}

MCDocuments == {small, large}
MCTypes == {email, secret}

MCSize == [d \in MCDocuments |-> IF d = small THEN 1 ELSE 2]

MCEntities ==
    [d \in MCDocuments |->
        [ty \in MCTypes |-> IF d = small /\ ty = secret THEN 0 ELSE 1]]

\* Threads and principals are interchangeable: no definition tells one from
\* another, and the runs that use these sets check no liveness.
Symmetric == Permutations(TwoThreads) \cup Permutations(MCPrincipals)
=============================================================================
