------------------------------- MODULE Totals -------------------------------
(***************************************************************************)
(* The total of a function with natural values, counted as the number of   *)
(* its unit slots: <<x, 1>> .. <<x, f[x]>> for every x.  It is Python's    *)
(* sum(...) over a dictionary, in a form whose laws follow from those of   *)
(* Cardinality.                                                            *)
(***************************************************************************)
EXTENDS Integers, FiniteSets

Slots(f) == UNION {{x} \X (1..f[x]) : x \in DOMAIN f}

Total(f) == Cardinality(Slots(f))

Without(f, x) == [y \in DOMAIN f \ {x} |-> f[y]]

With(f, x, v) == [y \in DOMAIN f \cup {x} |-> IF y = x THEN v ELSE f[y]]
=============================================================================
