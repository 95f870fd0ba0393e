----------------------------- MODULE MCRoundTrip ----------------------------
(* Two types for TLC, the second with the shorter name.                    *)
EXTENDS RoundTrip

TwoTypes == {1, 2}

MCNameLength == [ty \in TwoTypes |-> 3 - ty]
=============================================================================
