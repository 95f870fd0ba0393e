--------------------------- MODULE MCSandboxRunner --------------------------
(* Small instances of the sandbox runner for TLC.                          *)
EXTENDS SandboxRunner

CONSTANTS r1, r2, r3

ThreeRuns == {r1, r2, r3}
=============================================================================
