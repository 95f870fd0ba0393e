------------------------------ MODULE MCMasking -----------------------------
(* Bounded prompts for TLC.                                                *)
EXTENDS Masking
=============================================================================
