----------------------------- MODULE FoundSecrets ----------------------------
(***************************************************************************)
(* Masking with a memory: which technical secrets the patterns found in    *)
(* the prompt (_SECRET_PATTERNS in src/src/privacy/detector.py), before a  *)
(* longer match could hide one from the service.  The steps are those of   *)
(* Masking.                                                                *)
(***************************************************************************)
EXTENDS Masking

VARIABLE found          \* ghost: the secrets among the hits of the patterns

Remember ==
    found' = IF pc = "find" THEN {h \in hits' : IsSecret(h)} ELSE found

RememberingSpec ==
    /\ Init /\ found = {}
    /\ [][Next /\ Remember]_<<vars, found>>

\* Whatever terms the client sends and whatever else was found, a technical
\* secret in a prompt that is not refused is masked to its last character:
\* "werden immer maskiert, niemals durch eine Whitelist freigegeben".
SecretsMasked ==
    Masked => \A s \in found : Chars(s) \subseteq Covered(kept)
=============================================================================
