------------------------------- MODULE Masking ------------------------------
(***************************************************************************)
(* One call of PrivacyService.anonymize (src/src/privacy/service.py) and   *)
(* of the detector it asks (src/src/privacy/detector.py): which parts of a *)
(* prompt are replaced, and what becomes of the rest.                      *)
(*                                                                         *)
(* A prompt is Length characters.  A hit is what a pattern or the Presidio *)
(* analyzer matched: the characters from start up to end, of kind "pii" or *)
(* "secret" (a technical secret).  Which text matches what is left open:   *)
(* any set of hits may occur, and any ranges may be the literal matches of *)
(* the client's whitelist and blacklist terms.  An input is chosen in the  *)
(* step that first looks at it.  The loops of the code are loops here: one *)
(* hit, or one replacement, per step.                                      *)
(***************************************************************************)
EXTENDS Integers, Sequences, FiniteSets, FiniteSetsExt, SequencesExt

CONSTANTS
    Length,         \* bound: characters of the prompt
    MaxHits,        \* bound: hits of the patterns
    MaxAnalysed,    \* bound: hits of the analyzer
    MaxWhite,       \* bound: literal matches of whitelist terms
    MaxBlack,       \* bound: literal matches of blacklist terms
    MaxEntities     \* MAX_DETECTED_ENTITIES, _MAX_ENTITIES

ASSUME LengthAssumption == Length \in Nat \ {0}
ASSUME BoundsAssumption ==
    /\ MaxHits \in Nat
    /\ MaxAnalysed \in Nat
    /\ MaxWhite \in Nat
    /\ MaxBlack \in Nat
    /\ MaxEntities \in Nat \ {0}

VARIABLES
    pc,
    onSecret, strategy,     \* the client's policy
    analysed,               \* hits of the analyzer; none without Presidio
    presidio,               \* the analyzer answered
    hits,                   \* everything found, until it is resolved
    work,                   \* what the current loop has still to look at
    kept,                   \* what it has kept
    detected,               \* result of the detector
    terms,                  \* literal matches of the client's terms
    result,                 \* the text while it is rewritten
    outcome                 \* answer of the call

vars == <<pc, onSecret, strategy, analysed, presidio, hits, work, kept,
          detected, terms, result, outcome>>

detection == <<analysed, presidio, hits>>
policy == <<onSecret, strategy>>

-----------------------------------------------------------------------------
(* Spans.                                                                  *)

TextRange == {r \in [start : 0..Length, end : 0..Length] : r.start < r.end}

Span(kinds) ==
    {s \in [start : 0..Length, end : 0..Length, kind : kinds] :
        s.start < s.end}

Hits == Span({"pii", "secret"})

UpTo(n, S) == UNION {kSubset(k, S) : k \in 0..n}

Overlap(a, b) == a.start < b.end /\ b.start < a.end

Touched(a, spans) == \E b \in spans : Overlap(a, b)

Size(s) == s.end - s.start

Chars(s) == (s.start + 1)..s.end

Covered(spans) == UNION {Chars(s) : s \in spans}

IsSecret(s) == s.kind = "secret"

\* Wrong variant: the shorter match first.
ShorterFirst(a, b) ==
    Size(a) < Size(b) \/ (Size(a) = Size(b) /\ a.start < b.start)

\* Longest match first, then left to right.
Before(a, b) ==
    Size(a) > Size(b) \/ (Size(a) = Size(b) /\ a.start < b.start)

\* What the loop may take next.  Equal spans stand in the order of their
\* patterns, which is not modelled: either may be first.
Foremost(spans) == {a \in spans : \A b \in spans : ~Before(b, a)}

Prompt == [i \in 1..Length |-> i]

\* A replacement is shown by zeros, one more than the characters it stands
\* for, so that every replacement moves what is to its right.
Replacement(s) == [i \in 1..(Size(s) + 1) |-> 0]

-----------------------------------------------------------------------------
Init ==
    /\ pc = "analyse"
    /\ onSecret \in {"mask", "block"}
    /\ strategy \in {"placeholder", "redact"}
    /\ analysed = {} /\ presidio = FALSE /\ hits = {}
    /\ work = {} /\ kept = {} /\ detected = {}
    /\ terms = [white |-> {}, black |-> {}]
    /\ result = Prompt
    /\ outcome = "none"

EndWith(answer) == pc' = "done" /\ outcome' = answer

\* A malformed argument, or more literal matches than allowed: refused
\* before the detector is asked.
Invalid ==
    /\ pc = "analyse"
    /\ EndWith("invalid")
    /\ UNCHANGED <<policy, detection, work, kept, detected, terms, result>>

\* PresidioDetector.detect up to the patterns.  Without an analyzer, with a
\* language it does not know, and when it raises, only the patterns count.
Analyse ==
    /\ pc = "analyse"
    /\ presidio' \in BOOLEAN
    /\ analysed' \in IF presidio' THEN UpTo(MaxAnalysed, Span({"pii"}))
                                  ELSE {{}}
    /\ IF Cardinality(analysed') > MaxEntities
         THEN EndWith("too_many")
         ELSE pc' = "find" /\ UNCHANGED outcome
    /\ UNCHANGED <<policy, hits, work, kept, detected, terms, result>>

\* RegexDetector.detect: all hits, to be resolved.
Find ==
    /\ pc = "find"
    /\ hits' \in UpTo(MaxHits, Hits)
    /\ IF Cardinality(hits') > MaxEntities
         THEN EndWith("too_many") /\ UNCHANGED work
         ELSE pc' = "resolve" /\ work' = hits' /\ UNCHANGED outcome
    /\ UNCHANGED <<policy, analysed, presidio, kept, detected, terms, result>>

\* Wrong variant: a span is dropped only if a kept one contains it.
KeepUnlessInside(phase) ==
    /\ pc = phase
    /\ \E s \in Foremost(work) :
          /\ work' = work \ {s}
          /\ kept' = IF \E b \in kept : b.start <= s.start /\ s.end <= b.end
                       THEN kept ELSE kept \cup {s}
    /\ UNCHANGED <<pc, policy, detection, detected, terms, result, outcome>>

\* One iteration of the loop that keeps a span unless it overlaps one that
\* is kept already; detectors and service all have this loop.
Keep(phase) ==
    /\ pc = phase
    /\ \E s \in Foremost(work) :
          /\ work' = work \ {s}
          /\ kept' = IF Touched(s, kept) THEN kept ELSE kept \cup {s}
    /\ UNCHANGED <<pc, policy, detection, detected, terms, result, outcome>>

\* PresidioDetector.detect after the patterns: what they kept joins the hits
\* of the analyzer, and the overlaps are resolved once more.
Merge ==
    /\ pc = "resolve" /\ work = {} /\ presidio
    /\ IF Cardinality(analysed) + Cardinality(kept) > MaxEntities
         THEN EndWith("too_many") /\ UNCHANGED <<work, kept>>
         ELSE /\ pc' = "merge" /\ work' = analysed \cup kept /\ kept' = {}
              /\ UNCHANGED outcome
    /\ hits' = hits \cup analysed
    /\ UNCHANGED <<policy, analysed, presidio, detected, terms, result>>

Resolved ==
    /\ work = {}
    /\ pc = IF presidio THEN "merge" ELSE "resolve"

\* The detector answers; on_secret = "block" refuses a detected secret.
Policy ==
    /\ Resolved
    /\ detected' = kept /\ kept' = {}
    /\ hits' = {} /\ analysed' = {}
    /\ IF onSecret = "block" /\ \E s \in kept : IsSecret(s)
         THEN EndWith("blocked")
         ELSE pc' = "select" /\ UNCHANGED outcome
    /\ UNCHANGED <<policy, presidio, work, terms, result>>

\* Wrong variant: the whitelist releases secrets too.
ReleasesAll(s, ranges) == Touched(s, ranges)

\* The whitelist never releases a secret.
Released(s, ranges) == ~IsSecret(s) /\ Touched(s, ranges)

\* Wrong variant: a literal match one character too long.
CustomOneLonger(ranges) ==
    {[start |-> r.start, end |-> r.end + 1, kind |-> "custom"] : r \in ranges}

Custom(ranges) ==
    {[start |-> r.start, end |-> r.end, kind |-> "custom"] : r \in ranges}

\* To be masked are the detected entities that are not released and that no
\* blacklist match touches, and the blacklist matches.
Select ==
    /\ pc = "select"
    /\ terms' \in [white : UpTo(MaxWhite, TextRange),
                   black : UpTo(MaxBlack, TextRange)]
    /\ work' = {s \in detected : /\ ~Released(s, terms'.white)
                                 /\ ~Touched(s, terms'.black)}
                 \cup Custom(terms'.black)
    /\ pc' = "arrange"
    /\ UNCHANGED <<policy, detection, kept, detected, result, outcome>>

Arranged ==
    /\ pc = "arrange" /\ work = {}
    /\ work' = kept
    /\ pc' = "replace"
    /\ UNCHANGED <<policy, detection, kept, detected, terms, result, outcome>>

\* Wrong variant: replacing from left to right.
LeftmostFirst(spans) ==
    CHOOSE a \in spans : \A b \in spans : a.start <= b.start

Rightmost(spans) ==
    CHOOSE a \in spans : \A b \in spans : a.start >= b.start

\* result[:start] + replacement + result[end:], from right to left.
Replace ==
    /\ pc = "replace" /\ work # {}
    /\ LET s == Rightmost(work) IN
       /\ result' = SubSeq(result, 1, s.start) \o Replacement(s)
                      \o SubSeq(result, s.end + 1, Len(result))
       /\ work' = work \ {s}
    /\ UNCHANGED <<pc, policy, detection, kept, detected, terms, outcome>>

\* A session for a reversible result with something in it, which the vault
\* may refuse; otherwise the entities are only counted.
Respond ==
    /\ pc = "replace" /\ work = {}
    /\ IF strategy = "placeholder" /\ kept # {}
         THEN \E answer \in {"session", "refused"} : EndWith(answer)
         ELSE EndWith("recorded")
    /\ UNCHANGED <<policy, detection, work, kept, detected, terms, result>>

Finished == pc = "done" /\ UNCHANGED vars

Next ==
    \/ Invalid
    \/ Analyse
    \/ Find
    \/ Keep("resolve")
    \/ Merge
    \/ Keep("merge")
    \/ Policy
    \/ Select
    \/ Keep("arrange")
    \/ Arranged
    \/ Replace
    \/ Respond
    \/ Finished

Spec == Init /\ [][Next]_vars

-----------------------------------------------------------------------------
(* What must hold.                                                         *)

Phases ==
    {"analyse", "find", "resolve", "merge", "select", "arrange", "replace",
     "done"}

\* Types; that a span of any kind ends inside the prompt is the part that
\* the arithmetic of the literal matches could break.
TypeOK ==
    /\ pc \in Phases
    /\ analysed \cup hits \cup detected \subseteq Hits
    /\ work \cup kept \subseteq Span({"pii", "secret", "custom"})
    /\ terms.white \cup terms.black \subseteq TextRange
    /\ result \in Seq(0..Length)
    /\ outcome \in {"none", "invalid", "too_many", "blocked", "session",
                    "refused", "recorded"}

\* The spans that are kept never overlap: in the two detectors and in the
\* service, where the replacements would otherwise garble each other.
KeptDisjoint ==
    \A a, b \in kept : a # b => ~Overlap(a, b)

\* A hit the loop prefers to another that it overlaps.
Beats(d, h) == Overlap(d, h) /\ Size(d) >= Size(h)

\* A hit is lost only to an overlapping one that is detected and at least as
\* long; no loss hides behind another loss, but for one: a hit of the patterns
\* may lose to a longer one which then loses to a hit of the analyzer.  This
\* bounds what can be lost and is no promise to a secret, which is lost like
\* any other hit and is then neither detected nor kept from a whitelist:
\* SecretsMasked of FoundSecrets, the documented promise, fails.
LostToLonger ==
    Resolved =>
       \A h \in hits \ kept : \E d \in kept :
          \/ Beats(d, h)
          \/ /\ h \notin analysed /\ d \in analysed
             /\ \E m \in hits : Beats(m, h) /\ Beats(d, m)

Masked == outcome \in {"session", "recorded"}

\* How far the replacements of these spans move character i to the right.
Shift(spans, i) == Cardinality({s \in spans : s.end < i})

\* The text is the prompt with these spans replaced.
Rewritten(spans) ==
    /\ Len(result) = Length + Cardinality(spans)
    /\ \A i \in (1..Length) \ Covered(spans) :
          result[i + Shift(spans, i)] = i
    /\ \A p \in DOMAIN result : result[p] # 0 =>
          /\ result[p] \notin Covered(spans)
          /\ p = result[p] + Shift(spans, result[p])

\* The rewritten text is the prompt without the kept spans: every other
\* character is there, once and in its place, and nothing else but the
\* replacements, although every replacement moves what is to its right.
RewrittenExactly == Masked => Rewritten(kept)

\* Whatever whitelist terms come with it, and in every strategy, a detected
\* secret that no blacklist term touches is masked to its last character.
\* (Detected is what the resolution of overlaps has left.)
WhitelistKeepsSecrets ==
    Masked => \A s \in detected :
       IsSecret(s) /\ ~Touched(s, terms.black) =>
          Chars(s) \subseteq Covered(kept)
=============================================================================
