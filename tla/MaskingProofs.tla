---------------------------- MODULE MaskingProofs ---------------------------
(***************************************************************************)
(* Proofs about the masking of a prompt, for a prompt of any length and    *)
(* any number of hits, analyzer hits and literal matches: the three passes *)
(* over overlapping spans, and what no whitelist can release.              *)
(***************************************************************************)
EXTENDS Masking, FiniteSetTheorems, SequenceTheorems, WellFoundedInduction,
        TLAPS

USE LengthAssumption, BoundsAssumption

-----------------------------------------------------------------------------
(* Spans.                                                                  *)

Kinds == {"pii", "secret", "custom"}

LEMMA SpanType ==
    ASSUME NEW s \in Span(Kinds)
    PROVE  /\ s.start \in 0..Length /\ s.end \in 0..Length
           /\ s.start < s.end /\ s.end <= Length
           /\ Size(s) \in Nat \ {0}
BY DEF Span, Size

LEMMA HitsAreSpans == Hits \subseteq Span(Kinds)
BY DEF Hits, Span, Kinds

LEMMA CustomSpans ==
    ASSUME NEW ranges, ranges \subseteq TextRange
    PROVE  Custom(ranges) \subseteq Span(Kinds)
BY DEF Custom, TextRange, Span, Kinds

LEMMA SomeSubset ==
    ASSUME NEW n, NEW S, NEW T \in UpTo(n, S)
    PROVE  T \subseteq S
BY DEF UpTo, kSubset

LEMMA OverlapBothWays ==
    ASSUME NEW a, NEW b
    PROVE  Overlap(a, b) <=> Overlap(b, a)
BY DEF Overlap

LEMMA LeastElement ==
    ASSUME NEW S, S \subseteq Nat, S # {}
    PROVE  \E m \in S : \A i \in S : m <= i
<1>1. IsWellFoundedOn(OpToRel(<, Nat), Nat)
  BY NatLessThanWellFounded
<1>2. PICK m \in S : \A i \in S : <<i, m>> \notin OpToRel(<, Nat)
  BY <1>1, WFMin
<1>3. \A i \in S : ~(i < m)
  BY <1>2 DEF OpToRel
<1>4. QED
  BY <1>3

\* The loop of the replacements has a span to begin with.
LEMMA RightmostType ==
    ASSUME NEW spans, spans \subseteq Span(Kinds), spans # {}
    PROVE  /\ Rightmost(spans) \in spans
           /\ \A b \in spans : Rightmost(spans).start >= b.start
<1> DEFINE gaps == {Length - a.start : a \in spans}
<1>1. \A a \in spans : a.start \in 0..Length /\ Length - a.start \in Nat
  BY SpanType
<1>2. gaps \subseteq Nat /\ gaps # {}
  BY <1>1
<1> HIDE DEF gaps
<1>3. PICK m \in gaps : \A i \in gaps : m <= i
  BY <1>2, LeastElement
<1>4. PICK a \in spans : m = Length - a.start
  BY DEF gaps
<1>5. \A b \in spans : Length - b.start \in gaps
  BY DEF gaps
<1>6. \A b \in spans : a.start >= b.start
  BY <1>1, <1>3, <1>4, <1>5
<1>7. QED
  BY <1>6 DEF Rightmost

-----------------------------------------------------------------------------
(* Types.  A replacement never shortens the text, so that the next span to *)
(* the left is still within it.                                            *)

TypeInv ==
    /\ TypeOK
    /\ terms \in [white : SUBSET TextRange, black : SUBSET TextRange]
    /\ Len(result) >= Length
    /\ pc \in {"analyse", "find", "select"} => kept = {}
    /\ pc \in {"resolve", "merge"} => work \cup kept \subseteq Hits
    /\ pc # "done" => outcome = "none"

LEMMA TypeInit == Init => TypeInv
BY DEF Init, TypeInv, TypeOK, Phases, Prompt

\* What one replacement makes of the text: the characters on its left stay,
\* those on its right move by one.
LEMMA ReplaceText ==
    ASSUME TypeInv, Replace, NEW s, s = Rightmost(work)
    PROVE  /\ s \in work /\ work' = work \ {s}
           /\ s.start \in 0..Length /\ s.end \in 0..Length /\ s.start < s.end
           /\ result' \in Seq(0..Length)
           /\ Len(result') = Len(result) + 1
           /\ \A p \in 1..s.start : result'[p] = result[p]
           /\ \A p \in (s.start + 1)..(s.end + 1) : result'[p] = 0
           /\ \A p \in (s.end + 2)..Len(result') : result'[p] = result[p - 1]
<1> DEFINE before == SubSeq(result, 1, s.start)
           after == SubSeq(result, s.end + 1, Len(result))
<1>1. /\ work # {} /\ work \subseteq Span(Kinds)
      /\ result' = before \o Replacement(s) \o after
      /\ work' = work \ {s}
  BY DEF Replace, TypeInv, TypeOK, Kinds
<1>2. s \in work
  BY <1>1, RightmostType
<1>3. /\ s.start \in 0..Length /\ s.end \in 0..Length
      /\ s.start < s.end /\ Size(s) = s.end - s.start
  BY <1>1, <1>2, SpanType DEF Size
<1>4. /\ result \in Seq(0..Length) /\ Len(result) >= Length
      /\ Len(result) \in Nat /\ Length \in Nat
      /\ s.start \in Nat /\ s.end \in Nat /\ s.end <= Length
  BY <1>3 DEF TypeInv, TypeOK
<1>5. /\ before \in Seq(0..Length) /\ Len(before) = s.start
      /\ \A p \in 1..s.start : before[p] = result[p]
  BY <1>3, <1>4
<1>6. /\ after \in Seq(0..Length) /\ Len(after) = Len(result) - s.end
      /\ \A p \in 1..Len(after) : after[p] = result[p + s.end]
  <2>1. Len(result) \in Nat /\ s.end + 1 \in 1..(Len(result) + 1)
    BY <1>3, <1>4
  <2>2. /\ after \in Seq(0..Length)
        /\ Len(after) = IF s.end + 1 <= Len(result)
                          THEN Len(result) - (s.end + 1) + 1 ELSE 0
        /\ \A p \in 1..(Len(result) - (s.end + 1) + 1) :
              after[p] = result[s.end + 1 + p - 1]
    BY <1>4, <2>1, SubSeqProperties, SMTT(30)
  <2> HIDE DEF after
  <2>3. Len(after) = Len(result) - s.end
    BY <1>4, <2>2
  <2>4. ASSUME NEW p \in 1..Len(after) PROVE after[p] = result[p + s.end]
    <3>1. /\ p \in 1..(Len(result) - (s.end + 1) + 1)
          /\ s.end + 1 + p - 1 = p + s.end
      BY <1>4, <2>3
    <3>2. QED
      BY <2>2, <3>1
  <2>5. QED
    BY <2>2, <2>3, <2>4
<1>7. /\ Replacement(s) \in Seq(0..Length)
      /\ Len(Replacement(s)) = s.end - s.start + 1
      /\ \A p \in 1..(s.end - s.start + 1) : Replacement(s)[p] = 0
  BY <1>3 DEF Replacement
<1> HIDE DEF before, after
<1>8. /\ before \o Replacement(s) \in Seq(0..Length)
      /\ Len(before \o Replacement(s)) = s.end + 1
      /\ \A p \in 1..(s.end + 1) :
            (before \o Replacement(s))[p] =
               IF p <= s.start THEN before[p] ELSE Replacement(s)[p - s.start]
  <2>1. /\ before \o Replacement(s) \in Seq(0..Length)
        /\ Len(before \o Replacement(s)) =
              Len(before) + Len(Replacement(s))
        /\ \A p \in 1..(Len(before) + Len(Replacement(s))) :
              (before \o Replacement(s))[p] =
                 IF p <= Len(before) THEN before[p]
                                     ELSE Replacement(s)[p - Len(before)]
    BY <1>5, <1>7, ConcatProperties, SMTT(30)
  <2>2. Len(before) + Len(Replacement(s)) = s.end + 1
    BY <1>3, <1>5, <1>7
  <2>3. QED
    BY <1>5, <2>1, <2>2
<1>9. /\ result' \in Seq(0..Length)
      /\ Len(result') = Len(result) + 1
      /\ \A p \in 1..(Len(result) + 1) :
            result'[p] = IF p <= s.end + 1
                           THEN (before \o Replacement(s))[p]
                           ELSE after[p - (s.end + 1)]
  <2>1. /\ result' \in Seq(0..Length)
        /\ Len(result') = Len(before \o Replacement(s)) + Len(after)
        /\ \A p \in 1..(Len(before \o Replacement(s)) + Len(after)) :
              result'[p] = IF p <= Len(before \o Replacement(s))
                             THEN (before \o Replacement(s))[p]
                             ELSE after[p - Len(before \o Replacement(s))]
    <3> DEFINE left == before \o Replacement(s)
    <3>1. left \in Seq(0..Length) /\ result' = left \o after
      BY <1>1, <1>8 DEF before, after
    <3> HIDE DEF left
    <3>2. /\ left \o after \in Seq(0..Length)
          /\ Len(left \o after) = Len(left) + Len(after)
          /\ \A p \in 1..(Len(left) + Len(after)) :
                (left \o after)[p] = IF p <= Len(left) THEN left[p]
                                                     ELSE after[p - Len(left)]
      BY <1>6, <3>1, ConcatProperties
    <3>3. QED
      BY <3>1, <3>2 DEF left
  <2>2. Len(before \o Replacement(s)) + Len(after) = Len(result) + 1
    BY <1>3, <1>4, <1>6, <1>8
  <2>3. QED
    BY <1>8, <2>1, <2>2
<1>10. ASSUME NEW p \in 1..s.start PROVE result'[p] = result[p]
  <2>1. p \in 1..(s.end + 1) /\ p \in 1..(Len(result) + 1) /\ p <= s.start
        /\ p <= s.end + 1
    BY <1>3, <1>4
  <2>2. QED
    BY <1>5, <1>8, <1>9, <2>1
<1>11. ASSUME NEW p \in (s.start + 1)..(s.end + 1) PROVE result'[p] = 0
  <2>1. p \in 1..(s.end + 1) /\ p \in 1..(Len(result) + 1)
        /\ ~(p <= s.start) /\ p <= s.end + 1
        /\ p - s.start \in 1..(s.end - s.start + 1)
    <3>1. p \in Int /\ s.start + 1 <= p /\ p <= s.end + 1
      BY <1>4
    <3>2. p \in 1..(s.end + 1) /\ p \in 1..(Len(result) + 1)
      BY <1>4, <3>1
    <3>3. p - s.start \in 1..(s.end - s.start + 1)
      <4>1. s.start \in Int /\ s.end \in Int
        BY <1>4
      <4>2. QED
        BY <3>1, <4>1, SMTT(30)
    <3>4. QED
      BY <1>4, <3>1, <3>2, <3>3
  <2>2. QED
    BY <1>7, <1>8, <1>9, <2>1
<1>12. ASSUME NEW p \in (s.end + 2)..Len(result')
       PROVE  result'[p] = result[p - 1]
  <2>1. /\ p - (s.end + 1) \in 1..Len(after)
        /\ (p - (s.end + 1)) + s.end = p - 1
        /\ p \in 1..(Len(result) + 1) /\ ~(p <= s.end + 1)
    <3>1. Len(after) = Len(result) - s.end /\ Len(result') = Len(result) + 1
      BY <1>6, <1>9
    <3>2. p \in Int /\ s.end + 2 <= p /\ p <= Len(result) + 1
      BY <1>4, <3>1
    <3>3. p - (s.end + 1) \in 1..Len(after)
      BY <1>4, <3>1, <3>2
    <3>4. p \in 1..(Len(result) + 1) /\ ~(p <= s.end + 1)
      BY <1>4, <3>2
    <3>5. (p - (s.end + 1)) + s.end = p - 1
      BY <1>4, <3>2
    <3>6. QED
      BY <3>3, <3>4, <3>5
  <2>2. QED
    BY <1>6, <1>9, <2>1
<1>13. QED
  BY <1>1, <1>2, <1>3, <1>9, <1>10, <1>11, <1>12

LEMMA ReplaceType ==
    ASSUME TypeInv, Replace
    PROVE  TypeInv'
<1>1. /\ result' \in Seq(0..Length) /\ Len(result') = Len(result) + 1
      /\ work' \subseteq work
  BY ReplaceText
<1>2. Len(result) >= Length /\ Len(result) \in Nat
  BY DEF TypeInv, TypeOK
<1>3. Len(result') >= Length
  BY <1>1, <1>2
<1>4. QED
  BY <1>1, <1>3 DEF Replace, TypeInv, TypeOK, detection, policy

LEMMA KeepType ==
    ASSUME TypeInv, NEW phase \in {"resolve", "merge", "arrange"}, Keep(phase)
    PROVE  TypeInv'
<1>1. work' \subseteq work /\ kept' \subseteq kept \cup work
  BY DEF Keep, Foremost
<1>2. QED
  BY <1>1 DEF Keep, TypeInv, TypeOK, detection, policy

LEMMA SelectType ==
    ASSUME TypeInv, Select
    PROVE  TypeInv'
<1>1. /\ terms'.white \subseteq TextRange /\ terms'.black \subseteq TextRange
      /\ terms' \in [white : SUBSET TextRange, black : SUBSET TextRange]
  BY SomeSubset DEF Select
<1>2. work' \subseteq detected \cup Custom(terms'.black)
  BY DEF Select
<1>3. work' \subseteq Span({"pii", "secret", "custom"})
  BY <1>1, <1>2, CustomSpans, HitsAreSpans DEF Kinds, TypeInv, TypeOK
<1>4. QED
  BY <1>1, <1>3 DEF Select, TypeInv, TypeOK, Phases, detection, policy

LEMMA OtherTypes ==
    ASSUME TypeInv,
           \/ Invalid \/ Analyse \/ Find \/ Merge \/ Policy \/ Arranged
           \/ Respond \/ UNCHANGED vars
    PROVE  TypeInv'
<1> USE DEF TypeInv, TypeOK, Phases, EndWith, detection, policy
<1>1. CASE Invalid
  BY <1>1 DEF Invalid
<1>2. CASE Analyse
  <2>1. Span({"pii"}) \subseteq Hits
    BY DEF Span, Hits
  <2>2. analysed' \subseteq Hits
    BY <1>2, <2>1, SomeSubset DEF Analyse
  <2>3. QED
    BY <1>2, <2>2 DEF Analyse
<1>3. CASE Find
  <2>1. hits' \subseteq Hits
    BY <1>3, SomeSubset DEF Find
  <2>2. hits' \subseteq Span({"pii", "secret", "custom"})
    BY <2>1, HitsAreSpans DEF Kinds
  <2>3. QED
    BY <1>3, <2>1, <2>2 DEF Find
<1>4. CASE Merge
  <2>1. analysed \subseteq Span({"pii", "secret", "custom"})
    BY HitsAreSpans DEF Kinds
  <2>2. QED
    BY <1>4, <2>1 DEF Merge
<1>5. CASE Policy
  BY <1>5 DEF Policy, Resolved
<1>6. CASE Arranged
  BY <1>6 DEF Arranged
<1>7. CASE Respond
  BY <1>7 DEF Respond
<1>8. CASE UNCHANGED vars
  BY <1>8 DEF vars
<1>9. QED
  BY <1>1, <1>2, <1>3, <1>4, <1>5, <1>6, <1>7, <1>8

LEMMA TypeNext == TypeInv /\ [Next]_vars => TypeInv'
<1> SUFFICES ASSUME TypeInv, [Next]_vars PROVE TypeInv'
  OBVIOUS
<1>1. CASE Keep("resolve") \/ Keep("merge") \/ Keep("arrange")
  BY <1>1, KeepType
<1>2. QED
  BY <1>1, ReplaceType, SelectType, OtherTypes DEF Next, Finished

\* The state of a call is of its type, and no replacement makes the text
\* shorter than the prompt.
THEOREM TypeCorrect == Spec => []TypeOK
<1>1. TypeInv => TypeOK
  BY DEF TypeInv
<1>2. QED
  BY <1>1, TypeInit, TypeNext, PTL DEF Spec

-----------------------------------------------------------------------------
(* The passes.                                                             *)

Apart(spans) == \A a, b \in spans : a # b => ~Overlap(a, b)

DisjointInv == Apart(kept) /\ Apart(detected)

\* Every pass leaves what it keeps apart.
LEMMA KeepApart ==
    ASSUME NEW phase, Apart(kept), Keep(phase)
    PROVE  Apart(kept')
<1>1. PICK s \in work :
        kept' = IF Touched(s, kept) THEN kept ELSE kept \cup {s}
  BY DEF Keep, Foremost
<1>2. CASE Touched(s, kept)
  BY <1>1, <1>2
<1>3. CASE ~Touched(s, kept)
  <2>1. \A b \in kept : ~Overlap(s, b) /\ ~Overlap(b, s)
    BY <1>3, OverlapBothWays DEF Touched
  <2>2. QED
    BY <1>1, <1>3, <2>1 DEF Apart
<1>4. QED
  BY <1>2, <1>3

LEMMA DisjointInit == Init => DisjointInv
BY DEF Init, DisjointInv, Apart

LEMMA DisjointNext == DisjointInv /\ [Next]_vars => DisjointInv'
<1> SUFFICES ASSUME DisjointInv, [Next]_vars PROVE DisjointInv'
  OBVIOUS
<1>1. ASSUME NEW phase, Keep(phase) PROVE DisjointInv'
  <2>1. detected' = detected
    BY <1>1 DEF Keep
  <2>2. QED
    BY <1>1, <2>1, KeepApart DEF DisjointInv, Apart
<1>2. CASE \/ Invalid \/ Analyse \/ Find \/ Select \/ Arranged \/ Replace
           \/ Respond \/ Finished \/ UNCHANGED vars
  <2>1. UNCHANGED <<kept, detected>>
    BY <1>2 DEF Invalid, Analyse, Find, Select, Arranged, Replace, Respond,
       Finished, vars
  <2>2. QED
    BY <2>1 DEF DisjointInv, Apart
<1>3. CASE Merge
  BY <1>3 DEF Merge, DisjointInv, Apart
<1>4. CASE Policy
  BY <1>4 DEF Policy, DisjointInv, Apart
<1>5. QED
  BY <1>1, <1>2, <1>3, <1>4 DEF Next

\* The spans that are kept never overlap, in any of the three passes,
\* however many hits overlap in whatever way.
THEOREM KeptDisjointHolds == Spec => []KeptDisjoint
<1>1. DisjointInv => KeptDisjoint
  BY DEF DisjointInv, Apart, KeptDisjoint
<1>2. QED
  BY <1>1, DisjointInit, DisjointNext, PTL DEF Spec

-----------------------------------------------------------------------------
(* What a hit is lost to.                                                  *)

\* What has been dealt with is kept, or it lost to something that is.
Settled(spans) ==
    \A h \in spans \ (work \cup kept) : \E d \in kept : Beats(d, h)

\* K is what the patterns kept: apart, and all that their other hits lost to.
FromPatterns(K) ==
    /\ Apart(K)
    /\ \A h \in hits \ (analysed \cup K) : \E m \in K : Beats(m, h)

\* What a pass has kept is at least as long as what it has still to look at.
\* The first pass settles the hits of the patterns, the second what these
\* left together with the hits of the analyzer.
LossInv ==
    /\ pc \in {"resolve", "merge"} =>
          \A k \in kept, w \in work : Size(k) >= Size(w)
    /\ pc = "resolve" => kept \subseteq hits /\ work \subseteq hits
                           /\ Settled(hits)
    /\ pc = "merge" => \E K \in SUBSET hits :
          /\ FromPatterns(K)
          /\ work \cup kept \subseteq analysed \cup K
          /\ Settled(analysed \cup K)

\* One iteration keeps the order of the lengths and settles one span more.
LEMMA LossKeep ==
    ASSUME TypeInv, NEW phase \in {"resolve", "merge"}, LossInv, Keep(phase)
    PROVE  /\ \A k \in kept', w \in work' : Size(k) >= Size(w)
           /\ work' \cup kept' \subseteq work \cup kept
           /\ \A spans : Settled(spans) => Settled(spans)'
<1>1. PICK s \in Foremost(work) :
        /\ work' = work \ {s}
        /\ kept' = IF Touched(s, kept) THEN kept ELSE kept \cup {s}
  BY DEF Keep
<1>2. pc = phase /\ s \in work
  BY <1>1 DEF Keep, Foremost
<1>3. \A w \in work \cup kept : Size(w) \in Nat
  BY SpanType DEF TypeInv, TypeOK, Kinds
<1>4. \A w \in work : Size(s) >= Size(w)
  BY <1>1, <1>2, <1>3 DEF Foremost, Before
<1>5. \A k \in kept', w \in work' : Size(k) >= Size(w)
  BY <1>1, <1>2, <1>4 DEF LossInv
<1>6. ASSUME NEW spans, Settled(spans),
             NEW h \in spans \ (work' \cup kept')
      PROVE  \E d \in kept' : Beats(d, h)
  <2>1. CASE h = s
    <3>1. Touched(s, kept)
      BY <1>1, <1>6, <2>1
    <3>2. PICK b \in kept : Overlap(s, b)
      BY <3>1 DEF Touched
    <3>3. Overlap(b, s) /\ Size(b) >= Size(s)
      BY <1>2, <3>2, OverlapBothWays DEF LossInv
    <3>4. QED
      BY <1>1, <2>1, <3>1, <3>3 DEF Beats
  <2>2. CASE h # s
    <3>1. h \in spans \ (work \cup kept)
      BY <1>1, <1>6, <2>2
    <3>2. QED
      BY <1>1, <1>6, <3>1 DEF Settled
  <2>3. QED
    BY <2>1, <2>2
<1>7. \A spans : Settled(spans) => Settled(spans)'
  BY <1>6 DEF Settled
<1>8. QED
  BY <1>1, <1>2, <1>5, <1>7

\* What the patterns kept when the hits of the analyzer join.
LEMMA LossMerge ==
    ASSUME TypeInv, DisjointInv, LossInv, Merge
    PROVE  LossInv'
<1>1. CASE pc' = "done"
  BY <1>1 DEF LossInv
<1>2. CASE pc' # "done"
  <2>1. /\ pc = "resolve" /\ work = {} /\ pc' = "merge"
        /\ work' = analysed \cup kept /\ kept' = {}
        /\ hits' = hits \cup analysed /\ analysed' = analysed
    BY <1>2 DEF Merge, EndWith
  <2>2. PICK K : K = kept
    OBVIOUS
  <2>3. K \in SUBSET hits' /\ Apart(K)
    BY <2>1, <2>2 DEF LossInv, DisjointInv
  <2>4. \A h \in hits \ K : \E m \in K : Beats(m, h)
    BY <2>1, <2>2 DEF LossInv, Settled
  <2>5. FromPatterns(K)'
    BY <2>1, <2>3, <2>4 DEF FromPatterns, Apart
  <2>6. work' \cup kept' \subseteq analysed' \cup K
    BY <2>1, <2>2
  <2>7. Settled(analysed \cup K)'
    BY <2>1, <2>2 DEF Settled
  <2>8. \E Q \in SUBSET hits' :
           /\ FromPatterns(Q)'
           /\ work' \cup kept' \subseteq analysed' \cup Q
           /\ Settled(analysed \cup Q)'
    BY <2>3, <2>5, <2>6, <2>7
  <2>9. QED
    BY <2>1, <2>8 DEF LossInv
<1>3. QED
  BY <1>1, <1>2

LEMMA LossSecond ==
    ASSUME TypeInv, LossInv, Keep("merge")
    PROVE  LossInv'
<1>1. /\ pc = "merge" /\ pc' = "merge"
      /\ hits' = hits /\ analysed' = analysed
  BY DEF Keep, detection
<1>2. /\ \A k \in kept', w \in work' : Size(k) >= Size(w)
      /\ work' \cup kept' \subseteq work \cup kept
      /\ \A spans : Settled(spans) => Settled(spans)'
  BY LossKeep
<1>3. PICK K \in SUBSET hits :
         /\ FromPatterns(K)
         /\ work \cup kept \subseteq analysed \cup K
         /\ Settled(analysed \cup K)
  BY <1>1 DEF LossInv
<1>4. PICK A : A = analysed
  OBVIOUS
<1>5. Settled(A \cup K)'
  BY <1>2, <1>3, <1>4
<1>6. FromPatterns(K)'
  BY <1>1, <1>3 DEF FromPatterns, Apart
<1>7. /\ K \in SUBSET hits'
      /\ work' \cup kept' \subseteq analysed' \cup K
      /\ Settled(analysed \cup K)'
  BY <1>1, <1>2, <1>3, <1>4, <1>5 DEF Settled
<1>8. QED
  BY <1>1, <1>2, <1>6, <1>7 DEF LossInv

LEMMA LossFirst ==
    ASSUME TypeInv, LossInv, Keep("resolve")
    PROVE  LossInv'
<1>1. pc = "resolve" /\ pc' = "resolve" /\ hits' = hits
  BY DEF Keep, detection
<1>2. /\ \A k \in kept', w \in work' : Size(k) >= Size(w)
      /\ work' \cup kept' \subseteq work \cup kept
      /\ \A spans : Settled(spans) => Settled(spans)'
  BY LossKeep
<1>3. PICK H : H = hits
  OBVIOUS
<1>4. Settled(H)'
  BY <1>1, <1>2, <1>3 DEF LossInv
<1>5. Settled(hits)'
  BY <1>1, <1>3, <1>4 DEF Settled
<1>6. QED
  BY <1>1, <1>2, <1>5 DEF LossInv

LEMMA LossNext ==
    TypeInv /\ DisjointInv /\ LossInv /\ [Next]_vars => LossInv'
<1> SUFFICES ASSUME TypeInv, DisjointInv, LossInv, [Next]_vars
             PROVE  LossInv'
  OBVIOUS
<1>1. CASE Keep("resolve")
  BY <1>1, LossFirst
<1>2. CASE Merge
  BY <1>2, LossMerge
<1>3. CASE Keep("merge")
  BY <1>3, LossSecond
<1>4. CASE Find
  BY <1>4 DEF Find, TypeInv, LossInv, EndWith, Settled
<1>5. CASE UNCHANGED vars
  BY <1>5 DEF vars, LossInv, FromPatterns, Apart, Settled
<1>6. CASE \/ Invalid \/ Analyse \/ Policy
           \/ Select \/ Keep("arrange") \/ Arranged \/ Replace \/ Respond
  <2>1. pc' \notin {"resolve", "merge"}
    BY <1>6 DEF Invalid, Analyse, Keep, Policy, Select, Arranged, Replace,
       Respond, EndWith
  <2>2. QED
    BY <2>1 DEF LossInv
<1>7. QED
  BY <1>1, <1>2, <1>3, <1>4, <1>5, <1>6 DEF Next, Finished

\* What the passes settled is what the property speaks of: a hit that lost
\* to one of the patterns' which was kept no longer lost, in the end, to a
\* hit of the analyzer, for the patterns kept nothing that overlaps.
LEMMA SettledLost ==
    ASSUME TypeInv, LossInv, Resolved, NEW h \in hits \ kept
    PROVE  \E d \in kept :
              \/ Beats(d, h)
              \/ /\ h \notin analysed /\ d \in analysed
                 /\ \E m \in hits : Beats(m, h) /\ Beats(d, m)
<1>1. CASE pc = "resolve"
  BY <1>1 DEF Resolved, LossInv, Settled
<1>2. CASE pc = "merge"
  <2>1. PICK K \in SUBSET hits :
           /\ FromPatterns(K)
           /\ work \cup kept \subseteq analysed \cup K
           /\ Settled(analysed \cup K)
    BY <1>2 DEF LossInv
  <2>2. work = {}
    BY DEF Resolved
  <2>3. CASE h \in analysed \cup K
    BY <2>1, <2>2, <2>3 DEF Settled
  <2>4. CASE h \notin analysed \cup K
    <3>1. PICK m \in K : Beats(m, h)
      BY <2>1, <2>4 DEF FromPatterns
    <3>2. CASE m \in kept
      BY <3>1, <3>2
    <3>3. CASE m \notin kept
      <4>1. PICK d \in kept : Beats(d, m)
        BY <2>1, <2>2, <3>3 DEF Settled
      <4>2. d \notin K
        BY <2>1, <3>3, <4>1 DEF FromPatterns, Apart, Beats
      <4>3. d \in analysed
        BY <2>1, <4>2
      <4>4. QED
        BY <2>4, <3>1, <4>1, <4>3
    <3>4. QED
      BY <3>2, <3>3
  <2>5. QED
    BY <2>3, <2>4
<1>3. QED
  BY <1>1, <1>2 DEF Resolved

\* A hit, a secret like any other, is lost only to a detected one at least as
\* long, however long the chain of overlaps; only a hit of the patterns may
\* lose twice, and then to a hit of the analyzer.
THEOREM LostToLongerHolds == Spec => []LostToLonger
<1> DEFINE Inv == TypeInv /\ DisjointInv /\ LossInv
<1>1. Init => Inv
  <2>1. Init => LossInv
    BY DEF Init, LossInv
  <2>2. QED
    BY <2>1, TypeInit, DisjointInit
<1>2. Inv /\ [Next]_vars => Inv'
  BY TypeNext, DisjointNext, LossNext
<1>3. Inv => LostToLonger
  BY SettledLost DEF LostToLonger
<1>4. QED
  BY <1>1, <1>2, <1>3, PTL DEF Spec

-----------------------------------------------------------------------------
(* Secrets.                                                                *)

Protected(s) == IsSecret(s) /\ ~Touched(s, terms.black)

\* A protected secret is among what is to be arranged, nothing it could lose
\* to is, and what is arranged is masked.
SecretInv ==
    /\ pc = "arrange" =>
          /\ work \cup kept \subseteq detected \cup Custom(terms.black)
          /\ \A s \in detected : Protected(s) => s \in work \cup kept
    /\ pc = "replace" \/ Masked =>
          \A s \in detected : Protected(s) => s \in kept

LEMMA ProtectedApart ==
    ASSUME DisjointInv, NEW s \in detected, Protected(s),
           NEW b \in detected \cup Custom(terms.black), b # s
    PROVE  ~Overlap(s, b)
<1>1. CASE b \in detected
  BY <1>1 DEF DisjointInv, Apart
<1>2. CASE b \in Custom(terms.black)
  <2>1. PICK r \in terms.black : b.start = r.start /\ b.end = r.end
    BY <1>2 DEF Custom
  <2>2. ~Overlap(s, r)
    BY DEF Protected, Touched
  <2>3. QED
    BY <2>1, <2>2 DEF Overlap
<1>3. QED
  BY <1>1, <1>2

LEMMA SecretKeep ==
    ASSUME TypeInv, DisjointInv, SecretInv, Keep("arrange")
    PROVE  SecretInv'
<1>1. PICK a \in work :
        /\ work' = work \ {a}
        /\ kept' = IF Touched(a, kept) THEN kept ELSE kept \cup {a}
  BY DEF Keep, Foremost
<1>2. /\ pc = "arrange" /\ UNCHANGED <<pc, detected, terms, outcome>>
      /\ outcome = "none"
  BY DEF Keep, TypeInv
<1>3. work' \cup kept' \subseteq detected \cup Custom(terms.black)
  BY <1>1, <1>2 DEF SecretInv
<1>4. ASSUME NEW s \in detected, Protected(s)
      PROVE  s \in work' \cup kept'
  <2>1. CASE s # a
    BY <1>1, <1>2, <1>4, <2>1 DEF SecretInv
  <2>2. CASE s = a /\ s \in kept
    BY <1>1, <2>2
  <2>3. CASE s = a /\ s \notin kept
    <3>1. \A b \in kept : ~Overlap(s, b)
      BY <1>2, <1>4, <2>3, ProtectedApart DEF SecretInv
    <3>2. ~Touched(s, kept)
      BY <3>1 DEF Touched
    <3>3. QED
      BY <1>1, <2>3, <3>2
  <2>4. QED
    BY <2>1, <2>2, <2>3
<1>5. QED
  BY <1>2, <1>3, <1>4 DEF SecretInv, Protected, Masked

LEMMA SecretSelect ==
    ASSUME TypeInv, Select
    PROVE  SecretInv'
<1>1. /\ work' = {s \in detected : /\ ~Released(s, terms'.white)
                                   /\ ~Touched(s, terms'.black)}
                   \cup Custom(terms'.black)
      /\ pc' = "arrange" /\ kept' = {} /\ detected' = detected
      /\ outcome' = "none"
  BY DEF Select, TypeInv
<1>2. ASSUME NEW s \in detected, IsSecret(s), ~Touched(s, terms'.black)
      PROVE  s \in work'
  BY <1>1, <1>2 DEF Released
<1>3. QED
  BY <1>1, <1>2 DEF SecretInv, Protected, Masked, Custom

LEMMA SecretNext ==
    TypeInv /\ DisjointInv /\ SecretInv /\ [Next]_vars => SecretInv'
<1> SUFFICES ASSUME TypeInv, DisjointInv, SecretInv, [Next]_vars
             PROVE  SecretInv'
  OBVIOUS
<1>1. CASE Select
  BY <1>1, SecretSelect
<1>2. CASE Keep("arrange")
  BY <1>2, SecretKeep
<1>3. CASE Arranged
  BY <1>3 DEF Arranged, TypeInv, SecretInv, Protected, Masked
<1>4. CASE Replace
  BY <1>4 DEF Replace, TypeInv, SecretInv, Protected, Masked
<1>5. CASE Respond
  BY <1>5 DEF Respond, EndWith, SecretInv, Protected, Masked
<1>6. CASE UNCHANGED vars
  BY <1>6 DEF vars, SecretInv, Protected, Masked
<1>7. CASE \/ Invalid \/ Analyse \/ Find \/ Keep("resolve") \/ Merge
           \/ Keep("merge") \/ Policy
  <2>1. pc' \notin {"arrange", "replace"} /\ ~Masked'
    BY <1>7 DEF Invalid, Analyse, Find, Keep, Merge, Policy, EndWith, TypeInv,
       Resolved, Masked
  <2>2. QED
    BY <2>1 DEF SecretInv
<1>8. QED
  BY <1>1, <1>2, <1>3, <1>4, <1>5, <1>6, <1>7 DEF Next, Finished

\* No whitelist releases a detected secret: one that the detector reports and
\* that no blacklist match touches is covered by what is masked, to its last
\* character.
THEOREM WhitelistKeepsSecretsHolds == Spec => []WhitelistKeepsSecrets
<1> DEFINE Inv == TypeInv /\ DisjointInv /\ SecretInv
<1>1. Init => Inv
  <2>1. Init => SecretInv
    BY DEF Init, SecretInv, Masked
  <2>2. QED
    BY <2>1, TypeInit, DisjointInit
<1>2. Inv /\ [Next]_vars => Inv'
  BY TypeNext, DisjointNext, SecretNext
<1>3. Inv => WhitelistKeepsSecrets
  BY DEF SecretInv, Protected, WhitelistKeepsSecrets, Covered
<1>4. QED
  BY <1>1, <1>2, <1>3, PTL DEF Spec

-----------------------------------------------------------------------------
(* The rewritten text.  While the spans are replaced, from right to left,  *)
(* those that are done lie to the right of those that are not, and the     *)
(* text is the prompt with those that are done replaced.                   *)

Done == kept \ work

TextInv ==
    /\ pc \notin {"replace", "done"} => result = Prompt
    /\ pc = "replace" =>
          /\ work \subseteq kept
          /\ \A w \in work, d \in Done : w.end <= d.start
          /\ IsFiniteSet(Done)
          /\ Rewritten(Done)
    /\ Masked => Rewritten(kept)

\* No character at or left of the end of the next span has been moved.
LEMMA NotMoved ==
    ASSUME NEW spans, spans \subseteq Span(Kinds), NEW n \in 0..Length,
           \A d \in spans : n <= d.start, NEW i \in 1..n
    PROVE  /\ Shift(spans, i) = 0
           /\ i \notin Covered(spans)
<1>1. \A d \in spans : /\ d.start \in 0..Length /\ d.end \in 0..Length
                       /\ d.start < d.end
  BY SpanType
<1>2. {d \in spans : d.end < i} = {}
  BY <1>1
<1>3. \A d \in spans : i \notin Chars(d)
  BY <1>1 DEF Chars
<1>4. QED
  BY <1>2, <1>3, FS_EmptySet DEF Shift, Covered

\* One more span moves what is right of it by one, and nothing else.
LEMMA ShiftGrows ==
    ASSUME NEW spans, IsFiniteSet(spans), NEW s, s \notin spans, NEW i
    PROVE  /\ Shift(spans, i) \in Nat
           /\ Shift(spans \cup {s}, i) =
                 IF s.end < i THEN Shift(spans, i) + 1 ELSE Shift(spans, i)
<1> DEFINE left == {d \in spans : d.end < i}
<1>1. IsFiniteSet(left)
  BY FS_Subset
<1>2. CASE s.end < i
  <2>1. {d \in spans \cup {s} : d.end < i} = left \cup {s}
    BY <1>2
  <2>2. Cardinality(left \cup {s}) = Cardinality(left) + 1
    BY <1>1, FS_AddElement
  <2>3. QED
    BY <1>1, <1>2, <2>1, <2>2, FS_CardinalityType DEF Shift
<1>3. CASE ~(s.end < i)
  <2>1. {d \in spans \cup {s} : d.end < i} = left
    BY <1>3
  <2>2. QED
    BY <1>1, <1>3, <2>1, FS_CardinalityType DEF Shift
<1>4. QED
  BY <1>2, <1>3

\* One replacement, right of nothing that is still to be replaced.
LEMMA ReplaceRewrites ==
    ASSUME TypeInv, DisjointInv, TextInv, Replace
    PROVE  TextInv'
<1> DEFINE s == Rightmost(work)
<1>1. /\ pc = "replace" /\ pc' = "replace" /\ kept' = kept
      /\ outcome = "none" /\ outcome' = outcome
      /\ work # {} /\ work \subseteq Span(Kinds) /\ kept \subseteq Span(Kinds)
      /\ result \in Seq(0..Length) /\ Len(result) \in Nat
  BY DEF Replace, TypeInv, TypeOK, Kinds
<1>2. /\ s \in work /\ work' = work \ {s}
      /\ s.start \in 0..Length /\ s.end \in 0..Length /\ s.start < s.end
      /\ result' \in Seq(0..Length)
      /\ Len(result') = Len(result) + 1
      /\ \A p \in 1..s.start : result'[p] = result[p]
      /\ \A p \in (s.start + 1)..(s.end + 1) : result'[p] = 0
      /\ \A p \in (s.end + 2)..Len(result') : result'[p] = result[p - 1]
  BY ReplaceText
<1>3. \A w \in work : s.start >= w.start
  BY <1>1, RightmostType
<1>3a. /\ Length \in Nat /\ Len(result) >= Length
       /\ s.start \in Nat /\ s.end \in Nat /\ s.end <= Length
  BY <1>2 DEF TypeInv
<1> HIDE DEF s
<1>4. /\ work \subseteq kept /\ IsFiniteSet(Done) /\ Rewritten(Done)
      /\ \A w \in work, d \in Done : w.end <= d.start
  BY <1>1 DEF TextInv
<1>5. Done' = Done \cup {s} /\ s \notin Done /\ Done \subseteq Span(Kinds)
  BY <1>1, <1>2, <1>4 DEF Done
<1>6. /\ IsFiniteSet(Done') /\ Cardinality(Done) \in Nat
      /\ Cardinality(Done') = Cardinality(Done) + 1
  BY <1>4, <1>5, FS_AddElement, FS_CardinalityType
<1>7. ASSUME NEW w \in work', NEW d \in Done'
      PROVE  w.end <= d.start
  <2>1. CASE d \in Done
    BY <1>2, <1>4, <2>1
  <2>2. CASE d = s
    <3>1. w # s /\ w \in kept /\ s \in kept /\ w \in work
      BY <1>2, <1>4
    <3>2. ~Overlap(w, s)
      BY <3>1 DEF DisjointInv, Apart
    <3>3. w.start \in 0..Length /\ w.end \in 0..Length
      BY <1>1, <3>1, SpanType
    <3>4. QED
      BY <1>2, <1>3, <2>2, <3>1, <3>2, <3>3 DEF Overlap
  <2>3. QED
    BY <1>5, <2>1, <2>2
<1>8. \A i : /\ Shift(Done, i) \in Nat
             /\ Shift(Done', i) = IF s.end < i THEN Shift(Done, i) + 1
                                               ELSE Shift(Done, i)
  BY <1>4, <1>5, ShiftGrows
<1>9. \A i \in 1..s.end : Shift(Done, i) = 0 /\ i \notin Covered(Done)
  BY <1>2, <1>4, <1>5, NotMoved
<1>10. Covered(Done') = Covered(Done) \cup Chars(s)
  BY <1>5 DEF Covered
<1>11. /\ Len(result) = Length + Cardinality(Done)
       /\ \A i \in (1..Length) \ Covered(Done) :
             result[i + Shift(Done, i)] = i
       /\ \A p \in DOMAIN result : result[p] # 0 =>
             /\ result[p] \notin Covered(Done)
             /\ p = result[p] + Shift(Done, result[p])
       /\ DOMAIN result = 1..Len(result) /\ DOMAIN result' = 1..Len(result')
  BY <1>1, <1>2, <1>4 DEF Rewritten
<1>12. \A i \in 1..Length : i \notin Chars(s) <=> i <= s.start \/ s.end < i
  BY <1>2 DEF Chars
<1>13. ASSUME NEW i \in (1..Length) \ Covered(Done')
       PROVE  result'[i + Shift(Done', i)] = i
  <2>1. i \notin Covered(Done) /\ (i <= s.start \/ s.end < i)
    BY <1>10, <1>12
  <2>2. CASE i <= s.start
    <3>1. Shift(Done', i) = 0 /\ Shift(Done, i) = 0
      BY <1>2, <1>8, <1>9, <2>2
    <3>2. QED
      BY <1>2, <1>11, <2>1, <2>2, <3>1
  <2>3. CASE s.end < i
    <3>1. /\ Shift(Done', i) = Shift(Done, i) + 1 /\ Shift(Done, i) \in Nat
          /\ result[i + Shift(Done, i)] = i
      BY <1>8, <1>11, <2>1, <2>3
    <3>2. i + Shift(Done, i) <= Len(result)
      <4>1. Shift(Done, i) <= Cardinality(Done)
        BY <1>4, FS_Subset DEF Shift
      <4>2. QED
        BY <1>6, <1>11, <3>1, <4>1
    <3>3. i + Shift(Done', i) \in (s.end + 2)..Len(result')
      <4>1. Len(result') = Len(result) + 1 /\ i \in Nat
        BY <1>2
      <4>2. s.end \in Nat /\ s.end + 1 <= i
        BY <1>1, <1>2, <1>3a, <2>3
      <4>3. Len(result) \in Nat
        BY <1>1, <1>3a
      <4>4. QED
        BY <2>3, <3>1, <3>2, <4>1, <4>2, <4>3
    <3>4. (i + Shift(Done', i)) - 1 = i + Shift(Done, i)
      BY <3>1
    <3>5. QED
      BY <1>2, <3>1, <3>3, <3>4
  <2>4. QED
    BY <2>1, <2>2, <2>3
<1>14. ASSUME NEW p \in DOMAIN result', result'[p] # 0
       PROVE  /\ result'[p] \notin Covered(Done')
              /\ p = result'[p] + Shift(Done', result'[p])
  <2>1. p \in 1..Len(result') /\ (p <= s.start \/ s.end + 2 <= p)
    <3>1. p \in 1..Len(result') /\ p \in Int /\ Len(result') \in Nat
      BY <1>1, <1>2, <1>11
    <3>2. p \notin (s.start + 1)..(s.end + 1)
      BY <1>2, <1>14
    <3>3. QED
      BY <1>3a, <3>1, <3>2
  <2>2. CASE p <= s.start
    <3>1. /\ result'[p] = result[p] /\ p \in DOMAIN result /\ p \in 1..s.end
          /\ p \in 1..Length
      <4>1. p \in 1..s.start /\ p \in 1..Len(result) /\ p \in 1..s.end
            /\ p \in 1..Length
        <5>1. s.start < s.end
          BY <1>2
        <5>2. QED
          BY <1>1, <1>3a, <2>1, <2>2, <5>1
      <4>2. QED
        BY <1>2, <1>11, <4>1
    <3>2. result'[p] = p
      <4>1. result[p + Shift(Done, p)] = p /\ Shift(Done, p) = 0
        BY <1>9, <1>11, <3>1
      <4>2. QED
        BY <3>1, <4>1
    <3>3. Shift(Done', p) = 0 /\ p \notin Covered(Done')
      BY <1>2, <1>8, <1>9, <1>10, <1>12, <2>2, <3>1
    <3>4. QED
      BY <3>1, <3>2, <3>3
  <2>3. CASE s.end + 2 <= p
    <3>1. p - 1 \in DOMAIN result /\ result'[p] = result[p - 1]
      <4>1. p \in (s.end + 2)..Len(result') /\ p - 1 \in 1..Len(result)
        <5>1. Len(result') = Len(result) + 1
          BY <1>2
        <5>2. QED
          BY <1>1, <1>3a, <2>1, <2>3, <5>1
      <4>2. QED
        BY <1>2, <1>11, <4>1
    <3> DEFINE i == result[p - 1]
    <3>2. i \in 0..Length /\ i # 0
      BY <1>1, <1>14, <3>1
    <3>3. i \notin Covered(Done) /\ p - 1 = i + Shift(Done, i)
      BY <1>11, <3>1, <3>2
    <3> HIDE DEF i
    <3>4. s.end < i
      <4>1. SUFFICES ASSUME ~(s.end < i) PROVE FALSE
        OBVIOUS
      <4>2. Shift(Done, i) = 0
        BY <1>2, <1>9, <3>2, <4>1
      <4>3. QED
        <5>1. p \in Int /\ i \in Int
          BY <2>1, <3>2
        <5>2. QED
          BY <1>3a, <2>3, <3>3, <4>1, <4>2, <5>1
    <3>5. i \notin Covered(Done')
      BY <1>10, <1>12, <3>2, <3>3, <3>4
    <3>6. p = i + Shift(Done', i)
      <4>1. Shift(Done', i) = Shift(Done, i) + 1 /\ Shift(Done, i) \in Nat
        BY <1>8, <3>4
      <4>2. p \in Int /\ i \in Int
        BY <2>1, <3>2
      <4>3. QED
        BY <3>3, <4>1, <4>2
    <3>7. QED
      BY <3>1, <3>5, <3>6 DEF i
  <2>4. QED
    BY <2>1, <2>2, <2>3
<1>15. Rewritten(Done)'
  <2>1. Len(result') = Length + Cardinality(Done')
    BY <1>1, <1>2, <1>6, <1>11
  <2>2. QED
    BY <1>13, <1>14, <2>1 DEF Rewritten, Shift, Covered, Chars
<1>16. QED
  <2>1. work' \subseteq kept' /\ ~Masked'
    BY <1>1, <1>2, <1>4 DEF Masked
  <2>2. QED
    BY <1>1, <1>6, <1>7, <1>15, <2>1 DEF TextInv

LEMMA TextArranged ==
    ASSUME TypeInv, TextInv, Arranged
    PROVE  TextInv'
<1>1. /\ work' = kept /\ kept' = kept /\ result' = Prompt /\ pc' = "replace"
      /\ ~Masked'
  BY DEF Arranged, TypeInv, TextInv, Masked
<1>2. Done' = {} /\ IsFiniteSet({}) /\ Cardinality({}) = 0
  BY <1>1, FS_EmptySet DEF Done
<1>3. \A i : Shift({}, i) = 0
  BY <1>2 DEF Shift
<1>4. Covered({}) = {}
  BY DEF Covered
<1>5. /\ DOMAIN Prompt = 1..Length /\ Len(Prompt) = Length
      /\ \A i \in 1..Length : Prompt[i] = i
  BY DEF Prompt
<1>6. Rewritten(Done)'
  BY <1>1, <1>2, <1>3, <1>4, <1>5 DEF Rewritten, Shift, Covered, Chars
<1>7. QED
  BY <1>1, <1>2, <1>6 DEF TextInv

LEMMA TextNext ==
    TypeInv /\ DisjointInv /\ TextInv /\ [Next]_vars => TextInv'
<1> SUFFICES ASSUME TypeInv, DisjointInv, TextInv, [Next]_vars
             PROVE  TextInv'
  OBVIOUS
<1>1. CASE Arranged
  BY <1>1, TextArranged
<1>2. CASE Replace
  BY <1>2, ReplaceRewrites
<1>3. CASE Respond
  <2>1. Done = kept
    BY <1>3 DEF Respond, Done
  <2>2. UNCHANGED <<kept, result>> /\ pc = "replace" /\ pc' = "done"
    BY <1>3 DEF Respond, EndWith
  <2>3. Rewritten(kept)'
    <3>1. Rewritten(kept)
      BY <2>1, <2>2 DEF TextInv
    <3>2. QED
      BY <2>2, <3>1 DEF Rewritten, Shift, Covered, Chars
  <2>4. QED
    BY <2>2, <2>3 DEF TextInv
<1>4. CASE UNCHANGED vars
  <2>1. UNCHANGED <<pc, work, kept, result, outcome>>
    BY <1>4 DEF vars
  <2>2. Rewritten(Done)' <=> Rewritten(Done)
    BY <2>1 DEF Rewritten, Shift, Covered, Chars, Done
  <2>3. Rewritten(kept)' <=> Rewritten(kept)
    BY <2>1 DEF Rewritten, Shift, Covered, Chars
  <2>4. Done' = Done /\ (Masked' <=> Masked)
    BY <2>1 DEF Done, Masked
  <2>5. QED
    BY <2>1, <2>2, <2>3, <2>4 DEF TextInv
<1>5. CASE \/ Invalid \/ Analyse \/ Find \/ Keep("resolve") \/ Merge
           \/ Keep("merge") \/ Policy \/ Select \/ Keep("arrange")
  <2>1. /\ pc' # "replace" /\ ~Masked' /\ result' = result
        /\ pc \notin {"replace", "done"}
    BY <1>5 DEF Invalid, Analyse, Find, Keep, Merge, Policy, Select, EndWith,
       TypeInv, Resolved, Masked
  <2>2. QED
    BY <2>1 DEF TextInv
<1>6. QED
  BY <1>1, <1>2, <1>3, <1>4, <1>5 DEF Next, Finished

\* A masked text is the prompt with the kept spans replaced: every character
\* outside them is there, once and in its place, whatever their number.
THEOREM RewrittenExactlyHolds == Spec => []RewrittenExactly
<1> DEFINE Inv == TypeInv /\ DisjointInv /\ TextInv
<1>1. Init => Inv
  <2>1. Init => TextInv
    BY DEF Init, TextInv, Masked
  <2>2. QED
    BY <2>1, TypeInit, DisjointInit
<1>2. Inv /\ [Next]_vars => Inv'
  BY TypeNext, DisjointNext, TextNext
<1>3. Inv => RewrittenExactly
  BY DEF TextInv, RewrittenExactly
<1>4. QED
  BY <1>1, <1>2, <1>3, PTL DEF Spec
=============================================================================
