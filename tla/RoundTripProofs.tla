-------------------------- MODULE RoundTripProofs ---------------------------
(***************************************************************************)
(* Proofs about a session's way from the prompt and back, for any prompt,  *)
(* types, spans and limit: that a placeholder stands for one value, that   *)
(* the rounds of restore amount to replacing all placeholders at once, and *)
(* that what was masked comes back.                                        *)
(*                                                                         *)
(* What these need are laws of concatenation, flattening and replacement   *)
(* that hold for texts of any length.  They are proved by the absence of a *)
(* shortest text for which they fail.                                      *)
(***************************************************************************)
EXTENDS RoundTrip, FiniteSetTheorems, SequenceTheorems, WellFoundedInduction,
        TLAPS

-----------------------------------------------------------------------------
(* Least elements.                                                         *)

LEMMA LeastElement ==
    ASSUME NEW S, S \subseteq Nat, S # {}
    PROVE  \E m \in S : \A i \in S : m <= i
<1>1. IsWellFoundedOn(OpToRel(<, Nat), Nat)
  BY NatLessThanWellFounded
<1>2. PICK m \in S : \A i \in S : <<i, m>> \notin OpToRel(<, Nat)
  BY <1>1, WFMin
<1>3. \A i \in S : ~(i < m)
  BY <1>2 DEF OpToRel
<1>4. QED
  BY <1>3

\* A set of sequences has a shortest one: induction over a sequence is the
\* absence of a shortest counterexample.
LEMMA ShortestSequence ==
    ASSUME NEW A, NEW S, S \subseteq Seq(A), S # {}
    PROVE  \E u \in S : \A v \in S : Len(u) <= Len(v)
<1> DEFINE lengths == {Len(u) : u \in S}
<1>1. lengths \subseteq Nat /\ lengths # {}
  <2>1. \A u \in S : u \in Seq(A)
    OBVIOUS
  <2>2. \A u \in S : Len(u) \in Nat
    BY <2>1, LenProperties
  <2>3. QED
    BY <2>2
<1> HIDE DEF lengths
<1>2. PICK m \in lengths : \A i \in lengths : m <= i
  BY <1>1, LeastElement
<1>3. QED
  BY <1>2 DEF lengths

-----------------------------------------------------------------------------
(* FlattenSeq.  The prover knows a recursive function as a choice, so that *)
(* there is something to choose comes first.                               *)

\* g is the sums of the first 1, 2, ..., n sequences of u.
Sums(u, g, n) ==
    g = [i \in 1..n |-> IF i = 1 THEN u[i] ELSE g[i - 1] \o u[i]]

LEMMA SumsExist ==
    ASSUME NEW u, NEW n \in Nat
    PROVE  \E g : Sums(u, g, n)
<1> DEFINE bad == {m \in Nat : ~\E g : Sums(u, g, m)}
<1>1. SUFFICES ASSUME bad # {} PROVE FALSE
  OBVIOUS
<1>2. PICK m \in bad : \A i \in bad : m <= i
  BY <1>1, LeastElement
<1>3. m # 0
  <2>1. Sums(u, [i \in 1..0 |-> i], 0)
    BY DEF Sums
  <2>2. QED
    BY <2>1
<1>4. m - 1 \in Nat /\ m - 1 \notin bad
  BY <1>2, <1>3
<1>5. PICK g : Sums(u, g, m - 1)
  BY <1>4
<1> DEFINE h == [i \in 1..m |-> IF i = 1 THEN u[i] ELSE g[i - 1] \o u[i]]
<1>6. ASSUME NEW i \in 1..(m - 1) PROVE h[i] = g[i]
  <2>1. i \in 1..m
    BY <1>4
  <2>2. g[i] = IF i = 1 THEN u[i] ELSE g[i - 1] \o u[i]
    BY <1>5 DEF Sums
  <2>3. QED
    BY <2>1, <2>2
<1>7. \A i \in 1..m : i # 1 => i - 1 \in 1..(m - 1)
  BY <1>4
<1>8. h = [i \in 1..m |-> IF i = 1 THEN u[i] ELSE h[i - 1] \o u[i]]
  BY <1>6, <1>7
<1>9. Sums(u, h, m)
  BY <1>8 DEF Sums
<1>10. QED
  BY <1>2, <1>9

\* Sums of the same sequences are the same.
LEMMA SumsAgree ==
    ASSUME NEW u, NEW v, NEW g, NEW h, NEW n \in Nat, NEW m \in Nat,
           Sums(u, g, n), Sums(v, h, m), n <= m, \A i \in 1..n : u[i] = v[i]
    PROVE  \A i \in 1..n : g[i] = h[i]
<1> DEFINE bad == {i \in 1..n : g[i] # h[i]}
<1>1. SUFFICES ASSUME bad # {} PROVE FALSE
  OBVIOUS
<1>2. PICK i \in bad : \A j \in bad : i <= j
  <2>1. bad \subseteq Nat
    OBVIOUS
  <2> HIDE DEF bad
  <2>2. QED
    BY <1>1, <2>1, LeastElement
<1>3. i \in 1..n /\ i \in 1..m /\ g[i] # h[i]
  BY <1>2
<1>4. /\ g[i] = IF i = 1 THEN u[i] ELSE g[i - 1] \o u[i]
      /\ h[i] = IF i = 1 THEN v[i] ELSE h[i - 1] \o v[i]
  BY <1>3 DEF Sums
<1>5. i # 1 => i - 1 \in 1..n /\ i - 1 \notin bad
  BY <1>2, <1>3
<1>6. i # 1 => g[i - 1] = h[i - 1]
  BY <1>5
<1>7. QED
  BY <1>3, <1>4, <1>6

LEMMA FlattenIsSum ==
    ASSUME NEW u, Len(u) \in Nat, Len(u) # 0
    PROVE  \E g : Sums(u, g, Len(u)) /\ FlattenSeq(u) = g[Len(u)]
<1> DEFINE g == CHOOSE f : Sums(u, f, Len(u))
<1>1. Sums(u, g, Len(u))
  BY SumsExist
<1>2. FlattenSeq(u) = g[Len(u)]
  BY DEF FlattenSeq, Sums
<1>3. QED
  BY <1>1, <1>2

LEMMA FlattenEmpty == FlattenSeq(<<>>) = <<>>
BY DEF FlattenSeq

\* Flattening sequences of pieces: the last one comes last.
LEMMA FlattenAppend ==
    ASSUME NEW A, NEW u \in Seq(Seq(A)), NEW x \in Seq(A)
    PROVE  FlattenSeq(Append(u, x)) = FlattenSeq(u) \o x
<1> DEFINE w == Append(u, x)
           n == Len(u)
<1>1. /\ n \in Nat /\ Len(w) = n + 1 /\ w[n + 1] = x
      /\ \A i \in 1..n : u[i] = w[i]
  OBVIOUS
<1> HIDE DEF w, n
<1>2. PICK h : Sums(w, h, n + 1) /\ FlattenSeq(w) = h[n + 1]
  <2>1. Len(w) \in Nat /\ Len(w) # 0
    BY <1>1
  <2>2. QED
    BY <1>1, <2>1, FlattenIsSum
<1>3. h[n + 1] = IF n + 1 = 1 THEN x ELSE h[n] \o x
  <2>1. /\ n + 1 \in 1..(n + 1) /\ (n + 1) - 1 = n
    BY <1>1
  <2>2. h[n + 1] = IF n + 1 = 1 THEN w[n + 1] ELSE h[(n + 1) - 1] \o w[n + 1]
    BY <1>2, <2>1 DEF Sums
  <2>3. QED
    BY <1>1, <2>1, <2>2
<1>4. CASE n = 0
  <2>1. u = <<>>
    BY <1>4 DEF n
  <2>2. <<>> \o x = x
    BY ConcatEmptySeq
  <2>3. QED
    BY <1>2, <1>3, <1>4, <2>1, <2>2, FlattenEmpty DEF w
<1>5. CASE n # 0
  <2>1. PICK g : Sums(u, g, n) /\ FlattenSeq(u) = g[n]
    BY <1>1, <1>5, FlattenIsSum DEF n
  <2>2. \A i \in 1..n : g[i] = h[i]
    BY <1>1, <1>2, <2>1, SumsAgree
  <2>3. g[n] = h[n] /\ n + 1 # 1
    BY <1>1, <1>5, <2>2
  <2>4. QED
    BY <1>2, <1>3, <2>1, <2>3 DEF w
<1>6. QED
  BY <1>4, <1>5

LEMMA FlattenType ==
    ASSUME NEW A
    PROVE  \A u \in Seq(Seq(A)) : FlattenSeq(u) \in Seq(A)
<1> DEFINE Bad == {u \in Seq(Seq(A)) : FlattenSeq(u) \notin Seq(A)}
<1>1. SUFFICES ASSUME Bad # {} PROVE FALSE
  OBVIOUS
<1>2. PICK u \in Bad : \A v \in Bad : Len(u) <= Len(v)
  <2>1. Bad \subseteq Seq(Seq(A))
    OBVIOUS
  <2> HIDE DEF Bad
  <2>2. QED
    BY <1>1, <2>1, ShortestSequence
<1>3. u \in Seq(Seq(A)) /\ FlattenSeq(u) \notin Seq(A)
  OBVIOUS
<1>4. u # <<>>
  BY <1>3, FlattenEmpty
<1>5. PICK v \in Seq(Seq(A)), x \in Seq(A) : u = Append(v, x)
  BY <1>3, <1>4, SequenceEmptyOrAppend
<1>6. Len(u) = Len(v) + 1 /\ Len(v) \in Nat
  BY <1>5
<1>7. FlattenSeq(v) \in Seq(A)
  BY <1>2, <1>6
<1>8. FlattenSeq(u) = FlattenSeq(v) \o x
  BY <1>5, FlattenAppend
<1>9. QED
  BY <1>3, <1>7, <1>8

LEMMA FlattenConcat ==
    ASSUME NEW A, NEW u \in Seq(Seq(A))
    PROVE  \A v \in Seq(Seq(A)) :
              FlattenSeq(u \o v) = FlattenSeq(u) \o FlattenSeq(v)
<1> DEFINE Bad == {v \in Seq(Seq(A)) :
                      FlattenSeq(u \o v) # FlattenSeq(u) \o FlattenSeq(v)}
<1>1. SUFFICES ASSUME Bad # {} PROVE FALSE
  OBVIOUS
<1>2. PICK v \in Bad : \A w \in Bad : Len(v) <= Len(w)
  <2>1. Bad \subseteq Seq(Seq(A))
    OBVIOUS
  <2> HIDE DEF Bad
  <2>2. QED
    BY <1>1, <2>1, ShortestSequence
<1>3. /\ v \in Seq(Seq(A))
      /\ FlattenSeq(u \o v) # FlattenSeq(u) \o FlattenSeq(v)
  OBVIOUS
<1>4. v # <<>>
  <2>1. u \o <<>> = u
    BY ConcatEmptySeq
  <2>2. FlattenSeq(u) \in Seq(A)
    BY FlattenType
  <2>3. FlattenSeq(u) \o <<>> = FlattenSeq(u)
    BY <2>2, ConcatEmptySeq
  <2>4. QED
    BY <1>3, <2>1, <2>3, FlattenEmpty
<1>5. PICK w \in Seq(Seq(A)), x \in Seq(A) : v = Append(w, x)
  BY <1>3, <1>4, SequenceEmptyOrAppend
<1>6. Len(v) = Len(w) + 1 /\ Len(w) \in Nat
  BY <1>5
<1>7. FlattenSeq(u \o w) = FlattenSeq(u) \o FlattenSeq(w)
  BY <1>2, <1>6
<1>8. u \o w \in Seq(Seq(A)) /\ u \o v = Append(u \o w, x)
  <2>1. u \o w \in Seq(Seq(A)) /\ <<x>> \in Seq(Seq(A))
    BY ConcatProperties
  <2>2. v = w \o <<x>> /\ Append(u \o w, x) = (u \o w) \o <<x>>
    BY <1>5, <2>1, AppendIsConcat
  <2>3. QED
    BY <2>1, <2>2, ConcatAssociative
<1>9. FlattenSeq(u \o v) = (FlattenSeq(u) \o FlattenSeq(w)) \o x
  BY <1>7, <1>8, FlattenAppend
<1>10. FlattenSeq(v) = FlattenSeq(w) \o x
  BY <1>5, FlattenAppend
<1>11. FlattenSeq(u) \in Seq(A) /\ FlattenSeq(w) \in Seq(A)
  BY FlattenType
<1>12. (FlattenSeq(u) \o FlattenSeq(w)) \o x =
          FlattenSeq(u) \o (FlattenSeq(w) \o x)
  BY <1>5, <1>11, ConcatAssociative, SMTT(30)
<1>13. QED
  BY <1>3, <1>9, <1>10, <1>12

-----------------------------------------------------------------------------
(* Replacing several placeholders at once.  In a text s, At(D, s, i) says  *)
(* that one of the placeholders D stands at i, and All(D, s) is s with all *)
(* of them replaced.                                                       *)

Tails == {TailOf(n) : n \in 0..MaxPrompt}

AllPieces == Pieces \cup {TailOf(n) : n \in 0..MaxPrompt}

Texts == Seq(AllPieces)

\* What the mapping of a session must be for that: placeholders are a head
\* and a tail each, and no value is empty.
Lawful ==
    \A ph \in Placeholders :
       /\ ph[1] \in Heads /\ ph[2] \in Tails /\ ph = <<ph[1], ph[2]>>
       /\ Mapped(ph) \in Texts /\ Mapped(ph) # <<>>

At(D, s, i) == i \in 1..(Len(s) - 1) /\ <<s[i], s[i + 1]>> \in D

Item(D, s, i) ==
    IF At(D, s, i) THEN Mapped(<<s[i], s[i + 1]>>)
    ELSE IF At(D, s, i - 1) THEN <<>> ELSE <<s[i]>>

Items(D, s) == [i \in 1..Len(s) |-> Item(D, s, i)]

All(D, s) == FlattenSeq(Items(D, s))

\* A placeholder of D begins at the end of a and ends at the start of b.
Straddles(D, a, b) == a # <<>> /\ b # <<>> /\ <<a[Len(a)], b[1]>> \in D

LEMMA HeadNotTail ==
    ASSUME NEW p \in Heads
    PROVE  p \notin Tails
BY DEF Heads, Tails, HeadOf, TailOf

LEMMA PlaceholderText ==
    ASSUME Lawful, NEW ph \in Placeholders
    PROVE  ph \in Texts /\ Len(ph) = 2
<1>1. ph = <<ph[1], ph[2]>> /\ ph[1] \in AllPieces /\ ph[2] \in AllPieces
  BY DEF Lawful, AllPieces, Pieces, Tails
<1>2. <<ph[1], ph[2]>> \in Seq(AllPieces) /\ Len(<<ph[1], ph[2]>>) = 2
  BY <1>1
<1>3. QED
  BY <1>1, <1>2 DEF Texts

LEMMA ItemsType ==
    ASSUME Lawful, NEW D, D \subseteq Placeholders, NEW s \in Texts
    PROVE  /\ Items(D, s) \in Seq(Texts) /\ Len(Items(D, s)) = Len(s)
           /\ All(D, s) \in Texts
<1>1. Len(s) \in Nat /\ \A i \in 1..Len(s) : s[i] \in AllPieces
  BY DEF Texts
<1>2. ASSUME NEW i \in 1..Len(s) PROVE Item(D, s, i) \in Texts
  <2>1. At(D, s, i) => Mapped(<<s[i], s[i + 1]>>) \in Texts
    BY DEF Lawful, At
  <2>2. <<>> \in Texts /\ <<s[i]>> \in Texts
    BY <1>1 DEF Texts
  <2>3. QED
    BY <2>1, <2>2 DEF Item
<1>3. Items(D, s) \in [1..Len(s) -> Texts]
  BY <1>2 DEF Items
<1>4. Items(D, s) \in Seq(Texts) /\ Len(Items(D, s)) = Len(s)
  BY <1>1, <1>3
<1>5. QED
  BY <1>4, FlattenType DEF All, Texts

\* Two texts are replaced separately, unless a placeholder straddles them.
LEMMA AllConcat ==
    ASSUME Lawful, NEW D, D \subseteq Placeholders,
           NEW a \in Texts, NEW b \in Texts, ~Straddles(D, a, b)
    PROVE  All(D, a \o b) = All(D, a) \o All(D, b)
<1> DEFINE c == a \o b
           m == Len(a)
           n == Len(b)
<1>1. /\ c \in Texts /\ m \in Nat /\ n \in Nat /\ Len(c) = m + n
      /\ \A i \in 1..(m + n) : c[i] = IF i <= m THEN a[i] ELSE b[i - m]
  BY DEF Texts
<1>2. ~(m # 0 /\ n # 0 /\ <<a[m], b[1]>> \in D)
  BY DEF Straddles
<1> HIDE DEF c
<1>3. ASSUME NEW i \in Int, i <= m PROVE At(D, c, i) <=> At(D, a, i)
  <2>1. CASE i < m
    <3>1. 1 <= i => c[i] = a[i] /\ c[i + 1] = a[i + 1]
      <4>1. 1 <= i => i \in 1..(m + n) /\ i + 1 \in 1..(m + n)
        BY <1>1, <2>1
      <4>2. QED
        BY <1>1, <1>3, <2>1, <4>1
    <3>2. i \in 1..(Len(c) - 1) <=> 1 <= i
      BY <1>1, <2>1
    <3>3. i \in 1..(Len(a) - 1) <=> 1 <= i
      BY <1>1, <2>1
    <3>4. QED
      BY <3>1, <3>2, <3>3 DEF At
  <2>2. CASE i = m
    <3>1. ~At(D, a, i)
      BY <1>1, <2>2 DEF At
    <3>2. SUFFICES ASSUME At(D, c, i) PROVE FALSE
      BY <3>1
    <3>3. m # 0 /\ n # 0 /\ i \in 1..(m + n) /\ i + 1 \in 1..(m + n)
      BY <1>1, <2>2, <3>2 DEF At
    <3>4. c[i] = a[m] /\ c[i + 1] = b[1]
      <4>1. ~(i + 1 <= m) /\ (i + 1) - m = 1
        BY <1>1, <2>2
      <4>2. QED
        BY <1>1, <2>2, <3>3, <4>1
    <3>5. QED
      BY <1>2, <3>2, <3>3, <3>4 DEF At
  <2>3. QED
    BY <1>1, <1>3, <2>1, <2>2
<1>4. ASSUME NEW i \in Int, i > m PROVE At(D, c, i) <=> At(D, b, i - m)
  <2>1. i \in 1..(Len(c) - 1) <=> i - m \in 1..(Len(b) - 1)
    BY <1>1, <1>4
  <2>2. i \in 1..(Len(c) - 1) => c[i] = b[i - m] /\ c[i + 1] = b[(i - m) + 1]
    <3>1. SUFFICES ASSUME i \in 1..(Len(c) - 1)
                   PROVE  c[i] = b[i - m] /\ c[i + 1] = b[(i - m) + 1]
      OBVIOUS
    <3>2. /\ i \in 1..(m + n) /\ i + 1 \in 1..(m + n)
          /\ ~(i <= m) /\ ~(i + 1 <= m) /\ (i + 1) - m = (i - m) + 1
      BY <1>1, <1>4, <3>1
    <3>3. QED
      BY <1>1, <3>2
  <2>3. QED
    BY <2>1, <2>2 DEF At
<1>5. ~At(D, b, 0)
  BY <1>1 DEF At
<1>6. ASSUME NEW i \in 1..m PROVE Item(D, c, i) = Item(D, a, i)
  <2>1. (At(D, c, i) <=> At(D, a, i)) /\ (At(D, c, i - 1) <=> At(D, a, i - 1))
    BY <1>1, <1>3
  <2>2. c[i] = a[i]
    BY <1>1
  <2>3. At(D, a, i) => c[i + 1] = a[i + 1]
    BY <1>1 DEF At
  <2>4. QED
    BY <2>1, <2>2, <2>3 DEF Item
<1>7. ASSUME NEW i \in (m + 1)..(m + n) PROVE Item(D, c, i) = Item(D, b, i - m)
  <2>1. i \in Int /\ i > m /\ i \in 1..(m + n) /\ ~(i <= m)
    BY <1>1
  <2>2. At(D, c, i) <=> At(D, b, i - m)
    BY <1>4, <2>1
  <2>3. At(D, c, i - 1) <=> At(D, b, (i - m) - 1)
    <3>1. CASE i - 1 > m
      <4>1. (i - 1) - m = (i - m) - 1 /\ i - 1 \in Int
        BY <1>1, <2>1
      <4>2. QED
        BY <1>4, <3>1, <4>1
    <3>2. CASE i - 1 = m
      <4>1. (i - m) - 1 = 0 /\ m \in Int /\ m <= m
        BY <1>1, <3>2
      <4>2. ~At(D, a, m)
        BY <1>1 DEF At
      <4>3. QED
        BY <1>3, <1>5, <3>2, <4>1, <4>2
    <3>3. QED
      BY <1>1, <2>1, <3>1, <3>2
  <2>4. c[i] = b[i - m]
    BY <1>1, <2>1
  <2>5. At(D, c, i) => c[i + 1] = b[(i - m) + 1]
    <3>1. At(D, c, i) => i + 1 \in 1..(m + n)
      BY <1>1, <2>1 DEF At
    <3>2. ~(i + 1 <= m) /\ (i + 1) - m = (i - m) + 1
      BY <1>1, <2>1
    <3>3. QED
      BY <1>1, <3>1, <3>2
  <2>6. QED
    BY <2>2, <2>3, <2>4, <2>5 DEF Item
<1>8. /\ Items(D, a) \in Seq(Texts) /\ Len(Items(D, a)) = m
      /\ Items(D, b) \in Seq(Texts) /\ Len(Items(D, b)) = n
      /\ Items(D, c) \in Seq(Texts) /\ Len(Items(D, c)) = m + n
  BY <1>1, ItemsType
<1>9. Items(D, c) = Items(D, a) \o Items(D, b)
  <2> DEFINE x == Items(D, a) \o Items(D, b)
  <2>1. /\ x \in Seq(Texts) /\ Len(x) = m + n
        /\ \A i \in 1..(m + n) :
              x[i] = IF i <= m THEN Items(D, a)[i] ELSE Items(D, b)[i - m]
    <3> DEFINE u == Items(D, a)
               v == Items(D, b)
    <3>1. u \in Seq(Texts) /\ Len(u) = m /\ v \in Seq(Texts) /\ Len(v) = n
      BY <1>8
    <3> HIDE DEF u, v
    <3>2. /\ u \o v \in Seq(Texts) /\ Len(u \o v) = Len(u) + Len(v)
          /\ \A i \in 1..(Len(u) + Len(v)) :
                (u \o v)[i] = IF i <= Len(u) THEN u[i] ELSE v[i - Len(u)]
      BY <3>1, ConcatProperties
    <3>3. QED
      BY <3>1, <3>2 DEF u, v
  <2> HIDE DEF x
  <2>2. ASSUME NEW i \in 1..(m + n) PROVE Items(D, c)[i] = x[i]
    <3>1. Items(D, c)[i] = Item(D, c, i)
      BY <1>1 DEF Items
    <3>2. CASE i <= m
      <4>1. i \in 1..m
        BY <1>1, <3>2
      <4>2. QED
        BY <1>6, <2>1, <3>1, <3>2, <4>1 DEF Items
    <3>3. CASE ~(i <= m)
      <4>1. i \in (m + 1)..(m + n) /\ i - m \in 1..n
        BY <1>1, <3>3
      <4>2. Items(D, b)[i - m] = Item(D, b, i - m)
        BY <4>1 DEF Items
      <4>3. QED
        BY <1>7, <2>1, <3>1, <3>3, <4>1, <4>2
    <3>4. QED
      BY <3>2, <3>3
  <2>3. Items(D, c) = x
    BY <1>8, <2>1, <2>2, SeqEqual
  <2>4. QED
    BY <2>3 DEF x
<1>10. QED
  BY <1>8, <1>9, FlattenConcat DEF All, Texts, c

LEMMA AllEmpty ==
    ASSUME NEW D
    PROVE  All(D, <<>>) = <<>>
<1>1. Items(D, <<>>) = <<>>
  BY DEF Items
<1>2. QED
  BY <1>1, FlattenEmpty DEF All

LEMMA FlattenOne ==
    ASSUME NEW x \in Texts
    PROVE  FlattenSeq(<<x>>) = x
<1>1. <<>> \in Seq(Seq(AllPieces)) /\ Append(<<>>, x) = <<x>>
  BY DEF Texts
<1>2. FlattenSeq(<<x>>) = <<>> \o x
  BY <1>1, FlattenAppend, FlattenEmpty DEF Texts
<1>3. QED
  BY <1>2, ConcatEmptySeq DEF Texts

LEMMA AllPiece ==
    ASSUME NEW D, NEW p \in AllPieces
    PROVE  <<p>> \in Texts /\ All(D, <<p>>) = <<p>>
<1>1. <<p>> \in Texts /\ Len(<<p>>) = 1 /\ <<p>>[1] = p
  BY DEF Texts
<1>2. ~At(D, <<p>>, 1) /\ ~At(D, <<p>>, 0)
  BY <1>1 DEF At
<1>3. Item(D, <<p>>, 1) = <<p>>
  BY <1>1, <1>2 DEF Item
<1>4. Items(D, <<p>>) = <<<<p>>>>
  BY <1>1, <1>3 DEF Items
<1>5. QED
  BY <1>1, <1>4, FlattenOne DEF All

LEMMA AllPlaceholder ==
    ASSUME Lawful, NEW D, D \subseteq Placeholders, NEW ph \in D
    PROVE  All(D, ph) = Mapped(ph)
<1>1. /\ ph \in Texts /\ Len(ph) = 2 /\ <<ph[1], ph[2]>> = ph
      /\ Mapped(ph) \in Texts
  BY PlaceholderText DEF Lawful
<1>2. At(D, ph, 1) /\ ~At(D, ph, 2) /\ ~At(D, ph, 0)
  BY <1>1 DEF At
<1>3. Item(D, ph, 1) = Mapped(ph) /\ Item(D, ph, 2) = <<>>
  BY <1>1, <1>2 DEF Item
<1>4. Items(D, ph) = <<Mapped(ph), <<>>>>
  BY <1>1, <1>3 DEF Items
<1>5. <<Mapped(ph), <<>>>> = Append(<<Mapped(ph)>>, <<>>)
  BY <1>1 DEF Texts
<1>6. /\ <<Mapped(ph)>> \in Seq(Seq(AllPieces)) /\ <<>> \in Seq(AllPieces)
  BY <1>1 DEF Texts
<1>7. All(D, ph) = Mapped(ph) \o <<>>
  BY <1>1, <1>4, <1>5, <1>6, FlattenAppend, FlattenOne DEF All
<1>8. QED
  BY <1>1, <1>7, ConcatEmptySeq DEF Texts

-----------------------------------------------------------------------------
(* A text that is not empty begins with one of the placeholders E, or with *)
(* a piece that begins none of them.                                       *)

Piece(E, p, rest) ==
    p \in AllPieces /\ rest \in Texts /\ ~Straddles(E, <<p>>, rest)

LEMMA Join ==
    ASSUME NEW a \in Texts, NEW b \in Texts
    PROVE  /\ a \o b \in Texts
           /\ Len(a) \in Nat /\ Len(b) \in Nat
           /\ Len(a \o b) = Len(a) + Len(b)
           /\ \A i \in 1..Len(a) : (a \o b)[i] = a[i]
<1>1. /\ a \o b \in Texts /\ Len(a) \in Nat /\ Len(b) \in Nat
      /\ Len(a \o b) = Len(a) + Len(b)
      /\ \A i \in 1..(Len(a) + Len(b)) :
            (a \o b)[i] = IF i <= Len(a) THEN a[i] ELSE b[i - Len(a)]
  BY ConcatProperties DEF Texts
<1>2. \A i \in 1..Len(a) : i \in 1..(Len(a) + Len(b)) /\ i <= Len(a)
  BY <1>1
<1>3. QED
  BY <1>1, <1>2

LEMMA TwoPieces ==
    ASSUME NEW A, NEW x \in A, NEW y \in A
    PROVE  <<x>> \o <<y>> = <<x, y>>
<1>1. <<x>> \in Seq(A) /\ <<y>> \in Seq(A) /\ <<x, y>> \in Seq(A)
      /\ Len(<<x>>) = 1 /\ Len(<<y>>) = 1 /\ Len(<<x, y>>) = 2
  OBVIOUS
<1> DEFINE t == <<x>> \o <<y>>
<1>2. /\ t \in Seq(A) /\ Len(t) = 1 + 1
      /\ \A i \in 1..(1 + 1) : t[i] = IF i <= 1 THEN <<x>>[i] ELSE <<y>>[i - 1]
  BY <1>1, ConcatProperties
<1> HIDE DEF t
<1>3. t[1] = x /\ t[2] = y
  BY <1>2
<1>4. \A i \in 1..Len(t) : t[i] = <<x, y>>[i]
  <2>1. \A i \in 1..Len(t) : i = 1 \/ i = 2
    BY <1>2
  <2>2. QED
    BY <1>3, <2>1
<1>5. t = <<x, y>>
  BY <1>1, <1>2, <1>4, SeqEqual
<1>6. QED
  BY <1>5 DEF t

LEMMA PairAt ==
    ASSUME NEW s \in Texts, NEW i \in 1..(Len(s) - 1)
    PROVE  SubSeq(s, i, i + 1) = <<s[i], s[i + 1]>>
<1> DEFINE t == SubSeq(s, i, i + 1)
<1>1. Len(s) \in Nat /\ s[i] \in AllPieces /\ s[i + 1] \in AllPieces
  BY DEF Texts
<1>2. \A j \in i..(i + 1) : s[j] \in AllPieces
  BY <1>1 DEF Texts
<1>3. /\ t \in Seq(AllPieces)
      /\ Len(t) = IF i <= i + 1 THEN (i + 1) - i + 1 ELSE 0
      /\ \A j \in 1..((i + 1) - i + 1) : t[j] = s[i + j - 1]
  BY <1>1, <1>2, SubSeqProperties
<1> HIDE DEF t
<1>4. Len(t) = 2 /\ t[1] = s[i] /\ t[2] = s[i + 1]
  <2>1. /\ (i + 1) - i + 1 = 2 /\ i + 1 - 1 = i /\ i + 2 - 1 = i + 1
        /\ i <= i + 1 /\ 1 \in 1..2 /\ 2 \in 1..2
    BY <1>1
  <2>2. QED
    BY <1>3, <2>1
<1>5. t = <<s[i], s[i + 1]>>
  BY <1>1, <1>3, <1>4
<1>6. QED
  BY <1>5 DEF t

LEMMA PieceAt ==
    ASSUME NEW s \in Texts, NEW i \in 1..Len(s)
    PROVE  SubSeq(s, i, i) = <<s[i]>>
<1> DEFINE t == SubSeq(s, i, i)
<1>1. Len(s) \in Nat /\ s[i] \in AllPieces
  BY DEF Texts
<1>2. /\ t \in Seq(AllPieces) /\ Len(t) = IF i <= i THEN i - i + 1 ELSE 0
      /\ \A j \in 1..(i - i + 1) : t[j] = s[i + j - 1]
  BY <1>1, SubSeqProperties
<1> HIDE DEF t
<1>3. Len(t) = 1 /\ t[1] = s[i]
  <2>1. i - i + 1 = 1 /\ i + 1 - 1 = i /\ i <= i /\ 1 \in 1..1
    BY <1>1
  <2>2. QED
    BY <1>2, <2>1
<1>4. t = <<s[i]>>
  BY <1>1, <1>2, <1>3
<1>5. QED
  BY <1>4 DEF t

LEMMA Peel ==
    ASSUME Lawful, NEW E, E \subseteq Placeholders, NEW s \in Texts, s # <<>>
    PROVE  \E rest \in Texts :
              /\ Len(rest) < Len(s)
              /\ \/ \E ph \in E : s = ph \o rest
                 \/ \E p \in AllPieces : s = <<p>> \o rest /\ Piece(E, p, rest)
<1>1. /\ Len(s) \in Nat /\ Len(s) >= 1 /\ s \in Seq(AllPieces)
      /\ \A i \in 1..Len(s) : s[i] \in AllPieces
  BY DEF Texts
<1>2. CASE At(E, s, 1)
  <2> DEFINE ph == <<s[1], s[2]>>
             rest == SubSeq(s, 3, Len(s))
  <2>1. ph \in E /\ Len(s) >= 2
    BY <1>1, <1>2 DEF At
  <2>2. ph \in Texts /\ Len(ph) = 2
    BY <2>1, PlaceholderText
  <2>3. rest \in Texts /\ Len(rest) = Len(s) - 2
    BY <1>1, <2>1 DEF Texts
  <2>4. SubSeq(s, 1, 2) = ph
    <3>1. 1 \in 1..(Len(s) - 1) /\ 1 + 1 = 2
      BY <1>1, <2>1
    <3>2. SubSeq(s, 1, 1 + 1) = <<s[1], s[1 + 1]>>
      BY <3>1, PairAt
    <3>3. QED
      BY <3>1, <3>2
  <2>5. SubSeq(s, 1, 2) \o SubSeq(s, 2 + 1, Len(s)) = SubSeq(s, 1, Len(s))
    BY <1>1, <2>1, ConcatAdjacentSubSeq
  <2>6. s = ph \o rest
    BY <1>1, <2>4, <2>5, SubSeqFull
  <2> HIDE DEF ph, rest
  <2>7. Len(rest) < Len(s)
    BY <1>1, <2>1, <2>3
  <2>8. \E q \in E : s = q \o rest
    BY <2>1, <2>6
  <2>9. QED
    BY <2>3, <2>7, <2>8
<1>3. CASE ~At(E, s, 1)
  <2> DEFINE p == s[1]
             rest == SubSeq(s, 2, Len(s))
  <2>1. p \in AllPieces /\ rest \in Texts /\ Len(rest) = Len(s) - 1
    BY <1>1 DEF Texts
  <2>2. s = <<p>> \o rest
    <3>1. SubSeq(s, 1, 1) = <<p>>
      BY <1>1, PieceAt
    <3>2. SubSeq(s, 1, 1) \o SubSeq(s, 1 + 1, Len(s)) = SubSeq(s, 1, Len(s))
      <4>1. /\ 1 \in 1..(Len(s) + 1) /\ 1 \in (1 - 1)..Len(s)
            /\ Len(s) \in 1..Len(s)
        BY <1>1
      <4>2. QED
        BY <1>1, <4>1, ConcatAdjacentSubSeq
    <3>3. QED
      BY <1>1, <3>1, <3>2, SubSeqFull
  <2>3. ~Straddles(E, <<p>>, rest)
    <3>1. SUFFICES ASSUME rest # <<>>, <<p, rest[1]>> \in E PROVE FALSE
      BY DEF Straddles
    <3>2. Len(s) >= 2 /\ rest[1] = s[2]
      BY <1>1, <2>1, <3>1
    <3>3. QED
      BY <1>1, <1>3, <3>1, <3>2 DEF At
  <2> HIDE DEF p, rest
  <2>4. \E q \in AllPieces : s = <<q>> \o rest /\ Piece(E, q, rest)
    BY <2>1, <2>2, <2>3 DEF Piece
  <2>5. Len(rest) < Len(s)
    BY <1>1, <2>1
  <2>6. QED
    BY <2>1, <2>4, <2>5
<1>4. QED
  BY <1>2, <1>3

\* What a text that begins with a placeholder, or with a piece that begins
\* none, is replaced with.
LEMMA PeelPlaceholder ==
    ASSUME Lawful, NEW D, D \subseteq Placeholders,
           NEW ph \in Placeholders, NEW rest \in Texts
    PROVE  /\ ph \in D => All(D, ph \o rest) = Mapped(ph) \o All(D, rest)
           /\ ph \notin D => All(D, ph \o rest) = ph \o All(D, rest)
<1>1. ph \in Texts /\ Len(ph) = 2 /\ <<ph[1], ph[2]>> = ph
  BY PlaceholderText DEF Lawful
<1>2. ~Straddles(D, ph, rest)
  <2>1. SUFFICES ASSUME <<ph[2], rest[1]>> \in Placeholders PROVE FALSE
    BY <1>1 DEF Straddles
  <2>2. <<ph[2], rest[1]>>[1] \in Heads
    BY <2>1 DEF Lawful
  <2>3. ph[2] \in Tails
    BY DEF Lawful
  <2>4. QED
    BY <2>2, <2>3, HeadNotTail
<1>3. All(D, ph \o rest) = All(D, ph) \o All(D, rest)
  BY <1>1, <1>2, AllConcat
<1>4. ASSUME ph \notin D PROVE All(D, ph) = ph
  <2> DEFINE h == ph[1]
             t == ph[2]
  <2>1. h \in AllPieces /\ t \in AllPieces /\ ph = <<h>> \o <<t>>
    <3>1. h \in AllPieces /\ t \in AllPieces
      BY DEF Lawful, AllPieces, Pieces, Tails
    <3>2. ph = <<h, t>>
      BY <1>1
    <3> HIDE DEF h, t
    <3>3. <<h>> \o <<t>> = <<h, t>>
      BY <3>1, TwoPieces
    <3>4. QED
      BY <3>1, <3>2, <3>3
  <2>2. ~Straddles(D, <<h>>, <<t>>)
    BY <1>1, <1>4 DEF Straddles
  <2> HIDE DEF h, t
  <2>3. <<h>> \in Texts /\ <<t>> \in Texts
    BY <2>1 DEF Texts
  <2>4. All(D, <<h>> \o <<t>>) = All(D, <<h>>) \o All(D, <<t>>)
    BY <2>2, <2>3, AllConcat
  <2>5. QED
    BY <2>1, <2>4, AllPiece
<1>5. QED
  BY <1>3, <1>4, AllPlaceholder

LEMMA PeelPiece ==
    ASSUME Lawful, NEW D, D \subseteq Placeholders,
           NEW p, NEW rest, Piece(D, p, rest)
    PROVE  All(D, <<p>> \o rest) = <<p>> \o All(D, rest)
<1>1. /\ p \in AllPieces /\ rest \in Texts /\ <<p>> \in Texts
      /\ ~Straddles(D, <<p>>, rest)
  BY AllPiece DEF Piece
<1>2. All(D, <<p>> \o rest) = All(D, <<p>>) \o All(D, rest)
  BY <1>1, AllConcat
<1>3. QED
  BY <1>1, <1>2, AllPiece

\* Nothing to replace.
LEMMA AllOfNone ==
    ASSUME Lawful
    PROVE  \A s \in Texts : All({}, s) = s
<1> DEFINE Bad == {s \in Texts : All({}, s) # s}
<1>1. SUFFICES ASSUME Bad # {} PROVE FALSE
  OBVIOUS
<1>2. PICK s \in Bad : \A v \in Bad : Len(s) <= Len(v)
  <2>1. Bad \subseteq Seq(AllPieces)
    BY DEF Texts
  <2> HIDE DEF Bad
  <2>2. QED
    BY <1>1, <2>1, ShortestSequence
<1>3. s # <<>>
  BY AllEmpty
<1>4. PICK rest \in Texts :
        /\ Len(rest) < Len(s)
        /\ \E p \in AllPieces : s = <<p>> \o rest /\ Piece({}, p, rest)
  BY <1>3, Peel
<1>5. All({}, rest) = rest
  BY <1>2, <1>4 DEF Texts
<1>6. PICK p \in AllPieces : s = <<p>> \o rest /\ Piece({}, p, rest)
  BY <1>4
<1>7. All({}, s) = <<p>> \o rest
  BY <1>5, <1>6, PeelPiece
<1>8. QED
  BY <1>6, <1>7

-----------------------------------------------------------------------------
(* Round by round is as good as all at once, if no value has the head of a *)
(* placeholder in it and no piece of the text and the beginning of a value *)
(* that comes to stand behind it make a placeholder.                       *)

ValuesApart ==
    \A q, r \in Placeholders : \A i \in 1..Len(Mapped(q)) : Mapped(q)[i] # r[1]

Clean(s) ==
    \A i \in 1..(Len(s) - 2) :
       At(Placeholders, s, i + 1) =>
          <<s[i], Mapped(<<s[i + 1], s[i + 2]>>)[1]>> \notin Placeholders

LEMMA ValueStays ==
    ASSUME Lawful, ValuesApart, NEW D, D \subseteq Placeholders,
           NEW q \in Placeholders
    PROVE  All(D, Mapped(q)) = Mapped(q)
<1> DEFINE v == Mapped(q)
<1>1. v \in Texts /\ Len(v) \in Nat
  BY DEF Lawful, Texts
<1>2. \A i : ~At(D, v, i)
  <2>1. SUFFICES ASSUME NEW i, At(D, v, i) PROVE FALSE
    OBVIOUS
  <2>2. <<v[i], v[i + 1]>> \in Placeholders /\ i \in 1..Len(v)
    BY <1>1, <2>1 DEF At
  <2>3. v[i] # <<v[i], v[i + 1]>>[1]
    BY <2>2 DEF ValuesApart
  <2>4. QED
    BY <2>3
<1>3. \A i : ~At({}, v, i)
  BY DEF At
<1>4. Items(D, v) = Items({}, v)
  BY <1>2, <1>3 DEF Items, Item
<1>5. QED
  BY <1>1, <1>4, AllOfNone DEF All

LEMMA CleanRest ==
    ASSUME NEW x \in Texts, NEW rest \in Texts, Clean(x \o rest)
    PROVE  Clean(rest)
<1> DEFINE s == x \o rest
           m == Len(x)
<1>1. /\ m \in Nat /\ Len(rest) \in Nat /\ Len(s) = m + Len(rest)
      /\ \A i \in 1..(m + Len(rest)) :
            s[i] = IF i <= m THEN x[i] ELSE rest[i - m]
  BY DEF Texts
<1> HIDE DEF s, m
<1>2. ASSUME NEW i \in 1..(Len(rest) - 2), At(Placeholders, rest, i + 1)
      PROVE  <<rest[i], Mapped(<<rest[i + 1], rest[i + 2]>>)[1]>>
                \notin Placeholders
  <2>1. /\ i + m \in 1..(Len(s) - 2)
        /\ i + m \in 1..(m + Len(rest)) /\ ~(i + m <= m)
        /\ (i + m) + 1 \in 1..(m + Len(rest)) /\ ~((i + m) + 1 <= m)
        /\ (i + m) + 2 \in 1..(m + Len(rest)) /\ ~((i + m) + 2 <= m)
        /\ (i + m) - m = i /\ ((i + m) + 1) - m = i + 1
        /\ ((i + m) + 2) - m = i + 2
        /\ (i + 1) + 1 = i + 2 /\ ((i + m) + 1) + 1 = (i + m) + 2
        /\ (i + m) + 1 \in 1..(Len(s) - 1)
    BY <1>1
  <2>2. /\ s[i + m] = rest[i] /\ s[(i + m) + 1] = rest[i + 1]
        /\ s[(i + m) + 2] = rest[i + 2]
    BY <1>1, <2>1
  <2>3. At(Placeholders, s, (i + m) + 1)
    BY <1>2, <2>1, <2>2 DEF At
  <2>4. QED
    BY <2>1, <2>2, <2>3 DEF Clean, s
<1>3. QED
  BY <1>2 DEF Clean

\* How a text with its placeholders replaced begins.
LEMMA FirstPiece ==
    ASSUME Lawful, NEW D, D \subseteq Placeholders,
           NEW s \in Texts, s # <<>>
    PROVE  \/ At(D, s, 1) /\ All(D, s)[1] = Mapped(<<s[1], s[2]>>)[1]
           \/ All(D, s)[1] = s[1]
<1>1. PICK rest \in Texts :
        \/ \E ph \in D : s = ph \o rest
        \/ \E p \in AllPieces : s = <<p>> \o rest /\ Piece(D, p, rest)
  BY Peel
<1>2. All(D, rest) \in Texts /\ Len(rest) \in Nat /\ Len(All(D, rest)) \in Nat
  BY ItemsType DEF Texts
<1>3. CASE \E ph \in D : s = ph \o rest
  <2>1. PICK ph \in D : s = ph \o rest
    BY <1>3
  <2>2. /\ ph \in Texts /\ Len(ph) = 2 /\ <<ph[1], ph[2]>> = ph
        /\ Mapped(ph) \in Texts /\ Mapped(ph) # <<>>
    BY PlaceholderText DEF Lawful
  <2>3. Len(s) = 2 + Len(rest) /\ s[1] = ph[1] /\ s[2] = ph[2]
    <3>1. 1 \in 1..Len(ph) /\ 2 \in 1..Len(ph)
      BY <2>2
    <3>2. /\ Len(ph \o rest) = Len(ph) + Len(rest)
          /\ \A i \in 1..Len(ph) : (ph \o rest)[i] = ph[i]
      BY <2>2, Join, Zenon
    <3>3. (ph \o rest)[1] = ph[1] /\ (ph \o rest)[2] = ph[2]
      BY <3>1, <3>2, Zenon
    <3>4. QED
      BY <2>1, <2>2, <3>2, <3>3, Zenon
  <2>4. At(D, s, 1)
    BY <1>2, <2>2, <2>3 DEF At
  <2>5. All(D, s) = Mapped(ph) \o All(D, rest)
    BY <2>1, PeelPlaceholder
  <2>6. Len(Mapped(ph)) \in Nat /\ Len(Mapped(ph)) >= 1
    BY <2>2 DEF Texts
  <2>7. All(D, s)[1] = Mapped(ph)[1]
    BY <1>2, <2>2, <2>5, <2>6 DEF Texts
  <2>8. QED
    BY <2>2, <2>3, <2>4, <2>7
<1>4. CASE \E p \in AllPieces : s = <<p>> \o rest /\ Piece(D, p, rest)
  <2>1. PICK p \in AllPieces : s = <<p>> \o rest /\ Piece(D, p, rest)
    BY <1>4
  <2>2. All(D, s) = <<p>> \o All(D, rest)
    BY <2>1, PeelPiece
  <2>3. (<<p>> \o All(D, rest))[1] = p /\ (<<p>> \o rest)[1] = p
    BY <1>2 DEF Texts
  <2>4. QED
    BY <2>1, <2>2, <2>3
<1>5. QED
  BY <1>1, <1>3, <1>4

LEMMA Rounds ==
    ASSUME Lawful, ValuesApart, NEW D, D \subseteq Placeholders,
           NEW ph \in Placeholders \ D
    PROVE  \A s \in Texts :
              Clean(s) => All({ph}, All(D, s)) = All(D \cup {ph}, s)
<1> DEFINE E == D \cup {ph}
           Bad == {s \in Texts : Clean(s) /\ All({ph}, All(D, s)) # All(E, s)}
<1>1. SUFFICES ASSUME Bad # {} PROVE FALSE
  OBVIOUS
<1>2. PICK s \in Bad : \A v \in Bad : Len(s) <= Len(v)
  <2>1. Bad \subseteq Seq(AllPieces)
    BY DEF Texts
  <2> HIDE DEF Bad
  <2>2. QED
    BY <1>1, <2>1, ShortestSequence
<1>3. s \in Texts /\ Clean(s) /\ All({ph}, All(D, s)) # All(E, s)
  OBVIOUS
<1>4. s # <<>>
  BY <1>3, AllEmpty
<1>5. PICK rest \in Texts :
        /\ Len(rest) < Len(s)
        /\ \/ \E q \in E : s = q \o rest
           \/ \E p \in AllPieces : s = <<p>> \o rest /\ Piece(E, p, rest)
  BY <1>3, <1>4, Peel
<1> DEFINE r == All(D, rest)
<1>6. r \in Texts /\ All(D, s) \in Texts
  BY <1>3, ItemsType
<1>7. ASSUME Clean(rest) PROVE All({ph}, r) = All(E, rest)
  <2>1. ~(Len(s) <= Len(rest))
    BY <1>3, <1>5 DEF Texts
  <2>2. QED
    BY <1>2, <1>7, <2>1
<1> HIDE DEF E, Bad, r
<1>8. E \subseteq Placeholders /\ {ph} \subseteq Placeholders /\ ph \in E
  BY DEF E
<1>9. CASE \E q \in E : s = q \o rest
  <2>1. PICK q \in E : s = q \o rest
    BY <1>9
  <2>2. q \in Texts /\ q \in Placeholders
    BY <1>8, PlaceholderText
  <2>3. All({ph}, r) = All(E, rest)
    BY <1>3, <1>7, <2>1, <2>2, CleanRest
  <2>4. All(E, s) = Mapped(q) \o All(E, rest)
    BY <1>8, <2>1, PeelPlaceholder
  <2>5. CASE q \in D
    <3>1. All(D, s) = Mapped(q) \o r
      BY <2>1, <2>2, <2>5, PeelPlaceholder DEF r
    <3>2. ~Straddles({ph}, Mapped(q), r)
      <4>1. SUFFICES ASSUME Mapped(q) # <<>>,
                            <<Mapped(q)[Len(Mapped(q))], r[1]>> = ph
                     PROVE  FALSE
        BY DEF Straddles
      <4>2. Len(Mapped(q)) \in 1..Len(Mapped(q))
        BY <2>2, <4>1 DEF Lawful, Texts
      <4>3. Mapped(q)[Len(Mapped(q))] # ph[1]
        BY <2>2, <4>2 DEF ValuesApart
      <4>4. ph[1] = Mapped(q)[Len(Mapped(q))]
        BY <4>1
      <4>5. QED
        BY <4>3, <4>4
    <3>3. Mapped(q) \in Texts
      BY <2>2 DEF Lawful
    <3>4. All({ph}, Mapped(q) \o r) = All({ph}, Mapped(q)) \o All({ph}, r)
      BY <1>6, <1>8, <3>2, <3>3, AllConcat
    <3>5. QED
      BY <1>3, <1>8, <2>2, <2>3, <2>4, <3>1, <3>4, ValueStays
  <2>6. CASE q \notin D
    <3>1. q = ph
      BY <2>6 DEF E
    <3>2. All(D, s) = ph \o r
      BY <2>1, <2>2, <2>6, <3>1, PeelPlaceholder DEF r
    <3>3. All({ph}, ph \o r) = Mapped(ph) \o All({ph}, r)
      BY <1>6, <1>8, PeelPlaceholder
    <3>4. QED
      BY <1>3, <2>3, <2>4, <3>1, <3>2, <3>3
  <2>7. QED
    BY <2>5, <2>6
<1>10. CASE \E p \in AllPieces : s = <<p>> \o rest /\ Piece(E, p, rest)
  <2>1. PICK p \in AllPieces : s = <<p>> \o rest /\ Piece(E, p, rest)
    BY <1>10
  <2>2. <<p>> \in Texts
    BY AllPiece
  <2>3. All({ph}, r) = All(E, rest)
    BY <1>3, <1>7, <2>1, <2>2, CleanRest
  <2>4. Piece(D, p, rest)
    BY <2>1 DEF Piece, Straddles, E
  <2>5. All(E, s) = <<p>> \o All(E, rest) /\ All(D, s) = <<p>> \o r
    BY <1>8, <2>1, <2>4, PeelPiece DEF r
  <2>6. ~Straddles({ph}, <<p>>, r)
    <3>1. SUFFICES ASSUME r # <<>>, <<p, r[1]>> = ph PROVE FALSE
      BY DEF Straddles
    <3>2. rest # <<>>
      BY <3>1, AllEmpty DEF r
    <3>3. r[1] # rest[1]
      BY <2>1, <3>1, <3>2, <1>8 DEF Piece, Straddles
    <3>4. At(D, rest, 1) /\ r[1] = Mapped(<<rest[1], rest[2]>>)[1]
      BY <3>2, <3>3, FirstPiece DEF r
    <3>5. /\ Len(rest) \in Nat /\ Len(rest) >= 2
          /\ <<rest[1], rest[2]>> \in Placeholders
      BY <3>4 DEF At, Texts
    <3>6. /\ Len(s) = Len(rest) + 1 /\ s[1] = p
          /\ s[2] = rest[1] /\ s[3] = rest[2]
      BY <2>1, <3>5 DEF Texts
    <3>7. At(Placeholders, s, 1 + 1) /\ 1 \in 1..(Len(s) - 2) /\ 1 + 2 = 3
      BY <3>5, <3>6 DEF At
    <3>8. <<s[1], Mapped(<<s[1 + 1], s[1 + 2]>>)[1]>> \notin Placeholders
      <4>1. Clean(s)
        BY <1>3
      <4>2. QED
        BY <3>7, <4>1, Zenon DEF Clean
    <3>9. <<p, Mapped(<<rest[1], rest[2]>>)[1]>> \notin Placeholders
      <4>1. 1 + 1 = 2 /\ 1 + 2 = 3
        OBVIOUS
      <4>2. QED
        BY <3>6, <3>8, <4>1, Zenon
    <3>10. QED
      BY <3>1, <3>4, <3>9, Zenon
  <2>7. Piece({ph}, p, r)
    BY <1>6, <2>6 DEF Piece
  <2>8. All({ph}, <<p>> \o r) = <<p>> \o All({ph}, r)
    BY <1>8, <2>7, PeelPiece
  <2>9. QED
    BY <1>3, <2>3, <2>5, <2>8
<1>11. QED
  BY <1>5, <1>9, <1>10

-----------------------------------------------------------------------------
(* Lengths.  A placeholder is two pieces.                                  *)

Wide == \A q \in Placeholders : Len(Mapped(q)) >= 2
Narrow == \A q \in Placeholders : Len(Mapped(q)) <= 2

LEMMA Lengths ==
    ASSUME Lawful, NEW D, NEW E, D \subseteq E, E \subseteq Placeholders
    PROVE  \A s \in Texts :
              /\ Wide => Len(All(D, s)) <= Len(All(E, s))
              /\ Narrow => Len(All(E, s)) <= Len(All(D, s))
<1> DEFINE Right(s) == /\ Wide => Len(All(D, s)) <= Len(All(E, s))
                       /\ Narrow => Len(All(E, s)) <= Len(All(D, s))
           Bad == {s \in Texts : ~Right(s)}
<1>1. SUFFICES ASSUME Bad # {} PROVE FALSE
  OBVIOUS
<1>2. PICK s \in Bad : \A v \in Bad : Len(s) <= Len(v)
  <2>1. Bad \subseteq Seq(AllPieces)
    BY DEF Texts
  <2> HIDE DEF Bad
  <2>2. QED
    BY <1>1, <2>1, ShortestSequence
<1>3. s \in Texts /\ ~Right(s)
  OBVIOUS
<1>4. s # <<>>
  BY <1>3, AllEmpty
<1>5. PICK rest \in Texts :
        /\ Len(rest) < Len(s)
        /\ \/ \E q \in E : s = q \o rest
           \/ \E p \in AllPieces : s = <<p>> \o rest /\ Piece(E, p, rest)
  BY <1>3, <1>4, Peel
<1>6. Right(rest)
  <2>1. ~(Len(s) <= Len(rest))
    BY <1>3, <1>5 DEF Texts
  <2>2. QED
    BY <1>2, <2>1
<1> DEFINE d == Len(All(D, rest))
           e == Len(All(E, rest))
<1>7. d \in Nat /\ e \in Nat /\ (Wide => d <= e) /\ (Narrow => e <= d)
  BY <1>6, ItemsType DEF Texts
<1>8. All(D, rest) \in Texts /\ All(E, rest) \in Texts
  BY ItemsType
<1>9. CASE \E q \in E : s = q \o rest
  <2>1. PICK q \in E : s = q \o rest
    BY <1>9
  <2>2. /\ q \in Placeholders /\ q \in Texts /\ Len(q) = 2
        /\ Mapped(q) \in Texts /\ Len(Mapped(q)) \in Nat
    BY <2>1, PlaceholderText DEF Lawful, Texts
  <2>3. Len(All(E, s)) = Len(Mapped(q)) + e
    <3>1. All(E, s) = Mapped(q) \o All(E, rest)
      BY <2>1, <2>2, PeelPlaceholder
    <3>2. QED
      BY <1>8, <2>2, <3>1, Join
  <2>4. CASE q \in D
    <3>1. Len(All(D, s)) = Len(Mapped(q)) + d
      <4>1. All(D, s) = Mapped(q) \o All(D, rest)
        BY <2>1, <2>2, <2>4, PeelPlaceholder
      <4>2. QED
        BY <1>8, <2>2, <4>1, Join
    <3>2. QED
      BY <1>3, <1>7, <2>2, <2>3, <3>1
  <2>5. CASE q \notin D
    <3>1. Len(All(D, s)) = 2 + d
      <4>1. All(D, s) = q \o All(D, rest)
        BY <2>1, <2>2, <2>5, PeelPlaceholder
      <4>2. Len(q \o All(D, rest)) = Len(q) + Len(All(D, rest))
        BY <1>8, <2>2, Join
      <4>3. QED
        BY <2>2, <4>1, <4>2
    <3>2. (Wide => Len(Mapped(q)) >= 2) /\ (Narrow => Len(Mapped(q)) <= 2)
      BY <2>2 DEF Wide, Narrow
    <3>3. QED
      BY <1>3, <1>7, <2>2, <2>3, <3>1, <3>2
  <2>6. QED
    BY <2>4, <2>5
<1>10. CASE \E p \in AllPieces : s = <<p>> \o rest /\ Piece(E, p, rest)
  <2>1. PICK p \in AllPieces : s = <<p>> \o rest /\ Piece(E, p, rest)
    BY <1>10
  <2>2. Piece(D, p, rest)
    BY <2>1 DEF Piece, Straddles
  <2>3. All(E, s) = <<p>> \o All(E, rest) /\ All(D, s) = <<p>> \o All(D, rest)
    BY <2>1, <2>2, PeelPiece
  <2>4. <<p>> \in Texts /\ Len(<<p>>) = 1
    BY AllPiece
  <2>5. Len(All(E, s)) = 1 + e /\ Len(All(D, s)) = 1 + d
    BY <1>8, <2>3, <2>4, ConcatProperties DEF Texts
  <2>6. QED
    BY <1>3, <1>7, <2>5
<1>11. QED
  BY <1>5, <1>9, <1>10
-----------------------------------------------------------------------------
(* What is masked stays the same: disjoint spans of the prompt.            *)

USE TypesAssumption, BoundsAssumption

SpansInv ==
    /\ prompt \in Seq(Pieces) /\ Len(prompt) <= MaxPrompt
    /\ spans \subseteq Span
    /\ \A sp \in spans : sp.first <= sp.last /\ sp.last <= Len(prompt)
    /\ \A a, b \in spans : a # b => Disjoint(a, b)
    /\ \A a, b \in spans : a # b => a.first # b.first

LEMMA InitSpansInv ==
    ASSUME prompt \in SeqOf(Pieces, MaxPrompt), spans \in Maskings(prompt)
    PROVE  SpansInv
<1>1. prompt \in Seq(Pieces) /\ Len(prompt) <= MaxPrompt
  <2>1. PICK m \in 0..MaxPrompt : prompt \in [1..m -> Pieces]
    BY DEF SeqOf
  <2>2. QED
    BY <2>1
<1>2. /\ spans \subseteq {sp \in Span : sp.first <= sp.last
                                        /\ sp.last <= Len(prompt)}
      /\ \A a, b \in spans : a # b => Disjoint(a, b)
  BY DEF Maskings
<1>3. ASSUME NEW a \in spans, NEW b \in spans, a # b
      PROVE  a.first # b.first
  <2>1. Disjoint(a, b) /\ a.first <= a.last /\ b.first <= b.last
    BY <1>2, <1>3
  <2>2. a.first \in Nat /\ a.last \in Nat /\ b.first \in Nat /\ b.last \in Nat
    BY <1>2 DEF Span
  <2>3. QED
    BY <2>1, <2>2 DEF Disjoint
<1>4. QED
  BY <1>1, <1>2, <1>3 DEF SpansInv

LEMMA NextSpans == [Next]_vars => UNCHANGED <<prompt, spans>>
BY DEF Next, Send, Substitute, Answer, Finished, vars

\* Every entity has a leader: the first of its type and value.
LEMMA LeaderExists ==
    ASSUME SpansInv, NEW sp \in spans
    PROVE  /\ Leader(sp) \in spans /\ Alike(Leader(sp), sp)
           /\ \A b \in spans : Alike(b, sp) => Leader(sp).first <= b.first
<1> DEFINE S == {a.first : a \in {b \in spans : Alike(b, sp)}}
<1>1. S \subseteq Nat
  BY DEF SpansInv, Span
<1>2. sp.first \in S
  BY DEF Alike
<1>3. PICK m \in S : \A i \in S : m <= i
  BY <1>1, <1>2, LeastElement
<1>4. PICK a \in spans : Alike(a, sp) /\ a.first = m
  BY <1>3
<1>5. \A b \in spans : Alike(b, sp) => a.first <= b.first
  BY <1>3, <1>4
<1>6. QED
  BY <1>4, <1>5 DEF Leader

\* Entities of one type and value have the same leader.
LEMMA LeaderOfAlike ==
    ASSUME NEW a, NEW b, Alike(a, b)
    PROVE  Leader(a) = Leader(b)
<1>1. \A c : Alike(c, a) <=> Alike(c, b)
  BY DEF Alike
<1>2. QED
  BY <1>1 DEF Leader

\* The values that were numbered before.
Seen(sp) ==
    {Value(o) : o \in {a \in spans :
                         a.type = sp.type /\ a.first < Leader(sp).first}}

LEMMA SeenFinite ==
    ASSUME SpansInv, NEW sp \in spans
    PROVE  IsFiniteSet(Seen(sp)) /\ Number(sp) \in 0..MaxPrompt
<1> DEFINE before == {a \in spans :
                        a.type = sp.type /\ a.first < Leader(sp).first}
           I == {a.first : a \in before}
           f == [i \in I |-> Value(CHOOSE a \in before : a.first = i)]
<1>1. IsFiniteSet(I) /\ Cardinality(I) <= MaxPrompt
  <2>1. I \in SUBSET (1..MaxPrompt)
    BY DEF SpansInv, Span
  <2>2. IsFiniteSet(1..MaxPrompt) /\ Cardinality(1..MaxPrompt) = MaxPrompt
    BY FS_Interval
  <2>3. QED
    BY <2>1, <2>2, FS_Subset
<1>2. \A a \in before : f[a.first] = Value(a)
  <2>1. ASSUME NEW a \in before
        PROVE  f[a.first] = Value(a)
    <3>1. (CHOOSE b \in before : b.first = a.first) = a
      BY <2>1 DEF SpansInv
    <3>2. QED
      BY <3>1
  <2>2. QED
    BY <2>1
<1>3. f \in Surjection(I, Seen(sp))
  <2>1. \A i \in I : \E a \in before : a.first = i
    OBVIOUS
  <2>2. \A i \in I : f[i] \in Seen(sp)
    BY <1>2, <2>1 DEF Seen
  <2>3. ASSUME NEW v \in Seen(sp)
        PROVE  \E i \in I : f[i] = v
    <3>1. PICK a \in before : v = Value(a)
      BY <2>3 DEF Seen
    <3>2. a.first \in I
      OBVIOUS
    <3>3. QED
      BY <1>2, <3>1, <3>2
  <2>4. f \in [I -> Seen(sp)]
    BY <2>2
  <2>5. QED
    BY <2>3, <2>4 DEF Surjection
<1>4. IsFiniteSet(Seen(sp)) /\ Cardinality(Seen(sp)) <= Cardinality(I)
  BY <1>1, <1>3, FS_Surjection
<1>5. Cardinality(Seen(sp)) \in Nat /\ Cardinality(I) \in Nat
  BY <1>1, <1>4, FS_CardinalityType
<1>6. QED
  BY <1>1, <1>4, <1>5 DEF Number, Seen

\* Of two values of one type, the one that comes first has the smaller
\* number.
LEMMA NumbersGrow ==
    ASSUME SpansInv, NEW a \in spans, NEW b \in spans,
           a.type = b.type, Leader(a).first < Leader(b).first
    PROVE  Number(a) < Number(b)
<1>1. /\ Leader(a) \in spans /\ Leader(b) \in spans
      /\ Alike(Leader(a), a)
      /\ \A c \in spans : Alike(c, a) => Leader(a).first <= c.first
  BY LeaderExists
<1>1a. \A c \in spans : c.first \in Nat
  BY DEF SpansInv, Span
<1>2. Seen(a) \subseteq Seen(b)
  BY <1>1, <1>1a DEF Seen
<1>3. Value(Leader(a)) \in Seen(b)
  BY <1>1 DEF Seen, Alike
<1>4. Value(Leader(a)) \notin Seen(a)
  <2>1. SUFFICES ASSUME NEW o \in spans, o.type = a.type,
                        o.first < Leader(a).first,
                        Value(o) = Value(Leader(a))
                 PROVE  FALSE
    BY DEF Seen
  <2>2. Alike(o, a)
    BY <1>1, <2>1 DEF Alike
  <2>3. QED
    BY <1>1, <1>1a, <2>1, <2>2
<1>5. IsFiniteSet(Seen(b)) /\ Number(a) \in Nat /\ Number(b) \in Nat
  BY SeenFinite
<1>6. /\ Cardinality(Seen(a)) <= Cardinality(Seen(b))
      /\ Cardinality(Seen(a)) # Cardinality(Seen(b))
  BY <1>2, <1>3, <1>4, <1>5, FS_Subset
<1>7. QED
  BY <1>5, <1>6 DEF Number, Seen

\* Two entities have the same placeholder exactly if they have the same type
\* and value.
LEMMA OnePlaceholder == SpansInv => OnePlaceholderPerValue
<1> SUFFICES ASSUME SpansInv, NEW a \in spans, NEW b \in spans
             PROVE  Placeholder(a) = Placeholder(b) <=> Alike(a, b)
  BY DEF OnePlaceholderPerValue
<1>1. Placeholder(a) = Placeholder(b)
        <=> a.type = b.type /\ Number(a) = Number(b)
  BY DEF Placeholder, HeadOf, TailOf
<1>2. ASSUME Alike(a, b)
      PROVE  a.type = b.type /\ Number(a) = Number(b)
  BY <1>2, LeaderOfAlike DEF Alike, Number
<1>3. ASSUME a.type = b.type, ~Alike(a, b)
      PROVE  Number(a) # Number(b)
  <2>1. /\ Leader(a) \in spans /\ Alike(Leader(a), a)
        /\ Leader(b) \in spans /\ Alike(Leader(b), b)
    BY LeaderExists
  <2>2. Leader(a) # Leader(b)
    BY <1>3, <2>1 DEF Alike
  <2>3. /\ Leader(a).first \in Nat /\ Leader(b).first \in Nat
        /\ Leader(a).first # Leader(b).first
    BY <2>1, <2>2 DEF SpansInv, Span
  <2>4. Leader(a).first < Leader(b).first
          \/ Leader(b).first < Leader(a).first
    BY <2>3
  <2>5. Number(a) < Number(b) \/ Number(b) < Number(a)
    BY <1>3, <2>4, NumbersGrow
  <2>6. Number(a) \in Nat /\ Number(b) \in Nat
    BY SeenFinite
  <2>7. QED
    BY <2>5, <2>6
<1>4. QED
  BY <1>1, <1>2, <1>3

-----------------------------------------------------------------------------
(* The mapping of a session.                                               *)

LEMMA ValueType ==
    ASSUME SpansInv, NEW sp \in spans
    PROVE  /\ Value(sp) \in Texts
           /\ Len(Value(sp)) = sp.last - sp.first + 1
           /\ Len(Value(sp)) \in Nat /\ Len(Value(sp)) >= 1
           /\ \A i \in 1..Len(Value(sp)) :
                 /\ sp.first + i - 1 \in 1..Len(prompt)
                 /\ Value(sp)[i] = prompt[sp.first + i - 1]
<1>1. /\ sp.first \in 1..MaxPrompt /\ sp.last \in 1..MaxPrompt
      /\ sp.first <= sp.last /\ sp.last <= Len(prompt) /\ Len(prompt) \in Nat
      /\ \A i \in 1..Len(prompt) : prompt[i] \in AllPieces
  BY DEF SpansInv, Span, AllPieces
<1>2. \A i \in sp.first..sp.last : prompt[i] \in AllPieces
  BY <1>1
<1>3. /\ Value(sp) \in Seq(AllPieces)
      /\ Len(Value(sp)) = IF sp.first <= sp.last
                            THEN sp.last - sp.first + 1 ELSE 0
      /\ \A i \in 1..(sp.last - sp.first + 1) :
            Value(sp)[i] = prompt[sp.first + i - 1]
  BY <1>1, <1>2, SubSeqProperties DEF Value
<1>4. \A i \in 1..(sp.last - sp.first + 1) :
         sp.first + i - 1 \in 1..Len(prompt)
  BY <1>1
<1>5. QED
  BY <1>1, <1>3, <1>4 DEF Texts

\* The mapping loses nothing: a placeholder is mapped to the value of every
\* entity it stands for.
LEMMA MappedValue ==
    ASSUME SpansInv, NEW sp \in spans
    PROVE  Mapped(Placeholder(sp)) = Value(sp)
<1> DEFINE H == Holders(Placeholder(sp))
           gaps == {MaxPrompt - a.first : a \in H}
<1>1. \A a \in H : a \in spans /\ MaxPrompt - a.first \in Nat /\ a.first \in Int
  BY DEF SpansInv, Span, Holders
<1>2. sp \in H
  BY DEF Holders
<1>3. gaps \subseteq Nat /\ gaps # {}
  BY <1>1, <1>2
<1> HIDE DEF gaps
<1>4. PICK m \in gaps : \A i \in gaps : m <= i
  BY <1>3, LeastElement
<1>5. PICK a \in H : m = MaxPrompt - a.first
  BY DEF gaps
<1>6. \A b \in H : MaxPrompt - b.first \in gaps
  BY DEF gaps
<1>7. \A b \in H : b.first <= a.first
  BY <1>1, <1>4, <1>5, <1>6
<1> DEFINE c == CHOOSE e \in H : \A b \in H : b.first <= e.first
<1>8. c \in H
  BY <1>7
<1>9. Placeholder(c) = Placeholder(sp) /\ c \in spans
  BY <1>8 DEF Holders
<1>10. Value(c) = Value(sp)
  BY <1>9, OnePlaceholder DEF OnePlaceholderPerValue, Alike
<1>11. QED
  BY <1>10 DEF Mapped

LEMMA PlaceholderType ==
    ASSUME SpansInv, NEW sp \in spans
    PROVE  /\ Placeholder(sp)[1] = HeadOf(sp.type)
           /\ Placeholder(sp)[1] \in Heads /\ Placeholder(sp)[2] \in Tails
           /\ Placeholder(sp) = <<Placeholder(sp)[1], Placeholder(sp)[2]>>
<1>1. sp.type \in Types /\ Number(sp) \in 0..MaxPrompt
  BY SeenFinite DEF SpansInv, Span
<1>2. HeadOf(sp.type) \in Heads /\ TailOf(Number(sp)) \in Tails
  BY <1>1 DEF Heads, Tails
<1>3. QED
  BY <1>2 DEF Placeholder

LEMMA LawfulHolds == SpansInv => Lawful
<1> SUFFICES ASSUME SpansInv, NEW ph \in Placeholders
             PROVE  /\ ph[1] \in Heads /\ ph[2] \in Tails
                    /\ ph = <<ph[1], ph[2]>>
                    /\ Mapped(ph) \in Texts /\ Mapped(ph) # <<>>
  BY DEF Lawful
<1>1. PICK sp \in spans : ph = Placeholder(sp)
  BY DEF Placeholders
<1>2. Mapped(ph) \in Texts /\ Len(Mapped(ph)) >= 1
  BY <1>1, MappedValue, ValueType
<1>3. Mapped(ph) # <<>>
  BY <1>2
<1>4. QED
  BY <1>1, <1>2, <1>3, PlaceholderType

-----------------------------------------------------------------------------
(* What the code replaces.                                                 *)

LEMMA OccursIsAt ==
    ASSUME NEW s \in Texts, NEW i \in Int, NEW ph
    PROVE  OccursAt(ph, s, i) <=> i \in 1..(Len(s) - 1)
                                  /\ <<s[i], s[i + 1]>> = ph
BY PairAt DEF OccursAt

\* A round is replacing one placeholder.
LEMMA ReplacedIsAll ==
    ASSUME NEW s \in Texts, NEW ph
    PROVE  Replaced(s, ph, Mapped(ph)) = All({ph}, s)
<1>1. DOMAIN s = 1..Len(s) /\ Len(s) \in Nat
  BY DEF Texts
<1>2. \A i \in Int : OccursAt(ph, s, i) <=> At({ph}, s, i)
  BY OccursIsAt DEF At
<1>3. ASSUME NEW i \in 1..Len(s)
      PROVE  Item({ph}, s, i) =
                IF OccursAt(ph, s, i) THEN Mapped(ph)
                ELSE IF OccursAt(ph, s, i - 1) THEN <<>> ELSE <<s[i]>>
  <2>1. /\ OccursAt(ph, s, i) <=> At({ph}, s, i)
        /\ OccursAt(ph, s, i - 1) <=> At({ph}, s, i - 1)
    <3>1. i \in Int /\ i - 1 \in Int
      BY <1>1
    <3>2. QED
      BY <1>2, <3>1
  <2>2. At({ph}, s, i) => <<s[i], s[i + 1]>> = ph
    BY DEF At
  <2>3. QED
    BY <2>1, <2>2 DEF Item
<1>4. QED
  BY <1>1, <1>3 DEF Replaced, All, Items

LEMMA AtOnceIsAll ==
    ASSUME NEW s \in Texts
    PROVE  AllAtOnce(s) = All(Placeholders, s)
<1>1. DOMAIN s = 1..Len(s) /\ Len(s) \in Nat
  BY DEF Texts
<1>2. \A i \in Int : Known(s, i) = IF At(Placeholders, s, i)
                                     THEN {<<s[i], s[i + 1]>>} ELSE {}
  BY OccursIsAt DEF Known, At
<1>3. ASSUME NEW i \in 1..Len(s)
      PROVE  Item(Placeholders, s, i) =
                IF Known(s, i) # {}
                  THEN Mapped(CHOOSE ph \in Known(s, i) : TRUE)
                ELSE IF Known(s, i - 1) # {} THEN <<>> ELSE <<s[i]>>
  <2>1. /\ Known(s, i) # {} <=> At(Placeholders, s, i)
        /\ Known(s, i - 1) # {} <=> At(Placeholders, s, i - 1)
    <3>1. \A j \in Int : Known(s, j) # {} <=> At(Placeholders, s, j)
      BY <1>2
    <3>2. i \in Int /\ i - 1 \in Int
      BY <1>1
    <3>3. QED
      BY <3>1, <3>2
  <2>2. At(Placeholders, s, i) =>
           (CHOOSE ph \in Known(s, i) : TRUE) = <<s[i], s[i + 1]>>
    BY <1>1, <1>2
  <2>3. QED
    BY <2>1, <2>2 DEF Item
<1>4. QED
  BY <1>1, <1>3 DEF AllAtOnce, All, Items

-----------------------------------------------------------------------------
(* The masked text, piece by piece of the prompt.                          *)

MaskItem(i) ==
    IF \E sp \in spans : sp.first = i
      THEN Placeholder(CHOOSE sp \in spans : sp.first = i)
    ELSE IF \E sp \in spans : sp.first < i /\ i <= sp.last
      THEN <<>> ELSE <<prompt[i]>>

MaskItems(n) == [i \in 1..n |-> MaskItem(i)]

MaskedTo(n) == FlattenSeq(MaskItems(n))

LEMMA MaskItemType ==
    ASSUME SpansInv
    PROVE  /\ Len(prompt) \in Nat
           /\ \A i \in 1..Len(prompt) : MaskItem(i) \in Texts
<1>1. Len(prompt) \in Nat /\ \A i \in 1..Len(prompt) : prompt[i] \in AllPieces
  BY DEF SpansInv, AllPieces
<1>2. ASSUME NEW i \in 1..Len(prompt) PROVE MaskItem(i) \in Texts
  <2>1. CASE \E sp \in spans : sp.first = i
    <3>1. (CHOOSE sp \in spans : sp.first = i) \in spans
      BY <2>1
    <3>2. Placeholder(CHOOSE sp \in spans : sp.first = i) \in Texts
      BY <3>1, LawfulHolds, PlaceholderText DEF Placeholders
    <3>3. QED
      BY <2>1, <3>2 DEF MaskItem
  <2>2. CASE ~\E sp \in spans : sp.first = i
    BY <1>1, <2>2 DEF MaskItem, Texts
  <2>3. QED
    BY <2>1, <2>2
<1>3. QED
  BY <1>1, <1>2

LEMMA MaskedToType ==
    ASSUME SpansInv, NEW n \in 0..Len(prompt)
    PROVE  MaskItems(n) \in Seq(Texts) /\ MaskedTo(n) \in Texts
<1>1. /\ n \in Nat /\ \A i \in 1..n : MaskItem(i) \in Texts
  BY MaskItemType
<1>2. MaskItems(n) \in [1..n -> Texts]
  BY <1>1 DEF MaskItems
<1>3. MaskItems(n) \in Seq(Texts)
  BY <1>1, <1>2
<1>4. QED
  BY <1>3, FlattenType DEF MaskedTo, Texts

LEMMA MaskedToAll ==
    ASSUME SpansInv
    PROVE  Masked = MaskedTo(Len(prompt)) /\ Masked \in Texts
<1>1. DOMAIN prompt = 1..Len(prompt) /\ Len(prompt) \in Nat
  BY DEF SpansInv
<1>2. Masked = MaskedTo(Len(prompt))
  BY <1>1 DEF Masked, MaskedTo, MaskItems, MaskItem
<1>3. QED
  BY <1>1, <1>2, MaskedToType

LEMMA MaskedToNext ==
    ASSUME SpansInv, NEW n \in 0..Len(prompt), n < Len(prompt)
    PROVE  /\ MaskItem(n + 1) \in Texts
           /\ MaskedTo(n + 1) = MaskedTo(n) \o MaskItem(n + 1)
<1>1. n + 1 \in 1..Len(prompt) /\ n \in Nat
  BY MaskItemType
<1>2. MaskItem(n + 1) \in Texts
  BY <1>1, MaskItemType
<1>3. /\ MaskItems(n) \in Seq(Texts) /\ Len(MaskItems(n)) = n
      /\ \A i \in 1..n : MaskItems(n)[i] = MaskItem(i)
  BY <1>1, MaskedToType DEF MaskItems
<1>4. /\ MaskItems(n + 1) \in Seq(Texts) /\ Len(MaskItems(n + 1)) = n + 1
      /\ \A i \in 1..(n + 1) : MaskItems(n + 1)[i] = MaskItem(i)
  <2>1. n + 1 \in 0..Len(prompt)
    BY <1>1
  <2>2. QED
    BY <1>1, <2>1, MaskedToType DEF MaskItems
<1> DEFINE t == Append(MaskItems(n), MaskItem(n + 1))
<1>5. /\ t \in Seq(Texts) /\ Len(t) = n + 1
      /\ \A i \in 1..n : t[i] = MaskItems(n)[i]
      /\ t[n + 1] = MaskItem(n + 1)
  BY <1>2, <1>3, AppendProperties
<1> HIDE DEF t
<1>6. \A i \in 1..(n + 1) : t[i] = MaskItems(n + 1)[i]
  <2>1. \A i \in 1..(n + 1) : i \in 1..n \/ i = n + 1
    BY <1>1
  <2>2. QED
    BY <1>3, <1>4, <1>5, <2>1
<1>7. MaskItems(n + 1) = t
  BY <1>4, <1>5, <1>6, SeqEqual
<1>8. QED
  BY <1>2, <1>3, <1>7, FlattenAppend DEF MaskedTo, Texts, t

-----------------------------------------------------------------------------
(* The masked text is restored to the prompt.                              *)

MaskedHeads == {HeadOf(sp.type) : sp \in spans}

\* Every head of a masked type in s starts a placeholder of the session.
Starts(s) ==
    \A i \in 1..Len(s) : s[i] \in MaskedHeads => At(Placeholders, s, i)

InSpan(sp, i) == sp.first <= i /\ i <= sp.last

\* Where what stands for the first i pieces of the prompt ends.
EndOf(i) ==
    IF \E sp \in spans : InSpan(sp, i)
      THEN (CHOOSE sp \in spans : InSpan(sp, i)).last ELSE i

LEMMA SpanBounds ==
    ASSUME SpansInv
    PROVE  /\ Len(prompt) \in Nat
           /\ \A sp \in spans :
                 /\ sp.first \in Nat /\ sp.last \in Nat /\ 1 <= sp.first
                 /\ sp.first <= sp.last /\ sp.last <= Len(prompt)
           /\ \A a, b \in spans : a # b => a.last < b.first \/ b.last < a.first
BY DEF SpansInv, Span, Disjoint

LEMMA EndOfSpan ==
    ASSUME SpansInv, NEW sp \in spans, NEW i \in Nat, InSpan(sp, i)
    PROVE  EndOf(i) = sp.last
<1>1. \A a \in spans : InSpan(a, i) => a = sp
  BY SpanBounds DEF InSpan
<1>2. (CHOOSE a \in spans : InSpan(a, i)) = sp
  BY <1>1
<1>3. QED
  BY <1>2 DEF EndOf

\* Before a span begins everything is restored, and nothing more.
LEMMA EndBefore ==
    ASSUME SpansInv, NEW i \in Nat,
           \A sp \in spans : ~(sp.first <= i /\ i < sp.last)
    PROVE  EndOf(i) = i
<1>1. CASE \E sp \in spans : InSpan(sp, i)
  <2>1. PICK sp \in spans : InSpan(sp, i)
    BY <1>1
  <2>2. sp.last = i
    BY <2>1, SpanBounds DEF InSpan
  <2>3. QED
    BY <2>1, <2>2, EndOfSpan
<1>2. CASE ~\E sp \in spans : InSpan(sp, i)
  BY <1>2 DEF EndOf
<1>3. QED
  BY <1>1, <1>2

\* The heads of the session's placeholders are those of the masked types.
LEMMA PlaceholderHeads ==
    ASSUME SpansInv, NEW ph \in Placeholders
    PROVE  ph[1] \in MaskedHeads
BY PlaceholderType DEF Placeholders, MaskedHeads

LEMMA StartsApart ==
    ASSUME SpansInv, NEW a \in Texts, NEW b \in Texts, Starts(a)
    PROVE  ~Straddles(Placeholders, a, b)
<1>1. SUFFICES ASSUME a # <<>>, <<a[Len(a)], b[1]>> \in Placeholders
               PROVE  FALSE
  BY DEF Straddles
<1>2. Len(a) \in Nat /\ Len(a) \in 1..Len(a)
  BY <1>1 DEF Texts
<1>3. <<a[Len(a)], b[1]>>[1] \in MaskedHeads
  BY <1>1, PlaceholderHeads
<1>4. At(Placeholders, a, Len(a))
  BY <1>2, <1>3 DEF Starts
<1>5. QED
  BY <1>2, <1>4 DEF At

LEMMA StartsConcat ==
    ASSUME NEW a \in Texts, NEW b \in Texts, Starts(a), Starts(b)
    PROVE  Starts(a \o b)
<1> DEFINE s == a \o b
           m == Len(a)
           n == Len(b)
<1>1. /\ m \in Nat /\ n \in Nat /\ Len(s) = m + n
      /\ \A i \in 1..(m + n) : s[i] = IF i <= m THEN a[i] ELSE b[i - m]
  BY DEF Texts
<1> HIDE DEF s
<1>2. ASSUME NEW i \in 1..Len(s), s[i] \in MaskedHeads
      PROVE  At(Placeholders, s, i)
  <2>1. CASE i <= m
    <3>1. i \in 1..m /\ s[i] = a[i]
      BY <1>1, <2>1
    <3>2. At(Placeholders, a, i)
      BY <1>2, <3>1 DEF Starts
    <3>3. i \in 1..(m - 1) /\ i + 1 \in 1..(m + n) /\ i + 1 <= m
      BY <1>1, <3>2 DEF At
    <3>4. s[i + 1] = a[i + 1] /\ i \in 1..(Len(s) - 1)
      BY <1>1, <3>3
    <3>5. QED
      BY <3>1, <3>2, <3>4 DEF At
  <2>2. CASE ~(i <= m)
    <3>1. i - m \in 1..n /\ s[i] = b[i - m]
      BY <1>1, <2>2
    <3>2. At(Placeholders, b, i - m)
      BY <1>2, <3>1 DEF Starts
    <3>3. /\ i + 1 \in 1..(m + n) /\ ~(i + 1 <= m)
          /\ (i + 1) - m = (i - m) + 1
      BY <1>1, <2>2, <3>2 DEF At
    <3>4. s[i + 1] = b[(i - m) + 1]
      BY <1>1, <3>3
    <3>5. i \in 1..(Len(s) - 1)
      BY <1>1, <2>2, <3>3
    <3>6. QED
      BY <3>1, <3>2, <3>4, <3>5 DEF At
  <2>3. QED
    BY <2>1, <2>2
<1>3. QED
  BY <1>2 DEF Starts, s

\* What stands for one more piece of the prompt, if the prompt has no head
\* of a masked type, and what it is restored to.
LEMMA ItemRestored ==
    ASSUME SpansInv, ~Has(prompt, MaskedHeads),
           NEW n \in 0..Len(prompt), n < Len(prompt)
    PROVE  /\ Starts(MaskItem(n + 1))
           /\ EndOf(n + 1) \in (n + 1)..Len(prompt)
           /\ SubSeq(prompt, 1, EndOf(n)) \o
                 All(Placeholders, MaskItem(n + 1)) =
                    SubSeq(prompt, 1, EndOf(n + 1))
<1> DEFINE k == n + 1
           x == MaskItem(k)
<1>1. /\ n \in Nat /\ k \in Nat /\ k \in 1..Len(prompt) /\ Len(prompt) \in Nat
      /\ \A sp \in spans :
            /\ sp.first \in Nat /\ sp.last \in Nat /\ 1 <= sp.first
            /\ sp.first <= sp.last /\ sp.last <= Len(prompt)
      /\ \A a, b \in spans : a # b => a.last < b.first \/ b.last < a.first
  BY SpanBounds
<1>2. /\ prompt \in Texts /\ prompt[k] \in AllPieces
      /\ prompt[k] \notin MaskedHeads
      /\ prompt \in Seq(AllPieces)
  <2>1. prompt \in Seq(Pieces) /\ Pieces \subseteq AllPieces
    BY DEF SpansInv, AllPieces
  <2>2. prompt \in Seq(AllPieces)
    BY <2>1, SeqMonotonic
  <2>3. DOMAIN prompt = 1..Len(prompt)
    BY <2>1
  <2>4. QED
    BY <1>1, <2>2, <2>3 DEF Has, Texts
<1> HIDE DEF k
<1>3. CASE \E sp \in spans : sp.first = k
  <2>1. PICK sp \in spans : sp.first = k
    BY <1>3
  <2>2. (CHOOSE a \in spans : a.first = k) = sp
    BY <2>1 DEF SpansInv
  <2>3. x = Placeholder(sp) /\ Placeholder(sp) \in Placeholders
    BY <1>3, <2>2 DEF MaskItem, Placeholders
  <2>4. All(Placeholders, x) = SubSeq(prompt, k, sp.last)
    <3>1. All(Placeholders, x) = Mapped(x)
      BY <2>3, LawfulHolds, AllPlaceholder
    <3>2. QED
      BY <2>1, <2>3, <3>1, MappedValue DEF Value
  <2>5. EndOf(k) = sp.last
    BY <1>1, <2>1, EndOfSpan DEF InSpan
  <2>6. EndOf(n) = n
    <3>1. \A a \in spans : ~(a.first <= n /\ n < a.last)
      BY <1>1, <2>1 DEF k
    <3>2. QED
      BY <1>1, <3>1, EndBefore
  <2>7. SubSeq(prompt, 1, n) \o SubSeq(prompt, n + 1, sp.last) =
           SubSeq(prompt, 1, sp.last)
    <3>1. /\ 1 \in 1..(Len(prompt) + 1) /\ n \in (1 - 1)..Len(prompt)
          /\ sp.last \in n..Len(prompt)
      BY <1>1, <2>1 DEF k
    <3>2. QED
      BY <1>2, <3>1, ConcatAdjacentSubSeq
  <2>8. Starts(x)
    <3>1. /\ x \in Texts /\ Len(x) = 2 /\ x[2] \in Tails
          /\ x = <<x[1], x[2]>> /\ x \in Placeholders
      BY <2>3, LawfulHolds, PlaceholderText DEF Lawful
    <3>2. At(Placeholders, x, 1)
      BY <3>1 DEF At
    <3>3. x[2] \notin MaskedHeads
      <4>1. MaskedHeads \subseteq Heads
        BY DEF MaskedHeads, Heads, SpansInv, Span
      <4>2. QED
        BY <3>1, <4>1, HeadNotTail
    <3>4. \A i \in 1..Len(x) : i = 1 \/ i = 2
      BY <3>1
    <3>5. QED
      BY <3>2, <3>3, <3>4 DEF Starts
  <2>9. sp.last \in k..Len(prompt)
    BY <1>1, <2>1
  <2>10. QED
    BY <2>4, <2>5, <2>6, <2>7, <2>8, <2>9 DEF k
<1>4. CASE /\ ~\E sp \in spans : sp.first = k
           /\ \E sp \in spans : sp.first < k /\ k <= sp.last
  <2>1. PICK sp \in spans : sp.first < k /\ k <= sp.last
    BY <1>4
  <2>2. x = <<>>
    BY <1>4 DEF MaskItem
  <2>3. EndOf(k) = sp.last
    BY <1>1, <2>1, EndOfSpan DEF InSpan
  <2>4. EndOf(n) = sp.last
    <3>1. InSpan(sp, n)
      BY <1>1, <2>1 DEF InSpan, k
    <3>2. QED
      BY <1>1, <3>1, EndOfSpan
  <2>5. All(Placeholders, x) = <<>>
    BY <2>2, AllEmpty
  <2>6. Starts(x)
    BY <2>2 DEF Starts
  <2>7. SubSeq(prompt, 1, sp.last) \in Texts
    <3>1. \A i \in 1..sp.last : prompt[i] \in AllPieces
      BY <1>1, <1>2
    <3>2. QED
      BY <1>1, <3>1, SubSeqProperties DEF Texts
  <2>8. SubSeq(prompt, 1, sp.last) \o <<>> = SubSeq(prompt, 1, sp.last)
    BY <2>7, ConcatEmptySeq DEF Texts
  <2>9. sp.last \in k..Len(prompt)
    BY <1>1, <2>1
  <2>10. QED
    BY <2>3, <2>4, <2>5, <2>6, <2>8, <2>9 DEF k
<1>5. CASE /\ ~\E sp \in spans : sp.first = k
           /\ ~\E sp \in spans : sp.first < k /\ k <= sp.last
  <2>1. x = <<prompt[k]>>
    BY <1>5 DEF MaskItem
  <2>2. \A sp \in spans : ~InSpan(sp, k)
    BY <1>1, <1>5 DEF InSpan
  <2>3. EndOf(k) = k
    BY <2>2 DEF EndOf
  <2>4. EndOf(n) = n
    <3>1. \A sp \in spans : ~(sp.first <= n /\ n < sp.last)
      BY <1>1, <2>2 DEF InSpan, k
    <3>2. QED
      BY <1>1, <3>1, EndBefore
  <2>5. All(Placeholders, x) = <<prompt[k]>> /\ x \in Texts
    BY <1>2, <2>1, AllPiece
  <2>6. SubSeq(prompt, 1, n) \o <<prompt[k]>> = SubSeq(prompt, 1, k)
    <3>1. SubSeq(prompt, k, k) = <<prompt[k]>>
      BY <1>1, <1>2, PieceAt
    <3>2. /\ 1 \in 1..(Len(prompt) + 1) /\ n \in (1 - 1)..Len(prompt)
          /\ k \in n..Len(prompt)
      BY <1>1 DEF k
    <3>3. SubSeq(prompt, 1, n) \o SubSeq(prompt, n + 1, k) =
             SubSeq(prompt, 1, k)
      BY <1>2, <3>2, ConcatAdjacentSubSeq
    <3>4. QED
      BY <3>1, <3>3 DEF k
  <2>7. Starts(x)
    <3>1. Len(x) = 1 /\ x[1] = prompt[k]
      BY <2>1
    <3>2. QED
      BY <1>2, <3>1 DEF Starts
  <2>8. k \in k..Len(prompt)
    BY <1>1
  <2>9. QED
    BY <2>3, <2>4, <2>5, <2>6, <2>7, <2>8 DEF k
<1>6. QED
  BY <1>3, <1>4, <1>5

LEMMA MaskedToRestored ==
    ASSUME SpansInv, ~Has(prompt, MaskedHeads)
    PROVE  \A n \in 0..Len(prompt) :
              /\ Starts(MaskedTo(n))
              /\ All(Placeholders, MaskedTo(n)) = SubSeq(prompt, 1, EndOf(n))
<1> DEFINE Right(n) ==
             /\ Starts(MaskedTo(n))
             /\ All(Placeholders, MaskedTo(n)) = SubSeq(prompt, 1, EndOf(n))
           bad == {n \in 0..Len(prompt) : ~Right(n)}
<1>1. SUFFICES ASSUME bad # {} PROVE FALSE
  OBVIOUS
<1>2. Len(prompt) \in Nat
  BY SpanBounds
<1>3. PICK k \in bad : \A i \in bad : k <= i
  <2>1. bad \subseteq Nat
    BY <1>2
  <2> HIDE DEF bad
  <2>2. QED
    BY <1>1, <2>1, LeastElement
<1>4. k \in 0..Len(prompt) /\ ~Right(k)
  BY <1>3
<1>5. k # 0
  <2>1. SUFFICES ASSUME k = 0 PROVE FALSE
    OBVIOUS
  <2>2. MaskItems(0) = <<>>
    BY DEF MaskItems
  <2>3. MaskedTo(0) = <<>>
    BY <2>2, FlattenEmpty DEF MaskedTo
  <2>4. EndOf(0) = 0
    BY SpanBounds, EndBefore
  <2>5. SubSeq(prompt, 1, 0) = <<>>
    BY SubSeqEmpty
  <2>6. Starts(MaskedTo(0)) /\ All(Placeholders, MaskedTo(0)) = <<>>
    BY <2>3, AllEmpty DEF Starts
  <2>7. QED
    BY <1>4, <2>1, <2>4, <2>5, <2>6
<1> DEFINE n == k - 1
<1>6. n \in 0..Len(prompt) /\ n < Len(prompt) /\ n + 1 = k /\ n < k
  BY <1>2, <1>4, <1>5
<1>7. n \notin bad
  BY <1>3, <1>4, <1>6
<1>8. Right(n)
  BY <1>6, <1>7
<1> HIDE DEF n, bad
<1>9. /\ MaskItem(k) \in Texts
      /\ MaskedTo(k) = MaskedTo(n) \o MaskItem(k)
  BY <1>6, MaskedToNext
<1>10. MaskedTo(n) \in Texts
  BY <1>6, MaskedToType
<1>11. /\ Starts(MaskItem(k))
       /\ SubSeq(prompt, 1, EndOf(n)) \o All(Placeholders, MaskItem(k)) =
             SubSeq(prompt, 1, EndOf(k))
  BY <1>6, ItemRestored
<1>12. Starts(MaskedTo(k))
  BY <1>8, <1>9, <1>10, <1>11, StartsConcat
<1>13. All(Placeholders, MaskedTo(k)) =
          All(Placeholders, MaskedTo(n)) \o All(Placeholders, MaskItem(k))
  <2>1. ~Straddles(Placeholders, MaskedTo(n), MaskItem(k))
    BY <1>8, <1>9, <1>10, StartsApart
  <2>2. QED
    BY <1>9, <1>10, <2>1, LawfulHolds, AllConcat
<1>14. QED
  BY <1>4, <1>8, <1>11, <1>12, <1>13

\* All placeholders of the masked text replaced at once are the prompt.
LEMMA MaskedRestored ==
    ASSUME SpansInv, ~Has(prompt, MaskedHeads)
    PROVE  Starts(Masked) /\ All(Placeholders, Masked) = prompt
<1> DEFINE n == Len(prompt)
<1>1. n \in Nat /\ n \in 0..n
  BY SpanBounds
<1>2. Starts(Masked) /\ All(Placeholders, Masked) = SubSeq(prompt, 1, EndOf(n))
  BY <1>1, MaskedToAll, MaskedToRestored
<1>3. EndOf(n) = n
  <2>1. \A sp \in spans : ~(sp.first <= n /\ n < sp.last)
    BY SpanBounds
  <2>2. QED
    BY <1>1, <2>1, EndBefore
<1>4. SubSeq(prompt, 1, n) = prompt
  BY SubSeqFull DEF SpansInv
<1>5. QED
  BY <1>2, <1>3, <1>4

\* The masked text, and any text if the values are plain, is one that can be
\* restored round by round.
LEMMA MaskedClean ==
    ASSUME SpansInv, ~Has(prompt, MaskedHeads)
    PROVE  ValuesApart /\ Clean(Masked)
<1>1. \A i \in 1..Len(prompt) : prompt[i] \notin MaskedHeads
  BY DEF Has, SpansInv
<1>2. ASSUME NEW q \in Placeholders, NEW r \in Placeholders,
             NEW i \in 1..Len(Mapped(q))
      PROVE  Mapped(q)[i] # r[1]
  <2>1. PICK sp \in spans : q = Placeholder(sp)
    BY DEF Placeholders
  <2>2. Mapped(q) = Value(sp)
    BY <2>1, MappedValue
  <2>3. Mapped(q)[i] \notin MaskedHeads
    BY <1>1, <2>2, ValueType
  <2>4. QED
    BY <2>3, PlaceholderHeads
<1>3. ASSUME NEW i \in 1..(Len(Masked) - 2), At(Placeholders, Masked, i + 1),
             <<Masked[i], Mapped(<<Masked[i + 1], Masked[i + 2]>>)[1]>>
                \in Placeholders
      PROVE  FALSE
  <2> DEFINE s == Masked
  <2>1. s \in Texts /\ Len(s) \in Nat /\ Starts(s)
    BY MaskedToAll, MaskedRestored DEF Texts
  <2>2. s[i] \in MaskedHeads
    <3> DEFINE ph == <<s[i], Mapped(<<s[i + 1], s[i + 2]>>)[1]>>
    <3>1. ph[1] \in MaskedHeads
      BY <1>3, PlaceholderHeads
    <3>2. QED
      BY <3>1
  <2>3. <<s[i], s[i + 1]>> \in Placeholders
    BY <2>1, <2>2 DEF Starts, At
  <2>4. <<s[i + 1], s[(i + 1) + 1]>> \in Placeholders
    BY <1>3 DEF At
  <2> HIDE DEF s
  <2>5. <<s[i], s[i + 1]>>[2] \in Tails
    BY <2>3, LawfulHolds DEF Lawful
  <2>6. <<s[i + 1], s[(i + 1) + 1]>>[1] \in Heads
    BY <2>4, LawfulHolds DEF Lawful
  <2>7. QED
    BY <2>5, <2>6, HeadNotTail
<1>4. QED
  BY <1>2, <1>3 DEF ValuesApart, Clean

LEMMA PlainClean ==
    ASSUME SpansInv, PlainValues
    PROVE  ValuesApart /\ \A s : Clean(s)
<1>1. ASSUME NEW q \in Placeholders, NEW i \in 1..Len(Mapped(q))
      PROVE  Mapped(q)[i][1] = "plain"
  <2>1. PICK sp \in spans : q = Placeholder(sp)
    BY DEF Placeholders
  <2>2. Mapped(q) = Value(sp) /\ DOMAIN Value(sp) = 1..Len(Value(sp))
    BY <2>1, MappedValue, ValueType DEF Texts
  <2>3. QED
    BY <2>2 DEF PlainValues
<1>2. \A p \in Heads : p[1] = "head"
  BY DEF Heads, HeadOf
<1>3. \A p \in Tails : p[1] = "tail"
  BY DEF Tails, TailOf
<1>4. ValuesApart
  <2>1. \A r \in Placeholders : r[1][1] = "head"
    BY <1>2, LawfulHolds DEF Lawful
  <2>2. QED
    BY <1>1, <2>1 DEF ValuesApart
<1>5. ASSUME NEW s, NEW i, At(Placeholders, s, i + 1),
             <<s[i], Mapped(<<s[i + 1], s[(i + 1) + 1]>>)[1]>> \in Placeholders
      PROVE  FALSE
  <2> DEFINE v == Mapped(<<s[i + 1], s[(i + 1) + 1]>>)
  <2>1. v \in Texts /\ v # <<>> /\ <<s[i + 1], s[(i + 1) + 1]>> \in Placeholders
    BY <1>5, LawfulHolds DEF At, Lawful
  <2>2. 1 \in 1..Len(v)
    BY <2>1 DEF Texts
  <2>3. v[1][1] = "plain"
    BY <1>1, <2>1, <2>2
  <2> HIDE DEF v
  <2>4. <<s[i], v[1]>>[2] \in Tails
    BY <1>5, LawfulHolds DEF Lawful, v
  <2>5. v[1] \in Tails
    BY <2>4
  <2>6. QED
    BY <1>3, <2>3, <2>5
<1>6. ASSUME NEW s, NEW i \in 1..(Len(s) - 2), At(Placeholders, s, i + 1)
      PROVE  <<s[i], Mapped(<<s[i + 1], s[i + 2]>>)[1]>> \notin Placeholders
  <2>1. (i + 1) + 1 = i + 2
    OBVIOUS
  <2>2. QED
    BY <1>5, <1>6, <2>1
<1>7. QED
  BY <1>4, <1>6 DEF Clean

-----------------------------------------------------------------------------
(* The loop of restore.                                                    *)

\* After each round the text is the reply with the placeholders of the rounds
\* so far replaced at once.
RestoreInv ==
    /\ prompt \in SeqOf(Pieces, MaxPrompt) /\ spans \in Maskings(prompt)
    /\ SpansInv
    /\ reply \in Texts /\ text \in Texts
    /\ todo \subseteq Placeholders
    /\ pc \in {"reply", "restore", "done"}
    /\ outcome \in {"none", "ok", "too_large"}
    /\ pc # "done" => outcome = "none"
    /\ pc = "restore" => Len(text) <= MaxText
    /\ outcome = "ok" => Len(text) <= MaxText /\ todo = {}
    /\ outcome = "too_large" => Len(text) > MaxText
    /\ pc # "reply" /\ ValuesApart /\ Clean(reply) =>
          text = All(Placeholders \ todo, reply)

LEMMA RestoreInit == Init => RestoreInv
<1> SUFFICES ASSUME Init PROVE RestoreInv
  OBVIOUS
<1>1. SpansInv
  BY InitSpansInv DEF Init
<1>2. <<>> \in Texts
  BY DEF Texts
<1>3. QED
  BY <1>1, <1>2 DEF Init, RestoreInv

\* What the client may send is a text.
LEMMA ReplyType ==
    ASSUME SpansInv
    PROVE  Masked \in Texts /\ Edited \subseteq Texts
<1> DEFINE parts ==
       Placeholders
         \cup {<<p>> : p \in Heads \cup {TailOf(0), <<"plain", 1>>}}
<1>1. parts \subseteq Texts
  <2>1. \A ph \in Placeholders : ph \in Texts
    BY LawfulHolds, PlaceholderText
  <2>2. Heads \cup {TailOf(0), <<"plain", 1>>} \subseteq AllPieces
    BY DEF AllPieces, Pieces
  <2>3. \A p \in Heads \cup {TailOf(0), <<"plain", 1>>} : <<p>> \in Texts
    BY <2>2, AllPiece
  <2>4. QED
    BY <2>1, <2>3
<1>2. ASSUME NEW u \in SeqOf(parts, MaxEdit) PROVE FlattenSeq(u) \in Texts
  <2> HIDE DEF parts
  <2>1. PICK m \in 0..MaxEdit : u \in [1..m -> parts]
    BY DEF SeqOf
  <2>2. u \in [1..m -> Texts] /\ m \in Nat
    BY <1>1, <2>1
  <2>3. u \in Seq(Texts)
    BY <2>2
  <2>4. QED
    BY <2>3, FlattenType DEF Texts
<1>3. QED
  BY <1>2, MaskedToAll DEF Edited

\* The session does not change while it is restored.
LEMMA SameSession ==
    ASSUME UNCHANGED <<prompt, spans>>
    PROVE  /\ Placeholders' = Placeholders
           /\ SpansInv' <=> SpansInv
           /\ ValuesApart' <=> ValuesApart
           /\ \A s : Clean(s)' <=> Clean(s)
           /\ \A D, s : All(D, s)' = All(D, s)
<1>1. \A sp : Value(sp)' = Value(sp)
  BY DEF Value
<1>2. \A sp : Placeholder(sp)' = Placeholder(sp)
  BY DEF Placeholder, Number, Leader, Alike, Value
<1>3. Placeholders' = Placeholders
  BY <1>2 DEF Placeholders
<1>4. \A ph : Mapped(ph)' = Mapped(ph)
  BY DEF Mapped, Holders, Value, Placeholder, Number, Leader, Alike
<1>5. \A D, s : All(D, s)' = All(D, s)
  BY <1>4 DEF All, Items, Item, At
<1>6. QED
  BY <1>3, <1>4, <1>5 DEF SpansInv, ValuesApart, Clean, At

LEMMA RestoreSend ==
    ASSUME RestoreInv, Send
    PROVE  RestoreInv'
<1>1. /\ pc = "reply" /\ reply' \in {Masked} \cup Edited /\ text' = reply'
      /\ todo' = Placeholders /\ UNCHANGED <<prompt, spans>>
      /\ outcome = "none"
      /\ IF Len(reply') > MaxText
           THEN pc' = "done" /\ outcome' = "too_large"
           ELSE pc' = "restore" /\ UNCHANGED outcome
  BY DEF Send, RestoreInv
<1>2. SpansInv /\ reply' \in Texts /\ Len(reply') \in Nat
  BY <1>1, ReplyType DEF RestoreInv, Texts
<1>3. /\ Placeholders' = Placeholders /\ SpansInv'
      /\ \A D, s : All(D, s)' = All(D, s)
  BY <1>1, <1>2, SameSession
<1>4. All({}, reply') = reply'
  BY <1>2, LawfulHolds, AllOfNone
<1>5. All(Placeholders \ todo, reply)' = reply'
  <2>1. All(Placeholders \ todo, reply)' = All((Placeholders \ todo)', reply')
    BY <1>3
  <2>2. (Placeholders \ todo)' = {}
    BY <1>1, <1>3
  <2>3. QED
    BY <1>4, <2>1, <2>2
<1>6. QED
  BY <1>1, <1>2, <1>3, <1>5 DEF RestoreInv

LEMMA RestoreSubstitute ==
    ASSUME RestoreInv, Substitute
    PROVE  RestoreInv'
<1>1. PICK ph \in todo : /\ text' = Replaced(text, ph, Mapped(ph))
                         /\ todo' = todo \ {ph}
  BY DEF Substitute
<1>2. /\ pc = "restore" /\ UNCHANGED <<prompt, spans, reply>>
      /\ outcome = "none" /\ ph \in Placeholders /\ SpansInv
      /\ todo \subseteq Placeholders
      /\ reply \in Texts /\ text \in Texts
      /\ IF Len(text') > MaxText
           THEN pc' = "done" /\ outcome' = "too_large"
           ELSE UNCHANGED <<pc, outcome>>
  BY <1>1 DEF Substitute, TooLong, RestoreInv
<1>3. text' = All({ph}, text)
  BY <1>1, <1>2, ReplacedIsAll
<1>4. text' \in Texts /\ Len(text') \in Nat
  <2>1. All({ph}, text) \in Texts
    BY <1>2, LawfulHolds, ItemsType
  <2>2. QED
    BY <1>3, <2>1 DEF Texts
<1>5. /\ Placeholders' = Placeholders /\ SpansInv'
      /\ ValuesApart' <=> ValuesApart
      /\ \A s : Clean(s)' <=> Clean(s)
      /\ \A D, s : All(D, s)' = All(D, s)
  BY <1>2, SameSession
<1>6. ASSUME ValuesApart, Clean(reply)
      PROVE  text' = All(Placeholders \ todo', reply)
  <2> DEFINE D == Placeholders \ todo
  <2>1. text = All(D, reply)
    BY <1>2, <1>6 DEF RestoreInv
  <2>2. ph \in Placeholders \ D /\ D \subseteq Placeholders
    BY <1>1, <1>2
  <2>3. D \cup {ph} = Placeholders \ todo'
    BY <1>1, <1>2
  <2> HIDE DEF D
  <2>4. All({ph}, All(D, reply)) = All(D \cup {ph}, reply)
    BY <1>2, <1>6, <2>2, LawfulHolds, Rounds
  <2>5. QED
    BY <1>3, <2>1, <2>3, <2>4
<1>7. ASSUME ValuesApart', Clean(reply)'
      PROVE  text' = All(Placeholders \ todo, reply)'
  <2>1. Clean(reply)' <=> Clean(reply)
    BY <1>2, <1>5
  <2>2. text' = All(Placeholders \ todo', reply)
    BY <1>5, <1>6, <1>7, <2>1
  <2>3. All(Placeholders \ todo, reply)' = All((Placeholders \ todo)', reply')
    BY <1>5
  <2>4. (Placeholders \ todo)' = Placeholders \ todo'
    BY <1>5
  <2>5. QED
    BY <1>2, <2>2, <2>3, <2>4
<1>8. QED
  BY <1>1, <1>2, <1>4, <1>5, <1>7 DEF RestoreInv

LEMMA RestoreNext == RestoreInv /\ [Next]_vars => RestoreInv'
<1> SUFFICES ASSUME RestoreInv, [Next]_vars PROVE RestoreInv'
  OBVIOUS
<1>1. CASE Send
  BY <1>1, RestoreSend
<1>2. CASE Substitute
  BY <1>2, RestoreSubstitute
<1>3. CASE Answer \/ UNCHANGED vars
  <2>1. /\ UNCHANGED <<prompt, spans, reply, text, todo>>
        /\ \/ pc = "restore" /\ todo = {} /\ pc' = "done" /\ outcome' = "ok"
           \/ UNCHANGED <<pc, outcome>>
    BY <1>3 DEF Answer, vars
  <2>2. /\ Placeholders' = Placeholders /\ (SpansInv' <=> SpansInv)
        /\ ValuesApart' <=> ValuesApart
        /\ \A s : Clean(s)' <=> Clean(s)
        /\ \A D, s : All(D, s)' = All(D, s)
    BY <2>1, SameSession
  <2>3. /\ All(Placeholders \ todo, reply)' = All(Placeholders \ todo, reply)
        /\ Clean(reply)' <=> Clean(reply)
    BY <2>1, <2>2
  <2>4. QED
    BY <2>1, <2>2, <2>3 DEF RestoreInv
<1>4. QED
  BY <1>1, <1>2, <1>3 DEF Next, Finished

THEOREM RestoreInvariant == Spec => []RestoreInv
<1>1. QED
  BY RestoreInit, RestoreNext, PTL DEF Spec

\* The state of a round trip is of its type, and no text longer than the
\* limit is ever given back.
THEOREM TypeCorrect == Spec => []TypeOK
<1>1. RestoreInv => TypeOK
  BY DEF RestoreInv, TypeOK, Texts, AllPieces
<1>2. QED
  BY <1>1, RestoreInvariant, PTL

\* Two entities of a session have the same placeholder exactly if they have
\* the same type and the same value, so that the mapping, a dictionary by
\* placeholder, loses no value.
THEOREM OnePlaceholderPerValueHolds == Spec => []OnePlaceholderPerValue
<1>1. RestoreInv => OnePlaceholderPerValue
  BY OnePlaceholder DEF RestoreInv
<1>2. QED
  BY <1>1, RestoreInvariant, PTL

\* The masked prompt, sent back as it is, is restored to the prompt, unless
\* the prompt had the beginning of a placeholder of a masked type in it.
THEOREM RoundTripExactHolds == Spec => []RoundTripExact
<1>1. RestoreInv => RoundTripExact
  <2> SUFFICES ASSUME RestoreInv, outcome = "ok", reply = Masked,
                      ~Has(prompt, MaskedHeads)
               PROVE  text = prompt
    BY DEF RoundTripExact, MaskedHeads
  <2>1. SpansInv /\ pc # "reply" /\ todo = {}
    BY DEF RestoreInv
  <2>2. ValuesApart /\ Clean(reply)
    BY <2>1, MaskedClean
  <2>3. text = All(Placeholders, reply)
    <3>1. Placeholders \ todo = Placeholders
      BY <2>1
    <3>2. QED
      BY <2>1, <2>2, <3>1 DEF RestoreInv
  <2>4. QED
    BY <2>1, <2>3, MaskedRestored
<1>2. QED
  BY <1>1, RestoreInvariant, PTL

\* If the values are plain, without any fragment of a placeholder in them,
\* whatever reply comes is restored as if all placeholders were replaced at
\* once, or is refused because it or the restored text is too long (a session
\* that has values longer and values shorter than their placeholders apart).
THEOREM RestoredAtOnceHolds == Spec => []RestoredAtOnce
<1>1. RestoreInv => RestoredAtOnce
  <2> SUFFICES ASSUME RestoreInv, PlainValues
               PROVE  /\ outcome = "ok" => text = AllAtOnce(reply)
                      /\ outcome = "too_large" =>
                            \/ Len(reply) > MaxText
                            \/ Len(AllAtOnce(reply)) > MaxText
                            \/ (Grow /\ Shrink)
    BY DEF RestoredAtOnce
  <2>1. SpansInv /\ reply \in Texts /\ text \in Texts /\ Lawful
    BY LawfulHolds DEF RestoreInv
  <2>2. AllAtOnce(reply) = All(Placeholders, reply)
    BY <2>1, AtOnceIsAll
  <2> DEFINE D == Placeholders \ todo
  <2>3. pc # "reply" => text = All(D, reply)
    BY <2>1, PlainClean DEF RestoreInv
  <2>4. ASSUME outcome = "ok" PROVE text = AllAtOnce(reply)
    <3>1. pc # "reply" /\ D = Placeholders
      BY <2>4 DEF RestoreInv
    <3>2. QED
      BY <2>2, <2>3, <3>1
  <2>5. ASSUME outcome = "too_large", ~Grow \/ ~Shrink
        PROVE  Len(reply) > MaxText \/ Len(AllAtOnce(reply)) > MaxText
    <3>1. text = All(D, reply) /\ Len(text) > MaxText
      BY <2>3, <2>5 DEF RestoreInv
    <3>2. ASSUME NEW q \in Placeholders
          PROVE  /\ Len(Mapped(q)) \in Nat
                 /\ ~Shrink => Len(Mapped(q)) >= 2
                 /\ ~Grow => Len(Mapped(q)) <= 2
      <4>1. PICK sp \in spans : q = Placeholder(sp)
        BY DEF Placeholders
      <4>2. Mapped(q) = Value(sp) /\ Len(Value(sp)) \in Nat
        BY <2>1, <4>1, MappedValue, ValueType
      <4>3. QED
        BY <4>2 DEF Grow, Shrink
    <3>3. (~Shrink => Wide) /\ (~Grow => Narrow)
      BY <3>2 DEF Wide, Narrow
    <3>4. Wide => Len(All(D, reply)) <= Len(All(Placeholders, reply))
      BY <2>1, Lengths
    <3>5. Narrow => Len(All(D, reply)) <= Len(All({}, reply))
      BY <2>1, Lengths
    <3>6. All({}, reply) = reply
      BY <2>1, AllOfNone
    <3>7. /\ Len(reply) \in Nat /\ Len(All(D, reply)) \in Nat
          /\ Len(All(Placeholders, reply)) \in Nat
      BY <2>1, ItemsType DEF Texts
    <3>8. QED
      BY <2>2, <2>5, <3>1, <3>3, <3>4, <3>5, <3>6, <3>7
  <2>6. QED
    BY <2>4, <2>5
<1>2. QED
  BY <1>1, RestoreInvariant, PTL
=============================================================================
