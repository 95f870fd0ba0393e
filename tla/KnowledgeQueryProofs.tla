------------------------ MODULE KnowledgeQueryProofs ------------------------
(***************************************************************************)
(* Proofs about the answer to a query, for any projects, limits, sizes and *)
(* number of rows: it holds only rows the caller may see, and all the rows *)
(* of the project that the search returned, nearest or most relevant       *)
(* first as far as the score tells.  They rest on the sort being a stable  *)
(* permutation and on how a score grows with its figure.                   *)
(***************************************************************************)
EXTENDS KnowledgeQuery, FiniteSetTheorems, TLAPS

USE ProjectsAssumption, LimitsAssumption

-----------------------------------------------------------------------------
(* The sort.                                                               *)

\* Whatever stands in the score field is clamped to a distance.
LEMMA ClampedType ==
    /\ Distances \subseteq Nat
    /\ \A row \in Row : /\ row.figure.value \in Int
                         /\ Clamped(row.figure.value) \in Distances
<1>1. \A x \in Numbers : x \in Int /\ Clamped(x) \in Distances
  BY NumbersAssumption DEF Distances
<1>2. Distances \subseteq Nat
  BY NumbersAssumption DEF Distances, Clamped
<1>3. \A row \in Row : row.figure.value \in Numbers
  BY NumbersAssumption DEF Row, Figure
<1>4. QED
  BY <1>1, <1>2, <1>3

LEMMA ScoreType ==
    ASSUME request \in Request, NEW row \in Row
    PROVE  Score(row) \in Int
<1>1. Clamped(row.figure.value) \in Distances
  BY ClampedType
<1>2. /\ Distances \subseteq Nat
      /\ Closeness[Clamped(row.figure.value)] \in Nat
  BY <1>1, ClampedType, ClosenessAssumption
<1>3. QED
  BY <1>1, <1>2 DEF Score

\* s[j] comes before s[i].
Before(s, j, i) ==
    \/ Score(s[j]) > Score(s[i])
    \/ Score(s[j]) = Score(s[i]) /\ j < i

Earlier(s, i) == {j \in DOMAIN s : Before(s, j, i)}

\* Of two rows one comes before the other.
LEMMA BeforeOrder ==
    ASSUME request \in Request, NEW s \in Seq(Row)
    PROVE  /\ \A i \in DOMAIN s : ~Before(s, i, i)
           /\ \A i, j \in DOMAIN s :
                 i # j => Before(s, i, j) \/ Before(s, j, i)
           /\ \A i, j, k \in DOMAIN s :
                 Before(s, i, j) /\ Before(s, j, k) => Before(s, i, k)
<1>1. \A i \in DOMAIN s : i \in Int /\ Score(s[i]) \in Int
  BY ScoreType
<1>2. QED
  BY <1>1 DEF Before

\* A row that comes before another has the smaller place.
LEMMA PlaceIncreases ==
    ASSUME request \in Request, NEW s \in Seq(Row)
    PROVE  /\ \A i \in DOMAIN s : Place(s, i) \in 1..Len(s)
           /\ \A i, j \in DOMAIN s :
                 Before(s, i, j) => Place(s, i) < Place(s, j)
<1>1. /\ IsFiniteSet(DOMAIN s)
      /\ Cardinality(DOMAIN s) = Len(s)
      /\ Len(s) \in Nat
  <2>1. DOMAIN s = 1..Len(s) /\ Len(s) \in Nat
    OBVIOUS
  <2>2. /\ IsFiniteSet(1..Len(s))
        /\ Cardinality(1..Len(s)) = IF 1 > Len(s) THEN 0 ELSE Len(s) - 1 + 1
    BY <2>1, FS_Interval
  <2>3. QED
    BY <2>1, <2>2
<1>2. ASSUME NEW i \in DOMAIN s
      PROVE  /\ Place(s, i) = 1 + Cardinality(Earlier(s, i))
             /\ IsFiniteSet(Earlier(s, i))
             /\ Cardinality(Earlier(s, i)) \in Nat
             /\ Cardinality(Earlier(s, i)) < Len(s)
  <2>1. Earlier(s, i) \in SUBSET (DOMAIN s \ {i})
    BY BeforeOrder DEF Earlier
  <2>2. /\ IsFiniteSet(DOMAIN s \ {i})
        /\ Cardinality(DOMAIN s \ {i}) = Len(s) - 1
    BY <1>1, FS_RemoveElement
  <2>3. /\ IsFiniteSet(Earlier(s, i))
        /\ Cardinality(Earlier(s, i)) <= Len(s) - 1
        /\ Cardinality(Earlier(s, i)) \in Nat
    BY <2>1, <2>2, FS_Subset, FS_CardinalityType
  <2>4. Place(s, i) = 1 + Cardinality(Earlier(s, i))
    BY DEF Place, Earlier, Before
  <2>5. QED
    BY <1>1, <2>3, <2>4
<1>3. ASSUME NEW i \in DOMAIN s, NEW j \in DOMAIN s, Before(s, i, j)
      PROVE  Place(s, i) < Place(s, j)
  <2>1. /\ i \notin Earlier(s, i)
        /\ Earlier(s, i) \cup {i} \in SUBSET Earlier(s, j)
    BY <1>3, BeforeOrder DEF Earlier
  <2>2. Cardinality(Earlier(s, i) \cup {i}) = Cardinality(Earlier(s, i)) + 1
    BY <1>2, <2>1, FS_AddElement
  <2>3. Cardinality(Earlier(s, i) \cup {i}) <= Cardinality(Earlier(s, j))
    BY <1>2, <2>1, FS_Subset
  <2>4. QED
    BY <1>2, <2>2, <2>3
<1>4. QED
  BY <1>1, <1>2, <1>3

\* Every place is taken by exactly one row.
LEMMA PlaceBijection ==
    ASSUME request \in Request, NEW s \in Seq(Row)
    PROVE  /\ \A i, j \in DOMAIN s : Place(s, i) = Place(s, j) => i = j
           /\ \A k \in DOMAIN s : \E i \in DOMAIN s : Place(s, i) = k
<1> DEFINE f == [i \in DOMAIN s |-> Place(s, i)]
<1>1. ASSUME NEW i \in DOMAIN s, NEW j \in DOMAIN s, i # j
      PROVE  Place(s, i) # Place(s, j)
  <2>1. /\ Place(s, i) \in 1..Len(s) /\ Place(s, j) \in 1..Len(s)
        /\ Place(s, i) < Place(s, j) \/ Place(s, j) < Place(s, i)
    BY <1>1, BeforeOrder, PlaceIncreases
  <2>2. QED
    BY <2>1
<1>2. f \in [DOMAIN s -> DOMAIN s]
  BY PlaceIncreases
<1>3. f \in Injection(DOMAIN s, DOMAIN s)
  BY <1>1, <1>2 DEF Injection, IsInjective
<1>4. IsFiniteSet(DOMAIN s)
  BY FS_Interval
<1>5. f \in Surjection(DOMAIN s, DOMAIN s)
  BY <1>3, <1>4, FS_Injection
<1>6. \A k \in DOMAIN s : \E i \in DOMAIN s : f[i] = k
  BY <1>5 DEF Surjection
<1>7. QED
  BY <1>1, <1>6

\* The row that Sorted puts at place k.
Source(s, k) == CHOOSE i \in DOMAIN s : Place(s, i) = k

LEMMA SortedPermutes ==
    ASSUME request \in Request, NEW s \in Seq(Row)
    PROVE  /\ Sorted(s) \in Seq(Row)
           /\ DOMAIN Sorted(s) = DOMAIN s
           /\ Len(Sorted(s)) = Len(s)
           /\ \A k \in DOMAIN s :
                 /\ Source(s, k) \in DOMAIN s
                 /\ Place(s, Source(s, k)) = k
                 /\ Sorted(s)[k] = s[Source(s, k)]
<1>1. \A k \in DOMAIN s : /\ Source(s, k) \in DOMAIN s
                          /\ Place(s, Source(s, k)) = k
  BY PlaceBijection DEF Source
<1>2. /\ DOMAIN Sorted(s) = DOMAIN s
      /\ \A k \in DOMAIN s : Sorted(s)[k] = s[Source(s, k)]
  BY DEF Sorted, Source
<1>3. Sorted(s) \in [1..Len(s) -> Row]
  <2>1. Sorted(s) = [k \in DOMAIN s |-> s[Source(s, k)]]
    BY DEF Sorted, Source
  <2>2. \A k \in 1..Len(s) : s[Source(s, k)] \in Row
    BY <1>1
  <2>3. QED
    BY <2>1, <2>2
<1>4. Sorted(s) \in Seq(Row) /\ Len(Sorted(s)) = Len(s)
  BY <1>3
<1>5. QED
  BY <1>1, <1>2, <1>4

\* No score is below a later one.
LEMMA SortedDescends ==
    ASSUME request \in Request, NEW s \in Seq(Row)
    PROVE  \A i, j \in DOMAIN s :
              i < j => Score(Sorted(s)[i]) >= Score(Sorted(s)[j])
<1> SUFFICES ASSUME NEW i \in DOMAIN s, NEW j \in DOMAIN s, i < j
             PROVE  Score(Sorted(s)[i]) >= Score(Sorted(s)[j])
  OBVIOUS
<1> DEFINE a == Source(s, i)
           b == Source(s, j)
<1>1. /\ a \in DOMAIN s /\ Place(s, a) = i /\ Sorted(s)[i] = s[a]
      /\ b \in DOMAIN s /\ Place(s, b) = j /\ Sorted(s)[j] = s[b]
  BY SortedPermutes
<1> HIDE DEF a, b
<1>2. a # b
  BY <1>1
<1>3. ~Before(s, b, a)
  <2>1. Before(s, b, a) => Place(s, b) < Place(s, a)
    BY <1>1, PlaceIncreases
  <2>2. QED
    BY <1>1, <2>1
<1>4. Before(s, a, b)
  BY <1>1, <1>2, <1>3, BeforeOrder
<1>5. Score(s[a]) \in Int /\ Score(s[b]) \in Int
  BY <1>1, ScoreType
<1>6. QED
  BY <1>1, <1>4, <1>5 DEF Before

\* Where a row stands in s, and how often.
At(s, row) == {i \in DOMAIN s : s[i] = row}

LEMMA SortedCounts ==
    ASSUME request \in Request, NEW s \in Seq(Row), NEW row
    PROVE  Cardinality(At(s, row)) = Cardinality(At(Sorted(s), row))
<1> DEFINE g == [k \in At(Sorted(s), row) |-> Source(s, k)]
<1>1. /\ DOMAIN Sorted(s) = DOMAIN s
      /\ \A k \in DOMAIN s :
            /\ Source(s, k) \in DOMAIN s
            /\ Place(s, Source(s, k)) = k
            /\ Sorted(s)[k] = s[Source(s, k)]
  BY SortedPermutes
<1>2. g \in [At(Sorted(s), row) -> At(s, row)]
  BY <1>1 DEF At
<1>3. g \in Injection(At(Sorted(s), row), At(s, row))
  <2>1. \A k, l \in At(Sorted(s), row) : g[k] = g[l] => k = l
    BY <1>1 DEF At
  <2>2. QED
    BY <1>2, <2>1 DEF Injection, IsInjective
<1>4. g \in Surjection(At(Sorted(s), row), At(s, row))
  <2>1. ASSUME NEW i \in At(s, row)
        PROVE  \E k \in At(Sorted(s), row) : g[k] = i
    <3>1. i \in DOMAIN s /\ s[i] = row
      BY DEF At
    <3>2. Place(s, i) \in DOMAIN s
      BY <3>1, PlaceIncreases
    <3>3. Source(s, Place(s, i)) = i
      BY <1>1, <3>1, <3>2, PlaceBijection
    <3>4. Place(s, i) \in At(Sorted(s), row)
      BY <1>1, <3>1, <3>2, <3>3 DEF At
    <3>5. QED
      BY <3>3, <3>4
  <2>2. QED
    BY <1>2, <2>1 DEF Surjection
<1>5. IsFiniteSet(At(Sorted(s), row))
  <2>1. IsFiniteSet(1..Len(s))
    BY FS_Interval
  <2>2. At(Sorted(s), row) \in SUBSET (1..Len(s))
    BY <1>1 DEF At
  <2>3. QED
    BY <2>1, <2>2, FS_Subset
<1>6. QED
  BY <1>3, <1>4, <1>5, FS_Bijection DEF Bijection, ExistsBijection

-----------------------------------------------------------------------------
(* The invariant.  Until the search there is no row; while rows are read,  *)
(* what is collected is every row of the project so far, and the project   *)
(* is one of the scope that was established once, at the start.  No row     *)
(* without a score is collected.                                           *)

GateInv ==
    /\ pc \in {"identify", "authorize", "ask"} =>
          own = <<>> /\ result = <<>>
    /\ pc # "done" => outcome = "none"
    /\ pc \in {"authorize", "ask", "rows"} => scope = Scope
    /\ pc \in {"ask", "rows"} \/ Answered => request.project \in Scope

RowsInv ==
    /\ pc = "rows" => own = result
    /\ \A i \in DOMAIN result : /\ result[i].project = request.project
                                /\ ~NoScore(result[i])

\* The rows are in the order of their scores.
InOrder ==
    Answered => \A i, j \in DOMAIN result :
                   i < j => Score(result[i]) >= Score(result[j])

QueryInv == TypeOK /\ GateInv /\ RowsInv /\ InOrder /\ AllOrNothing

LEMMA QueryInit == Init => QueryInv
BY DEF Init, QueryInv, TypeOK, GateInv, RowsInv, InOrder, AllOrNothing,
       Answered, Answers, Request

\* The steps up to the search, and the end of a call.
LEMMA QueryGate ==
    ASSUME QueryInv,
           Identify \/ Authorize \/ Search \/ Finished \/ UNCHANGED vars
    PROVE  QueryInv'
<1>1. CASE Identify
  BY <1>1 DEF Identify, EndWith, caller, Scope, QueryInv, TypeOK, GateInv,
     RowsInv, InOrder, AllOrNothing, Answered, Answers, Request
<1>2. CASE Authorize
  BY <1>2 DEF Authorize, EndWith, caller, Scope, QueryInv, TypeOK, GateInv,
     RowsInv, InOrder, AllOrNothing, Answered, Answers, Request
<1>3. CASE Search
  BY <1>3 DEF Search, EndWith, caller, Scope, RowCounts, Unavailable,
     QueryInv, TypeOK, GateInv, RowsInv, InOrder, AllOrNothing, Answered,
     Answers, Request
<1>4. CASE UNCHANGED vars
  BY <1>4 DEF vars, QueryInv, TypeOK, GateInv, RowsInv, InOrder,
     AllOrNothing, Answered, Score, NoScore, Scope
<1>5. QED
  BY <1>1, <1>2, <1>3, <1>4 DEF Finished

LEMMA QueryRow ==
    ASSUME QueryInv, ReadRow
    PROVE  QueryInv'
<1>1. PICK row \in Row :
         /\ Fail(row) \/ Skip(row) \/ Collect(row)
         /\ own' = IF row.project = request.project
                     THEN Append(own, row) ELSE own
  BY DEF ReadRow
<1>2. /\ pc = "rows" /\ left > 0 /\ outcome = "none" /\ own = result
      /\ UNCHANGED <<caller, scope>>
  BY DEF ReadRow, QueryInv, GateInv, RowsInv
<1>3. Append(own, row) \in Seq(Row) /\ own' \in Seq(Row)
  BY <1>1 DEF QueryInv, TypeOK
<1>4. request \in Request /\ request.top_k \in Nat
  BY DEF QueryInv, TypeOK, Request
<1>5. CASE Fail(row)
  BY <1>2, <1>3, <1>4, <1>5 DEF Fail, EndWith, caller, Scope, QueryInv,
     TypeOK, GateInv, RowsInv, InOrder, AllOrNothing, Answered, Answers
<1>6. CASE Skip(row)
  BY <1>1, <1>2, <1>3, <1>4, <1>6 DEF Skip, Matches, NoScore, caller, Scope,
     QueryInv, TypeOK, GateInv, RowsInv, InOrder, AllOrNothing, Answered
<1>7. CASE Collect(row)
  <2>1. /\ row.project = request.project /\ ~NoScore(row)
        /\ result' = Append(result, row) /\ own' = result'
        /\ left' = left - 1 /\ UNCHANGED <<pc, outcome>>
    BY <1>1, <1>2, <1>7 DEF Collect, Matches, BadRow
  <2>2. /\ result' \in Seq(Row) /\ Len(result') = Len(result) + 1
        /\ \A i \in DOMAIN result' :
              \/ i \in DOMAIN result /\ result'[i] = result[i]
              \/ result'[i] = row
    BY <2>1 DEF QueryInv, TypeOK
  <2>3. RowsInv'
    BY <1>2, <2>1, <2>2 DEF caller, NoScore, QueryInv, RowsInv
  <2>4. TypeOK'
    BY <1>2, <1>4, <2>1, <2>2 DEF caller, QueryInv, TypeOK
  <2>5. QED
    BY <1>2, <2>1, <2>3, <2>4 DEF caller, Scope, QueryInv, GateInv, InOrder,
       AllOrNothing, Answered
<1>8. QED
  BY <1>1, <1>5, <1>6, <1>7

LEMMA QueryRespond ==
    ASSUME QueryInv, Respond
    PROVE  QueryInv'
<1>1. /\ pc = "rows" /\ left = 0 /\ own = result
      /\ result' = Sorted(result) /\ pc' = "done" /\ outcome' = "answered"
      /\ UNCHANGED <<caller, scope, left, own>>
  BY DEF Respond, EndWith, QueryInv, RowsInv
<1>2. request \in Request /\ result \in Seq(Row) /\ request' = request
  BY <1>1 DEF QueryInv, TypeOK, caller
<1>3. /\ result' \in Seq(Row) /\ Len(result') = Len(result)
      /\ DOMAIN result' = DOMAIN result
      /\ \A k \in DOMAIN result :
            \E i \in DOMAIN result : result'[k] = result[i]
  BY <1>1, <1>2, SortedPermutes
<1>4. TypeOK'
  BY <1>1, <1>3 DEF caller, QueryInv, TypeOK, Answers
<1>5. RowsInv'
  BY <1>1, <1>2, <1>3 DEF NoScore, QueryInv, RowsInv
<1>6. GateInv'
  BY <1>1 DEF caller, Scope, QueryInv, GateInv, Answered
<1>7. InOrder'
  <2>1. \A row : Score(row)' = Score(row)
    BY <1>2 DEF Score
  <2>2. \A i, j \in DOMAIN result :
           i < j => Score(Sorted(result)[i]) >= Score(Sorted(result)[j])
    BY <1>2, SortedDescends
  <2>3. QED
    BY <1>1, <1>3, <2>1, <2>2 DEF InOrder
<1>8. AllOrNothing'
  <2>1. \A row : Cardinality(At(result, row)) =
                    Cardinality(At(Sorted(result), row))
    BY <1>2, SortedCounts
  <2>2. own' = result /\ result' = Sorted(result)
    BY <1>1
  <2>3. \A row : Cardinality(At(own', row)) = Cardinality(At(result', row))
    BY <2>1, <2>2, Zenon
  <2>4. QED
    BY <2>3 DEF AllOrNothing, At
<1>9. QED
  BY <1>4, <1>5, <1>6, <1>7, <1>8 DEF QueryInv

LEMMA QueryNext == QueryInv /\ [Next]_vars => QueryInv'
BY QueryGate, QueryRow, QueryRespond DEF Next

THEOREM QueryInvariant == Spec => []QueryInv
<1>1. QED
  BY QueryInit, QueryNext, PTL DEF Spec

\* The variables stay in their types, and the rows read never exceed top_k.
THEOREM TypeCorrect == Spec => []TypeOK
<1>1. QueryInv => TypeOK
  BY DEF QueryInv
<1>2. QED
  BY QueryInvariant, <1>1, PTL

\* Whatever rows the database returns, an answer holds only rows of a project
\* that both the token and the configuration allow.
THEOREM OnlyAuthorizedRowsHolds == Spec => []OnlyAuthorizedRows
<1>1. QueryInv => OnlyAuthorizedRows
  BY DEF QueryInv, GateInv, RowsInv, OnlyAuthorizedRows, Scope
<1>2. QED
  BY QueryInvariant, <1>1, PTL

\* An answer has every row of the project the search returned, as often as
\* the search returned it: the first half of CompleteBestFirst.
THEOREM AllOrNothingHolds == Spec => []AllOrNothing
<1>1. QueryInv => AllOrNothing
  BY DEF QueryInv
<1>2. QED
  BY QueryInvariant, <1>1, PTL

\* An answer is in descending order of its scores, whatever the figures.
THEOREM InOrderHolds == Spec => []InOrder
<1>1. QueryInv => InOrder
  BY DEF QueryInv
<1>2. QED
  BY QueryInvariant, <1>1, PTL

-----------------------------------------------------------------------------
(* Rows the score cannot tell apart keep the order of the search.          *)

LEMMA AlikeEquivalence ==
    /\ \A a : Alike(a, a)
    /\ \A a, b : Alike(a, b) => Alike(b, a)
    /\ \A a, b, c : Alike(a, b) /\ Alike(b, c) => Alike(a, c)
BY DEF Alike

LEMMA AlikeScores ==
    ASSUME NEW a, NEW b, Alike(a, b)
    PROVE  Score(a) = Score(b)
BY DEF Alike, Score

\* A row that is nearer by its figure does not score less; if it scores the
\* same, the two are alike.
LEMMA NearerScores ==
    ASSUME NEW a \in Row, NEW b \in Row,
           ~NoScore(a), ~NoScore(b), Nearer(a, b)
    PROVE  /\ Score(a) >= Score(b)
           /\ Score(a) = Score(b) => Alike(a, b)
<1> DEFINE x == Clamped(a.figure.value)
           y == Clamped(b.figure.value)
<1>1. /\ x \in Distances /\ y \in Distances /\ Distances \subseteq Nat
      /\ a.figure.value \in Int /\ b.figure.value \in Int
      /\ Closeness[x] \in Nat \ {0} /\ Closeness[y] \in Nat \ {0}
  BY ClampedType, ClosenessAssumption
<1>2. /\ a.figure.class \in {"number", "nan", "inf", "minus_inf", "text"}
      /\ b.figure.class \in {"number", "nan", "inf", "minus_inf", "text"}
      /\ a.figure.class # "number" => a.figure.value = 0
      /\ b.figure.class # "number" => b.figure.value = 0
  BY DEF Row, Figure
<1>3. CASE request.mode = "hybrid"
  <2>1. a.figure.class # "inf" /\ b.figure.class # "inf"
    BY <1>3 DEF NoScore
  <2>2. Below(b.figure, a.figure)
    BY <1>3 DEF Nearer
  <2>3. y <= x
    BY <1>1, <1>2, <2>1, <2>2 DEF Below, Clamped
  <2>4. Score(a) = x /\ Score(b) = y
    BY <1>3, <2>1 DEF Score
  <2>5. Alike(a, b) <=> x = y
    BY <1>3, <2>1 DEF Alike
  <2>6. QED
    BY <1>1, <2>3, <2>4, <2>5
<1>4. CASE request.mode # "hybrid"
  <2>1. Below(a.figure, b.figure)
    BY <1>4 DEF Nearer
  <2>2. a.figure.class # "inf"
    BY <2>1 DEF Below
  <2>3. Score(a) = Closeness[x]
    BY <1>4, <2>2 DEF Score
  <2>4. CASE b.figure.class = "inf"
    <3>1. Score(b) = 0
      BY <1>4, <2>4 DEF Score
    <3>2. QED
      BY <1>1, <2>3, <3>1
  <2>5. CASE b.figure.class # "inf"
    <3>1. x <= y
      BY <1>1, <1>2, <2>1, <2>5 DEF Below, Clamped
    <3>2. Closeness[x] >= Closeness[y]
      BY <1>1, <3>1, ClosenessAssumption
    <3>3. Score(b) = Closeness[y]
      BY <1>4, <2>5 DEF Score
    <3>4. Alike(a, b) <=> Closeness[x] = Closeness[y]
      BY <1>4, <2>2, <2>5 DEF Alike
    <3>5. QED
      BY <2>3, <3>2, <3>3, <3>4
  <2>6. QED
    BY <2>4, <2>5
<1>5. QED
  BY <1>3, <1>4

\* The rows of s like s[i] that stand before it.
Equals(s, i) == {k \in DOMAIN s : k < i /\ Alike(s[k], s[i])}

LEMMA EqualsFinite ==
    ASSUME NEW s \in Seq(Row), NEW i
    PROVE  IsFiniteSet(Equals(s, i)) /\ Rank(s, i) \in Nat
<1>1. IsFiniteSet(1..Len(s)) /\ DOMAIN s = 1..Len(s)
  BY FS_Interval
<1>2. Equals(s, i) \in SUBSET (1..Len(s))
  BY <1>1 DEF Equals
<1>3. IsFiniteSet(Equals(s, i))
  BY <1>1, <1>2, FS_Subset
<1>4. QED
  BY <1>3, FS_CardinalityType DEF Rank, Equals

\* Of two rows that are alike, the later one has the larger rank.
LEMMA RankGrows ==
    ASSUME NEW s \in Seq(Row), NEW i \in DOMAIN s, NEW j \in DOMAIN s,
           Alike(s[i], s[j]), i < j
    PROVE  Rank(s, i) < Rank(s, j)
<1>1. Equals(s, i) \cup {i} \in SUBSET Equals(s, j) /\ i \notin Equals(s, i)
  BY AlikeEquivalence DEF Equals
<1>2. /\ IsFiniteSet(Equals(s, i)) /\ IsFiniteSet(Equals(s, j))
      /\ Rank(s, i) \in Nat /\ Rank(s, j) \in Nat
  BY EqualsFinite
<1>3. Cardinality(Equals(s, i) \cup {i}) = Cardinality(Equals(s, i)) + 1
  BY <1>1, <1>2, FS_AddElement
<1>4. Cardinality(Equals(s, i) \cup {i}) <= Cardinality(Equals(s, j))
  BY <1>1, <1>2, FS_Subset
<1>5. QED
  BY <1>2, <1>3, <1>4 DEF Rank, Equals

\* Rows that are alike have the same score, so that the sort leaves them in
\* their order.
LEMMA EqualsInOrder ==
    ASSUME request \in Request, NEW s \in Seq(Row),
           NEW i \in DOMAIN s, NEW j \in DOMAIN s,
           Alike(s[i], s[j])
    PROVE  i < j <=> Place(s, i) < Place(s, j)
<1>1. /\ Score(s[i]) = Score(s[j]) /\ Score(s[i]) \in Int
      /\ i \in Int /\ j \in Int
  <2>1. Score(s[i]) = Score(s[j])
    BY AlikeScores
  <2>2. s[i] \in Row
    OBVIOUS
  <2>3. QED
    BY <2>1, <2>2, ScoreType
<1>2. i < j => Place(s, i) < Place(s, j)
  BY <1>1, PlaceIncreases DEF Before
<1>3. j < i => Place(s, j) < Place(s, i)
  BY <1>1, PlaceIncreases DEF Before
<1>4. Place(s, i) \in 1..Len(s) /\ Place(s, j) \in 1..Len(s)
  BY PlaceIncreases
<1>5. QED
  BY <1>1, <1>2, <1>3, <1>4

\* As many rows like it stand before a row after the sort as did before.
LEMMA SortedRank ==
    ASSUME request \in Request, NEW s \in Seq(Row), NEW j \in DOMAIN s
    PROVE  Rank(Sorted(s), j) = Rank(s, Source(s, j))
<1> DEFINE t == Sorted(s)
           i == Source(s, j)
           f == [k \in Equals(t, j) |-> Source(s, k)]
<1>1. /\ t \in Seq(Row) /\ DOMAIN t = DOMAIN s
      /\ \A k \in DOMAIN s : /\ Source(s, k) \in DOMAIN s
                             /\ Place(s, Source(s, k)) = k
                             /\ t[k] = s[Source(s, k)]
  BY SortedPermutes
<1> HIDE DEF t
<1>2. i \in DOMAIN s /\ Place(s, i) = j /\ t[j] = s[i]
  BY <1>1
<1> HIDE DEF i
<1>3. ASSUME NEW k \in Equals(t, j)
      PROVE  Source(s, k) \in Equals(s, i)
  <2>1. k \in DOMAIN s /\ k < j /\ Alike(t[k], t[j])
    BY <1>1 DEF Equals
  <2>2. /\ Source(s, k) \in DOMAIN s /\ Place(s, Source(s, k)) = k
        /\ Alike(s[Source(s, k)], s[i])
    BY <1>1, <1>2, <2>1
  <2>3. Source(s, k) < i <=> Place(s, Source(s, k)) < Place(s, i)
    BY <1>2, <2>2, EqualsInOrder
  <2>4. QED
    BY <1>2, <2>1, <2>2, <2>3 DEF Equals
<1>4. f \in [Equals(t, j) -> Equals(s, i)]
  BY <1>3
<1>5. f \in Injection(Equals(t, j), Equals(s, i))
  <2>1. \A k, l \in Equals(t, j) : f[k] = f[l] => k = l
    BY <1>1 DEF Equals
  <2>2. QED
    BY <1>4, <2>1 DEF Injection, IsInjective
<1>6. ASSUME NEW m \in Equals(s, i)
      PROVE  \E k \in Equals(t, j) : f[k] = m
  <2>1. m \in DOMAIN s /\ m < i /\ Alike(s[m], s[i])
    BY DEF Equals
  <2>2. Place(s, m) \in DOMAIN s
    BY <2>1, PlaceIncreases
  <2>3. Source(s, Place(s, m)) = m
    BY <1>1, <2>1, <2>2, PlaceBijection
  <2>4. Place(s, m) < j
    BY <1>2, <2>1, EqualsInOrder
  <2>5. Place(s, m) \in Equals(t, j)
    BY <1>1, <1>2, <2>1, <2>2, <2>3, <2>4 DEF Equals
  <2>6. QED
    BY <2>3, <2>5
<1>7. f \in Surjection(Equals(t, j), Equals(s, i))
  BY <1>4, <1>6 DEF Surjection
<1>8. IsFiniteSet(Equals(t, j))
  BY <1>1, EqualsFinite
<1>9. Cardinality(Equals(t, j)) = Cardinality(Equals(s, i))
  BY <1>5, <1>7, <1>8, FS_Bijection DEF Bijection, ExistsBijection
<1>10. QED
  BY <1>9 DEF Rank, Equals, t, i

\* The answer is what was read, sorted.
SortedInv == Answered => result = Sorted(own)

LEMMA SortedNext == QueryInv /\ SortedInv /\ [Next]_vars => SortedInv'
<1> SUFFICES ASSUME QueryInv, SortedInv, [Next]_vars PROVE SortedInv'
  OBVIOUS
<1>1. CASE Respond
  <2>1. /\ own' = result /\ result' = Sorted(result)
        /\ request' = request
    BY <1>1 DEF Respond, caller, QueryInv, RowsInv
  <2>2. Sorted(own)' = Sorted(own')
    BY <2>1 DEF Sorted, Place, Score
  <2>3. QED
    BY <2>1, <2>2 DEF SortedInv
<1>2. CASE Identify \/ Authorize \/ Search \/ ReadRow
  <2>1. outcome' # "answered"
    BY <1>2 DEF Identify, Authorize, Search, ReadRow, Fail, Skip, Collect,
       EndWith, Unavailable, QueryInv, GateInv
  <2>2. QED
    BY <2>1 DEF SortedInv, Answered
<1>3. CASE UNCHANGED vars
  <2>1. UNCHANGED <<request, own, result, outcome>>
    BY <1>3 DEF vars
  <2>2. Sorted(own)' = Sorted(own)
    BY <2>1 DEF Sorted, Place, Score
  <2>3. QED
    BY <2>1, <2>2 DEF SortedInv, Answered
<1>4. QED
  BY <1>1, <1>2, <1>3 DEF Next, Finished

LEMMA SortedIsBestFirst ==
    ASSUME QueryInv, SortedInv
    PROVE  BestFirst
<1> SUFFICES ASSUME Answered
             PROVE  /\ \A i, j \in DOMAIN result :
                          i < j /\ Nearer(result[j], result[i])
                             => Alike(result[i], result[j])
                    /\ \A i \in DOMAIN own, j \in DOMAIN result :
                          /\ Alike(own[i], result[j])
                          /\ Rank(own, i) = Rank(result, j)
                          => own[i] = result[j]
  BY DEF BestFirst
<1>1. /\ request \in Request /\ own \in Seq(Row) /\ result \in Seq(Row)
      /\ result = Sorted(own)
  BY DEF QueryInv, TypeOK, SortedInv
<1>2. ASSUME NEW i \in DOMAIN result, NEW j \in DOMAIN result, i < j,
             Nearer(result[j], result[i])
      PROVE  Alike(result[i], result[j])
  <2>1. Score(result[i]) >= Score(result[j])
    BY <1>2 DEF QueryInv, InOrder
  <2>2. result[i] \in Row /\ result[j] \in Row
    BY <1>1
  <2>3. ~NoScore(result[i]) /\ ~NoScore(result[j])
    BY DEF QueryInv, RowsInv
  <2>4. /\ Score(result[j]) >= Score(result[i])
        /\ Score(result[j]) = Score(result[i]) => Alike(result[j], result[i])
    BY <1>2, <2>2, <2>3, NearerScores
  <2>5. Score(result[i]) \in Int /\ Score(result[j]) \in Int
    BY <1>1, <2>2, ScoreType
  <2>6. Score(result[j]) = Score(result[i])
    BY <2>1, <2>4, <2>5
  <2>7. QED
    BY <2>4, <2>6, AlikeEquivalence
<1>3. ASSUME NEW i \in DOMAIN own, NEW j \in DOMAIN result,
             Alike(own[i], result[j]), Rank(own, i) = Rank(result, j)
      PROVE  own[i] = result[j]
  <2> DEFINE k == Source(own, j)
  <2>1. /\ j \in DOMAIN own /\ k \in DOMAIN own /\ result[j] = own[k]
    BY <1>1, SortedPermutes
  <2>2. Rank(own, i) = Rank(own, k)
    BY <1>1, <1>3, <2>1, SortedRank
  <2> HIDE DEF k
  <2>3. Alike(own[i], own[k])
    BY <1>3, <2>1
  <2>4. ~(i < k) /\ ~(k < i)
    <3>1. Rank(own, i) \in Nat
      BY <1>1, EqualsFinite
    <3>2. i < k => Rank(own, i) < Rank(own, k)
      BY <1>1, <2>1, <2>3, RankGrows
    <3>3. Alike(own[k], own[i])
      BY <2>3, AlikeEquivalence
    <3>4. k < i => Rank(own, k) < Rank(own, i)
      BY <1>1, <2>1, <3>3, RankGrows
    <3>5. QED
      BY <2>2, <3>1, <3>2, <3>4
  <2>5. i = k
    BY <1>1, <2>1, <2>4
  <2>6. QED
    BY <2>1, <2>5
<1>4. QED
  BY <1>2, <1>3

\* An answer is complete and in order: it holds every row of the project the
\* search returned, as often as it was returned, nearer or more relevant rows
\* come first wherever the score tells them apart, whatever float the search
\* gave them, and where it does not they keep the order of the search.
THEOREM CompleteBestFirstHolds == Spec => []CompleteBestFirst
<1>1. Init => SortedInv
  BY DEF Init, SortedInv, Answered
<1>2. QueryInv /\ SortedInv /\ [Next]_vars => (QueryInv /\ SortedInv)'
  BY QueryNext, SortedNext
<1>3. QueryInv /\ SortedInv => CompleteBestFirst
  BY SortedIsBestFirst DEF CompleteBestFirst, QueryInv
<1>4. QED
  BY <1>1, <1>2, <1>3, QueryInit, PTL DEF Spec
=============================================================================
