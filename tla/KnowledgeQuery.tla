---------------------------- MODULE KnowledgeQuery --------------------------
(***************************************************************************)
(* One call of the tool query_lancedb_vector: who asks and for which       *)
(* projects (_principal_context in src/src/server.py), the gate in front   *)
(* of the adapter, and LanceDBAdapter.query                                *)
(* (src/src/knowledge/lancedb_adapter.py), row by row.                     *)
(*                                                                         *)
(* The vector database is external and is not trusted to filter: a search  *)
(* that succeeds returns up to top_k rows, of any project and any shape,   *)
(* each chosen in the step that looks at it.  "No restriction" (None in    *)
(* the code) is the set of all projects.                                   *)
(***************************************************************************)
EXTENDS Integers, Sequences, FiniteSets, SequencesExt

CONSTANTS
    Projects,       \* project ids
    MaxTopK,        \* bound: largest top_k asked for
    Sizes,          \* bytes of a row's text and source
    FieldLimit,     \* MAX_RESULT_FIELD_BYTES
    ResultLimit,    \* MAX_RESULT_BYTES
    Numbers,        \* bound: finite distances and relevances, any sign
    Closeness       \* 1 / (1 + d) for a distance d, as a float

\* What max(0.0, x) makes of a finite number.
Clamped(x) == IF x > 0 THEN x ELSE 0

\* 1 / (1 + d) is positive and never grows with d; rounding may give two
\* distances the same value.
Distances == {Clamped(x) : x \in Numbers}

ASSUME NumbersAssumption == Numbers \subseteq Int /\ 0 \in Numbers
ASSUME ClosenessAssumption ==
    /\ Closeness \in [Distances -> Nat \ {0}]
    /\ \A c, d \in Distances : c <= d => Closeness[c] >= Closeness[d]
ASSUME ProjectsAssumption == Projects # {}
ASSUME LimitsAssumption ==
    /\ MaxTopK \in Nat \ {0}
    /\ Sizes \subseteq Nat
    /\ FieldLimit \in Nat
    /\ ResultLimit \in Nat

VARIABLES
    configured,     \* MCP_ALLOWED_PROJECTS
    claimed,        \* the token's projects; all of them without a claim
    table,          \* a table is open
    request,        \* project_id, top_k and search_mode
    pc,
    scope,          \* authorized_projects
    left,           \* rows the loop has still to read
    own,            \* ghost: the project's rows that were read
    result,
    outcome

vars == <<configured, claimed, table, request, pc, scope, left, own, result,
          outcome>>

caller == <<configured, claimed, table, request>>

-----------------------------------------------------------------------------
(* Rows and scores.                                                        *)

\* What stands in the score field: a finite number (0 if the field is
\* missing), one of the floats that are none, or "text" (float() refuses it).
Figure ==
    [class : {"number"}, value : Numbers]
      \cup [class : {"nan", "inf", "minus_inf", "text"}, value : {0}]

\* "no_mapping" is no row at all, "partial" lacks its text or its source.
Row == [shape : {"full", "partial", "no_mapping"}, project : Projects,
        size : Sizes, figure : Figure]

Request == [project : Projects, top_k : 1..MaxTopK,
            mode : {"vector", "hybrid"}]

\* A value of 0 stands for what max(0.0, x) makes of nan and -inf, too; and
\* 1 / (1 + inf) is 0.0, so that only an infinite relevance meets the test for
\* finite scores.
NoScore(row) ==
    \/ row.figure.class = "text"
    \/ row.figure.class = "inf" /\ request.mode = "hybrid"

\* Wrong variant: max() is left out.
ScoreNegative(row) ==
    CASE request.mode = "hybrid" -> row.figure.value
      [] row.figure.class = "inf" -> 0
      [] OTHER -> Closeness[Clamped(row.figure.value)]

\* The relevance, or how close the distance is.
Score(row) ==
    CASE request.mode = "hybrid" -> Clamped(row.figure.value)
      [] row.figure.class = "inf" -> 0
      [] OTHER -> Closeness[Clamped(row.figure.value)]

\* Place of s[i] when s is sorted by descending score; the sort is stable.
Place(s, i) ==
    1 + Cardinality({j \in DOMAIN s :
            \/ Score(s[j]) > Score(s[i])
            \/ Score(s[j]) = Score(s[i]) /\ j < i})

Sorted(s) ==
    [k \in DOMAIN s |-> s[CHOOSE i \in DOMAIN s : Place(s, i) = k]]

Bytes(s) == FoldSeq(LAMBDA row, sum : row.size + sum, 0, s)

-----------------------------------------------------------------------------
Init ==
    /\ configured \in SUBSET Projects \ {{}}
    /\ claimed \in SUBSET Projects
    /\ table \in BOOLEAN
    /\ request \in Request
    /\ pc = "identify"
    /\ scope = {}
    /\ left = 0
    /\ own = <<>>
    /\ result = <<>>
    /\ outcome = "none"

EndWith(answer) ==
    /\ pc' = "done"
    /\ outcome' = answer

\* projects &= configured
Scope == claimed \cap configured

\* _principal_context and the quota.  A malformed projects claim is refused.
Identify ==
    /\ pc = "identify"
    /\ \/ pc' = "authorize" /\ scope' = Scope /\ UNCHANGED outcome
       \/ EndWith("not_authorized") /\ UNCHANGED scope
       \/ EndWith("rate_limited") /\ UNCHANGED scope
    /\ UNCHANGED <<caller, left, own, result>>

\* QueryInput may refuse the arguments; then the gate.
Authorize ==
    /\ pc = "authorize"
    /\ \/ EndWith("invalid")
       \/ request.project \notin scope /\ EndWith("not_authorized")
       \/ request.project \in scope /\ pc' = "ask" /\ UNCHANGED outcome
    /\ UNCHANGED <<caller, scope, left, own, result>>

Unavailable ==
    IF request.mode = "hybrid" THEN "hybrid_unavailable" ELSE "unavailable"

\* Wrong variant: the limit counts from zero.
LimitOffByOne == 0..(request.top_k + 1)

\* limit(top_k)
RowCounts == 0..request.top_k

\* LanceDBAdapter.query up to to_list(): the adapter's own gate (the server's
\* has let nothing through that it would refuse), the table, the full-text
\* index, the search.
Search ==
    /\ pc = "ask"
    /\ IF request.project \notin configured
         THEN EndWith("not_authorized") /\ UNCHANGED left
         ELSE \/ ~table /\ EndWith("unavailable") /\ UNCHANGED left
              \/ table /\ EndWith(Unavailable) /\ UNCHANGED left
              \/ /\ table
                 /\ left' \in RowCounts
                 /\ pc' = "rows" /\ UNCHANGED outcome
    /\ UNCHANGED <<caller, scope, own, result>>

\* Wrong variant: the database is trusted to filter.
Trusted(row) == TRUE

Matches(row) == row.project = request.project

\* The loop's body ends the call for a row it cannot use, even a row of
\* another project if its score is what is wrong.
BadRow(row) ==
    \/ row.shape = "no_mapping"
    \/ NoScore(row)
    \/ Matches(row) /\ (row.shape = "partial" \/ row.size > FieldLimit)

Fits(rows) == Bytes(rows) <= ResultLimit

Fail(row) ==
    /\ BadRow(row) \/ (Matches(row) /\ ~Fits(Append(result, row)))
    /\ EndWith("unavailable")
    /\ left' = 0 /\ result' = <<>>

Skip(row) ==
    /\ ~BadRow(row) /\ ~Matches(row)
    /\ left' = left - 1
    /\ UNCHANGED <<pc, outcome, result>>

Collect(row) ==
    /\ ~BadRow(row) /\ Matches(row) /\ Fits(Append(result, row))
    /\ result' = Append(result, row)
    /\ left' = left - 1
    /\ UNCHANGED <<pc, outcome>>

ReadRow ==
    /\ pc = "rows" /\ left > 0
    /\ \E row \in Row :
          /\ Fail(row) \/ Skip(row) \/ Collect(row)
          /\ own' = IF row.project = request.project
                      THEN Append(own, row) ELSE own
    /\ UNCHANGED <<caller, scope>>

Respond ==
    /\ pc = "rows" /\ left = 0
    /\ result' = Sorted(result)
    /\ EndWith("answered")
    /\ UNCHANGED <<caller, scope, left, own>>

Finished == pc = "done" /\ UNCHANGED vars

Next ==
    \/ Identify
    \/ Authorize
    \/ Search
    \/ ReadRow
    \/ Respond
    \/ Finished

Spec == Init /\ [][Next]_vars

-----------------------------------------------------------------------------
(* What must hold.                                                         *)

Answers == {"none", "not_authorized", "rate_limited", "invalid",
            "unavailable", "hybrid_unavailable", "answered"}

\* Types; the rows still to be read never exceed the client's top_k.
TypeOK ==
    /\ configured \subseteq Projects /\ claimed \subseteq Projects
    /\ table \in BOOLEAN
    /\ request \in Request
    /\ pc \in {"identify", "authorize", "ask", "rows", "done"}
    /\ scope \subseteq Projects
    /\ left \in 0..request.top_k
    /\ own \in Seq(Row) /\ result \in Seq(Row)
    /\ Len(result) + left <= request.top_k
    /\ outcome \in Answers

Answered == outcome = "answered"

\* Nobody is answered with a row of a project outside the token's claim or
\* outside the configured projects, whatever the database returns.
OnlyAuthorizedRows ==
    Answered => \A i \in DOMAIN result :
                   result[i].project \in claimed \cap configured

AllOrNothing ==
    Answered => \A row \in Row :
       Cardinality({i \in DOMAIN own : own[i] = row}) =
         Cardinality({i \in DOMAIN result : result[i] = row})

\* f is below g among the floats; nan is not comparable.
Below(f, g) ==
    \/ f.class = "minus_inf" /\ g.class \in {"number", "inf"}
    \/ f.class = "number" /\ g.class = "inf"
    \/ f.class = "number" /\ g.class = "number" /\ f.value < g.value

\* a is nearer, or more relevant, than b.
Nearer(a, b) ==
    IF request.mode = "hybrid" THEN Below(b.figure, a.figure)
                               ELSE Below(a.figure, b.figure)

\* The score does not tell a from b: the figures are the same once whatever
\* is not positive counts as zero, or 1 / (1 + d) rounds to the same float.
Alike(a, b) ==
    /\ a.figure.class = "inf" <=> b.figure.class = "inf"
    /\ LET x == Clamped(a.figure.value)
           y == Clamped(b.figure.value)
       IN  IF request.mode = "hybrid" THEN x = y
                                      ELSE Closeness[x] = Closeness[y]

\* How many rows of s that are like s[i] stand before it.
Rank(s, i) == Cardinality({k \in DOMAIN s : k < i /\ Alike(s[k], s[i])})

BestFirst ==
    Answered =>
       /\ \A i, j \in DOMAIN result :
             i < j /\ Nearer(result[j], result[i])
                => Alike(result[i], result[j])
       /\ \A i \in DOMAIN own, j \in DOMAIN result :
             Alike(own[i], result[j]) /\ Rank(own, i) = Rank(result, j)
                => own[i] = result[j]

\* An answer is complete and in order: every row of the project that the
\* search returned is in it (a row that cannot be served costs the whole
\* answer, never silently the row), and a row stands after one that is
\* farther or less relevant only if the score cannot tell the two apart
\* (negative figures, nan and zero all score alike, and so do distances that
\* rounding makes equal); such rows keep the order of the search.
CompleteBestFirst == AllOrNothing /\ BestFirst

\* A "non-finite search score" is never served: the query fails.
NonFiniteRefused ==
    Answered => \A i \in DOMAIN result :
                   result[i].figure.class \notin {"nan", "inf", "minus_inf"}
=============================================================================
