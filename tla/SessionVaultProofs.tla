------------------------- MODULE SessionVaultProofs -------------------------
(***************************************************************************)
(* Proofs about the session vault, for every number of threads, every set  *)
(* of principals and documents and every limit.  The first part holds      *)
(* whether or not the clock may be set back, the second, about the time to *)
(* live, under a clock that is not.                                        *)
(***************************************************************************)
EXTENDS SessionVault, FiniteSetTheorems, SequenceTheorems, TLAPS

-----------------------------------------------------------------------------
(* The laws of Total: what adding and removing one entry of a function     *)
(* with natural values, and adding another function, does to it.           *)

\* The slots of one entry are as many as its value: a session of n bytes
\* stands for n units.
LEMMA SlotsOfOne ==
    ASSUME NEW x, NEW n \in Nat
    PROVE  /\ IsFiniteSet({x} \X (1..n))
           /\ Cardinality({x} \X (1..n)) = n
<1>1. IsFiniteSet(1..n) /\ Cardinality(1..n) = n
  <2>1. /\ IsFiniteSet(1..n)
        /\ Cardinality(1..n) = IF 1 > n THEN 0 ELSE n - 1 + 1
    BY FS_Interval
  <2> QED BY <2>1
<1>2. IsFiniteSet({x}) /\ Cardinality({x}) = 1
  BY FS_Singleton
<1>3. QED
  BY <1>1, <1>2, FS_Product

\* Adding an entry for a new key adds its value to the total: what create()
\* does to the bytes of the vault.
LEMMA TotalWith ==
    ASSUME NEW f, NEW x, x \notin DOMAIN f, NEW v \in Nat,
           IsFiniteSet(Slots(f))
    PROVE  /\ IsFiniteSet(Slots(With(f, x, v)))
           /\ Total(With(f, x, v)) = Total(f) + v
<1> DEFINE new == {x} \X (1..v)
<1>1. Slots(With(f, x, v)) = Slots(f) \cup new
  BY DEF Slots, With
<1>2. Slots(f) \cap new = {}
  BY DEF Slots
<1>3. IsFiniteSet(new) /\ Cardinality(new) = v
  BY SlotsOfOne
<1> HIDE DEF new
<1>4. Cardinality({}) = 0 /\ Cardinality(Slots(f)) \in Nat
  BY FS_EmptySet, FS_CardinalityType
<1>5. QED
  BY <1>1, <1>2, <1>3, <1>4, FS_Union DEF Total

\* Removing an entry takes its value from the total: what _purge() does to
\* the bytes of the vault for each session it pops.
LEMMA TotalWithout ==
    ASSUME NEW f, NEW x \in DOMAIN f, f[x] \in Nat, IsFiniteSet(Slots(f))
    PROVE  /\ IsFiniteSet(Slots(Without(f, x)))
           /\ Total(Without(f, x)) = Total(f) - f[x]
<1> DEFINE g == Without(f, x)
<1> DEFINE old == {x} \X (1..f[x])
<1>1. x \notin DOMAIN g
  BY DEF Without
<1>2. Slots(f) = Slots(g) \cup old
  BY DEF Slots, Without
<1>3. Slots(g) \cap old = {}
  BY DEF Slots, Without
<1>4. IsFiniteSet(Slots(g)) /\ Cardinality(Slots(g)) \in Nat
  BY <1>2, FS_Subset, FS_CardinalityType
<1>5. /\ IsFiniteSet(old)
      /\ Cardinality(old) = f[x]
  BY SlotsOfOne
<1> HIDE DEF g, old
<1>6. Cardinality({}) = 0
  BY FS_EmptySet
<1>7. Cardinality(Slots(f)) = Cardinality(Slots(g)) + f[x]
  BY <1>2, <1>3, <1>4, <1>5, <1>6, FS_Union
<1>8. QED
  BY <1>4, <1>7 DEF Total, g

\* A function with natural values and a finite domain has a natural total.
LEMMA TotalType ==
    ASSUME NEW f, IsFiniteSet(DOMAIN f), \A x \in DOMAIN f : f[x] \in Nat
    PROVE  IsFiniteSet(Slots(f)) /\ Total(f) \in Nat
<1> DEFINE parts == {{x} \X (1..f[x]) : x \in DOMAIN f}
<1>1. IsFiniteSet(parts)
  <2> DEFINE part == [x \in DOMAIN f |-> {x} \X (1..f[x])]
  <2>1. part \in Surjection(DOMAIN f, parts)
    BY DEF Surjection
  <2> HIDE DEF part, parts
  <2> QED BY <2>1, FS_Surjection
<1>2. ASSUME NEW part \in parts
      PROVE  IsFiniteSet(part)
  <2>1. PICK x \in DOMAIN f : part = {x} \X (1..f[x])
    OBVIOUS
  <2>2. f[x] \in Nat
    OBVIOUS
  <2>3. IsFiniteSet({x} \X (1..f[x]))
    BY <2>2, SlotsOfOne, Zenon
  <2>4. QED
    BY <2>1, <2>3, Zenon
<1>3. IsFiniteSet(UNION parts)
  BY <1>1, <1>2, FS_UNION
<1>4. QED
  BY <1>3, FS_CardinalityType DEF Slots, Total

\* Adding two functions adds their totals: what counting the entities of one
\* more document does to the counts by type.
LEMMA TotalSum ==
    ASSUME NEW S, IsFiniteSet(S), NEW f \in [S -> Nat], NEW g \in [S -> Nat]
    PROVE  Total([x \in S |-> f[x] + g[x]]) = Total(f) + Total(g)
<1> DEFINE sum == [x \in S |-> f[x] + g[x]]
           above == UNION {{x} \X ((f[x] + 1)..(f[x] + g[x])) : x \in S}
           shift == [slot \in Slots(g) |->
                       <<slot[1], f[slot[1]] + slot[2]>>]
<1>1. /\ \A x, i : <<x, i>> \in Slots(f) <=> x \in S /\ i \in 1..f[x]
      /\ \A x, i : <<x, i>> \in Slots(g) <=> x \in S /\ i \in 1..g[x]
      /\ \A x, i : <<x, i>> \in Slots(sum) <=>
                      x \in S /\ i \in 1..(f[x] + g[x])
      /\ \A x, i : <<x, i>> \in above <=>
                      x \in S /\ i \in (f[x] + 1)..(f[x] + g[x])
  BY DEF Slots
<1>2. \A slot \in Slots(f) \cup Slots(g) \cup Slots(sum) \cup above :
         slot = <<slot[1], slot[2]>>
  BY DEF Slots
<1>3. /\ IsFiniteSet(Slots(f)) /\ IsFiniteSet(Slots(g))
      /\ Cardinality(Slots(f)) \in Nat /\ Cardinality(Slots(g)) \in Nat
  BY TotalType DEF Total
<1> HIDE DEF sum, above
<1>4. ASSUME NEW x, NEW i
      PROVE  <<x, i>> \in Slots(sum) <=>
                <<x, i>> \in Slots(f) \/ <<x, i>> \in above
  <2>1. x \in S => f[x] \in Nat /\ g[x] \in Nat
    OBVIOUS
  <2>2. QED
    BY <1>1, <2>1
<1>5. Slots(sum) = Slots(f) \cup above
  BY <1>2, <1>4
<1>6. Slots(f) \cap above = {}
  BY <1>1, <1>2
<1>7. shift \in Bijection(Slots(g), above)
  <2>1. ASSUME NEW slot \in Slots(g)
        PROVE  shift[slot] \in above
    <3>1. slot = <<slot[1], slot[2]>> /\ slot[1] \in S
          /\ slot[2] \in 1..g[slot[1]]
      BY <1>1, <1>2
    <3>2. f[slot[1]] + slot[2] \in (f[slot[1]] + 1)..(f[slot[1]] + g[slot[1]])
      BY <3>1
    <3>3. QED
      BY <1>1, <3>1, <3>2
  <2>2. ASSUME NEW a \in Slots(g), NEW b \in Slots(g), shift[a] = shift[b]
        PROVE  a = b
    <3>1. /\ a = <<a[1], a[2]>> /\ a[1] \in S /\ a[2] \in 1..g[a[1]]
          /\ b = <<b[1], b[2]>> /\ b[1] \in S /\ b[2] \in 1..g[b[1]]
      BY <1>1, <1>2
    <3>2. a[1] = b[1] /\ f[a[1]] + a[2] = f[b[1]] + b[2]
      BY <2>2
    <3>3. a[2] = b[2]
      BY <3>1, <3>2
    <3>4. QED
      BY <3>1, <3>2, <3>3
  <2>3. ASSUME NEW slot \in above
        PROVE  \E a \in Slots(g) : shift[a] = slot
    <3>1. /\ slot = <<slot[1], slot[2]>> /\ slot[1] \in S
          /\ slot[2] \in (f[slot[1]] + 1)..(f[slot[1]] + g[slot[1]])
      BY <1>1, <1>2
    <3> DEFINE a == <<slot[1], slot[2] - f[slot[1]]>>
    <3>2. slot[2] - f[slot[1]] \in 1..g[slot[1]]
      BY <3>1
    <3>3. a \in Slots(g)
      BY <1>1, <3>1, <3>2
    <3>4. f[slot[1]] + (slot[2] - f[slot[1]]) = slot[2]
      BY <3>1
    <3>5. shift[a] = <<slot[1], slot[2]>>
      BY <3>3, <3>4
    <3>6. QED
      BY <3>1, <3>3, <3>5
  <2>4. shift \in Injection(Slots(g), above)
    BY <2>1, <2>2 DEF Injection, IsInjective
  <2>5. shift \in Surjection(Slots(g), above)
    BY <2>1, <2>3 DEF Surjection
  <2>6. QED
    BY <2>4, <2>5 DEF Bijection
<1>8. IsFiniteSet(above) /\ Cardinality(above) = Cardinality(Slots(g))
  BY <1>3, <1>7, FS_Bijection DEF ExistsBijection
<1>9. Cardinality(Slots(f) \cap above) = 0
  BY <1>6, FS_EmptySet
<1>10. Cardinality(Slots(f) \cup above) =
          Cardinality(Slots(f)) + Cardinality(above)
             - Cardinality(Slots(f) \cap above)
  BY <1>3, <1>8, FS_Union
<1>11. Cardinality(Slots(sum)) =
          Cardinality(Slots(f)) + Cardinality(Slots(g))
  BY <1>3, <1>5, <1>8, <1>9, <1>10
<1>12. QED
  BY <1>11, Zenon DEF Total, sum

-----------------------------------------------------------------------------
(* The invariants.                                                         *)

\* The thread inside the with block, if any, is the one that holds the lock.
InLock(t) == pc[t] \in {"list", "purge", "body", "insert", "release"}

LockInv == \A t \in Threads : InLock(t) <=> lock = t

\* Only create() inserts.
RequestInv == \A t \in Threads : pc[t] = "insert" => req[t].op = "create"

\* Live sessions have identifiers that were given out, so the next one is new.
SidInv == DOMAIN sessions \subseteq 1..Len(issued)

FiniteInv ==
    /\ IsFiniteSet(DOMAIN sessions)
    /\ \A t \in Threads : IsFiniteSet(expired[t])

TypeInv == TypeOK /\ FiniteInv /\ RequestInv /\ LockInv /\ SidInv

\* What the checks of create() established still holds when it inserts.
RoomInv ==
    \A t \in Threads : pc[t] = "insert" =>
       CreateRefusal(req[t]) = "none"

CapacityInv == TypeInv /\ RoomInv /\ ByteLedger /\ Capacity

USE ThreadsAssumption

-----------------------------------------------------------------------------
\* The requests the environment chooses from are requests.
LEMMA RequestsAreRequests ==
    ASSUME TypeOK
    PROVE  Requests \subseteq Request
<1>1. Len(issued) \in Nat
  BY DEF TypeOK
<1>2. 0..(Len(issued) + 1) \subseteq Nat
  BY <1>1
<1>3. QED
  BY <1>2 DEF Requests, Request, CreateRequest, RecordRequest,
              RestoreRequest, StatsRequest, Sid

\* A request is told by its operation.
LEMMA RequestCases ==
    ASSUME NEW r \in Request \cup {Idle}
    PROVE  /\ r.op = "create" => r \in CreateRequest
           /\ r.op = "record" => r \in RecordRequest
           /\ r.op = "restore" => r \in RestoreRequest
BY DEF Request, Idle, CreateRequest, RecordRequest, RestoreRequest,
       StatsRequest

\* Documents have natural sizes and entity counts.
LEMMA DocumentType ==
    ASSUME NEW d \in Documents
    PROVE  /\ Size[d] \in Nat
           /\ Entities[d] \in [Types -> Nat]
           /\ Total(Entities[d]) \in Nat
<1>1. Size[d] \in Nat /\ Entities[d] \in [Types -> Nat]
  BY DocumentsAssumption
<1>2. IsFiniteSet(DOMAIN Entities[d])
  BY <1>1, DocumentsAssumption
<1>3. Total(Entities[d]) \in Nat
  BY <1>1, <1>2, TotalType
<1>4. QED
  BY <1>1, <1>3

\* Counting an anonymization keeps the statistics well typed.
LEMMA RecordedType ==
    ASSUME stats \in Stats, NEW d \in Documents
    PROVE  Recorded(d) \in Stats
<1> DEFINE byType == [ty \in Types |->
                        stats.entities_by_type[ty] + Entities[d][ty]]
           count == stats.total_anonymizations + 1
           pii == stats.total_pii_entities + Total(Entities[d])
<1>1. stats.entities_by_type \in [Types -> Nat]
  BY DEF Stats
<1>2. byType \in [Types -> Nat]
  BY <1>1, DocumentType
<1>3. count \in Nat /\ pii \in Nat
  BY DocumentType DEF Stats
<1>4. Recorded(d) = [stats EXCEPT !.total_anonymizations = count,
                                  !.total_pii_entities = pii,
                                  !.entities_by_type = byType]
  BY DEF Recorded, Stats
<1> HIDE DEF byType, count, pii
<1>5. [stats EXCEPT !.total_anonymizations = count] \in Stats
  BY <1>3 DEF Stats
<1>6. [stats EXCEPT !.total_anonymizations = count,
                    !.total_pii_entities = pii] \in Stats
  BY <1>3, <1>5 DEF Stats
<1>7. QED
  BY <1>2, <1>4, <1>6 DEF Stats

\* The only answers are those a caller knows.
LEMMA RefusalType ==
    ASSUME NEW r
    PROVE  CreateRefusal(r) \in Replies /\ RestoreRefusal(r) \in Replies
BY DEF CreateRefusal, RestoreRefusal, Replies

-----------------------------------------------------------------------------
(* Type correctness.  One lemma for each method's steps; each shows every  *)
(* conjunct of TypeInv again.                                              *)

LEMMA TypeInvInit == Init => TypeInv
<1> SUFFICES ASSUME Init PROVE TypeInv
  OBVIOUS
<1>1. DocumentsAssumption
  BY DocumentsAssumption
<1>2. NoStats \in Stats /\ NoSnapshot \in Snapshot
  BY DEF NoStats, Stats, NoSnapshot, Snapshot
<1>3. sessions = [sid \in {} |-> NoThread] /\ DOMAIN sessions = {}
  BY DEF Init
<1>4. TypeOK
  BY <1>2, <1>3 DEF Init, TypeOK, Steps, Replies
<1>5. FiniteInv
  BY <1>3, FS_EmptySet DEF Init, FiniteInv
<1>6. QED
  BY <1>3, <1>4, <1>5 DEF Init, TypeInv, RequestInv, LockInv, InLock, SidInv

\* The clock changes nothing but itself.
LEMMA TypeInvClock == TypeInv /\ (Tick \/ StepBack) => TypeInv'
BY DEF TypeInv, TypeOK, FiniteInv, RequestInv, LockInv, InLock, SidInv,
       Tick, StepBack, contents, history

LEMMA TypeInvCall ==
    ASSUME TypeInv, NEW t \in Threads, Call(t)
    PROVE  TypeInv'
<1>1. PICK r \in Requests : req' = [req EXCEPT ![t] = r]
  BY DEF Call
<1>2. r \in Request
  BY RequestsAreRequests DEF TypeInv
<1>3. pc' = [pc EXCEPT ![t] = "acquire"] /\ pc[t] = "idle"
  BY DEF Call, Goto
<1>4. TypeOK'
  BY <1>1, <1>2, <1>3 DEF TypeInv, TypeOK, Call, Steps, contents, history
<1>5. RequestInv'
  BY <1>1, <1>3 DEF TypeInv, TypeOK, RequestInv
<1>6. LockInv'
  BY <1>3 DEF TypeInv, TypeOK, LockInv, InLock, Call
<1>7. FiniteInv' /\ SidInv'
  BY DEF TypeInv, FiniteInv, SidInv, Call, contents, history
<1>8. QED
  BY <1>4, <1>5, <1>6, <1>7 DEF TypeInv

\* Taking the lock, the purge and the release.
LEMMA TypeInvLock ==
    ASSUME TypeInv, NEW t \in Threads,
           Acquire(t) \/ Purge(t) \/ Release(t) \/ Return(t)
    PROVE  TypeInv'
<1>1. CASE Acquire(t)
  BY <1>1 DEF Acquire, LockFree, Goto, TypeInv, TypeOK, FiniteInv,
       RequestInv, LockInv, InLock, SidInv, Steps, contents, history
<1>2. CASE PurgeList(t)
  <2> DEFINE list == {sid \in DOMAIN sessions : IsExpired(sid)}
  <2>1. list \in SUBSET Sid /\ IsFiniteSet(list)
    BY FS_Subset DEF TypeInv, TypeOK, FiniteInv
  <2>2. expired' = [expired EXCEPT ![t] = list]
    BY <1>2 DEF PurgeList
  <2> HIDE DEF list
  <2>3. TypeOK'
    BY <1>2, <2>1, <2>2 DEF PurgeList, Goto, TypeInv, TypeOK, Steps,
         contents, history
  <2>4. FiniteInv'
    BY <1>2, <2>1, <2>2 DEF PurgeList, TypeInv, TypeOK, FiniteInv, contents
  <2>5. QED
    BY <1>2, <2>3, <2>4 DEF PurgeList, Goto, TypeInv, TypeOK, RequestInv,
         LockInv, InLock, SidInv, contents, history
<1>3. CASE PurgePop(t)
  <2>1. PICK sid \in expired[t] \cap DOMAIN sessions :
           /\ sessions' = Without(sessions, sid)
           /\ bytes' = bytes - sessions[sid].size
    BY <1>3 DEF PurgePop
  <2>2. sessions[sid].size \in Nat
    BY <2>1 DEF TypeInv, TypeOK, Session
  <2>3. /\ DOMAIN sessions' = DOMAIN sessions \ {sid}
        /\ \A other \in DOMAIN sessions' : sessions'[other] = sessions[other]
    BY <2>1 DEF Without
  <2>4. TypeOK'
    BY <1>3, <2>1, <2>2, <2>3 DEF PurgePop, TypeInv, TypeOK, history
  <2>5. FiniteInv'
    BY <1>3, <2>3, FS_RemoveElement DEF PurgePop, TypeInv, FiniteInv
  <2>6. QED
    BY <1>3, <2>3, <2>4, <2>5 DEF PurgePop, TypeInv, RequestInv, LockInv,
         InLock, SidInv, history
<1>4. CASE PurgeCount(t)
  <2>1. Cardinality(expired[t]) \in Nat
    BY FS_CardinalityType DEF TypeInv, FiniteInv
  <2>2. stats' \in Stats
    <3> DEFINE count == stats.expired_sessions + Cardinality(expired[t])
    <3>1. stats \in Stats /\ count \in Nat
      BY <2>1 DEF TypeInv, TypeOK, Stats
    <3>2. stats' = [stats EXCEPT !.expired_sessions = count]
      BY <1>4 DEF PurgeCount
    <3> HIDE DEF count
    <3>3. QED
      BY <3>1, <3>2 DEF Stats
  <2>3. TypeOK'
    BY <1>4, <2>2 DEF PurgeCount, Goto, TypeInv, TypeOK, Steps, history
  <2>4. FiniteInv'
    BY <1>4, FS_EmptySet DEF PurgeCount, TypeInv, TypeOK, FiniteInv
  <2>5. QED
    BY <1>4, <2>3, <2>4 DEF PurgeCount, Goto, TypeInv, TypeOK, RequestInv,
         LockInv, InLock, SidInv, history
<1>5. CASE Release(t)
  BY <1>5 DEF Release, Goto, TypeInv, TypeOK, FiniteInv, RequestInv,
       LockInv, InLock, SidInv, Steps, contents, history
<1>6. CASE Return(t)
  <2>1. NoSnapshot \in Snapshot
    BY DEF NoSnapshot, NoStats, Snapshot, Stats
  <2>2. TypeOK'
    BY <1>6, <2>1 DEF Return, Goto, TypeInv, TypeOK, Steps, Replies, contents,
         history
  <2>3. QED
    BY <1>6, <2>2 DEF Return, Goto, TypeInv, TypeOK, FiniteInv, RequestInv,
         LockInv, InLock, SidInv, contents, history
<1>7. QED
  BY <1>1, <1>2, <1>3, <1>4, <1>5, <1>6 DEF Purge

\* The bodies of the methods.
LEMMA TypeInvRefuse ==
    ASSUME TypeInv, NEW t \in Threads, CreateRefuse(t) \/ CreateAdmit(t)
    PROVE  TypeInv'
<1>1. CreateRefusal(req[t]) \in Replies
  BY RefusalType
<1>2. CASE CreateRefuse(t)
  BY <1>1, <1>2 DEF CreateRefuse, At, Answer, Goto, TypeInv, TypeOK,
       FiniteInv, RequestInv, LockInv, InLock, SidInv, Steps, contents,
       history
<1>3. CASE CreateAdmit(t)
  BY <1>3 DEF CreateAdmit, At, Goto, TypeInv, TypeOK, FiniteInv, RequestInv,
       LockInv, InLock, SidInv, Steps, contents, history
<1>4. QED
  BY <1>2, <1>3

LEMMA TypeInvInsert ==
    ASSUME TypeInv, NEW t \in Threads, Insert(t)
    PROVE  TypeInv'
<1> DEFINE r == req[t]
<1>1. r \in CreateRequest
  BY RequestCases DEF TypeInv, TypeOK, RequestInv, Insert
<1>2. r.principal \in Owner /\ r.doc \in Documents
  BY <1>1 DEF CreateRequest
<1>3. NewSession(r) \in Session
  BY <1>2, DocumentType DEF NewSession, Session, TypeInv, TypeOK
<1>4. Size[r.doc] \in Nat /\ Recorded(r.doc) \in Stats
  BY <1>2, DocumentType, RecordedType DEF TypeInv, TypeOK
<1>5. Len(issued) \in Nat /\ NewSid \in Nat /\ NewSid \notin DOMAIN sessions
  BY DEF NewSid, TypeInv, TypeOK, SidInv
<1>6. /\ DOMAIN sessions' = DOMAIN sessions \cup {NewSid}
      /\ sessions'[NewSid] = NewSession(r)
      /\ \A sid \in DOMAIN sessions : sessions'[sid] = sessions[sid]
  BY <1>5 DEF Insert, With
<1>7. issued' = Append(issued, [principal |-> r.principal, created |-> now])
  BY DEF Insert
<1>8. /\ issued' \in Seq([principal : Owner, created : Int])
      /\ Len(issued') = Len(issued) + 1
  BY <1>2, <1>7, AppendProperties DEF TypeInv, TypeOK
<1>9. pc' = [pc EXCEPT ![t] = "release"] /\ pc[t] = "insert"
  BY DEF Insert, Answer, Goto
<1> HIDE DEF r
<1>10. /\ \A sid \in DOMAIN sessions' : sessions'[sid] \in Session
       /\ DOMAIN sessions' \subseteq Sid
  <2>1. /\ \A sid \in DOMAIN sessions : sessions[sid] \in Session
        /\ DOMAIN sessions \subseteq Sid
    BY DEF TypeInv, TypeOK
  <2>2. NewSid \in Sid
    BY <1>5 DEF Sid
  <2> QED
    BY <1>3, <1>6, <2>1, <2>2
<1>11. served' \in [restores : Nat, anonymizations : Nat]
  <2> DEFINE count == served.anonymizations + 1
  <2>1. count \in Nat /\ served \in [restores : Nat, anonymizations : Nat]
    BY DEF TypeInv, TypeOK
  <2>2. served' = [served EXCEPT !.anonymizations = count]
    BY DEF Insert
  <2> HIDE DEF count
  <2> QED
    BY <2>1, <2>2
<1>12. bytes' = bytes + Size[r.doc] /\ stats' = Recorded(r.doc)
  BY DEF Insert, r
<1>13. TypeOK'
  <2>1. UNCHANGED <<now, lock, req, calledAt, expired, snap, calls>>
        /\ reply' = [reply EXCEPT ![t] = "ok"]
    BY DEF Insert, Answer
  <2>2. bytes' \in Int /\ stats' \in Stats
    BY <1>4, <1>12 DEF TypeInv, TypeOK
  <2>3. pc' \in [Threads -> Steps] /\ reply' \in [Threads -> Replies]
    BY <1>9, <2>1 DEF TypeInv, TypeOK, Steps, Replies
  <2>4. QED
    BY <1>8, <1>10, <1>11, <2>1, <2>2, <2>3 DEF TypeInv, TypeOK
<1>14. FiniteInv'
  BY <1>6, FS_AddElement DEF TypeInv, FiniteInv, Insert
<1>15. SidInv'
  BY <1>5, <1>6, <1>8 DEF TypeInv, SidInv, NewSid
<1>16. RequestInv' /\ LockInv'
  BY <1>9 DEF TypeInv, TypeOK, RequestInv, LockInv, InLock, Insert
<1>17. QED
  BY <1>13, <1>14, <1>15, <1>16 DEF TypeInv

LEMMA TypeInvOther ==
    ASSUME TypeInv, NEW t \in Threads,
           Record(t) \/ Restore(t) \/ StatsSnapshot(t)
    PROVE  TypeInv'
<1>1. /\ pc' = [pc EXCEPT ![t] = "release"] /\ pc[t] = "body"
      /\ UNCHANGED <<now, lock, sessions, bytes, req, calledAt, expired,
                     issued, calls>>
  BY DEF Record, Restore, RestoreRefuse, RestoreServe, StatsSnapshot, At,
     Answer, Goto, contents, history
<1>2. stats' \in Stats
  <2>1. CASE Record(t)
    <3>1. req[t].doc \in Documents
      BY <2>1, RequestCases
         DEF Record, At, TypeInv, TypeOK, RecordRequest
    <3>2. QED
      BY <2>1, <3>1, RecordedType DEF Record, TypeInv, TypeOK
  <2>2. CASE Restore(t)
    <3> DEFINE good == stats.total_deanonymizations + 1
               bad == stats.failed_deanonymizations + 1
    <3>1. stats \in Stats /\ good \in Nat /\ bad \in Nat
      BY DEF TypeInv, TypeOK, Stats
    <3>2. \/ stats' = [stats EXCEPT !.total_deanonymizations = good]
          \/ stats' = [stats EXCEPT !.failed_deanonymizations = bad]
      BY <2>2 DEF Restore, RestoreRefuse, RestoreServe
    <3> HIDE DEF good, bad
    <3>3. QED
      BY <3>1, <3>2 DEF Stats
  <2>3. CASE StatsSnapshot(t)
    BY <2>3 DEF StatsSnapshot, contents, TypeInv, TypeOK
  <2>4. QED
    BY <2>1, <2>2, <2>3
<1>3. served' \in [restores : Nat, anonymizations : Nat]
  BY DEF Record, Restore, RestoreRefuse, RestoreServe, StatsSnapshot, TypeInv,
     TypeOK, history
<1>4. reply' \in [Threads -> Replies]
  BY RefusalType DEF Record, Restore, RestoreRefuse, RestoreServe,
     StatsSnapshot, Answer, TypeInv, TypeOK, Replies
<1>5. snap' \in [Threads -> Snapshot]
  <2>1. [stats |-> stats, active |-> Cardinality(DOMAIN sessions)] \in Snapshot
    BY FS_CardinalityType DEF TypeInv, TypeOK, FiniteInv, Snapshot
  <2>2. QED
    BY <2>1 DEF Record, Restore, RestoreRefuse, RestoreServe, StatsSnapshot,
       TypeInv, TypeOK
<1>6. TypeOK'
  BY <1>1, <1>2, <1>3, <1>4, <1>5 DEF TypeInv, TypeOK, Steps
<1>7. QED
  BY <1>1, <1>6 DEF TypeInv, TypeOK, FiniteInv, RequestInv, LockInv, InLock,
     SidInv

\* Nothing happens.
LEMMA TypeInvStutter == TypeInv /\ UNCHANGED vars => TypeInv'
BY DEF TypeInv, TypeOK, FiniteInv, RequestInv, LockInv, InLock, SidInv, vars

LEMMA TypeInvNext == TypeInv /\ [Next]_vars => TypeInv'
<1> SUFFICES ASSUME TypeInv, [Next]_vars PROVE TypeInv'
  OBVIOUS
<1>1. CASE Tick \/ StepBack
  BY <1>1, TypeInvClock
<1>2. CASE Quiescent \/ UNCHANGED vars
  BY <1>2, TypeInvStutter DEF Quiescent
<1>3. ASSUME NEW t \in Threads, Step(t) PROVE TypeInv'
  <2>1. CASE Call(t)
    BY <2>1, TypeInvCall
  <2>2. CASE Acquire(t) \/ Purge(t) \/ Release(t) \/ Return(t)
    BY <2>2, TypeInvLock
  <2>3. CASE Create(t)
    BY <2>3, TypeInvRefuse, TypeInvInsert DEF Create
  <2>4. CASE Record(t) \/ Restore(t) \/ StatsSnapshot(t)
    BY <2>4, TypeInvOther
  <2>5. QED
    BY <1>3, <2>1, <2>2, <2>3, <2>4 DEF Step, Locked
<1>4. QED
  BY <1>1, <1>2, <1>3 DEF Next

\* Every reachable state is well typed, one thread at most is inside the
\* vault, and identifiers are never reused.
THEOREM TypeInvariant == Spec => []TypeInv
<1>1. QED
  BY TypeInvInit, TypeInvNext, PTL DEF Spec

\* Type correctness of the vault.
THEOREM TypeCorrect == Spec => []TypeOK
<1>1. TypeInv => TypeOK
  BY DEF TypeInv
<1>2. QED
  BY TypeInvariant, <1>1, PTL

-----------------------------------------------------------------------------
(* Capacity.  It is not inductive by itself: an insertion keeps the limits *)
(* only because the checks made some steps before it still hold (RoomInv), *)
(* which they do because no other thread is inside the vault (LockInv),    *)
(* and the byte limit means something only if _bytes is the bytes in use   *)
(* (ByteLedger).                                                           *)

\* A thread at the insertion excludes every other thread inside the vault.
LEMMA OneInLock ==
    ASSUME TypeInv, NEW t \in Threads, NEW u \in Threads,
           InLock(t), InLock(u)
    PROVE  t = u
BY DEF TypeInv, LockInv

\* A step that leaves the sessions and the threads at the insertion alone.
LEMMA CapacityFrame ==
    ASSUME CapacityInv, TypeInv', sessions' = sessions, bytes' = bytes,
           \A u \in Threads : pc'[u] = "insert" =>
              pc[u] = "insert" /\ req'[u] = req[u]
    PROVE  CapacityInv'
<1>1. Capacity' /\ ByteLedger'
  BY DEF CapacityInv, Capacity, OwnedBy, ByteLedger, SessionSizes
<1>2. RoomInv'
  BY DEF CapacityInv, RoomInv, CreateRefusal, QuotaReached, VaultFull, OwnedBy
<1>3. QED
  BY <1>1, <1>2 DEF CapacityInv

\* Every step but the admission, the insertion and a pop is such a step.
LEMMA CapacityQuiet ==
    ASSUME CapacityInv, TypeInv', NEW t \in Threads,
           \/ Call(t) \/ Acquire(t) \/ PurgeList(t) \/ PurgeCount(t)
           \/ CreateRefuse(t) \/ Record(t) \/ Restore(t)
           \/ StatsSnapshot(t) \/ Release(t) \/ Return(t)
    PROVE  CapacityInv'
<1>1. sessions' = sessions /\ bytes' = bytes
  BY DEF Call, Acquire, PurgeList, PurgeCount, CreateRefuse, Record, Restore,
     RestoreRefuse, RestoreServe, StatsSnapshot, Release, Return, contents
<1>2. PICK step \in Steps \ {"insert"} : pc' = [pc EXCEPT ![t] = step]
  BY DEF Call, Acquire, PurgeList, PurgeCount, CreateRefuse, Record, Restore,
     RestoreRefuse, RestoreServe, StatsSnapshot, Release, Return, Answer,
     Goto, Steps
<1>3. \A u \in Threads \ {t} : req'[u] = req[u]
  BY DEF Call, Acquire, PurgeList, PurgeCount, CreateRefuse, Record, Restore,
     RestoreRefuse, RestoreServe, StatsSnapshot, Release, Return, CapacityInv,
     TypeInv, TypeOK
<1>4. \A u \in Threads : pc'[u] = "insert" =>
         pc[u] = "insert" /\ req'[u] = req[u]
  BY <1>2, <1>3 DEF CapacityInv, TypeInv, TypeOK
<1>5. QED
  BY <1>1, <1>4, CapacityFrame

LEMMA CapacityAdmit ==
    ASSUME CapacityInv, TypeInv', NEW t \in Threads, CreateAdmit(t)
    PROVE  CapacityInv'
<1>1. sessions' = sessions /\ bytes' = bytes /\ req' = req
  BY DEF CreateAdmit, contents
<1>2. pc' = [pc EXCEPT ![t] = "insert"] /\ CreateRefusal(req[t]) = "none"
  BY DEF CreateAdmit, Goto
<1>3. Capacity' /\ ByteLedger'
  BY <1>1 DEF CapacityInv, Capacity, OwnedBy, ByteLedger, SessionSizes
<1>4. RoomInv'
  <2>1. \A u \in Threads : CreateRefusal(req[u])' = CreateRefusal(req[u])
    BY <1>1 DEF CreateRefusal, QuotaReached, VaultFull, OwnedBy
  <2>2. \A u \in Threads : pc'[u] = "insert" => u = t \/ pc[u] = "insert"
    BY <1>2 DEF CapacityInv, TypeInv, TypeOK
  <2>3. QED
    BY <1>2, <2>1, <2>2 DEF CapacityInv, RoomInv
<1>5. QED
  BY <1>3, <1>4 DEF CapacityInv

\* The sizes of the live sessions, as a function with natural values.
LEMMA SessionSizesType ==
    ASSUME TypeInv
    PROVE  /\ DOMAIN SessionSizes = DOMAIN sessions
           /\ \A sid \in DOMAIN sessions :
                 /\ SessionSizes[sid] = sessions[sid].size
                 /\ SessionSizes[sid] \in Nat
           /\ IsFiniteSet(Slots(SessionSizes))
           /\ Total(SessionSizes) \in Nat
<1>1. /\ DOMAIN SessionSizes = DOMAIN sessions
      /\ \A sid \in DOMAIN sessions :
            SessionSizes[sid] = sessions[sid].size
  BY DEF SessionSizes
<1>2. \A sid \in DOMAIN sessions : sessions[sid].size \in Nat
  BY DEF TypeInv, TypeOK, Session
<1>3. IsFiniteSet(DOMAIN SessionSizes)
  BY <1>1 DEF TypeInv, FiniteInv
<1>4. QED
  BY <1>1, <1>2, <1>3, TotalType

LEMMA CapacityPop ==
    ASSUME CapacityInv, TypeInv', NEW t \in Threads, PurgePop(t)
    PROVE  CapacityInv'
<1>1. PICK sid \in DOMAIN sessions :
         /\ sessions' = Without(sessions, sid)
         /\ bytes' = bytes - sessions[sid].size
  BY DEF PurgePop
<1>2. pc' = pc /\ pc[t] = "purge"
  BY DEF PurgePop
<1>3. /\ DOMAIN sessions' = DOMAIN sessions \ {sid}
      /\ \A other \in DOMAIN sessions' : sessions'[other] = sessions[other]
  BY <1>1 DEF Without
<1>4. /\ IsFiniteSet(DOMAIN sessions)
      /\ sessions[sid].size \in Nat /\ bytes \in Int
  BY DEF CapacityInv, TypeInv, TypeOK, FiniteInv, Session
<1>5. ByteLedger'
  <2>1. SessionSizes' = Without(SessionSizes, sid)
    BY <1>3 DEF SessionSizes, Without
  <2>2. Total(SessionSizes') = Total(SessionSizes) - sessions[sid].size
    BY <2>1, SessionSizesType, TotalWithout DEF CapacityInv
  <2>3. QED
    BY <1>1, <2>2 DEF CapacityInv, ByteLedger
<1>6. Capacity'
  <2>1. /\ Cardinality(DOMAIN sessions') <= Cardinality(DOMAIN sessions)
        /\ Cardinality(DOMAIN sessions') \in Nat
        /\ Cardinality(DOMAIN sessions) \in Nat
    BY <1>3, <1>4, FS_Subset, FS_CardinalityType
  <2>2. ASSUME NEW p \in Owner
        PROVE  /\ Cardinality(OwnedBy(p)') <= Cardinality(OwnedBy(p))
               /\ Cardinality(OwnedBy(p)') \in Nat
               /\ Cardinality(OwnedBy(p)) \in Nat
    <3>1. OwnedBy(p)' \in SUBSET OwnedBy(p)
      BY <1>3 DEF OwnedBy
    <3>2. IsFiniteSet(OwnedBy(p))
      BY <1>4, FS_Subset DEF OwnedBy
    <3>3. QED
      BY <3>1, <3>2, FS_Subset, FS_CardinalityType
  <2>3. bytes' <= bytes
    BY <1>1, <1>4
  <2>4. QED
    BY <1>1, <1>4, <2>1, <2>2, <2>3, LimitsAssumption
       DEF CapacityInv, Capacity
<1>7. RoomInv'
  BY <1>2, OneInLock DEF CapacityInv, InLock, RoomInv
<1>8. QED
  BY <1>5, <1>6, <1>7 DEF CapacityInv

LEMMA CapacityInsert ==
    ASSUME CapacityInv, TypeInv', NEW t \in Threads, Insert(t)
    PROVE  CapacityInv'
<1> DEFINE r == req[t]
<1>1. r.principal \in Owner /\ r.doc \in Documents /\ Size[r.doc] \in Nat
  <2>1. r \in CreateRequest
    BY RequestCases DEF CapacityInv, TypeInv, TypeOK, RequestInv, Insert
  <2>2. QED
    BY <2>1, DocumentType DEF CreateRequest
<1>2. /\ Cardinality(OwnedBy(r.principal)) < MaxSessionsPerPrincipal
      /\ Cardinality(DOMAIN sessions) < MaxSessions
      /\ bytes + Size[r.doc] <= MaxBytes
  <2>1. CreateRefusal(r) = "none"
    BY DEF CapacityInv, RoomInv, Insert
  <2>2. ~QuotaReached(r.principal) /\ ~VaultFull(r.doc)
    BY <2>1 DEF CreateRefusal
  <2>3. IsFiniteSet(DOMAIN sessions) /\ bytes \in Int
    BY DEF CapacityInv, TypeInv, TypeOK, FiniteInv
  <2>4. /\ Cardinality(DOMAIN sessions) \in Nat
        /\ Cardinality(OwnedBy(r.principal)) \in Nat
    BY <2>3, FS_Subset, FS_CardinalityType DEF OwnedBy
  <2>5. QED
    BY <1>1, <2>2, <2>3, <2>4, LimitsAssumption DEF QuotaReached, VaultFull
<1>3. NewSid \notin DOMAIN sessions
  BY DEF NewSid, CapacityInv, TypeInv, TypeOK, SidInv
<1>4. /\ DOMAIN sessions' = DOMAIN sessions \cup {NewSid}
      /\ sessions'[NewSid] = NewSession(r)
      /\ \A sid \in DOMAIN sessions : sessions'[sid] = sessions[sid]
  BY <1>3 DEF Insert, With
<1>5. bytes' = bytes + Size[r.doc]
  BY DEF Insert
<1>6. IsFiniteSet(DOMAIN sessions) /\ bytes \in Int
  BY DEF CapacityInv, TypeInv, TypeOK, FiniteInv
<1>7. pc' = [pc EXCEPT ![t] = "release"] /\ pc[t] = "insert"
  BY DEF Insert, Answer, Goto
<1>8. ByteLedger'
  <2>1. SessionSizes' = With(SessionSizes, NewSid, Size[r.doc])
    BY <1>3, <1>4 DEF SessionSizes, With, NewSession
  <2>2. Total(SessionSizes') = Total(SessionSizes) + Size[r.doc]
    BY <1>1, <1>3, <2>1, SessionSizesType, TotalWith DEF CapacityInv
  <2>3. QED
    BY <1>5, <2>2 DEF CapacityInv, ByteLedger
<1> HIDE DEF r
<1>9. Cardinality(DOMAIN sessions') <= MaxSessions
  <2>1. Cardinality(DOMAIN sessions') = Cardinality(DOMAIN sessions) + 1
    BY <1>3, <1>4, <1>6, FS_AddElement
  <2>2. Cardinality(DOMAIN sessions) \in Nat
    BY <1>6, FS_CardinalityType
  <2>3. QED
    BY <1>2, <2>1, <2>2, LimitsAssumption
<1>10. ASSUME NEW p \in Owner
       PROVE  Cardinality(OwnedBy(p)') <= MaxSessionsPerPrincipal
  <2>1. IsFiniteSet(OwnedBy(p)) /\ NewSid \notin OwnedBy(p)
    BY <1>3, <1>6, FS_Subset DEF OwnedBy
  <2>2. CASE p = r.principal
    <3>1. OwnedBy(p)' = OwnedBy(p) \cup {NewSid}
      BY <1>3, <1>4, <2>2 DEF OwnedBy, NewSession
    <3>2. Cardinality(OwnedBy(p)') = Cardinality(OwnedBy(p)) + 1
      BY <2>1, <3>1, FS_AddElement
    <3>3. QED
      BY <1>2, <2>1, <2>2, <3>2, FS_CardinalityType, LimitsAssumption
  <2>3. CASE p # r.principal
    <3>1. OwnedBy(p)' = OwnedBy(p)
      BY <1>3, <1>4, <2>3 DEF OwnedBy, NewSession
    <3>2. QED
      BY <3>1 DEF CapacityInv, Capacity
  <2>4. QED
    BY <2>2, <2>3
<1>11. Capacity'
  BY <1>2, <1>5, <1>9, <1>10 DEF Capacity
<1>12. RoomInv'
  BY <1>7, OneInLock DEF CapacityInv, TypeInv, TypeOK, InLock, RoomInv
<1>13. QED
  BY <1>8, <1>11, <1>12 DEF CapacityInv

LEMMA CapacityInit == Init => CapacityInv
<1> SUFFICES ASSUME Init PROVE CapacityInv
  OBVIOUS
<1>1. DOMAIN sessions = {} /\ bytes = 0
  BY DEF Init
<1>2. Slots(SessionSizes) = {}
  BY <1>1 DEF Slots, SessionSizes
<1>3. ByteLedger
  BY <1>1, <1>2, FS_EmptySet DEF ByteLedger, Total
<1>4. \A p \in Owner : OwnedBy(p) = {}
  BY <1>1 DEF OwnedBy
<1>5. Capacity
  <2>1. Cardinality({}) = 0
    BY FS_EmptySet
  <2>2. Cardinality(DOMAIN sessions) = 0
    BY <1>1, <2>1
  <2>3. \A p \in Owner : Cardinality(OwnedBy(p)) = 0
    BY <1>4, <2>1
  <2>4. QED
    BY <1>1, <2>2, <2>3, LimitsAssumption DEF Capacity
<1>6. RoomInv
  BY DEF Init, RoomInv
<1>7. QED
  BY <1>3, <1>5, <1>6, TypeInvInit DEF CapacityInv

LEMMA CapacityNext == CapacityInv /\ [Next]_vars => CapacityInv'
<1> SUFFICES ASSUME CapacityInv, [Next]_vars PROVE CapacityInv'
  OBVIOUS
<1>1. TypeInv'
  BY TypeInvNext DEF CapacityInv
<1>2. CASE Tick \/ StepBack \/ Quiescent \/ UNCHANGED vars
  <2>1. sessions' = sessions /\ bytes' = bytes /\ pc' = pc /\ req' = req
    BY <1>2 DEF Tick, StepBack, Quiescent, vars, contents
  <2>2. QED
    BY <1>1, <2>1, CapacityFrame
<1>3. ASSUME NEW t \in Threads, Step(t) PROVE CapacityInv'
  <2>1. CASE PurgePop(t)
    BY <1>1, <2>1, CapacityPop
  <2>2. CASE CreateAdmit(t)
    BY <1>1, <2>2, CapacityAdmit
  <2>3. CASE Insert(t)
    BY <1>1, <2>3, CapacityInsert
  <2>4. QED
    BY <1>1, <1>3, <2>1, <2>2, <2>3, CapacityQuiet
       DEF Step, Locked, Purge, Create
<1>4. QED
  BY <1>2, <1>3 DEF Next

\* However many threads call the vault in whatever order, its limits on
\* sessions, sessions per principal and bytes hold at every instant.
THEOREM CapacityHolds == Spec => []Capacity
<1>1. CapacityInv => Capacity
  BY DEF CapacityInv
<1>2. QED
  BY CapacityInit, CapacityNext, <1>1, PTL DEF Spec

\* The byte counter of the vault never drifts from what its sessions hold.
THEOREM ByteLedgerHolds == Spec => []ByteLedger
<1>1. CapacityInv => ByteLedger
  BY DEF CapacityInv
<1>2. QED
  BY CapacityInit, CapacityNext, <1>1, PTL DEF Spec

-----------------------------------------------------------------------------
(* How long the lock is held.  This is the part of LockReleased that does  *)
(* not depend on fairness: a measure of what the holder has still to do.   *)

\* What the purge of t has still to pop, or may find to pop.
ToPop(t) ==
    CASE pc[t] = "list" -> DOMAIN sessions
      [] pc[t] = "purge" -> expired[t] \cap DOMAIN sessions
      [] OTHER -> {}

StepsAfterPurge(step) ==
    CASE step = "list" -> 5
      [] step = "purge" -> 4
      [] step = "body" -> 3
      [] step = "insert" -> 2
      [] step = "release" -> 1
      [] OTHER -> 0

\* A bound on the steps of t up to its release of the lock.
StepsToGo(t) == Cardinality(ToPop(t)) + StepsAfterPurge(pc[t])

\* Whoever holds the lock has no more to do than to purge a full vault, and
\* the rest of one method.
HolderBusy ==
    \A t \in Threads : lock = t => StepsToGo(t) \in 1..(MaxSessions + 5)

\* Each of its steps leaves it less, and nothing the others or the clock do
\* leaves it more or takes the lock from it.
HolderAdvances ==
    \A t \in Threads : lock = t =>
       IF Locked(t) THEN StepsToGo(t)' < StepsToGo(t)
                    ELSE lock' = t /\ StepsToGo(t)' = StepsToGo(t)

LEMMA ToPopType ==
    ASSUME TypeInv, NEW t \in Threads
    PROVE  /\ IsFiniteSet(ToPop(t)) /\ Cardinality(ToPop(t)) \in Nat
           /\ Cardinality(ToPop(t)) <= Cardinality(DOMAIN sessions)
           /\ Cardinality(DOMAIN sessions) \in Nat
           /\ StepsAfterPurge(pc[t]) \in 0..5
           /\ lock = t => StepsAfterPurge(pc[t]) \in 1..5
<1>1. IsFiniteSet(DOMAIN sessions) /\ ToPop(t) \in SUBSET DOMAIN sessions
  BY DEF TypeInv, FiniteInv, ToPop
<1>2. StepsAfterPurge(pc[t]) \in 0..5
  BY DEF StepsAfterPurge
<1>3. lock = t => StepsAfterPurge(pc[t]) \in 1..5
  BY DEF StepsAfterPurge, TypeInv, LockInv, InLock
<1>4. QED
  BY <1>1, <1>2, <1>3, FS_Subset, FS_CardinalityType

\* Listing the expired sessions, popping one and counting them.
LEMMA PurgeAdvances ==
    ASSUME TypeInv, TypeInv', NEW t \in Threads, lock = t, Purge(t)
    PROVE  StepsToGo(t)' < StepsToGo(t)
<1>1. /\ Cardinality(ToPop(t)) \in Nat /\ IsFiniteSet(ToPop(t))
      /\ Cardinality(ToPop(t)') \in Nat
  <2>1. /\ IsFiniteSet(DOMAIN sessions')
        /\ ToPop(t)' \in SUBSET DOMAIN sessions'
    BY DEF TypeInv, FiniteInv, ToPop
  <2>2. Cardinality(ToPop(t)') \in Nat
    BY <2>1, FS_Subset, FS_CardinalityType
  <2>3. QED
    BY <2>2, ToPopType
<1>2. CASE PurgeList(t)
  <2>1. /\ pc[t] = "list" /\ pc'[t] = "purge" /\ sessions' = sessions
    BY <1>2 DEF PurgeList, Goto, TypeInv, TypeOK, contents
  <2>2. ToPop(t)' \in SUBSET ToPop(t)
    BY <2>1 DEF ToPop
  <2>3. Cardinality(ToPop(t)') <= Cardinality(ToPop(t))
    BY <1>1, <2>2, FS_Subset
  <2>4. StepsAfterPurge(pc[t]) = 5 /\ StepsAfterPurge(pc'[t]) = 4
    BY <2>1 DEF StepsAfterPurge
  <2>5. QED
    BY <1>1, <2>3, <2>4 DEF StepsToGo
<1>3. CASE PurgePop(t)
  <2>1. PICK sid \in expired[t] \cap DOMAIN sessions :
           sessions' = Without(sessions, sid)
    BY <1>3 DEF PurgePop
  <2>2. pc[t] = "purge" /\ pc' = pc /\ expired' = expired
    BY <1>3 DEF PurgePop
  <2>3. sid \in ToPop(t) /\ ToPop(t)' = ToPop(t) \ {sid}
    BY <2>1, <2>2 DEF ToPop, Without
  <2>4. Cardinality(ToPop(t)') = Cardinality(ToPop(t)) - 1
    BY <1>1, <2>3, FS_RemoveElement
  <2>5. StepsAfterPurge(pc[t]) = 4 /\ StepsAfterPurge(pc'[t]) = 4
    BY <2>2 DEF StepsAfterPurge
  <2>6. QED
    BY <1>1, <2>4, <2>5 DEF StepsToGo
<1>4. CASE PurgeCount(t)
  <2>1. pc[t] = "purge" /\ pc'[t] = "body"
    BY <1>4 DEF PurgeCount, Goto, TypeInv, TypeOK
  <2>2. ToPop(t)' = {} /\ Cardinality(ToPop(t)') = 0
    BY <2>1, FS_EmptySet DEF ToPop
  <2>3. StepsAfterPurge(pc[t]) = 4 /\ StepsAfterPurge(pc'[t]) = 3
    BY <2>1 DEF StepsAfterPurge
  <2>4. QED
    BY <1>1, <2>2, <2>3 DEF StepsToGo
<1>5. QED
  BY <1>2, <1>3, <1>4 DEF Purge

\* The body of a method, the insertion and the release.
LEMMA BodyAdvances ==
    ASSUME TypeInv, NEW t \in Threads, lock = t,
           Create(t) \/ Record(t) \/ Restore(t) \/ StatsSnapshot(t)
             \/ Release(t)
    PROVE  StepsToGo(t)' < StepsToGo(t)
<1>1. \/ pc[t] = "body" /\ pc'[t] \in {"insert", "release"}
      \/ pc[t] = "insert" /\ pc'[t] = "release"
      \/ pc[t] = "release" /\ pc'[t] = "return"
  BY DEF Create, CreateRefuse, CreateAdmit, Insert, Record, Restore,
     RestoreRefuse, RestoreServe, StatsSnapshot, Release, At, Answer, Goto,
     TypeInv, TypeOK
<1>2. ToPop(t) = {} /\ ToPop(t)' = {} /\ Cardinality({}) = 0
  BY <1>1, FS_EmptySet DEF ToPop
<1>3. StepsAfterPurge(pc'[t]) < StepsAfterPurge(pc[t])
      /\ StepsAfterPurge(pc'[t]) \in Nat /\ StepsAfterPurge(pc[t]) \in Nat
  BY <1>1 DEF StepsAfterPurge
<1>4. QED
  BY <1>2, <1>3 DEF StepsToGo

\* A step that is not the holder's leaves it where it is.
LEMMA OthersLeaveHolder ==
    ASSUME TypeInv, [Next]_vars, NEW t \in Threads, lock = t, ~Locked(t)
    PROVE  lock' = t /\ StepsToGo(t)' = StepsToGo(t)
<1>1. UNCHANGED <<lock, sessions, expired>> /\ pc'[t] = pc[t]
  <2>1. CASE Tick \/ StepBack \/ Quiescent \/ UNCHANGED vars
    BY <2>1 DEF Tick, StepBack, Quiescent, vars, contents
  <2>2. ASSUME NEW u \in Threads, Step(u)
        PROVE  UNCHANGED <<lock, sessions, expired>> /\ pc'[t] = pc[t]
    <3>1. InLock(t) /\ t # NoThread
      BY ThreadsAssumption DEF TypeInv, LockInv
    <3>2. ~Acquire(u)
      BY <3>1 DEF Acquire, LockFree
    <3>3. Locked(u) => InLock(u)
      BY DEF Locked, Purge, PurgeList, PurgePop, PurgeCount, Create,
         CreateRefuse, CreateAdmit, Insert, Record, Restore, RestoreRefuse,
         RestoreServe, StatsSnapshot, Release, At, InLock
    <3>4. ~Locked(u)
      BY <3>1, <3>3, OneInLock
    <3>5. Call(u) \/ Return(u)
      BY <2>2, <3>2, <3>4 DEF Step
    <3>6. u # t
      BY <3>1, <3>5 DEF Call, Return, InLock
    <3>7. QED
      BY <3>5, <3>6 DEF Call, Return, Goto, contents, TypeInv, TypeOK
  <2>3. QED
    BY <2>1, <2>2 DEF Next
<1>2. ToPop(t)' = ToPop(t) /\ StepsAfterPurge(pc'[t]) = StepsAfterPurge(pc[t])
  BY <1>1 DEF ToPop, StepsAfterPurge
<1>3. QED
  BY <1>1, <1>2 DEF StepsToGo

\* However many threads call and whatever the clock does, a call has the lock
\* for at most max_sessions + 5 of its own steps.
THEOREM LockHeldBriefly == Spec => []HolderBusy /\ [][HolderAdvances]_vars
<1>1. CapacityInv => HolderBusy
  <2> SUFFICES ASSUME CapacityInv, NEW t \in Threads, lock = t
               PROVE  StepsToGo(t) \in 1..(MaxSessions + 5)
    BY DEF HolderBusy
  <2>1. Cardinality(DOMAIN sessions) <= MaxSessions /\ TypeInv
    BY DEF CapacityInv, Capacity
  <2>2. QED
    BY <2>1, ToPopType, LimitsAssumption DEF StepsToGo
<1>2. TypeInv /\ [Next]_vars => HolderAdvances
  <2> SUFFICES ASSUME TypeInv, [Next]_vars, NEW t \in Threads, lock = t
               PROVE  IF Locked(t) THEN StepsToGo(t)' < StepsToGo(t)
                      ELSE lock' = t /\ StepsToGo(t)' = StepsToGo(t)
    BY DEF HolderAdvances
  <2>1. TypeInv'
    BY TypeInvNext
  <2>2. CASE Locked(t)
    BY <2>1, <2>2, PurgeAdvances, BodyAdvances DEF Locked
  <2>3. CASE ~Locked(t)
    BY <2>3, OthersLeaveHolder
  <2>4. QED
    BY <2>2, <2>3
<1>3. CapacityInv => TypeInv
  BY DEF CapacityInv
<1>4. QED
  BY <1>1, <1>2, <1>3, CapacityInit, CapacityNext, PTL DEF Spec

-----------------------------------------------------------------------------
(* Conservation.  Inside a purge the sessions popped so far are in neither *)
(* count; they are still on the list of the thread that pops them.  What   *)
(* is inductive is that live or listed, plus counted, is every session.    *)

Listed == UNION {expired[t] : t \in {u \in Threads : pc[u] = "purge"}}

Accounted == DOMAIN sessions \cup Listed

ConservedInv ==
    /\ IsFiniteSet(Accounted)
    /\ Len(issued) = Cardinality(Accounted) + stats.expired_sessions

\* The list of the thread inside the vault, if it is in its purge.
LEMMA ListedInside ==
    ASSUME TypeInv, NEW t \in Threads, InLock(t)
    PROVE  Listed = IF pc[t] = "purge" THEN expired[t] ELSE {}
<1>1. \A u \in Threads : pc[u] = "purge" => u = t
  BY OneInLock DEF InLock
<1>2. QED
  BY <1>1 DEF Listed

LEMMA ListedFree ==
    ASSUME TypeInv, lock = NoThread
    PROVE  Listed = {}
BY DEF Listed, TypeInv, LockInv, InLock

\* A step that touches neither the sessions nor a thread in its purge.
LEMMA ConservedFrame ==
    ASSUME ConservedInv, UNCHANGED <<sessions, issued, expired>>,
           stats'.expired_sessions = stats.expired_sessions,
           \A u \in Threads : pc'[u] = "purge" <=> pc[u] = "purge"
    PROVE  ConservedInv'
<1>1. {u \in Threads : pc'[u] = "purge"} = {u \in Threads : pc[u] = "purge"}
  OBVIOUS
<1>2. Listed' = Listed
  BY <1>1 DEF Listed
<1>3. QED
  BY <1>2 DEF ConservedInv, Accounted

LEMMA ConservedQuiet ==
    ASSUME TypeInv, ConservedInv, NEW t \in Threads,
           \/ Call(t) \/ Acquire(t) \/ CreateRefuse(t) \/ CreateAdmit(t)
           \/ Record(t) \/ Restore(t) \/ StatsSnapshot(t) \/ Release(t)
           \/ Return(t)
    PROVE  ConservedInv'
<1>1. UNCHANGED <<sessions, issued, expired>>
  BY DEF Call, Acquire, CreateRefuse, CreateAdmit, Record, Restore,
     RestoreRefuse, RestoreServe, StatsSnapshot, Release, Return, contents,
     history
<1>2. pc[t] # "purge"
  BY DEF Call, Acquire, CreateRefuse, CreateAdmit, Record, Restore,
     RestoreRefuse, RestoreServe, StatsSnapshot, Release, Return, At
<1>3. PICK step \in Steps \ {"purge"} : pc' = [pc EXCEPT ![t] = step]
  BY DEF Call, Acquire, CreateRefuse, CreateAdmit, Record, Restore,
     RestoreRefuse, RestoreServe, StatsSnapshot, Release, Return, Answer,
     Goto, Steps
<1>4. stats'.expired_sessions = stats.expired_sessions
  <2>1. stats \in Stats
    BY DEF TypeInv, TypeOK
  <2>2. CASE Record(t)
    BY <2>1, <2>2 DEF Record, Recorded, Stats
  <2>3. CASE Restore(t)
    BY <2>1, <2>3 DEF Restore, RestoreRefuse, RestoreServe, Stats
  <2>4. QED
    BY <2>2, <2>3 DEF Call, Acquire, CreateRefuse, CreateAdmit,
       StatsSnapshot, Release, Return, contents
<1>5. \A u \in Threads : pc'[u] = "purge" <=> pc[u] = "purge"
  BY <1>2, <1>3 DEF TypeInv, TypeOK
<1>6. QED
  BY <1>1, <1>4, <1>5, ConservedFrame

LEMMA ConservedPurge ==
    ASSUME TypeInv, TypeInv', ConservedInv, NEW t \in Threads, Purge(t)
    PROVE  ConservedInv'
<1>1. /\ InLock(t)
      /\ Listed = IF pc[t] = "purge" THEN expired[t] ELSE {}
  BY ListedInside DEF Purge, PurgeList, PurgePop, PurgeCount, InLock
<1>2. pc'[t] \in {"purge", "body"}
  BY DEF Purge, PurgeList, PurgePop, PurgeCount, Goto, TypeInv, TypeOK
<1>3. Listed' = IF pc'[t] = "purge" THEN expired'[t] ELSE {}
  <2>1. \A u \in Threads : pc'[u] = "purge" => u = t
    BY <1>2 DEF TypeInv, LockInv, InLock
  <2>2. QED
    BY <2>1 DEF Listed
<1>4. issued' = issued
  BY DEF Purge, PurgeList, PurgePop, PurgeCount, history
<1>5. CASE PurgeList(t)
  <2>1. /\ pc[t] = "list" /\ pc'[t] = "purge"
        /\ expired'[t] \subseteq DOMAIN sessions
        /\ sessions' = sessions /\ stats' = stats
    BY <1>5 DEF PurgeList, Goto, TypeInv, TypeOK, contents
  <2>2. Accounted' = Accounted
    BY <1>1, <1>3, <2>1 DEF Accounted
  <2>3. QED
    BY <1>4, <2>1, <2>2 DEF ConservedInv
<1>6. CASE PurgePop(t)
  <2>1. PICK sid \in expired[t] \cap DOMAIN sessions :
           sessions' = Without(sessions, sid)
    BY <1>6 DEF PurgePop
  <2>2. /\ pc[t] = "purge" /\ pc' = pc /\ expired' = expired
        /\ stats' = stats
    BY <1>6 DEF PurgePop
  <2>3. DOMAIN sessions' = DOMAIN sessions \ {sid}
    BY <2>1 DEF Without
  <2>4. Accounted' = Accounted
    BY <1>1, <1>3, <2>1, <2>2, <2>3 DEF Accounted
  <2>5. QED
    BY <1>4, <2>2, <2>4 DEF ConservedInv
<1>7. CASE PurgeCount(t)
  <2>1. /\ pc[t] = "purge" /\ pc'[t] = "body"
        /\ expired[t] \cap DOMAIN sessions = {}
        /\ sessions' = sessions
    BY <1>7 DEF PurgeCount, Goto, TypeInv, TypeOK
  <2>2. stats'.expired_sessions =
           stats.expired_sessions + Cardinality(expired[t])
    BY <1>7 DEF PurgeCount, TypeInv, TypeOK, Stats
  <2>3. IsFiniteSet(DOMAIN sessions) /\ IsFiniteSet(expired[t])
    BY DEF TypeInv, FiniteInv
  <2>4. Cardinality(DOMAIN sessions \cup expired[t]) =
           Cardinality(DOMAIN sessions) + Cardinality(expired[t])
    <3>1. DOMAIN sessions \cap expired[t] = {}
      BY <2>1
    <3>2. Cardinality(DOMAIN sessions \cup expired[t]) =
             Cardinality(DOMAIN sessions) + Cardinality(expired[t])
               - Cardinality(DOMAIN sessions \cap expired[t])
      BY <2>3, FS_Union
    <3>3. Cardinality(DOMAIN sessions \cap expired[t]) = 0
      BY <3>1, FS_EmptySet
    <3>4. /\ Cardinality(DOMAIN sessions) \in Nat
          /\ Cardinality(expired[t]) \in Nat
      BY <2>3, FS_CardinalityType
    <3>5. QED
      BY <3>2, <3>3, <3>4
  <2>5. /\ Accounted = DOMAIN sessions \cup expired[t]
        /\ Accounted' = DOMAIN sessions
    BY <1>1, <1>3, <2>1 DEF Accounted
  <2>6. /\ Cardinality(DOMAIN sessions) \in Nat
        /\ Cardinality(expired[t]) \in Nat
        /\ stats.expired_sessions \in Nat
    BY <2>3, FS_CardinalityType DEF TypeInv, TypeOK, Stats
  <2>7. QED
    BY <1>4, <2>2, <2>3, <2>4, <2>5, <2>6 DEF ConservedInv
<1>8. QED
  BY <1>5, <1>6, <1>7 DEF Purge

LEMMA ConservedInsert ==
    ASSUME TypeInv, ConservedInv, NEW t \in Threads, Insert(t)
    PROVE  ConservedInv'
<1>1. Listed = {}
  BY ListedInside DEF Insert, InLock
<1>2. Listed' = {}
  <2>1. \A u \in Threads : pc[u] # "purge"
    BY OneInLock DEF Insert, InLock
  <2>2. \A u \in Threads : pc'[u] # "purge"
    BY <2>1 DEF Insert, Answer, Goto, TypeInv, TypeOK
  <2>3. QED
    BY <2>2 DEF Listed
<1>3. NewSid \notin DOMAIN sessions /\ Len(issued) \in Nat
  BY DEF NewSid, TypeInv, TypeOK, SidInv
<1>4. DOMAIN sessions' = DOMAIN sessions \cup {NewSid}
  BY DEF Insert, With
<1>5. Len(issued') = Len(issued) + 1
  BY DEF Insert, TypeInv, TypeOK
<1>6. stats'.expired_sessions = stats.expired_sessions
  BY DEF Insert, Recorded, TypeInv, TypeOK, Stats
<1>7. IsFiniteSet(DOMAIN sessions)
  BY DEF TypeInv, FiniteInv
<1>8. /\ IsFiniteSet(DOMAIN sessions \cup {NewSid})
      /\ Cardinality(DOMAIN sessions \cup {NewSid}) =
            Cardinality(DOMAIN sessions) + 1
  BY <1>3, <1>7, FS_AddElement
<1>9. Accounted = DOMAIN sessions /\ Accounted' = DOMAIN sessions \cup {NewSid}
  BY <1>1, <1>2, <1>4 DEF Accounted
<1>10. Cardinality(DOMAIN sessions) \in Nat /\ stats.expired_sessions \in Nat
  BY <1>7, FS_CardinalityType DEF TypeInv, TypeOK, Stats
<1>11. QED
  BY <1>3, <1>5, <1>6, <1>8, <1>9, <1>10 DEF ConservedInv

LEMMA ConservedNext ==
    TypeInv /\ ConservedInv /\ [Next]_vars => ConservedInv'
<1> SUFFICES ASSUME TypeInv, ConservedInv, [Next]_vars PROVE ConservedInv'
  OBVIOUS
<1>1. TypeInv'
  BY TypeInvNext
<1>2. CASE Tick \/ StepBack \/ Quiescent \/ UNCHANGED vars
  <2>1. UNCHANGED <<sessions, issued, expired, stats, pc>>
    BY <1>2 DEF Tick, StepBack, Quiescent, vars, contents, history
  <2>2. QED
    BY <2>1, ConservedFrame
<1>3. ASSUME NEW t \in Threads, Step(t) PROVE ConservedInv'
  <2>1. CASE Purge(t)
    BY <1>1, <2>1, ConservedPurge
  <2>2. CASE Insert(t)
    BY <2>2, ConservedInsert
  <2>3. QED
    BY <1>3, <2>1, <2>2, ConservedQuiet DEF Step, Locked, Create
<1>4. QED
  BY <1>2, <1>3 DEF Next

LEMMA ConservedInit == Init => ConservedInv
<1> SUFFICES ASSUME Init PROVE ConservedInv
  OBVIOUS
<1>1. Accounted = {} /\ issued = <<>> /\ stats.expired_sessions = 0
  BY DEF Init, Accounted, Listed, NoStats
<1>2. Cardinality({}) = 0 /\ IsFiniteSet({})
  BY FS_EmptySet
<1>3. Len(issued) = 0
  BY <1>1
<1>4. QED
  BY <1>1, <1>2, <1>3 DEF ConservedInv

\* No session is lost and none is counted by two purges: with no call inside
\* the vault, the sessions ever created are the live and the expired ones.
THEOREM ConservationHolds == Spec => []Conservation
<1>1. TypeInv /\ ConservedInv => Conservation
  BY ListedFree DEF ConservedInv, Accounted, Conservation
<1>2. TypeInv /\ ConservedInv /\ [Next]_vars => (TypeInv /\ ConservedInv)'
  BY TypeInvNext, ConservedNext
<1>3. QED
  BY <1>1, <1>2, TypeInvInit, ConservedInit, PTL DEF Spec

-----------------------------------------------------------------------------
\* Every answer to a restore and every anonymization is counted once.
CountInv ==
    /\ served.restores = stats.total_deanonymizations
                           + stats.failed_deanonymizations
    /\ served.anonymizations = stats.total_anonymizations

LEMMA CountNext == TypeInv /\ CountInv /\ [Next]_vars => CountInv'
<1> SUFFICES ASSUME TypeInv, CountInv, [Next]_vars PROVE CountInv'
  OBVIOUS
<1>1. /\ stats \in Stats
      /\ served \in [restores : Nat, anonymizations : Nat]
  BY DEF TypeInv, TypeOK
<1>2. CASE UNCHANGED <<stats, served>>
  BY <1>2 DEF CountInv
<1>3. ASSUME NEW t \in Threads, PurgeCount(t) PROVE CountInv'
  BY <1>1, <1>3 DEF PurgeCount, CountInv, Stats, history
<1>4. ASSUME NEW t \in Threads, Insert(t) \/ Record(t) PROVE CountInv'
  BY <1>1, <1>4 DEF Insert, Record, Recorded, CountInv, Stats
<1>5. ASSUME NEW t \in Threads, Restore(t) PROVE CountInv'
  BY <1>1, <1>5 DEF Restore, RestoreRefuse, RestoreServe, CountInv, Stats
<1>6. ASSUME NEW t \in Threads,
             \/ Call(t) \/ Acquire(t) \/ PurgeList(t) \/ PurgePop(t)
             \/ CreateRefuse(t) \/ CreateAdmit(t) \/ StatsSnapshot(t)
             \/ Release(t) \/ Return(t)
      PROVE  UNCHANGED <<stats, served>>
  BY <1>6 DEF Call, Acquire, PurgeList, PurgePop, CreateRefuse, CreateAdmit,
     StatsSnapshot, Release, Return, contents, history
<1>7. CASE Tick \/ StepBack \/ Quiescent \/ UNCHANGED vars
  BY <1>2, <1>7 DEF Tick, StepBack, Quiescent, vars, contents, history
<1>8. QED
  BY <1>2, <1>3, <1>4, <1>5, <1>6, <1>7
     DEF Next, Step, Locked, Purge, Create

\* Whichever check answers a restore, exactly one of its two counters moves.
THEOREM OutcomesCountedHolds == Spec => []OutcomesCounted
<1>1. Init => CountInv
  BY DEF Init, CountInv, NoStats
<1>2. TypeInv /\ CountInv /\ [Next]_vars => (TypeInv /\ CountInv)'
  BY TypeInvNext, CountNext
<1>3. TypeInv /\ CountInv => OutcomesCounted
  BY DEF CountInv, OutcomesCounted
<1>4. QED
  BY <1>1, <1>2, <1>3, TypeInvInit, PTL DEF Spec

-----------------------------------------------------------------------------
(* Snapshots.  At every instant the counts by type add up and there are at *)
(* least as many anonymizations as sessions; a snapshot is taken after the *)
(* purge, when live and expired sessions are all there ever were.          *)

SnapshotOK(t) ==
    Holding(t) /\ req[t].op = "stats" =>
       /\ Total(snap[t].stats.entities_by_type) =
             snap[t].stats.total_pii_entities
       /\ snap[t].active + snap[t].stats.expired_sessions
             <= snap[t].stats.total_anonymizations

TallyInv ==
    /\ Total(stats.entities_by_type) = stats.total_pii_entities
    /\ Len(issued) <= stats.total_anonymizations

LEMMA RecordedTally ==
    ASSUME TypeInv, NEW d \in Documents,
           Total(stats.entities_by_type) = stats.total_pii_entities
    PROVE  /\ Total(Recorded(d).entities_by_type) =
                 Recorded(d).total_pii_entities
           /\ Recorded(d).total_anonymizations =
                 stats.total_anonymizations + 1
<1> DEFINE f == stats.entities_by_type
           g == Entities[d]
<1>1. stats \in Stats
  BY DEF TypeInv, TypeOK
<1>2. f \in [Types -> Nat] /\ g \in [Types -> Nat] /\ IsFiniteSet(Types)
  BY <1>1, DocumentType, DocumentsAssumption DEF Stats
<1>3. /\ Recorded(d).entities_by_type = [ty \in Types |-> f[ty] + g[ty]]
      /\ Recorded(d).total_pii_entities = stats.total_pii_entities + Total(g)
      /\ Recorded(d).total_anonymizations = stats.total_anonymizations + 1
  BY <1>1 DEF Recorded, Stats
<1> HIDE DEF f, g
<1>4. Total([ty \in Types |-> f[ty] + g[ty]]) = Total(f) + Total(g)
  BY <1>2, TotalSum
<1>5. QED
  BY <1>3, <1>4 DEF f

LEMMA TallyNext == TypeInv /\ TallyInv /\ [Next]_vars => TallyInv'
<1> SUFFICES ASSUME TypeInv, TallyInv, [Next]_vars PROVE TallyInv'
  OBVIOUS
<1>1. /\ stats \in Stats
      /\ stats.total_anonymizations \in Nat /\ Len(issued) \in Nat
  BY DEF TypeInv, TypeOK, Stats
<1>2. CASE UNCHANGED <<stats, issued>>
  BY <1>2 DEF TallyInv
<1>3. ASSUME NEW t \in Threads, PurgeCount(t) PROVE TallyInv'
  <2>1. /\ stats'.entities_by_type = stats.entities_by_type
        /\ stats'.total_pii_entities = stats.total_pii_entities
        /\ stats'.total_anonymizations = stats.total_anonymizations
        /\ issued' = issued
    BY <1>1, <1>3 DEF PurgeCount, Stats, history
  <2>2. QED
    BY <2>1 DEF TallyInv
<1>4. ASSUME NEW t \in Threads, Restore(t) PROVE TallyInv'
  <2>1. /\ stats'.entities_by_type = stats.entities_by_type
        /\ stats'.total_pii_entities = stats.total_pii_entities
        /\ stats'.total_anonymizations = stats.total_anonymizations
        /\ issued' = issued
    BY <1>1, <1>4 DEF Restore, RestoreRefuse, RestoreServe, Stats
  <2>2. QED
    BY <2>1 DEF TallyInv
<1>5. ASSUME NEW t \in Threads, Insert(t) \/ Record(t) PROVE TallyInv'
  <2>1. req[t].op \in {"create", "record"}
    BY <1>5 DEF Insert, Record, At, TypeInv, RequestInv
  <2>2. req[t].doc \in Documents
    BY <2>1, RequestCases
       DEF TypeInv, TypeOK, CreateRequest, RecordRequest
  <2>3. stats' = Recorded(req[t].doc) /\ Len(issued') <= Len(issued) + 1
    BY <1>1, <1>5 DEF Insert, Record, TypeInv, TypeOK
  <2>4. /\ Total(stats'.entities_by_type) = stats'.total_pii_entities
        /\ stats'.total_anonymizations = stats.total_anonymizations + 1
    BY <2>2, <2>3, RecordedTally DEF TallyInv
  <2>5. Len(issued') \in Nat
    BY <1>5, <1>1 DEF Insert, Record, TypeInv, TypeOK
  <2>6. QED
    BY <1>1, <2>3, <2>4, <2>5 DEF TallyInv
<1>6. ASSUME NEW t \in Threads,
             \/ Call(t) \/ Acquire(t) \/ PurgeList(t) \/ PurgePop(t)
             \/ CreateRefuse(t) \/ CreateAdmit(t) \/ StatsSnapshot(t)
             \/ Release(t) \/ Return(t)
      PROVE  UNCHANGED <<stats, issued>>
  BY <1>6 DEF Call, Acquire, PurgeList, PurgePop, CreateRefuse, CreateAdmit,
     StatsSnapshot, Release, Return, contents, history
<1>7. CASE Tick \/ StepBack \/ Quiescent \/ UNCHANGED vars
  BY <1>2, <1>7 DEF Tick, StepBack, Quiescent, vars, contents, history
<1>8. QED
  BY <1>2, <1>3, <1>4, <1>5, <1>6, <1>7
     DEF Next, Step, Locked, Purge, Create

LEMMA SnapshotTaken ==
    ASSUME TypeInv, ConservedInv, TallyInv, NEW t \in Threads,
           StatsSnapshot(t)
    PROVE  SnapshotOK(t)'
<1>1. snap'[t] = [stats |-> stats, active |-> Cardinality(DOMAIN sessions)]
  BY DEF StatsSnapshot, TypeInv, TypeOK
<1>2. Accounted = DOMAIN sessions
  BY ListedInside DEF StatsSnapshot, At, InLock, Accounted
<1>3. Len(issued) = Cardinality(DOMAIN sessions) + stats.expired_sessions
  BY <1>2 DEF ConservedInv
<1>4. QED
  BY <1>1, <1>3 DEF SnapshotOK, TallyInv

LEMMA SnapshotNext ==
    ASSUME TypeInv, ConservedInv, TallyInv,
           \A t \in Threads : SnapshotOK(t), [Next]_vars
    PROVE  \A t \in Threads : SnapshotOK(t)'
<1> SUFFICES ASSUME NEW u \in Threads PROVE SnapshotOK(u)'
  OBVIOUS
<1>1. ASSUME UNCHANGED <<snap[u], req[u]>>, Holding(u)' => Holding(u)
      PROVE  SnapshotOK(u)'
  BY <1>1 DEF SnapshotOK
<1>2. CASE Tick \/ StepBack \/ Quiescent \/ UNCHANGED vars
  BY <1>1, <1>2 DEF Tick, StepBack, Quiescent, vars, Holding
<1>3. ASSUME NEW t \in Threads, Step(t) PROVE SnapshotOK(u)'
  <2>1. CASE u # t
    <3>1. UNCHANGED <<snap[u], req[u]>> /\ pc'[u] = pc[u]
      BY <1>3, <2>1 DEF Step, Locked, Purge, Create, Call, Acquire,
         PurgeList, PurgePop, PurgeCount, CreateRefuse, CreateAdmit, Insert,
         Record, Restore, RestoreRefuse, RestoreServe, StatsSnapshot,
         Release, Return, Answer, Goto, TypeInv, TypeOK
    <3>2. QED
      BY <1>1, <3>1 DEF Holding
  <2>2. CASE u = t /\ StatsSnapshot(t)
    BY <2>2, SnapshotTaken
  <2>3. CASE u = t /\ Release(t)
    BY <1>1, <2>3 DEF Release, Holding
  <2>4. CASE u = t /\ (Insert(t) \/ CreateRefuse(t) \/ Record(t)
                         \/ Restore(t))
    BY <2>4 DEF Insert, CreateRefuse, Record, Restore, RestoreRefuse,
       RestoreServe, At, SnapshotOK, TypeInv, RequestInv
  <2>5. CASE u = t /\ (Call(t) \/ Acquire(t) \/ Purge(t) \/ CreateAdmit(t)
                         \/ Return(t))
    <3>1. ~Holding(u)'
      BY <2>5 DEF Call, Acquire, Purge, PurgeList, PurgePop, PurgeCount,
         CreateAdmit, Return, Goto, Holding, TypeInv, TypeOK
    <3>2. QED
      BY <3>1 DEF SnapshotOK
  <2>6. QED
    BY <1>3, <2>1, <2>2, <2>3, <2>4, <2>5 DEF Step, Locked, Create
<1>4. QED
  BY <1>2, <1>3 DEF Next

\* The statistics a caller reads after the lock is released are those of one
\* instant, whatever is counted meanwhile.
THEOREM SnapshotConsistentHolds == Spec => []SnapshotConsistent
<1> DEFINE Inv == /\ TypeInv /\ ConservedInv /\ TallyInv
                  /\ \A t \in Threads : SnapshotOK(t)
<1>1. Init => Inv
  <2> SUFFICES ASSUME Init PROVE Inv
    OBVIOUS
  <2>1. \A ty \in Types : NoStats.entities_by_type[ty] = 0
    BY DEF NoStats
  <2>2. Slots(NoStats.entities_by_type) = {}
    BY DEF NoStats, Slots
  <2>3. Total(NoStats.entities_by_type) = 0
    BY <2>2, FS_EmptySet DEF Total
  <2>4. TallyInv
    BY <2>3 DEF Init, TallyInv, NoStats
  <2>5. \A t \in Threads : SnapshotOK(t)
    BY DEF Init, SnapshotOK, Holding
  <2>6. QED
    BY <2>4, <2>5, TypeInvInit, ConservedInit
<1>2. Inv /\ [Next]_vars => Inv'
  BY TypeInvNext, ConservedNext, TallyNext, SnapshotNext
<1>3. Inv => SnapshotConsistent
  BY DEF SnapshotOK, SnapshotConsistent, Delivered
<1>4. QED
  BY <1>1, <1>2, <1>3, PTL DEF Spec

-----------------------------------------------------------------------------
(* From here on, the time to live: what the vault purges, what it          *)
(* restores, what it refuses, and that it implements the store of          *)
(* SessionStore.  The theorems need a clock that is not set back.          *)

\* The session was within its time to live when t's call was made.
YoungFor(t, sid) == calledAt[t] - sessions[sid].created <= TTL

\* The history remembers of a live session what the vault does.
IssuedInv ==
    \A sid \in DOMAIN sessions :
       /\ issued[sid].principal = sessions[sid].principal
       /\ issued[sid].created = sessions[sid].created

\* The call was made in the past; a session on the list has expired, and
\* when the list is worked off, all that is left was young at the call.
PurgeOK(t) ==
    /\ pc[t] # "idle" => calledAt[t] <= now
    /\ pc[t] = "purge" =>
          /\ \A sid \in expired[t] \cap DOMAIN sessions : IsExpired(sid)
          /\ \A sid \in DOMAIN sessions \ expired[t] : YoungFor(t, sid)
    /\ pc[t] = "body" => \A sid \in DOMAIN sessions : YoungFor(t, sid)

\* RestoreIsolated for one thread; the session it speaks of was issued.
ServedOK(t) ==
    Holding(t) /\ req[t].op = "restore" /\ reply[t] = "ok" =>
       /\ req[t].sid \in DOMAIN issued
       /\ issued[req[t].sid].principal \in {NoPrincipal, req[t].principal}
       /\ calledAt[t] - issued[req[t].sid].created <= TTL

AgeInv ==
    /\ TypeInv
    /\ IssuedInv
    /\ \A t \in Threads : PurgeOK(t) /\ ServedOK(t)

-----------------------------------------------------------------------------
LEMMA AgeInit == Init => AgeInv
<1> SUFFICES ASSUME Init PROVE AgeInv
  OBVIOUS
<1>1. DOMAIN sessions = {} /\ \A t \in Threads : pc[t] = "idle"
  BY DEF Init
<1>2. IssuedInv /\ \A t \in Threads : PurgeOK(t) /\ ServedOK(t)
  BY <1>1 DEF IssuedInv, PurgeOK, ServedOK, Holding
<1>3. QED
  BY <1>2, TypeInvInit DEF AgeInv

\* The passing of time makes sessions older and no call earlier.
LEMMA AgeTick == AgeInv /\ Tick => AgeInv'
<1> SUFFICES ASSUME AgeInv, Tick PROVE AgeInv'
  OBVIOUS
<1>1. TypeInv'
  BY TypeInvClock DEF AgeInv
<1>2. now \in Int /\ now' = now + 1 /\ TTL \in Nat
  BY LimitsAssumption DEF AgeInv, TypeInv, TypeOK, Tick
<1>3. UNCHANGED <<sessions, issued, pc, req, calledAt, expired, reply>>
  BY DEF Tick, contents, history
<1>4. \A sid \in DOMAIN sessions : sessions[sid].created \in Int
  BY DEF AgeInv, TypeInv, TypeOK, Session
<1>5. \A t \in Threads : calledAt[t] \in Int
  BY DEF AgeInv, TypeInv, TypeOK
<1>6. ASSUME NEW t \in Threads PROVE PurgeOK(t)'
  BY <1>2, <1>3, <1>4, <1>5 DEF AgeInv, PurgeOK, IsExpired, YoungFor
<1>7. ASSUME NEW t \in Threads PROVE ServedOK(t)'
  BY <1>3 DEF AgeInv, ServedOK, Holding
<1>8. QED
  BY <1>1, <1>3, <1>6, <1>7 DEF AgeInv, IssuedInv

\* A step of t that leaves the vault's sessions and the other threads alone.
LEMMA AgeFrame ==
    ASSUME AgeInv, TypeInv', NEW t \in Threads,
           UNCHANGED <<now, sessions, issued>>,
           \A u \in Threads \ {t} :
              /\ pc'[u] = pc[u] /\ req'[u] = req[u]
              /\ calledAt'[u] = calledAt[u] /\ expired'[u] = expired[u]
              /\ reply'[u] = reply[u],
           PurgeOK(t)', ServedOK(t)'
    PROVE  AgeInv'
<1>1. ASSUME NEW u \in Threads PROVE PurgeOK(u)' /\ ServedOK(u)'
  <2>1. CASE u = t
    BY <2>1
  <2>2. CASE u # t
    BY <2>2 DEF AgeInv, PurgeOK, ServedOK, IsExpired, YoungFor, Holding
  <2>3. QED
    BY <2>1, <2>2
<1>2. QED
  BY <1>1 DEF AgeInv, IssuedInv

\* Entering, refusing, counting, copying and leaving.
LEMMA AgeCall ==
    ASSUME AgeInv, TypeInv', NEW t \in Threads, Call(t) \/ Acquire(t)
    PROVE  AgeInv'
<1>1. UNCHANGED <<now, sessions, issued, expired, reply>>
  BY DEF Call, Acquire, contents, history
<1>2. pc'[t] \in {"acquire", "list"} /\ calledAt'[t] <= now
  BY DEF Call, Acquire, Goto, AgeInv, TypeInv, TypeOK, PurgeOK
<1>3. PurgeOK(t)' /\ ServedOK(t)'
  BY <1>1, <1>2 DEF PurgeOK, ServedOK, Holding
<1>4. QED
  BY <1>1, <1>3, AgeFrame DEF Call, Acquire, Goto, AgeInv, TypeInv, TypeOK

LEMMA AgeQuiet ==
    ASSUME AgeInv, TypeInv', NEW t \in Threads,
           \/ CreateRefuse(t) \/ CreateAdmit(t) \/ Record(t)
           \/ RestoreRefuse(t) \/ StatsSnapshot(t)
    PROVE  AgeInv'
<1>1. UNCHANGED <<now, sessions, issued, req, calledAt, expired>>
  BY DEF CreateRefuse, CreateAdmit, Record, RestoreRefuse, StatsSnapshot,
     contents, history
<1>2. /\ pc[t] = "body"
      /\ pc'[t] \in {"release", "insert"}
      /\ \A u \in Threads \ {t} : pc'[u] = pc[u] /\ reply'[u] = reply[u]
  BY DEF CreateRefuse, CreateAdmit, Record, RestoreRefuse, StatsSnapshot, At,
     Answer, Goto, AgeInv, TypeInv, TypeOK
<1>3. PurgeOK(t)'
  BY <1>1, <1>2 DEF AgeInv, PurgeOK
<1>4. ServedOK(t)'
  <2>1. CASE RestoreRefuse(t)
    <3>1. reply'[t] # "ok"
      BY <2>1 DEF RestoreRefuse, RestoreRefusal, Answer, AgeInv, TypeInv,
         TypeOK
    <3>2. QED
      BY <3>1 DEF ServedOK
  <2>2. CASE CreateRefuse(t) \/ Record(t) \/ StatsSnapshot(t)
    <3>1. req'[t].op # "restore"
      BY <1>1, <2>2 DEF CreateRefuse, Record, StatsSnapshot, At
    <3>2. QED
      BY <3>1 DEF ServedOK
  <2>3. CASE CreateAdmit(t)
    <3>1. pc'[t] = "insert"
      BY <2>3 DEF CreateAdmit, Goto, AgeInv, TypeInv, TypeOK
    <3>2. QED
      BY <3>1 DEF ServedOK, Holding
  <2>4. QED
    BY <2>1, <2>2, <2>3
<1>5. QED
  BY <1>1, <1>2, <1>3, <1>4, AgeFrame

LEMMA AgeLeave ==
    ASSUME AgeInv, TypeInv', NEW t \in Threads, Release(t) \/ Return(t)
    PROVE  AgeInv'
<1>1. UNCHANGED <<now, sessions, issued, expired>>
  BY DEF Release, Return, contents, history
<1>2. \A u \in Threads \ {t} :
         /\ pc'[u] = pc[u] /\ req'[u] = req[u]
         /\ calledAt'[u] = calledAt[u] /\ reply'[u] = reply[u]
  BY DEF Release, Return, Goto, AgeInv, TypeInv, TypeOK
<1>3. CASE Release(t)
  <2>1. /\ pc[t] = "release" /\ pc'[t] = "return"
        /\ UNCHANGED <<req, calledAt, reply>>
    BY <1>3 DEF Release, Goto, AgeInv, TypeInv, TypeOK
  <2>2. PurgeOK(t)' /\ ServedOK(t)'
    BY <1>1, <2>1 DEF AgeInv, PurgeOK, ServedOK, Holding
  <2>3. QED
    BY <1>1, <1>2, <2>2, AgeFrame
<1>4. CASE Return(t)
  <2>1. pc'[t] = "idle"
    BY <1>4 DEF Return, Goto, AgeInv, TypeInv, TypeOK
  <2>2. PurgeOK(t)' /\ ServedOK(t)'
    BY <2>1 DEF PurgeOK, ServedOK, Holding
  <2>3. QED
    BY <1>1, <1>2, <2>2, AgeFrame
<1>5. QED
  BY <1>3, <1>4

\* A restore serves a session that survived the purge of its own call.
LEMMA AgeServe ==
    ASSUME AgeInv, TypeInv', NEW t \in Threads, RestoreServe(t)
    PROVE  AgeInv'
<1>1. UNCHANGED <<now, sessions, issued, req, calledAt, expired>>
  BY DEF RestoreServe
<1>2. pc[t] = "body" /\ pc'[t] = "release"
  BY DEF RestoreServe, At, Answer, Goto, AgeInv, TypeInv, TypeOK
<1>3. \A u \in Threads \ {t} : pc'[u] = pc[u] /\ reply'[u] = reply[u]
  BY DEF RestoreServe, Answer, Goto, AgeInv, TypeInv, TypeOK
<1>4. PurgeOK(t)'
  BY <1>1, <1>2 DEF AgeInv, PurgeOK
<1>5. req[t].sid \in DOMAIN sessions /\ MayRestore(req[t])
  BY DEF RestoreServe, RestoreRefusal
<1>6. YoungFor(t, req[t].sid)
  BY <1>2, <1>5 DEF AgeInv, PurgeOK
<1>7. req[t].sid \in DOMAIN issued
  BY <1>5 DEF AgeInv, TypeInv, TypeOK, SidInv
<1>8. ServedOK(t)'
  BY <1>1, <1>5, <1>6, <1>7
     DEF AgeInv, IssuedInv, MayRestore, YoungFor, ServedOK
<1>9. QED
  BY <1>1, <1>3, <1>4, <1>8, AgeFrame

\* The list separates the expired from the young.
LEMMA AgeList ==
    ASSUME AgeInv, TypeInv', NEW t \in Threads, PurgeList(t)
    PROVE  AgeInv'
<1>1. UNCHANGED <<now, sessions, issued, req, calledAt, reply>>
  BY DEF PurgeList, contents, history
<1>2. /\ pc[t] = "list" /\ pc'[t] = "purge"
      /\ expired'[t] = {sid \in DOMAIN sessions : IsExpired(sid)}
      /\ \A u \in Threads \ {t} :
            pc'[u] = pc[u] /\ expired'[u] = expired[u]
  BY DEF PurgeList, Goto, AgeInv, TypeInv, TypeOK
<1>3. calledAt[t] <= now /\ calledAt[t] \in Int /\ now \in Int
  BY <1>2 DEF AgeInv, PurgeOK, TypeInv, TypeOK
<1>4. \A sid \in DOMAIN sessions : IsExpired(sid) \/ YoungFor(t, sid)
  <2>1. \A sid \in DOMAIN sessions : sessions[sid].created \in Int
    BY DEF AgeInv, TypeInv, TypeOK, Session
  <2>2. QED
    BY <1>3, <2>1, LimitsAssumption DEF IsExpired, YoungFor
<1>5. PurgeOK(t)'
  BY <1>1, <1>2, <1>3, <1>4 DEF PurgeOK, IsExpired, YoungFor
<1>6. ServedOK(t)'
  BY <1>2 DEF ServedOK, Holding
<1>7. QED
  BY <1>1, <1>2, <1>5, <1>6, AgeFrame

\* What a pop removes was on the list.
LEMMA AgePop ==
    ASSUME AgeInv, TypeInv', NEW t \in Threads, PurgePop(t)
    PROVE  /\ AgeInv'
           /\ \A sid \in DOMAIN sessions \ DOMAIN sessions' : IsExpired(sid)
<1>1. PICK sid \in expired[t] \cap DOMAIN sessions :
         sessions' = Without(sessions, sid)
  BY DEF PurgePop
<1>2. /\ DOMAIN sessions' = DOMAIN sessions \ {sid}
      /\ \A other \in DOMAIN sessions' : sessions'[other] = sessions[other]
  BY <1>1 DEF Without
<1>3. /\ pc[t] = "purge"
      /\ UNCHANGED <<now, pc, req, calledAt, expired, reply, issued>>
  BY DEF PurgePop, history
<1>4. \A u \in Threads : PurgeOK(u)' /\ ServedOK(u)'
  BY <1>2, <1>3
     DEF AgeInv, PurgeOK, ServedOK, Holding, IsExpired, YoungFor
<1>5. IssuedInv'
  BY <1>2, <1>3 DEF AgeInv, IssuedInv
<1>6. IsExpired(sid)
  BY <1>1, <1>3 DEF AgeInv, PurgeOK
<1>7. QED
  BY <1>2, <1>4, <1>5, <1>6 DEF AgeInv

\* When the list is worked off, everything left is young.
LEMMA AgeCount ==
    ASSUME AgeInv, TypeInv', NEW t \in Threads, PurgeCount(t)
    PROVE  AgeInv'
<1>1. UNCHANGED <<now, sessions, issued, req, calledAt, reply>>
  BY DEF PurgeCount, history
<1>2. /\ pc[t] = "purge" /\ pc'[t] = "body"
      /\ expired[t] \cap DOMAIN sessions = {}
      /\ \A u \in Threads \ {t} :
            pc'[u] = pc[u] /\ expired'[u] = expired[u]
  BY DEF PurgeCount, Goto, AgeInv, TypeInv, TypeOK
<1>3. PurgeOK(t)'
  BY <1>1, <1>2 DEF AgeInv, PurgeOK, YoungFor
<1>4. ServedOK(t)'
  BY <1>2 DEF ServedOK, Holding
<1>5. QED
  BY <1>1, <1>2, <1>3, <1>4, AgeFrame

\* An insertion meets no other thread inside the vault.
LEMMA AgeInsert ==
    ASSUME AgeInv, TypeInv', NEW t \in Threads, Insert(t)
    PROVE  AgeInv'
<1> DEFINE r == req[t]
           entry == [principal |-> r.principal, created |-> now]
<1>1. UNCHANGED <<now, req, calledAt, expired>>
  BY DEF Insert
<1>2. /\ pc[t] = "insert" /\ pc' = [pc EXCEPT ![t] = "release"]
      /\ reply' = [reply EXCEPT ![t] = "ok"]
  BY DEF Insert, Answer, Goto
<1>3. /\ DOMAIN sessions' = DOMAIN sessions \cup {NewSid}
      /\ sessions'[NewSid] = NewSession(r)
      /\ \A sid \in DOMAIN sessions : sessions'[sid] = sessions[sid]
  <2>1. NewSid \notin DOMAIN sessions
    BY DEF NewSid, AgeInv, TypeInv, TypeOK, SidInv
  <2>2. QED
    BY <2>1 DEF Insert, With
<1>4. /\ DOMAIN issued' = DOMAIN issued \cup {NewSid}
      /\ issued'[NewSid] = entry
      /\ \A sid \in DOMAIN issued : issued'[sid] = issued[sid]
  <2>1. issued' = Append(issued, entry)
    BY DEF Insert
  <2>2. issued \in Seq([principal : Owner, created : Int])
    BY DEF AgeInv, TypeInv, TypeOK
  <2> HIDE DEF entry
  <2>3. QED
    BY <2>1, <2>2 DEF NewSid
<1>5. \A u \in Threads \ {t} :
         /\ pc'[u] = pc[u] /\ reply'[u] = reply[u]
         /\ pc[u] \notin {"purge", "body"}
  BY <1>2 DEF AgeInv, TypeInv, TypeOK, LockInv, InLock
<1>6. pc'[t] = "release" /\ req[t].op = "create"
  BY <1>2 DEF AgeInv, TypeInv, TypeOK, RequestInv
<1>7. IssuedInv'
  <2>1. DOMAIN sessions \subseteq DOMAIN issued
    BY DEF AgeInv, TypeInv, TypeOK, SidInv
  <2>2. QED
    BY <1>3, <1>4, <2>1 DEF AgeInv, IssuedInv, NewSession
<1>8. \A u \in Threads : PurgeOK(u)'
  BY <1>1, <1>2, <1>5, <1>6 DEF AgeInv, PurgeOK
<1>9. ASSUME NEW u \in Threads PROVE ServedOK(u)'
  <2>1. CASE u = t
    BY <1>1, <1>6, <2>1 DEF ServedOK
  <2>2. CASE u # t
    BY <1>1, <1>4, <1>5, <2>2 DEF AgeInv, ServedOK, Holding
  <2>3. QED
    BY <2>1, <2>2
<1>10. QED
  BY <1>7, <1>8, <1>9 DEF AgeInv

\* Every step keeps the invariant, and drops only sessions that have expired.
LEMMA AgeNext ==
    ASSUME ~ClockMayStepBack, AgeInv, [Next]_vars
    PROVE  /\ AgeInv'
           /\ \A sid \in DOMAIN sessions \ DOMAIN sessions' : IsExpired(sid)
<1>1. TypeInv'
  BY TypeInvNext DEF AgeInv
<1>2. CASE Tick
  BY <1>2, AgeTick DEF Tick, contents
<1>3. CASE StepBack
  BY <1>3 DEF StepBack
<1>4. CASE Quiescent \/ UNCHANGED vars
  <2>1. UNCHANGED vars
    BY <1>4 DEF Quiescent
  <2>2. UNCHANGED <<now, sessions, issued, pc, req, calledAt, expired, reply>>
    BY <2>1 DEF vars
  <2>3. QED
    BY <1>1, <2>2 DEF AgeInv, IssuedInv, PurgeOK, ServedOK, Holding,
       IsExpired, YoungFor
<1>5. ASSUME NEW t \in Threads, Step(t)
      PROVE  /\ AgeInv'
             /\ \A sid \in DOMAIN sessions \ DOMAIN sessions' : IsExpired(sid)
  <2>1. CASE PurgePop(t)
    BY <1>1, <2>1, AgePop
  <2>2. CASE Insert(t)
    <3>1. DOMAIN sessions \subseteq DOMAIN sessions'
      BY <2>2 DEF Insert, With
    <3>2. QED
      BY <1>1, <2>2, <3>1, AgeInsert
  <2>3. CASE Call(t) \/ Acquire(t)
    BY <1>1, <2>3, AgeCall DEF Call, Acquire, contents
  <2>4. CASE PurgeList(t) \/ PurgeCount(t)
    BY <1>1, <2>4, AgeList, AgeCount DEF PurgeList, PurgeCount, contents
  <2>5. CASE Restore(t)
    BY <1>1, <2>5, AgeQuiet, AgeServe DEF Restore, RestoreRefuse, RestoreServe
  <2>6. CASE CreateRefuse(t) \/ CreateAdmit(t) \/ Record(t) \/ StatsSnapshot(t)
    BY <1>1, <2>6, AgeQuiet
       DEF CreateRefuse, CreateAdmit, Record, StatsSnapshot, contents
  <2>7. CASE Release(t) \/ Return(t)
    BY <1>1, <2>7, AgeLeave DEF Release, Return, contents
  <2>8. QED
    BY <1>5, <2>1, <2>2, <2>3, <2>4, <2>5, <2>6, <2>7
       DEF Step, Locked, Purge, Create
<1>6. QED
  BY <1>2, <1>3, <1>4, <1>5 DEF Next

\* Without a clock that steps back, a restore serves only the owner, and only
\* a session that was within its time to live when the call was made.
THEOREM RestoreIsolatedHolds ==
    ASSUME ~ClockMayStepBack
    PROVE  Spec => []RestoreIsolated
<1>1. AgeInv => RestoreIsolated
  BY DEF AgeInv, ServedOK, RestoreIsolated
<1>2. AgeInv /\ [Next]_vars => AgeInv'
  BY AgeNext
<1>3. QED
  BY AgeInit, <1>1, <1>2, PTL DEF Spec

\* Without a clock that steps back, no session within its time to live is
\* ever dropped, whatever the load.
THEOREM NoEvictionHolds ==
    ASSUME ~ClockMayStepBack
    PROVE  Spec => NoEviction
<1>1. AgeInv /\ [Next]_vars => AgeInv'
  BY AgeNext
<1>2. AgeInv /\ [Next]_vars =>
         [\A sid \in DOMAIN sessions \ DOMAIN sessions' : IsExpired(sid)]_vars
  BY AgeNext
<1>3. QED
  BY AgeInit, <1>1, <1>2, PTL DEF Spec, NoEviction

-----------------------------------------------------------------------------
(* The vault implements the store of SessionStore.                         *)

\* A call has its answer exactly from the end of the method's body to the
\* return, and an idle thread has no call.
ReplyInv ==
    \A t \in Threads :
       /\ pc[t] = "idle" => req[t] = Idle
       /\ reply[t] = "none" <=> ~Holding(t)

LEMMA RefusalsAreAnswers ==
    \A r : /\ CreateRefusal(r) \in {"none", "too_large", "capacity"}
           /\ RestoreRefusal(r) \in {"none", "too_large", "not_found",
                                     "unauthorized"}
BY DEF CreateRefusal, RestoreRefusal

LEMMA ReplyNext == TypeInv /\ ReplyInv /\ [Next]_vars => ReplyInv'
<1> SUFFICES ASSUME TypeInv, ReplyInv, [Next]_vars PROVE ReplyInv'
  OBVIOUS
<1>1. ASSUME UNCHANGED <<pc, req, reply>> PROVE ReplyInv'
  BY <1>1 DEF ReplyInv, Holding
<1>2. ASSUME NEW t \in Threads, Step(t) PROVE ReplyInv'
  <2> USE DEF Goto, Answer, At
  <2>0. DOMAIN pc = Threads /\ DOMAIN req = Threads /\ DOMAIN reply = Threads
    BY DEF TypeInv, TypeOK
  <2>1. CASE Call(t) \/ Acquire(t) \/ PurgeList(t) \/ PurgeCount(t)
             \/ CreateAdmit(t)
    <3>1. /\ UNCHANGED reply
          /\ pc'[t] \notin {"idle", "release", "return"}
          /\ pc[t] \notin {"release", "return"}
          /\ \A u \in Threads \ {t} : pc'[u] = pc[u] /\ req'[u] = req[u]
      BY <2>0, <2>1
         DEF Call, Acquire, PurgeList, PurgeCount, CreateAdmit
    <3>2. QED
      BY <3>1 DEF ReplyInv, Holding
  <2>2. CASE PurgePop(t)
    BY <1>1, <2>2 DEF PurgePop
  <2>3. CASE CreateRefuse(t) \/ Insert(t) \/ Record(t) \/ Restore(t)
             \/ StatsSnapshot(t)
    <3>1. /\ pc'[t] = "release" /\ reply'[t] # "none" /\ UNCHANGED req
          /\ \A u \in Threads \ {t} : pc'[u] = pc[u] /\ reply'[u] = reply[u]
      BY <2>0, <2>3, RefusalsAreAnswers
         DEF CreateRefuse, Insert, Record, Restore, RestoreRefuse,
             RestoreServe, StatsSnapshot
    <3>2. QED
      BY <3>1 DEF ReplyInv, Holding
  <2>4. CASE Release(t)
    BY <2>0, <2>4 DEF Release, ReplyInv, Holding
  <2>5. CASE Return(t)
    BY <2>0, <2>5 DEF Return, ReplyInv, Holding
  <2>6. QED
    BY <1>2, <2>1, <2>2, <2>3, <2>4, <2>5
       DEF Step, Locked, Purge, Create
<1>3. QED
  BY <1>1, <1>2 DEF Next, Tick, StepBack, Quiescent, vars

\* What both modules compute is the same.
LEMMA StoreOperators ==
    /\ \A p, size : Store!Exceeds(p, size, DOMAIN sessions) <=>
          \/ Cardinality(OwnedBy(p)) >= MaxSessionsPerPrincipal
          \/ Cardinality(DOMAIN sessions) >= MaxSessions
          \/ Total(SessionSizes) + size > MaxBytes
    /\ \A sid : Store!Without(sessions, sid) = Without(sessions, sid)
    /\ \A sid, s : Store!With(sessions, sid, s) = With(sessions, sid, s)
<1>0. \A S : Store!Cardinality(S) = Cardinality(S)
  BY Zenon DEF Store!Cardinality, Store!IsFiniteSet, Cardinality,
     IsFiniteSet
<1>1. Store!SizeOf(DOMAIN sessions) = Total(SessionSizes)
  <2>1. ASSUME NEW f
        PROVE  Store!Total(f) = Total(f)
    <3>1. Store!Slots(f) = Slots(f)
      BY Zenon DEF Store!Slots, Slots
    <3>2. QED
      BY <1>0, <3>1, Zenon DEF Store!Total, Total
  <2>2. QED
    BY <2>1, Zenon DEF Store!SizeOf, SessionSizes
<1>2. \A p : Store!OwnedBy(p, DOMAIN sessions) = OwnedBy(p)
  BY DEF Store!OwnedBy, OwnedBy
<1>3. \A p, size : Store!Exceeds(p, size, DOMAIN sessions) <=>
         \/ Cardinality(OwnedBy(p)) >= MaxSessionsPerPrincipal
         \/ Cardinality(DOMAIN sessions) >= MaxSessions
         \/ Total(SessionSizes) + size > MaxBytes
  BY <1>0, <1>1, <1>2, Zenon DEF Store!Exceeds
<1>4. \A sid : Store!Without(sessions, sid) = Without(sessions, sid)
  BY Zenon DEF Store!Without, Without
<1>5. \A sid, s : Store!With(sessions, sid, s) = With(sessions, sid, s)
  BY Zenon DEF Store!With, With
<1>6. QED
  BY <1>3, <1>4, <1>5

\* After the purge of a call every session counts for it.
LEMMA FreshAfterPurge ==
    ASSUME AgeInv, NEW t \in Threads, pc[t] = "body"
    PROVE  Store!Fresh(t) = DOMAIN sessions
BY DEF AgeInv, PurgeOK, YoungFor, Store!Fresh

StoreInv == AgeInv /\ CapacityInv /\ ReplyInv

\* Steps that the store does not see.
LEMMA StoreStutter ==
    ASSUME NEW t \in Threads,
           \/ Acquire(t) \/ PurgeList(t) \/ PurgeCount(t) \/ CreateAdmit(t)
           \/ Release(t)
    PROVE  UNCHANGED Store!vars
BY DEF Acquire, PurgeList, PurgeCount, CreateAdmit, Release, contents,
       history, Store!vars

LEMMA StoreCall ==
    ASSUME StoreInv, NEW t \in Threads, Call(t)
    PROVE  Store!Invoke(t)
<1>1. req[t] = Idle
  BY DEF StoreInv, ReplyInv, Call
<1>2. PICK r \in Requests : req' = [req EXCEPT ![t] = r]
  BY DEF Call
<1>3. r \in Request
  BY RequestsAreRequests DEF StoreInv, CapacityInv, TypeInv
<1>4. req'[t] = r
  BY <1>2 DEF StoreInv, CapacityInv, TypeInv, TypeOK
<1>5. r \in Store!Request
  BY <1>3 DEF Request, CreateRequest, RecordRequest, RestoreRequest,
     StatsRequest, Owner, Sid, Store!Request, Store!Owner
<1>6. QED
  BY <1>1, <1>2, <1>4, <1>5
     DEF Call, contents, history, Idle, Store!Idle, Store!Invoke

LEMMA StorePop ==
    ASSUME StoreInv, NEW t \in Threads, PurgePop(t)
    PROVE  \E sid \in DOMAIN sessions : Store!Expire(sid)
<1>1. PICK sid \in expired[t] \cap DOMAIN sessions :
         sessions' = Without(sessions, sid)
  BY DEF PurgePop
<1>2. IsExpired(sid)
  BY <1>1 DEF StoreInv, AgeInv, PurgeOK, PurgePop
<1>3. QED
  BY <1>1, <1>2, StoreOperators
     DEF PurgePop, IsExpired, history, Store!Expire

LEMMA StoreInsert ==
    ASSUME StoreInv, NEW t \in Threads, Insert(t)
    PROVE  Store!StoreSession(t)
<1> DEFINE r == req[t]
<1>1. r.op = "create" /\ reply[t] = "none"
  BY DEF Insert, StoreInv, CapacityInv, TypeInv, RequestInv, ReplyInv, Holding
<1>2. CreateRefusal(r) = "none"
  BY DEF Insert, StoreInv, CapacityInv, RoomInv
<1>3. bytes = Total(SessionSizes)
  BY DEF StoreInv, CapacityInv, ByteLedger
<1>4. ~Store!Exceeds(r.principal, Size[r.doc], DOMAIN sessions)
  BY <1>2, <1>3, StoreOperators DEF CreateRefusal, QuotaReached, VaultFull
<1>5. Len(issued) \in Nat /\ Len(issued') = Len(issued) + 1
  BY DEF Insert, StoreInv, CapacityInv, TypeInv, TypeOK
<1>6. /\ NewSid \in (1..Len(issued')) \ (1..Len(issued))
      /\ 1..Len(issued') = (1..Len(issued)) \cup {NewSid}
  BY <1>5 DEF NewSid
<1>7. /\ sessions' = With(sessions, NewSid, NewSession(r))
      /\ reply' = [reply EXCEPT ![t] = "ok"]
      /\ UNCHANGED <<now, req, calledAt>>
  BY DEF Insert, Answer
<1>8. QED
  BY <1>1, <1>4, <1>6, <1>7, StoreOperators
     DEF NewSession, Store!StoreSession, Store!Pending, Store!Answered

LEMMA StoreRefuse ==
    ASSUME StoreInv, NEW t \in Threads, CreateRefuse(t)
    PROVE  Store!RefuseSession(t)
<1> DEFINE r == req[t]
<1>1. /\ r.op = "create" /\ pc[t] = "body" /\ reply[t] = "none"
      /\ reply' = [reply EXCEPT ![t] = CreateRefusal(r)]
      /\ UNCHANGED <<now, sessions, issued, req, calledAt>>
  BY DEF CreateRefuse, At, Answer, contents, history, StoreInv, ReplyInv,
     Holding
<1>2. bytes = Total(SessionSizes)
  BY DEF StoreInv, CapacityInv, ByteLedger
<1>3. Store!Fresh(t) = DOMAIN sessions
  BY <1>1, FreshAfterPurge DEF StoreInv
<1>4. \/ CreateRefusal(r) = "too_large" /\ Size[r.doc] > MaxBytes
      \/ CreateRefusal(r) = "capacity"
         /\ Store!Exceeds(r.principal, Size[r.doc], DOMAIN sessions)
  BY <1>2, StoreOperators
     DEF CreateRefuse, CreateRefusal, QuotaReached, VaultFull
<1>5. QED
  BY <1>1, <1>3, <1>4
     DEF Store!RefuseSession, Store!Pending, Store!Answered

LEMMA StoreRestore ==
    ASSUME StoreInv, NEW t \in Threads, Restore(t)
    PROVE  Store!ServeRestore(t) \/ Store!RefuseRestore(t)
<1> DEFINE r == req[t]
<1>1. /\ r.op = "restore" /\ pc[t] = "body" /\ reply[t] = "none"
      /\ UNCHANGED <<now, sessions, issued, req, calledAt>>
  BY DEF Restore, RestoreRefuse, RestoreServe, At, StoreInv, ReplyInv, Holding
<1>2. r.text \in Texts
  BY <1>1, RequestCases DEF StoreInv, CapacityInv, TypeInv, TypeOK,
     RestoreRequest
<1>3. r.text \in {"fits", "oversize", "expands"}
  BY <1>2, EnvironmentAssumption
<1>4. MayRestore(r) <=> Store!MayRestore(r.principal, r.sid)
  BY DEF MayRestore, Store!MayRestore
<1>5. CASE RestoreServe(t)
  <2>1. /\ RestoreRefusal(r) = "none"
        /\ reply' = [reply EXCEPT ![t] = "ok"]
    BY <1>5 DEF RestoreServe, Answer
  <2>2. r.text = "fits" /\ r.sid \in DOMAIN sessions /\ MayRestore(r)
    BY <1>3, <2>1 DEF RestoreRefusal
  <2>3. r.sid \in Store!Fresh(t)
    BY <1>1, <2>2, FreshAfterPurge DEF StoreInv
  <2>4. QED
    BY <1>1, <1>4, <2>1, <2>2, <2>3
       DEF Store!ServeRestore, Store!Pending, Store!Answered
<1>6. CASE RestoreRefuse(t)
  <2>1. /\ RestoreRefusal(r) # "none"
        /\ reply' = [reply EXCEPT ![t] = RestoreRefusal(r)]
    BY <1>6 DEF RestoreRefuse, Answer
  <2>2. \/ RestoreRefusal(r) = "too_large" /\ r.text # "fits"
        \/ RestoreRefusal(r) = "not_found" /\ r.sid \notin DOMAIN sessions
        \/ /\ RestoreRefusal(r) = "unauthorized"
           /\ r.sid \in DOMAIN sessions /\ ~MayRestore(r)
    BY <2>1 DEF RestoreRefusal
  <2>3. QED
    BY <1>1, <1>4, <2>1, <2>2
       DEF Store!RefuseRestore, Store!Pending, Store!Answered
<1>7. QED
  BY <1>5, <1>6 DEF Restore

LEMMA StoreOther ==
    ASSUME StoreInv, NEW t \in Threads, Record(t) \/ StatsSnapshot(t)
    PROVE  Store!ServeOther(t)
<1>1. reply[t] = "none"
  BY DEF Record, StatsSnapshot, At, StoreInv, ReplyInv, Holding
<1>2. QED
  BY <1>1 DEF Record, StatsSnapshot, At, Answer, contents, history,
     Store!ServeOther, Store!Pending, Store!Answered

LEMMA StoreReturn ==
    ASSUME StoreInv, NEW t \in Threads, Return(t)
    PROVE  Store!Return(t)
<1>1. reply[t] # "none"
  BY DEF Return, StoreInv, ReplyInv, Holding
<1>2. QED
  BY <1>1 DEF Return, contents, history, Idle, Store!Idle, Store!Return

\* Every step of the vault is a step of the store or none.
LEMMA StoreNext ==
    ASSUME ~ClockMayStepBack, StoreInv, [Next]_vars
    PROVE  [Store!Next]_(Store!vars)
<1>1. CASE Tick
  <2>1. now' > now
    BY <1>1 DEF Tick, StoreInv, CapacityInv, TypeInv, TypeOK
  <2>2. QED
    BY <1>1, <2>1 DEF Tick, contents, history, Store!Next, Store!Advance
<1>2. CASE StepBack
  BY <1>2 DEF StepBack
<1>3. CASE Quiescent \/ UNCHANGED vars
  BY <1>3 DEF Quiescent, vars, Store!vars
<1>4. ASSUME NEW t \in Threads, Step(t)
      PROVE  [Store!Next]_(Store!vars)
  <2>1. CASE Acquire(t) \/ PurgeList(t) \/ PurgeCount(t) \/ CreateAdmit(t)
             \/ Release(t)
    BY <2>1, StoreStutter
  <2>2. CASE Call(t)
    BY <2>2, StoreCall DEF Store!Next
  <2>3. CASE PurgePop(t)
    BY <2>3, StorePop DEF Store!Next
  <2>4. CASE CreateRefuse(t) \/ Insert(t)
    BY <2>4, StoreRefuse, StoreInsert DEF Store!Next
  <2>5. CASE Restore(t)
    BY <2>5, StoreRestore DEF Store!Next
  <2>6. CASE Record(t) \/ StatsSnapshot(t)
    BY <2>6, StoreOther DEF Store!Next
  <2>7. CASE Return(t)
    BY <2>7, StoreReturn DEF Store!Next
  <2>8. QED
    BY <1>4, <2>1, <2>2, <2>3, <2>4, <2>5, <2>6, <2>7
       DEF Step, Locked, Purge, Create
<1>5. QED
  BY <1>1, <1>2, <1>3, <1>4 DEF Next

LEMMA StoreInit == Init => StoreInv
<1>1. Init => ReplyInv
  BY DEF Init, ReplyInv, Holding
<1>2. QED
  BY <1>1, AgeInit, CapacityInit DEF StoreInv

LEMMA StoreInvNext ==
    ASSUME ~ClockMayStepBack
    PROVE  StoreInv /\ [Next]_vars => StoreInv'
<1>1. AgeInv /\ [Next]_vars => AgeInv'
  BY AgeNext
<1>2. QED
  BY <1>1, CapacityNext, ReplyNext DEF StoreInv, CapacityInv

\* Without a clock that steps back, the vault implements the store: every
\* call takes effect at one instant, with an answer the store may give.
THEOREM StoreImplemented ==
    ASSUME ~ClockMayStepBack
    PROVE  Spec => StoreSpec
<1>1. Init => Store!Init
  BY DEF Init, Store!Init, Idle, Store!Idle
<1>2. Init => StoreInv
  BY StoreInit
<1>3. StoreInv /\ [Next]_vars => StoreInv'
  BY StoreInvNext
<1>4. StoreInv /\ [Next]_vars => [Store!Next]_(Store!vars)
  BY StoreNext
<1>5. QED
  BY <1>1, <1>2, <1>3, <1>4, PTL DEF Spec, StoreSpec, Store!Spec

-----------------------------------------------------------------------------
(* A refusal for want of capacity.  After the purge every session counts   *)
(* for the call, so the limit that was found used up is used up by         *)
(* sessions that count, and stays so while the refused call has the lock.  *)

\* RefusalJustified for one thread.
RefusedOK(t) ==
    pc[t] = "release" /\ reply[t] = "capacity" =>
       \/ Cardinality(Store!Fresh(t)) >= MaxSessions
       \/ Cardinality(Store!Fresh(t) \cap OwnedBy(req[t].principal))
             >= MaxSessionsPerPrincipal
       \/ Total([sid \in Store!Fresh(t) |-> sessions[sid].size])
             + Size[req[t].doc] > MaxBytes

LEMMA RefusedCreate ==
    ASSUME StoreInv, NEW t \in Threads, CreateRefuse(t)
    PROVE  RefusedOK(t)'
<1> DEFINE p == req[t].principal
           d == req[t].doc
<1>1. Store!Fresh(t) = DOMAIN sessions
  BY FreshAfterPurge DEF CreateRefuse, At, StoreInv
<1>2. UNCHANGED <<sessions, bytes, req, calledAt>>
  BY DEF CreateRefuse, contents
<1>3. Store!Fresh(t)' = Store!Fresh(t)
  BY <1>2 DEF Store!Fresh
<1>4. reply'[t] = CreateRefusal(req[t])
  BY DEF CreateRefuse, Answer, StoreInv, CapacityInv, TypeInv, TypeOK
<1>5. CreateRefusal(req[t]) = "capacity" => QuotaReached(p) \/ VaultFull(d)
  BY DEF CreateRefusal
<1>6. DOMAIN sessions \cap OwnedBy(p) = OwnedBy(p)
  BY DEF OwnedBy
<1>7. bytes = Total([sid \in DOMAIN sessions |-> sessions[sid].size])
  BY DEF StoreInv, CapacityInv, ByteLedger, SessionSizes
<1>8. CASE QuotaReached(p)
  BY <1>1, <1>2, <1>3, <1>6, <1>8 DEF RefusedOK, QuotaReached, OwnedBy
<1>9. CASE VaultFull(d)
  BY <1>1, <1>2, <1>3, <1>7, <1>9 DEF RefusedOK, VaultFull
<1>10. QED
  BY <1>4, <1>5, <1>8, <1>9 DEF RefusedOK

\* A step that changes neither the sessions nor t's call.
LEMMA RefusedFrame ==
    ASSUME NEW t \in Threads, RefusedOK(t), sessions' = sessions,
           UNCHANGED <<req[t], calledAt[t]>>,
           pc'[t] = "release" /\ reply'[t] = "capacity" =>
              pc[t] = "release" /\ reply[t] = "capacity"
    PROVE  RefusedOK(t)'
<1>1. Store!Fresh(t)' = Store!Fresh(t)
  BY DEF Store!Fresh
<1>2. OwnedBy(req[t].principal)' = OwnedBy(req[t].principal)
  BY DEF OwnedBy
<1>3. QED
  BY <1>1, <1>2 DEF RefusedOK

\* What another thread does: it is not inside the vault.
LEMMA RefusedOther ==
    ASSUME TypeInv, NEW t \in Threads, Step(t),
           NEW u \in Threads \ {t}, RefusedOK(u)
    PROVE  RefusedOK(u)'
<1>1. pc'[u] = pc[u] /\ reply'[u] = reply[u]
      /\ UNCHANGED <<req[u], calledAt[u]>>
  BY DEF Step, Locked, Purge, Create, Call, Acquire, PurgeList, PurgePop,
     PurgeCount, CreateRefuse, CreateAdmit, Insert, Record, Restore,
     RestoreRefuse, RestoreServe, StatsSnapshot, Release, Return, Answer,
     Goto, TypeInv, TypeOK
<1>2. CASE pc[u] = "release"
  <2>1. ~InLock(t)
    BY <1>2, OneInLock DEF InLock
  <2>2. ~PurgePop(t) /\ ~Insert(t)
    BY <2>1 DEF PurgePop, Insert, InLock
  <2>3. sessions' = sessions
    BY <2>2 DEF Step, Locked, Purge, Create, Call, Acquire, PurgeList,
       PurgeCount, CreateRefuse, CreateAdmit, Record, Restore,
       RestoreRefuse, RestoreServe, StatsSnapshot, Release, Return, contents
  <2>4. QED
    BY <1>1, <2>3, RefusedFrame
<1>3. CASE pc[u] # "release"
  BY <1>1, <1>3 DEF RefusedOK
<1>4. QED
  BY <1>2, <1>3

\* What the thread itself does: only create() answers "capacity".
LEMMA RefusedSelf ==
    ASSUME StoreInv, NEW t \in Threads, Step(t)
    PROVE  RefusedOK(t)'
<1>1. CASE CreateRefuse(t)
  BY <1>1, RefusedCreate
<1>2. CASE \/ Call(t) \/ Acquire(t) \/ Purge(t) \/ CreateAdmit(t)
           \/ Release(t) \/ Return(t)
  <2>1. pc'[t] # "release"
    BY <1>2 DEF Call, Acquire, Purge, PurgeList, PurgePop, PurgeCount,
       CreateAdmit, Release, Return, Goto, StoreInv, CapacityInv, TypeInv,
       TypeOK
  <2>2. QED
    BY <2>1 DEF RefusedOK
<1>3. CASE Insert(t) \/ Record(t) \/ Restore(t) \/ StatsSnapshot(t)
  <2>1. RestoreRefusal(req[t]) # "capacity"
    BY DEF RestoreRefusal
  <2>2. reply'[t] # "capacity"
    BY <1>3, <2>1 DEF Insert, Record, Restore, RestoreRefuse, RestoreServe,
       StatsSnapshot, Answer, StoreInv, CapacityInv, TypeInv, TypeOK
  <2>3. QED
    BY <2>2 DEF RefusedOK
<1>4. QED
  BY <1>1, <1>2, <1>3 DEF Step, Locked, Create

LEMMA RefusedNext ==
    ASSUME StoreInv, \A t \in Threads : RefusedOK(t), [Next]_vars
    PROVE  \A t \in Threads : RefusedOK(t)'
<1> SUFFICES ASSUME NEW u \in Threads PROVE RefusedOK(u)'
  OBVIOUS
<1>1. CASE Tick \/ StepBack \/ Quiescent \/ UNCHANGED vars
  <2>1. UNCHANGED <<sessions, req, calledAt, pc, reply>>
    BY <1>1 DEF Tick, StepBack, Quiescent, vars, contents
  <2>2. QED
    BY <2>1, RefusedFrame
<1>2. ASSUME NEW t \in Threads, Step(t) PROVE RefusedOK(u)'
  <2>1. CASE u = t
    BY <1>2, <2>1, RefusedSelf
  <2>2. CASE u # t
    BY <1>2, <2>2, RefusedOther DEF StoreInv, CapacityInv
  <2>3. QED
    BY <2>1, <2>2
<1>3. QED
  BY <1>1, <1>2 DEF Next

\* Without a clock that steps back, a session that was expired when a
\* creation was called never contributes to its refusal.
THEOREM RefusalJustifiedHolds ==
    ASSUME ~ClockMayStepBack
    PROVE  Spec => []RefusalJustified
<1> DEFINE Inv == StoreInv /\ \A t \in Threads : RefusedOK(t)
<1>1. Init => Inv
  <2>1. Init => StoreInv
    BY StoreInit
  <2>2. Init => \A t \in Threads : RefusedOK(t)
    BY DEF Init, RefusedOK
  <2>3. QED
    BY <2>1, <2>2
<1>2. Inv /\ [Next]_vars => Inv'
  BY StoreInvNext, RefusedNext
<1>3. Inv => RefusalJustified
  BY DEF RefusedOK, RefusalJustified, Store!Fresh
<1>4. QED
  BY <1>1, <1>2, <1>3, PTL DEF Spec
=============================================================================
