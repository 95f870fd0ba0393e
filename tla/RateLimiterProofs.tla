------------------------- MODULE RateLimiterProofs --------------------------
(***************************************************************************)
(* Proofs about the rate limiter, for any threads, principals, window and  *)
(* allowance, and whatever the clock does.                                 *)
(***************************************************************************)
EXTENDS RateLimiter, FiniteSetTheorems, WellFoundedInduction, TLAPS

USE ThreadsAssumption, LimiterAssumption

LEMMA InitTypeOK == Init => TypeOK
<1> SUFFICES ASSUME Init PROVE TypeOK
  OBVIOUS
<1>1. <<>> \in Seq(Nat)
  OBVIOUS
<1>2. /\ deques \in [Principals -> Seq(Nat)]
      /\ accepted \in [Principals -> Seq(Nat)]
  BY <1>1 DEF Init
<1>3. /\ clock \in Nat /\ lock \in Threads \cup {NoThread} /\ checks \in Nat
      /\ pc \in [Threads -> Steps] /\ who \in [Threads -> Principals]
      /\ stamp \in [Threads -> Nat]
  BY DEF Init, Steps
<1>4. QED
  BY <1>2, <1>3 DEF TypeOK

LEMMA StepTypeOK ==
    ASSUME TypeOK, NEW t \in Threads, Step(t)
    PROVE  TypeOK'
<1> USE DEF TypeOK, Steps, Goto
<1>0. who[t] \in Principals /\ stamp[t] \in Nat
      /\ deques[who[t]] \in Seq(Nat) /\ accepted[who[t]] \in Seq(Nat)
  OBVIOUS
<1>1. CASE Check(t)
  BY <1>1 DEF Check
<1>2. CASE Acquire(t)
  BY <1>2 DEF Acquire
<1>3. CASE DropStale(t)
  <2>1. Tail(deques[who[t]]) \in Seq(Nat)
    BY <1>0, <1>3 DEF DropStale, HeadIsStale, Deque
  <2>2. deques' \in [Principals -> Seq(Nat)]
    BY <1>3, <2>1 DEF DropStale
  <2>3. QED
    BY <1>3, <2>2 DEF DropStale
<1>4. CASE Reject(t) \/ Admit(t)
  BY <1>4 DEF Reject, Admit
<1>5. CASE AppendStamp(t)
  <2>1. /\ Append(deques[who[t]], stamp[t]) \in Seq(Nat)
        /\ Append(accepted[who[t]], stamp[t]) \in Seq(Nat)
    BY <1>0
  <2>2. /\ deques' \in [Principals -> Seq(Nat)]
        /\ accepted' \in [Principals -> Seq(Nat)]
    BY <1>5, <2>1 DEF AppendStamp
  <2>3. QED
    BY <1>5, <2>2 DEF AppendStamp
<1>6. CASE Release(t)
  BY <1>6 DEF Release
<1>7. QED
  BY <1>1, <1>2, <1>3, <1>4, <1>5, <1>6 DEF Step

LEMMA NextTypeOK == TypeOK /\ [Next]_vars => TypeOK'
<1> SUFFICES ASSUME TypeOK, [Next]_vars PROVE TypeOK'
  OBVIOUS
<1>1. CASE Tick
  BY <1>1 DEF Tick, TypeOK
<1>2. CASE UNCHANGED vars
  BY <1>2 DEF vars, TypeOK
<1>3. QED
  BY <1>1, <1>2, StepTypeOK DEF Next, Quiescent

\* The state is of its type.
THEOREM TypeCorrect == Spec => []TypeOK
BY InitTypeOK, NextTypeOK, PTL DEF Spec

-----------------------------------------------------------------------------
(* The lock.                                                               *)

Critical == {"drop", "append", "rejected", "release"}

\* Who is inside of the lock holds it.
LockInv == \A t \in Threads : pc[t] \in Critical => lock = t

LEMMA InitLockInv == Init => LockInv
BY DEF Init, LockInv, Critical

LEMMA NextLockInv == TypeOK /\ LockInv /\ [Next]_vars => LockInv'
<1> SUFFICES ASSUME TypeOK, LockInv, [Next]_vars PROVE LockInv'
  OBVIOUS
<1> USE DEF LockInv, Critical
<1>1. ASSUME UNCHANGED <<pc, lock>> PROVE LockInv'
  BY <1>1
<1>2. ASSUME NEW t \in Threads, Step(t)
      PROVE  LockInv'
  <2> USE DEF TypeOK, Goto
  <2>1. CASE Check(t)
    BY <2>1 DEF Check
  <2>2. CASE Acquire(t)
    BY <2>2 DEF Acquire, LockFree
  <2>3. CASE DropStale(t)
    BY <2>3 DEF DropStale
  <2>4. CASE Reject(t) \/ Admit(t) \/ AppendStamp(t)
    BY <2>4 DEF Reject, Admit, AppendStamp
  <2>5. CASE Release(t)
    BY <2>5 DEF Release
  <2>6. QED
    BY <1>2, <2>1, <2>2, <2>3, <2>4, <2>5 DEF Step
<1>3. QED
  BY <1>1, <1>2 DEF Next, Quiescent, vars, Tick

-----------------------------------------------------------------------------
(* The deque and the calls accepted so far.                                *)

\* d is what is left of a after its first elements are gone.
IsTail(d, a) ==
    /\ Len(d) <= Len(a)
    /\ \A i \in 1..Len(d) : d[i] = a[Len(a) - Len(d) + i]

LEMMA TailOfTail ==
    ASSUME NEW d \in Seq(Nat), NEW a \in Seq(Nat), IsTail(d, a), d # <<>>
    PROVE  IsTail(Tail(d), a) /\ Len(Tail(d)) = Len(d) - 1
<1>1. Len(d) \in Nat \ {0} /\ Len(a) \in Nat
  OBVIOUS
<1>2. Len(Tail(d)) = Len(d) - 1
      /\ \A i \in 1..(Len(d) - 1) : Tail(d)[i] = d[i + 1]
  OBVIOUS
<1>3. ASSUME NEW i \in 1..(Len(d) - 1)
      PROVE  Tail(d)[i] = a[Len(a) - (Len(d) - 1) + i]
  <2>1. i + 1 \in 1..Len(d)
    BY <1>1
  <2>2. d[i + 1] = a[Len(a) - Len(d) + (i + 1)]
    BY <2>1 DEF IsTail
  <2>3. Len(a) - Len(d) + (i + 1) = Len(a) - (Len(d) - 1) + i
    BY <1>1
  <2>4. QED
    BY <1>2, <2>2, <2>3
<1> DEFINE e == Tail(d)
<1>4. /\ Len(e) = Len(d) - 1
      /\ \A i \in 1..(Len(d) - 1) : e[i] = a[Len(a) - (Len(d) - 1) + i]
  BY <1>2, <1>3
<1> HIDE DEF e
<1>5. IsTail(e, a)
  BY <1>1, <1>4 DEF IsTail
<1>6. QED
  BY <1>4, <1>5 DEF e

LEMMA AppendToBoth ==
    ASSUME NEW d \in Seq(Nat), NEW a \in Seq(Nat), IsTail(d, a), NEW x \in Nat
    PROVE  /\ IsTail(Append(d, x), Append(a, x))
           /\ Len(Append(d, x)) = Len(d) + 1
<1>1. Len(d) \in Nat /\ Len(a) \in Nat
      /\ Len(Append(d, x)) = Len(d) + 1 /\ Len(Append(a, x)) = Len(a) + 1
  OBVIOUS
<1>2. ASSUME NEW i \in 1..(Len(d) + 1)
      PROVE  Append(d, x)[i] = Append(a, x)[Len(a) + 1 - (Len(d) + 1) + i]
  <2>1. CASE i = Len(d) + 1
    <3>1. Len(a) + 1 - (Len(d) + 1) + i = Len(a) + 1
      BY <1>1, <2>1
    <3>2. Append(d, x)[i] = x /\ Append(a, x)[Len(a) + 1] = x
      BY <2>1
    <3>3. QED
      BY <3>1, <3>2
  <2>2. CASE i # Len(d) + 1
    <3>1. i \in 1..Len(d)
      BY <1>1, <2>2
    <3>2. Len(a) + 1 - (Len(d) + 1) + i = Len(a) - Len(d) + i
          /\ Len(a) - Len(d) + i \in 1..Len(a)
      BY <1>1, <3>1 DEF IsTail
    <3>3. d[i] = a[Len(a) - Len(d) + i]
      BY <3>1 DEF IsTail
    <3>4. Append(d, x)[i] = d[i]
          /\ Append(a, x)[Len(a) - Len(d) + i] = a[Len(a) - Len(d) + i]
      BY <3>1, <3>2
    <3>5. QED
      BY <3>2, <3>3, <3>4
  <2>3. QED
    BY <2>1, <2>2
<1> DEFINE e == Append(d, x)
           b == Append(a, x)
<1>3. /\ Len(e) = Len(d) + 1 /\ Len(b) = Len(a) + 1
      /\ \A i \in 1..(Len(d) + 1) :
            e[i] = b[Len(a) + 1 - (Len(d) + 1) + i]
  BY <1>1, <1>2
<1> HIDE DEF e, b
<1>4. IsTail(e, b)
  BY <1>1, <1>3 DEF IsTail
<1>5. QED
  BY <1>3, <1>4 DEF e, b

\* Each deque is such a tail and not too long, and who is about to append
\* found room, which no other thread can take because of the lock.
DequeInv ==
    /\ \A p \in Principals :
          IsTail(deques[p], accepted[p]) /\ Len(deques[p]) <= MaxPerWindow
    /\ \A t \in Threads : pc[t] = "append" => Len(Deque(t)) < MaxPerWindow

LEMMA InitDequeInv == Init => DequeInv
<1> SUFFICES ASSUME Init PROVE DequeInv
  OBVIOUS
<1>1. IsTail(<<>>, <<>>) /\ Len(<<>>) = 0
  BY DEF IsTail
<1>2. QED
  BY <1>1 DEF Init, DequeInv

LEMMA NextDequeInv ==
    TypeOK /\ LockInv /\ DequeInv /\ [Next]_vars => DequeInv'
<1> SUFFICES ASSUME TypeOK, LockInv, DequeInv, [Next]_vars
             PROVE  DequeInv'
  OBVIOUS
<1>1. ASSUME UNCHANGED <<deques, accepted>>,
             \A t \in Threads : pc'[t] = "append" =>
                pc[t] = "append" /\ who'[t] = who[t]
      PROVE  DequeInv'
  BY <1>1 DEF DequeInv, Deque
<1>2. ASSUME NEW t \in Threads, Step(t)
      PROVE  DequeInv'
  <2>0. /\ who[t] \in Principals /\ stamp[t] \in Nat
        /\ DOMAIN deques = Principals /\ DOMAIN accepted = Principals
        /\ deques[who[t]] \in Seq(Nat) /\ accepted[who[t]] \in Seq(Nat)
        /\ IsTail(deques[who[t]], accepted[who[t]])
        /\ Len(deques[who[t]]) \in Nat
    BY DEF TypeOK, DequeInv
  <2>1. CASE Check(t)
    BY <1>1, <2>1 DEF Check, Goto, TypeOK
  <2>2. CASE Acquire(t) \/ Reject(t) \/ Release(t)
    BY <1>1, <2>2 DEF Acquire, Reject, Release, Goto, TypeOK
  <2>3. CASE DropStale(t)
    <3>1. \A s \in Threads : pc[s] # "append"
      BY <2>3 DEF DropStale, LockInv, Critical
    <3>2. Deque(t) # <<>> /\ UNCHANGED <<pc, who, accepted>>
          /\ deques' = [deques EXCEPT ![who[t]] = Tail(@)]
      BY <2>3 DEF DropStale, HeadIsStale
    <3>3. IsTail(Tail(Deque(t)), accepted[who[t]])
          /\ Len(Tail(Deque(t))) = Len(Deque(t)) - 1
      BY <2>0, <3>2, TailOfTail DEF Deque
    <3>4. Len(Tail(Deque(t))) <= MaxPerWindow
      BY <2>0, <3>3 DEF DequeInv, Deque
    <3>5. QED
      BY <2>0, <3>1, <3>2, <3>3, <3>4 DEF DequeInv, Deque
  <2>4. CASE Admit(t)
    <3>1. Len(Deque(t)) < MaxPerWindow
      BY <2>0, <2>4 DEF Admit, WindowFull, Deque
    <3>2. UNCHANGED <<deques, who, accepted>>
          /\ \A s \in Threads \ {t} : pc'[s] = pc[s]
      BY <2>4 DEF Admit, Goto, TypeOK
    <3>3. QED
      BY <3>1, <3>2 DEF DequeInv, Deque
  <2>5. CASE AppendStamp(t)
    <3>1. \A s \in Threads \ {t} : pc'[s] = pc[s] /\ pc[s] # "append"
      BY <2>5 DEF AppendStamp, LockInv, Critical, Goto, TypeOK
    <3>2. pc'[t] = "release" /\ UNCHANGED who
          /\ deques' = [deques EXCEPT ![who[t]] = Append(@, stamp[t])]
          /\ accepted' = [accepted EXCEPT ![who[t]] = Append(@, stamp[t])]
      BY <2>5 DEF AppendStamp, Goto, TypeOK
    <3>3. /\ IsTail(Append(Deque(t), stamp[t]),
                    Append(accepted[who[t]], stamp[t]))
          /\ Len(Append(Deque(t), stamp[t])) = Len(Deque(t)) + 1
      BY <2>0, AppendToBoth DEF Deque
    <3>4. Len(Append(Deque(t), stamp[t])) <= MaxPerWindow
      BY <2>0, <2>5, <3>3 DEF AppendStamp, DequeInv, Deque
    <3>5. \A p \in Principals :
             (IsTail(deques[p], accepted[p])
                /\ Len(deques[p]) <= MaxPerWindow)'
      BY <2>0, <3>2, <3>3, <3>4 DEF DequeInv, Deque
    <3>6. \A s \in Threads : pc'[s] # "append"
      BY <3>1, <3>2
    <3>7. QED
      BY <3>5, <3>6 DEF DequeInv
  <2>6. QED
    BY <1>2, <2>1, <2>2, <2>3, <2>4, <2>5 DEF Step
<1>3. QED
  BY <1>1, <1>2 DEF Next, Quiescent, vars, Tick

\* However the threads interleave and whatever the clock says, the deque of
\* a principal is the tail of its accepted calls and holds no more than
\* max_calls of them: the memory of a principal is bounded.
THEOREM DequeIsRecentTailHolds == Spec => []DequeIsRecentTail
<1>1. TypeOK /\ DequeInv => DequeIsRecentTail
  <2> SUFFICES ASSUME TypeOK, DequeInv, NEW p \in Principals
               PROVE  LET gone == Len(accepted[p]) - Len(deques[p]) IN
                      /\ gone >= 0
                      /\ Len(deques[p]) <= MaxPerWindow
                      /\ \A i \in DOMAIN deques[p] :
                            deques[p][i] = accepted[p][gone + i]
    BY DEF DequeIsRecentTail
  <2> DEFINE d == deques[p]
             a == accepted[p]
  <2>1. /\ Len(d) \in Nat /\ Len(a) \in Nat /\ DOMAIN d = 1..Len(d)
        /\ IsTail(d, a) /\ Len(d) <= MaxPerWindow
    BY DEF TypeOK, DequeInv
  <2> HIDE DEF d, a
  <2>2. /\ Len(a) - Len(d) >= 0
        /\ \A i \in DOMAIN d : d[i] = a[Len(a) - Len(d) + i]
    BY <2>1 DEF IsTail
  <2>3. QED
    BY <2>1, <2>2 DEF d, a
<1>2. QED
  BY <1>1, InitTypeOK, NextTypeOK, InitLockInv, NextLockInv, InitDequeInv,
     NextDequeInv, PTL DEF Spec

-----------------------------------------------------------------------------
(* Stamps and time.                                                        *)

\* No thread has waited for the lock, or in it, for longer than MaxDelay.
StampInv ==
    \A t \in Threads : pc[t] # "idle" =>
       stamp[t] <= clock /\ clock <= stamp[t] + MaxDelay

LEMMA NextStampInv == TypeOK /\ StampInv /\ [Next]_vars => StampInv'
<1> SUFFICES ASSUME TypeOK, StampInv, [Next]_vars PROVE StampInv'
  OBVIOUS
<1> USE DEF StampInv
<1>1. CASE Tick
  <2>1. SUFFICES ASSUME NEW t \in Threads, pc[t] # "idle"
                 PROVE  /\ stamp[t] <= clock + 1
                        /\ clock + 1 <= stamp[t] + MaxDelay
    BY <1>1 DEF Tick
  <2>2. clock - stamp[t] < MaxDelay
    BY <1>1, <2>1 DEF Tick
  <2>3. stamp[t] <= clock
    BY <2>1
  <2>4. clock \in Nat /\ stamp[t] \in Nat
    BY DEF TypeOK
  <2>5. QED
    BY <2>2, <2>3, <2>4
<1>2. CASE UNCHANGED vars
  BY <1>2 DEF vars
<1>3. ASSUME NEW t \in Threads, Step(t)
      PROVE  StampInv'
  <2> USE DEF TypeOK, Goto
  <2>1. CASE Check(t)
    BY <2>1 DEF Check
  <2>2. CASE Acquire(t) \/ DropStale(t) \/ Reject(t) \/ Admit(t)
             \/ AppendStamp(t)
    BY <2>2 DEF Acquire, DropStale, Reject, Admit, AppendStamp
  <2>3. CASE Release(t)
    BY <2>3 DEF Release
  <2>4. QED
    BY <1>3, <2>1, <2>2, <2>3 DEF Step
<1>4. QED
  BY <1>1, <1>2, <1>3 DEF Next, Quiescent

-----------------------------------------------------------------------------
(* What the accepted calls a of a principal, of which the deque d is the   *)
(* tail, say at the instant c: none is in the future; a later call is      *)
(* stamped at most MaxDelay earlier; what is gone was stale; and calls     *)
(* that are a whole allowance apart are apart in time.                     *)

History(d, a, c) ==
    /\ \A i \in 1..Len(a) : a[i] <= c
    /\ \A i, j \in 1..Len(a) : i < j => a[i] <= a[j] + MaxDelay
    /\ \A i \in 1..(Len(a) - Len(d)) : a[i] + Window <= c
    /\ \A i, j \in 1..Len(a) :
          i + MaxPerWindow <= j => a[i] + Window <= a[j] + MaxDelay

LEMMA HistoryAges ==
    ASSUME NEW d \in Seq(Nat), NEW a \in Seq(Nat), NEW c \in Nat,
           History(d, a, c), IsTail(d, a)
    PROVE  History(d, a, c + 1)
<1>1. Len(d) \in Nat /\ Len(a) \in Nat /\ \A i \in 1..Len(a) : a[i] \in Nat
  OBVIOUS
<1>2. \A i \in 1..(Len(a) - Len(d)) : i \in 1..Len(a)
  BY <1>1
<1>3. \A i \in 1..Len(a) : a[i] <= c + 1
  BY <1>1 DEF History
<1>4. \A i \in 1..(Len(a) - Len(d)) : a[i] + Window <= c + 1
  BY <1>1, <1>2 DEF History
<1>5. QED
  BY <1>3, <1>4 DEF History

LEMMA HistoryAfterDrop ==
    ASSUME NEW d \in Seq(Nat), NEW a \in Seq(Nat), NEW c \in Nat,
           History(d, a, c), IsTail(d, a), d # <<>>, Head(d) + Window <= c
    PROVE  History(Tail(d), a, c)
<1>1. Len(d) \in Nat \ {0} /\ Len(a) \in Nat /\ Len(d) <= Len(a)
  BY DEF IsTail
<1>2. Len(Tail(d)) = Len(d) - 1
  BY TailOfTail
<1>3. Head(d) = a[Len(a) - Len(d) + 1]
  <2>1. 1 \in 1..Len(d) /\ Head(d) = d[1]
    BY <1>1
  <2>2. QED
    BY <2>1 DEF IsTail
<1>4. ASSUME NEW i \in 1..(Len(a) - (Len(d) - 1))
      PROVE  a[i] + Window <= c
  <2>1. CASE i = Len(a) - Len(d) + 1
    BY <1>3, <2>1
  <2>2. CASE i # Len(a) - Len(d) + 1
    <3>1. i \in 1..(Len(a) - Len(d))
      <4>1. i \in Int /\ 1 <= i /\ i <= Len(a) - Len(d) + 1
        BY <1>1
      <4>2. i <= Len(a) - Len(d) /\ Len(a) - Len(d) \in Int
        BY <1>1, <2>2, <4>1, SMTT(30)
      <4>3. QED
        BY <4>1, <4>2
    <3>2. QED
      BY <3>1 DEF History
  <2>3. QED
    BY <2>1, <2>2
<1> DEFINE e == Tail(d)
<1>5. Len(e) = Len(d) - 1
  BY <1>2
<1> HIDE DEF e
<1>6. History(e, a, c)
  BY <1>4, <1>5 DEF History
<1>7. QED
  BY <1>6 DEF e

\* An appended stamp is a whole allowance away only from calls that are gone.
LEMMA HistoryAfterAppend ==
    ASSUME NEW d \in Seq(Nat), NEW a \in Seq(Nat), NEW c \in Nat,
           NEW x \in Nat, x <= c, c <= x + MaxDelay,
           Len(d) < MaxPerWindow, History(d, a, c), IsTail(d, a)
    PROVE  History(Append(d, x), Append(a, x), c)
<1> DEFINE e == Append(d, x)
           b == Append(a, x)
           n == Len(a) + 1
<1>1. /\ Len(d) \in Nat /\ Len(a) \in Nat /\ Len(d) <= Len(a)
      /\ \A i \in 1..Len(a) : a[i] \in Nat
  BY DEF IsTail
<1>2. /\ Len(e) = Len(d) + 1 /\ Len(b) = n /\ b[n] = x
      /\ \A i \in 1..Len(a) : b[i] = a[i]
  <2>1. Len(e) = Len(d) + 1 /\ Len(b) = Len(a) + 1 /\ b[Len(a) + 1] = x
    OBVIOUS
  <2>2. \A i \in 1..Len(a) : b[i] = a[i]
    OBVIOUS
  <2>3. QED
    BY <2>1, <2>2
<1> HIDE DEF e, b
<1>3. \A i \in 1..n : i \in 1..Len(a) \/ i = n
  BY <1>1
<1>4. \A i \in 1..n : b[i] <= c
  BY <1>1, <1>2, <1>3 DEF History
<1>5. ASSUME NEW i \in 1..n, NEW j \in 1..n, i < j
      PROVE  b[i] <= b[j] + MaxDelay
  <2>1. i \in 1..Len(a)
    BY <1>1, <1>5
  <2>2. CASE j = n
    <3>1. b[i] = a[i] /\ a[i] <= c /\ a[i] \in Nat
      BY <1>1, <1>2, <2>1 DEF History
    <3>2. QED
      BY <1>2, <2>2, <3>1
  <2>3. CASE j # n
    <3>1. j \in 1..Len(a)
      BY <1>3, <2>3
    <3>2. QED
      BY <1>2, <1>5, <2>1, <3>1 DEF History
  <2>4. QED
    BY <2>2, <2>3
<1>6. \A i \in 1..(n - Len(e)) : b[i] + Window <= c
  <2>1. n - Len(e) = Len(a) - Len(d)
    BY <1>1, <1>2
  <2>2. \A i \in 1..(Len(a) - Len(d)) : i \in 1..Len(a)
    BY <1>1
  <2>3. QED
    BY <1>2, <2>1, <2>2 DEF History
<1>7. ASSUME NEW i \in 1..n, NEW j \in 1..n, i + MaxPerWindow <= j
      PROVE  b[i] + Window <= b[j] + MaxDelay
  <2>1. i \in 1..Len(a)
    BY <1>1, <1>7
  <2>2. CASE j = n
    <3>1. i \in 1..(Len(a) - Len(d))
      BY <1>1, <1>7, <2>2
    <3>2. a[i] + Window <= c /\ b[i] = a[i] /\ a[i] \in Nat
      BY <1>1, <1>2, <2>1, <3>1 DEF History
    <3>3. QED
      BY <1>2, <2>2, <3>2
  <2>3. CASE j # n
    <3>1. j \in 1..Len(a)
      BY <1>3, <2>3
    <3>2. QED
      BY <1>2, <1>7, <2>1, <3>1 DEF History
  <2>4. QED
    BY <2>2, <2>3
<1>8. History(e, b, c)
  BY <1>2, <1>4, <1>5, <1>6, <1>7 DEF History
<1>9. QED
  BY <1>8 DEF e, b

HistoryInv == \A p \in Principals : History(deques[p], accepted[p], clock)

LEMMA InitHistoryInv == Init => HistoryInv
<1> SUFFICES ASSUME Init PROVE HistoryInv
  OBVIOUS
<1>1. History(<<>>, <<>>, clock)
  BY DEF History
<1>2. QED
  BY <1>1 DEF Init, HistoryInv

LEMMA NextHistoryInv ==
    TypeOK /\ DequeInv /\ StampInv /\ HistoryInv /\ [Next]_vars => HistoryInv'
<1> SUFFICES ASSUME TypeOK, DequeInv, StampInv, HistoryInv, [Next]_vars
             PROVE  HistoryInv'
  OBVIOUS
<1>1. CASE Tick
  <2>1. ASSUME NEW p \in Principals
        PROVE  History(deques[p], accepted[p], clock + 1)
    BY HistoryAges DEF TypeOK, HistoryInv, DequeInv
  <2>2. QED
    BY <1>1, <2>1 DEF Tick, HistoryInv
<1>2. ASSUME UNCHANGED <<deques, accepted, clock>>
      PROVE  HistoryInv'
  BY <1>2 DEF HistoryInv
<1>3. ASSUME NEW t \in Threads, DropStale(t)
      PROVE  HistoryInv'
  <2>1. /\ deques' = [deques EXCEPT ![who[t]] = Tail(@)]
        /\ UNCHANGED <<accepted, clock>>
        /\ Deque(t) # <<>> /\ Head(Deque(t)) <= stamp[t] - Window
        /\ stamp[t] <= clock
    BY <1>3 DEF DropStale, HeadIsStale, StampInv
  <2>2. /\ who[t] \in Principals /\ stamp[t] \in Nat /\ clock \in Nat
        /\ Deque(t) \in Seq(Nat) /\ accepted[who[t]] \in Seq(Nat)
        /\ DOMAIN deques = Principals
    BY DEF TypeOK, Deque
  <2>3. Head(Deque(t)) \in Nat
    BY <2>1, <2>2
  <2>4. Head(Deque(t)) + Window <= clock
    BY <2>1, <2>2, <2>3
  <2>5. IsTail(Deque(t), accepted[who[t]])
        /\ History(Deque(t), accepted[who[t]], clock)
    BY <2>2 DEF DequeInv, HistoryInv, Deque
  <2>6. History(Tail(Deque(t)), accepted[who[t]], clock)
    BY <2>1, <2>2, <2>4, <2>5, HistoryAfterDrop
  <2>7. QED
    BY <2>1, <2>2, <2>6 DEF HistoryInv, Deque
<1>4. ASSUME NEW t \in Threads, AppendStamp(t)
      PROVE  HistoryInv'
  <2>1. /\ deques' = [deques EXCEPT ![who[t]] = Append(@, stamp[t])]
        /\ accepted' = [accepted EXCEPT ![who[t]] = Append(@, stamp[t])]
        /\ UNCHANGED clock
        /\ stamp[t] <= clock /\ clock <= stamp[t] + MaxDelay
        /\ Len(Deque(t)) < MaxPerWindow
    BY <1>4 DEF AppendStamp, StampInv, DequeInv
  <2>2. /\ who[t] \in Principals /\ stamp[t] \in Nat /\ clock \in Nat
        /\ Deque(t) \in Seq(Nat) /\ accepted[who[t]] \in Seq(Nat)
        /\ DOMAIN deques = Principals /\ DOMAIN accepted = Principals
    BY DEF TypeOK, Deque
  <2>3. IsTail(Deque(t), accepted[who[t]])
        /\ History(Deque(t), accepted[who[t]], clock)
    BY <2>2 DEF DequeInv, HistoryInv, Deque
  <2>4. History(Append(Deque(t), stamp[t]),
                Append(accepted[who[t]], stamp[t]), clock)
    BY <2>1, <2>2, <2>3, HistoryAfterAppend
  <2>5. QED
    BY <2>1, <2>2, <2>4 DEF HistoryInv, Deque
<1>5. QED
  BY <1>1, <1>2, <1>3, <1>4
     DEF Next, Quiescent, vars, Step, Check, Acquire, Reject, Admit, Release

-----------------------------------------------------------------------------
(* Counting.                                                               *)

LEMMA LeastElement ==
    ASSUME NEW S, S \subseteq Nat, S # {}
    PROVE  \E m \in S : \A i \in S : m <= i
<1>1. IsWellFoundedOn(OpToRel(<, Nat), Nat)
  BY NatLessThanWellFounded
<1>2. PICK m \in S : \A i \in S : <<i, m>> \notin OpToRel(<, Nat)
  BY <1>1, WFMin
<1>3. \A i \in S : ~(i < m)
  BY <1>2 DEF OpToRel
<1>4. QED
  BY <1>3

\* Indices less than n apart are at most n.
LEMMA FewIndices ==
    ASSUME NEW S, S \subseteq Nat, NEW n \in Nat,
           \A i, j \in S : ~(i + n <= j)
    PROVE  Cardinality(S) <= n
<1>1. CASE S = {}
  <2>1. Cardinality(S) = 0
    BY <1>1, FS_EmptySet
  <2>2. QED
    BY <2>1
<1>2. CASE S # {}
  <2>1. PICK m \in S : \A i \in S : m <= i
    BY <1>2, LeastElement
  <2>2. m \in Nat
    OBVIOUS
  <2>3. S \subseteq m..(m + n - 1)
    BY <2>1, <2>2
  <2>4. /\ IsFiniteSet(m..(m + n - 1))
        /\ Cardinality(m..(m + n - 1))
             = IF m > m + n - 1 THEN 0 ELSE (m + n - 1) - m + 1
    BY <2>2, FS_Interval
  <2>5. Cardinality(m..(m + n - 1)) <= n
    BY <2>2, <2>4
  <2>6. /\ IsFiniteSet(S)
        /\ Cardinality(S) <= Cardinality(m..(m + n - 1))
    BY <2>3, <2>4, FS_Subset
  <2>7. Cardinality(S) \in Nat /\ Cardinality(m..(m + n - 1)) \in Nat
    BY <2>4, <2>6, FS_CardinalityType
  <2>8. QED
    BY <2>5, <2>6, <2>7
<1>3. QED
  BY <1>1, <1>2

\* In every window shorter than the nominal one by MaxDelay a principal has
\* at most max_calls accepted calls: of two calls in it, one is less than a
\* whole allowance after the other.
THEOREM WindowCapUpToDelayHolds == Spec => []WindowCapUpToDelay
<1>1. TypeOK /\ HistoryInv => WindowCapUpToDelay
  <2> SUFFICES ASSUME TypeOK, HistoryInv, NEW p \in Principals,
                      NEW from \in Int
               PROVE  Cardinality(AcceptedIn(p, from, Window - MaxDelay))
                        <= MaxPerWindow
    <3>1. ASSUME TypeOK, NEW q \in Principals, NEW i \in DOMAIN accepted[q]
          PROVE  accepted[q][i] \in Int
      <4>1. accepted[q] \in Seq(Nat)
        BY <3>1 DEF TypeOK
      <4>2. QED
        BY <4>1
    <3>2. QED
      BY <3>1 DEF WindowCapUpToDelay, AtMostIn
  <2> DEFINE S == AcceptedIn(p, from, Window - MaxDelay)
             a == accepted[p]
  <2>1. /\ Len(a) \in Nat /\ DOMAIN a = 1..Len(a)
        /\ \A i \in 1..Len(a) : a[i] \in Nat
    BY DEF TypeOK
  <2>2. /\ S \subseteq 1..Len(a)
        /\ \A i \in S : from <= a[i] /\ a[i] < from + (Window - MaxDelay)
    BY <2>1 DEF AcceptedIn
  <2>3. \A i, j \in 1..Len(a) :
           i + MaxPerWindow <= j => a[i] + Window <= a[j] + MaxDelay
    BY DEF HistoryInv, History
  <2> HIDE DEF S, a
  <2>4. \A i, j \in S : ~(i + MaxPerWindow <= j)
    BY <2>1, <2>2, <2>3
  <2>5. S \subseteq Nat
    BY <2>2
  <2>6. Cardinality(S) <= MaxPerWindow
    BY <2>4, <2>5, FewIndices
  <2>7. QED
    BY <2>6 DEF S
<1>2. Init => StampInv
  BY DEF Init, StampInv
<1>3. QED
  BY <1>1, <1>2, InitTypeOK, NextTypeOK, InitLockInv, NextLockInv,
     InitDequeInv, NextDequeInv, NextStampInv, InitHistoryInv,
     NextHistoryInv, PTL DEF Spec

-----------------------------------------------------------------------------
(* Rejections.                                                             *)

\* Who rejects found the deque full, with a head that is not stale; both
\* stay so while the lock is held.
RejectInv ==
    \A t \in Threads : pc[t] = "rejected" =>
       /\ Len(Deque(t)) >= MaxPerWindow
       /\ Deque(t)[1] > stamp[t] - Window

LEMMA NextRejectInv ==
    TypeOK /\ LockInv /\ RejectInv /\ [Next]_vars => RejectInv'
<1> SUFFICES ASSUME TypeOK, LockInv, RejectInv, [Next]_vars
             PROVE  RejectInv'
  OBVIOUS
<1>1. ASSUME UNCHANGED deques,
             \A t \in Threads : pc'[t] = "rejected" =>
                pc[t] = "rejected" /\ who'[t] = who[t] /\ stamp'[t] = stamp[t]
      PROVE  RejectInv'
  BY <1>1 DEF RejectInv, Deque
<1>2. ASSUME NEW t \in Threads, Step(t)
      PROVE  RejectInv'
  <2>1. CASE Check(t)
    BY <1>1, <2>1 DEF Check, Goto, TypeOK
  <2>2. CASE Acquire(t) \/ Admit(t) \/ Release(t)
    BY <1>1, <2>2 DEF Acquire, Admit, Release, Goto, TypeOK
  <2>3. CASE DropStale(t)
    <3>1. \A s \in Threads : pc'[s] # "rejected"
      BY <2>3 DEF DropStale, LockInv, Critical
    <3>2. QED
      BY <3>1 DEF RejectInv
  <2>4. CASE AppendStamp(t)
    <3>1. \A s \in Threads : pc'[s] # "rejected"
      BY <2>4 DEF AppendStamp, LockInv, Critical, Goto, TypeOK
    <3>2. QED
      BY <3>1 DEF RejectInv
  <2>5. CASE Reject(t)
    <3>1. Len(Deque(t)) >= MaxPerWindow /\ ~HeadIsStale(t)
      BY <2>5 DEF Reject, WindowFull
    <3>2. Deque(t) \in Seq(Nat) /\ stamp[t] \in Nat
      BY DEF TypeOK, Deque
    <3>3. Deque(t) # <<>> /\ Head(Deque(t)) = Deque(t)[1]
          /\ Deque(t)[1] \in Nat
      BY <3>1, <3>2
    <3>4. Deque(t)[1] > stamp[t] - Window
      BY <3>1, <3>2, <3>3 DEF HeadIsStale
    <3>5. UNCHANGED <<deques, who, stamp>>
          /\ \A s \in Threads \ {t} : pc'[s] = pc[s]
      BY <2>5 DEF Reject, Goto, TypeOK
    <3>6. QED
      BY <3>1, <3>4, <3>5 DEF RejectInv, Deque
  <2>6. QED
    BY <1>2, <2>1, <2>2, <2>3, <2>4, <2>5 DEF Step
<1>3. QED
  BY <1>1, <1>2 DEF Next, Quiescent, vars, Tick

\* A call is rejected because of as many calls of its principal as the
\* allowance has, accepted within the window give or take MaxDelay: those in
\* the deque, none of which is much older than its head.
THEOREM RejectionJustifiedHolds == Spec => []RejectionJustified
<1>1. TypeOK /\ StampInv /\ DequeInv /\ HistoryInv /\ RejectInv
        => RejectionJustified
  <2> SUFFICES ASSUME TypeOK, StampInv, DequeInv, HistoryInv, RejectInv,
                      NEW t \in Threads, pc[t] = "rejected"
               PROVE  Cardinality(AcceptedIn(who[t],
                            stamp[t] - Window - MaxDelay + 1,
                            Window + 2 * MaxDelay)) >= MaxPerWindow
    BY DEF RejectionJustified
  <2> DEFINE a == accepted[who[t]]
             d == deques[who[t]]
             x == stamp[t]
             S == AcceptedIn(who[t], x - Window - MaxDelay + 1,
                             Window + 2 * MaxDelay)
             first == Len(a) - Len(d) + 1
             K == first..Len(a)
  <2>1. /\ who[t] \in Principals
        /\ Len(a) \in Nat /\ DOMAIN a = 1..Len(a)
        /\ \A i \in 1..Len(a) : a[i] \in Nat
        /\ Len(d) \in Nat /\ x \in Nat /\ clock \in Nat
    BY DEF TypeOK
  <2>2. /\ Len(d) >= MaxPerWindow /\ d[1] > x - Window
        /\ clock <= x + MaxDelay
    BY DEF RejectInv, Deque, StampInv
  <2>3. /\ Len(d) <= Len(a)
        /\ \A i \in 1..Len(d) : d[i] = a[Len(a) - Len(d) + i]
    BY <2>1 DEF DequeInv, IsTail
  <2>4. /\ \A i \in 1..Len(a) : a[i] <= clock
        /\ \A i, j \in 1..Len(a) : i < j => a[i] <= a[j] + MaxDelay
    BY <2>1 DEF HistoryInv, History
  <2>5. S = {i \in DOMAIN a : /\ x - Window - MaxDelay + 1 <= a[i]
                              /\ a[i] < x - Window - MaxDelay + 1
                                          + (Window + 2 * MaxDelay)}
    BY DEF AcceptedIn
  <2> HIDE DEF a, d, x, S
  <2>6. a[first] > x - Window /\ first \in 1..Len(a)
    <3>1. 1 \in 1..Len(d)
      BY <2>1, <2>2
    <3>2. d[1] = a[first]
      BY <2>3, <3>1
    <3>3. QED
      BY <2>1, <2>2, <2>3, <3>2
  <2>7. ASSUME NEW i \in K
        PROVE  i \in S
    <3>1. i \in 1..Len(a) /\ (i = first \/ first < i)
      BY <2>1, <2>6
    <3>2. a[first] <= a[i] + MaxDelay
      BY <2>1, <2>4, <2>6, <3>1
    <3>3. a[i] <= x + MaxDelay
      BY <2>1, <2>2, <2>4, <3>1
    <3>4. a[i] \in Nat /\ a[first] \in Nat
      BY <2>1, <2>6, <3>1
    <3>5. x - Window - MaxDelay + 1 <= a[i]
      BY <2>1, <2>6, <3>2, <3>4
    <3>6. a[i] < x - Window - MaxDelay + 1 + (Window + 2 * MaxDelay)
      BY <2>1, <3>3, <3>4
    <3>7. QED
      BY <2>1, <2>5, <3>1, <3>5, <3>6
  <2>8. Cardinality(K) = IF first > Len(a) THEN 0 ELSE Len(a) - first + 1
    <3>1. first \in Int /\ Len(a) \in Int
      BY <2>1
    <3> HIDE DEF first
    <3>2. QED
      BY <3>1, FS_Interval
  <2>9. Cardinality(K) = Len(d)
    BY <2>1, <2>3, <2>6, <2>8
  <2>10. IsFiniteSet(S)
    <3>1. IsFiniteSet(1..Len(a))
      BY <2>1, FS_Interval
    <3>2. S \subseteq 1..Len(a)
      BY <2>1, <2>5
    <3>3. QED
      BY <3>1, <3>2, FS_Subset
  <2>11. Cardinality(K) <= Cardinality(S)
    <3>1. K \subseteq S
      BY <2>7
    <3>2. QED
      BY <2>10, <3>1, FS_Subset
  <2>12. Cardinality(S) \in Nat
    BY <2>10, FS_CardinalityType
  <2>13. Cardinality(S) >= MaxPerWindow
    BY <2>1, <2>2, <2>9, <2>11, <2>12
  <2>14. QED
    BY <2>13 DEF S, x
<1>2. Init => StampInv /\ RejectInv
  BY DEF Init, StampInv, RejectInv
<1>3. QED
  BY <1>1, <1>2, InitTypeOK, NextTypeOK, InitLockInv, NextLockInv,
     InitDequeInv, NextDequeInv, NextStampInv, InitHistoryInv,
     NextHistoryInv, NextRejectInv, PTL DEF Spec
=============================================================================
