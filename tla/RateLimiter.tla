---------------------------- MODULE RateLimiter -----------------------------
(***************************************************************************)
(* The per-principal rate limiter every tool call passes                   *)
(* (src/src/server.py, _PrincipalRateLimiter): a deque of accepted time    *)
(* stamps per principal, under one lock.                                   *)
(*                                                                         *)
(* check() reads the monotonic clock BEFORE it takes the lock, so threads  *)
(* may enter the critical section in another order than the one of their   *)
(* stamps: the deque need not be sorted, and a late thread works with a    *)
(* cutoff older than the one the previous thread used.  MaxDelay bounds    *)
(* how long a thread may wait between the two; what the limiter guarantees *)
(* depends on it.                                                          *)
(***************************************************************************)
EXTENDS Integers, Sequences, FiniteSets

CONSTANTS
    Threads,
    NoThread,
    Principals,
    MaxPerWindow,       \* max_calls
    Window,             \* window_seconds, in clock ticks
    MaxDelay,           \* assumption: ticks between the stamp and the lock
    MaxTime,            \* bound: last instant of the clock
    MaxChecks           \* bound: number of calls of a behaviour

ASSUME ThreadsAssumption == NoThread \notin Threads
ASSUME LimiterAssumption ==
    /\ MaxPerWindow \in Nat \ {0}
    /\ Window \in Nat \ {0}
    /\ MaxDelay \in Nat
    /\ MaxTime \in Nat
    /\ MaxChecks \in Nat

VARIABLES
    clock,      \* time.monotonic()
    lock,       \* holder of _lock
    deques,     \* _calls: the stamps of each principal, oldest call first
    pc,
    who,        \* principal_id of the call of each thread
    stamp,      \* its local variable now
    accepted,   \* history: stamps of the accepted calls, in lock order
    checks      \* number of calls made, for the bound

vars == <<clock, lock, deques, pc, who, stamp, accepted, checks>>

Steps == {"idle", "acquire", "drop", "append", "rejected", "release"}

TypeOK ==
    /\ clock \in Nat
    /\ lock \in Threads \cup {NoThread}
    /\ deques \in [Principals -> Seq(Nat)]
    /\ pc \in [Threads -> Steps]
    /\ who \in [Threads -> Principals]
    /\ stamp \in [Threads -> Nat]
    /\ accepted \in [Principals -> Seq(Nat)]
    /\ checks \in Nat

Init ==
    /\ clock = 0
    /\ lock = NoThread
    /\ deques = [p \in Principals |-> <<>>]
    /\ pc = [t \in Threads |-> "idle"]
    /\ who \in [Threads -> Principals]
    /\ stamp = [t \in Threads |-> 0]
    /\ accepted = [p \in Principals |-> <<>>]
    /\ checks = 0

Goto(t, step) == pc' = [pc EXCEPT ![t] = step]

-----------------------------------------------------------------------------
\* Time passes, but no thread is kept from the lock, or in it, for longer
\* than MaxDelay after it read the clock.
Tick ==
    /\ clock < MaxTime
    /\ \A t \in Threads : pc[t] # "idle" => clock - stamp[t] < MaxDelay
    /\ clock' = clock + 1
    /\ UNCHANGED <<lock, deques, pc, who, stamp, accepted, checks>>

\* now = time.monotonic(), outside the lock.
Check(t) ==
    /\ pc[t] = "idle"
    /\ checks < MaxChecks
    /\ \E p \in Principals : who' = [who EXCEPT ![t] = p]
    /\ stamp' = [stamp EXCEPT ![t] = clock]
    /\ checks' = checks + 1
    /\ Goto(t, "acquire")
    /\ UNCHANGED <<clock, lock, deques, accepted>>

\* Wrong variant: the deques are used without the lock.
NoLock == TRUE

LockFree == lock = NoThread

Acquire(t) ==
    /\ pc[t] = "acquire"
    /\ LockFree
    /\ lock' = t
    /\ Goto(t, "drop")
    /\ UNCHANGED <<clock, deques, who, stamp, accepted, checks>>

Deque(t) == deques[who[t]]

\* Wrong variant: the window is one tick too short.
StaleEarly(t) ==
    Deque(t) # <<>> /\ Head(Deque(t)) <= stamp[t] - (Window - 1)

\* calls and calls[0] <= now - window_seconds
HeadIsStale(t) == Deque(t) # <<>> /\ Head(Deque(t)) <= stamp[t] - Window

DropStale(t) ==
    /\ pc[t] = "drop"
    /\ HeadIsStale(t)
    /\ deques' = [deques EXCEPT ![who[t]] = Tail(@)]
    /\ UNCHANGED <<clock, lock, pc, who, stamp, accepted, checks>>

\* Wrong variant: all principals share one allowance.
SharedWindowFull(t) ==
    \E p \in Principals : Len(deques[p]) >= MaxPerWindow

WindowFull(t) == Len(Deque(t)) >= MaxPerWindow

Reject(t) ==
    /\ pc[t] = "drop"
    /\ ~HeadIsStale(t)
    /\ WindowFull(t)
    /\ Goto(t, "rejected")
    /\ UNCHANGED <<clock, lock, deques, who, stamp, accepted, checks>>

Admit(t) ==
    /\ pc[t] = "drop"
    /\ ~HeadIsStale(t)
    /\ ~WindowFull(t)
    /\ Goto(t, "append")
    /\ UNCHANGED <<clock, lock, deques, who, stamp, accepted, checks>>

\* Wrong variant: the cutoff is stored in place of the stamp.
AppendCutoff(t) ==
    /\ pc[t] = "append"
    /\ deques' = [deques EXCEPT ![who[t]] = Append(@, stamp[t] - Window)]
    /\ accepted' = [accepted EXCEPT ![who[t]] = Append(@, stamp[t])]
    /\ Goto(t, "release")
    /\ UNCHANGED <<clock, lock, who, stamp, checks>>

AppendStamp(t) ==
    /\ pc[t] = "append"
    /\ deques' = [deques EXCEPT ![who[t]] = Append(@, stamp[t])]
    /\ accepted' = [accepted EXCEPT ![who[t]] = Append(@, stamp[t])]
    /\ Goto(t, "release")
    /\ UNCHANGED <<clock, lock, who, stamp, checks>>

\* Leaving the with block, normally or with RateLimitExceededError.
Release(t) ==
    /\ pc[t] \in {"release", "rejected"}
    /\ lock' = NoThread
    /\ Goto(t, "idle")
    /\ stamp' = [stamp EXCEPT ![t] = 0]
    /\ UNCHANGED <<clock, deques, who, accepted, checks>>

\* The bounded environment has nothing left to do.
Quiescent ==
    /\ clock = MaxTime
    /\ \A t \in Threads : pc[t] = "idle"
    /\ checks = MaxChecks
    /\ UNCHANGED vars

Step(t) ==
    \/ Check(t)
    \/ Acquire(t)
    \/ DropStale(t)
    \/ Reject(t)
    \/ Admit(t)
    \/ AppendStamp(t)
    \/ Release(t)

Next == Tick \/ Quiescent \/ \E t \in Threads : Step(t)

Spec == Init /\ [][Next]_vars

-----------------------------------------------------------------------------
(* What must hold.                                                         *)

\* Calls of p accepted with a stamp in the ticks from..from+length-1.
AcceptedIn(p, from, length) ==
    {i \in DOMAIN accepted[p] : /\ from <= accepted[p][i]
                                /\ accepted[p][i] < from + length}

AtMostIn(length) ==
    \A p \in Principals : \A i \in DOMAIN accepted[p] :
       Cardinality(AcceptedIn(p, accepted[p][i], length)) <= MaxPerWindow

\* In every window shorter than the nominal one by the scheduling delay, a
\* principal has at most max_calls accepted calls, although stamps are read
\* outside the lock and the deque may be out of order.
WindowCapUpToDelay == AtMostIn(Window - MaxDelay)

\* The documented limit: at most max_calls accepted calls in every window.
WindowCap == AtMostIn(Window)

\* A rejected call is rejected because of calls of the same principal, all
\* accepted within the window, give or take the scheduling delay: no other
\* principal's calls and no stale ones use up the allowance.
RejectionJustified ==
    \A t \in Threads : pc[t] = "rejected" =>
       Cardinality(AcceptedIn(who[t], stamp[t] - Window - MaxDelay + 1,
                              Window + 2 * MaxDelay)) >= MaxPerWindow

\* The deque of a principal is the tail of its accepted calls: only a prefix
\* of the oldest acceptances is ever forgotten, and at most max_calls are
\* kept, so the memory of a principal is bounded.
DequeIsRecentTail ==
    \A p \in Principals :
       LET gone == Len(accepted[p]) - Len(deques[p]) IN
       /\ gone >= 0
       /\ Len(deques[p]) <= MaxPerWindow
       /\ \A i \in DOMAIN deques[p] : deques[p][i] = accepted[p][gone + i]
=============================================================================
