------------------------ MODULE SandboxRunnerProofs -------------------------
(***************************************************************************)
(* Proofs about the sandbox runner, for any finite set of calls and any    *)
(* number of slots.                                                        *)
(***************************************************************************)
EXTENDS SandboxRunner, FiniteSetTheorems, TLAPS

USE RunsAssumption, MaxConcurrentAssumption

-----------------------------------------------------------------------------
(* Types, but for the number of free slots, which needs the invariant that *)
(* says where they are.                                                    *)

RunTypes ==
    /\ slots \in Int
    /\ pc \in [Runs -> Steps]
    /\ outcome \in [Runs -> Outcomes]
    /\ handle \in [Runs -> BOOLEAN]
    /\ cleaned \in [Runs -> BOOLEAN]
    /\ box \in [Runs -> {"none", "running", "exited", "gone"}]
    /\ image \in BOOLEAN
    /\ pulled \in BOOLEAN
    /\ removed \in BOOLEAN
    /\ timedOut \in [Runs -> BOOLEAN]
    /\ abandoned \subseteq Runs

LEMMA InitRunTypes == Init => RunTypes
<1> SUFFICES ASSUME Init PROVE RunTypes
  OBVIOUS
<1>1. slots \in Int
  BY DEF Init
<1>2. /\ pc \in [Runs -> Steps] /\ outcome \in [Runs -> Outcomes]
      /\ box \in [Runs -> {"none", "running", "exited", "gone"}]
  BY DEF Init, Steps, Outcomes
<1>3. /\ handle \in [Runs -> BOOLEAN] /\ cleaned \in [Runs -> BOOLEAN]
      /\ timedOut \in [Runs -> BOOLEAN]
  BY DEF Init
<1>4. image \in BOOLEAN /\ pulled \in BOOLEAN /\ removed \in BOOLEAN
      /\ abandoned \subseteq Runs
  BY DEF Init
<1>5. QED
  BY <1>1, <1>2, <1>3, <1>4 DEF RunTypes

LEMMA StepRunTypes ==
    ASSUME RunTypes, NEW r \in Runs, Step(r)
    PROVE  RunTypes'
<1> USE DEF RunTypes, Steps, SlotSteps, Outcomes, Goto, Conclude, images,
            Raised
<1>1. CASE Validate(r) \/ Connect(r) \/ CheckImage(r)
  BY <1>1 DEF Validate, Connect, CheckImage, Advance
<1>2. CASE Acquire(r)
  BY <1>2 DEF Acquire
<1>3. CASE Launch(r)
  BY <1>3 DEF Launch, Fetch
<1>4. CASE LaunchFails(r)
  <2>1. image' \in BOOLEAN /\ pulled' \in BOOLEAN /\ removed' \in BOOLEAN
    BY <1>4 DEF LaunchFails, Fetch
  <2>2. /\ pc' \in [Runs -> Steps] /\ outcome' \in [Runs -> Outcomes]
        /\ abandoned' \subseteq Runs
        /\ box' \in [Runs -> {"none", "running", "exited", "gone"}]
    BY <1>4 DEF LaunchFails
  <2>3. UNCHANGED <<slots, handle, cleaned, timedOut>>
    BY <1>4 DEF LaunchFails
  <2>4. QED
    BY <2>1, <2>2, <2>3
<1>5. CASE WaitReturns(r) \/ WaitTimesOut(r) \/ WaitFails(r)
  <2>1. CASE WaitReturns(r)
    BY <2>1 DEF WaitReturns
  <2>2. CASE WaitTimesOut(r)
    BY <2>2 DEF WaitTimesOut
  <2>3. CASE WaitFails(r)
    BY <2>3 DEF WaitFails
  <2>4. QED
    BY <1>5, <2>1, <2>2, <2>3
<1>6. CASE Kill(r) \/ Stop(r) \/ Reap(r)
  BY <1>6 DEF Kill, Stop, Reap, Terminate
<1>7. CASE RemoveTimedOut(r)
  BY <1>7 DEF RemoveTimedOut, TryRemove
<1>8. CASE ReadStdout(r) \/ ReadStderr(r)
  BY <1>8 DEF ReadStdout, ReadStderr
<1>9. CASE Finally(r)
  BY <1>9 DEF Finally, TryRemove
<1>10. CASE Free(r)
  BY <1>10 DEF Free
<1>11. QED
  BY <1>1, <1>2, <1>3, <1>4, <1>5, <1>6, <1>7, <1>8, <1>9, <1>10
     DEF Step, Progress, CleanUp

LEMMA NextRunTypes ==
    ASSUME RunTypes, [Next]_vars
    PROVE  RunTypes'
<1>1. CASE UNCHANGED vars
  BY <1>1 DEF vars, RunTypes
<1>2. CASE RemoveImage
  BY <1>2 DEF RemoveImage, RunTypes
<1>3. ASSUME NEW r \in Runs, Exit(r)
      PROVE  RunTypes'
  BY <1>3 DEF Exit, RunTypes, images
<1>4. QED
  BY <1>1, <1>2, <1>3, StepRunTypes DEF Next, Quiescent

-----------------------------------------------------------------------------
(* What holds of one call.                                                 *)

Early == {"start", "connect", "lookup", "acquire", "launch"}
Waiting == {"wait", "stdout", "stderr"}
Cleaning == {"kill", "stop", "reap", "remove"}
Late == {"finally", "free", "done"}

\* The timeout is known from the wait on and is the outcome in the end; a
\* container that is not given up belongs to a call that will remove it.
RunInv(r) ==
    /\ pc[r] \in Early =>
          box[r] = "none" /\ cleaned[r] = FALSE /\ timedOut[r] = FALSE
    /\ pc[r] \in Waiting \cup Cleaning =>
          handle[r] = TRUE /\ cleaned[r] = FALSE
    /\ pc[r] \in Waiting => timedOut[r] = FALSE
    /\ pc[r] \in Cleaning => timedOut[r] = TRUE
    /\ pc[r] \in Late => (timedOut[r] = TRUE <=> outcome[r] = "timeout")
    /\ Exists(r) /\ r \notin abandoned =>
          \/ pc[r] \in Waiting \cup Cleaning
          \/ pc[r] = "finally" /\ handle[r] = TRUE /\ cleaned[r] = FALSE

\* A step of r is none of q.
Apart(q) ==
    /\ pc'[q] = pc[q]
    /\ outcome'[q] = outcome[q]
    /\ handle'[q] = handle[q]
    /\ cleaned'[q] = cleaned[q]
    /\ box'[q] = box[q]
    /\ timedOut'[q] = timedOut[q]
    /\ q \in abandoned' <=> q \in abandoned

LEMMA ApartRunInv ==
    ASSUME NEW q, RunInv(q), Apart(q)
    PROVE  RunInv(q)'
BY DEF RunInv, Apart, Exists

LEMMA StepApart ==
    ASSUME RunTypes, NEW r \in Runs, Step(r), NEW q \in Runs \ {r}
    PROVE  Apart(q)
<1> USE DEF RunTypes, Goto, Conclude, images, Apart
<1>1. CASE Validate(r) \/ Connect(r) \/ CheckImage(r)
  BY <1>1 DEF Validate, Connect, CheckImage, Advance
<1>2. CASE Acquire(r)
  BY <1>2 DEF Acquire
<1>3. CASE Launch(r)
  BY <1>3 DEF Launch
<1>4. CASE LaunchFails(r)
  BY <1>4 DEF LaunchFails
<1>5. CASE WaitReturns(r) \/ WaitTimesOut(r) \/ WaitFails(r)
  BY <1>5 DEF WaitReturns, WaitTimesOut, WaitFails
<1>6. CASE Kill(r) \/ Stop(r) \/ Reap(r)
  BY <1>6 DEF Kill, Stop, Reap, Terminate
<1>7. CASE RemoveTimedOut(r)
  BY <1>7 DEF RemoveTimedOut, TryRemove
<1>8. CASE ReadStdout(r) \/ ReadStderr(r)
  BY <1>8 DEF ReadStdout, ReadStderr
<1>9. CASE Finally(r)
  BY <1>9 DEF Finally, TryRemove
<1>10. CASE Free(r)
  BY <1>10 DEF Free
<1>11. QED
  BY <1>1, <1>2, <1>3, <1>4, <1>5, <1>6, <1>7, <1>8, <1>9, <1>10
     DEF Step, Progress, CleanUp

LEMMA StepRunInv ==
    ASSUME RunTypes, NEW r \in Runs, RunInv(r), Step(r)
    PROVE  RunInv(r)'
<1> USE DEF RunTypes, RunInv, Exists, Goto, Conclude, Early, Waiting,
            Cleaning, Late
<1>1. CASE Validate(r) \/ Connect(r) \/ CheckImage(r)
  BY <1>1 DEF Validate, Connect, CheckImage, Advance, Raised
<1>2. CASE Acquire(r)
  BY <1>2 DEF Acquire
<1>3. CASE Launch(r)
  BY <1>3 DEF Launch
<1>4. CASE LaunchFails(r)
  BY <1>4 DEF LaunchFails, Raised
<1>5. CASE WaitReturns(r) \/ WaitTimesOut(r) \/ WaitFails(r)
  BY <1>5 DEF WaitReturns, WaitTimesOut, WaitFails, Raised
<1>6. CASE Kill(r) \/ Stop(r) \/ Reap(r)
  BY <1>6 DEF Kill, Stop, Reap, Terminate
<1>7. CASE RemoveTimedOut(r)
  BY <1>7 DEF RemoveTimedOut, TryRemove
<1>8. CASE ReadStdout(r) \/ ReadStderr(r)
  BY <1>8 DEF ReadStdout, ReadStderr
<1>9. CASE Finally(r)
  BY <1>9 DEF Finally, TryRemove
<1>10. CASE Free(r)
  BY <1>10 DEF Free
<1>11. QED
  BY <1>1, <1>2, <1>3, <1>4, <1>5, <1>6, <1>7, <1>8, <1>9, <1>10
     DEF Step, Progress, CleanUp

LEMMA ExitRunInv ==
    ASSUME RunTypes, NEW r \in Runs, NEW q \in Runs, RunInv(q), Exit(r)
    PROVE  RunInv(q)'
BY DEF RunTypes, RunInv, Exit, Exists, images

RunsInv == \A r \in Runs : RunInv(r)

LEMMA NextRunsInv ==
    ASSUME RunTypes, RunsInv, [Next]_vars
    PROVE  RunsInv'
<1>1. CASE UNCHANGED vars
  BY <1>1 DEF vars, RunsInv, RunInv, Exists
<1>2. CASE RemoveImage
  BY <1>2 DEF RemoveImage, RunsInv, RunInv, Exists
<1>3. ASSUME NEW r \in Runs, Exit(r)
      PROVE  RunsInv'
  BY <1>3, ExitRunInv DEF RunsInv
<1>4. ASSUME NEW r \in Runs, Step(r)
      PROVE  RunsInv'
  <2>1. ASSUME NEW q \in Runs
        PROVE  RunInv(q)'
    <3>1. CASE q = r
      BY <1>4, <3>1, StepRunInv DEF RunsInv
    <3>2. CASE q # r
      BY <1>4, <3>2, StepApart, ApartRunInv DEF RunsInv
    <3>3. QED
      BY <3>1, <3>2
  <2>2. QED
    BY <2>1 DEF RunsInv
<1>5. QED
  BY <1>1, <1>2, <1>3, <1>4 DEF Next, Quiescent

\* A call whose wait timed out answers with the timeout, and no other does.
THEOREM TimeoutReportedHolds == Spec => []TimeoutReported
<1>1. Init => RunsInv
  BY DEF Init, RunsInv, RunInv, Exists, Early, Waiting, Cleaning, Late
<1>2. RunTypes /\ RunsInv => TimeoutReported
  BY DEF RunTypes, RunsInv, RunInv, TimeoutReported, Late
<1>3. QED
  BY <1>1, <1>2, InitRunTypes, NextRunTypes, NextRunsInv, PTL DEF Spec

-----------------------------------------------------------------------------
(* Slots.                                                                  *)

Holders == {r \in Runs : HoldsSlot(r)}

LEMMA HoldersFinite == IsFiniteSet(Holders) /\ Cardinality(Holders) \in Nat
<1>1. Holders \subseteq Runs
  BY DEF Holders
<1>2. QED
  BY <1>1, FS_Subset, FS_CardinalityType

\* What a step does to the semaphore and to who holds a slot.
LEMMA StepSlots ==
    ASSUME RunTypes, NEW r \in Runs, Step(r)
    PROVE  \/ UNCHANGED slots /\ HoldsSlot(r)' = HoldsSlot(r)
           \/ slots > 0 /\ slots' = slots - 1
              /\ ~HoldsSlot(r) /\ HoldsSlot(r)'
           \/ slots' = slots + 1 /\ HoldsSlot(r) /\ ~HoldsSlot(r)'
<1> USE DEF RunTypes, HoldsSlot, SlotSteps, Goto, Conclude
<1>1. CASE Validate(r) \/ Connect(r) \/ CheckImage(r)
  BY <1>1 DEF Validate, Connect, CheckImage, Advance
<1>2. CASE Acquire(r)
  BY <1>2 DEF Acquire
<1>3. CASE Launch(r) \/ LaunchFails(r)
  BY <1>3 DEF Launch, LaunchFails
<1>4. CASE WaitReturns(r) \/ WaitTimesOut(r) \/ WaitFails(r)
  BY <1>4 DEF WaitReturns, WaitTimesOut, WaitFails
<1>5. CASE Kill(r) \/ Stop(r) \/ Reap(r) \/ RemoveTimedOut(r)
  BY <1>5 DEF Kill, Stop, Reap, Terminate, RemoveTimedOut
<1>6. CASE ReadStdout(r) \/ ReadStderr(r)
  BY <1>6 DEF ReadStdout, ReadStderr
<1>7. CASE Finally(r)
  BY <1>7 DEF Finally
<1>8. CASE Free(r)
  BY <1>8 DEF Free
<1>9. QED
  BY <1>1, <1>2, <1>3, <1>4, <1>5, <1>6, <1>7, <1>8
     DEF Step, Progress, CleanUp

SlotsInv == slots >= 0 /\ slots = MaxConcurrent - Cardinality(Holders)

LEMMA NextSlotsInv ==
    ASSUME RunTypes, SlotsInv, [Next]_vars
    PROVE  SlotsInv'
<1>1. ASSUME UNCHANGED <<slots, pc>>
      PROVE  SlotsInv'
  BY <1>1 DEF SlotsInv, Holders, HoldsSlot
<1>2. ASSUME NEW r \in Runs, Step(r)
      PROVE  SlotsInv'
  <2>1. \A q \in Runs \ {r} : HoldsSlot(q)' = HoldsSlot(q)
    BY <1>2, StepApart DEF Apart, HoldsSlot
  <2>2. Holders \subseteq Runs /\ Holders' \subseteq Runs
    BY DEF Holders
  <2>3. \A q \in Runs \ {r} : q \in Holders' <=> q \in Holders
    BY <2>1 DEF Holders
  <2>4. IsFiniteSet(Holders) /\ Cardinality(Holders) \in Nat /\ slots \in Int
    BY HoldersFinite DEF RunTypes
  <2>5. CASE UNCHANGED slots /\ HoldsSlot(r)' = HoldsSlot(r)
    <3>1. r \in Holders' <=> r \in Holders
      BY <2>5 DEF Holders
    <3>2. Holders' = Holders
      BY <2>2, <2>3, <3>1
    <3>3. QED
      BY <2>5, <3>2 DEF SlotsInv
  <2>6. CASE slots > 0 /\ slots' = slots - 1 /\ ~HoldsSlot(r) /\ HoldsSlot(r)'
    <3>1. r \notin Holders /\ r \in Holders'
      BY <2>6 DEF Holders
    <3>2. Holders' = Holders \cup {r}
      BY <2>2, <2>3, <3>1
    <3>3. Cardinality(Holders') = Cardinality(Holders) + 1
      BY <2>4, <3>1, <3>2, FS_AddElement
    <3>4. QED
      BY <2>4, <2>6, <3>3 DEF SlotsInv
  <2>7. CASE slots' = slots + 1 /\ HoldsSlot(r) /\ ~HoldsSlot(r)'
    <3>1. r \in Holders /\ r \notin Holders'
      BY <2>7 DEF Holders
    <3>2. Holders' = Holders \ {r}
      BY <2>2, <2>3, <3>1
    <3>3. Cardinality(Holders') = Cardinality(Holders) - 1
      BY <2>4, <3>1, <3>2, FS_RemoveElement
    <3>4. QED
      BY <2>4, <2>7, <3>3 DEF SlotsInv
  <2>8. QED
    BY <1>2, <2>5, <2>6, <2>7, StepSlots
<1>3. QED
  BY <1>1, <1>2 DEF Next, Quiescent, vars, RemoveImage, Exit

LEMMA InitSlotsInv == Init => SlotsInv
<1> SUFFICES ASSUME Init PROVE SlotsInv
  OBVIOUS
<1>1. Holders = {}
  BY DEF Init, Holders, HoldsSlot, SlotSteps
<1>2. Cardinality(Holders) = 0
  BY <1>1, FS_EmptySet
<1>3. QED
  BY <1>2 DEF Init, SlotsInv

\* The semaphore counts the calls between acquire and release.
THEOREM SlotsConservedHolds == Spec => []SlotsConserved
<1>1. SlotsInv => SlotsConserved
  BY DEF SlotsInv, SlotsConserved, Holders
<1>2. QED
  BY <1>1, InitRunTypes, NextRunTypes, InitSlotsInv, NextSlotsInv, PTL
     DEF Spec

\* The state is of its type: in particular the semaphore never counts more
\* than max_concurrent slots, nor fewer than none.
THEOREM TypeCorrect == Spec => []TypeOK
<1>1. RunTypes /\ SlotsInv => TypeOK
  <2> SUFFICES ASSUME RunTypes, SlotsInv PROVE TypeOK
    OBVIOUS
  <2>1. slots \in 0..MaxConcurrent
    BY HoldersFinite DEF RunTypes, SlotsInv
  <2>2. QED
    BY <2>1 DEF RunTypes, TypeOK
<1>2. QED
  BY <1>1, InitRunTypes, NextRunTypes, InitSlotsInv, NextSlotsInv, PTL
     DEF Spec

\* A container has a call with a slot or was given up, so that at most
\* max_concurrent exist beyond those given up.
THEOREM ContainersOwnedHolds == Spec => []ContainersOwned
<1>1. Init => RunsInv
  BY DEF Init, RunsInv, RunInv, Exists, Early, Waiting, Cleaning, Late
<1>2. RunTypes /\ RunsInv /\ SlotsInv => ContainersOwned
  <2> SUFFICES ASSUME RunTypes, RunsInv, SlotsInv PROVE ContainersOwned
    OBVIOUS
  <2>1. \A r \in Runs : Exists(r) => HoldsSlot(r) \/ r \in abandoned
    BY DEF RunTypes, RunsInv, RunInv, HoldsSlot, SlotSteps, Waiting, Cleaning
  <2> DEFINE kept == {r \in Runs : Exists(r) /\ r \notin abandoned}
  <2>2. kept \subseteq Holders
    BY <2>1 DEF Holders
  <2>3. Cardinality(kept) <= Cardinality(Holders)
        /\ IsFiniteSet(kept)
    BY <2>2, HoldersFinite, FS_Subset
  <2>4. Cardinality(kept) \in Nat
    BY <2>3, FS_CardinalityType
  <2>5. Cardinality(kept) <= MaxConcurrent
    BY <2>3, <2>4, HoldersFinite DEF RunTypes, SlotsInv
  <2>6. QED
    BY <2>1, <2>5 DEF ContainersOwned
<1>3. QED
  BY <1>1, <1>2, InitRunTypes, NextRunTypes, NextRunsInv, InitSlotsInv,
     NextSlotsInv, PTL DEF Spec

-----------------------------------------------------------------------------
(* The image.                                                              *)

\* While a call relies on its check of the image, the image is there or was
\* removed since.
ImageInv ==
    /\ pulled = TRUE => removed = TRUE
    /\ \A r \in Runs :
          pc[r] \in {"acquire", "launch"} => image = TRUE \/ removed = TRUE

LEMMA StepImageInv ==
    ASSUME RunTypes, ImageInv, NEW r \in Runs, Step(r)
    PROVE  ImageInv'
<1>1. \A q \in Runs \ {r} : pc'[q] = pc[q]
  BY StepApart DEF Apart
<1>2. CASE CheckImage(r)
  <2>1. pc'[r] = "acquire" => image = TRUE
    BY <1>2 DEF CheckImage, RunTypes
  <2>2. UNCHANGED images /\ pc'[r] # "launch"
    BY <1>2 DEF CheckImage, Advance, Goto, Conclude, RunTypes
  <2>3. QED
    BY <1>1, <2>1, <2>2 DEF ImageInv, images
<1>3. ASSUME UNCHANGED images,
             pc'[r] \in {"acquire", "launch"} =>
                pc[r] \in {"acquire", "launch"}
      PROVE  ImageInv'
  BY <1>1, <1>3 DEF ImageInv, images
<1>4. ASSUME Fetch, pc[r] = "launch"
      PROVE  ImageInv'
  <2>1. image' = TRUE /\ removed' = removed
    BY <1>4 DEF Fetch
  <2>2. pulled' = TRUE => removed' = TRUE
    BY <1>4 DEF Fetch, ImageInv, RunTypes
  <2>3. QED
    BY <2>1, <2>2 DEF ImageInv
<1>5. CASE Launch(r)
  BY <1>4, <1>5 DEF Launch
<1>6. CASE LaunchFails(r)
  <2>1. pc[r] = "launch" /\ pc'[r] = "finally"
    BY <1>6 DEF LaunchFails, Conclude, Goto, RunTypes
  <2>2. QED
    BY <1>3, <1>4, <1>6, <2>1 DEF LaunchFails
<1>7. CASE Validate(r) \/ Connect(r) \/ Acquire(r)
  BY <1>3, <1>7
     DEF Validate, Connect, Advance, Acquire, Goto, Conclude, RunTypes
<1>8. CASE WaitReturns(r) \/ WaitTimesOut(r) \/ WaitFails(r)
  BY <1>3, <1>8
     DEF WaitReturns, WaitTimesOut, WaitFails, Goto, Conclude, RunTypes
<1>9. CASE Kill(r) \/ Stop(r) \/ Reap(r) \/ RemoveTimedOut(r)
  BY <1>3, <1>9
     DEF Kill, Stop, Reap, Terminate, RemoveTimedOut, Goto, Conclude, RunTypes
<1>10. CASE ReadStdout(r) \/ ReadStderr(r) \/ Finally(r) \/ Free(r)
  BY <1>3, <1>10
     DEF ReadStdout, ReadStderr, Finally, Free, Goto, Conclude, RunTypes
<1>11. QED
  BY <1>2, <1>5, <1>6, <1>7, <1>8, <1>9, <1>10 DEF Step, Progress, CleanUp

LEMMA NextImageInv ==
    ASSUME RunTypes, ImageInv, [Next]_vars
    PROVE  ImageInv'
<1>1. CASE RemoveImage
  <2>1. UNCHANGED <<pc, pulled>>
        /\ (removed = TRUE => removed' = TRUE)
        /\ ((\E r \in Runs : pc[r] \in {"acquire", "launch"})
               => removed' = TRUE)
    BY <1>1 DEF RemoveImage, RunTypes
  <2>2. QED
    BY <2>1 DEF ImageInv
<1>2. ASSUME UNCHANGED <<pc, images>>
      PROVE  ImageInv'
  BY <1>2 DEF ImageInv, images
<1>3. QED
  BY <1>1, <1>2, StepImageInv DEF Next, Quiescent, vars, Exit, images

\* The client pulls only an image that was removed under the feet of a call.
THEOREM PulledOnlyIfRemovedHolds == Spec => []PulledOnlyIfRemoved
<1>1. Init => ImageInv
  BY DEF Init, ImageInv
<1>2. RunTypes /\ ImageInv => PulledOnlyIfRemoved
  BY DEF RunTypes, ImageInv, PulledOnlyIfRemoved
<1>3. QED
  BY <1>1, <1>2, InitRunTypes, NextRunTypes, NextImageInv, PTL DEF Spec

-----------------------------------------------------------------------------
(* How long a call takes.  This is the part of RunEnds that does not       *)
(* depend on fairness: a measure of what a call has still to do.           *)

\* A bound on the steps of a call from here on, along the longest path: the
\* clean-up after a time-out.
StepsToGo(step) ==
    CASE step = "start" -> 12
      [] step = "connect" -> 11
      [] step = "lookup" -> 10
      [] step = "acquire" -> 9
      [] step = "launch" -> 8
      [] step = "wait" -> 7
      [] step = "kill" -> 6
      [] step = "stop" -> 5
      [] step = "reap" -> 4
      [] step \in {"remove", "stderr"} -> 3
      [] step = "stdout" -> 4
      [] step = "finally" -> 2
      [] step = "free" -> 1
      [] OTHER -> 0

\* Whichever call of the daemon fails, a call never goes back: each step of
\* its thread leaves it less to do, and nothing else moves it.
CallsAdvance ==
    \A r \in Runs :
       IF Step(r) THEN StepsToGo(pc'[r]) < StepsToGo(pc[r])
                  ELSE pc'[r] = pc[r]

\* A step of the thread of r is r's own and goes forward.
LEMMA StepAdvances ==
    ASSUME RunTypes, NEW r \in Runs, Step(r)
    PROVE  /\ StepsToGo(pc'[r]) < StepsToGo(pc[r])
           /\ \A q \in Runs \ {r} : pc'[q] = pc[q]
<1>1. PICK step \in Steps : pc' = [pc EXCEPT ![r] = step]
  BY DEF Step, Progress, Validate, Connect, CheckImage, Advance, Acquire,
     Launch, WaitReturns, WaitTimesOut, CleanUp, Kill, Stop, Reap, Terminate,
     RemoveTimedOut, ReadStdout, ReadStderr, Finally, Free, LaunchFails,
     WaitFails, Conclude, Goto, Steps, SlotSteps
<1>2. pc \in [Runs -> Steps]
  BY DEF RunTypes
<1>3. \/ pc[r] = "start" /\ pc'[r] \in {"connect", "done"}
      \/ pc[r] = "connect" /\ pc'[r] \in {"lookup", "done"}
      \/ pc[r] = "lookup" /\ pc'[r] \in {"acquire", "done"}
      \/ pc[r] = "acquire" /\ pc'[r] \in {"launch", "done"}
      \/ pc[r] = "launch" /\ pc'[r] \in {"wait", "finally"}
      \/ pc[r] = "wait" /\ pc'[r] \in {"stdout", "kill", "finally"}
      \/ pc[r] = "kill" /\ pc'[r] = "stop"
      \/ pc[r] = "stop" /\ pc'[r] = "reap"
      \/ pc[r] = "reap" /\ pc'[r] = "remove"
      \/ pc[r] = "remove" /\ pc'[r] = "finally"
      \/ pc[r] = "stdout" /\ pc'[r] \in {"stderr", "finally"}
      \/ pc[r] = "stderr" /\ pc'[r] = "finally"
      \/ pc[r] = "finally" /\ pc'[r] = "free"
      \/ pc[r] = "free" /\ pc'[r] = "done"
  BY <1>2 DEF Step, Progress, Validate, Connect, CheckImage, Advance,
     Acquire, Launch, WaitReturns, WaitTimesOut, CleanUp, Kill, Stop, Reap,
     Terminate, RemoveTimedOut, ReadStdout, ReadStderr, Finally, Free,
     LaunchFails, WaitFails, Conclude, Goto
<1>4. StepsToGo(pc'[r]) < StepsToGo(pc[r])
  BY <1>3 DEF StepsToGo
<1>5. QED
  BY <1>1, <1>2, <1>4

\* Each call returns after at most twelve steps of its own thread, whatever
\* the daemon, the other calls and the program in the container do.
THEOREM RunsAreShort == Spec => [][CallsAdvance]_vars
<1>1. RunTypes /\ [Next]_vars => CallsAdvance
  <2> SUFFICES ASSUME RunTypes, [Next]_vars PROVE CallsAdvance
    OBVIOUS
  <2>1. ASSUME UNCHANGED pc, NEW r \in Runs
        PROVE  ~Step(r) /\ pc'[r] = pc[r]
    <3>1. Step(r) => FALSE
      BY <2>1, StepAdvances DEF StepsToGo
    <3>2. QED
      BY <2>1, <3>1
  <2>2. ASSUME NEW q \in Runs, Step(q), NEW r \in Runs
        PROVE  IF Step(r) THEN StepsToGo(pc'[r]) < StepsToGo(pc[r])
               ELSE pc'[r] = pc[r]
    BY <2>2, StepAdvances
  <2>3. QED
    BY <2>1, <2>2 DEF Next, Quiescent, RemoveImage, Exit, vars, CallsAdvance
<1>2. QED
  BY <1>1, InitRunTypes, NextRunTypes, PTL DEF Spec
=============================================================================
