--------------------------- MODULE SandboxRunner ----------------------------
(***************************************************************************)
(* The sandbox runner (src/src/sandbox/docker_runner.py): concurrent calls *)
(* of DockerRunner.run that share a bounded semaphore and a Docker daemon  *)
(* whose every operation may fail.                                         *)
(*                                                                         *)
(* A call is one element of Runs.  Its container is what the daemon holds  *)
(* for it, which is not always what the call knows: containers.run may     *)
(* raise after the daemon created the container, and a removal may fail.   *)
(* The daemon's operations are modelled from how the code calls them: each *)
(* takes effect or raises, either a DockerException or something else (a   *)
(* connection error of the HTTP client is no DockerException).             *)
(***************************************************************************)
EXTENDS Integers, FiniteSets

CONSTANTS
    Runs,           \* calls of run()
    MaxConcurrent   \* max_concurrent

ASSUME RunsAssumption == IsFiniteSet(Runs)
ASSUME MaxConcurrentAssumption == MaxConcurrent \in Nat \ {0}

VARIABLES
    slots,      \* _capacity, the semaphore
    pc,
    outcome,    \* result or error of each call
    handle,     \* the local variable container is not None
    cleaned,    \* timeout_cleaned
    box,        \* the container of each call, at the daemon
    image,      \* the daemon has the image locally
    pulled,     \* history: the SDK pulled the image
    removed,    \* history: the image was removed after a call's check of it
    timedOut,   \* history: wait() ran into its timeout
    abandoned   \* history: calls whose container is out of reach

vars == <<slots, pc, outcome, handle, cleaned, box, image, pulled, removed,
          timedOut, abandoned>>

images == <<image, pulled, removed>>

\* The steps between taking and giving back a slot.
SlotSteps == {"launch", "wait", "kill", "stop", "reap", "remove", "stdout",
              "stderr", "finally", "free"}

Steps == {"start", "connect", "lookup", "acquire", "done"} \cup SlotSteps

Outcomes == {"none", "ok", "unsupported_language", "daemon_unavailable",
             "integrity", "capacity", "timeout", "execution", "internal"}

TypeOK ==
    /\ slots \in 0..MaxConcurrent
    /\ pc \in [Runs -> Steps]
    /\ outcome \in [Runs -> Outcomes]
    /\ handle \in [Runs -> BOOLEAN]
    /\ cleaned \in [Runs -> BOOLEAN]
    /\ box \in [Runs -> {"none", "running", "exited", "gone"}]
    /\ image \in BOOLEAN
    /\ pulled \in BOOLEAN
    /\ removed \in BOOLEAN
    /\ timedOut \in [Runs -> BOOLEAN]
    /\ abandoned \subseteq Runs

Init ==
    /\ slots = MaxConcurrent
    /\ pc = [r \in Runs |-> "start"]
    /\ outcome = [r \in Runs |-> "none"]
    /\ handle = [r \in Runs |-> FALSE]
    /\ cleaned = [r \in Runs |-> FALSE]
    /\ box = [r \in Runs |-> "none"]
    /\ image \in BOOLEAN
    /\ pulled = FALSE
    /\ removed = FALSE
    /\ timedOut = [r \in Runs |-> FALSE]
    /\ abandoned = {}

Goto(r, step) == pc' = [pc EXCEPT ![r] = step]

\* r goes on at step with this result or error to deliver in the end.
Conclude(r, result, step) ==
    /\ outcome' = [outcome EXCEPT ![r] = result]
    /\ Goto(r, step)

\* A DockerException becomes SandboxExecutionError; any other exception
\* escapes run() and is reported as an internal error.
Raised == {"execution", "internal"}

-----------------------------------------------------------------------------
(* Before a slot is taken: validation, the daemon, the image.              *)

Advance(r, from, to, errors) ==
    /\ pc[r] = from
    /\ \/ Goto(r, to) /\ UNCHANGED outcome
       \/ \E error \in errors : Conclude(r, error, "done")
    /\ UNCHANGED <<slots, handle, cleaned, box, timedOut, abandoned, images>>

Validate(r) == Advance(r, "start", "connect",
                       {"unsupported_language", "execution"})

Connect(r) == Advance(r, "connect", "lookup",
                      {"daemon_unavailable", "internal"})

\* Wrong variant: the image is not looked up.
CheckNothing(r) ==
    Advance(r, "lookup", "acquire", Raised \cup {"integrity"})

\* images.get and the comparison with the pinned digest: no NotFound only if
\* the image is there at this moment.
CheckImage(r) ==
    /\ Advance(r, "lookup", "acquire", Raised \cup {"integrity"})
    /\ pc'[r] = "acquire" => image

\* acquire(blocking=False)
Acquire(r) ==
    /\ pc[r] = "acquire"
    /\ IF slots > 0
         THEN slots' = slots - 1 /\ Goto(r, "launch") /\ UNCHANGED outcome
         ELSE Conclude(r, "capacity", "done") /\ UNCHANGED slots
    /\ UNCHANGED <<handle, cleaned, box, timedOut, abandoned, images>>

-----------------------------------------------------------------------------
(* containers.run and container.wait                                       *)

\* containers.run of the SDK pulls an image that the daemon does not have.
Fetch ==
    image' = TRUE /\ pulled' = (pulled \/ ~image) /\ UNCHANGED removed

Launch(r) ==
    /\ pc[r] = "launch"
    /\ Fetch
    /\ handle' = [handle EXCEPT ![r] = TRUE]
    /\ box' = [box EXCEPT ![r] = "running"]
    /\ Goto(r, "wait")
    /\ UNCHANGED <<slots, outcome, cleaned, timedOut, abandoned>>

\* containers.run raises, before or after the daemon made the container.
LaunchFails(r) ==
    /\ pc[r] = "launch"
    /\ \E error \in Raised : Conclude(r, error, "finally")
    /\ Fetch \/ UNCHANGED images
    /\ \/ UNCHANGED <<box, abandoned>>
       \/ /\ image'
          /\ box' = [box EXCEPT ![r] = "running"]
          /\ abandoned' = abandoned \cup {r}
    /\ UNCHANGED <<slots, handle, cleaned, timedOut>>

\* The program in the container ends by itself.
Exit(r) ==
    /\ box[r] = "running"
    /\ box' = [box EXCEPT ![r] = "exited"]
    /\ UNCHANGED <<slots, pc, outcome, handle, cleaned, timedOut, abandoned,
                   images>>

\* Someone removes the image from the daemon.
RemoveImage ==
    /\ image
    /\ image' = FALSE
    /\ removed' = (removed \/ \E r \in Runs : pc[r] \in {"acquire", "launch"})
    /\ UNCHANGED <<slots, pc, outcome, handle, cleaned, box, pulled,
                   timedOut, abandoned>>

WaitReturns(r) ==
    /\ pc[r] = "wait"
    /\ box[r] = "exited"
    /\ Goto(r, "stdout")
    /\ UNCHANGED <<slots, outcome, handle, cleaned, box, timedOut,
                   abandoned, images>>

\* Wrong variant: wait() has no timeout.
WaitForever(r) == FALSE

\* The timeout may race the program's own end.
WaitTimesOut(r) ==
    /\ pc[r] = "wait"
    /\ timedOut' = [timedOut EXCEPT ![r] = TRUE]
    /\ Goto(r, "kill")
    /\ UNCHANGED <<slots, outcome, handle, cleaned, box, abandoned, images>>

WaitFails(r) ==
    /\ pc[r] = "wait"
    /\ \E error \in Raised : Conclude(r, error, "finally")
    /\ UNCHANGED <<slots, handle, cleaned, box, timedOut, abandoned, images>>

-----------------------------------------------------------------------------
(* _cleanup_timed_out_container: kill, stop, wait and remove, in this      *)
(* order, each of them best effort.                                        *)

Terminate(r, from, to) ==
    /\ pc[r] = from
    /\ \/ UNCHANGED box
       \/ box[r] = "running" /\ box' = [box EXCEPT ![r] = "exited"]
    /\ Goto(r, to)
    /\ UNCHANGED <<slots, outcome, handle, cleaned, timedOut, abandoned,
                   images>>

Kill(r) == Terminate(r, "kill", "stop")

Stop(r) == Terminate(r, "stop", "reap")

Reap(r) ==
    /\ pc[r] = "reap"
    /\ Goto(r, "remove")
    /\ UNCHANGED <<slots, outcome, handle, cleaned, box, timedOut,
                   abandoned, images>>

\* remove(force=True) takes effect, or raises and is given up.
TryRemove(r) ==
    \/ box' = [box EXCEPT ![r] = "gone"] /\ UNCHANGED abandoned
    \/ abandoned' = abandoned \cup {r} /\ UNCHANGED box

\* Wrong variant: a failing removal replaces the timeout.
RemoveRaises(r) ==
    /\ pc[r] = "remove"
    /\ TryRemove(r)
    /\ cleaned' = [cleaned EXCEPT ![r] = TRUE]
    /\ Conclude(r, IF abandoned' = abandoned THEN "timeout" ELSE "execution",
                "finally")
    /\ UNCHANGED <<slots, handle, timedOut, images>>

RemoveTimedOut(r) ==
    /\ pc[r] = "remove"
    /\ TryRemove(r)
    /\ cleaned' = [cleaned EXCEPT ![r] = TRUE]
    /\ Conclude(r, "timeout", "finally")
    /\ UNCHANGED <<slots, handle, timedOut, images>>

CleanUp(r) == Kill(r) \/ Stop(r) \/ Reap(r) \/ RemoveTimedOut(r)

-----------------------------------------------------------------------------
(* Reading the output, the finally block and the release of the slot.      *)

ReadStdout(r) ==
    /\ pc[r] = "stdout"
    /\ \/ Goto(r, "stderr") /\ UNCHANGED outcome
       \/ Conclude(r, "execution", "finally")
    /\ UNCHANGED <<slots, handle, cleaned, box, timedOut, abandoned, images>>

\* A status code that is no number escapes as an internal error.
ReadStderr(r) ==
    /\ pc[r] = "stderr"
    /\ \E result \in {"ok", "execution", "internal"} :
          Conclude(r, result, "finally")
    /\ UNCHANGED <<slots, handle, cleaned, box, timedOut, abandoned, images>>

\* Wrong variant: only a successful call removes its container.
FinallySkips(r) ==
    /\ pc[r] = "finally"
    /\ IF handle[r] /\ ~cleaned[r] /\ outcome[r] = "ok"
         THEN TryRemove(r)
         ELSE UNCHANGED <<box, abandoned>>
    /\ Goto(r, "free")
    /\ UNCHANGED <<slots, outcome, handle, cleaned, timedOut, images>>

Finally(r) ==
    /\ pc[r] = "finally"
    /\ IF handle[r] /\ ~cleaned[r]
         THEN TryRemove(r)
         ELSE UNCHANGED <<box, abandoned>>
    /\ Goto(r, "free")
    /\ UNCHANGED <<slots, outcome, handle, cleaned, timedOut, images>>

\* Wrong variant: the slot is given back only for a call with a container.
FreeIfLaunched(r) ==
    /\ pc[r] = "free"
    /\ slots' = IF handle[r] THEN slots + 1 ELSE slots
    /\ Goto(r, "done")
    /\ UNCHANGED <<outcome, handle, cleaned, box, timedOut, abandoned, images>>

\* Wrong variant: a timed-out call gives its slot back twice.
FreeTwice(r) ==
    /\ pc[r] = "free"
    /\ slots' = IF timedOut[r] THEN slots + 2 ELSE slots + 1
    /\ Goto(r, "done")
    /\ UNCHANGED <<outcome, handle, cleaned, box, timedOut, abandoned, images>>

Free(r) ==
    /\ pc[r] = "free"
    /\ slots' = slots + 1
    /\ Goto(r, "done")
    /\ UNCHANGED <<outcome, handle, cleaned, box, timedOut, abandoned, images>>

-----------------------------------------------------------------------------
\* The steps of the thread that executes the call r, and those of them that
\* no exception causes.
Progress(r) ==
    \/ Validate(r)
    \/ Connect(r)
    \/ CheckImage(r)
    \/ Acquire(r)
    \/ Launch(r)
    \/ WaitReturns(r)
    \/ WaitTimesOut(r)
    \/ CleanUp(r)
    \/ ReadStdout(r)
    \/ ReadStderr(r)
    \/ Finally(r)
    \/ Free(r)

Step(r) == Progress(r) \/ LaunchFails(r) \/ WaitFails(r)

\* All calls have returned; a container given up may go on running.
Quiescent ==
    /\ \A r \in Runs : pc[r] = "done"
    /\ UNCHANGED vars

Next == Quiescent \/ RemoveImage \/ \E r \in Runs : Step(r) \/ Exit(r)

\* A thread runs on: every daemon operation returns in the end, wait() at the
\* latest with its timeout.  Nothing makes an operation raise, and nothing
\* makes a program exit.
Fairness == \A r \in Runs : WF_vars(Progress(r))

Spec == Init /\ [][Next]_vars /\ Fairness

-----------------------------------------------------------------------------
(* What must hold.                                                         *)

HoldsSlot(r) == pc[r] \in SlotSteps

\* The semaphore counts exactly the calls between acquire and release: no
\* path through the exceptions loses a slot or returns one twice.
SlotsConserved ==
    slots = MaxConcurrent - Cardinality({r \in Runs : HoldsSlot(r)})

Exists(r) == box[r] \in {"running", "exited"}

\* A container exists only while a call with a slot looks after it, unless
\* its creation was reported as failed or its removal failed: so at most
\* max_concurrent containers exist beyond those.
ContainersOwned ==
    /\ \A r \in Runs : Exists(r) => HoldsSlot(r) \/ r \in abandoned
    /\ Cardinality({r \in Runs : Exists(r) /\ r \notin abandoned})
         <= MaxConcurrent

\* "Cleanup failures never replace the timeout": a call whose wait timed out
\* answers with the timeout, whatever the clean-up and the finally block met,
\* and no other call does.
TimeoutReported ==
    \A r \in Runs : pc[r] = "done" => (timedOut[r] <=> outcome[r] = "timeout")

\* The Docker client pulls an image only if somebody removed it between a
\* call's check and the creation of its container; in every other case a
\* missing image is refused before (README.md: images are never pulled).
PulledOnlyIfRemoved == pulled => removed

\* Every call ends, even if its program never does.
RunEnds == \A r \in Runs : pc[r] = "start" ~> pc[r] = "done"
=============================================================================
