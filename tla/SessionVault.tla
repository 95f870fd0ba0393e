---------------------------- MODULE SessionVault ----------------------------
(***************************************************************************)
(* The session vault of the privacy service (src/src/privacy/vault.py):    *)
(* the in-memory store that maps a session identifier to the placeholder   *)
(* mapping of one anonymization, bounded in sessions, in sessions per      *)
(* principal, in bytes and in time.                                        *)
(*                                                                         *)
(* Every public method takes the vault's lock, purges the expired sessions *)
(* and then does its work.  A thread's call is split where the code reads  *)
(* the wall clock or where another thread's step could be told apart:      *)
(* acquiring the lock, listing the expired sessions, popping each of them, *)
(* counting them, the checks, the insertion, the release, and the delivery *)
(* of the result to the caller after the lock is gone.                     *)
(*                                                                         *)
(* Data is abstract.  A document is the list of entities handed to         *)
(* create(): its encoded size and its number of entities of each type.  A  *)
(* session identifier (a fresh uuid4) is the number of sessions created so *)
(* far; 0 stands for a string that is no canonical uuid4.  A text to       *)
(* restore "fits", is "oversize" on arrival, or "expands" beyond the limit *)
(* when the placeholders are replaced.                                     *)
(***************************************************************************)
EXTENDS Totals, Sequences

CONSTANTS
    Threads,               \* concurrent calls into the vault
    NoThread,              \* the lock is free
    Principals,            \* principal identifiers
    NoPrincipal,           \* principal_id = None
    Documents,             \* entity lists
    Types,                 \* entity types
    Size,                  \* Size[d]: encoded bytes of d's mapping
    Entities,              \* Entities[d][ty]: entities of type ty in d
    Operations,            \* the methods the environment calls
    Texts,                 \* the classes of texts to restore
    MaxSessions,           \* max_sessions
    MaxSessionsPerPrincipal,
    MaxBytes,              \* max_bytes
    TTL,                   \* ttl_seconds, in clock ticks
    ClockMayStepBack,      \* datetime.now() is a settable wall clock
    MaxTime,               \* bound: last instant of the clock
    MaxCalls               \* bound: number of calls of a behaviour

ASSUME ThreadsAssumption ==
    NoThread \notin Threads
ASSUME PrincipalsAssumption ==
    NoPrincipal \notin Principals
ASSUME DocumentsAssumption ==
    /\ IsFiniteSet(Types)
    /\ Size \in [Documents -> Nat]
    /\ Entities \in [Documents -> [Types -> Nat]]
ASSUME LimitsAssumption ==         \* SessionVault.__post_init__
    /\ MaxSessions \in Nat \ {0}
    /\ MaxSessionsPerPrincipal \in Nat \ {0}
    /\ MaxBytes \in Nat \ {0}
    /\ TTL \in Nat \ {0}
ASSUME EnvironmentAssumption ==
    /\ Operations \subseteq {"create", "record", "restore", "stats"}
    /\ Texts \subseteq {"fits", "oversize", "expands"}
    /\ ClockMayStepBack \in BOOLEAN
    /\ MaxTime \in Nat
    /\ MaxCalls \in Nat

VARIABLES
    now,        \* the wall clock
    lock,       \* holder of _lock
    sessions,   \* live sessions
    bytes,      \* _bytes
    stats,      \* the counters of stats
    pc,         \* where each thread is
    req,        \* the call each thread is executing
    calledAt,   \* instant of that call
    expired,    \* _purge's list of expired identifiers
    reply,      \* outcome of the call
    snap,       \* copy returned by stats_snapshot
    issued,     \* history: every session ever created
    served,     \* history: restore calls answered, anonymizations done
    calls       \* number of calls made, for the bound

vars == <<now, lock, sessions, bytes, stats, pc, req, calledAt, expired,
          reply, snap, issued, served, calls>>

-----------------------------------------------------------------------------
(* Types of the state.                                                     *)

Owner == Principals \cup {NoPrincipal}

Sid == Nat

Session == [principal : Owner, created : Int, size : Nat]

Stats == [total_anonymizations : Nat, total_deanonymizations : Nat,
          total_pii_entities : Nat, entities_by_type : [Types -> Nat],
          expired_sessions : Nat, failed_deanonymizations : Nat]

NoStats == [total_anonymizations |-> 0, total_deanonymizations |-> 0,
            total_pii_entities |-> 0,
            entities_by_type |-> [ty \in Types |-> 0],
            expired_sessions |-> 0, failed_deanonymizations |-> 0]

Snapshot == [stats : Stats, active : Nat]

NoSnapshot == [stats |-> NoStats, active |-> 0]

Idle == [op |-> "none"]

CreateRequest  == [op : {"create"}, principal : Owner, doc : Documents]
RecordRequest  == [op : {"record"}, doc : Documents]
RestoreRequest == [op : {"restore"}, principal : Owner, sid : Sid,
                   text : Texts]
StatsRequest   == [op : {"stats"}]

Request == CreateRequest \cup RecordRequest \cup RestoreRequest
             \cup StatsRequest

\* The calls the environment makes: a restore names a session that exists
\* or existed, the next one that will, or no canonical uuid4 at all.
Requests ==
    {r \in CreateRequest \cup RecordRequest \cup StatsRequest
           \cup [op : {"restore"}, principal : Owner,
                 sid : 0..(Len(issued) + 1), text : Texts] :
        r.op \in Operations}

Steps == {"idle", "acquire", "list", "purge", "body", "insert", "release",
          "return"}

Replies == {"none", "ok", "too_large", "capacity", "not_found",
            "unauthorized"}

TypeOK ==
    /\ now \in Int
    /\ lock \in Threads \cup {NoThread}
    /\ DOMAIN sessions \subseteq Sid
    /\ \A sid \in DOMAIN sessions : sessions[sid] \in Session
    /\ bytes \in Int
    /\ stats \in Stats
    /\ pc \in [Threads -> Steps]
    /\ req \in [Threads -> Request \cup {Idle}]
    /\ calledAt \in [Threads -> Int]
    /\ expired \in [Threads -> SUBSET Sid]
    /\ reply \in [Threads -> Replies]
    /\ snap \in [Threads -> Snapshot]
    /\ issued \in Seq([principal : Owner, created : Int])
    /\ served \in [restores : Nat, anonymizations : Nat]
    /\ calls \in Nat

-----------------------------------------------------------------------------
Init ==
    /\ now = 0
    /\ lock = NoThread
    /\ sessions = [sid \in {} |-> NoThread]
    /\ bytes = 0
    /\ stats = NoStats
    /\ pc = [t \in Threads |-> "idle"]
    /\ req = [t \in Threads |-> Idle]
    /\ calledAt = [t \in Threads |-> 0]
    /\ expired = [t \in Threads |-> {}]
    /\ reply = [t \in Threads |-> "none"]
    /\ snap = [t \in Threads |-> NoSnapshot]
    /\ issued = <<>>
    /\ served = [restores |-> 0, anonymizations |-> 0]
    /\ calls = 0

contents == <<sessions, bytes, stats>>
history == <<issued, served>>

Goto(t, step) == pc' = [pc EXCEPT ![t] = step]

At(t, step, op) == pc[t] = step /\ req[t].op = op

-----------------------------------------------------------------------------
(* The wall clock.                                                         *)

Tick ==
    /\ now < MaxTime
    /\ now' = now + 1
    /\ UNCHANGED <<lock, contents, pc, req, calledAt, expired, reply, snap,
                   history, calls>>

StepBack ==
    /\ ClockMayStepBack
    /\ now > 0
    /\ now' = now - 1
    /\ UNCHANGED <<lock, contents, pc, req, calledAt, expired, reply, snap,
                   history, calls>>

-----------------------------------------------------------------------------
(* Entering a method: the call, the lock and the purge.                    *)

Call(t) ==
    /\ pc[t] = "idle"
    /\ calls < MaxCalls
    /\ \E r \in Requests : req' = [req EXCEPT ![t] = r]
    /\ calledAt' = [calledAt EXCEPT ![t] = now]
    /\ calls' = calls + 1
    /\ Goto(t, "acquire")
    /\ UNCHANGED <<now, lock, contents, expired, reply, snap, history>>

\* Wrong variant: the methods take no lock.
NoLock == TRUE

LockFree == lock = NoThread

Acquire(t) ==
    /\ pc[t] = "acquire"
    /\ LockFree
    /\ lock' = t
    /\ Goto(t, "list")
    /\ UNCHANGED <<now, contents, req, calledAt, expired, reply, snap, history,
                   calls>>

\* Wrong variant: off by one at the time to live.
ExpiresLate(sid) == now - sessions[sid].created > TTL + 1

IsExpired(sid) == now - sessions[sid].created > TTL

\* Wrong variant: a full vault also evicts its oldest session.
PurgeEvicts(t) ==
    /\ pc[t] = "list"
    /\ expired' = [expired EXCEPT
          ![t] = {sid \in DOMAIN sessions :
                    \/ IsExpired(sid)
                    \/ /\ Cardinality(DOMAIN sessions) = MaxSessions
                       /\ \A other \in DOMAIN sessions : sid <= other}]
    /\ Goto(t, "purge")
    /\ UNCHANGED <<now, lock, contents, req, calledAt, reply, snap, history,
                   calls>>

PurgeList(t) ==
    /\ pc[t] = "list"
    /\ expired' = [expired EXCEPT
                     ![t] = {sid \in DOMAIN sessions : IsExpired(sid)}]
    /\ Goto(t, "purge")
    /\ UNCHANGED <<now, lock, contents, req, calledAt, reply, snap, history,
                   calls>>

\* Wrong variant: the bytes of a purged session stay booked.
PopKeepsBytes(t) ==
    /\ pc[t] = "purge"
    /\ \E sid \in expired[t] \cap DOMAIN sessions :
          sessions' = Without(sessions, sid)
    /\ UNCHANGED <<now, lock, bytes, stats, pc, req, calledAt, expired, reply,
                   snap, history, calls>>

\* sessions.pop(sid, None): an identifier that is gone already is skipped.
PurgePop(t) ==
    /\ pc[t] = "purge"
    /\ \E sid \in expired[t] \cap DOMAIN sessions :
          /\ sessions' = Without(sessions, sid)
          /\ bytes' = bytes - sessions[sid].size
    /\ UNCHANGED <<now, lock, stats, pc, req, calledAt, expired, reply, snap,
                   history, calls>>

\* Wrong variant: the counter moves the wrong way.
PurgeUncounts(t) ==
    /\ pc[t] = "purge"
    /\ expired[t] \cap DOMAIN sessions = {}
    /\ stats' = [stats EXCEPT !.expired_sessions =
                                  @ - Cardinality(expired[t])]
    /\ expired' = [expired EXCEPT ![t] = {}]
    /\ Goto(t, "body")
    /\ UNCHANGED <<now, lock, sessions, bytes, req, calledAt, reply, snap,
                   history, calls>>

PurgeCount(t) ==
    /\ pc[t] = "purge"
    /\ expired[t] \cap DOMAIN sessions = {}
    /\ stats' = [stats EXCEPT !.expired_sessions =
                                  @ + Cardinality(expired[t])]
    /\ expired' = [expired EXCEPT ![t] = {}]
    /\ Goto(t, "body")
    /\ UNCHANGED <<now, lock, sessions, bytes, req, calledAt, reply, snap,
                   history, calls>>

Purge(t) == PurgeList(t) \/ PurgePop(t) \/ PurgeCount(t)

\* Wrong variant: the capacity error leaves the method with the lock held.
AnswerLeaks(t, outcome) ==
    /\ reply' = [reply EXCEPT ![t] = outcome]
    /\ Goto(t, IF outcome = "capacity" THEN "return" ELSE "release")

\* Leaving a method body, normally or with an exception.
Answer(t, outcome) ==
    /\ reply' = [reply EXCEPT ![t] = outcome]
    /\ Goto(t, "release")

-----------------------------------------------------------------------------
(* create                                                                  *)

OwnedBy(p) == {sid \in DOMAIN sessions : sessions[sid].principal = p}

QuotaReached(p) == Cardinality(OwnedBy(p)) >= MaxSessionsPerPrincipal

VaultFull(d) ==
    \/ Cardinality(DOMAIN sessions) >= MaxSessions
    \/ bytes + Size[d] > MaxBytes

CreateRefusal(r) ==
    IF Size[r.doc] > MaxBytes THEN "too_large"
    ELSE IF QuotaReached(r.principal) \/ VaultFull(r.doc) THEN "capacity"
    ELSE "none"

CreateRefuse(t) ==
    /\ At(t, "body", "create")
    /\ CreateRefusal(req[t]) # "none"
    /\ Answer(t, CreateRefusal(req[t]))
    /\ UNCHANGED <<now, lock, contents, req, calledAt, expired, snap, history,
                   calls>>

CreateAdmit(t) ==
    /\ At(t, "body", "create")
    /\ CreateRefusal(req[t]) = "none"
    /\ Goto(t, "insert")
    /\ UNCHANGED <<now, lock, contents, req, calledAt, expired, reply, snap,
                   history, calls>>

Recorded(d) ==
    [stats EXCEPT
        !.total_anonymizations = @ + 1,
        !.total_pii_entities = @ + Total(Entities[d]),
        !.entities_by_type = [ty \in Types |-> @[ty] + Entities[d][ty]]]

NewSid == Len(issued) + 1

NewSession(r) ==
    [principal |-> r.principal, created |-> now, size |-> Size[r.doc]]

Insert(t) ==
    /\ pc[t] = "insert"
    /\ sessions' = With(sessions, NewSid, NewSession(req[t]))
    /\ bytes' = bytes + Size[req[t].doc]
    /\ stats' = Recorded(req[t].doc)
    /\ issued' = Append(issued, [principal |-> req[t].principal,
                                 created |-> now])
    /\ served' = [served EXCEPT !.anonymizations = @ + 1]
    /\ Answer(t, "ok")
    /\ UNCHANGED <<now, lock, req, calledAt, expired, snap, calls>>

Create(t) == CreateRefuse(t) \/ CreateAdmit(t) \/ Insert(t)

-----------------------------------------------------------------------------
(* record_anonymization, restore and stats_snapshot                        *)

Record(t) ==
    /\ At(t, "body", "record")
    /\ stats' = Recorded(req[t].doc)
    /\ served' = [served EXCEPT !.anonymizations = @ + 1]
    /\ Answer(t, "ok")
    /\ UNCHANGED <<now, lock, sessions, bytes, req, calledAt, expired, snap,
                   issued, calls>>

\* Wrong variant: a caller without a principal is not compared.
AnonymousMayRestore(r) ==
    sessions[r.sid].principal \in {NoPrincipal, r.principal}
      \/ r.principal = NoPrincipal

MayRestore(r) == sessions[r.sid].principal \in {NoPrincipal, r.principal}

RestoreRefusal(r) ==
    IF r.text = "oversize" THEN "too_large"
    ELSE IF r.sid \notin DOMAIN sessions THEN "not_found"
    ELSE IF ~MayRestore(r) THEN "unauthorized"
    ELSE IF r.text = "expands" THEN "too_large"
    ELSE "none"

\* Wrong variant: an unauthorized restore is not counted.
RefuseUncounted(t) ==
    /\ At(t, "body", "restore")
    /\ RestoreRefusal(req[t]) # "none"
    /\ stats' = [stats EXCEPT !.failed_deanonymizations =
                   @ + (IF RestoreRefusal(req[t]) = "unauthorized"
                          THEN 0 ELSE 1)]
    /\ served' = [served EXCEPT !.restores = @ + 1]
    /\ Answer(t, RestoreRefusal(req[t]))
    /\ UNCHANGED <<now, lock, sessions, bytes, req, calledAt, expired, snap,
                   issued, calls>>

RestoreRefuse(t) ==
    /\ At(t, "body", "restore")
    /\ RestoreRefusal(req[t]) # "none"
    /\ stats' = [stats EXCEPT !.failed_deanonymizations = @ + 1]
    /\ served' = [served EXCEPT !.restores = @ + 1]
    /\ Answer(t, RestoreRefusal(req[t]))
    /\ UNCHANGED <<now, lock, sessions, bytes, req, calledAt, expired, snap,
                   issued, calls>>

RestoreServe(t) ==
    /\ At(t, "body", "restore")
    /\ RestoreRefusal(req[t]) = "none"
    /\ stats' = [stats EXCEPT !.total_deanonymizations = @ + 1]
    /\ served' = [served EXCEPT !.restores = @ + 1]
    /\ Answer(t, "ok")
    /\ UNCHANGED <<now, lock, sessions, bytes, req, calledAt, expired, snap,
                   issued, calls>>

Restore(t) == RestoreRefuse(t) \/ RestoreServe(t)

StatsSnapshot(t) ==
    /\ At(t, "body", "stats")
    /\ snap' = [snap EXCEPT
                  ![t] = [stats |-> stats,
                          active |-> Cardinality(DOMAIN sessions)]]
    /\ Answer(t, "ok")
    /\ UNCHANGED <<now, lock, contents, req, calledAt, expired, history, calls>>

-----------------------------------------------------------------------------
(* Leaving a method: the lock is released, then the caller uses the result *)

Release(t) ==
    /\ pc[t] = "release"
    /\ lock' = NoThread
    /\ Goto(t, "return")
    /\ UNCHANGED <<now, contents, req, calledAt, expired, reply, snap, history,
                   calls>>

\* Wrong variant: a shallow copy, whose nested counters are the live ones.
DeliveredShallow(t) ==
    [snap[t] EXCEPT !.stats.entities_by_type = stats.entities_by_type]

\* What the caller reads from a snapshot after the lock is gone: a deep
\* copy, so never the live counters.
Delivered(t) == snap[t]

Return(t) ==
    /\ pc[t] = "return"
    /\ req' = [req EXCEPT ![t] = Idle]
    /\ calledAt' = [calledAt EXCEPT ![t] = 0]
    /\ reply' = [reply EXCEPT ![t] = "none"]
    /\ snap' = [snap EXCEPT ![t] = NoSnapshot]
    /\ Goto(t, "idle")
    /\ UNCHANGED <<now, lock, contents, expired, history, calls>>

\* The bounded environment has nothing left to do.
Quiescent ==
    /\ calls = MaxCalls
    /\ \A t \in Threads : pc[t] = "idle"
    /\ now = MaxTime
    /\ UNCHANGED vars

-----------------------------------------------------------------------------
\* The steps of the thread that holds the lock.
Locked(t) ==
    \/ Purge(t)
    \/ Create(t)
    \/ Record(t)
    \/ Restore(t)
    \/ StatsSnapshot(t)
    \/ Release(t)

Step(t) == Call(t) \/ Acquire(t) \/ Locked(t) \/ Return(t)

Next == Tick \/ StepBack \/ Quiescent \/ \E t \in Threads : Step(t)

\* A thread that holds the lock is running Python code that never blocks.
Fairness == \A t \in Threads : WF_vars(Locked(t))

Spec == Init /\ [][Next]_vars /\ Fairness
-----------------------------------------------------------------------------
(* What must hold.                                                         *)

\* The limits of the vault hold at every instant, however calls interleave:
\* no more live sessions than max_sessions, none of a principal beyond its
\* share, and no more bytes booked than max_bytes.
Capacity ==
    /\ Cardinality(DOMAIN sessions) <= MaxSessions
    /\ \A p \in Owner : Cardinality(OwnedBy(p)) <= MaxSessionsPerPrincipal
    /\ bytes <= MaxBytes

SessionSizes == [sid \in DOMAIN sessions |-> sessions[sid].size]

\* The running counter _bytes, adjusted at each insertion and at each
\* purged session, never drifts from the bytes the live sessions hold.
ByteLedger == bytes = Total(SessionSizes)

\* While no call is inside the vault, every session ever created is either
\* live or counted once in expired_sessions: none is lost, none is counted
\* by two purges.
Conservation ==
    lock = NoThread => Len(issued) =
                  Cardinality(DOMAIN sessions) + stats.expired_sessions

\* While no call is inside the vault, every restore that was answered is in
\* exactly one of the two counters, whichever check answered it, and every
\* anonymization, reversible or not, in total_anonymizations.
OutcomesCounted ==
    lock = NoThread =>
       /\ served.restores = stats.total_deanonymizations
                              + stats.failed_deanonymizations
       /\ served.anonymizations = stats.total_anonymizations

Holding(t) == pc[t] \in {"release", "return"}

\* A restore gives text back only to the principal the session was created
\* for (or to anyone if it was created for none), and only if the session
\* had not outlived its TTL when the call was made, however long the call
\* then waited for the lock.
RestoreIsolated ==
    \A t \in Threads :
       Holding(t) /\ req[t].op = "restore" /\ reply[t] = "ok" =>
          LET origin == issued[req[t].sid] IN
          /\ origin.principal \in {NoPrincipal, req[t].principal}
          /\ calledAt[t] - origin.created <= TTL

\* A creation is refused for want of capacity only by sessions that still
\* count: a session already expired when the call was made never uses up
\* room.
RefusalJustified ==
    \A t \in Threads :
       pc[t] = "release" /\ reply[t] = "capacity" =>
          LET fresh == {sid \in DOMAIN sessions :
                          calledAt[t] - sessions[sid].created <= TTL}
          IN  \/ Cardinality(fresh) >= MaxSessions
              \/ Cardinality(fresh \cap OwnedBy(req[t].principal))
                    >= MaxSessionsPerPrincipal
              \/ Total([sid \in fresh |-> sessions[sid].size])
                    + Size[req[t].doc] > MaxBytes

\* The statistics a caller reads, after the lock is released and while other
\* calls go on counting, are those of one instant: the per-type counts add
\* up to the total, and the live and the expired sessions of that instant
\* are at most the anonymizations of that instant.
SnapshotConsistent ==
    \A t \in Threads :
       LET s == Delivered(t) IN
       Holding(t) /\ req[t].op = "stats" =>
          /\ Total(s.stats.entities_by_type) = s.stats.total_pii_entities
          /\ s.active + s.stats.expired_sessions
                <= s.stats.total_anonymizations

\* A session that is still valid is never dropped: the only step that removes
\* one removes a session older than the TTL.  ("Never let a noisy client
\* silently evict a still-valid PII mapping", vault.py.)
NoEviction ==
    [][\A sid \in DOMAIN sessions \ DOMAIN sessions' : IsExpired(sid)]_vars

\* Whoever takes the lock gives it back: every path through every method,
\* the ones that raise included, ends in a release.
LockReleased == \A t \in Threads : lock = t ~> lock # t

\* The vault, with its lock, purge and counters, implements the store it
\* promises: every call takes effect at one instant and every answer is one
\* the store may give.
Store == INSTANCE SessionStore WITH
            store <- sessions,
            used <- 1..Len(issued),
            invoked <- req,
            invokedAt <- calledAt,
            answer <- reply

StoreSpec == Store!Spec
=============================================================================
