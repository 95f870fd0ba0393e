---------------------------- MODULE SessionStore ----------------------------
(***************************************************************************)
(* What the session vault promises its callers, with no lock, no purge and *)
(* no counters: a store in which each call takes effect at one instant     *)
(* between its invocation and its return.                                  *)
(*                                                                         *)
(*   - A session is stored only within the limits, and leaves the store    *)
(*     only after its time to live.                                        *)
(*   - A creation is refused for want of capacity only if sessions that    *)
(*     were not expired when the call was made use up a limit.             *)
(*   - A restore succeeds only on a stored session that was not expired    *)
(*     when the call was made, and only for the principal it belongs to;   *)
(*     it fails only for a reason.                                         *)
(***************************************************************************)
EXTENDS Totals

CONSTANTS
    Threads, Principals, NoPrincipal, Documents, Size, Texts,
    MaxSessions, MaxSessionsPerPrincipal, MaxBytes, TTL

VARIABLES
    now,        \* the clock
    store,      \* the stored sessions
    used,       \* identifiers given out so far
    invoked,    \* the call each thread has open
    invokedAt,  \* when it was made
    answer      \* its answer, "none" until it has taken effect

vars == <<now, store, used, invoked, invokedAt, answer>>

Owner == Principals \cup {NoPrincipal}

Idle == [op |-> "none"]

Request ==
    [op : {"create"}, principal : Owner, doc : Documents]
      \cup [op : {"record"}, doc : Documents]
      \cup [op : {"restore"}, principal : Owner, sid : Nat, text : Texts]
      \cup [op : {"stats"}]

Init ==
    /\ now \in Nat
    /\ store = [sid \in {} |-> NoPrincipal]
    /\ used = {}
    /\ invoked = [t \in Threads |-> Idle]
    /\ invokedAt = [t \in Threads |-> 0]
    /\ answer = [t \in Threads |-> "none"]

-----------------------------------------------------------------------------
SizeOf(sids) == Total([sid \in sids |-> store[sid].size])

OwnedBy(p, sids) == {sid \in sids : store[sid].principal = p}

\* The sessions that were not expired when t made its call.
Fresh(t) == {sid \in DOMAIN store : invokedAt[t] - store[sid].created <= TTL}

\* One more session of p of this size would exceed a limit, given sids.
Exceeds(p, size, sids) ==
    \/ Cardinality(OwnedBy(p, sids)) >= MaxSessionsPerPrincipal
    \/ Cardinality(sids) >= MaxSessions
    \/ SizeOf(sids) + size > MaxBytes

MayRestore(p, sid) == store[sid].principal \in {NoPrincipal, p}

-----------------------------------------------------------------------------
Advance ==
    /\ now' > now
    /\ UNCHANGED <<store, used, invoked, invokedAt, answer>>

Invoke(t) ==
    /\ invoked[t] = Idle
    /\ invoked'[t] \in Request
    /\ invoked' = [invoked EXCEPT ![t] = invoked'[t]]
    /\ invokedAt' = [invokedAt EXCEPT ![t] = now]
    /\ UNCHANGED <<now, store, used, answer>>

Expire(sid) ==
    /\ now - store[sid].created > TTL
    /\ store' = Without(store, sid)
    /\ UNCHANGED <<now, used, invoked, invokedAt, answer>>

Pending(t, op) == invoked[t].op = op /\ answer[t] = "none"

Answered(t, outcome) == answer' = [answer EXCEPT ![t] = outcome]

StoreSession(t) ==
    LET r == invoked[t] IN
    /\ Pending(t, "create")
    /\ ~Exceeds(r.principal, Size[r.doc], DOMAIN store)
    /\ \E sid \in used' \ used :
          /\ used' = used \cup {sid}
          /\ store' = With(store, sid, [principal |-> r.principal,
                                        created |-> now,
                                        size |-> Size[r.doc]])
    /\ Answered(t, "ok")
    /\ UNCHANGED <<now, invoked, invokedAt>>

RefuseSession(t) ==
    LET r == invoked[t] IN
    /\ Pending(t, "create")
    /\ \/ Size[r.doc] > MaxBytes /\ Answered(t, "too_large")
       \/ Exceeds(r.principal, Size[r.doc], Fresh(t))
            /\ Answered(t, "capacity")
    /\ UNCHANGED <<now, store, used, invoked, invokedAt>>

ServeRestore(t) ==
    LET r == invoked[t] IN
    /\ Pending(t, "restore")
    /\ r.sid \in Fresh(t)
    /\ MayRestore(r.principal, r.sid)
    /\ r.text = "fits"
    /\ Answered(t, "ok")
    /\ UNCHANGED <<now, store, used, invoked, invokedAt>>

RefuseRestore(t) ==
    LET r == invoked[t] IN
    /\ Pending(t, "restore")
    /\ \/ r.text # "fits" /\ Answered(t, "too_large")
       \/ r.sid \notin DOMAIN store /\ Answered(t, "not_found")
       \/ /\ r.sid \in DOMAIN store
          /\ ~MayRestore(r.principal, r.sid)
          /\ Answered(t, "unauthorized")
    /\ UNCHANGED <<now, store, used, invoked, invokedAt>>

\* Counting an anonymization and reading the counters leave the store alone.
ServeOther(t) ==
    /\ Pending(t, "record") \/ Pending(t, "stats")
    /\ Answered(t, "ok")
    /\ UNCHANGED <<now, store, used, invoked, invokedAt>>

Return(t) ==
    /\ answer[t] # "none"
    /\ invoked' = [invoked EXCEPT ![t] = Idle]
    /\ invokedAt' = [invokedAt EXCEPT ![t] = 0]
    /\ answer' = [answer EXCEPT ![t] = "none"]
    /\ UNCHANGED <<now, store, used>>

Next ==
    \/ Advance
    \/ \E sid \in DOMAIN store : Expire(sid)
    \/ \E t \in Threads :
          \/ Invoke(t)
          \/ StoreSession(t)
          \/ RefuseSession(t)
          \/ ServeRestore(t)
          \/ RefuseRestore(t)
          \/ ServeOther(t)
          \/ Return(t)

Spec == Init /\ [][Next]_vars
=============================================================================
