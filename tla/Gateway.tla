------------------------------- MODULE Gateway ------------------------------
(***************************************************************************)
(* The gateway as its clients meet it (src/src/server.py): what the        *)
(* environment configures, the checks at import and in main, and then      *)
(* concurrent tool calls that pass the principal, the rate limiter and the *)
(* validation of arguments before one component is asked.                  *)
(*                                                                         *)
(* The components are taken at their interfaces.  The vault is the owner   *)
(* of each session (SessionStore says what else it promises), the limiter  *)
(* the number of each principal's calls in the current window, knowledge   *)
(* and sandbox an answer or an error.  Whether a component refuses for     *)
(* want of room, of a table or of a daemon is left open here.              *)
(*                                                                         *)
(* A token without a claim has the empty set of projects, and so have      *)
(* configured projects that are not set.                                   *)
(***************************************************************************)
EXTENDS Integers, FiniteSets

CONSTANTS
    Tokens,         \* bearer tokens clients may hold
    ClientIds,      \* client_id fields of MCP_SSE_TOKENS_JSON
    Projects,
    Calls,          \* tool calls in progress at a time
    Quota,          \* max_calls of the limiter
    MaxSessions,    \* bound: sessions created
    MaxFreed,       \* bound: calls of a principal that leave the window
    MaxRestarts     \* bound: restarts of the server

ASSUME TokensAssumption == "stdio" \notin Tokens
ASSUME BoundsAssumption ==
    /\ Quota \in Nat \ {0}
    /\ {MaxSessions, MaxFreed, MaxRestarts} \subseteq Nat
    /\ IsFiniteSet(Calls)

VARIABLES
    transport,      \* --stdio or --sse
    tokens,         \* the credentials: the claims of each token
    configured,     \* MCP_ALLOWED_PROJECTS
    path,           \* LANCEDB_PATH is set
    phase,          \* of the server process
    sessions,       \* the vault: the owner of each session
    spent,          \* the limiter: calls of a principal in the window
    call,           \* the tool calls in progress
    restarts,       \* for the bound
    creator,        \* ghost: the token each session was created with
    freed,          \* ghost: calls that left the window since the start
    answered        \* ghost: answers of those past the limiter, since then

environment == <<transport, tokens, configured, path>>
vars == <<environment, phase, sessions, spent, call, restarts, creator,
          freed, answered>>

-----------------------------------------------------------------------------
(* Configuration and start-up.                                             *)

Claims == [client : ClientIds \cup {"local-client"},
           projects : SUBSET Projects]

NoEntries == [key \in {} |-> {}]

\* No credentials, MCP_SSE_TOKEN, or the entries of MCP_SSE_TOKENS_JSON.
Credentials ==
    {NoEntries}
      \cup {[k \in {key} |-> [client |-> "local-client", projects |-> {}]] :
              key \in Tokens}
      \cup UNION {[T -> {claims \in Claims : /\ claims.client \in ClientIds
                                             /\ claims.projects # {}}] :
                    T \in SUBSET Tokens \ {{}}}

Principals == ClientIds \cup {"local-client", "stdio-local"}

\* A caller over stdio has no token.
Callers == Tokens \cup {"stdio"}

Zero == [p \in Principals |-> 0]

Idle == [step |-> "idle"]

Init ==
    /\ transport = "stdio" /\ tokens = NoEntries
    /\ configured = {} /\ path = FALSE
    /\ phase = "down"
    /\ sessions = NoEntries /\ creator = NoEntries
    /\ spent = Zero /\ freed = Zero /\ answered = Zero
    /\ call = [c \in Calls |-> Idle]
    /\ restarts = 0

memory == <<sessions, spent, call, restarts, creator, freed, answered>>

\* The server is started, with any arguments and variables.
Start ==
    /\ phase = "down" /\ restarts <= MaxRestarts
    /\ phase' = "import"
    /\ transport' \in {"stdio", "sse"}
    /\ tokens' \in Credentials
    /\ configured' \in SUBSET Projects
    /\ path' \in BOOLEAN
    /\ UNCHANGED memory

\* It refuses to start (a malformed variable, a port out of range, a table
\* that cannot be opened), ends or is killed: calls and everything in memory
\* are lost.
Stop ==
    /\ phase # "down"
    /\ transport' = "stdio" /\ tokens' = NoEntries
    /\ configured' = {} /\ path' = FALSE
    /\ phase' = "down" /\ restarts' = restarts + 1
    /\ sessions' = NoEntries
    /\ spent' = Zero /\ freed' = Zero /\ answered' = Zero
    /\ call' = [c \in Calls |-> Idle]
    /\ UNCHANGED creator

\* Wrong variant: two tokens may have the same client_id.
AnyClients == TRUE

\* client_id in client_ids
DistinctClients ==
    \A a, b \in DOMAIN tokens :
       a # b => tokens[a].client # tokens[b].client

\* Wrong variant: a table is opened whatever the projects are.
TableWithoutProjects == TRUE

\* _knowledge_adapter: a table needs projects.
TableIsScoped == path => configured # {}

\* Importing the module.
Import ==
    /\ phase = "import"
    /\ DistinctClients /\ TableIsScoped
    /\ phase' = "main"
    /\ UNCHANGED <<environment, memory>>

\* main
Main ==
    /\ phase = "main"
    /\ transport = "sse" => tokens # NoEntries /\ configured # {}
    /\ phase' = "serving"
    /\ UNCHANGED <<environment, memory>>

-----------------------------------------------------------------------------
(* _principal_context and _tool_context                                    *)

Principal(caller) ==
    IF caller = "stdio" THEN "stdio-local" ELSE tokens[caller].client

\* None, no restriction, is all projects.
AllowedProjects == IF configured = {} THEN Projects ELSE configured

\* Wrong variant: the claim does not count.
ScopeWithoutClaim(caller) == AllowedProjects

Scope(caller) ==
    IF caller = "stdio" \/ tokens[caller].projects = {}
      THEN AllowedProjects
      ELSE tokens[caller].projects \cap AllowedProjects

\* FastMCP lets only holders of a configured token call a tool over SSE.
MayCall(caller) ==
    IF transport = "stdio" THEN caller = "stdio" ELSE caller \in DOMAIN tokens

\* What is asked for: a session to restore, a project to search.
Objects(tool) ==
    CASE tool = "deanonymize" -> 1..MaxSessions
      [] tool = "query" -> Projects
      [] OTHER -> {"none"}

Tools == {"anonymize", "deanonymize", "query", "execute"}

Call(c) ==
    /\ phase = "serving" /\ call[c] = Idle
    /\ \E caller \in Callers, tool \in Tools :
       \E object \in Objects(tool) :
          /\ MayCall(caller)
          /\ call' = [call EXCEPT ![c] =
                [step |-> "gate", caller |-> caller, tool |-> tool,
                 object |-> object, answer |-> "none"]]
    /\ UNCHANGED <<environment, phase, sessions, spent, restarts, creator,
                   freed, answered>>

Who(c) == Principal(call[c].caller)

Reply(c, answer) ==
    call' = [call EXCEPT ![c].step = "reply", ![c].answer = answer]

\* FastMCP refuses arguments that are not of the types in the tool's
\* signature.  The tool's body, and with it the limiter, is not reached.
Mistyped(c) ==
    /\ call[c].step = "gate"
    /\ Reply(c, "bad_arguments")
    /\ UNCHANGED <<environment, phase, sessions, spent, restarts, creator,
                   freed, answered>>

\* The limiter, before the body looks at the arguments.
Admit(c) ==
    /\ call[c].step = "gate"
    /\ IF spent[Who(c)] >= Quota
         THEN Reply(c, "rate_limit_exceeded") /\ UNCHANGED spent
         ELSE /\ call' = [call EXCEPT ![c].step = "serve"]
              /\ spent' = [spent EXCEPT ![Who(c)] = @ + 1]
    /\ UNCHANGED <<environment, phase, sessions, restarts, creator, freed,
                   answered>>

\* A call leaves its principal's window.
Leave(p) ==
    /\ spent[p] > 0 /\ freed[p] < MaxFreed
    /\ spent' = [spent EXCEPT ![p] = @ - 1]
    /\ freed' = [freed EXCEPT ![p] = @ + 1]
    /\ UNCHANGED <<environment, phase, sessions, call, restarts, creator,
                   answered>>

-----------------------------------------------------------------------------
(* The tools.                                                              *)

\* Wrong variant: only the gateway's own errors are caught.
SafeForOwn(raised) == raised

\* safe: what the client is told when this is raised.
Safe(raised) ==
    CASE raised = "ValueError" -> "validation_error"
      [] raised = "Exception" -> "internal_error"
      [] OTHER -> raised

Serving(c, tool) == call[c].step = "serve" /\ call[c].tool = tool

Conclude(c, answer) ==
    /\ Reply(c, answer)
    /\ answered' = [answered EXCEPT ![Who(c)] = @ + 1]
    /\ UNCHANGED <<environment, phase, spent, restarts, freed>>

\* "refused" is any error a component has a class and a code for.
Errors == {"ValueError", "Exception", "refused"}

\* Wrong variant: arguments are validated in front of the limiter.
RefuseAtGate(c) ==
    /\ call[c].step \in {"gate", "serve"}
    /\ \E raised \in Errors : Conclude(c, Safe(raised))
    /\ UNCHANGED <<sessions, creator>>

\* Arguments the input model or the component refuses, an error of the
\* component, or one that nobody foresaw.
Refuse(c) ==
    /\ call[c].step = "serve"
    /\ \E raised \in Errors : Conclude(c, Safe(raised))
    /\ UNCHANGED <<sessions, creator>>

\* The vault is asked only by strategy "placeholder" with entities found.
Anonymize(c) ==
    /\ Serving(c, "anonymize")
    /\ Conclude(c, "masked")
    /\ \/ UNCHANGED <<sessions, creator>>
       \/ LET sid == Cardinality(DOMAIN creator) + 1 IN
          /\ sid <= MaxSessions
          /\ sessions' = [s \in DOMAIN sessions \cup {sid} |->
                            IF s = sid THEN Who(c) ELSE sessions[s]]
          /\ creator' = [s \in DOMAIN creator \cup {sid} |->
                            IF s = sid THEN call[c].caller ELSE creator[s]]

Deanonymize(c) ==
    LET sid == call[c].object IN
    /\ Serving(c, "deanonymize")
    /\ Conclude(c,
          IF sid \notin DOMAIN sessions THEN Safe("session_not_found")
          ELSE IF sessions[sid] # Who(c) THEN Safe("session_not_authorized")
          ELSE "restored")
    /\ UNCHANGED <<sessions, creator>>

\* The server's gate, the adapter's gate, and a table to search.
Query(c) ==
    /\ Serving(c, "query")
    /\ IF call[c].object \in Scope(call[c].caller) \cap AllowedProjects
         THEN path /\ Conclude(c, "rows")
         ELSE Conclude(c, Safe("project_not_authorized"))
    /\ UNCHANGED <<sessions, creator>>

Execute(c) ==
    /\ Serving(c, "execute")
    /\ Conclude(c, "output")
    /\ UNCHANGED <<sessions, creator>>

Return(c) ==
    /\ call[c].step = "reply"
    /\ call' = [call EXCEPT ![c] = Idle]
    /\ UNCHANGED <<environment, phase, sessions, spent, restarts, creator,
                   freed, answered>>

\* A session outlives its TTL and is purged.
Expire(sid) ==
    /\ sid \in DOMAIN sessions
    /\ sessions' = [s \in DOMAIN sessions \ {sid} |-> sessions[s]]
    /\ UNCHANGED <<environment, phase, spent, call, restarts, creator, freed,
                   answered>>

\* Not started again.
Finished == phase = "down" /\ UNCHANGED vars

Step(c) ==
    \/ Call(c)
    \/ Mistyped(c)
    \/ Admit(c)
    \/ Refuse(c)
    \/ Anonymize(c)
    \/ Deanonymize(c)
    \/ Query(c)
    \/ Execute(c)
    \/ Return(c)

Next ==
    \/ Start
    \/ Import
    \/ Main
    \/ Stop
    \/ Finished
    \/ \E c \in Calls : Step(c)
    \/ \E p \in Principals : Leave(p)
    \/ \E sid \in 1..MaxSessions : Expire(sid)

Spec == Init /\ [][Next]_vars

-----------------------------------------------------------------------------
(* What must hold.                                                         *)

Answers ==
    {"masked", "restored", "rows", "output", "rate_limit_exceeded",
     "validation_error", "internal_error", "refused", "session_not_found",
     "session_not_authorized", "project_not_authorized", "bad_arguments"}

\* Types; that every answer is a result or one of the gateway's codes, never
\* the name of an exception, is what safe is for ("bad_arguments" is FastMCP's
\* own answer).
TypeOK ==
    /\ transport \in {"stdio", "sse"}
    /\ tokens \in Credentials
    /\ configured \subseteq Projects
    /\ path \in BOOLEAN
    /\ phase \in {"down", "import", "main", "serving"}
    /\ DOMAIN sessions \subseteq DOMAIN creator
    /\ \A sid \in DOMAIN sessions : sessions[sid] \in Principals
    /\ \A sid \in DOMAIN creator : sid \in Nat /\ creator[sid] \in Callers
    /\ spent \in [Principals -> 0..Quota]
    /\ {freed, answered} \subseteq [Principals -> Nat]
    /\ restarts \in 0..(MaxRestarts + 1)
    /\ DOMAIN call = Calls
    /\ \A c \in Calls :
          \/ call[c] = Idle
          \/ call[c] \in [step : {"gate", "serve", "reply"},
                          caller : Callers, tool : Tools,
                          object : Objects(call[c].tool),
                          answer : Answers \cup {"none"}]

Answered(c, answer) == call[c].step = "reply" /\ call[c].answer = answer

\* Whatever the environment says, a search is made only for a configured
\* project, and over a token with a claim only for a claimed one: no
\* configuration with which the server starts gives an unscoped search.
SearchesInScope ==
    \A c \in Calls : Answered(c, "rows") =>
       /\ call[c].object \in configured
       /\ \/ call[c].caller = "stdio"
          \/ tokens[call[c].caller].projects = {}
          \/ call[c].object \in tokens[call[c].caller].projects

\* A session is restored only over the token it was created with, although
\* the vault knows only client ids and these may be given to other tokens
\* when the server is started again.
SessionsStayWithToken ==
    \A c \in Calls : Answered(c, "restored") =>
       creator[call[c].object] = call[c].caller

InProgress(p) == {c \in Calls : call[c].step = "serve" /\ Who(c) = p}

\* No call reaches the body of a tool unmetered, however it ends: the calls of
\* a principal that it answered, with an error too, or is serving are at most
\* the quota and what has left the window since the start.  (Arguments that
\* FastMCP refuses for their types never reach it, and are not metered.)
CallsMetered ==
    \A p \in Principals :
       answered[p] + Cardinality(InProgress(p)) <= Quota + freed[p]
=============================================================================
