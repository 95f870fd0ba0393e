---------------------------- MODULE GatewayProofs ---------------------------
(***************************************************************************)
(* Proofs about the gateway, for any tokens, client ids, projects, number  *)
(* of calls in progress, quota and environments.                           *)
(***************************************************************************)
EXTENDS Gateway, FiniteSetTheorems, TLAPS

USE TokensAssumption, BoundsAssumption

-----------------------------------------------------------------------------
(* What a step of one call does to the calls.                              *)

Active == {"gate", "serve", "reply"}

CallType(c) ==
    \/ call[c] = Idle
    \/ call[c] \in [step : Active, caller : Callers, tool : Tools,
                    object : Objects(call[c].tool),
                    answer : Answers \cup {"none"}]

CallsType == DOMAIN call = Calls /\ \A c \in Calls : CallType(c)

\* c asks for the same as before.
SameRequest(c) ==
    /\ call'[c].caller = call[c].caller
    /\ call'[c].tool = call[c].tool
    /\ call'[c].object = call[c].object

Others(c) == \A d \in Calls \ {c} : call'[d] = call[d]

\* An active call has all the fields.
LEMMA ActiveCall ==
    ASSUME CallsType, NEW c \in Calls, call[c].step \in Active
    PROVE  /\ call[c] # Idle
           /\ call[c] \in [step : Active, caller : Callers, tool : Tools,
                           object : Objects(call[c].tool),
                           answer : Answers \cup {"none"}]
BY DEF CallsType, CallType, Idle, Active

\* A reply changes the step and the answer.
LEMMA ReplyStep ==
    ASSUME CallsType, NEW c \in Calls, call[c].step \in Active,
           NEW answer \in Answers, Reply(c, answer)
    PROVE  /\ CallsType'
           /\ Others(c)
           /\ SameRequest(c)
           /\ call'[c].step = "reply" /\ call'[c].answer = answer
           /\ call'[c] # Idle
<1>1. call[c] \in [step : Active, caller : Callers, tool : Tools,
                   object : Objects(call[c].tool),
                   answer : Answers \cup {"none"}]
  BY ActiveCall
<1>2. /\ DOMAIN call' = Calls
      /\ Others(c)
      /\ call'[c] = [call[c] EXCEPT !.step = "reply", !.answer = answer]
  BY DEF Reply, CallsType, Others
<1>3. call'[c] \in [step : Active, caller : Callers, tool : Tools,
                    object : Objects(call[c].tool),
                    answer : Answers \cup {"none"}]
      /\ SameRequest(c) /\ call'[c].step = "reply"
      /\ call'[c].answer = answer
  BY <1>1, <1>2 DEF SameRequest, Active
<1>4. call'[c] # Idle
  BY <1>3 DEF Idle
<1>5. CallType(c)'
  BY <1>3 DEF CallType, SameRequest, Objects
<1>6. CallsType'
  BY <1>2, <1>5 DEF CallsType, CallType, Others, Objects
<1>7. QED
  BY <1>2, <1>3, <1>4, <1>6

\* Every exception becomes an answer.
LEMMA SafeAnswers ==
    /\ \A raised \in Errors : Safe(raised) \in Answers
    /\ Safe("session_not_found") = "session_not_found"
    /\ Safe("session_not_authorized") = "session_not_authorized"
    /\ Safe("project_not_authorized") = "project_not_authorized"
    /\ \A raised \in Errors : Safe(raised) \notin {"rows", "restored"}
BY DEF Safe, Errors, Answers

-----------------------------------------------------------------------------
(* The five kinds of steps of a call.                                      *)

records == <<sessions, creator, answered>>

Arrives(c) ==
    /\ call[c] = Idle /\ phase = "serving"
    /\ call'[c] # Idle /\ call'[c].step = "gate"
    /\ MayCall(call'[c].caller)
    /\ UNCHANGED <<spent, records>>

TurnedAway(c) ==
    /\ call[c].step = "gate" /\ call'[c].step = "reply"
    /\ SameRequest(c)
    /\ call'[c].answer \in {"bad_arguments", "rate_limit_exceeded"}
    /\ UNCHANGED <<spent, records>>

Admitted(c) ==
    /\ call[c].step = "gate" /\ call'[c].step = "serve"
    /\ SameRequest(c)
    /\ ~(spent[Who(c)] >= Quota)
    /\ spent' = [spent EXCEPT ![Who(c)] = @ + 1]
    /\ UNCHANGED records

\* What an answer says of the moment it was made.
JustAnswered(c) ==
    /\ call'[c].answer = "rows" =>
          /\ path
          /\ call[c].object \in Scope(call[c].caller) \cap AllowedProjects
    /\ call'[c].answer = "restored" =>
          /\ call[c].object \in DOMAIN sessions
          /\ sessions[call[c].object] = Who(c)

Stores(c) ==
    LET sid == Cardinality(DOMAIN creator) + 1 IN
    /\ sessions' = [s \in DOMAIN sessions \cup {sid} |->
                      IF s = sid THEN Who(c) ELSE sessions[s]]
    /\ creator' = [s \in DOMAIN creator \cup {sid} |->
                      IF s = sid THEN call[c].caller ELSE creator[s]]

Concluded(c) ==
    /\ call[c].step = "serve" /\ call'[c].step = "reply"
    /\ SameRequest(c)
    /\ JustAnswered(c)
    /\ answered' = [answered EXCEPT ![Who(c)] = @ + 1]
    /\ UNCHANGED spent
    /\ UNCHANGED <<sessions, creator>> \/ Stores(c)

Returned(c) ==
    /\ call[c].step = "reply" /\ call'[c] = Idle
    /\ UNCHANGED <<spent, records>>

Kind(c) ==
    \/ Arrives(c)
    \/ TurnedAway(c)
    \/ Admitted(c)
    \/ Concluded(c)
    \/ Returned(c)

LEMMA ConcludeStep ==
    ASSUME CallsType, NEW c \in Calls, call[c].step = "serve",
           NEW answer \in Answers, Conclude(c, answer)
    PROVE  /\ CallsType' /\ Others(c) /\ SameRequest(c)
           /\ call'[c].step = "reply" /\ call'[c].answer = answer
           /\ answered' = [answered EXCEPT ![Who(c)] = @ + 1]
           /\ UNCHANGED <<environment, phase, restarts, freed, spent>>
<1>1. call[c].step \in Active /\ Reply(c, answer)
  BY DEF Conclude, Active
<1>2. QED
  BY <1>1, ReplyStep DEF Conclude

\* Every step of a call is of one kind, and leaves the other calls, the
\* environment and the process alone.
LEMMA StepKinds ==
    ASSUME CallsType, NEW c \in Calls, Step(c)
    PROVE  /\ CallsType' /\ Others(c) /\ Kind(c)
           /\ UNCHANGED <<environment, phase, restarts, freed>>
<1>1. CASE Call(c)
  <2>1. PICK caller \in Callers, tool \in Tools :
           \E object \in Objects(tool) :
              /\ MayCall(caller)
              /\ call' = [call EXCEPT ![c] =
                    [step |-> "gate", caller |-> caller, tool |-> tool,
                     object |-> object, answer |-> "none"]]
    BY <1>1 DEF Call
  <2>1a. PICK object \in Objects(tool) :
           /\ MayCall(caller)
           /\ call' = [call EXCEPT ![c] =
                 [step |-> "gate", caller |-> caller, tool |-> tool,
                  object |-> object, answer |-> "none"]]
    BY <2>1
  <2>2. /\ DOMAIN call' = Calls /\ Others(c)
        /\ call'[c] = [step |-> "gate", caller |-> caller, tool |-> tool,
                       object |-> object, answer |-> "none"]
    BY <2>1a DEF CallsType, Others
  <2>3. CallType(c)'
    BY <2>2 DEF CallType, Active, Objects
  <2>4. CallsType'
    BY <2>2, <2>3 DEF CallsType, CallType, Others, Objects
  <2>5. call'[c] # Idle
    BY <2>2 DEF Idle
  <2>6. Arrives(c)
    BY <1>1, <2>1a, <2>2, <2>5 DEF Arrives, Call, records
  <2>7. QED
    BY <1>1, <2>2, <2>4, <2>6 DEF Kind, Call
<1>2. CASE Admit(c)
  <2>1. call[c].step \in Active
    BY <1>2 DEF Admit, Active
  <2>2. CASE spent[Who(c)] >= Quota
    <3>1. "rate_limit_exceeded" \in Answers
      BY DEF Answers
    <3>2. Reply(c, "rate_limit_exceeded") /\ UNCHANGED spent
      BY <1>2, <2>2 DEF Admit
    <3>3. /\ CallsType' /\ Others(c) /\ SameRequest(c)
          /\ call'[c].step = "reply"
          /\ call'[c].answer = "rate_limit_exceeded"
      BY <2>1, <3>1, <3>2, ReplyStep
    <3>4. QED
      BY <1>2, <3>2, <3>3 DEF Kind, TurnedAway, Admit, records
  <2>3. CASE ~(spent[Who(c)] >= Quota)
    <3>1. /\ call' = [call EXCEPT ![c].step = "serve"]
          /\ spent' = [spent EXCEPT ![Who(c)] = @ + 1]
      BY <1>2, <2>3 DEF Admit
    <3>2. call[c] \in [step : Active, caller : Callers, tool : Tools,
                       object : Objects(call[c].tool),
                       answer : Answers \cup {"none"}]
      BY <2>1, ActiveCall
    <3>3. /\ DOMAIN call' = Calls /\ Others(c)
          /\ call'[c] = [call[c] EXCEPT !.step = "serve"]
      BY <3>1 DEF CallsType, Others
    <3>4. SameRequest(c) /\ call'[c].step = "serve" /\ CallType(c)'
      BY <3>2, <3>3 DEF SameRequest, CallType, Active, Objects
    <3>5. CallsType'
      BY <3>3, <3>4 DEF CallsType, CallType, Others, Objects
    <3>6. QED
      BY <1>2, <2>3, <3>1, <3>3, <3>4, <3>5 DEF Kind, Admitted, Admit, records
  <2>4. QED
    BY <2>2, <2>3
<1>3. CASE Refuse(c)
  <2>1. PICK raised \in Errors : Conclude(c, Safe(raised))
    BY <1>3 DEF Refuse
  <2>2. Safe(raised) \in Answers /\ Safe(raised) \notin {"rows", "restored"}
    BY SafeAnswers
  <2>3. QED
    BY <1>3, <2>1, <2>2, ConcludeStep DEF Refuse, Kind, Concluded, JustAnswered
<1>4. CASE Anonymize(c)
  <2>1. call[c].step = "serve" /\ Conclude(c, "masked")
        /\ (UNCHANGED <<sessions, creator>> \/ Stores(c))
    BY <1>4 DEF Anonymize, Serving, Stores
  <2>2. "masked" \in Answers
    BY DEF Answers
  <2>3. QED
    BY <2>1, <2>2, ConcludeStep DEF Kind, Concluded, JustAnswered
<1>5. CASE Deanonymize(c)
  <2> DEFINE sid == call[c].object
             answer == IF sid \notin DOMAIN sessions
                         THEN Safe("session_not_found")
                       ELSE IF sessions[sid] # Who(c)
                         THEN Safe("session_not_authorized") ELSE "restored"
  <2>1. call[c].step = "serve" /\ Conclude(c, answer)
        /\ UNCHANGED <<sessions, creator>>
    BY <1>5 DEF Deanonymize, Serving
  <2>2. /\ answer \in Answers /\ answer # "rows"
        /\ answer = "restored" => sid \in DOMAIN sessions
                                  /\ sessions[sid] = Who(c)
    BY SafeAnswers DEF Answers
  <2> HIDE DEF answer
  <2>3. QED
    BY <2>1, <2>2, ConcludeStep DEF Kind, Concluded, JustAnswered
<1>6. CASE Query(c)
  <2>1. call[c].step = "serve" /\ UNCHANGED <<sessions, creator>>
    BY <1>6 DEF Query, Serving
  <2>2. CASE call[c].object \in Scope(call[c].caller) \cap AllowedProjects
    <3>1. path /\ Conclude(c, "rows")
      BY <1>6, <2>2 DEF Query
    <3>2. "rows" \in Answers
      BY DEF Answers
    <3>3. QED
      BY <2>1, <2>2, <3>1, <3>2, ConcludeStep
         DEF Kind, Concluded, JustAnswered
  <2>3. CASE call[c].object \notin Scope(call[c].caller) \cap AllowedProjects
    <3>1. Conclude(c, "project_not_authorized")
      BY <1>6, <2>3, SafeAnswers DEF Query
    <3>2. "project_not_authorized" \in Answers
      BY DEF Answers
    <3>3. QED
      BY <2>1, <3>1, <3>2, ConcludeStep DEF Kind, Concluded, JustAnswered
  <2>4. QED
    BY <2>2, <2>3
<1>7. CASE Execute(c)
  <2>1. "output" \in Answers
    BY DEF Answers
  <2>2. QED
    BY <1>7, <2>1, ConcludeStep
       DEF Execute, Serving, Kind, Concluded, JustAnswered
<1>8. CASE Return(c)
  <2>1. DOMAIN call' = Calls /\ Others(c) /\ call'[c] = Idle
    BY <1>8 DEF Return, CallsType, Others
  <2>2. CallsType'
    BY <2>1 DEF CallsType, CallType, Others, Objects
  <2>3. QED
    BY <1>8, <2>1, <2>2 DEF Return, Kind, Returned, records
<1>9. CASE Mistyped(c)
  <2>1. call[c].step \in Active /\ Reply(c, "bad_arguments")
    BY <1>9 DEF Mistyped, Active
  <2>2. "bad_arguments" \in Answers
    BY DEF Answers
  <2>3. /\ CallsType' /\ Others(c) /\ SameRequest(c)
        /\ call'[c].step = "reply" /\ call'[c].answer = "bad_arguments"
    BY <2>1, <2>2, ReplyStep
  <2>4. QED
    BY <1>9, <2>3 DEF Kind, TurnedAway, Mistyped, records
<1>10. QED
  BY <1>1, <1>2, <1>3, <1>4, <1>5, <1>6, <1>7, <1>8, <1>9 DEF Step

-----------------------------------------------------------------------------
(* Types and start-up.                                                     *)

\* Only a server that is serving has calls and sessions, it started with an
\* environment that passed the checks, and its callers may call.  A server
\* that is up has not used up its restarts.
StartInv ==
    /\ phase \in {"main", "serving"} => DistinctClients /\ TableIsScoped
    /\ phase # "serving" =>
          DOMAIN sessions = {} /\ \A c \in Calls : call[c] = Idle
    /\ \A c \in Calls : call[c] # Idle => MayCall(call[c].caller)
    /\ phase # "down" => restarts <= MaxRestarts

\* Identifiers are given out in order.
CreatorInv == \E n \in Nat : DOMAIN creator = 1..n

TypeInv == TypeOK /\ StartInv /\ CreatorInv

LEMMA CallsTypeOfTypeOK == TypeOK <=> TypeOK /\ CallsType
BY DEF TypeOK, CallsType, CallType, Active

\* Whoever may call is a principal.
LEMMA CallerIsPrincipal ==
    ASSUME tokens \in Credentials, NEW caller, MayCall(caller)
    PROVE  Principal(caller) \in Principals
<1>1. CASE caller = "stdio"
  BY <1>1 DEF Principal, Principals
<1>2. CASE caller # "stdio"
  <2>1. caller \in DOMAIN tokens
    BY <1>2 DEF MayCall
  <2>2. CASE tokens = NoEntries
    BY <2>1, <2>2 DEF NoEntries
  <2>3. CASE \E key \in Tokens :
                tokens = [k \in {key} |->
                            [client |-> "local-client", projects |-> {}]]
    BY <1>2, <2>1, <2>3 DEF Principal, Principals
  <2>4. CASE \E T \in SUBSET Tokens \ {{}} :
                tokens \in [T -> {claims \in Claims :
                                    /\ claims.client \in ClientIds
                                    /\ claims.projects # {}}]
    BY <1>2, <2>1, <2>4 DEF Principal, Principals
  <2>5. QED
    BY <2>2, <2>3, <2>4 DEF Credentials
<1>3. QED
  BY <1>1, <1>2

\* The next identifier is one more than the last.
LEMMA NextIdentifier ==
    ASSUME NEW n \in Nat, DOMAIN creator = 1..n
    PROVE  Cardinality(DOMAIN creator) + 1 = n + 1
<1>1. Cardinality(1..n) = IF 1 > n THEN 0 ELSE n - 1 + 1
  BY FS_Interval
<1>2. QED
  BY <1>1

LEMMA InitTypeInv == Init => TypeInv
<1> SUFFICES ASSUME Init PROVE TypeInv
  OBVIOUS
<1>1. tokens \in Credentials
  BY DEF Init, Credentials
<1>2. DOMAIN sessions = {} /\ DOMAIN creator = {}
  BY DEF Init, NoEntries
<1>3. spent \in [Principals -> 0..Quota]
      /\ {freed, answered} \subseteq [Principals -> Nat]
  BY DEF Init, Zero
<1>4. DOMAIN call = Calls /\ \A c \in Calls : call[c] = Idle
  BY DEF Init
<1>5. TypeOK
  <2>1. MaxRestarts \in Nat
    OBVIOUS
  <2>2. restarts \in 0..(MaxRestarts + 1)
    BY <2>1 DEF Init
  <2>3. QED
    BY <1>1, <1>2, <1>3, <1>4, <2>2 DEF Init, TypeOK
<1>6. StartInv
  BY <1>2, <1>4 DEF Init, StartInv
<1>7. DOMAIN creator = 1..0
  BY <1>2
<1>8. QED
  BY <1>5, <1>6, <1>7 DEF TypeInv, CreatorInv

\* A step of a call keeps the types.
LEMMA StepTypeInv ==
    ASSUME TypeInv, NEW c \in Calls, Step(c)
    PROVE  TypeInv'
<1> USE DEF environment
<1>1. CallsType
  BY CallsTypeOfTypeOK DEF TypeInv
<1>2. /\ CallsType' /\ Others(c) /\ Kind(c)
      /\ UNCHANGED <<environment, phase, restarts, freed>>
  BY <1>1, StepKinds
<1>3. tokens \in Credentials /\ spent \in [Principals -> 0..Quota]
      /\ answered \in [Principals -> Nat] /\ freed \in [Principals -> Nat]
  BY DEF TypeInv, TypeOK
<1>3a. call[c] # Idle => call[c].caller \in Callers /\ Who(c) \in Principals
  BY <1>1, <1>3, CallerIsPrincipal
     DEF CallsType, CallType, TypeInv, StartInv, Who
<1>4. spent' \in [Principals -> 0..Quota] /\ answered' \in [Principals -> Nat]
  <2>1. CASE Admitted(c)
    <3>0. Who(c) \in Principals
      BY <1>3a, <2>1 DEF Admitted, Idle
    <3>1. spent[Who(c)] + 1 \in 0..Quota
      BY <1>3, <2>1, <3>0 DEF Admitted
    <3>2. QED
      BY <1>3, <2>1, <3>1 DEF Admitted, records
  <2>2. CASE Concluded(c)
    <3>1. Who(c) \in Principals
      BY <1>3a, <2>2 DEF Concluded, Idle
    <3>2. answered' \in [Principals -> Nat]
      BY <1>3, <2>2, <3>1 DEF Concluded
    <3>3. QED
      BY <1>3, <2>2, <3>2 DEF Concluded
  <2>3. QED
    BY <1>2, <1>3, <2>1, <2>2
       DEF Kind, Arrives, TurnedAway, Returned, records
<1>5. /\ DOMAIN sessions \subseteq DOMAIN creator
      /\ \A sid \in DOMAIN sessions : sessions[sid] \in Principals
      /\ \A sid \in DOMAIN creator : sid \in Nat /\ creator[sid] \in Callers
  BY DEF TypeInv, TypeOK
<1>7. /\ CreatorInv'
      /\ DOMAIN sessions' \subseteq DOMAIN creator'
      /\ \A sid \in DOMAIN sessions' : sessions'[sid] \in Principals
      /\ \A sid \in DOMAIN creator' : sid \in Nat /\ creator'[sid] \in Callers
  <2>1. CASE UNCHANGED <<sessions, creator>>
    BY <1>5, <2>1 DEF TypeInv, CreatorInv
  <2>2. CASE Concluded(c) /\ Stores(c)
    <3>1. PICK n \in Nat : DOMAIN creator = 1..n
      BY DEF TypeInv, CreatorInv
    <3>2. Cardinality(DOMAIN creator) + 1 = n + 1
      BY <3>1, NextIdentifier
    <3>3. call[c] # Idle
      BY <2>2 DEF Concluded, Idle
    <3>4. /\ sessions' = [s \in DOMAIN sessions \cup {n + 1} |->
                            IF s = n + 1 THEN Who(c) ELSE sessions[s]]
          /\ creator' = [s \in DOMAIN creator \cup {n + 1} |->
                            IF s = n + 1 THEN call[c].caller ELSE creator[s]]
      BY <2>2, <3>2 DEF Stores
    <3>5. DOMAIN creator' = 1..(n + 1)
      BY <3>1, <3>4
    <3>6. CreatorInv'
      BY <3>5 DEF CreatorInv
    <3>7. QED
      BY <1>5, <1>3a, <3>3, <3>4, <3>6
  <2>3. QED
    BY <1>2, <2>1, <2>2
       DEF Kind, Arrives, TurnedAway, Admitted, Concluded, Returned, records
<1>8. StartInv'
  <2>1. phase = "serving"
    BY DEF TypeInv, StartInv, Step, Call, Mistyped, Admit, Refuse, Anonymize,
           Deanonymize, Query, Execute, Return, Serving, Idle
  <2>2. \A d \in Calls : call'[d] # Idle => MayCall(call'[d].caller)
    <3>1. ASSUME NEW d \in Calls, call'[d] # Idle
          PROVE  MayCall(call'[d].caller)
      <4>1. CASE d # c
        BY <1>2, <3>1, <4>1 DEF Others, TypeInv, StartInv
      <4>2. CASE d = c
        BY <1>2, <3>1, <4>2
           DEF TypeInv, StartInv, Kind, Arrives, TurnedAway, Admitted,
               Concluded, Returned, SameRequest, Idle
      <4>3. QED
        BY <4>1, <4>2
    <3>2. QED
      BY <3>1
  <2>3. QED
    BY <1>2, <2>1, <2>2
       DEF TypeInv, StartInv, MayCall, DistinctClients, TableIsScoped
<1>9. TypeOK'
  BY <1>2, <1>3, <1>4, <1>7 DEF TypeInv, TypeOK, CallsType, CallType, Active
<1>10. QED
  BY <1>7, <1>8, <1>9 DEF TypeInv

\* The steps that are of no call.
ProcessStep ==
    \/ Start
    \/ Import
    \/ Main
    \/ Stop
    \/ Finished
    \/ \E p \in Principals : Leave(p)
    \/ \E sid \in 1..MaxSessions : Expire(sid)

LEMMA NextCases ==
    ASSUME [Next]_vars
    PROVE  \/ ProcessStep
           \/ \E c \in Calls : Step(c)
           \/ UNCHANGED vars
BY DEF Next, ProcessStep

\* Starting and stopping leave nothing behind but the ghost of the creators.
LEMMA Cleared ==
    ASSUME Stop
    PROVE  /\ DOMAIN sessions' = {}
           /\ DOMAIN call' = Calls /\ \A c \in Calls : call'[c] = Idle
           /\ spent' = Zero /\ freed' = Zero /\ answered' = Zero
           /\ phase' = "down" /\ UNCHANGED creator
BY DEF Stop, NoEntries

LEMMA ProcessTypeInv ==
    ASSUME TypeInv, ProcessStep
    PROVE  TypeInv'
<1> USE DEF environment, memory
<1>1. MaxRestarts \in Nat
  OBVIOUS
<1>2. CASE Start
  <2>1. TypeOK'
    BY <1>2 DEF TypeInv, TypeOK, Start
  <2>2. StartInv'
    BY <1>2 DEF TypeInv, StartInv, Start
  <2>3. QED
    BY <1>2, <2>1, <2>2 DEF TypeInv, CreatorInv, Start
<1>3. CASE Import
  <2>1. TypeOK'
    BY <1>3 DEF TypeInv, TypeOK, Import
  <2>2. StartInv'
    BY <1>3 DEF TypeInv, StartInv, Import, DistinctClients, TableIsScoped
  <2>3. QED
    BY <1>3, <2>1, <2>2 DEF TypeInv, CreatorInv, Import
<1>4. CASE Main
  <2>1. TypeOK'
    BY <1>4 DEF TypeInv, TypeOK, Main
  <2>2. StartInv'
    BY <1>4 DEF TypeInv, StartInv, Main, DistinctClients, TableIsScoped
  <2>3. QED
    BY <1>4, <2>1, <2>2 DEF TypeInv, CreatorInv, Main
<1>5. CASE Stop
  <2>1. Zero \in [Principals -> 0..Quota] /\ Zero \in [Principals -> Nat]
    BY DEF Zero
  <2>2. tokens' \in Credentials /\ transport' \in {"stdio", "sse"}
        /\ configured' \subseteq Projects /\ path' \in BOOLEAN
    BY <1>5 DEF Stop, Credentials
  <2>3. restarts' \in 0..(MaxRestarts + 1)
    BY <1>1, <1>5 DEF Stop, TypeInv, StartInv, TypeOK
  <2>4. TypeOK'
    BY <1>5, Cleared, <2>1, <2>2, <2>3 DEF TypeInv, TypeOK
  <2>5. StartInv'
    BY <1>5, Cleared DEF StartInv
  <2>6. QED
    BY <1>5, <2>4, <2>5 DEF TypeInv, CreatorInv, Stop
<1>6. CASE Finished
  BY <1>6 DEF Finished, vars, TypeInv, TypeOK, StartInv, CreatorInv, MayCall,
              DistinctClients, TableIsScoped
<1>7. CASE \E p \in Principals : Leave(p)
  <2>1. PICK p \in Principals : Leave(p)
    BY <1>7
  <2>2. spent[p] \in 0..Quota /\ freed[p] \in Nat
    BY DEF TypeInv, TypeOK
  <2>3. spent[p] - 1 \in 0..Quota /\ freed[p] + 1 \in Nat
    BY <2>1, <2>2 DEF Leave
  <2>4. spent' \in [Principals -> 0..Quota] /\ freed' \in [Principals -> Nat]
    BY <2>1, <2>3 DEF Leave, TypeInv, TypeOK
  <2>5. TypeOK'
    BY <2>1, <2>4 DEF TypeInv, TypeOK, Leave
  <2>6. QED
    BY <2>1, <2>5 DEF Leave, TypeInv, StartInv, CreatorInv, MayCall,
                      DistinctClients, TableIsScoped
<1>8. CASE \E sid \in 1..MaxSessions : Expire(sid)
  <2>1. PICK sid \in 1..MaxSessions : Expire(sid)
    BY <1>8
  <2>2. /\ DOMAIN sessions' = DOMAIN sessions \ {sid}
        /\ \A s \in DOMAIN sessions' : sessions'[s] = sessions[s]
    BY <2>1 DEF Expire
  <2>3. TypeOK'
    BY <2>1, <2>2 DEF TypeInv, TypeOK, Expire
  <2>4. QED
    BY <2>1, <2>2, <2>3 DEF Expire, TypeInv, StartInv, CreatorInv, MayCall,
                            DistinctClients, TableIsScoped
<1>9. QED
  BY <1>2, <1>3, <1>4, <1>5, <1>6, <1>7, <1>8 DEF ProcessStep

LEMMA NextTypeInv == TypeInv /\ [Next]_vars => TypeInv'
<1> SUFFICES ASSUME TypeInv, [Next]_vars PROVE TypeInv'
  OBVIOUS
<1>1. CASE UNCHANGED vars
  BY <1>1 DEF vars, environment, TypeInv, TypeOK, StartInv, CreatorInv,
              MayCall, DistinctClients, TableIsScoped
<1>2. QED
  BY <1>1, NextCases, StepTypeInv, ProcessTypeInv

\* The state is of its type, whatever the environment says; in particular
\* every answer is a result or a code of the gateway.
THEOREM TypeCorrect == Spec => []TypeOK
<1>1. TypeInv => TypeOK
  BY DEF TypeInv
<1>2. QED
  BY <1>1, InitTypeInv, NextTypeInv, PTL DEF Spec

-----------------------------------------------------------------------------
(* Searches.                                                               *)

\* A step of the process either finds no call and leaves none, or leaves
\* the calls and the environment alone.
LEMMA ProcessFrame ==
    ASSUME TypeInv, ProcessStep
    PROVE  \/ \A c \in Calls : call'[c] = Idle
           \/ UNCHANGED <<environment, call>>
<1>1. CASE Start
  BY <1>1 DEF Start, memory, TypeInv, StartInv
<1>2. CASE Stop
  BY <1>2, Cleared
<1>3. CASE Import \/ Main \/ Finished
  BY <1>3 DEF Import, Main, Finished, vars, environment, memory
<1>4. CASE \E p \in Principals : Leave(p)
  BY <1>4 DEF Leave
<1>5. CASE \E sid \in 1..MaxSessions : Expire(sid)
  BY <1>5 DEF Expire
<1>6. QED
  BY <1>1, <1>2, <1>3, <1>4, <1>5 DEF ProcessStep

\* The two gates a search has passed.
Gated(c) ==
    path /\ call[c].object \in Scope(call[c].caller) \cap AllowedProjects

SearchInv == \A c \in Calls : Answered(c, "rows") => Gated(c)

LEMMA SearchInvNext ==
    TypeInv /\ SearchInv /\ [Next]_vars => SearchInv'
<1> SUFFICES ASSUME TypeInv, SearchInv, [Next]_vars,
                    NEW c \in Calls, Answered(c, "rows")'
             PROVE  Gated(c)'
  BY DEF SearchInv
<1> USE DEF environment
<1>1. call'[c].step = "reply" /\ call'[c].answer = "rows" /\ call'[c] # Idle
  BY DEF Answered, Idle
<1>2. ASSUME UNCHANGED environment, call'[c] = call[c]
      PROVE  Gated(c)'
  BY <1>1, <1>2 DEF SearchInv, Answered, Gated, Scope, AllowedProjects
<1>3. CASE ProcessStep
  BY <1>1, <1>2, <1>3, ProcessFrame
<1>4. CASE UNCHANGED vars
  BY <1>2, <1>4 DEF vars
<1>5. ASSUME NEW d \in Calls, Step(d)
      PROVE  Gated(c)'
  <2>1. CallsType
    BY CallsTypeOfTypeOK DEF TypeInv
  <2>2. Others(d) /\ Kind(d) /\ UNCHANGED environment
    BY <1>5, <2>1, StepKinds
  <2>3. CASE c # d
    BY <1>2, <2>2, <2>3 DEF Others
  <2>4. CASE c = d /\ Concluded(c)
    <3>1. Gated(c) /\ SameRequest(c)
      BY <1>1, <2>4 DEF Concluded, JustAnswered, Gated
    <3>2. QED
      BY <2>2, <3>1 DEF Gated, SameRequest, Scope, AllowedProjects
  <2>5. QED
    BY <1>1, <2>2, <2>3, <2>4 DEF Kind, Arrives, TurnedAway, Admitted, Returned
<1>6. QED
  BY <1>3, <1>4, <1>5, NextCases

\* A server that opened a table has projects, so that both gates together
\* keep a search inside of them and of the claim.
LEMMA GatedIsInScope == TypeInv /\ SearchInv => SearchesInScope
<1> SUFFICES ASSUME TypeInv, SearchInv, NEW c \in Calls, Answered(c, "rows")
             PROVE  /\ call[c].object \in configured
                    /\ \/ call[c].caller = "stdio"
                       \/ tokens[call[c].caller].projects = {}
                       \/ call[c].object \in tokens[call[c].caller].projects
  BY DEF SearchesInScope
<1>1. Gated(c)
  BY DEF SearchInv
<1>2. call[c] # Idle
  BY DEF Answered, Idle
<1>3. configured # {}
  BY <1>1, <1>2 DEF TypeInv, TypeOK, StartInv, TableIsScoped, Gated
<1>4. QED
  BY <1>1, <1>3 DEF Gated, Scope, AllowedProjects

\* Whatever the environment says, a search is made only for a configured
\* project and, with a claim, for a claimed one: TableIsScoped at import is
\* what excludes the unscoped default.
THEOREM SearchesInScopeHolds == Spec => []SearchesInScope
<1>1. Init => SearchInv
  BY DEF Init, SearchInv, Answered, Idle
<1>2. QED
  BY <1>1, InitTypeInv, NextTypeInv, SearchInvNext, GatedIsInScope, PTL
     DEF Spec

-----------------------------------------------------------------------------
(* Calls and the quota.                                                    *)

\* Every admission is in the window or has left it, and is answered or in
\* progress.
MeterInv ==
    \A p \in Principals :
       answered[p] + Cardinality(InProgress(p)) = spent[p] + freed[p]

LEMMA InProgressFinite ==
    ASSUME NEW p
    PROVE  IsFiniteSet(InProgress(p)) /\ Cardinality(InProgress(p)) \in Nat
<1>1. InProgress(p) \subseteq Calls
  BY DEF InProgress
<1>2. QED
  BY <1>1, FS_Subset, FS_CardinalityType

\* The principal of a call does not change while it is made.
LEMMA SameWho ==
    ASSUME NEW c, SameRequest(c), UNCHANGED environment
    PROVE  Who(c)' = Who(c)
BY DEF SameRequest, environment, Who, Principal

LEMMA StepMeterInv ==
    ASSUME TypeInv, MeterInv, NEW c \in Calls, Step(c)
    PROVE  MeterInv'
<1> SUFFICES ASSUME NEW p \in Principals
             PROVE  (answered[p] + Cardinality(InProgress(p))
                        = spent[p] + freed[p])'
  BY DEF MeterInv
<1>1. CallsType
  BY CallsTypeOfTypeOK DEF TypeInv
<1>2. Others(c) /\ Kind(c) /\ UNCHANGED <<environment, freed>>
  BY <1>1, StepKinds
<1>3. /\ DOMAIN spent = Principals /\ DOMAIN answered = Principals
      /\ spent[p] \in Nat /\ freed[p] \in Nat /\ answered[p] \in Nat
  BY DEF TypeInv, TypeOK
<1>4. answered[p] + Cardinality(InProgress(p)) = spent[p] + freed[p]
  BY DEF MeterInv
<1>5. \A d \in Calls \ {c} : d \in InProgress(p)' <=> d \in InProgress(p)
  BY <1>2 DEF Others, InProgress, Who, Principal, environment
<1>6. InProgress(p) \subseteq Calls /\ InProgress(p)' \subseteq Calls
  BY DEF InProgress
<1>7. IsFiniteSet(InProgress(p)) /\ Cardinality(InProgress(p)) \in Nat
  BY InProgressFinite
<1>8. CASE Arrives(c) \/ TurnedAway(c) \/ Returned(c)
  <2>1. c \notin InProgress(p) /\ c \notin InProgress(p)'
    BY <1>8 DEF Arrives, TurnedAway, Returned, InProgress, Idle
  <2>2. InProgress(p)' = InProgress(p)
    BY <1>5, <1>6, <2>1
  <2>3. UNCHANGED <<spent, answered>>
    BY <1>8 DEF Arrives, TurnedAway, Returned, records
  <2>4. QED
    BY <1>2, <1>4, <2>2, <2>3
<1>9. CASE Admitted(c)
  <2>1. Who(c)' = Who(c)
    BY <1>2, <1>9, SameWho DEF Admitted
  <2>2. c \notin InProgress(p) /\ (c \in InProgress(p)' <=> Who(c) = p)
    BY <1>9, <2>1 DEF Admitted, InProgress
  <2>3. CASE Who(c) = p
    <3>1. InProgress(p)' = InProgress(p) \cup {c}
      BY <1>5, <1>6, <2>2, <2>3
    <3>2. Cardinality(InProgress(p)') = Cardinality(InProgress(p)) + 1
      BY <1>7, <2>2, <3>1, FS_AddElement
    <3>3. spent'[p] = spent[p] + 1 /\ answered'[p] = answered[p]
      BY <1>3, <1>9, <2>3 DEF Admitted, records
    <3>4. QED
      BY <1>2, <1>3, <1>4, <1>7, <3>2, <3>3
  <2>4. CASE Who(c) # p
    <3>1. InProgress(p)' = InProgress(p)
      BY <1>5, <1>6, <2>2, <2>4
    <3>2. spent'[p] = spent[p] /\ answered'[p] = answered[p]
      BY <1>3, <1>9, <2>4 DEF Admitted, records
    <3>3. QED
      BY <1>2, <1>4, <3>1, <3>2
  <2>5. QED
    BY <2>3, <2>4
<1>10. CASE Concluded(c)
  <2>1. c \notin InProgress(p)' /\ (c \in InProgress(p) <=> Who(c) = p)
    BY <1>10 DEF Concluded, InProgress
  <2>2. spent' = spent /\ answered' = [answered EXCEPT ![Who(c)] = @ + 1]
    BY <1>10 DEF Concluded
  <2>3. CASE Who(c) = p
    <3>1. InProgress(p)' = InProgress(p) \ {c} /\ c \in InProgress(p)
      BY <1>5, <1>6, <2>1, <2>3
    <3>2. Cardinality(InProgress(p)') = Cardinality(InProgress(p)) - 1
      BY <1>7, <3>1, FS_RemoveElement
    <3>3. answered'[p] = answered[p] + 1
      BY <1>3, <2>2, <2>3
    <3>4. QED
      BY <1>2, <1>3, <1>4, <1>7, <2>2, <3>2, <3>3
  <2>4. CASE Who(c) # p
    <3>1. InProgress(p)' = InProgress(p)
      BY <1>5, <1>6, <2>1, <2>4
    <3>2. answered'[p] = answered[p]
      BY <1>3, <2>2, <2>4
    <3>3. QED
      BY <1>2, <1>4, <2>2, <3>1, <3>2
  <2>5. QED
    BY <2>3, <2>4
<1>11. QED
  BY <1>2, <1>8, <1>9, <1>10 DEF Kind

\* With no call there is none in progress.
LEMMA NoneInProgress ==
    ASSUME \A c \in Calls : call[c] = Idle, NEW p
    PROVE  Cardinality(InProgress(p)) = 0
<1>1. InProgress(p) = {}
  BY DEF InProgress, Idle
<1>2. QED
  BY <1>1, FS_EmptySet

LEMMA ProcessMeterInv ==
    ASSUME TypeInv, MeterInv, ProcessStep
    PROVE  MeterInv'
<1> SUFFICES ASSUME NEW p \in Principals
             PROVE  (answered[p] + Cardinality(InProgress(p))
                        = spent[p] + freed[p])'
  BY DEF MeterInv
<1> USE DEF environment
<1>1. /\ DOMAIN spent = Principals /\ DOMAIN freed = Principals
      /\ spent[p] \in Nat /\ freed[p] \in Nat /\ answered[p] \in Nat
  BY DEF TypeInv, TypeOK
<1>2. answered[p] + Cardinality(InProgress(p)) = spent[p] + freed[p]
  BY DEF MeterInv
<1>3. Cardinality(InProgress(p)) \in Nat
  BY InProgressFinite
<1>4. ASSUME UNCHANGED <<environment, call>>
      PROVE  InProgress(p)' = InProgress(p)
  BY <1>4 DEF InProgress, Who, Principal
<1>5. CASE Start
  <2>1. \A c \in Calls : call[c] = Idle
    BY <1>5 DEF Start, TypeInv, StartInv
  <2>2. (\A c \in Calls : call[c] = Idle)'
    BY <1>5, <2>1 DEF Start, memory
  <2>3. Cardinality(InProgress(p)) = 0 /\ Cardinality(InProgress(p))' = 0
    <3>1. InProgress(p) = {} /\ InProgress(p)' = {}
      BY <2>1, <2>2 DEF InProgress, Idle
    <3>2. QED
      BY <3>1, FS_EmptySet
  <2>4. QED
    BY <1>2, <1>5, <2>3 DEF Start, memory
<1>6. CASE Stop
  <2>1. InProgress(p)' = {}
    BY <1>6, Cleared DEF InProgress, Idle
  <2>2. Cardinality(InProgress(p)') = 0
    BY <2>1, FS_EmptySet
  <2>3. spent'[p] = 0 /\ freed'[p] = 0 /\ answered'[p] = 0
    BY <1>6, Cleared DEF Zero
  <2>4. QED
    BY <2>2, <2>3
<1>7. CASE Import \/ Main \/ Finished
  <2>1. UNCHANGED <<environment, call, spent, freed, answered>>
    BY <1>7 DEF Import, Main, Finished, vars, memory
  <2>2. QED
    BY <1>2, <1>4, <2>1
<1>8. ASSUME NEW q \in Principals, Leave(q)
      PROVE  (answered[p] + Cardinality(InProgress(p)) = spent[p] + freed[p])'
  <2>1. UNCHANGED <<environment, call, answered>>
    BY <1>8 DEF Leave
  <2>2. spent'[p] + freed'[p] = spent[p] + freed[p]
    BY <1>1, <1>8 DEF Leave
  <2>3. QED
    BY <1>2, <1>4, <2>1, <2>2
<1>9. ASSUME NEW sid \in 1..MaxSessions, Expire(sid)
      PROVE  (answered[p] + Cardinality(InProgress(p)) = spent[p] + freed[p])'
  <2>1. UNCHANGED <<environment, call, spent, freed, answered>>
    BY <1>9 DEF Expire
  <2>2. QED
    BY <1>2, <1>4, <2>1
<1>10. QED
  BY <1>5, <1>6, <1>7, <1>8, <1>9 DEF ProcessStep

\* No call reaches the body of a tool unmetered, whichever way it ends.
THEOREM CallsMeteredHolds == Spec => []CallsMetered
<1>1. Init => MeterInv
  <2>1. ASSUME Init, NEW p \in Principals
        PROVE  answered[p] + Cardinality(InProgress(p)) = spent[p] + freed[p]
    <3>1. Cardinality(InProgress(p)) = 0
      BY <2>1, NoneInProgress DEF Init
    <3>2. answered[p] = 0 /\ spent[p] = 0 /\ freed[p] = 0
      BY <2>1 DEF Init, Zero
    <3>3. QED
      BY <3>1, <3>2
  <2>2. QED
    BY <2>1 DEF MeterInv
<1>2. TypeInv /\ MeterInv /\ [Next]_vars => MeterInv'
  <2> SUFFICES ASSUME TypeInv, MeterInv, [Next]_vars PROVE MeterInv'
    OBVIOUS
  <2>1. CASE UNCHANGED vars
    BY <2>1 DEF vars, environment, MeterInv, InProgress, Who, Principal
  <2>2. QED
    BY <2>1, NextCases, StepMeterInv, ProcessMeterInv
<1>3. TypeInv /\ MeterInv => CallsMetered
  <2>1. ASSUME TypeInv, MeterInv, NEW p \in Principals
        PROVE  answered[p] + Cardinality(InProgress(p)) <= Quota + freed[p]
    <3>1. spent[p] \in 0..Quota /\ freed[p] \in Nat
      BY <2>1 DEF TypeInv, TypeOK
    <3>2. answered[p] + Cardinality(InProgress(p)) = spent[p] + freed[p]
      BY <2>1 DEF MeterInv
    <3>3. QED
      BY <3>1, <3>2
  <2>2. QED
    BY <2>1 DEF CallsMetered
<1>4. QED
  BY <1>1, <1>2, <1>3, InitTypeInv, NextTypeInv, PTL DEF Spec

-----------------------------------------------------------------------------
(* Sessions and tokens.                                                    *)

LEMMA TokensOfCredentials ==
    ASSUME tokens \in Credentials
    PROVE  DOMAIN tokens \subseteq Tokens
<1>1. CASE tokens = NoEntries
  BY <1>1 DEF NoEntries
<1>2. CASE \E key \in Tokens :
              tokens = [k \in {key} |->
                          [client |-> "local-client", projects |-> {}]]
  BY <1>2
<1>3. CASE \E T \in SUBSET Tokens \ {{}} :
              tokens \in [T -> {claims \in Claims :
                                  /\ claims.client \in ClientIds
                                  /\ claims.projects # {}}]
  BY <1>3
<1>4. QED
  BY <1>1, <1>2, <1>3 DEF Credentials

\* Two callers of one server are two principals.
LEMMA PrincipalsDiffer ==
    ASSUME tokens \in Credentials, DistinctClients,
           NEW a, NEW b, MayCall(a), MayCall(b), Principal(a) = Principal(b)
    PROVE  a = b
<1>1. CASE transport = "stdio"
  BY <1>1 DEF MayCall
<1>2. CASE transport # "stdio"
  <2>1. a \in DOMAIN tokens /\ b \in DOMAIN tokens
    BY <1>2 DEF MayCall
  <2>2. a # "stdio" /\ b # "stdio"
    BY <2>1, TokensOfCredentials
  <2>3. tokens[a].client = tokens[b].client
    BY <2>2 DEF Principal
  <2>4. QED
    BY <2>1, <2>3 DEF DistinctClients
<1>3. QED
  BY <1>1, <1>2

\* The owner the vault knows stands for the token a session was created
\* with, and that token can still call.
Owned(sid) ==
    MayCall(creator[sid]) /\ sessions[sid] = Principal(creator[sid])

RestoredByCreator(c) ==
    Answered(c, "restored") =>
       /\ call[c].object \in DOMAIN creator
       /\ creator[call[c].object] = call[c].caller

OwnerInv ==
    /\ \A sid \in DOMAIN sessions : Owned(sid)
    /\ \A c \in Calls : RestoredByCreator(c)

LEMMA StepOwnerInv ==
    ASSUME TypeInv, OwnerInv, NEW c \in Calls, Step(c)
    PROVE  OwnerInv'
<1> USE DEF environment
<1>1. CallsType
  BY CallsTypeOfTypeOK DEF TypeInv
<1>2. Others(c) /\ Kind(c) /\ UNCHANGED environment
  BY <1>1, StepKinds
<1>3. tokens \in Credentials /\ DOMAIN sessions \subseteq DOMAIN creator
  BY DEF TypeInv, TypeOK
<1>4. call[c] # Idle => MayCall(call[c].caller) /\ DistinctClients
  BY DEF TypeInv, StartInv
<1>5. /\ \A sid \in DOMAIN creator : sid \in DOMAIN creator'
                                     /\ creator'[sid] = creator[sid]
      /\ \A sid \in DOMAIN sessions' : Owned(sid)'
  <2>1. CASE UNCHANGED <<sessions, creator>>
    BY <1>2, <2>1 DEF OwnerInv, Owned, MayCall, Principal
  <2>2. CASE Concluded(c) /\ Stores(c)
    <3>1. PICK n \in Nat : DOMAIN creator = 1..n
      BY DEF TypeInv, CreatorInv
    <3>2. Cardinality(DOMAIN creator) + 1 = n + 1 /\ n + 1 \notin DOMAIN creator
      BY <3>1, NextIdentifier
    <3>3. /\ sessions' = [s \in DOMAIN sessions \cup {n + 1} |->
                            IF s = n + 1 THEN Who(c) ELSE sessions[s]]
          /\ creator' = [s \in DOMAIN creator \cup {n + 1} |->
                            IF s = n + 1 THEN call[c].caller ELSE creator[s]]
      BY <2>2, <3>2 DEF Stores
    <3>4. MayCall(call[c].caller)
      BY <1>4, <2>2 DEF Concluded, Idle
    <3>5. Owned(n + 1)'
      BY <1>2, <3>3, <3>4 DEF Owned, MayCall, Who, Principal
    <3>6. \A sid \in DOMAIN sessions : Owned(sid)'
      BY <1>2, <1>3, <3>2, <3>3 DEF OwnerInv, Owned, MayCall, Principal
    <3>7. QED
      BY <3>2, <3>3, <3>5, <3>6
  <2>3. QED
    BY <1>2, <2>1, <2>2
       DEF Kind, Arrives, TurnedAway, Admitted, Concluded, Returned, records
<1>6. ASSUME NEW d \in Calls
      PROVE  RestoredByCreator(d)'
  <2>1. CASE d # c
    BY <1>2, <1>5, <1>6, <2>1
       DEF OwnerInv, RestoredByCreator, Answered, Others
  <2>2. CASE d = c /\ Concluded(c)
    <3>1. SUFFICES ASSUME call'[c].answer = "restored"
                   PROVE  /\ call[c].object \in DOMAIN creator
                          /\ creator[call[c].object] = call[c].caller
      BY <1>5, <2>2 DEF RestoredByCreator, Answered, Concluded, SameRequest
    <3>2. /\ call[c].object \in DOMAIN sessions
          /\ sessions[call[c].object] = Who(c)
      BY <2>2, <3>1 DEF Concluded, JustAnswered
    <3>3. Owned(call[c].object) /\ call[c].object \in DOMAIN creator
      BY <1>3, <3>2 DEF OwnerInv
    <3>4. MayCall(call[c].caller) /\ DistinctClients
      BY <1>4, <2>2 DEF Concluded, Idle
    <3>5. Principal(creator[call[c].object]) = Principal(call[c].caller)
          /\ MayCall(creator[call[c].object])
      BY <3>2, <3>3 DEF Owned, Who
    <3>6. QED
      BY <1>3, <3>3, <3>4, <3>5, PrincipalsDiffer
  <2>3. QED
    BY <1>2, <2>1, <2>2
       DEF Kind, Arrives, TurnedAway, Admitted, Returned, RestoredByCreator,
           Answered, Idle
<1>7. QED
  BY <1>5, <1>6 DEF OwnerInv

LEMMA ProcessOwnerInv ==
    ASSUME TypeInv, OwnerInv, ProcessStep
    PROVE  OwnerInv'
<1>1. ASSUME DOMAIN sessions' = {}, \A c \in Calls : call'[c] = Idle
      PROVE  OwnerInv'
  BY <1>1 DEF OwnerInv, RestoredByCreator, Answered, Idle
<1>2. ASSUME UNCHANGED <<environment, call, creator>>,
             DOMAIN sessions' \subseteq DOMAIN sessions,
             \A sid \in DOMAIN sessions' : sessions'[sid] = sessions[sid]
      PROVE  OwnerInv'
  BY <1>2 DEF environment, OwnerInv, Owned, RestoredByCreator, Answered,
              MayCall, Principal
<1>3. CASE Start
  BY <1>1, <1>3 DEF Start, memory, TypeInv, StartInv
<1>4. CASE Stop
  BY <1>1, <1>4, Cleared
<1>5. CASE Import \/ Main \/ Finished
  BY <1>2, <1>5 DEF Import, Main, Finished, vars, memory
<1>6. CASE \E p \in Principals : Leave(p)
  BY <1>2, <1>6 DEF Leave
<1>7. ASSUME NEW sid \in 1..MaxSessions, Expire(sid)
      PROVE  OwnerInv'
  <2>1. /\ UNCHANGED <<environment, call, creator>>
        /\ DOMAIN sessions' = DOMAIN sessions \ {sid}
        /\ \A s \in DOMAIN sessions' : sessions'[s] = sessions[s]
    BY <1>7 DEF Expire
  <2>2. QED
    BY <1>2, <2>1
<1>8. QED
  BY <1>3, <1>4, <1>5, <1>6, <1>7 DEF ProcessStep

\* A session is restored only over the token it was created with: the vault
\* compares client ids, the check at import keeps these apart, and a server
\* that starts again with other tokens has no session of before.
THEOREM SessionsStayWithTokenHolds == Spec => []SessionsStayWithToken
<1>1. Init => OwnerInv
  BY DEF Init, NoEntries, OwnerInv, RestoredByCreator, Answered, Idle
<1>2. TypeInv /\ OwnerInv /\ [Next]_vars => OwnerInv'
  <2> SUFFICES ASSUME TypeInv, OwnerInv, [Next]_vars PROVE OwnerInv'
    OBVIOUS
  <2>1. CASE UNCHANGED vars
    BY <2>1 DEF vars, environment, OwnerInv, Owned, RestoredByCreator,
                Answered, MayCall, Principal
  <2>2. QED
    BY <2>1, NextCases, StepOwnerInv, ProcessOwnerInv
<1>3. OwnerInv => SessionsStayWithToken
  BY DEF OwnerInv, RestoredByCreator, SessionsStayWithToken
<1>4. QED
  BY <1>1, <1>2, <1>3, InitTypeInv, NextTypeInv, PTL DEF Spec
=============================================================================
