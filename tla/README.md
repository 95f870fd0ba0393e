# A TLA+ verification of the MCP enterprise gateway

The repository is a Model Context Protocol server in Python. Its tools mask
personal data and secrets in prompts and restore them later, search a vector
database by project, and run code in Docker containers. This directory holds
TLA+ models of the parts whose correctness depends on order, concurrency,
limits or failure, TLC configurations that check them on small instances, and
proofs about each of them for every value of the parameters.

## Inventory

| Component | State | Operations | What is hard |
|---|---|---|---|
| Session vault, `privacy/vault.py` | sessions, byte counter, statistics, one `RLock` | `create`, `record_anonymization`, `restore`, `stats_snapshot`; each purges first | parallel calls; three limits at once; TTL against a wall clock; a counter kept beside what it counts; snapshots that outlive the lock |
| Rate limiter, `server.py:84-101` | a deque of stamps per principal, one `Lock` | `check` | the stamp is read before the lock is taken |
| Docker runner, `sandbox/docker_runner.py` | a bounded semaphore; containers at the daemon | `run` | every call to the daemon may fail; time-outs; nested `finally`; lost answers |
| Privacy service, `privacy/service.py` | none of its own (hash key) | `anonymize`, `deanonymize`, `stats` | overlaps of hits, whitelist and blacklist matches; rewriting in place |
| Detectors, `privacy/detector.py` | none | `detect`, checksums, `assign_placeholders` | overlap resolution, twice with Presidio; one placeholder for each value, and back |
| Knowledge adapter, `knowledge/lancedb_adapter.py` | a table, the configured projects | `query` | an untrusted result: rows of other projects, odd scores, limits |
| OKF reader, `knowledge/okf_resource.py` | a directory descriptor | `read` | files that grow, are replaced or are pipes; reads that return less than asked for |
| Tool gateway, `server.py` | the components above | four tools, resources, `safe` | who is asking, for what, in which order the gates stand |
| SSE credentials, start-up, `server.py` | environment, import-time checks | `_sse_auth`, `_knowledge_adapter`, `main` | combinations of variables; a restart with others |
| Request models, `core/models.py` | none | validation | none |
| Embedder, prompt templates, audit studio | none | pure functions, one HTTP proxy | none |

Calls go one way. A tool of `server.py` finds the principal and its projects,
asks the rate limiter, and then calls one component. `anonymize` calls a
detector and then the vault (`create`, or `record_anonymization` when nothing
can be restored); `deanonymize` calls `restore`; both the `audit_stats`
resource and the HTTP route call `stats_snapshot`. The vault, the limiter's
deques and the runner's semaphore are what calls share. There are no
callbacks and nothing is persisted: a restart forgets every mapping, so there
is no recovery to model, only that nothing survives (`Gateway`).

Are calls parallel at all? FastMCP decides how it runs a synchronous tool, and
a version that runs them on the event loop runs one at a time. The repository
states parallel calls as a requirement (`task.md`, TASK-006; the test with
threads in `tests/test_hardening.py`), and the locks and the semaphore exist
for them, so the models have several threads that may interleave wherever no
lock is held.

## Modules

| Module | Models | Checked by | Proofs |
|---|---|---|---|
| `Totals` | sums over the sessions of the vault | | first section of `SessionVaultProofs` |
| `SessionVault` | `privacy/vault.py` | `vault_limits`, `vault_store` | `SessionVaultProofs` |
| `SessionStore` | what the vault promises: an atomic store | as `StoreSpec` in `vault_store` | `StoreImplemented` in `SessionVaultProofs` |
| `RateLimiter` | `_PrincipalRateLimiter` | `rate_limiter`, `rate_limiter_exact` | `RateLimiterProofs` |
| `SandboxRunner` | `DockerRunner.run` | `sandbox` | `SandboxRunnerProofs` |
| `Masking` | `anonymize` and `detect` from the hits on | `masking` | `MaskingProofs` |
| `FoundSecrets` | `Masking` with a memory of the secrets that were found | `masking_secrets` | |
| `RoundTrip` | `assign_placeholders`, the mapping, the loop of `restore` | `round_trip` | `RoundTripProofs` |
| `KnowledgeQuery` | `query_lancedb_vector` | `knowledge`, `knowledge_finite` | `KnowledgeQueryProofs` |
| `OkfReader` | `OKFResourceProvider.read` | `okf_reader` | `OkfReaderProofs` |
| `Gateway` | start-up and the four tools over the components' interfaces | `gateway` | `GatewayProofs` |

`MC...` modules give the parameters small values. Definitions introduced by
"Wrong variant" are plausible mistakes; each is put in the place of the
definition after it to confirm that a property notices.

### SessionVault

One action per operation, with a program counter per thread: take the lock,
list the expired sessions (`now - created_at > ttl`), pop each, count them,
then refuse or do the work, release the lock, return. `restore`'s refusals and
their order, the three limits of `create` and the per-type statistics are the
code's. `Insert` reads the clock a second time, as the code does. A snapshot
that was taken stays with its thread until `Return`; `Delivered` shows what the
caller sees, which is the snapshot because `deepcopy` made it.

Data: a document is its encoded size and its number of entities of each type; a
uuid4 is a number never used before; a text to restore fits, is too long, or
becomes too long. `issued`, `served` and `calledAt` are ghosts.

`Tick` moves the wall clock; `StepBack` sets it back where a configuration
allows it. The limits and the ledgers hold either way. What mentions the
TTL is checked under a clock that does not go back: a clock set back by an
hour keeps sessions for an hour longer, in the code and in the model.

`SessionStore` is the abstract specification: each operation is one step, a
session exists from its creation to its removal, is removed only after its
TTL, and is restored only to its owner. `StoreSpec` is that the vault, its lock
and its loops forgotten, implements it.

### RateLimiter

`Check` reads the monotonic clock, `Acquire` takes the lock some time later,
`DropStale` drops one entry per step, then `Reject` or `Admit`. Between `Check`
and `Acquire` the clock may move by `MaxDelay`. `WindowCapUpToDelay` is what
remains true: every window of the documented length less the delay holds at
most the limit. `WindowCap`, the documented sentence, fails (`rate_limiter_exact`).

### SandboxRunner

A run goes through validation, daemon, image, semaphore, start, wait, clean-up
or output, `finally` and release. Each call to the daemon may raise, as a
`DockerException` or otherwise; a start may raise after the container was made.
`abandoned` remembers the containers the code knowingly leaves behind because
no handle came back or removal failed. The program in the container ends
whenever it likes (`Exit`) or never.

Fairness is weak fairness of `Progress(r)`, the steps of the Python thread
that return or raise by themselves. `WaitTimesOut` is among them: the SDK's
read time-out is the only thing that ends a wait. `Exit` is not fair, and no
particular answer of the daemon is. That each other call returns in the end is an
assumption, the SDK's default time-out. Somebody may remove the image at any
time (`RemoveImage`); the client library pulls an image that is missing when
a container is made.

### Masking

A prompt is four characters; hits are arbitrary intervals, so every way in
which few intervals can overlap, nest, touch or coincide occurs. The loop over
the sorted hits is one action, `Keep`, used by the pattern detector, by the
Presidio detector for the second time, and by the service. Hits of equal
length and start are in the order of the patterns, which is not modelled;
either order may happen. A replacement is one character longer than what it
replaces, so that rewriting in the wrong order garbles the text.

*Found* and *detected* differ: the patterns find hits, the resolution of overlaps
drops some, and what is left is detected. The service knows only what is
detected. `WhitelistKeepsSecrets` is about detected secrets and holds;
`LostToLonger` bounds what the resolution drops and treats secrets like any
other hit. What `README.md` promises, that technical secrets are always masked and
never released, is about the secrets in the prompt: `FoundSecrets` adds a
history variable with the secrets that were found, and `SecretsMasked` of
them fails.

### RoundTrip

A text is a sequence of pieces; a placeholder `<TYPE_n>` is two of them, its
head and its tail, so that a prompt, a value or an edited reply can hold half a
placeholder and substitution can put the halves together. Two pieces are
coarser than characters: in characters any fragment of a placeholder, down to
one digit or bracket, may help to make one. So where a property speaks of
values without a piece of a placeholder in them (`PlainValues`), it means values
without any such fragment; about values that have digits in them `RestoredAtOnce`
says nothing. Any disjoint spans
may be masked: finding them is `Masking`'s subject, and `Maskings` is what
`KeptDisjoint` guarantees. `Send` gives back the masked prompt or any edited
text. `Substitute` is one round of the loop of `restore`, longest placeholder
first, with the size test after it. Fewer than ten values of a type are
assumed, so that the type alone gives the length of a placeholder; with ten the
longer names go first, which keeps `<T_1>` apart from `<T_10>` anyway, as the
closing bracket does.

### KnowledgeQuery

The token's claim and the configured projects give the scope; the server's gate
and the adapter's are asked in turn; then the rows are read one by one. The
database is the environment and may return any rows, up to `top_k`, with any
float in the score field. `Score` is the code's: `max(0.0, x)` makes zero of
negative numbers, of NaN and of minus infinity; a distance `d` becomes
`1 / (1 + d)`, which is the constant `Closeness`, any positive function that
never grows with `d`, so that rounding may make two distances equal; an
infinite distance becomes `0.0`, and only an infinite relevance is refused. The
score therefore tells less apart than the figures do. `Alike` is what it cannot
tell apart, and `CompleteBestFirst` says that a nearer or more relevant row comes
first wherever the score can tell, and that rows it cannot tell apart, all
negative figures for one, stay in the order of the database.

### OkfReader

One `read`: open in the directory that was opened at the start, `fstat`, the
loop of reads, decoding, close. A descriptor refers to an object, not to a
name. Other processes write to the file, rename another entry over it (a file,
a folder, a link, a pipe) or put another directory in the place of the root. A
byte is a character of its own or half of a longer one, so that a cut through
a character shows. A read may return fewer bytes than asked for, and `fstat` and
`read` may raise. `first` and `since` remember what was there when the file was
opened and whether it was touched after.

Fairness is weak fairness of `Progress`, the steps of the reading thread that do
not raise: reads of regular files and folders return. `PipeOpens` is another
process and is not fair, so that `open` may wait for ever on a pipe;
`ReadEnds` starts at the open descriptor for that reason.

### Gateway

`Start` chooses any environment, `Import` and `Main` refuse as the code does,
and then callers make calls in parallel: principal, limiter, validation, one
component, answer. In front of all this FastMCP checks the arguments against the
signature of the tool (`Mistyped`, external): a call it refuses does not reach the
limiter and is not metered, and `CallsMetered` does not count it. The components are their interfaces: the vault is the owner
of each session, the limiter the number of calls a principal has in the window
(`Leave` takes one out), knowledge and sandbox an answer or an error. Each may
refuse for reasons of its own (`Refuse`, with the answer "refused" for any code
of a component). `Stop` is an end or a crash at any time and loses what is in
memory; the next start may have another environment and may give a client id
to another token. What the components promise beyond this is shown of their
own modules, so `Gateway` composes them by what each guarantees:
`OnlyAuthorizedRows` filters the answer to the request, `SearchesInScope` says
which requests there are. No liveness is stated here; that a call
ends is a matter of the components (`RunEnds`, `LockReleased`).

## Runs

| Run | Question | Bounds |
|---|---|---|
| `vault_limits` | `TypeOK`, `Capacity`, `ByteLedger`, `Conservation`, `SnapshotConsistent`, `LockReleased`, with a clock that steps both ways | 2 threads that create, record and ask for statistics, one principal and anonymous callers, 3 calls, 2 sessions, 1 per principal, 3 bytes, TTL 1, clock up to 2 |
| `vault_store` | `RestoreIsolated`, `RefusalJustified`, `OutcomesCounted`, `NoEviction`, `StoreSpec` | 2 threads that create and restore, 2 principals and anonymous callers, 3 calls, the same limits, a TTL shorter than the clock |
| `rate_limiter` | `TypeOK`, `WindowCapUpToDelay`, `RejectionJustified`, `DequeIsRecentTail` | 2 threads, 2 principals, 2 calls in a window of 3, a delay of one tick, clock up to 6, 5 checks |
| `rate_limiter_exact` | `WindowCap`, violated | the same with 4 checks |
| `sandbox` | `TypeOK`, `SlotsConserved`, `ContainersOwned`, `TimeoutReported`, `PulledOnlyIfRemoved`, `RunEnds` | 3 runs, 2 slots |
| `masking` | `TypeOK`, `KeptDisjoint`, `LostToLonger`, `RewrittenExactly`, `WhitelistKeepsSecrets` | 4 characters, up to 4 hits, 1 analyzer hit, 1 whitelist and 2 blacklist matches, at most 3 entities |
| `masking_secrets` | `SecretsMasked`, violated | 4 characters, up to 2 hits, 1 of each of the others |
| `round_trip` | `TypeOK`, `OnePlaceholderPerValue`, `RoundTripExact`, `RestoredAtOnce` | 2 types with names of different length, prompts of up to 3 pieces, edited replies of up to 2 items, texts of at most 4 pieces |
| `knowledge` | `TypeOK`, `OnlyAuthorizedRows`, `CompleteBestFirst` | 3 projects, up to 3 rows, sizes below, at and above both limits, figures below, at and above zero of which two round to one score, NaN, both infinities, text |
| `knowledge_finite` | `NonFiniteRefused`, violated | the same |
| `okf_reader` | `TypeOK`, `WholeFile`, `ReadEnds` | a limit of 3 bytes, chunks of 2, 9 contents up to one byte over the limit, 3 changes by others |
| `gateway` | `TypeOK`, `SearchesInScope`, `SessionsStayWithToken`, `CallsMetered` | 2 tokens, client ids, projects and parallel calls, a quota of 1, 1 session, 1 call that leaves the window, 1 restart |

Why these are enough: two threads already give every interleaving of two
critical sections, and a third can only repeat what one of the two does, as
the lock and the semaphore are the only places they meet; the limits are as
small as a limit that can be reached exactly, passed and freed again; a clock
that outlasts the TTL by a tick reaches both sides of the boundary. Four
characters hold a chain of three intervals of which only neighbours overlap,
the smallest input on which a greedy choice can go wrong twice. Three pieces hold
two entities and something between them, or a value that is a whole
placeholder. Three bytes in chunks of two take two reads, the second of which
meets the limit. One restart is enough to give a client id to another token,
one session enough to be restored over the wrong one, a quota of one is used up
and freed. Symmetry is used where no definition tells the elements apart and
the run checks no liveness.

### What the failing runs show

* `rate_limiter_exact`: a stamp read before the lock is older than the moment
  of admission; `README.md` promises at most 120 calls in 60 seconds.
* `masking_secrets`: `README.md` says that technical secrets "werden immer
  maskiert, niemals durch eine Whitelist freigegeben". A PII match that overlaps
  a secret and is longer, or as long and of an earlier pattern, makes
  `detector.py:85` drop the secret (for example an e-mail address whose local
  part is an `sk-` key). The service does not know of it: a whitelist term on the
  address releases it, and `on_secret=block` lets the prompt pass. This is the
  trace. The property fails in other ways, each of which TLC finds when the
  bounds of the run leave only that one: a PII match that is longer, or as long and
  further left, and covers a part of a secret leaves the rest in the text without any terms
  (`MaxHits = 2`, `MaxAnalysed`, `MaxWhite` and `MaxBlack` 0); with Presidio a
  hit of the analyzer does the same (`MaxHits = 1`, `MaxAnalysed = 1`); and
  `service.py:95` drops a detected secret that a blacklist match touches, and
  only the match is replaced, although the secret "must remain masked in every
  strategy" (`MaxHits = 1`, `MaxBlack = 1`, the others 0).
* `knowledge_finite`: `max(0.0, nan)` is `0.0`, so a NaN distance gets the best
  score 1.0 and a NaN relevance the score 0.0, although the code means to refuse a
  "non-finite search score".

Other behaviour the models show, for which the properties say exactly what
remains true:

* The Docker client pulls an image that is removed between the check and the
  start, although `README.md` says images are never pulled.
  `PulledOnlyIfRemoved` says that there is no other way to a pull.
* A file that grows past `max_bytes` between `fstat` and the end of the
  reads is cut without an error; `task.md` asks for `resource_too_large`. What
  the file had when it was opened is answered all the same (`WholeFile`).
* `restore` tests the size after each substitution, so a text may be refused
  although neither it nor the restored text is too long. It takes values longer and
  values shorter than their placeholders (`RestoredAtOnce`).
* A masked prompt may be longer than the prompt and than what `restore`
  accepts.
* Opening an OKF entry that is a pipe waits for a writer before `fstat` can
  refuse it.
* With Presidio a hit of the patterns may be lost to one that is lost itself in
  the second pass, to a hit of the analyzer that does not touch the first.
  `LostToLonger` says that this is the only way in which a loss hides behind
  another. For a secret it is one more way in which the promise above fails.
* Rows with negative distances or relevances all get the same score, so a nearer
  one may come after a farther one (`Alike`).

## Proofs

Eight modules hold proofs, each for every value of the constants under the
named assumptions of the module it is about, and under nothing else unless said
here. The theorems below are of the form `Spec => []P` with a property `P` that
a run checks, or a named part of one, unless another form is given.

**SessionVault** (`SessionVaultProofs`, first part; a clock that moves both ways):
`TypeCorrect`, `CapacityHolds`, `ByteLedgerHolds`, `ConservationHolds`,
`OutcomesCountedHolds`, `SnapshotConsistentHolds`.

* `TypeInv` strengthens `TypeOK`: the sessions are finite, the request of a
  thread fits its program counter, exactly the thread inside holds the lock,
  and every identifier in the vault was issued.
* `CapacityInv` adds the room: a thread between its checks and its insertion
  still finds the room it checked, because it holds the lock. Without that
  conjunct `Capacity` is not inductive, as check and insertion are two steps.
* `ConservedInv` counts a session that a purge has popped and not yet counted:
  live, listed and counted sessions are together all that were issued.
* `CountInv` relates the counters to the ghost `served`; `TallyInv` says that
  the counts by type always add up and that no session was issued without
  being counted, and with `ConservedInv` this holds of a snapshot
  at the instant it is taken.

The sums are `Total` of `Totals`, the cardinality of a set with a unit slot for
each unit of each value. What adding, removing and comparing does to it is
the first section of the module and follows from the library's facts about
`Cardinality`.

**SessionVault under a clock that is not set back** (second part of the same
module; `~ClockMayStepBack` is a hypothesis): `RestoreIsolatedHolds`, `NoEvictionHolds`
(an action property), `RefusalJustifiedHolds`, and `StoreImplemented`:
`Spec => StoreSpec`, the vault implements `SessionStore`. The purge decides by
the clock it read once, and pops sessions, serves and inserts by later clocks.
`AgeInv` says what survives that: a listed session is expired at every later
time; what the list left out was young when the call was made; the history
agrees with the vault on every live session; no other thread inserts in
between. For the refinement `ReplyInv` adds that a call has its answer exactly
from the end of the method's body to the return; each step of the code is then
a step of the store or a stutter. With a clock that steps back these theorems are false: a session
listed as expired may be young again when it is popped.

**RateLimiter** (`RateLimiterProofs`): `TypeCorrect`, `DequeIsRecentTailHolds`,
`WindowCapUpToDelayHolds`, `RejectionJustifiedHolds`. The deque is a suffix of
the accepted calls. `History` is the spacing argument: two accepted calls that
are the limit apart in the list are at least the window less the delay apart
in time, even though stamps are out of order; a window that held more than the
limit would hold two such calls.

**SandboxRunner** (`SandboxRunnerProofs`): `TypeCorrect`, `SlotsConservedHolds`,
`ContainersOwnedHolds`, `TimeoutReportedHolds`, `PulledOnlyIfRemovedHolds`.
`RunInv` says at each program counter which handles, containers and outcomes are
possible; `SlotsInv` counts the slots; `ImageInv` says that past the check the
image is there or was removed.

**Gateway** (`GatewayProofs`): `TypeCorrect`, `SearchesInScopeHolds`,
`SessionsStayWithTokenHolds`, `CallsMeteredHolds`. `StartInv` says what the
checks at start-up have excluded in each phase; `OwnerInv` that the owner of a
live session is the principal of the token that made it; `MeterInv` that calls
that were answered or are in service were paid for.

**Masking** (`MaskingProofs`): `TypeCorrect`, `KeptDisjointHolds`,
`LostToLongerHolds`, `WhitelistKeepsSecretsHolds`, `RewrittenExactlyHolds`.
`TypeInv` adds that the text is never shorter than the prompt, so that a span
still to be replaced is within it. `DisjointInv` says that what is kept and what
was detected is each apart. `LossInv` is the greedy argument, made once for each
pass: what is kept is no shorter than what is still to be looked at, and what
was dealt with is kept or lost to something kept (`Settled`). In the second pass
it remembers what the patterns kept: those spans are apart, so one of them
that is dropped there lost to a hit of the analyzer, and nothing is lost three
times. `SecretInv` says that nothing a protected secret competes with in the last pass
overlaps it: the other detected spans are apart from it by `DisjointInv`, and no
blacklist match touches it. `TextInv` says that the text is at every moment the
prompt with the spans replaced that have left `work`, and that these are to
the right of what is in it; a replacement then moves only what is to the right
of its span, and each of these characters by one more (`Shift`).

**KnowledgeQuery** (`KnowledgeQueryProofs`): `TypeCorrect`,
`OnlyAuthorizedRowsHolds`, `CompleteBestFirstHolds`, and of its two halves
`AllOrNothingHolds` and `InOrderHolds`. Of `Closeness` nothing is assumed but that
it is positive and does not grow with the distance. `NearerScores` says that a
nearer row does not score less, and that one that scores the same is `Alike`;
`AlikeScores` that rows that are `Alike` score the same. The sort is
defined by the place of each row; the proof shows that the places are a
bijection, so that the sort loses and doubles nothing, and that the `Rank` of a row among
its equals is the same before and after, so that equals keep their order
(`SortedInv`).

**OkfReader** (`OkfReaderProofs`): `TypeCorrect`, `WholeFileHolds`. `ReadInv`
says that what was read begins the file as it is now, unless it was rewritten,
and that a file that was not rewritten still begins with what it had when
opened.

**RoundTrip** (`RoundTripProofs`): `TypeCorrect`, `OnePlaceholderPerValueHolds`,
`RoundTripExactHolds`, `RestoredAtOnceHolds`, each by `RestoreInvariant`.

* Numbering: if the first entity of one value stands before that of another,
  the set of values numbered before the first is a proper subset of that of
  the second, so the numbers differ.
* Texts are flattened sequences. That `FlattenSeq` of a concatenation is the
  concatenation of both is the first section. The library's induction theorems
  cannot be used by these provers, so what holds of every text is proved by the absence of a
  shortest counterexample (`ShortestSequence`, from `LeastElement`).
* `All(D, s)` is the text `s` with the placeholders in `D` replaced at once. A
  text is peeled from the left, a placeholder or a piece at a time. `Rounds` says that
  replacing one more placeholder in `All(D, s)` gives `All(D \cup {ph}, s)` if no
  value has the head of a placeholder in it (`ValuesApart`) and no piece of `s` makes a
  placeholder with the beginning of a value that comes to stand behind it
  (`Clean`). `Lengths` says that the text only grows from round to round, or only
  shrinks, unless some values are longer and others shorter than
  their placeholders.
* `RestoreInv` is the state of the loop: the text is `All` of the reply with the
  placeholders substituted so far, for a reply that is clean. A session with plain
  values makes every reply clean (`PlainClean`); if the prompt has no beginning of
  a placeholder in it, the masked prompt is clean whatever the values are
  (`MaskedClean`), and `All` of it is the prompt (`MaskedRestored`, by the spans from left to
  right).

**How long a call takes.** Three more theorems are the part of the liveness
properties that needs no fairness; no run states them. Each gives a measure,
`StepsToGo`, and says that every step of the thread lowers it and that no other
step raises it.

* `LockHeldBriefly` (`SessionVaultProofs`): the holder of the vault's lock has at
  most `max_sessions + 5` steps to its release. The bound on the purge is
  `Capacity`; that nobody else prolongs it is `LockInv`.
* `RunsAreShort` (`SandboxRunnerProofs`): a call goes through at most twelve steps
  and never back.
* `ReadIsShort` (`OkfReaderProofs`): a read takes at most `max_bytes + 6` steps,
  although the file may grow while it is read.

What is missing to the liveness property is that the step is possible and
that a thread takes a step that is.

### Only model-checked

Liveness: `RunEnds`, `LockReleased`, `ReadEnds`. Fairness and ENABLED are out of
the prover's reach; `LockHeldBriefly`, `RunsAreShort` and `ReadIsShort` are what of
them can be proved. Every other property of a passing run is a theorem.

## Not modelled

What text the patterns match and the two checksums; truncation and decoding of
output streams; the validation of single arguments and the syntax of the
environment variables (each model has an action for what is refused); the
read-only resources and the statistics route, which only pass on what
`SessionVault` and `OkfReader` answer; the prompt templates, the embedder and
the audit studio. They are tables, pure functions of a string or plain
input and output; `PROJECT.json` has the reason for each.

## Plan

The order of importance was: `SessionVault` with `SessionStore`,
`RateLimiter`, `SandboxRunner`, `Masking`, `KnowledgeQuery`, then `RoundTrip`,
`OkfReader` and `Gateway`, with a proof module for each. All of these are done.

What could be added:

* `OutputStream`: the bound on the bytes of a stream with its marker, and
  decoding of what the cut leaves;
* a refinement from `Gateway` with `SessionStore` in the place of its owners;
* a proof that what `Masking` keeps is what `RoundTrip` takes for its
  spans, which are two descriptions of the same intervals.
