# A verification of the Claude proxy

The program under `src/` is a Rust server that speaks the Anthropic Messages
API to its clients and OpenAI Chat Completions to its providers. This directory
holds TLA+ models of its parts, TLC configurations that check them on small
instances, and proofs that TLAPS checks for instances of any size.

    tlc -workers 2 -config MCRouting.cfg MCRouting      (model checking)
    tlapm RoutingProofs.tla                             (proofs)

Line numbers refer to the files under `src/`; `routing.rs` stands for
`src/src/routing.rs`, `README.md:16` for the program's own README.

## 1. Inventory

| part | state | operations | talks to |
|---|---|---|---|
| router (`routing.rs`) | none of its own: one task per request | resolve, candidates, execute, stream, count_tokens, probe | breakers, providers |
| circuit breaker (`provider.rs:38-113`) | failures, open_until, under a lock, one per provider | available, record_success, record_failure | called by every request's task |
| provider transport (`provider.rs:261-346`) | pooled connections | execute, stream, count_tokens, probe | the network, secrets |
| adaptation and conversion (`provider.rs:115-250, 342-562`) | none | adapt_request, build_request, convert_messages, convert_response | router |
| stream parsing (`provider.rs:577-672`) | buffer, tools, last reason and usage, per stream | parse_sse | body of the response |
| validation and encoding (`anthropic.rs`) | none; StreamEncoder per stream | normalize, validate_tool_history, StreamEncoder::encode | server |
| server (`server.rs`) | a Runtime behind an ArcSwap; a semaphore for all requests | messages, count_tokens, health | everything |
| client limits (`auth.rs`) | a deque of timestamps and a semaphore per client | authenticate, acquire | server |
| configuration (`config.rs`) | the file and the secrets it refers to | load, validate, resolve of a secret | start, reload, dashboard |
| lifecycle (`main.rs`) | the runtime in force, the reload task, the state of the shutdown | serve, reload on SIGHUP, graceful shutdown | server, dashboard |
| dashboard (`dashboard.rs`, `migrations/`) | an SQLite database, the admin secret | login, configuration history, clients, providers, routes | database only |

A request takes a slot of its client's rate limit and two permits, is
validated, is given an ordered list of candidates whose circuits are closed and
whose capabilities suffice, is tried at one after the other, and is answered at
once or by a stream that holds the permits until its body ends or is dropped.
Requests share the breakers, the limiters and the semaphores. A reload replaces
all three for new requests while old ones keep theirs. The dashboard shares
nothing with the rest but the process: what it stores never reaches the
Runtime.

What is hard, per part, and what makes it right:

* **router and breakers** - requests that started long ago report to a breaker
  that others have changed; a deadline that has passed is cleared lazily, with
  the count left; retries must not duplicate work, skip a tier, or give up
  early. Right: a provider is shut out only after as many failures in a row as
  configured, candidates of a better priority come first, nothing is sent again
  after an outcome that may have been work done, every request is answered.
* **admission** - the clock is read before the lock, timestamps get into the
  deque out of order; permits are held across awaits, a stream, a reload and
  the dropping of a future. Right: the rate limit holds up to the delay of a
  thread; no permit is lost or made; a refusal has its cause.
* **streams** - tool calls arrive in fragments in any order, several at once;
  the provider breaks off or falls silent; an error may come between any two
  events. Right: the client sees a well-formed message, all of it, and it is
  never told that a message is complete when the answer was cut short.
* **translation** - tool calls and results must be paired after the order of
  blocks has been changed; targets lack features that may or may not be given
  up. Right: nothing is left out, results follow their calls, a target is asked
  for nothing that it lacks.
* **answers** - the same answer is put together by `convert_response` at once,
  or piece by piece by parser and encoder. Right: a client gets the same content
  whichever way it asks. It is not the same message to the letter: section 5
  lists what differs.
* **configuration and lifecycle** - a reload looks at the file once and at the
  secrets three times while they may be changed; signals come at any moment of
  the start, of another reload, of a shutdown; requests outlive the runtime
  they started with. Right: what comes into force has passed every check, a
  request goes by one runtime, a signal to reload is not lost, a shutdown gives
  requests their grace and ends.
* **dashboard** - read-then-insert without a transaction; a start that crashes
  between two statements; code and schema in different files. Right: history is
  only added to, a later start gets through its statements, no row refers to one
  that is gone. That a start then serves is more than it does: see the router in section 5.

## 2. Modules

| module | what it models |
|---|---|
| `Breaker` | the abstract promise of ONE circuit: closed, open, probation |
| `Routing` | candidates, execute, stream and count_tokens of the router over the circuits of all providers; implements `Breaker` per provider |
| `RoutingProofs` | proofs about `Routing` |
| `Admission` | rate limiter, client and proxy semaphores, ways out of a request, generations |
| `AdmissionProofs` | proofs about `Admission`: its permits, its rate limiter |
| `AnthropicStream` | the abstract promise of a stream of events to the client |
| `StreamTranslation` | parse_sse, StreamEncoder and the body of a streamed response; implements `AnthropicStream` |
| `StreamProofs` | proofs about `StreamTranslation` |
| `SequenceLemmas` | facts that proofs share: induction over numbers and sequences, `FlattenSeq`, functions applied to every element of a sequence |
| `RequestTranslation` | normalize, adapt_request, convert_messages, build_request |
| `TranslationProofs` | proofs about `RequestTranslation` |
| `WeightedDraw` | the loop of `weighted_priority_order`, on top of `Routing` |
| `ResponseConversion` | `convert_response` and `response_content`, next to the stream of `StreamTranslation` |
| `ConversionProofs` | proofs about `ResponseConversion` |
| `Configuration` | what a configuration holds, `AppConfig::validate`, the checks of `Runtime::new`, and what requests look up in a runtime |
| `Lifecycle` | the process over `Configuration`: start, reload, requests across reloads, shutdown |
| `LifecycleProofs` | proofs about `Lifecycle` |
| `ConfigVersions` | the dashboard's configuration history |
| `DashboardTables` | the dashboard's other tables, and the sample rows |
| `DashboardLogin` | the table of administrators and who may log in |
| `Dashboard` | the three above as one process over one database |
| `DashboardProofs` | proofs about `Dashboard` |
| `MC...` | the instances that TLC checks |

`WeightedDraw` is a module of its own because the choice of an order is one
step of `Routing`, and this is how it is made; `ResponseConversion` is the other
of two ways to one content. The runs `routing` and `stream` go through them, so that what they
compute is compared with what the other module reaches in every state.

### State and actions

**Routing.** `circuit[p]` is `CircuitState`, with the deadline as what is left
of the cooldown (`None` for no deadline, 0 for one that has passed). `job[r]`
is the task of one request. `CheckTarget` is one turn of the loop in
`candidates` (one lock), `RejectAll` its empty result, `Choose` the ordering
and what comes before the first attempt; `ExecuteSucceeds`,
`StreamEstablished`, `FallBack`, `GiveUp` and `AttemptTimesOut` are the
outcomes of an attempt, each with its record_success or record_failure;
`StreamFinishes`, `StreamEnds`, `StreamFails`, `StreamIdles` the end of a
stream; `Drop` the client's departure anywhere. The weighted draw is any order
that respects the tiers (`PriorityOrders`), which `WeightedDraw` justifies.
What a request asks for is the set of providers that can serve it.

**WeightedDraw.** `Rounds(S)[n]` is where the loop may stand after n rounds: the
candidates that are left, and what is put out. A `Round` takes the tier at the
front, the sum of its weights, every number below the sum, and the walk to the
target that the number selects; the walk's `choice -= weight` is the choice less
`WeightOfFirst`. `Drawn` is what may be put out at the end.

**Admission.** One action per step between two awaits or locks of
`messages_inner` and `acquire`: `Arrive` (load the runtime, read the clock),
`TakeSlot`, `TakeClientPermit`, `TakeGlobalPermit`, `Handle`, `CallEnds`,
`StreamStarts`, `StreamEnds`, and `Release` of one permit at a time as the
values are dropped. Dropping a future leads to `Release` from wherever it was.
`Reload` starts a generation. `grants` is a history variable: the true instants
at which slots were granted.

**StreamTranslation.** `SayText`, `SayTool`, `SayUsage`, `SayReason`: one part
of a chunk goes through parser and encoder. `UpstreamEnds` is the end of the
bytes or `[DONE]` with the check of the tools, `UpstreamBreaks` a failed read
or a chunk that is not JSON, `IdleTimeout` the server's timer. `Yield` takes
one event to the client; `Close` and `ClientLeaves` end the body. Ids, names and
arguments are put together from fragments alike. A call is announced to the
encoder once it has an id and a name (`started`); the parser goes on to add
fragments of both, and passes on those of the arguments only. `message_start`
brings the proxy's own count of the request's tokens (`Estimate`), `message_delta`
the provider's count of output tokens. `said` is a history variable; `said.late`
is that more was said of an id or a name after the announcement.

**ResponseConversion.** `ConvertResponse` is a function of an answer, usage
included. `Answers` are the answers that say what a stream has said so far,
`Assembled` what a client puts together from the events: the blocks with their
ids, names and data, the reason and the tokens.

**RequestTranslation.** `Write` composes a conversation block by block,
`Normalize(opts)` validates it with the rest of the request, `Adapt(cap)`
adapts it to a target, `Build` converts it. A block carries its place (`tag`)
for a payload. Shapes of JSON, base64, URLs, lengths and names are not told
apart: each block and each request has a flaw, "none", "unknown" (refused by
strict validation only) or "broken".

**ConfigVersions.** `Submit` or `Revert`, `ReadVersion`, `Insert`: the
statements of `update_config` and `revert_version`. A failed read counts as 0.
`Abandon` is a request whose client left or whose insert failed.

**DashboardTables.** `Seed` of three tables and `SeedTarget` are the statements
of the `create_sample_` functions; `Create`, `Update`, `Delete` are those of
the administrators. A row is "sample" or "given", by who wrote it last. A
statement that violates a constraint of the schema fails and changes nothing;
foreign keys are enforced, which is the default of the database library.
`BuildRouter` is the building of the routes after the last statement: axum takes
their paths or panics, and `PathsAccepted` says which of the two can happen.

**DashboardLogin.** `Migrate` and `CreateInitialAdmin` both put an
administrator into the table when it has none; `LogsIn` is `login_handler`. A
hash is kept as the password it was made from.

**Dashboard.** `StartProcess`, `RunMigrations`, `SeedAdmin`, `SeedConfig`,
`SeedTables`, `Listen`: the order of `serve` (`main.rs:118-187`), one statement
per step and then the router and the listener, each start with the secret that
is set then. `ServeVersions` and `ServeTables`
are the requests; `StopProcess` may come between any two steps, and takes the
requests with it.

**Configuration.** A configuration is a record of what the checks read. An
endpoint, the name of a header and a pattern of models are kept as what the
checks tell apart. `Valid` is `validate`; `KeysLong`, `Compiles`, `Panics` are
what `Runtime::new` asks besides, with the secrets as they are by then.

**Lifecycle.** `Load`, `Validate`, `Build` are the three looks at the secrets:
validate in `AppConfig::load`, validate again and `AuthRegistry::new` in
`Runtime::new`; `Edit` and `Rotate` come between them. `Reject`, `BuildFails`,
`BuildPanics` are the ways out: at the start they end the process, later they
leave the old runtime in force, or, for a panic, end the reload task.
`InstallReloader` is the first poll of that task; `Hangup` before it kills the
process, as SIGTERM does before `Listen`. Of a request `Arrive`,
`Authenticate`, `Resolve` and `Leave` are kept, its permits are in `Admission`.
`Notice`, `Tick`, `End`: axum learns of the shutdown, the grace passes, the
process ends. The grace of the code runs from the signal, `Tick` waits for
`Notice`, which comes a few polls later. `waited` is a history variable: how much of the grace a request
had.

## 3. What is checked

| run | instance | shows |
|---|---|---|
| `routing` | 2 requests, 2 providers, 3 targets in 2 tiers with weights 2, 3, 1, 4 statuses | `TypeOK`, `OpenOnlyIfTripped`, `NoDuplicatedWork`, `BetterPriorityFirst`, `GivesUpOnlyWhenExhausted`, `OpenCircuitAdmitsNoOne`, that every circuit implements `Breaker` (`CircuitsKeepPromise`), and that the weighted draw yields just the orders assumed, by the weights (`DrawsByWeight`) |
| `routing_live` | 2 targets, 2 statuses | `EveryRequestResolves` |
| `admission_rate` | 3 requests of one client, a window of 4 ticks, delays of up to 2 | `RateHonoured`, `RateRefusalJustified` |
| `admission_permits` | 2 requests, 2 clients, a reload | `TypeOK`, `PermitsConserved`, `TurnedAwayOnlyWhenFull`, `CallsReturnPermits` |
| `stream` | 2 tool calls, 2 fragments of anything, 5 parts | `TypeOK`, `CompleteOnlyIfWhole`, `NothingLost`, `SameContent`, that the stream implements `AnthropicStream` (`ObeysProtocol`), `EveryStreamEnds` |
| `translation` | 4 blocks, 2 calls, 7 requests, 9 profiles | `TypeOK`, `HistoryAsDefined`, `ResultsFollowCalls`, `NothingLeftOut`, `UnsendableOnlyImages`, `TargetRespected` |
| `translation_parallel`, `translation_thinking` | 1 block | findings 1 and 2 |
| `lifecycle` | 23 files with at most one flaw each, one per check; 5 that a running process may find; keys that are rotated; 1 request; a grace of 2 ticks | `TypeOK`, `RuntimeSound`, `AdmittedByOneRuntime`, `GraceHonoured`, `ProcessEnds`, `ReloadTakesEffect` |
| `dashboard` | 2 administrators, up to 4 versions, 2 ids, 2 ends of the process, a secret and none | `TypeOK`, `NoVersionSkipped`, `NoOrphanTargets`, `CurrentSecretOnly`, `HistoryKept`, `StartKeepsRows`, `SeedingGetsThrough`, whether or not the router can be built |
| `versions_overlap` | the same, no crash, a router that can be built, reads succeed | finding 3 |
| `tables_create` | as in `versions_overlap` | finding 4 |

Every property fails when a plausible mistake is made in the code it is about;
the operators marked "Mutant" in the modules are these mistakes, and
PROJECT.json says which property each breaks. They are used by nothing else.

Two properties say less than their names might suggest. `NoVersionSkipped` and
`HistoryKept` permit the same version twice: that this happens is finding 3, and
only `LatestIsNewest` shows it. The run `dashboard` lets a start end up serving
or not, so that the handlers are checked as if axum took their paths; that they
are ever reached is not among its properties.

### Bounds

* `MaxFailures` (3): nobody arrives once a provider has so many failures in a
  row. With a threshold of 2 that is one below, at and one above it; requests
  under way may add more. `Cooldown` is one tick: open, over, cleared.
* Two requests, reused without end, suffice for one to act on a circuit that
  the other changed between its check and its report; the proofs cover more.
* `MaxStall` (2), `Window` (4): a delay shorter than the window, and longer
  than a tick, so that a stale timestamp can hide behind a fresh one. Ages stop
  at `Window + MaxStall`, beyond which no guard tells them apart.
* `MaxReloads` (1): one old and one current generation.
* `MaxParts` (5): both fragments of one call interleaved with the start of
  another, or a call, text, reason and usage; longer answers repeat these. One
  fragment of ids and one of names suffices for a late one, since it may be said
  again after the announcement. Two counts of tokens tell the last from the
  first, and both from the estimate.
* `MaxBlocks` (4): two calls and two results, or one of each around text.
* `MaxRows` (3, and 4 in the runs of findings): requests arrive while the
  history has fewer rows, so two that overlap can still end after it is
  reached. The sample, one submitted and one reverted configuration are the
  three kinds of row, and the proofs cover more.
* `MaxCrashes` (2): a crash at any statement, and another while the tables are
  filled up from what the first has left.
* `PathsAccepted`: both in `dashboard`, since `FALSE` is what axum 0.8.9 does and
  `TRUE` what it takes for the handlers to be reached; `{TRUE}` in `versions_overlap` and `tables_create`, which
  are about what the handlers do once they can be reached.
* The ids: all sample rows share one id in the instance, since no statement
  compares ids of different tables; one more is the administrators' own.
* `MaxEdits` (2): one change of the file or the secrets between the first look
  and the second, another between the second and the third, or one during each
  of two reloads.
* `MaxPermits` (3): what a semaphore can hold, a number of 61 bits in the
  program; it is compared with and nothing else.
* `Grace` (2): requests that leave before, during and at the end of it.
* One request in `lifecycle`: requests share nothing there but the runtime,
  which they do not change; the proofs cover any number.

### Fairness

* `Routing`: the router's own steps, and the request timer (`AttemptTimesOut`),
  which `tokio::time::timeout` runs. Nothing is assumed of providers.
* `Admission`: a request's own steps, and that the router returns, which
  `EveryRequestResolves` shows of `Routing`. Nothing is assumed of streams: a
  client that does not read holds its permits at a `yield`, where no timer
  runs.
* `StreamTranslation`: that a client that stays reads (`Yield`, `Close`), and
  the idle timer. That a provider says finitely much is `MaxParts`; one that
  keeps talking keeps its stream, and the code has no limit on that.
* `Lifecycle`: the steps of building a runtime go on (`Advance`), the reload
  task takes a signal that waits for it (`Reload`), axum's tasks learn of the
  shutdown (`Notice`), the timer of the grace runs (`Tick`) and ends the
  process (`End`): all of them are tasks that the runtime of tokio polls.
  Nothing is assumed of signals, administrators or clients; a request may hang
  for ever.
* `Dashboard`: the process is started again (docker-compose.yml:7, `restart:
  unless-stopped`) and runs through `serve`, up to the router or its panic;
  other ends of the process are finitely many.

Deadlock is not checked where the system ends: `StreamTranslation`,
`RequestTranslation`, `Lifecycle`, and `Routing`, where nobody arrives once
`MaxFailures` is reached.

## 4. What is proved

From `ConfigAssumption` (what `AppConfig::validate` ensures of routes and
limits), for any number of requests, providers and targets, `RoutingProofs`
proves

* `TypeInvariant`: `TypeOK`, and with it that an attempt always has a
  candidate;
* `OpenOnlyIfTrippedInvariant`, and on it `CircuitsImplementBreaker`: the
  circuits start as `Breaker` starts, and each step is a step of it or a
  stutter. A success of an old request on an open circuit, and the lazy
  clearing of the deadline, are where this could fail;
* `BetterPriorityFirstInvariant`, through the inductive invariant `OrderedInv`:
  the order a job works through enumerates its compatible targets, each once,
  tier by tier. The property itself is not inductive: it speaks of the targets
  tried so far, and says nothing about those that come next;
* `NoDuplicatedWorkInvariant`, `GivesUpOnlyWhenExhaustedAlways` and
  `OpenCircuitAdmitsNoOneAlways`, from the same;
* `DrawsByWeightInvariant`, from `WeightsAssumption` too (every weight is
  positive): the set of orders that `Routing` chooses from is what the code can
  draw, and each round draws by the weights. The invariant of the loop is
  `Standing`: what is put out and what is left, one behind the other, is at any
  time an order that respects the tiers (`MoveLemma`: a draw moves a candidate
  to the front of its tier). That every such order can come up is the other
  half of the induction over the rounds (`LoopLemma`): the next of it is always
  in the tier at the front, and the number that the weights before it come to
  selects it (`SelectedLemma`). That many numbers select it as its weight says
  is the size of an interval (`ProportionalLemma`).

From `LimitsAssumption`, for any number of requests, clients and reloads,
`AdmissionProofs` proves

* `PermitsConservedInvariant`: free and held permits add up to the limit, per
  semaphore and generation. The inductive invariant `PermitInv` adds the types
  of the counters and what a request can hold in each phase (`HeldByPhase`):
  without it a step could take a permit that the request holds already, and the
  count of holders would not change with the counter;
* `TurnedAwayOnlyWhenFullAlways`, from it.

and of the rate limiter, for any window, limits, delays and number of requests,

* `TypeCorrect`: `TypeOK` of `Admission`;
* `RateHonouredInvariant`. The deque holds readings of the clock in the order
  in which the lock was taken, `grants` the instants at which the lock was
  taken. The inductive invariant `Linked` reads both from their newest ends:
  the j-th grant is younger than the j-th reading by at most a delay, or its
  reading has been popped and it is older than `Window - MaxStall`. A fresh
  reading in front keeps stale ones behind it in the deque; but only a front of
  it is ever popped, so the positions from the newest end do not shift. That the grants are in the order of time, which the
  readings are not, is part of the invariant;
* `RateRefusalJustifiedAlways`, from the other half of `Linked`: nothing is in
  the deque that was not granted, and after the pops its front, and so all of
  it, was granted within a window and a delay.

From `StreamAssumption`, for any number of tool calls, texts, fragments and
parts, `StreamProofs` proves

* `TypeCorrect`, `CompleteOnlyIfWholeInvariant`, `NothingLostInvariant`;
* `ObeysProtocolAlways`: the stream refines `AnthropicStream`.

They all rest on one invariant, `StreamInv`, which looks at `Full`: the events
yielded followed by those still pending. A yield does not change it, so only
the actions that encode have to be looked at. `WellFormed(Full)` says that each
event may follow those before it; `Reading`, that before its end a message is
under way with the block of the text open, if there is one, and carries the
text said so far; `Heard`, that the tools of the encoder are those announced
and hold all that was said for them, which is where arguments that come before
the name matter; `Whole`, that a message with a `message_stop` carries
everything. A `message_stop` lets nothing follow, so that when it has been
yielded nothing is pending and `Full` is what was sent. The encoding of the end
(`FinishedNext`) takes the tools one by one: `EncodedTools` is an induction
over how many of them are put out.

From the same assumption, `ConversionProofs` proves

* `SameContentInvariant`: a complete stream brings the blocks that
  `convert_response` makes of the same answer, with all of their data, and the
  same reason and output tokens. The id and the name of a call may lack their
  end, and only if the provider said that end after the call was announced;
  neither is ever lost altogether. The input tokens are the estimate.

It rests on `StreamInv` and on one more invariant, `MessageInv`, since
`Carried` tells what the message holds and not in which block, under which id
and name and with which reason. `TextOnly` says that before its end a message has
the block of the text at most; `Told`, that parser and encoder agree on the last
reason and count, that what the encoder has of the id and the name of a tool is
where the parser's begins and is not nothing, and that it is all of it as long as
nothing was said late; `Opened`, that the message starts with the estimate;
`Ended`, that a complete message is what was encoded by then and the encoding of
the end. What a client makes of events (`OfType`, `Filled`) takes
one event at a time, so that it can be told of each part of an encoding
(`LogConcat`); `ToolBlocksParts` says that the k-th block of the tools has the
k-th id and name and is filled with its arguments and nothing else.

Induction is over a set of numbers, by its least counterexample
(`InductionUpTo`, `LeastElement`), since the rules of the library take an
operator as a parameter. What `FlattenSeq` yields is derived in the same way
from the equation of the recursive function that defines it: that the function
exists (`FlattensExists`), and one step of it (`FlattenOne`). The order of the
encoder's BTreeMap is `InOrder`, by rank, because the sorts of the community
modules are recursive operators.

From `TranslationAssumption`, for any blocks, options and profiles and for
conversations of any length, `TranslationProofs` proves everything that the run
`translation` checks:

* `TypeCorrect`;
* `HistoryAsDefinedInvariant`: the pass of `validate_tool_history`, which knows
  only two sets, accepts the conversations that a definition in terms of places
  accepts. `PassKnows` is an induction over the entries: one entry more changes
  the definition just as `Remembered` changes the sets;
* `NothingLeftOutInvariant`, `ResultsFollowCallsInvariant`,
  `UnsendableOnlyImagesInvariant`, `TargetRespectedAlways`.

`TranslationAssumption` gives the constants their types and says besides that
only a tool's result has structured content, as `InputBlock` has it
(`domain.rs:76-93`).

The state machine is a pipeline, and its inductive invariant `TranslationInv` a
short one: what was accepted has a valid history, STILL when it was adapted;
after that no result has a structure; what was sent is the conversion of
messages all of which can be converted. The history has to be carried through
the adaptation, since the conversion does not look at it again and the
properties of what is sent rest on it: `FlatAdapted` and `AdaptedPass` show
that the pass sees no difference.

The work is in the operators. Each is shown to be a function of one message or
block applied to all (`Mapped`) and its results put together (`Spread`), and
the lemmas about these (`MappedSpread`, `SpreadSpread`, ...) turn what is true
of each message into what is true of the conversation. For `NothingLeftOut`
this is enough: `MessageKept` says of one message that its conversion keeps its
tags and ids, `ConvertKeeps` follows. `ResultsFollowCalls` relates messages to
each other: `InStep` says of the provider's messages so far that they answer
only what they called, once, and no more than the pass has seen called and
answered. A user's message is taken result by result (`UserInStep`), because
its results move before its text; the pass ignores text, so that it may be
taken last. An induction over sequences is one over the set of sequences for
which a statement holds (`SequenceInduction`).

From `LifecycleAssumption` and `SecretsAssumption`, which give a configuration
its types and nothing more (no check of `validate` is assumed), for any files,
secrets, requests, reloads and grace, `LifecycleProofs` proves

* `TypeInvariant`;
* `RuntimeSoundInvariant`. The inductive invariant adds `BuilderValid`: what is
  being built has passed `validate` with the secrets of SOME moment. They may
  be others by now, so the rest of what `RuntimeSound` says of keys has to come
  from the look that `AuthRegistry::new` takes itself;
* `AdmittedByOneRuntimeInvariant`, with `ClientByKey`, which carries the key
  from `Authenticate` to `Resolve`; and that a set of routes with one element
  is the set of the route that was found;
* `GraceHonouredAlways`, with `WaitedTogether`: the grace is spent only after
  axum has noticed the shutdown, when no request can arrive, so that all those
  that are left have waited the same.

From the assumptions of its modules (the sample ids are ids, the placeholder is
no secret), for any number of administrators, configurations, ids and restarts,
`DashboardProofs` proves

* `TypeInvariant`, `NoOrphanTargetsInvariant`;
* `NoVersionSkippedInvariant`, through `Gapless`: the versions are 1..n for
  some n. A request may go by a number that others have left behind; that it is
  a number in the table (or 0) is in the type, and is what makes the next one
  fit;
* `CurrentSecretOnlyInvariant`, through `PlaceholderOnly`: from the migration
  on the table has the placeholder, so that `CreateInitialAdmin`, which would
  store the secret, never does;
* `HistoryKeptAlways` and `StartKeepsRowsAlways`, step by step.

Only model-checked: everything under fairness, since liveness is out of the
prover's reach. Every invariant and every action property that a run checks is
the statement of a theorem.

## 5. Findings

1. **Parallel tool calls by default** (`provider.rs:178`). The capability
   `parallel_tools` is only looked at when the request has a `tool_choice`.
   Without one, tools go to a target that does not support parallel calls, with
   `parallel_tool_calls` at the provider's default (`translation_parallel`).
2. **Thinking is dropped** (`anthropic.rs:56`). The refusal is commented out;
   the test at `anthropic.rs:665` still expects it (`translation_thinking`).
3. **One version number for two configurations** (`dashboard.rs:654`).
   Overlapping updates both store MAX + 1; the "latest" is then either
   (`versions_overlap`).
4. **Creating clients and providers always fails** (`dashboard.rs:699, 801`):
   the INSERTs leave out columns that are NOT NULL (`tables_create`).

Observed while reading, and not the subject of a run:

* `README.md:13` lets any 5xx move on; `classify_status` (`provider.rs:717`)
  knows 500, 502, 503, 504 and 529. A 501 ends the request.
* Two clients may have the same key; the first one listed is taken, silently.
* Two routes may match the same model. `validate` does not look for it; each
  request for that model is then refused.
* `validate` sets no upper bound to `global_concurrency` and
  `circuit_cooldown_seconds`. Beyond what a semaphore holds `Runtime::new`
  panics: at the start that ends the process, at a reload it ends the task that
  would serve all later SIGHUPs, and nothing says so. A huge cooldown overflows
  when a circuit opens.
* A SIGHUP before the reload task has first run ends the process.
* The dashboard's `update_config` stores configurations that pass `validate`
  and that `Runtime::new` refuses (a pattern that does not compile, say).
* Credentials are resolved for every request, headers when the runtime is
  built, so that of two secrets rotated together one takes effect at once.
* A request that is refused for concurrency has used its slot of the rate
  limit. After a reload old requests run beside new ones, and the process
  serves up to twice its limit for a while.
* One target that cannot serve a request at all makes the answer a 400, also
  when the others were only shut out by their circuits. The tokenizer of the
  first candidate fails a stream that the others could serve.
* In a stream a refusal of the model is not passed on, and an answer without a
  finish reason is an error; without a stream a refusal becomes text, and a
  missing reason `end_turn`.
* Fragments of a tool's id or name that come after its call was announced are
  lost in a stream (`provider.rs:619-623`).
* The input tokens of a stream are the proxy's estimate (`anthropic.rs:476`): the
  provider's count is put into the encoder and never sent (`anthropic.rs:576`).
  Without a stream the provider's count is what the client gets
  (`provider.rs:545`).
* The id of a message is the proxy's own in a stream (`server.rs:126`) and the
  provider's otherwise (`provider.rs:553`). A stream takes the parts of all
  choices (`provider.rs:611`), an answer is its first (`provider.rs:520`); the
  proxy asks for one.
* `create_initial_admin_user` never inserts anything, because the migration was
  there first; only the secret of the process logs in (`CurrentSecretOnly`).
* The default `sqlite:proxy.db` has no `mode=rwc`: the start fails where the
  file is missing.
* `create_route` drops the targets of the route that it is given, and a crash
  between the two INSERTs of `create_sample_route` leaves a route without
  target that no later start completes. Nothing reads these tables at run time.
* No start comes to serve: the dashboard's routes have path parameters as `/:id`
  (`dashboard.rs:37, 39, 41, 43, 44`), which axum 0.8.9 (`Cargo.lock:194`)
  refuses with a panic when the router is built (`main.rs:169`), after the
  database was filled and before the process listens. That it does is a fact of a
  library that is not part of the repository, and a model of it would show what
  was put in; so `BuildRouter` may go either way, and no property says that a
  process serves.
* A sample row that an administrator deletes comes back at the next start if
  its table is empty.
* What is left of a line when the provider's bytes end is discarded.

## 6. What is not modelled

* cookies, pages and static files of the dashboard, `web/` and `loadtest/`:
  they keep no state in the process;
* body limits, the check of the API version, health and metrics: stateless or
  pure I/O;
* `probe` and the commands `check` and `probe`: they change no state and touch
  no breaker;
* token counting itself: that the tokenizer of a profile loads is a constant;
* shapes of JSON, base64, URLs and lengths in requests: a block has a flaw or
  not;
* wording of errors and status codes;
* bytes below the line: how the provider's bytes are cut into lines.

## 7. Plan

1. Composition of `Routing` and `StreamTranslation` at the first event of a
   stream, where the router decides between falling back and committing to a
   provider.
2. Several requests of one client across a reload in `Lifecycle` together with
   the permits of `Admission`, as one refinement.
