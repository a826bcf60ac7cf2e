# evora in TLA+

evora is a Python library for typed events: an `App` with handlers, a broker
that delivers events to them (Redis Streams in production, in-memory for
tests), an idempotency store, and a schema-compatibility command line. This
directory holds its formal models, what TLC checks of them, and theorems about
them that TLAPS proves.

## 1. The system

| Component | State | Operations | Correct when |
|---|---|---|---|
| `RedisStreamsBroker` (`evora/brokers/redis_streams.py`) | in Redis: stream, consumer group and its pending list, retry ZSET, DLQ stream; in memory: batches, fetched retries | `publish`, `_ensure_group`, `schedule_retry`, `_reclaim_stuck`, `_decode_entry`, `_process_one`, `run_consumer` (tasks `loop`, `retry_scheduler`) | no accepted event is lost; retries and redeliveries end; a message is acknowledged only when it is dealt with |
| `App` (`evora/app.py`) | the ordered handler list, the registry | `add_handler`, `publish`, `_handle_message`, `_send_dlq`, `run` | each handler gets the tries its policy promises; what fails for good is dead-lettered; completed work is not repeated |
| `RedisIdempotencyStore` (`evora/idempotency`) | keys `<handler, event id>` with a TTL | `seen`, `mark_seen` | a key exists only for a completed handler |
| `MemoryBroker` (`evora/brokers/memory.py`) | a bounded stream per channel | `publish`, `run_consumer` | a message taken is dealt with by every handler of its type; a cancellation loses no more than it must; a loop comes to its next message |
| `RetryPolicy`, `with_retries` (`evora/runtime.py`), `_compute_delay_ms` of the broker | the attempt; in Redis the scores of the ZSET | backoff, `retry_scheduler`'s polls | a retry is neither early nor left behind; delays are bounded |
| `Event`, `Envelope`, `Registry` (`evora/core.py`) | type name -> class | `register`, `resolve`, `decode`, `encode` | a handler gets an instance of its class |
| Schema tools (`evora/schema`, `evora/cli.py`) | the baseline file | `extract_schema`, `compare_schemas`, `handle_schema_export`, `handle_schema_check` | a class that passes reads what earlier ones wrote |
| Telemetry (`evora/observability`) | counters, spans | hooks | one `on_consume_end` for each `on_consume_start` |

**Interaction.** `App.run` gives `_handle_message` to `broker.run_consumer`,
which starts two tasks in one task group: the loop (reclaim stuck messages, else
read new ones, process each) and the retry scheduler (every 500 ms, put due
members of the ZSET back into the stream). `_process_one` calls the App, which
asks the idempotency store, runs each matching handler, and may call back into
the broker (`schedule_retry`, `publish` to the DLQ) before the broker sends
XACK. Several processes do this under one consumer group; they share nothing but
Redis. On a `MemoryBroker` the same App runs in one process, one loop per channel,
and a message lives nowhere but in its channel or in the loop that took it. The
schema tools stand beside all this: they decide at build time whether a new
version of an event class may be deployed to consumers whose streams still hold
what older versions wrote.

**What is hard.** Every `await` of a Redis call lets another task or process
act. A process can die, a call can fail, or take effect and lose its reply,
between any two of them. A slow message is reclaimed while it is still being
processed. The handlers of one message share its retry copies and its attempt
number. In memory, a loop that publishes to a full channel stops until another
loop, perhaps itself, empties it. A schema check sees two versions at a time, a
stream holds many. `PROJECT.json` lists these hazards one by one, each at its line.

## 2. Modules

| Module | What it is |
|---|---|
| `RedisGroup` | The Redis server as evora uses it: one operator per command or MULTI pipeline, each an atomic step |
| `EvoraDelivery` | The core: N workers (loop, scheduler) against `RedisGroup`, crashes, failed calls, time; the properties |
| `EventLedger` | The abstract promise: an event is opened, settled by handlers, and closed only when all have settled it |
| `DeliveryLedger` | The refinement mapping from `EvoraDelivery` to `EventLedger` |
| `EvoraDeliveryProofs` | Theorems: types, `NoLoss`, `AckEarned`, for any workers, handlers and events |
| `DeliveryLedgerProofs` | Theorems: the refinement of `EventLedger`, `OnlyStaleReadsReopen` |
| `SoloDeliveryProofs` | Theorems about one worker: how often handlers run, return and are tried, how many copies exist |
| `MemoryDelivery` | An App on a `MemoryBroker`: registration, one loop per channel, handling, publishing, cancellation |
| `MemoryDeliveryProofs` | Theorems: types, `Observed`, `ClosedSettled`, `OwnClass` |
| `MemoryCopiesProofs` | Theorems about the copies of a message: `CompletesOnce`, `LossBound` |
| `RetryTiming` | When a failed handler runs again: durable retries through the ZSET and its polls, local ones in `with_retries` |
| `RetryTimingProofs` | Theorems: `NotLate`, `WaitBound`, `BacksOff` |
| `SchemaGate` | `schema export` and `schema check` as the gate of a sequence of releases |
| `SchemaGateProofs` | Theorems: `BaselinesReadable`, `AlwaysReadable`, `RollingReadable`, `NoSilentChange` |
| `MCDelivery`, `MCMemory`, `MCTiming`, `MCSchema` | Instances for TLC |

`EvoraDelivery` and `MemoryDelivery` both model `App._handle_message`, each with
its broker: what may happen between two of its steps is the broker's.

### Delivery through Redis: state

| Model | Code |
|---|---|
| `stream` | entries of `<channel>`: an event and field `a` (the attempt); ids are positions |
| `group`, `origin`, `last`, `pel`, `idle` | the consumer group: whether it exists, its `$` at creation, last-delivered id, pending list, and which pending entries passed `poison_idle_ms` |
| `retryz`, `due` | the ZSET `<channel>.retry.z`: members (the JSON payload: event, attempt, error), and those whose score has passed |
| `keys` | `evora:idem:<handler>:<event id>` |
| `dlq` | `<channel>.dlq`, as the set of (event, handler, reason); handler 0 when the letter is not one handler's |
| `pc[w]` | the Redis call the loop of worker w makes next; `run` while a handler runs, `down` while the process does not |
| `batch[w]`, `msg[w]` | entries read or claimed and not yet processed; the one in process |
| `hi[w]`, `err[w]` | the handler of `_handle_message`'s loop, the exception being handled |
| `fetched[w]` | what `retry_scheduler` read and has not put back |
| `runs`, `done`, `dropped` | histories: starts and normal returns of each handler for each event; failures given up under `dlq=False` |

### Delivery through Redis: actions

`Start` is `_ensure_group` and the start of both tasks. `AutoClaim`,
`NoAutoClaim`, `ListPending`, `ClaimListed` are `_reclaim_stuck` and its
fallback; `ReadNew` is XREADGROUP; `Process` is the loop over a batch, and
`EntryPC` where the first entry of it goes: `_decode_entry`'s drop, the poison
check, or one of the three ways `_handle_message` begins. `Seen`,
`HandlerReturns`, `HandlerRaises`, `ScheduleRetry`, `SendDlq`, `MarkSeen` follow
`_handle_message`'s loop; `Ack`, `BrokerDlq`, `FinalAck`, `Poison`, `Drop`,
`Contract`, `Unmatched` the rest of a message. `Poll` and `Requeue` are the two
calls of the scheduler.

Each call is one step, at which it has its effect. `Outcome` says it may then
return or, within the fault budget and for the calls of `FaultCalls`, raise (its
reply is lost); `CallLost` is a call that raises and had no effect. `OnRaise`
follows the exception to whoever catches it: the outer `except` of the handler
loop, the `except` of `_process_one`, `finally: return`, the `except: pass` of
`_reclaim_stuck`, or nobody, in which case the task group cancels both tasks and
the process ends. `Crash` ends a process at any point. A process that is down
may be started again.

### Delivery through Redis: abstractions

* One channel and one event type with `NumHandlers` handlers. Channels share
  no state in Redis but the keys, which are per handler and event.
* Payloads, keys and headers: only whether the message decodes and matches
  (`Kind`). The error message in a retry member is taken to be a function of its
  type, so two retries of one attempt with the same error type are one ZSET
  member, as they are in Redis when payload and message agree.
* Time: any pending entry may become idle and any retry due at any moment.
  Delays, jitter, `block_ms` and the 500 ms sleep are thereby arbitrary.
* The scheduler's limit of 100 members and XAUTOCLAIM's bounded scan are above
  the sizes of the runs and not modelled.
* Batches are processed in id order, the order Redis returns them in.
* When the scheduler fails, the loop is cancelled at its current step. The one
  place that swallows a cancellation (`finally: return` in `_handle_message`) is
  in `SchedulerFails`; a cancellation of `App.run` from outside is taken to be
  a `Crash`.
* Telemetry hooks do nothing and do not raise.
* The fallback of `_reclaim_stuck` lists at most `ReclaimCount` pending entries
  before it looks at their idle time, as the code does.

### Delivery in memory

`handlers` is `App._handlers` and `byType` the registry; `queue[c]` is the stream
of channel c, its first `Cap` messages buffered, the others those of senders that
wait in line; `pc`, `cur`, `as`, `upto`, `at` are what the loop of a channel is
doing: the message, the class it was decoded to, the handlers matched (the list
only grows, so a snapshot of it is its length) and the current one. `keys` is the
idempotency store; `open` counts observations telemetry has seen begin and not
end; `closed`, `done`, `dead`, `dropped`, `sent` are histories. `on_consume_end` is
also left out where `_send_dlq` raises in the outer `except` (app.py:318), which it
cannot on a `MemoryBroker`.

`AddHandler` is `add_handler` with the strict checks, `Run` is `App.run` and
`run_consumer`. `Take` is the loop's next message with `decode` and the choice of
handlers, `Gate`, `HandlerReturns`, `HandlerRaises`, `MarkSeen`, `StoreFails`,
`LetterSent` the handler loop, `Abort` the unsupported mode that raises out of
it, `Emit` a handler that publishes. `Stop` cancels `App.run` from outside and
`Cancelled` is the end of one loop. `Drain` is another consumer of a channel,
`Publish` a publisher outside any handler. A handler that raises ends in the same
place whatever it raises: a retryable failure reaches `schedule_retry`, which a
`MemoryBroker` does not have, and the `AttributeError` reaches the outer `except`.

Abstractions: a message the stream has handed to a waiting receiver counts as
buffered until the loop goes on; the error a dead letter names is left out; in
the instance the channels of dead letters are not among those the App listens
to, as with the default suffix, and every event is published once.

### Retry timing

`now` is a clock in milliseconds at any scale, `wake` the next poll. A durable
task fails (`ScheduleRetry`: a score of now plus `Delay`), waits, and is put back
by a `Poll`, which takes the first `BatchLimit` members that are due by a clock
at most `Skew` away. A local one sleeps (`Sleep`, `Awake`). `LocalDelays` is the
set jitter may choose from. A durable task is one chain of copies, each made when
the one before it failed; what the other handlers of an event and redelivery add
to it is the subject of `EvoraDelivery`, so nothing is said here of how often a
handler is tried. Calls take no time, and a poll is never late; their
duration comes on top of each upper bound.

### Schema gate

`deployed` is the class in production, `baseline` the exported JSON. Three
histories: `published`, the classes that ever wrote events, `exported`, those a
baseline was exported from, and `fresh`: the baseline was exported again before
each release, as the documented workflows do. A release may also be checked
against a file of any age. A Data model, a schema and a value are trees, given
as functions from the paths of their nodes; what the code does by recursion is
said of every path: `Normalize` is `extract_schema`, `Compared` the paths at which
the recursion of `_compare_objects` arrives, `Entered` those where the types agree
and it looks further, `Report` what it reports of them, `Check` the exit code of
`schema check`. `Export` and `Release` are what a team does. Against it stands a
reference that is not evora's: `Values`, what a class writes, and `Accepts`, what
pydantic validates. Field types are integers, strings, enumerations, optional
types, lists and nested models; of a list's items, which are alike, a value has
one or none.

## 3. What the runs check

Properties (the comments in `EvoraDelivery` state each in full):

* `NoLoss`: an accepted event is still in the stream, pending, or in the ZSET,
  or every handler has dealt with it. Accepted means added after the group was
  created at `$`; dealt with means the handler returned, or the event was
  dead-lettered for it or as a whole, or its `dlq=False` policy gave it up.
* `AckEarned`: nobody is about to acknowledge a pending message too early.
* `OnlyStaleReadsReopen`: an accepted event that has left Redis comes back only
  from what some worker read before that.
* `ExactlyOnce`, `FullRetries`, `RunBudget`, `SingleToken`, `Amplification`,
  `CopyBudget`: how often handlers run and how many copies exist, each under the
  circumstances in which the code guarantees it. `RunBudget` bounds the starts of
  a handler that is alone, `CopyBudget` those of one that shares its event: one
  for each copy that the policies and `poison_max_deliveries` allow.
* `Rests`: every accepted event comes to rest for good, accounted for.
* `ImplementsLedger`: all of it, as a refinement of `EventLedger`.

In memory:

* `ClosedSettled`: a message is done with only when each handler of its type has
  dealt with it, whatever failed for the others.
* `LossBound`: a channel loses at most one event per cancellation of its loop.
* `CompletesOnce`: no handler completes twice for an event unless the store
  failed, though it may be registered twice.
* `TypeOK` includes that a loop stays within the handlers it matched when it took
  its message, whatever is registered meanwhile.
* `Observed`: telemetry sees each handler end once, unless its loop was cancelled.
* `OwnClass`: a handler gets another class only if that one was registered later.
* `Finishes`: what a loop begins it ends, unless loops wait for each other, for
  themselves, or for a channel nobody empties (`Doomed`, which is reachable:
  without that clause TLC finds the deadlock). It does not say that no loop ever
  stops for good; the code does not keep that from happening.

Timing: `BacksOff` (no retry before its delay, up to the difference of clocks),
`NotLate` (a backlog delays a retry by one poll per `BatchLimit` retries, no
more), `WaitBound`. Schema: `AlwaysReadable` (the deployed class
reads what any earlier release wrote, not only the last, if the baselines were
fresh), `BaselinesReadable` (if not, what any exported class wrote), `RollingReadable` (and
the replaced one what the new one writes, except an enum value the report names),
`NoSilentChange` (no report, no change).

| Run | Instance | Shows |
|---|---|---|
| `solo` | 1 worker, 2 handlers, 3 attempts, both error kinds, no crash | `TypeOK`, `ExactlyOnce`, `FullRetries`, `Amplification`, `CopyBudget` |
| `faults` | 2 workers, 2 handlers (one `dlq=False`), 1 failed call of any kind but one | `NoLoss`, `AckEarned`, `OnlyStaleReadsReopen`, `ImplementsLedger` |
| `kinds` | undecodable, unmatched, empty and good events, a handler of an unsupported mode, 1 crash, 1 failed call, expiring keys, `PoisonMax` below the attempts, no XAUTOCLAIM | `NoLoss`, `RunBudget`, `SingleToken` |
| `live` | 2 workers under fairness, 1 crash at any point, the fallback with a listing of one entry | `Rests` |
| `memory` | 2 channels with a buffer of 1, 4 events, 2 registrations of 4 functions, 1 cancellation, 1 failing store call | `TypeOK`, `ClosedSettled`, `LossBound`, `CompletesOnce`, `Observed`, `OwnClass`, `Finishes` |
| `timing` | 3 durable retries, 1 per poll, 1 local one, 3 attempts, clocks 1 apart | `BacksOff`, `NotLate`, `WaitBound` |
| `schema` | 3 releases over models of up to 2 fields: integers, strings, enumerations, lists, nested models, one optional type; the baseline exported at any time or never | `AlwaysReadable`, `BaselinesReadable`, `RollingReadable`, `NoSilentChange` |

**Why these bounds.** Two workers suffice for every race of two copies or of two
holders of a message; a third adds no new kind of step. Two handlers are needed
for everything that goes wrong between handlers of one message. Two attempts
give a first failure, a retry and an exhausted policy; `solo` has three, so that
an attempt number lost in the middle shows; its `PoisonMax` is above the attempts,
so that a try too many is not hidden by the poison check. `MaxEntries` is at least the number
of copies the instance can produce, or (runs `faults`, `kinds`) stops the
scheduler from adding a further copy; in `kinds` TLC also chooses which of the
four messages are published, and three entries hold any two and a retry.
`CountCap` ends the counting of a
history: at 1 it keeps "ever", which is what `NoLoss`, `AckEarned`, `Rests` and
the ledger read; the runs that compare counts cap above the largest count they
compare with (`solo` at 8: two handlers that always fail make 1 + 2 + 4 copies). Crashes and faults are counted and bounded. Worker symmetry is
used in safety runs only.

In `memory` a buffer of one message fills up at once, and the handlers publish to
each other's channel and to their own; one version reads what the other wrote and
not the reverse, so the order of registration matters. Nobody reads
`a.dlq`, the default of a deployment, so it fills up as well; `b.dlq` is drained. In `timing` the horizon
lies past the moment at which a retry overtaken by two others would be late;
base, cap and polling interval are a few units in which the delay doubles once
and is then capped. In `schema` two fields show every pair of changes, and three
releases every way two compatible steps may fail to compose; a nested model
occurs on its own and inside a list. The symmetry of `timing` is that of its three
durable tasks.

**Fairness.** `FairSpec` assumes weak fairness of each worker's start, its loop,
and its scheduler's two steps (an event loop runs every ready task, a deployment
restarts a process that ended), and of time (a pending entry left alone does
pass `poison_idle_ms`, a retry does become due). Nothing is assumed of crashes,
failures, publishers or expiry. In `live`, `MaxEntries` has room for every copy of
the instance that a policy asks for; it may stop a scheduler that holds a stale
read from adding it once more, but leaves no member in the ZSET for good, or
`Rests` would fail. No call fails in `live` (`FaultCalls` is empty). In `memory`, the event loop runs every task
that can go on and handlers end; nothing is assumed of publishers, registration,
cancellation or a new start. `RetryTiming` and `SchemaGate` state safety only.

### Where code and documentation disagree

Each of these runs violates one sentence of the documentation; TLC's
counterexample is the scenario.

| Run | Said | What happens |
|---|---|---|
| `readds` | redis_streams.py:977-978, duplicate re-adds are safe; README.md:324-326, exactly once although redelivered | two copies processed at once both pass the gate |
| `poison` | docs/POISON_MESSAGE_HANDLING.md:284, DLQ after 10 deliveries | redelivery does not raise the attempt number the check reads |
| `fatal` | errors.py:14, FatalError is not retried | another handler's retry runs the fatal handler again |
| `swallowed` | app.py:193, undecodable payloads go to the DLQ | a failed publish is swallowed and the message acknowledged |
| `unions` | docs/SCHEMA_GOVERNANCE.md:412-414, 451, a changed type fails the check | `int \| None` becomes `str \| None`: both normalize to a schema without a type |

The models also show consequences that have no run of their own.

* A crash between the handler's return and `mark_seen` runs it twice, although
  README.md:324-327 says exactly once even if the consumer restarts.
* With `dlq=False`, one failing `seen` drops an event whose handler never
  started (app.py:323).
* A retry is appended behind every event published meanwhile, whatever its key
  (redis_streams.py:1040), so there is no order per partition key.
* `FullRetries` holds in `solo` only because nothing crashes there: after a crash,
  a handler may first run on the retried copy another handler scheduled, with a
  try already used up.
* `max_attempts` does not bound how often a handler is tried for an event. Each
  failing handler schedules a copy (app.py:276) and each copy runs all handlers:
  two that always fail, with three attempts each, start up to 1 + 2 + 4 times
  (`CopyBudget` and `Amplification`; the bound is reached).
* On a `MemoryBroker` every retryable failure is final, and its dead letter names
  an `AttributeError` instead of the handler's exception.
* The retry delay is accurate to 500 ms (docs/REDIS_STREAMS_API.md:613) only
  while at most 100 retries of a channel are due (`NotLate` has the general bound).
* `max_delay_ms`, "Maximum delay in milliseconds between attempts" (runtime.py:19),
  is exceeded by up to 30% under jitter, and the first local delay is that of
  attempt 2 (runtime.py:77).
* A version bump never makes a breaking change acceptable (cli.py:138), although
  docs/SCHEMA_GOVERNANCE.md:617 says exit code 1 comes only without one.
* `str` changed to `str | None`, documented as non-breaking
  (docs/SCHEMA_GOVERNANCE.md:527-540), is refused as a changed type.
* A string field narrowed to an enumeration passes with "enum value added"
  (diff.py:45), exit code 0, and the new class rejects older events. Plain strings
  and enumerations are therefore in different fields in the instance of `schema`.
* Without fresh baselines the deployed class need not read what every release
  wrote: not what one wrote that was checked against a stale file and replaced
  before the next export.

## 4. What is proved

Every theorem holds for any sets of events, workers, channels and tasks, any
number of handlers and any bounds, from the named assumptions of the modules
(constants have the types of the configuration fields) and what is said below.

| Module | Theorems | Further assumption |
|---|---|---|
| `EvoraDeliveryProofs` | `TypeOKHolds` | none |
| | `NoLossHolds`, `AckEarnedHolds` | `"contract" \notin FaultCalls` |
| `DeliveryLedgerProofs` | `OnlyStaleReadsReopenHolds` | none |
| | `ImplementsLedgerHolds` | `"contract" \notin FaultCalls` |
| `SoloDeliveryProofs` | `RepeatsBoundHolds` | one worker, keys do not expire |
| | `ExactlyOnceHolds` | and no crash, no failed call |
| | `SingleTokenHolds`, `RunBudgetHolds` | one worker, `OneHandlerRuns` |
| | `AmplificationHolds`, `CopyBudgetHolds` | one worker |
| | `FullRetriesHolds` | one worker, `NoFailures` |
| `MemoryDeliveryProofs` | `TypeOKHolds`, `ObservedHolds`, `ClosedSettledHolds`, `OwnClassHolds` | none |
| `MemoryCopiesProofs` | `CompletesOnceHolds`, `LossBoundHolds` | `LettersApart` |
| `RetryTimingProofs` | `NotLateHolds`, `WaitBoundHolds`, `BacksOffHolds` | none |
| `SchemaGateProofs` | `NoSilentChangeHolds` | `UnionsFixed` |
| | `RollingReadableHolds` | `UnionsFixed`, `EnforceType` |
| | `BaselinesReadableHolds`, `AlwaysReadableHolds` | `UnionsFixed`, `EnforceType`, `LiteralsApart` |

TLC has a counterexample without each of them, but one. `swallowed` is the counterexample without
`"contract" \notin FaultCalls` (the dead letter of an undecodable message does not
fail). Two workers process two copies of an event, or reclaim one entry, at the
same time: `readds` is the run. `LettersApart` says that the App does not consume
the channels its own dead letters go to, as with the default suffix; an App that
does may hand a message to its handlers again. That breaks `CompletesOnce`; of
`LossBound` no counterexample is known, but the proof follows the one copy of an
event that there then is. `UnionsFixed` says that where two versions of a model
both have a union, it is the same one, and `LiteralsApart` (of `SchemaGateProofs`)
that a plain string is nowhere an enumeration in another version: the run `unions`
is the counterexample without the former, the narrowed string above without the
latter.

**Delivery: no loss.** `TypeOK` is not inductive alone: that the worker's message
is an entry of the stream needs `ServerOK` (delivered ids never pass the end of
the stream, pending ids are delivered ids) and `WorkerOK` (a worker holds only
delivered ids, has a message and a handler wherever it uses one, an error wherever
it reports one). For `NoLoss` the inductive invariant is `SafeInv`: `TypeInv`,
`NoLoss`, `KeysEarned` (a key exists only for a handler that returned, else a
skipped handler would count as done) and, for each worker, `Progress`: every
handler before the current one is `Over`, meaning it has settled the event *or*
the message is no longer pending. The second half is the point: `schedule_retry`
acknowledges the message early, and so may another worker who reclaimed it; from
then on this worker's XACK removes nothing, and it is the retried copy, or the
other worker, that keeps the event alive.

The argument has two layers. For each Redis command a lemma says how it affects
the liveness of any event (`...Keeps`): only XACK can end it, and only for the
entry it names. For each move of a worker's control a lemma says it establishes
`Progress`. `OverStays` carries `Over` across steps of other workers. The lemmas
`FindWorkSafe`, `AckSafe`, `DeadLetterSafe`, `HandlerSafe`, `OtherStepSafe` and
`EnvironmentSafe` combine them per action, `SafeInvStep` for a step of `Next`.

**Delivery: the ledger.** The invariant is `SafeInv` with `Originates` (what waits
for a retry was published once). First what each command does to the phase of an
event, then what each move settles, then one lemma per action: it opens, settles,
closes, reopens, or is a stutter. The proof showed what the ledger has to allow:
one MULTI of a scheduler whose members another worker has put back meanwhile
reopens several events in one step, so `Reopen` takes a set.

**Delivery by one worker.** `LoopKinds` sorts the steps of the loop by what they
do to the copies of events (it looks, acknowledges, works, asks, completes,
exchanges, fails), so that each invariant has seven cases and not twenty.

* `RepeatInv`: a handler has returned at most once per crash and failed call and
  once more, and that once more only while its key is set or about to be. With
  neither crash nor failed call this is `ExactlyOnce`.
* `SoloInv`: no two copies that can still deliver are of one event
  (`TokensApart`), because what the worker holds is still pending and what its
  scheduler fetched is still in the ZSET (`Holds`). `OneHandlerRuns` is one
  handler, or a second one whose mode raises before it starts: two handlers that
  fail on one message each put a copy back.
* `BudgetInv`: a copy of attempt a finds at most a - 1 starts that no crash or
  failed call has wasted, and one more once the worker is past the gate with it.
* `TriesInv`: of no copy is the attempt number ahead of the tries of a handler,
  unless the worker is on its way to that handler with a message of that event
  (`StillDue`). This is where two handlers of one event interact: the first one
  schedules the copy before the second has been asked. Were the worker to die in
  between, the second would lose a try: hence `NoFailures`. `NoFailures` also
  asks that the histories count up to the policies.
* `LineageInv`: every entry of a later attempt, and every member of the ZSET, can
  be given a pair of an entry and a handler of which it is the copy, no two the
  same pair, and none a pair of which a copy can still be made (`Open`). The
  proof carries this injection instead of a count: `schedule_retry` extends it by
  the pair it closes, the scheduler moves pairs from members to entries, every
  other step can only close pairs (`Thins`). It needs no bound on crashes or
  failed calls, because one pipeline adds the copy and acknowledges the message.
  `NumHandlers^(a - 1)` entries of attempt a follow by induction on a, for which
  the provers know nothing of `^`.
* `StartsInv`: the starts of a handler so far, and the copies of the event that may
  still start it (`Unstarted`), are together no more than the copies there are plus
  the crashes and failed calls: only those make a copy that has been used deliver
  again (`EndRevives`). `AttemptsOK`: no copy has more attempts than every policy,
  so each start is on a copy that counts.

**Memory.** `TypeInv` adds to the types what a loop holds at each point (`LoopOK`)
and that at most one observation is open besides those its cancellations left
(`Watched`, which is `Observed`). `SettledInv`: every handler matched before the
current one has settled the message, the current one has returned where its key is
about to be set, and keys are earned. `ClassInv`: the class a type decodes to is
that of the handler registered last. `CopyInv` follows the copies of an event: a
home channel holds it once, in its stream or in its loop, what a loop waits to
send is its letter or its emission, and nobody waits twice; `CountInv` and
`LossInv` count on top of it, the latter with one loss allowed in advance to a
loop that is being cancelled.

**Timing.** `TimingInv`: an attempt number counts the failures before it
(`Counted`), a due time lies exactly a delay after the failure (`Spaced`), and for
a waiting retry the polls to come are enough for those due before it (`InLine`).

**Schema gate.** The comparison stops at the first difference on a path; that it
nevertheless overlooks nothing is the core of it. `ReachesAll`: if no type is
reported as changed, the comparison has reached every path that both schemas have.
For of the paths at which types differ one is the shortest, the types above it
agree, so the comparison arrives there and reports it. (The induction over depth
is this choice of a shortest path, from the well-founded order of Nat: `Shortest`.)
By the same choice what only one schema has begins at a field whose object both
have, and is reported as removed or added (`OnlyInBegins`). So a check that passes
means that the new schema `Grows` from the old one (`PassesGrows`). Schemas say
nothing of what is below a union; `UnionsFixed` gives that what one hides the
other hides too, and that it is the same (`HiddenSame`), and with it the new
*model* `Extends` the old one (`GrowsExtends`). `Extends` is reflexive and
transitive. An extension reads what the extended model writes
(`ExtensionReads`), the other way round if no literal is added (`OldReadsNew`).

The invariant `GateInv` carries this over releases: the baseline, however old, is
of some class, from which the deployed one has grown (`Leads`) and which has grown
from all that were exported before it; if the file was always fresh, the deployed
class has grown from all that were released. An export makes the deployed class
the one in the middle, which takes transitivity.

**Only model-checked.** `Rests` and `Finishes`: liveness under fairness is out of
the prover's reach.

## 5. Plan

Built: `RedisGroup`, `EvoraDelivery`, `EventLedger`, `MemoryDelivery`,
`RetryTiming`, `SchemaGate`, and the theorems above. Left: two channels in
`EvoraDelivery`'s loop, and the scan limit of XAUTOCLAIM.

## 6. Not modelled

Telemetry back ends, loading of event classes, argument parsing and printing
are I/O. Encoding and the JSON schema of a class are pydantic's; the models say
what evora relies on. Of the schema tools, mappings, numeric constraints, tuples
and literals of a single value are left out. Examples and tests are read as
documentation.
