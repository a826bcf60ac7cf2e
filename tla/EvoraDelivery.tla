--------------------------- MODULE EvoraDelivery ---------------------------
(***************************************************************************)
(* How evora delivers one channel's events: worker processes, each running *)
(* RedisStreamsBroker.run_consumer with App._handle_message as its         *)
(* handler, against the Redis server of module RedisGroup.                 *)
(*                                                                         *)
(* A worker is one process with two tasks that interleave at every await:  *)
(* the consumer loop (pc, batch, msg, hi, err) and the retry scheduler     *)
(* (fetched).  Every Redis call is a step of its own, so any other task or *)
(* process may act between two calls, and a crash may fall between them.   *)
(* Where FaultCalls allows it, a call may also fail: it raises without     *)
(* having had an effect, or it raises after it had one (the reply is       *)
(* lost); OnRaise(w) says where the exception goes from each call.         *)
(***************************************************************************)
EXTENDS RedisGroup

CONSTANTS
  Workers,       \* processes running App.run() under one group
  Kind,          \* [Events -> {"event", "undecodable", "unmatched", "empty"}]
  MaxAttempts,   \* RetryPolicy.max_attempts of each handler
  Dlq,           \* handlers registered with dlq=True
  BadMode,       \* handlers whose idempotency mode is not "event_id"
  Raises,        \* types of the exceptions the handlers may raise
  PoisonMax,     \* poison_max_deliveries
  BatchSize,     \* batch_size of XREADGROUP
  ReclaimCount,  \* count of _reclaim_stuck
  HasAutoClaim,  \* does the server know XAUTOCLAIM (Redis 6.2)?
  KeysMayExpire, \* do the idempotency TTLs run out within the behaviour?
  FaultCalls,    \* the calls that may fail, by the pc they are made at
  MaxFaults,     \* bound: failed calls
  MaxCrashes,    \* bound: crashes of workers
  CountCap       \* bound: where the histories runs and done stop counting

ErrorTypes == {"ContractError", "FatalError", "RetryableError", "ValueError"}

ASSUME DeliveryAssumption ==
  /\ Kind \in [Events -> {"event", "undecodable", "unmatched", "empty"}]
  /\ MaxAttempts \in [Handlers -> Nat \ {0}]
  /\ Dlq \subseteq Handlers
  /\ BadMode \subseteq Handlers
  /\ Raises \subseteq ErrorTypes
  /\ PoisonMax \in Nat
  /\ BatchSize \in Nat \ {0} /\ ReclaimCount \in Nat \ {0}
  /\ HasAutoClaim \in BOOLEAN /\ KeysMayExpire \in BOOLEAN
  /\ MaxFaults \in Nat /\ MaxCrashes \in Nat /\ CountCap \in Nat \ {0}

VARIABLES
  pc,       \* what the consumer loop of each worker does next
  batch,    \* ids read or claimed and not yet processed (at "claim": listed)
  msg,      \* id of the message being processed, 0 for none
  hi,       \* position in App._handlers of the handler being run, 0 for none
  err,      \* type of the exception being handled, "none" for none
  fetched,  \* members the retry scheduler read and has yet to put back
  runs,     \* history: how often a handler was started for an event
  done,     \* history: how often it returned normally
  dropped,  \* history: <<handler, event>> given up without a dead letter
  crashes,  \* crashes so far
  faults    \* failed calls so far

localVars == <<pc, batch, msg, hi, err>>
historyVars == <<runs, done, dropped, crashes, faults>>
vars == <<redisVars, localVars, fetched, historyVars>>

\* Control points of the loop at which a Redis call is made ...
IdleCalls == {"autoclaim", "pending", "claim", "read"}
HandlerCalls == {"seen", "retry", "dlq", "mark", "rescue"}
MessageCalls == {"drop", "poison", "contract", "unmatched", "ack",
                 "brokerdlq", "finalack"}
Calls == IdleCalls \cup HandlerCalls \cup MessageCalls
\* ... and the two at which none is: the process is down, a handler runs.
PCs == Calls \cup {"down", "run"}

Members == [event : Events, attempt : Nat \ {0}, err : ErrorTypes]
Letters == [event : Events, handler : 0..NumHandlers,
            why : ErrorTypes \cup {"RedisError", "poison", "contract",
                                   "unmatched", "broker"}]

Init ==
  /\ RedisInit
  /\ pc = [w \in Workers |-> "down"]
  /\ batch = [w \in Workers |-> {}]
  /\ msg = [w \in Workers |-> 0]
  /\ hi = [w \in Workers |-> 0]
  /\ err = [w \in Workers |-> "none"]
  /\ fetched = [w \in Workers |-> {}]
  /\ runs = [x \in Handlers \X Events |-> 0]
  /\ done = [x \in Handlers \X Events |-> 0]
  /\ dropped = {}
  /\ crashes = 0
  /\ faults = 0

-----------------------------------------------------------------------------
(* The message a worker is processing.                                     *)

Event(w) == stream[msg[w]].event
Attempt(w) == stream[msg[w]].attempt
Key(w) == <<hi[w], Event(w)>>

Bump(count, x) ==
  [count EXCEPT ![x] = IF @ < CountCap THEN @ + 1 ELSE @]

\* App._classify_error
Category(error) ==
  CASE error = "ContractError" -> "contract"
    [] error = "FatalError" -> "fatal"
    [] error = "RetryableError" -> "retryable"
    [] OTHER -> "unknown"

\* Seeded bugs: the last attempt is not used; one more is allowed.
CanRetryOneLess(w, error) ==
  /\ Category(error) \in {"retryable", "unknown"}
  /\ Attempt(w) + 1 < MaxAttempts[hi[w]]
CanRetryOneMore(w, error) ==
  /\ Category(error) \in {"retryable", "unknown"}
  /\ Attempt(w) <= MaxAttempts[hi[w]]

CanRetry(w, error) ==
  /\ Category(error) \in {"retryable", "unknown"}
  /\ Attempt(w) < MaxAttempts[hi[w]]

\* Seeded bug: the attempt number is not incremented.
RetryMemberSameAttempt(w) ==
  [event |-> Event(w), attempt |-> Attempt(w), err |-> err[w]]

\* The JSON member of the ZSET: the message with its next attempt number.
RetryMember(w) ==
  [event |-> Event(w), attempt |-> Attempt(w) + 1, err |-> err[w]]

\* Seeded bugs: the gate is only asked on a first attempt; it is not scoped to
\* the handler.
AlreadySeenFirstAttempt(w) == Attempt(w) = 1 /\ Key(w) \in keys
AlreadySeenAnyHandler(w) == \E h \in Handlers : <<h, Event(w)>> \in keys

AlreadySeen(w) == Key(w) \in keys

Letter(w, handler, why) ==
  [event |-> Event(w), handler |-> handler, why |-> why]

\* Seeded bug: a handler with an unsupported mode ends the message quietly.
HandlerPCAcks(h) == IF h \in BadMode THEN "ack" ELSE "seen"

\* Where processing of handler h starts: an unsupported mode raises before
\* the try, so the exception reaches the broker.
HandlerPC(h) == IF h \in BadMode THEN "brokerdlq" ELSE "seen"

\* _process_one compares the attempt number the entry carries.
Poisoned(id) == stream[id].attempt > PoisonMax

\* Where processing of entry id starts: _decode_entry drops an entry without
\* a value, _process_one checks the attempt, _handle_message the payload.
EntryPC(id) ==
  LET kind == Kind[stream[id].event]
  IN  CASE kind = "empty" -> "drop"
        [] kind # "empty" /\ Poisoned(id) -> "poison"
        [] kind = "undecodable" /\ ~Poisoned(id) -> "contract"
        [] kind = "unmatched" /\ ~Poisoned(id) -> "unmatched"
        [] kind = "event" /\ ~Poisoned(id) -> HandlerPC(1)

-----------------------------------------------------------------------------
(* Moves of the consumer loop's control.                                   *)

Goto(w, label) ==
  /\ pc' = [pc EXCEPT ![w] = label]
  /\ UNCHANGED <<batch, msg, hi, err>>

\* Process the entries in S, in id order; with none left, reclaim again.
Process(w, S) ==
  /\ err' = [err EXCEPT ![w] = "none"]
  /\ \/ /\ S = {}
        /\ pc' = [pc EXCEPT ![w] = "autoclaim"]
        /\ batch' = [batch EXCEPT ![w] = {}]
        /\ msg' = [msg EXCEPT ![w] = 0]
        /\ hi' = [hi EXCEPT ![w] = 0]
     \/ \E id \in S :
          /\ \A other \in S : id <= other
          /\ pc' = [pc EXCEPT ![w] = EntryPC(id)]
          /\ batch' = [batch EXCEPT ![w] = S \ {id}]
          /\ msg' = [msg EXCEPT ![w] = id]
          /\ hi' = [hi EXCEPT ![w] = 1]

\* Seeded bugs: the loop over the handlers ends one too early, one too late.
NextHandlerStopsEarly(w) ==
  /\ err' = [err EXCEPT ![w] = "none"]
  /\ pc' = [pc EXCEPT ![w] = "ack"]
  /\ UNCHANGED <<batch, msg, hi>>

NextHandlerPastEnd(w) ==
  /\ err' = [err EXCEPT ![w] = "none"]
  /\ UNCHANGED <<batch, msg>>
  /\ IF hi[w] <= NumHandlers
     THEN /\ hi' = [hi EXCEPT ![w] = @ + 1]
          /\ pc' = [pc EXCEPT ![w] = HandlerPC(hi[w] + 1)]
     ELSE /\ pc' = [pc EXCEPT ![w] = "ack"]
          /\ UNCHANGED hi

\* On to the next handler in registration order; after the last, XACK.
NextHandler(w) ==
  /\ err' = [err EXCEPT ![w] = "none"]
  /\ UNCHANGED <<batch, msg>>
  /\ IF hi[w] < NumHandlers
     THEN /\ hi' = [hi EXCEPT ![w] = @ + 1]
          /\ pc' = [pc EXCEPT ![w] = HandlerPC(hi[w] + 1)]
     ELSE /\ pc' = [pc EXCEPT ![w] = "ack"]
          /\ UNCHANGED hi

\* Seeded bug: the error is neither dead-lettered nor recorded.
GiveUpSilently(w, label, error) == NextHandler(w) /\ UNCHANGED dropped

\* An error no retry is left for (or allowed): dead-letter it or drop it.
GiveUp(w, label, error) ==
  IF hi[w] \in Dlq
  THEN /\ pc' = [pc EXCEPT ![w] = label]
       /\ err' = [err EXCEPT ![w] = error]
       /\ UNCHANGED <<batch, msg, hi, dropped>>
  ELSE /\ dropped' = dropped \cup {Key(w)}
       /\ NextHandler(w)

\* The process ends, its two tasks and what they held in memory with it.
Die(w) ==
  /\ pc' = [pc EXCEPT ![w] = "down"]
  /\ batch' = [batch EXCEPT ![w] = {}]
  /\ msg' = [msg EXCEPT ![w] = 0]
  /\ hi' = [hi EXCEPT ![w] = 0]
  /\ err' = [err EXCEPT ![w] = "none"]
  /\ fetched' = [fetched EXCEPT ![w] = {}]

\* Where an exception raised by the call at pc[w] goes.
OnRaise(w) ==
  \* the outer "except Exception" of the handler loop
  \/ /\ pc[w] \in HandlerCalls \ {"rescue"}
     /\ GiveUp(w, "rescue", "RedisError")
     /\ UNCHANGED fetched
  \* the "except Exception" of _process_one
  \/ /\ pc[w] \in {"rescue", "unmatched", "ack"}
     /\ Goto(w, "brokerdlq")
     /\ UNCHANGED <<fetched, dropped>>
  \* "finally: return" swallows it: the handler returns normally
  \/ /\ pc[w] = "contract"
     /\ Goto(w, "ack")
     /\ UNCHANGED <<fetched, dropped>>
  \* the "except Exception: pass" of _reclaim_stuck
  \/ /\ pc[w] = "autoclaim"
     /\ Goto(w, "pending")
     /\ UNCHANGED <<fetched, dropped>>
  \* uncaught: the task group cancels the scheduler and run() raises
  \/ /\ pc[w] \in {"pending", "claim", "read", "drop", "poison",
                   "brokerdlq", "finalack"}
     /\ Die(w)
     /\ UNCHANGED dropped

\* The call at pc[w] fails, by the fault budget.
Raised(w) ==
  /\ pc[w] \in FaultCalls
  /\ faults < MaxFaults
  /\ faults' = faults + 1
  /\ OnRaise(w)

\* The step returned: nothing but the loop's control moves.
Returned == UNCHANGED <<fetched, dropped, faults>>

\* A call that has its effect: it returns and the loop moves on, or its reply
\* is lost and it raises.
Outcome(w, move) == (move /\ Returned) \/ Raised(w)

-----------------------------------------------------------------------------
(* The consumer loop: find work.                                           *)

\* run_consumer: _ensure_group, then both tasks start.
Start(w) ==
  /\ pc[w] = "down"
  /\ XGroupCreate
  /\ Goto(w, "autoclaim")
  /\ Returned
  /\ UNCHANGED <<runs, done, crashes>>

\* Seeded bug: the loop claims entries and goes on to read new ones.
ClaimedForgotten(w, S) ==
  /\ pc' = [pc EXCEPT ![w] = "read"]
  /\ batch' = [batch EXCEPT ![w] = {}]
  /\ UNCHANGED <<msg, hi, err>>

\* Reclaimed entries are processed before any new one is read.
Claimed(w, S) ==
  IF S = {}
  THEN /\ pc' = [pc EXCEPT ![w] = "read"]
       /\ batch' = [batch EXCEPT ![w] = {}]
       /\ UNCHANGED <<msg, hi, err>>
  ELSE Process(w, S)

AutoClaim(w) ==
  /\ pc[w] = "autoclaim" /\ HasAutoClaim
  /\ LET S == FirstOf(ReclaimCount, idle)
     IN  /\ XClaim(S)
         /\ Outcome(w, Claimed(w, S))

\* A server without XAUTOCLAIM answers with an error: on to the fallback.
NoAutoClaim(w) ==
  /\ pc[w] = "autoclaim" /\ ~HasAutoClaim
  /\ OnRaise(w)
  /\ UNCHANGED <<redisVars, faults>>

\* XPENDING lists the first entries, idle or not; the idle ones are kept.
ListPending(w) ==
  /\ pc[w] = "pending"
  /\ LET ids == FirstOf(ReclaimCount, pel) \cap idle
     IN  IF ids = {}
         THEN Goto(w, "read")
         ELSE /\ pc' = [pc EXCEPT ![w] = "claim"]
              /\ batch' = [batch EXCEPT ![w] = ids]
              /\ UNCHANGED <<msg, hi, err>>
  /\ Returned
  /\ UNCHANGED redisVars

\* XCLAIM takes those of the listed entries that are still idle.
ClaimListed(w) ==
  /\ pc[w] = "claim"
  /\ LET S == batch[w] \cap idle
     IN  /\ XClaim(S)
         /\ Outcome(w, Claimed(w, S))

ReadNew(w) ==
  /\ pc[w] = "read"
  /\ LET left == Len(stream) - last
         n == IF left < BatchSize THEN left ELSE BatchSize
     IN  /\ XReadGroup(n)
         /\ Outcome(w, Process(w, (last + 1)..(last + n)))

-----------------------------------------------------------------------------
(* The consumer loop: one message, from _decode_entry to its XACK.         *)

Drop(w) ==
  /\ pc[w] = "drop"
  /\ XAck(msg[w])
  /\ Outcome(w, Process(w, batch[w]))

\* Too many attempts: dead-letter, then acknowledge, without a handler.
Poison(w) ==
  /\ pc[w] = "poison"
  /\ DlqAdd(Letter(w, 0, "poison"))
  /\ Outcome(w, Goto(w, "finalack"))

\* Undecodable envelope or event: raw bytes to the channel's DLQ.
Contract(w) ==
  /\ pc[w] = "contract"
  /\ DlqAdd(Letter(w, 0, "contract"))
  /\ Outcome(w, Goto(w, "ack"))

Unmatched(w) ==
  /\ pc[w] = "unmatched"
  /\ DlqAdd(Letter(w, 0, "unmatched"))
  /\ Outcome(w, Goto(w, "ack"))

\* idempotency_store.seen; when it says no, the handler starts at once.
Seen(w) ==
  /\ pc[w] = "seen"
  /\ IF AlreadySeen(w)
     THEN NextHandler(w) /\ UNCHANGED runs
     ELSE Goto(w, "run") /\ runs' = Bump(runs, Key(w))
  /\ Returned
  /\ UNCHANGED redisVars

\* The handler returns.
HandlerReturns(w) ==
  /\ pc[w] = "run"
  /\ done' = Bump(done, Key(w))
  /\ Goto(w, "mark")
  /\ Returned
  /\ UNCHANGED redisVars

\* The handler raises: schedule a retry, or give up.
HandlerRaises(w) ==
  /\ pc[w] = "run"
  /\ \E error \in Raises :
       IF CanRetry(w, error)
       THEN /\ pc' = [pc EXCEPT ![w] = "retry"]
            /\ err' = [err EXCEPT ![w] = error]
            /\ UNCHANGED <<batch, msg, hi, dropped>>
       ELSE GiveUp(w, "dlq", error)
  /\ UNCHANGED <<redisVars, fetched, faults>>

\* schedule_retry acknowledges the message; the later handlers still run.
ScheduleRetry(w) ==
  /\ pc[w] = "retry"
  /\ ZAddAndAck(RetryMember(w), msg[w])
  /\ Outcome(w, NextHandler(w))

\* _send_dlq, from the inner ("dlq") or the outer ("rescue") except.
SendDlq(w) ==
  /\ pc[w] \in {"dlq", "rescue"}
  /\ DlqAdd(Letter(w, hi[w], err[w]))
  /\ Outcome(w, NextHandler(w))

MarkSeen(w) ==
  /\ pc[w] = "mark"
  /\ SetKey(Key(w))
  /\ Outcome(w, NextHandler(w))

\* The handler returned to _process_one.
Ack(w) ==
  /\ pc[w] = "ack"
  /\ XAck(msg[w])
  /\ Outcome(w, Process(w, batch[w]))

\* The handler, or the XACK after it, raised: broker_handler_exception.
BrokerDlq(w) ==
  /\ pc[w] = "brokerdlq"
  /\ DlqAdd(Letter(w, 0, "broker"))
  /\ Outcome(w, Goto(w, "finalack"))

\* The XACK that follows a dead letter of the broker.
FinalAck(w) ==
  /\ pc[w] = "finalack"
  /\ XAck(msg[w])
  /\ Outcome(w, Process(w, batch[w]))

\* The call fails without reaching the server.
CallLost(w) ==
  /\ pc[w] \in Calls
  /\ Raised(w)
  /\ UNCHANGED redisVars

FindWork(w) ==
  AutoClaim(w) \/ NoAutoClaim(w) \/ ListPending(w) \/ ClaimListed(w) \/ ReadNew(w)

HandleMessage(w) ==
  \/ Drop(w) \/ Poison(w) \/ Contract(w) \/ Unmatched(w)
  \/ HandlerRaises(w) \/ ScheduleRetry(w) \/ SendDlq(w) \/ MarkSeen(w)
  \/ Ack(w) \/ BrokerDlq(w) \/ FinalAck(w)

Loop(w) ==
  \/ FindWork(w) /\ UNCHANGED <<runs, done, crashes>>
  \/ HandleMessage(w) /\ UNCHANGED <<runs, done, crashes>>
  \/ Seen(w) /\ UNCHANGED <<done, crashes>>
  \/ HandlerReturns(w) /\ UNCHANGED <<runs, crashes>>
  \/ CallLost(w) /\ UNCHANGED <<runs, done, crashes>>

-----------------------------------------------------------------------------
(* The retry scheduler, a crash, a publisher and time.                     *)

\* ZRANGEBYSCORE -inf now.
Poll(w) ==
  /\ pc[w] # "down" /\ fetched[w] = {} /\ due # {}
  /\ fetched' = [fetched EXCEPT ![w] = due]
  /\ UNCHANGED <<redisVars, localVars, historyVars>>

\* One MULTI puts every fetched member back, whatever happened to it since.
Requeue(w) ==
  /\ fetched[w] # {}
  /\ \E s \in Orders(fetched[w]) : AddAndZRem(s)
  /\ fetched' = [fetched EXCEPT ![w] = {}]
  /\ UNCHANGED <<localVars, historyVars>>

\* A call of the scheduler fails (a lost reply of its MULTI is Requeue and then
\* this): the task group cancels the loop as well.  A cancellation that arrives
\* in the dead letter of an undecodable message is swallowed by "finally:
\* return", and the XACK that follows is sent before the next one arrives.
SchedulerFails(w) ==
  /\ pc[w] # "down"
  /\ "scheduler" \in FaultCalls /\ faults < MaxFaults
  /\ faults' = faults + 1
  /\ Die(w)
  /\ \/ UNCHANGED redisVars
     \/ pc[w] = "contract" /\ "contract" \in FaultCalls /\ XAck(msg[w])
  /\ UNCHANGED <<runs, done, dropped, crashes>>

Scheduler(w) == Poll(w) \/ Requeue(w) \/ SchedulerFails(w)

Crash(w) ==
  /\ pc[w] # "down"
  /\ crashes < MaxCrashes
  /\ crashes' = crashes + 1
  /\ Die(w)
  /\ UNCHANGED <<redisVars, runs, done, dropped, faults>>

\* App.publish: broker.publish of a first attempt.
Publish(e) ==
  /\ \A id \in Ids : stream[id].event # e
  /\ XAdd([event |-> e, attempt |-> 1])
  /\ UNCHANGED <<localVars, fetched, historyVars>>

Idles(id) == GoIdle(id) /\ UNCHANGED <<localVars, fetched, historyVars>>
FallsDue(m) == BecomeDue(m) /\ UNCHANGED <<localVars, fetched, historyVars>>
Expires(key) ==
  KeysMayExpire /\ Expire(key) /\ UNCHANGED <<localVars, fetched, historyVars>>

Tick ==
  \/ \E id \in pel : Idles(id)
  \/ \E m \in retryz : FallsDue(m)
  \/ \E key \in keys : Expires(key)

Next ==
  \/ \E w \in Workers : Start(w) \/ Loop(w) \/ Scheduler(w) \/ Crash(w)
  \/ \E e \in Events : Publish(e)
  \/ Tick

Spec == Init /\ [][Next]_vars

\* What the operating system and the deployment owe a live system: a worker
\* that can step does, a worker that is down is started again, time passes.
Fairness ==
  /\ \A w \in Workers : WF_vars(Start(w)) /\ WF_vars(Loop(w))
                        /\ WF_vars(Poll(w)) /\ WF_vars(Requeue(w))
  /\ \A id \in 1..MaxEntries : WF_vars(Idles(id))
  /\ \A m \in [event : Events, attempt : 1..MaxEntries, err : Raises] :
       WF_vars(FallsDue(m))

FairSpec == Spec /\ Fairness

-----------------------------------------------------------------------------
(* Properties.                                                             *)

\* The variables hold values of the types the code gives them.
TypeOK ==
  /\ stream \in Seq([event : Events, attempt : Nat \ {0}])
  /\ group \in BOOLEAN
  /\ origin \in Nat /\ last \in Nat
  /\ pel \subseteq Nat \ {0} /\ idle \subseteq Nat \ {0}
  /\ retryz \subseteq Members /\ due \subseteq Members
  /\ keys \subseteq Handlers \X Events
  /\ dlq \subseteq Letters
  /\ pc \in [Workers -> PCs]
  /\ batch \in [Workers -> SUBSET (Nat \ {0})]
  /\ msg \in [Workers -> Nat]
  /\ hi \in [Workers -> 0..NumHandlers]
  /\ err \in [Workers -> ErrorTypes \cup {"RedisError", "none"}]
  /\ fetched \in [Workers -> SUBSET Members]
  /\ runs \in [Handlers \X Events -> 0..CountCap]
  /\ done \in [Handlers \X Events -> 0..CountCap]
  /\ dropped \subseteq Handlers \X Events
  /\ crashes \in Nat /\ faults \in Nat

\* Handler h has dealt with e: it returned, its failure (or the message) was
\* dead-lettered, or its dlq=False policy gave the event up.
Settled(h, e) ==
  \/ done[<<h, e>>] > 0
  \/ \E letter \in dlq : letter.event = e /\ letter.handler \in {0, h}
  \/ <<h, e>> \in dropped

Accounted(e) == Kind[e] = "empty" \/ \A h \in Handlers : Settled(h, e)

Quiet(e) == Accepted(e) /\ ~Live(e)

\* At-least-once: an event the group accepted is still in Redis to be
\* delivered, or every handler has dealt with it.  At stake: XACK by
\* schedule_retry before the later handlers ran, two workers on one entry, a
\* crash between any two calls of _process_one and _handle_message.
NoLoss == \A e \in Events : Accepted(e) => Live(e) \/ Accounted(e)

\* No worker is about to acknowledge a message that is still pending while a
\* handler has not dealt with its event.
AckEarned ==
  \A w \in Workers :
    pc[w] \in {"ack", "finalack"} /\ msg[w] \in pel => Accounted(Event(w))

\* "Exactly-once processing": no handler returns normally twice for an event
\* (App._handle_message's seen / fn / mark_seen).
ExactlyOnce == \A h \in Handlers, e \in Events : done[<<h, e>>] <= 1

\* One worker and one handler that runs: attempts and poison_max_deliveries
\* bound how often it starts, and only a crash or a failed call adds a start.
RunBudget ==
  \A h \in Handlers, e \in Events :
    runs[<<h, e>>] <= crashes + faults + (IF MaxAttempts[h] < PoisonMax
                                          THEN MaxAttempts[h] ELSE PoisonMax)

\* The tokens that can make an event be processed again.
Tokens(e) ==
  Cardinality({id \in Ids : stream[id].event = e /\ (id > last \/ id \in pel)})
  + Cardinality({m \in retryz : m.event = e})

\* One worker and one handler that runs: the atomic pipelines of schedule_retry
\* and of the scheduler move an event between the stream and the ZSET, and
\* never leave it in two places, whatever crashes or fails.
SingleToken == \A e \in Events : Tokens(e) <= 1

Copies(entry) == Cardinality({id \in Ids : stream[id] = entry})

\* One worker: schedule_retry acknowledges the message with the ZADD, so it is
\* not delivered again, and each handler puts at most one copy of it back.  An
\* event has at most NumHandlers times as many entries of an attempt as of the
\* one before, though the scheduler may run between two handlers' retries, and
\* the process may stop, or a reply be lost, between any two steps.
Amplification ==
  \A id \in Ids :
    LET x == stream[id]
    IN  Copies(x) <= IF x.attempt = 1 THEN 1
                     ELSE NumHandlers * Copies([x EXCEPT !.attempt = @ - 1])

\* A copy that the policy of some handler and the poison limit allow.
Allows(entry) ==
  /\ entry.attempt <= PoisonMax
  /\ \E h \in Handlers : entry.attempt <= MaxAttempts[h]

\* One worker: max_attempts does not bound how often a handler starts for an
\* event, since each failing handler puts a copy back and every copy runs them
\* all.  What bounds it is the copies: a handler starts at most once for each,
\* no copy has more attempts than some policy and poison_max_deliveries allow,
\* and only a crash or a failed call adds a start.  With Amplification, two
\* handlers of three attempts start at most 1 + 2 + 4 times each.
CopyBudget ==
  \A h \in Handlers, e \in Events :
    runs[<<h, e>>] <= crashes + faults
      + Cardinality({id \in Ids : stream[id].event = e /\ Allows(stream[id])})

\* A handler whose retryable failure is dead-lettered was started as often as
\* its RetryPolicy promises: an attempt number other handlers share does not
\* cost it a try.
FullRetries ==
  \A letter \in dlq :
    letter.handler # 0 /\ Category(letter.why) = "retryable"
      => runs[<<letter.handler, letter.event>>] >= MaxAttempts[letter.handler]

\* Once nothing in Redis can deliver an accepted event, only what a worker
\* read before that can bring it back: a message it still processes though it
\* is no longer pending, which it schedules for a retry, or a member its
\* scheduler fetched though it is no longer in the ZSET.
OnlyStaleReadsReopen ==
  [][\A e \in Events : Quiet(e) /\ Live(e)' =>
       \E w \in Workers :
         \/ pc[w] = "retry" /\ Event(w) = e /\ msg[w] \notin pel
         \/ \E m \in fetched[w] \ retryz : m.event = e]_vars

\* "Permanent failure; do not retry": no handler runs for an event on which it
\* already raised a FatalError that was dead-lettered.
FatalNotRetried ==
  \A w \in Workers :
    pc[w] = "run" =>
      [event |-> Event(w), handler |-> hi[w], why |-> "FatalError"] \notin dlq

\* "After 10 deliveries -> DLQ": a message that no handler ever fails on, and
\* that has one entry, starts a handler at most once per allowed delivery.
DeliveryLimit ==
  \A h \in Handlers, e \in Events : runs[<<h, e>>] <= PoisonMax

\* Every accepted event comes to rest, with every handler accounted for:
\* retries, redeliveries, duplicates and restarts end.
Rests == \A e \in Events : Accepted(e) ~> [](Quiet(e) /\ Accounted(e))

-----------------------------------------------------------------------------
(* The inductive invariant NoLoss rests on.                                *)

\* What the server's parts have to do with each other.
ServerOK ==
  /\ origin <= last /\ last <= Len(stream)
  /\ pel \subseteq 1..last /\ idle \subseteq pel
  /\ IsFiniteSet(retryz) /\ due \subseteq retryz

MessagePCs == HandlerCalls \cup MessageCalls \cup {"run"}

\* What a worker holds at each point of its control.
WorkerOK(w) ==
  /\ batch[w] \subseteq 1..last /\ msg[w] \in 0..last
  /\ pc[w] \in MessagePCs => msg[w] # 0 /\ hi[w] # 0
  /\ pc[w] = "retry" => err[w] \in ErrorTypes
  /\ pc[w] \in {"dlq", "rescue"} => err[w] # "none"
  /\ IsFiniteSet(fetched[w])

\* Handler h needs nothing more of the message worker w is processing.
Over(h, w) == Settled(h, Event(w)) \/ msg[w] \notin pel

\* How far a worker is with its message.
Progress(w) ==
  /\ pc[w] = "drop" => Kind[Event(w)] = "empty"
  /\ pc[w] \in HandlerCalls \cup {"run"} =>
       \A h \in Handlers : h < hi[w] => Over(h, w)
  /\ pc[w] = "mark" => done[Key(w)] > 0
  /\ pc[w] \in {"ack", "finalack"} =>
       Kind[Event(w)] = "empty" \/ \A h \in Handlers : Over(h, w)

\* A key is set only for a handler that returned.
KeysEarned == \A key \in keys : done[key] > 0

TypeInv == TypeOK /\ ServerOK /\ \A w \in Workers : WorkerOK(w)
SafeInv == TypeInv /\ (\A w \in Workers : Progress(w)) /\ KeysEarned /\ NoLoss

=============================================================================
