---------------------------- MODULE RetryTiming ----------------------------
(***************************************************************************)
(* When a failed handler runs again.  Durable retries wait in the ZSET that*)
(* RedisStreamsBroker.schedule_retry fills and retry_scheduler empties, at *)
(* most num members per poll; local ones sleep inside runtime.with_retries.*)
(* A durable task here is one chain of copies, from a delivery of the event*)
(* through the retries one handler schedules.  The copies other handlers of*)
(* the event schedule, and redelivery, are EvoraDelivery's matter: they add*)
(* tasks, and leave the times of this one alone.                           *)
(* Time is a counter of milliseconds at any scale; the calls take none of  *)
(* it, and a scheduler that is due polls before time goes on.              *)
(***************************************************************************)
EXTENDS Naturals, FiniteSets

CONSTANTS
  Tasks,        \* handler runs that may fail and be retried
  Strategy,     \* of each: "durable", or RetryPolicy.strategy of a local one
  Base,         \* RedisStreamsBroker.base_delay_ms
  MaxDelay,     \* RedisStreamsBroker.max_delay_ms
  PolicyBase,   \* RetryPolicy.base_delay_ms
  PolicyMax,    \* RetryPolicy.max_delay_ms
  Jitter,       \* RetryPolicy.jitter
  MaxAttempts,  \* max_attempts
  PollEvery,    \* the scheduler's sleep (500 ms)
  BatchLimit,   \* num of ZRANGEBYSCORE (100)
  Skew,         \* how far the clocks of two workers differ
  Horizon       \* bound: the last moment looked at

ASSUME TimingAssumption ==
  /\ IsFiniteSet(Tasks)
  /\ Strategy \in [Tasks -> {"durable", "none", "fixed", "exponential"}]
  /\ Base \in Nat /\ MaxDelay \in Nat
  /\ PolicyBase \in Nat /\ PolicyMax \in Nat /\ Jitter \in BOOLEAN
  /\ MaxAttempts \in Nat \ {0}
  /\ PollEvery \in Nat \ {0} /\ BatchLimit \in Nat \ {0}
  /\ Skew \in Nat /\ Horizon \in Nat

Durable == {t \in Tasks : Strategy[t] = "durable"}

VARIABLES
  now,      \* the clock of the worker that schedules
  wake,     \* when the scheduler polls next
  where,    \* of each task: it may "run", waits, or is "over"
  attempt,  \* number of its next or current attempt
  due,      \* when its wait ends: the score, or the end of the sleep
  failed,   \* history: when it last failed
  fails     \* history: how often it has failed

vars == <<now, wake, where, attempt, due, failed, fails>>

Init ==
  /\ now = 0 /\ wake = PollEvery
  /\ where = [t \in Tasks |-> "run"]
  /\ attempt = [t \in Tasks |-> 1]
  /\ due = [t \in Tasks |-> 0]
  /\ failed = [t \in Tasks |-> 0]
  /\ fails = [t \in Tasks |-> 0]

-----------------------------------------------------------------------------
Capped(delay, max) == IF delay < max THEN delay ELSE max

\* redis_streams._compute_delay_ms
Delay(n) == Capped(Base * 2 ^ (n - 1), MaxDelay)

\* Seeded bug: the cap is left out.
PlainDelayUncapped(strategy, n) ==
  CASE strategy = "none" -> 0
    [] strategy = "fixed" -> PolicyBase
    [] strategy = "exponential" -> PolicyBase * 2 ^ (n - 1)

\* runtime._compute_delay_ms without its jitter.
PlainDelay(strategy, n) ==
  CASE strategy = "none" -> 0
    [] strategy = "fixed" -> Capped(PolicyBase, PolicyMax)
    [] strategy = "exponential" -> Capped(PolicyBase * 2 ^ (n - 1), PolicyMax)

\* ... and with it: 70% to 130% of the capped delay.
LocalDelays(strategy, n) ==
  LET d == PlainDelay(strategy, n)
  IN  IF Jitter THEN (7 * d) \div 10 .. (13 * d) \div 10 ELSE {d}

-----------------------------------------------------------------------------
Succeed(t) ==
  /\ where[t] = "run"
  /\ where' = [where EXCEPT ![t] = "over"]
  /\ UNCHANGED <<now, wake, attempt, due, failed, fails>>

\* The last attempt fails: a dead letter, or the exception propagates.
Exhaust(t) ==
  /\ where[t] = "run" /\ attempt[t] >= MaxAttempts
  /\ where' = [where EXCEPT ![t] = "over"]
  /\ fails' = [fails EXCEPT ![t] = @ + 1]
  /\ UNCHANGED <<now, wake, attempt, due, failed>>

\* Seeded bug: the attempt number is not carried into the retry.
NextAttemptSame(t) == attempt[t]

NextAttempt(t) == attempt[t] + 1

Wait(t, delay) ==
  /\ where' = [where EXCEPT ![t] = "waits"]
  /\ attempt' = [attempt EXCEPT ![t] = NextAttempt(t)]
  /\ due' = [due EXCEPT ![t] = now + delay]
  /\ failed' = [failed EXCEPT ![t] = now]
  /\ fails' = [fails EXCEPT ![t] = @ + 1]
  /\ UNCHANGED <<now, wake>>

\* schedule_retry, called for attempt < max_attempts: the delay is that of the
\* attempt that failed.
ScheduleRetry(t) ==
  /\ t \in Durable /\ where[t] = "run" /\ attempt[t] < MaxAttempts
  /\ Wait(t, Delay(attempt[t]))

\* with_retries: the attempt is incremented first, so the delay is that of the
\* next attempt.
Sleep(t) ==
  /\ t \notin Durable /\ where[t] = "run" /\ attempt[t] < MaxAttempts
  /\ \E delay \in LocalDelays(Strategy[t], attempt[t] + 1) : Wait(t, delay)

Awake(t) ==
  /\ t \notin Durable /\ where[t] = "waits" /\ due[t] <= now
  /\ where' = [where EXCEPT ![t] = "run"]
  /\ UNCHANGED <<now, wake, attempt, due, failed, fails>>

DueBy(time) == {t \in Durable : where[t] = "waits" /\ due[t] <= time}

\* Seeded bug: the members with the highest scores come first.
FirstDueLatest(S, time) ==
  /\ S \subseteq DueBy(time)
  /\ Cardinality(S) <= BatchLimit
  /\ DueBy(time) # S => Cardinality(S) = BatchLimit
  /\ \A t \in S, u \in DueBy(time) \ S : due[t] >= due[u]

\* ZRANGEBYSCORE -inf time LIMIT 0 num: the first members in order of score.
FirstDue(S, time) ==
  /\ S \subseteq DueBy(time)
  /\ Cardinality(S) <= BatchLimit
  /\ DueBy(time) # S => Cardinality(S) = BatchLimit
  /\ \A t \in S, u \in DueBy(time) \ S : due[t] <= due[u]

\* A poll of retry_scheduler, by a worker whose clock may differ.
Poll ==
  /\ now = wake
  /\ \E time \in now - (IF Skew < now THEN Skew ELSE now) .. now + Skew :
       \E S \in SUBSET Durable :
         /\ FirstDue(S, time)
         /\ where' = [t \in Tasks |-> IF t \in S THEN "run" ELSE where[t]]
  /\ wake' = now + PollEvery
  /\ UNCHANGED <<now, attempt, due, failed, fails>>

Tick ==
  /\ now < wake /\ now < Horizon
  /\ \A t \in Tasks \ Durable : where[t] = "waits" => now < due[t]
  /\ now' = now + 1
  /\ UNCHANGED <<wake, where, attempt, due, failed, fails>>

Next ==
  \/ \E t \in Tasks :
       Succeed(t) \/ Exhaust(t) \/ ScheduleRetry(t) \/ Sleep(t) \/ Awake(t)
  \/ Poll \/ Tick

Spec == Init /\ [][Next]_vars

-----------------------------------------------------------------------------
(* Properties.                                                             *)

\* A durable retry does not run before the documented delay has passed since
\* the failure, base_delay * 2^(n-1) after the nth one up to the cap, but for
\* the difference of the clocks that computed the score and that polled.
BacksOff ==
  [][\A t \in Durable :
       where[t] = "waits" /\ where'[t] = "run"
         => now + Skew >= failed[t] + Delay(fails[t])]_vars

\* However many retries fall due at once, none stays behind: one poll for each
\* BatchLimit of them, whatever is scheduled meanwhile.
Polls == (Cardinality(Durable) + BatchLimit - 1) \div BatchLimit
NotLate ==
  \A t \in Durable :
    where[t] = "waits" => now <= due[t] + Skew + PollEvery * Polls

\* A local retry waits at most 130% of max_delay_ms: the cap is applied to the
\* growing delay before the jitter is.
WaitBound ==
  \A t \in Tasks \ Durable :
    where[t] = "waits" => due[t] - failed[t] <= (13 * PolicyMax) \div 10

=============================================================================
