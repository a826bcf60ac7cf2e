------------------------- MODULE RetryTimingProofs -------------------------
(***************************************************************************)
(* Theorems about RetryTiming, for any tasks, policies, polling interval,  *)
(* batch limit and difference of the clocks, and without a horizon.        *)
(***************************************************************************)
EXTENDS RetryTiming, FiniteSetTheorems, TLAPS

-----------------------------------------------------------------------------
(* Arithmetic.                                                             *)

\* Powers of two are natural numbers: the sizes of the power sets of 1..n.
LEMMA PowerType ==
  ASSUME NEW n \in Nat
  PROVE  2 ^ n \in Nat
<1>1. IsFiniteSet(1..n) /\ Cardinality(1..n) = n
  BY FS_Interval
<1>2. IsFiniteSet(SUBSET (1..n)) /\ Cardinality(SUBSET (1..n)) = 2 ^ n
  BY <1>1, FS_SUBSET
<1> QED
  BY <1>2, FS_CardinalityType

LEMMA ProductType ==
  ASSUME NEW a \in Nat, NEW b \in Nat
  PROVE  a * b \in Nat
OBVIOUS

LEMMA DelayType ==
  ASSUME NEW n \in Nat \ {0}
  PROVE  Delay(n) \in Nat /\ Delay(n) <= MaxDelay
<1>1. 2 ^ (n - 1) \in Nat
  BY PowerType
<1>2. Base * 2 ^ (n - 1) \in Nat
  BY <1>1, ProductType, TimingAssumption
<1> QED
  BY <1>2, TimingAssumption DEF Delay, Capped

LEMMA Division ==
  ASSUME NEW x \in Nat, NEW b \in Nat \ {0}
  PROVE  x \div b \in Nat /\ x < b * ((x \div b) + 1)
OBVIOUS

LEMMA Step ==
  ASSUME NEW p \in Nat, NEW k \in Nat
  PROVE  p * (k + 1) = p * k + p /\ p * k \in Nat
OBVIOUS

-----------------------------------------------------------------------------
(* The inductive invariant.                                                *)

\* The scheduler has a poll ahead, at most PollEvery away.
ClockTypes ==
  /\ now \in Nat /\ wake \in Nat
  /\ now <= wake /\ wake <= now + PollEvery

TaskTypes ==
  /\ where \in [Tasks -> {"run", "waits", "over"}]
  /\ attempt \in [Tasks -> Nat \ {0}]
  /\ due \in [Tasks -> Nat]
  /\ failed \in [Tasks -> Nat]
  /\ fails \in [Tasks -> Nat]

\* The attempt number counts the failures before it.
Counted(t) == where[t] # "over" => fails[t] = attempt[t] - 1

\* A task waits from its failure for the delay it was given.
Spaced(t) ==
  where[t] = "waits" =>
    IF t \in Durable THEN due[t] = failed[t] + Delay(fails[t])
                     ELSE due[t] - failed[t] <= (13 * PolicyMax) \div 10

\* The retries that a poll may take before t.
Ahead(t) == {u \in Durable \ {t} : where[u] = "waits" /\ due[u] <= due[t]}

\* Once t is due by every clock, k more polls empty what is ahead of it.
InLine(t) ==
  where[t] = "waits" /\ now > due[t] + Skew =>
    \E k \in Nat :
      /\ Cardinality(Ahead(t)) < BatchLimit * (k + 1)
      /\ wake + PollEvery * k <= due[t] + Skew + PollEvery * Polls

TypeInv == ClockTypes /\ TaskTypes

TimingInv ==
  /\ TypeInv
  /\ \A t \in Tasks : Counted(t) /\ Spaced(t)
  /\ \A t \in Durable : InLine(t)

\* A task none of whose variables change.
SameTask(t) ==
  /\ where'[t] = where[t] /\ attempt'[t] = attempt[t] /\ due'[t] = due[t]
  /\ failed'[t] = failed[t] /\ fails'[t] = fails[t]

LEMMA LocalDelayType ==
  ASSUME NEW t \in Tasks, t \notin Durable, NEW n \in Nat \ {0},
         NEW delay \in LocalDelays(Strategy[t], n)
  PROVE  delay \in Nat /\ delay <= (13 * PolicyMax) \div 10
<1>1. Strategy[t] \in {"none", "fixed", "exponential"}
  BY TimingAssumption DEF Durable
<1>2. PlainDelay(Strategy[t], n) \in 0..PolicyMax
  <2>1. 2 ^ (n - 1) \in Nat
    BY PowerType
  <2>2. PolicyBase * 2 ^ (n - 1) \in Nat
    BY <2>1, ProductType, TimingAssumption
  <2> QED
    BY <1>1, <2>2, TimingAssumption DEF PlainDelay, Capped
<1> QED
  BY <1>2, TimingAssumption DEF LocalDelays

LEMMA TypeStep ==
  ASSUME TypeInv, [Next]_vars
  PROVE  TypeInv'
<1> USE DEF TypeInv, ClockTypes, TaskTypes
<1>1. ASSUME NEW t \in Tasks, Succeed(t) \/ Exhaust(t) \/ Awake(t)
      PROVE  TypeInv'
  BY <1>1 DEF Succeed, Exhaust, Awake
<1>2. ASSUME NEW t \in Tasks, NEW delay \in Nat, Wait(t, delay)
      PROVE  TypeInv'
  BY <1>2 DEF Wait, NextAttempt
<1>3. ASSUME NEW t \in Tasks, ScheduleRetry(t)
      PROVE  TypeInv'
  BY <1>2, <1>3, DelayType DEF ScheduleRetry
<1>4. ASSUME NEW t \in Tasks, Sleep(t)
      PROVE  TypeInv'
  <2>1. attempt[t] + 1 \in Nat \ {0}
    OBVIOUS
  <2> QED
    BY <1>2, <1>4, <2>1, LocalDelayType DEF Sleep
<1>5. CASE Poll
  BY <1>5, TimingAssumption DEF Poll
<1>6. CASE Tick
  BY <1>6, TimingAssumption DEF Tick
<1>7. CASE UNCHANGED vars
  BY <1>7 DEF vars
<1> QED
  BY <1>1, <1>3, <1>4, <1>5, <1>6, <1>7 DEF Next

\* Tries and delays: a step concerns the one task it names, a poll only lets
\* waiting tasks run.
LEMMA TaskStep ==
  ASSUME TypeInv, NEW v \in Tasks, Counted(v), Spaced(v), [Next]_vars
  PROVE  Counted(v)' /\ Spaced(v)'
<1> USE DEF TypeInv, TaskTypes, ClockTypes
<1>1. CASE SameTask(v)
  BY <1>1 DEF SameTask, Counted, Spaced
<1>2. ASSUME NEW t \in Tasks, Succeed(t) \/ Exhaust(t) \/ Awake(t)
      PROVE  Counted(v)' /\ Spaced(v)'
  <2>1. CASE v # t
    BY <1>1, <1>2, <2>1 DEF SameTask, Succeed, Exhaust, Awake
  <2>2. CASE v = t
    BY <1>2, <2>2 DEF Succeed, Exhaust, Awake, Counted, Spaced
  <2> QED
    BY <2>1, <2>2
<1>3. ASSUME NEW t \in Tasks, NEW delay \in Nat, Wait(t, delay),
             where[t] = "run",
             IF t \in Durable THEN delay = Delay(attempt[t])
                              ELSE delay <= (13 * PolicyMax) \div 10
      PROVE  Counted(v)' /\ Spaced(v)'
  <2>1. CASE v # t
    BY <1>1, <1>3, <2>1 DEF SameTask, Wait
  <2>2. CASE v = t
    <3>1. /\ where'[t] = "waits" /\ attempt'[t] = attempt[t] + 1
          /\ due'[t] = now + delay /\ failed'[t] = now /\ fails'[t] = fails[t] + 1
      BY <1>3 DEF Wait, NextAttempt
    <3>2. fails[t] + 1 = attempt[t]
      BY <1>3, <2>2 DEF Counted
    <3>3. Counted(t)'
      BY <1>3, <3>1, <3>2, TimingAssumption DEF Counted
    <3>4. Spaced(t)'
      BY <1>3, <3>1, <3>2, TimingAssumption DEF Spaced
    <3> QED
      BY <2>2, <3>3, <3>4
  <2> QED
    BY <2>1, <2>2
<1>4. ASSUME NEW t \in Tasks, ScheduleRetry(t)
      PROVE  Counted(v)' /\ Spaced(v)'
  BY <1>3, <1>4, DelayType DEF ScheduleRetry
<1>5. ASSUME NEW t \in Tasks, Sleep(t)
      PROVE  Counted(v)' /\ Spaced(v)'
  <2>1. attempt[t] + 1 \in Nat \ {0}
    OBVIOUS
  <2> QED
    BY <1>3, <1>5, <2>1, LocalDelayType DEF Sleep
<1>6. CASE Poll
  <2>1. /\ UNCHANGED <<attempt, due, failed, fails>>
        /\ where'[v] = where[v] \/ (where[v] = "waits" /\ where'[v] = "run")
    BY <1>6 DEF Poll, FirstDue, DueBy
  <2> QED
    BY <2>1 DEF Counted, Spaced
<1>7. CASE Tick \/ UNCHANGED vars
  BY <1>1, <1>7 DEF SameTask, Tick, vars
<1> QED
  BY <1>2, <1>4, <1>5, <1>6, <1>7 DEF Next

-----------------------------------------------------------------------------
(* A backlog.                                                              *)

LEMMA DurableFinite ==
  /\ IsFiniteSet(Durable)
  /\ Cardinality(Durable) \in Nat
  /\ \A t \in Durable : /\ IsFiniteSet(Ahead(t))
                        /\ Cardinality(Ahead(t)) \in Nat
                        /\ Cardinality(Ahead(t)) < Cardinality(Durable)
<1>1. IsFiniteSet(Durable) /\ Cardinality(Durable) \in Nat
  BY TimingAssumption, FS_Subset, FS_CardinalityType DEF Durable
<1>2. ASSUME NEW t \in Durable
      PROVE  /\ IsFiniteSet(Ahead(t))
             /\ Cardinality(Ahead(t)) \in Nat
             /\ Cardinality(Ahead(t)) < Cardinality(Durable)
  <2>1. /\ IsFiniteSet(Durable \ {t})
        /\ Cardinality(Durable \ {t}) = Cardinality(Durable) - 1
    BY <1>1, FS_RemoveElement
  <2>2. Ahead(t) \in SUBSET (Durable \ {t})
    BY DEF Ahead
  <2>3. IsFiniteSet(Ahead(t)) /\ Cardinality(Ahead(t)) <= Cardinality(Durable \ {t})
    BY <2>1, <2>2, FS_Subset
  <2>4. Cardinality(Ahead(t)) \in Nat
    BY <2>3, FS_CardinalityType
  <2> QED
    BY <1>1, <2>1, <2>3, <2>4
<1> QED
  BY <1>1, <1>2

\* When t has just fallen due by every clock, Polls polls empty the backlog.
LEMMA BacklogBound ==
  ASSUME NEW t \in Durable
  PROVE  \E k \in Nat :
           /\ Cardinality(Ahead(t)) < BatchLimit * (k + 1)
           /\ PollEvery * (k + 1) = PollEvery * Polls
           /\ PollEvery * (k + 1) = PollEvery * k + PollEvery
           /\ PollEvery * k \in Nat
<1> DEFINE N == Cardinality(Durable)
           x == N - 1
<1>1. x \in Nat /\ Cardinality(Ahead(t)) <= x
  BY DurableFinite
<1>2. N + BatchLimit - 1 = x + BatchLimit /\ BatchLimit \in Nat \ {0}
  BY <1>1, DurableFinite, TimingAssumption
<1>3. x \div BatchLimit \in Nat /\ x < BatchLimit * ((x \div BatchLimit) + 1)
  BY <1>1, <1>2, Division
<1>4. (x + BatchLimit) \div BatchLimit = (x \div BatchLimit) + 1
  BY <1>1, <1>2
<1>5. Polls = (x \div BatchLimit) + 1
  BY <1>2, <1>4 DEF Polls
<1> HIDE DEF x
<1>6. BatchLimit * ((x \div BatchLimit) + 1) \in Nat
  BY <1>2, <1>3, ProductType
<1>7. Cardinality(Ahead(t)) < BatchLimit * ((x \div BatchLimit) + 1)
  BY <1>1, <1>3, <1>6, DurableFinite
<1> QED
  BY <1>3, <1>5, <1>7, Step, TimingAssumption

\* A step that lets no time pass and puts nobody ahead of t.
LEMMA NobodyCutsIn ==
  ASSUME TypeInv, TypeInv', NEW t \in Durable, InLine(t), UNCHANGED <<now, wake>>,
         where'[t] = "waits" => where[t] = "waits" /\ due'[t] = due[t],
         where'[t] = "waits" /\ now > due[t] + Skew => Ahead(t)' \subseteq Ahead(t)
  PROVE  InLine(t)'
<1> SUFFICES ASSUME where'[t] = "waits", now' > due'[t] + Skew
             PROVE  \E k \in Nat :
                      /\ Cardinality(Ahead(t)') < BatchLimit * (k + 1)
                      /\ wake' + PollEvery * k <= due'[t] + Skew + PollEvery * Polls
  BY DEF InLine
<1>1. PICK k \in Nat : /\ Cardinality(Ahead(t)) < BatchLimit * (k + 1)
                       /\ wake + PollEvery * k <= due[t] + Skew + PollEvery * Polls
  BY DEF InLine
<1>2. Ahead(t)' \in SUBSET Ahead(t)
  OBVIOUS
<1>3. Cardinality(Ahead(t)') <= Cardinality(Ahead(t)) /\ Cardinality(Ahead(t)') \in Nat
  BY <1>2, DurableFinite, FS_Subset, FS_CardinalityType
<1>4. Cardinality(Ahead(t)) \in Nat /\ BatchLimit * (k + 1) \in Nat
  BY DurableFinite, ProductType, TimingAssumption
<1>5. Cardinality(Ahead(t)') < BatchLimit * (k + 1)
  BY <1>1, <1>3, <1>4
<1> QED
  BY <1>1, <1>5

\* A poll that does not take t, though t is due, takes BatchLimit ahead of it.
LEMMA PollInLine ==
  ASSUME TypeInv, TypeInv', NEW t \in Durable, InLine(t), Poll
  PROVE  InLine(t)'
<1> USE DEF TypeInv, ClockTypes, TaskTypes
<1>1. now' = now /\ due' = due /\ wake' = wake + PollEvery /\ now = wake
  BY DEF Poll
<1> SUFFICES ASSUME where'[t] = "waits", now > due[t] + Skew
             PROVE  \E k \in Nat :
                      /\ Cardinality(Ahead(t)') < BatchLimit * (k + 1)
                      /\ wake' + PollEvery * k <= due[t] + Skew + PollEvery * Polls
  BY <1>1 DEF InLine
<1>2. PICK time \in now - (IF Skew < now THEN Skew ELSE now) .. now + Skew, S \in SUBSET Durable :
        /\ FirstDue(S, time)
        /\ where' = [v \in Tasks |-> IF v \in S THEN "run" ELSE where[v]]
  BY DEF Poll
<1>3. t \in Tasks /\ t \notin S /\ where[t] = "waits"
  BY <1>2 DEF Durable
<1>4. time \in Nat /\ due[t] <= time
  BY <1>3, TimingAssumption
<1>5. t \in DueBy(time) \ S
  BY <1>3, <1>4 DEF DueBy
<1>6. S \subseteq Ahead(t) /\ Cardinality(S) = BatchLimit
  <2>1. \A u \in S : u \in DueBy(time) /\ due[u] <= due[t]
    BY <1>2, <1>5 DEF FirstDue
  <2>2. Cardinality(S) = BatchLimit
    BY <1>2, <1>5 DEF FirstDue
  <2> QED
    BY <1>3, <2>1, <2>2 DEF DueBy, Ahead
<1>7. Ahead(t)' = Ahead(t) \ S
  BY <1>1, <1>2, <1>6 DEF Ahead, Durable
<1>8. /\ Cardinality(Ahead(t)') = Cardinality(Ahead(t)) - BatchLimit
      /\ Cardinality(Ahead(t)') \in Nat /\ Cardinality(Ahead(t)) \in Nat
  <2>1. IsFiniteSet(Ahead(t)) /\ Cardinality(Ahead(t)) \in Nat
    BY DurableFinite
  <2>2. /\ IsFiniteSet(Ahead(t) \ S)
        /\ Cardinality(Ahead(t) \ S) = Cardinality(Ahead(t)) - Cardinality(Ahead(t) \cap S)
    BY <2>1, FS_Difference, FS_Subset
  <2>3. Ahead(t) \cap S = S
    BY <1>6
  <2> QED
    BY <1>6, <1>7, <2>1, <2>2, <2>3, FS_CardinalityType
<1>9. PICK k \in Nat : /\ Cardinality(Ahead(t)) < BatchLimit * (k + 1)
                       /\ wake + PollEvery * k <= due[t] + Skew + PollEvery * Polls
  BY <1>3 DEF InLine
<1>10. k # 0
  BY <1>8, <1>9, TimingAssumption
<1> DEFINE j == k - 1
<1>11. j \in Nat /\ k = j + 1
  BY <1>10
<1>12. /\ BatchLimit * (k + 1) = BatchLimit * k + BatchLimit
       /\ BatchLimit * k \in Nat
       /\ PollEvery * (j + 1) = PollEvery * j + PollEvery
       /\ PollEvery * j \in Nat
  BY <1>11, Step, TimingAssumption
<1>13. Cardinality(Ahead(t)') < BatchLimit * (j + 1)
  BY <1>8, <1>9, <1>11, <1>12, TimingAssumption
<1>14. wake' + PollEvery * j <= due[t] + Skew + PollEvery * Polls
  BY <1>1, <1>9, <1>11, <1>12, TimingAssumption
<1> QED
  BY <1>11, <1>13, <1>14

LEMMA TickInLine ==
  ASSUME TypeInv, NEW t \in Durable, InLine(t), Tick
  PROVE  InLine(t)'
<1> USE DEF TypeInv, ClockTypes, TaskTypes
<1>1. /\ now' = now + 1 /\ UNCHANGED <<wake, where, due>>
      /\ Ahead(t)' = Ahead(t) /\ t \in Tasks
  BY DEF Tick, Ahead, Durable
<1>2. CASE now > due[t] + Skew
  BY <1>1, <1>2 DEF InLine
<1>3. CASE ~(now > due[t] + Skew)
  <2> SUFFICES ASSUME now' > due[t] + Skew
               PROVE  \E k \in Nat :
                        /\ Cardinality(Ahead(t)) < BatchLimit * (k + 1)
                        /\ wake + PollEvery * k <= due[t] + Skew + PollEvery * Polls
    BY <1>1 DEF InLine
  <2>1. now = due[t] + Skew /\ wake <= due[t] + Skew + PollEvery
    BY <1>1, <1>3, TimingAssumption
  <2>2. PICK k \in Nat : /\ Cardinality(Ahead(t)) < BatchLimit * (k + 1)
                         /\ PollEvery * (k + 1) = PollEvery * Polls
                         /\ PollEvery * (k + 1) = PollEvery * k + PollEvery
                         /\ PollEvery * k \in Nat
    BY BacklogBound
  <2>3. wake + PollEvery * k <= due[t] + Skew + PollEvery * Polls
    BY <1>1, <2>1, <2>2, TimingAssumption
  <2> QED
    BY <2>2, <2>3
<1> QED
  BY <1>2, <1>3

LEMMA InLineStep ==
  ASSUME TypeInv, TypeInv', NEW t \in Durable, InLine(t), [Next]_vars
  PROVE  InLine(t)'
<1> USE DEF TypeInv, ClockTypes, TaskTypes
<1>1. t \in Tasks
  BY DEF Durable
<1>2. ASSUME NEW u \in Tasks, Succeed(u) \/ Exhaust(u) \/ Awake(u)
      PROVE  InLine(t)'
  <2>1. /\ UNCHANGED <<now, wake, due>>
        /\ \A v \in Tasks : where'[v] = "waits" => where[v] = "waits"
    BY <1>2 DEF Succeed, Exhaust, Awake
  <2>2. Ahead(t)' \subseteq Ahead(t)
    BY <2>1 DEF Ahead, Durable
  <2> QED
    BY <1>1, <2>1, <2>2, NobodyCutsIn
<1>3. ASSUME NEW u \in Tasks, NEW delay \in Nat, Wait(u, delay)
      PROVE  InLine(t)'
  <2>1. /\ UNCHANGED <<now, wake>>
        /\ due'[u] = now + delay
        /\ \A v \in Tasks \ {u} : where'[v] = where[v] /\ due'[v] = due[v]
    BY <1>3 DEF Wait
  <2>2. CASE u = t
    BY <2>1, <2>2, TimingAssumption DEF InLine
  <2>3. CASE u # t
    <3>1. where'[t] = where[t] /\ due'[t] = due[t]
      BY <1>1, <2>1, <2>3
    <3>2. ASSUME now > due[t] + Skew PROVE Ahead(t)' \subseteq Ahead(t)
      <4>1. ~(due'[u] <= due'[t])
        BY <1>1, <2>1, <3>1, <3>2, TimingAssumption
      <4> QED
        BY <2>1, <3>1, <4>1 DEF Ahead, Durable
    <3> QED
      BY <2>1, <3>1, <3>2, NobodyCutsIn
  <2> QED
    BY <2>2, <2>3
<1>4. ASSUME NEW u \in Tasks, ScheduleRetry(u)
      PROVE  InLine(t)'
  BY <1>3, <1>4, DelayType DEF ScheduleRetry
<1>5. ASSUME NEW u \in Tasks, Sleep(u)
      PROVE  InLine(t)'
  <2>1. attempt[u] + 1 \in Nat \ {0}
    OBVIOUS
  <2> QED
    BY <1>3, <1>5, <2>1, LocalDelayType DEF Sleep
<1>6. CASE UNCHANGED vars
  <2>1. UNCHANGED <<now, wake, where, due>> /\ Ahead(t)' = Ahead(t)
    BY <1>6 DEF vars, Ahead
  <2> QED
    BY <2>1, NobodyCutsIn
<1> QED
  BY <1>2, <1>4, <1>5, <1>6, PollInLine, TickInLine DEF Next

-----------------------------------------------------------------------------
(* The theorems.                                                           *)

LEMMA TimingInit == Init => TimingInv
<1> SUFFICES ASSUME Init PROVE TimingInv
  OBVIOUS
<1>1. TypeInv
  BY TimingAssumption DEF Init, TypeInv, ClockTypes, TaskTypes
<1>2. \A t \in Tasks : Counted(t) /\ Spaced(t)
  BY TimingAssumption DEF Init, Counted, Spaced
<1>3. \A t \in Durable : InLine(t)
  BY DEF Init, InLine, Durable
<1> QED
  BY <1>1, <1>2, <1>3 DEF TimingInv

LEMMA TimingStep == TimingInv /\ [Next]_vars => TimingInv'
<1> SUFFICES ASSUME TimingInv, [Next]_vars PROVE TimingInv'
  OBVIOUS
<1>1. TypeInv /\ TypeInv'
  BY TypeStep DEF TimingInv
<1>2. \A t \in Tasks : Counted(t)' /\ Spaced(t)'
  BY <1>1, TaskStep DEF TimingInv
<1>3. \A t \in Durable : InLine(t)'
  BY <1>1, InLineStep DEF TimingInv
<1> QED
  BY <1>1, <1>2, <1>3 DEF TimingInv

\* The clock, the retries and the sleeps of with_retries stay well-formed, a
\* retry is due exactly its strategy's delay after the failure it follows, and
\* a waiting durable retry always has a poll in line that will take it: what
\* the properties of the timing run rest on.
THEOREM TimingCorrect == Spec => []TimingInv
BY TimingInit, TimingStep, PTL DEF Spec

\* with_retries never sleeps longer than 130% of max_delay_ms, whatever the
\* strategy and however high the attempt.
THEOREM WaitBoundHolds == Spec => []WaitBound
<1>1. TimingInv => WaitBound
  BY DEF TimingInv, Spaced, WaitBound
<1> QED
  BY <1>1, TimingCorrect, PTL

\* retry_scheduler leaves no retry behind: it is put back at most one poll per
\* full batch of durable retries after its due time, the polling interval and
\* the difference of the clocks included, whatever is scheduled meanwhile.
THEOREM NotLateHolds == Spec => []NotLate
<1>1. TimingInv => NotLate
  <2> SUFFICES ASSUME TimingInv, NEW t \in Durable, where[t] = "waits"
               PROVE  now <= due[t] + Skew + PollEvery * Polls
    BY DEF NotLate
  <2>1. /\ now \in Nat /\ wake \in Nat /\ now <= wake
        /\ due[t] \in Nat /\ Skew \in Nat
    BY TimingAssumption DEF TimingInv, TypeInv, ClockTypes, TaskTypes, Durable
  <2>2. PollEvery * Polls \in Nat
    BY BacklogBound, ProductType, TimingAssumption
  <2>3. CASE now > due[t] + Skew
    <3>1. PICK k \in Nat : wake + PollEvery * k <= due[t] + Skew + PollEvery * Polls
      BY <2>3 DEF TimingInv, InLine
    <3>2. PollEvery * k \in Nat
      BY ProductType, TimingAssumption
    <3> QED
      BY <2>1, <2>2, <3>1, <3>2
  <2>4. CASE ~(now > due[t] + Skew)
    BY <2>1, <2>2, <2>4
  <2> QED
    BY <2>3, <2>4
<1> QED
  BY <1>1, TimingCorrect, PTL

\* A durable retry never runs before base_delay * 2^(n-1), capped, has passed
\* since its nth failure, up to the difference of the two clocks.
THEOREM BacksOffHolds == Spec => BacksOff
<1> DEFINE Waited == \A t \in Durable :
                       where[t] = "waits" /\ where'[t] = "run"
                         => now + Skew >= failed[t] + Delay(fails[t])
<1>1. TimingInv /\ [Next]_vars => [Waited]_vars
  <2> SUFFICES ASSUME TimingInv, Next, NEW t \in Durable,
                      where[t] = "waits", where'[t] = "run"
               PROVE  now + Skew >= failed[t] + Delay(fails[t])
    OBVIOUS
  <2>1. /\ t \in Tasks /\ due[t] = failed[t] + Delay(fails[t])
        /\ now \in Nat /\ due[t] \in Nat
        /\ where \in [Tasks -> {"run", "waits", "over"}]
    BY DEF TimingInv, TypeInv, TaskTypes, ClockTypes, Spaced, Durable
  <2>2. Poll
    <3>1. ASSUME NEW u \in Tasks,
                 Succeed(u) \/ Exhaust(u) \/ ScheduleRetry(u) \/ Sleep(u) \/ Awake(u)
          PROVE  FALSE
      BY <2>1, <3>1 DEF Succeed, Exhaust, ScheduleRetry, Sleep, Awake, Wait
    <3>2. ~Tick
      BY DEF Tick
    <3> QED
      BY <3>1, <3>2 DEF Next
  <2>3. PICK time \in now - (IF Skew < now THEN Skew ELSE now) .. now + Skew,
             S \in SUBSET Durable :
          /\ FirstDue(S, time)
          /\ where' = [v \in Tasks |-> IF v \in S THEN "run" ELSE where[v]]
    BY <2>2 DEF Poll
  <2>4. t \in S
    BY <2>1, <2>3
  <2>5. due[t] <= time
    BY <2>3, <2>4 DEF FirstDue, DueBy
  <2> QED
    BY <2>1, <2>5, TimingAssumption
<1> QED
  BY <1>1, TimingCorrect, PTL DEF Spec, BacksOff
=============================================================================
