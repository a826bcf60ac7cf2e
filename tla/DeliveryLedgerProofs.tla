------------------------ MODULE DeliveryLedgerProofs ------------------------
(***************************************************************************)
(* EvoraDelivery implements EventLedger, for any number of events,         *)
(* handlers and workers and any bounds.  First what each Redis command     *)
(* does to the phase of an event and what each move of a worker does to    *)
(* who has settled it; then that every action is a step of the ledger.     *)
(***************************************************************************)
EXTENDS DeliveryLedger, EvoraDeliveryProofs

Published(e) == \E id \in Ids : stream[id].event = e

\* The step leaves the phase of e alone.
Steady(e) ==
  /\ Published(e)' <=> Published(e)
  /\ Accepted(e)' <=> Accepted(e)
  /\ Accepted(e) => (Live(e)' <=> Live(e))

\* The step opens e, which the group was entitled to.
Opens(e) == Published(e)' /\ Accepted(e)' /\ Live(e)'

-----------------------------------------------------------------------------
(* What each command does to the phases.                                   *)

LEMMA OthersSteady ==
  ASSUME NEW e, UNCHANGED <<stream, group, origin, last, pel, retryz>>
  PROVE  Steady(e)
BY DEF Steady, Published, Accepted, Live, Ids

LEMMA XGroupCreateSteady ==
  ASSUME RedisTypes, XGroupCreate, NEW e
  PROVE  Steady(e)
<1>1. CASE group
  BY <1>1, OthersSteady DEF XGroupCreate, RedisTypes
<1>2. CASE ~group
  BY <1>2 DEF XGroupCreate, Steady, Published, Accepted, Ids
<1> QED
  BY <1>1, <1>2

LEMMA XReadGroupSteady ==
  ASSUME RedisTypes, NEW n \in Nat, last + n <= Len(stream), XReadGroup(n), NEW e
  PROVE  Steady(e)
<1>1. UNCHANGED <<stream, group, origin, retryz>>
  BY DEF XReadGroup
<1>2. \A id \in Ids : id > last \/ id \in pel <=> id > last' \/ id \in pel'
  BY DEF XReadGroup, RedisTypes, Ids
<1>3. pel \subseteq Ids /\ pel' \subseteq Ids
  BY DEF XReadGroup, RedisTypes, ServerOK, Ids
<1>4. Live(e)' <=> Live(e)
  BY <1>1, <1>2, <1>3 DEF Live, Ids
<1> QED
  BY <1>1, <1>4 DEF Steady, Published, Accepted, Ids

LEMMA XAckSteady ==
  ASSUME RedisTypes, NEW id, XAck(id), NEW e
  PROVE  /\ Published(e)' <=> Published(e)
         /\ Accepted(e)' <=> Accepted(e)
         /\ Live(e)' => Live(e)
         /\ id \notin pel \/ stream[id].event # e => Steady(e)
<1>1. UNCHANGED <<stream, group, origin, last, retryz>> /\ pel' = pel \ {id}
  BY DEF XAck
<1>2. (Published(e)' <=> Published(e)) /\ (Accepted(e)' <=> Accepted(e))
  BY <1>1 DEF Published, Accepted, Ids
<1>3. Live(e)' => Live(e)
  BY <1>1 DEF Live, Ids
<1>4. id \notin pel \/ stream[id].event # e => (Live(e)' <=> Live(e))
  BY <1>1 DEF Live, Ids
<1> QED
  BY <1>2, <1>3, <1>4 DEF Steady

LEMMA ZAddAndAckSteady ==
  ASSUME RedisTypes, NEW m, NEW id \in Ids, stream[id].event = m.event,
         ZAddAndAck(m, id), NEW e
  PROVE  /\ e # m.event => Steady(e)
         /\ Accepted(e)' <=> Accepted(e)
         /\ e = m.event => Published(e) /\ Published(e)' /\ Live(e)'
<1>1. /\ UNCHANGED <<stream, group, origin, last>>
      /\ pel' = pel \ {id} /\ retryz' = retryz \cup {m}
  BY DEF ZAddAndAck
<1>2. (Published(e)' <=> Published(e)) /\ (Accepted(e)' <=> Accepted(e))
  BY <1>1 DEF Published, Accepted, Ids
<1>3. e # m.event => (Live(e)' <=> Live(e))
  BY <1>1 DEF Live, Ids
<1>4. e = m.event => Live(e)'
  BY <1>1 DEF Live
<1> QED
  BY <1>2, <1>3, <1>4 DEF Steady, Published

LEMMA XAddSteady ==
  ASSUME RedisTypes, NEW entry \in Entries, XAdd(entry), NEW e
  PROVE  /\ e # entry.event => Steady(e)
         /\ e = entry.event => Published(e)' /\ Live(e)' /\ (group => Accepted(e)')
         /\ group' = group
<1> USE DEF Ids
<1>1. /\ Len(stream) \in Nat /\ Len(stream') = Len(stream) + 1
      /\ \A id \in Ids : stream'[id] = stream[id]
      /\ stream'[Len(stream) + 1] = entry
      /\ UNCHANGED <<group, origin, last, pel, retryz>>
      /\ last \in Nat /\ last <= Len(stream) /\ pel \subseteq 1..last
      /\ origin \in Nat /\ origin <= last
  BY DEF RedisTypes, ServerOK, XAdd
<1>2. \A id \in 1..Len(stream') : id \in Ids \/ id = Len(stream) + 1
  BY <1>1
<1>3. ASSUME e # entry.event PROVE Steady(e)
  <2>1. Published(e)' <=> Published(e)
    BY <1>1, <1>2, <1>3 DEF Published
  <2>2. Accepted(e)' <=> Accepted(e)
    BY <1>1, <1>2, <1>3 DEF Accepted
  <2>3. Live(e)' <=> Live(e)
    BY <1>1, <1>2, <1>3 DEF Live
  <2> QED
    BY <2>1, <2>2, <2>3 DEF Steady
<1>4. ASSUME e = entry.event
      PROVE  Published(e)' /\ Live(e)' /\ (group => Accepted(e)')
  <2>1. PICK id \in 1..Len(stream') : id > last /\ id > origin /\ stream'[id].event = e
    BY <1>1, <1>4
  <2> QED
    BY <1>1, <2>1 DEF Published, Live, Accepted
<1> QED
  BY <1>1, <1>3, <1>4

LEMMA AddAndZRemSteady ==
  ASSUME RedisTypes, NEW S \in SUBSET Members, IsFiniteSet(S),
         NEW s \in Orders(S), AddAndZRem(s), NEW e
  PROVE  /\ (\A m \in S : m.event # e) => Steady(e)
         /\ \A m \in S : m.event = e => Published(e)' /\ Live(e)'
         /\ Accepted(e) => Accepted(e)'
<1> USE DEF Ids
<1> DEFINE added == [i \in 1..Len(s) |->
                       [event |-> s[i].event, attempt |-> s[i].attempt]]
<1>1. /\ Grows /\ RedisTypes'
      /\ \A m \in S : \E id \in 1..Len(stream') :
           id > Len(stream) /\ stream'[id].event = m.event
  BY AddAndZRemTypes
<1>2. s \in [1..Len(s) -> S] /\ Len(s) \in Nat /\ s \in Seq(Members)
  BY OrdersAreSequences
<1>3. /\ UNCHANGED <<group, origin, last, pel>>
      /\ retryz' \subseteq retryz
      /\ \A m \in retryz : m \in retryz' \/ m \in S
  BY <1>2 DEF AddAndZRem
<1>4. /\ Len(stream) \in Nat /\ Len(stream') \in Nat
      /\ Len(stream) <= Len(stream')
      /\ \A id \in Ids : stream'[id] = stream[id]
      /\ last \in Nat /\ last <= Len(stream) /\ pel \subseteq 1..last
  BY <1>1 DEF RedisTypes, ServerOK, Grows
<1>5. \A id \in 1..Len(stream') :
        id \in Ids \/ \E i \in 1..Len(s) : stream'[id].event = s[i].event
  <2>1. added \in Seq(Entries) /\ Len(added) = Len(s)
    <3>1. \A i \in 1..Len(s) : s[i] \in Members
      BY <1>2
    <3> QED
      BY <1>2, <3>1 DEF Entries, Members
  <2>2. stream \in Seq(Entries) /\ stream' = stream \o added
    BY DEF RedisTypes, AddAndZRem
  <2>3. \A i \in 1..Len(s) : added[i].event = s[i].event
    OBVIOUS
  <2> HIDE DEF added
  <2>4. /\ Len(stream') = Len(stream) + Len(s)
        /\ \A id \in 1..Len(stream) + Len(s) :
             id > Len(stream) => stream'[id] = added[id - Len(stream)]
    <3>1. /\ Len(stream \o added) = Len(stream) + Len(added)
          /\ \A i \in 1..Len(stream) + Len(added) : (stream \o added)[i] =
               IF i <= Len(stream) THEN stream[i] ELSE added[i - Len(stream)]
      BY <2>1, <2>2, ConcatProperties
    <3> QED
      BY <1>2, <2>1, <2>2, <3>1
  <2> SUFFICES ASSUME NEW id \in 1..Len(stream'), id > Len(stream)
               PROVE  \E i \in 1..Len(s) : stream'[id].event = s[i].event
    BY <1>4
  <2>5. id - Len(stream) \in 1..Len(s)
    BY <1>2, <1>4, <2>4
  <2> QED
    BY <2>3, <2>4, <2>5
<1>6. Accepted(e) => Accepted(e)'
  BY <1>3, <1>4 DEF Accepted
<1>7. \A m \in S : m.event = e => Published(e)' /\ Live(e)'
  <2> SUFFICES ASSUME NEW m \in S, m.event = e PROVE Published(e)' /\ Live(e)'
    OBVIOUS
  <2>1. PICK id \in 1..Len(stream') : id > Len(stream) /\ stream'[id].event = e
    BY <1>1
  <2>2. id > last'
    BY <1>3, <1>4, <2>1
  <2> QED
    BY <2>1, <2>2 DEF Published, Live
<1>8. ASSUME \A m \in S : m.event # e PROVE Steady(e)
  <2>1. \A id \in 1..Len(stream') : stream'[id].event = e => id \in Ids
    BY <1>2, <1>5, <1>8
  <2>2. Published(e)' <=> Published(e)
    BY <1>4, <2>1 DEF Published
  <2>3. Accepted(e)' <=> Accepted(e)
    BY <1>3, <1>4, <2>1 DEF Accepted
  <2>4. Live(e)' <=> Live(e)
    BY <1>3, <1>4, <1>8, <2>1 DEF Live
  <2> QED
    BY <2>2, <2>3, <2>4 DEF Steady
<1> QED
  BY <1>6, <1>7, <1>8

-----------------------------------------------------------------------------
(* What a step of the loop does to the server and to the histories.        *)

KeepsPhases == UNCHANGED <<stream, group, origin, last, pel, retryz>>
KeepsHistory == UNCHANGED <<done, dlq, dropped>>

\* Only event e may be settled by the step.
SettlesOnly(e) ==
  \A h \in Handlers, d \in Events : d # e => (Settled(h, d)' <=> Settled(h, d))

LEMMA KeptHistory ==
  ASSUME KeepsHistory
  PROVE  \A h \in Handlers, e \in Events : Settled(h, e)' <=> Settled(h, e)
BY DEF KeepsHistory, Settled

LEMMA LetterSettles ==
  ASSUME NEW w \in Workers, NEW handler, NEW why,
         DlqAdd(Letter(w, handler, why)), UNCHANGED done, DropsOnly(w)
  PROVE  SettlesOnly(Event(w))
<1>1. \A letter \in dlq' : letter \in dlq \/ letter.event = Event(w)
  BY DEF DlqAdd, Letter
<1>2. dlq \subseteq dlq'
  BY DEF DlqAdd
<1>3. \A h, d : d # Event(w) => (<<h, d>> \in dropped' <=> <<h, d>> \in dropped)
  BY DEF DropsOnly, Key
<1> QED
  BY <1>1, <1>2, <1>3 DEF SettlesOnly, Settled

LEMMA DropSettles ==
  ASSUME NEW w \in Workers, UNCHANGED <<done, dlq>>, DropsOnly(w)
  PROVE  SettlesOnly(Event(w))
<1>1. \A h, d : d # Event(w) => (<<h, d>> \in dropped' <=> <<h, d>> \in dropped)
  BY DEF DropsOnly, Key
<1> QED
  BY <1>1 DEF SettlesOnly, Settled

\* Outside the handlers' calls, a call that raises gives nothing up.
LEMMA RaisedDrops ==
  ASSUME NEW w \in Workers, Raised(w), pc[w] \notin HandlerCalls \ {"rescue"}
  PROVE  UNCHANGED dropped
BY DEF Raised, OnRaise

\* The four kinds of steps of the loop.
LoopEffect(w) ==
  \/ KeepsPhases /\ KeepsHistory
  \/ KeepsPhases /\ pc[w] \in MessagePCs /\ SettlesOnly(Event(w))
  \/ (\E n \in Nat : last + n <= Len(stream) /\ XReadGroup(n)) /\ KeepsHistory
  \/ pc[w] \in {"drop", "ack", "finalack"} /\ XAck(msg[w]) /\ KeepsHistory
  \/ /\ pc[w] = "retry" /\ ZAddAndAck(RetryMember(w), msg[w])
     /\ SettlesOnly(Event(w))

LEMMA LoopEffects ==
  ASSUME TypeInv, NEW w \in Workers, Loop(w)
  PROVE  LoopEffect(w)
<1> USE DEF LoopEffect
<1>1. RedisTypes /\ LoopTypes /\ HistoryTypes
  BY Owners
<1>2. DropsOnly(w)
  BY LoopStep DEF WorkerStep
<1>3. CASE FindWork(w) /\ UNCHANGED done
  <2>1. UNCHANGED dropped
    BY <1>3, RaisedDrops DEF FindWork, AutoClaim, NoAutoClaim, ListPending, ClaimListed,
       ReadNew, Outcome, Returned, OnRaise, HandlerCalls
  <2>2. CASE ReadNew(w)
    <3> DEFINE left == Len(stream) - last
               n == IF left < BatchSize THEN left ELSE BatchSize
    <3>1. XReadGroup(n)
      BY <2>2 DEF ReadNew
    <3>2. n \in Nat /\ last + n <= Len(stream)
      BY <1>1, DeliveryAssumption DEF RedisTypes, ServerOK
    <3>3. KeepsHistory
      BY <1>3, <2>1, <3>1 DEF XReadGroup, KeepsHistory
    <3> QED
      BY <3>1, <3>2, <3>3
  <2>3. CASE ~ReadNew(w)
    <3>1. (\E S : XClaim(S)) \/ UNCHANGED redisVars
      BY <1>3, <2>3 DEF FindWork, AutoClaim, NoAutoClaim, ListPending, ClaimListed
    <3>2. KeepsPhases /\ UNCHANGED dlq
      BY <3>1 DEF XClaim, redisVars, KeepsPhases
    <3>3. KeepsHistory
      BY <1>3, <2>1, <3>2 DEF KeepsHistory
    <3> QED
      BY <3>2, <3>3
  <2> QED
    BY <2>2, <2>3
<1>4. CASE (Drop(w) \/ Ack(w) \/ FinalAck(w)) /\ UNCHANGED done
  <2>1. pc[w] \in {"drop", "ack", "finalack"} /\ XAck(msg[w])
    BY <1>4 DEF Drop, Ack, FinalAck
  <2>2. UNCHANGED dropped
    BY <1>4, RaisedDrops DEF Drop, Ack, FinalAck, Outcome, Returned, HandlerCalls
  <2>3. KeepsHistory
    BY <1>4, <2>1, <2>2 DEF XAck, KeepsHistory
  <2> QED
    BY <2>1, <2>3
<1>5. CASE (Poison(w) \/ Contract(w) \/ Unmatched(w) \/ SendDlq(w) \/ BrokerDlq(w))
           /\ UNCHANGED done
  <2>1. PICK handler, why : DlqAdd(Letter(w, handler, why))
    BY <1>5 DEF Poison, Contract, Unmatched, SendDlq, BrokerDlq
  <2>2. pc[w] \in MessagePCs
    BY <1>5 DEF Poison, Contract, Unmatched, SendDlq, BrokerDlq, MessagePCs,
       HandlerCalls, MessageCalls
  <2>3. SettlesOnly(Event(w))
    BY <1>2, <1>5, <2>1, LetterSettles
  <2>4. KeepsPhases
    BY <2>1 DEF DlqAdd, KeepsPhases
  <2> QED
    BY <2>2, <2>3, <2>4
<1>6. CASE HandlerRaises(w) /\ UNCHANGED done
  <2>1. UNCHANGED dlq /\ pc[w] \in MessagePCs /\ KeepsPhases
    BY <1>6 DEF HandlerRaises, redisVars, MessagePCs, KeepsPhases
  <2> QED
    BY <1>2, <1>6, <2>1, DropSettles
<1>7. CASE ScheduleRetry(w) /\ UNCHANGED done
  <2>1. ZAddAndAck(RetryMember(w), msg[w]) /\ pc[w] = "retry"
    BY <1>7 DEF ScheduleRetry
  <2>2. SettlesOnly(Event(w))
    BY <1>2, <1>7, <2>1, DropSettles DEF ZAddAndAck
  <2> QED
    BY <2>1, <2>2
<1>8. CASE MarkSeen(w) /\ UNCHANGED done
  <2>1. KeepsPhases /\ UNCHANGED dlq /\ pc[w] \in MessagePCs
    BY <1>8 DEF MarkSeen, SetKey, MessagePCs, HandlerCalls, KeepsPhases
  <2> QED
    BY <1>2, <1>8, <2>1, DropSettles
<1>9. CASE Seen(w) /\ UNCHANGED done
  <2>1. UNCHANGED redisVars /\ UNCHANGED dropped
    BY <1>9 DEF Seen, Returned
  <2> QED
    BY <1>9, <2>1 DEF redisVars, KeepsPhases, KeepsHistory
<1>10. CASE HandlerReturns(w)
  <2>1. UNCHANGED <<dlq, dropped>> /\ KeepsPhases /\ pc[w] \in MessagePCs
    BY <1>10 DEF HandlerReturns, Returned, redisVars, MessagePCs, KeepsPhases
  <2>2. done' = Bump(done, Key(w))
    BY <1>10 DEF HandlerReturns
  <2>3. \A h, d : d # Event(w) => <<h, d>> # Key(w)
    BY DEF Key
  <2>4. \A h \in Handlers, d \in Events :
          d # Event(w) => done'[<<h, d>>] = done[<<h, d>>]
    BY <1>1, <2>2, <2>3 DEF HistoryTypes, Bump
  <2>5. SettlesOnly(Event(w))
    BY <2>1, <2>4 DEF SettlesOnly, Settled
  <2> QED
    BY <2>1, <2>5
<1>11. CASE CallLost(w) /\ UNCHANGED done
  <2>1. KeepsPhases /\ UNCHANGED dlq
    BY <1>11 DEF CallLost, redisVars, KeepsPhases
  <2>2. CASE pc[w] \in MessagePCs
    BY <1>2, <1>11, <2>1, <2>2, DropSettles
  <2>3. CASE pc[w] \notin MessagePCs
    <3>1. UNCHANGED dropped
      BY <1>11, <2>3, RaisedDrops DEF CallLost, MessagePCs
    <3>2. KeepsHistory
      BY <1>11, <2>1, <3>1 DEF KeepsHistory
    <3> QED
      BY <2>1, <3>2
  <2> QED
    BY <2>2, <2>3
<1> QED
  BY <1>3, <1>4, <1>5, <1>6, <1>7, <1>8, <1>9, <1>10, <1>11 DEF Loop, HandleMessage

-----------------------------------------------------------------------------
(* What brings a closed event back.                                        *)

\* A worker holds, outside Redis, what can make e live again.
StaleRead(e, w) ==
  \/ pc[w] = "retry" /\ Event(w) = e /\ msg[w] \notin pel
  \/ \E m \in fetched[w] \ retryz : m.event = e

LEMMA LoopRevives ==
  ASSUME TypeInv, NEW w \in Workers, Loop(w), NEW e \in Events,
         Quiet(e), Live(e)'
  PROVE  StaleRead(e, w)
<1>1. RedisTypes /\ LoopTypes
  BY Owners
<1>2. ~Steady(e)
  BY DEF Steady, Quiet
<1>3. pc[w] = "retry" /\ ZAddAndAck(RetryMember(w), msg[w])
  <2>1. LoopEffect(w)
    BY LoopEffects
  <2>2. ~(KeepsPhases \/ \E n \in Nat : last + n <= Len(stream) /\ XReadGroup(n))
    BY <1>1, <1>2, OthersSteady, XReadGroupSteady DEF KeepsPhases
  <2>3. ~XAck(msg[w])
    BY <1>1, XAckSteady DEF Quiet
  <2> QED
    BY <2>1, <2>2, <2>3 DEF LoopEffect
<1>4. msg[w] \in Ids /\ RetryMember(w).event = Event(w) /\ Event(w) = stream[msg[w]].event
  BY <1>1, <1>3, MessageTypes DEF MessagePCs, HandlerCalls, RetryMember, Event
<1>5. e = Event(w)
  BY <1>1, <1>2, <1>3, <1>4, ZAddAndAckSteady
<1>6. msg[w] \notin pel
  BY <1>4, <1>5 DEF Quiet, Live
<1> QED
  BY <1>3, <1>5, <1>6 DEF StaleRead

LEMMA OthersRevive ==
  ASSUME TypeInv, NEW w \in Workers, Start(w) \/ Scheduler(w) \/ Crash(w),
         NEW e \in Events, Quiet(e), Live(e)'
  PROVE  StaleRead(e, w)
<1>1. RedisTypes /\ LoopTypes
  BY Owners
<1>2. ~Steady(e)
  BY DEF Steady, Quiet
<1>3. Requeue(w)
  <2>1. ~Start(w)
    BY <1>1, <1>2, XGroupCreateSteady DEF Start
  <2>2. ~(Poll(w) \/ Crash(w))
    BY <1>2, OthersSteady DEF Poll, Crash, redisVars
  <2>3. ~SchedulerFails(w)
    <3>1. SchedulerFails(w) => KeepsPhases \/ XAck(msg[w])
      BY DEF SchedulerFails, redisVars, KeepsPhases
    <3>2. ~KeepsPhases
      BY <1>2, OthersSteady DEF KeepsPhases
    <3> QED
      BY <1>1, <3>1, <3>2, XAckSteady DEF Quiet
  <2> QED
    BY <2>1, <2>2, <2>3 DEF Scheduler
<1>4. PICK s \in Orders(fetched[w]) : AddAndZRem(s)
  BY <1>3 DEF Requeue
<1>5. PICK m \in fetched[w] : m.event = e
  <2>1. fetched[w] \in SUBSET Members /\ IsFiniteSet(fetched[w])
    BY <1>1 DEF LoopTypes, WorkerOK
  <2> QED
    BY <1>1, <1>2, <1>4, <2>1, AddAndZRemSteady
<1>6. m \notin retryz
  BY <1>5 DEF Quiet, Live
<1> QED
  BY <1>5, <1>6 DEF StaleRead

LEMMA EnvironmentRevives ==
  ASSUME TypeInv, (\E d \in Events : Publish(d)) \/ Tick \/ UNCHANGED vars,
         NEW e \in Events, Quiet(e), Live(e)'
  PROVE  FALSE
<1>1. RedisTypes
  BY Owners
<1>2. ~Steady(e)
  BY DEF Steady, Quiet
<1>3. ASSUME NEW d \in Events, Publish(d) PROVE FALSE
  <2>1. d # e
    BY <1>3 DEF Publish, Quiet, Accepted
  <2>2. [event |-> d, attempt |-> 1] \in Entries
    BY DEF Entries
  <2> QED
    BY <1>1, <1>2, <1>3, <2>1, <2>2, XAddSteady DEF Publish
<1>4. ~Tick
  BY <1>2, OthersSteady DEF Tick, Idles, GoIdle, FallsDue, BecomeDue, Expires, Expire
<1>5. ~UNCHANGED vars
  BY <1>2, OthersSteady DEF vars, redisVars
<1> QED
  BY <1>3, <1>4, <1>5

\* An event nothing in Redis can deliver any more comes back only through a
\* message that schedule_retry puts on the ZSET though it is no longer
\* pending, or a member that retry_scheduler read before another worker's
\* MULTI removed it: whatever fails, crashes, expires or is published.
THEOREM OnlyStaleReadsReopenHolds == Spec => OnlyStaleReadsReopen
<1> DEFINE Rereads == \A e \in Events : Quiet(e) /\ Live(e)' =>
                        \E w \in Workers :
                          \/ pc[w] = "retry" /\ Event(w) = e /\ msg[w] \notin pel
                          \/ \E m \in fetched[w] \ retryz : m.event = e
<1>1. TypeInv /\ [Next]_vars => [Rereads]_vars
  <2> SUFFICES ASSUME TypeInv, Next, NEW e \in Events, Quiet(e), Live(e)'
               PROVE  \E w \in Workers : StaleRead(e, w)
    BY DEF StaleRead
  <2> QED
    BY LoopRevives, OthersRevive, EnvironmentRevives DEF Next
<1> QED
  BY <1>1, TypeCorrect, PTL DEF Spec, OnlyStaleReadsReopen

-----------------------------------------------------------------------------
(* Everything that is delivered again was published to the group.          *)

\* The group is created once.
GroupStays == group => group' /\ origin' = origin

LEMMA AcceptedStays ==
  ASSUME RedisTypes, RedisTypes', Grows, GroupStays, NEW e, Accepted(e)
  PROVE  Accepted(e)'
<1>1. PICK id \in Ids : id > origin /\ stream[id].event = e
  BY DEF Accepted
<1>2. id \in 1..Len(stream')
  BY DEF Grows, RedisTypes, Ids
<1>3. stream'[id].event = e
  BY <1>1 DEF Grows
<1> QED
  BY <1>1, <1>2, <1>3 DEF GroupStays, Accepted, Ids

\* The ids a worker takes up were pending, or are delivered by the step.
Draws(w) ==
  /\ \A id \in batch'[w] : id \in batch[w] \/ id \in pel \/ id > last
  /\ \/ msg'[w] = 0 \/ msg'[w] = msg[w] \/ msg'[w] \in batch[w]
     \/ msg'[w] \in pel \/ msg'[w] > last

LEMMA ProcessDraws ==
  ASSUME LoopTypes, NEW w \in Workers, NEW S, Process(w, S),
         \A id \in S : id \in batch[w] \/ id \in pel \/ id > last
  PROVE  Draws(w)
BY DEF LoopTypes, Process, Draws

LEMMA NextHandlerDraws ==
  ASSUME LoopTypes, NEW w \in Workers, NextHandler(w)
  PROVE  Draws(w)
BY DEF NextHandler, Draws

LEMMA GotoDraws ==
  ASSUME LoopTypes, NEW w \in Workers, NEW label, Goto(w, label)
  PROVE  Draws(w)
BY DEF Goto, Draws

LEMMA DieDraws ==
  ASSUME LoopTypes, NEW w \in Workers, Die(w)
  PROVE  Draws(w)
BY DEF LoopTypes, Die, Draws

LEMMA GiveUpDraws ==
  ASSUME LoopTypes, NEW w \in Workers, NEW label, NEW error, GiveUp(w, label, error)
  PROVE  Draws(w)
<1>1. CASE hi[w] \in Dlq
  BY <1>1 DEF GiveUp, Draws
<1>2. CASE hi[w] \notin Dlq
  BY <1>2, NextHandlerDraws DEF GiveUp
<1> QED
  BY <1>1, <1>2

LEMMA RaisedDraws ==
  ASSUME LoopTypes, NEW w \in Workers, OnRaise(w)
  PROVE  Draws(w)
BY GiveUpDraws, GotoDraws, DieDraws DEF OnRaise

LEMMA OutcomeDraws ==
  ASSUME LoopTypes, NEW w \in Workers, NEW ACTION move, Outcome(w, move),
         move => Draws(w)
  PROVE  Draws(w)
BY RaisedDraws DEF Outcome, Raised

LEMMA ClaimedDraws ==
  ASSUME LoopTypes, NEW w \in Workers, NEW S, Claimed(w, S), S \subseteq pel
  PROVE  Draws(w)
<1>1. CASE S = {}
  BY <1>1 DEF LoopTypes, Claimed, Draws
<1>2. CASE S # {}
  BY <1>2, ProcessDraws DEF Claimed
<1> QED
  BY <1>1, <1>2

LEMMA LoopDraws ==
  ASSUME TypeInv, NEW w \in Workers, Loop(w)
  PROVE  Draws(w) /\ UNCHANGED <<group, origin>> /\ pc[w] # "down"
         /\ fetched'[w] \subseteq fetched[w]
<1>1. RedisTypes /\ LoopTypes
  BY Owners
<1>2. CASE FindWork(w)
  <2>1. ASSUME AutoClaim(w) PROVE Draws(w)
    <3> DEFINE S == FirstOf(ReclaimCount, idle)
    <3>1. S \subseteq pel
      BY <1>1 DEF FirstOf, RedisTypes, ServerOK
    <3>2. Outcome(w, Claimed(w, S))
      BY <2>1 DEF AutoClaim
    <3> HIDE DEF S
    <3> QED
      BY <1>1, <3>1, <3>2, ClaimedDraws, OutcomeDraws
  <2>2. ASSUME NoAutoClaim(w) PROVE Draws(w)
    BY <1>1, <2>2, RaisedDraws DEF NoAutoClaim
  <2>3. ASSUME ListPending(w) PROVE Draws(w)
    <3> DEFINE S == FirstOf(ReclaimCount, pel) \cap idle
    <3>1. S \subseteq pel
      BY DEF FirstOf
    <3>2. Goto(w, "read") \/ (batch' = [batch EXCEPT ![w] = S] /\ UNCHANGED msg)
      BY <2>3 DEF ListPending
    <3> HIDE DEF S
    <3> QED
      BY <1>1, <3>1, <3>2, GotoDraws DEF Draws, LoopTypes
  <2>4. ASSUME ClaimListed(w) PROVE Draws(w)
    <3>1. batch[w] \cap idle \subseteq pel
      BY <1>1 DEF RedisTypes, ServerOK
    <3> QED
      BY <1>1, <2>4, <3>1, ClaimedDraws, OutcomeDraws DEF ClaimListed
  <2>5. ASSUME ReadNew(w) PROVE Draws(w)
    <3> DEFINE left == Len(stream) - last
               n == IF left < BatchSize THEN left ELSE BatchSize
               S == (last + 1)..(last + n)
    <3>1. \A id \in S : id > last
      BY <1>1 DEF RedisTypes
    <3>2. Outcome(w, Process(w, S))
      BY <2>5 DEF ReadNew
    <3> HIDE DEF S
    <3> QED
      BY <1>1, <3>1, <3>2, ProcessDraws, OutcomeDraws
  <2>6. Draws(w)
    BY <1>2, <2>1, <2>2, <2>3, <2>4, <2>5 DEF FindWork
  <2>7. UNCHANGED <<group, origin>> /\ pc[w] # "down"
    BY <1>2 DEF FindWork, AutoClaim, NoAutoClaim, ListPending, ClaimListed, ReadNew,
       XClaim, XReadGroup, redisVars
  <2>8. UNCHANGED fetched \/ Die(w)
    BY <1>2 DEF FindWork, AutoClaim, NoAutoClaim, ListPending, ClaimListed, ReadNew,
       Outcome, Returned, Raised, OnRaise
  <2> QED
    BY <1>1, <2>6, <2>7, <2>8 DEF Die, LoopTypes
<1>3. CASE HandleMessage(w) \/ Seen(w) \/ HandlerReturns(w) \/ CallLost(w)
  <2>1. \/ \E label : Goto(w, label)
        \/ Process(w, batch[w]) \/ NextHandler(w) \/ OnRaise(w)
        \/ UNCHANGED <<batch, msg>> \/ \E label, error : GiveUp(w, label, error)
    <3>1. CASE Drop(w) \/ Ack(w) \/ FinalAck(w)
      BY <3>1 DEF Drop, Ack, FinalAck, Outcome, Raised
    <3>2. CASE Poison(w) \/ Contract(w) \/ Unmatched(w) \/ BrokerDlq(w)
      BY <3>2 DEF Poison, Contract, Unmatched, BrokerDlq, Outcome, Raised
    <3>3. CASE HandlerRaises(w)
      BY <3>3 DEF HandlerRaises
    <3>4. CASE ScheduleRetry(w) \/ SendDlq(w) \/ MarkSeen(w)
      BY <3>4 DEF ScheduleRetry, SendDlq, MarkSeen, Outcome, Raised
    <3>5. CASE Seen(w) \/ HandlerReturns(w) \/ CallLost(w)
      BY <3>5 DEF Seen, HandlerReturns, CallLost, Raised
    <3> QED
      BY <1>3, <3>1, <3>2, <3>3, <3>4, <3>5 DEF HandleMessage
  <2>2. Draws(w)
    <3>1. Process(w, batch[w]) => Draws(w)
      BY <1>1, ProcessDraws
    <3>2. UNCHANGED <<batch, msg>> => Draws(w)
      BY DEF Draws
    <3> QED
      BY <1>1, <2>1, <3>1, <3>2, GotoDraws, NextHandlerDraws, GiveUpDraws, RaisedDraws
  <2>3. UNCHANGED <<group, origin>>
    BY <1>3 DEF HandleMessage, Drop, Poison, Contract, Unmatched, HandlerRaises,
       ScheduleRetry, SendDlq, MarkSeen, Ack, BrokerDlq, FinalAck, Seen,
       HandlerReturns, CallLost, XAck, DlqAdd, ZAddAndAck, SetKey, redisVars
  <2>4. pc[w] # "down"
    BY <1>3 DEF HandleMessage, Drop, Poison, Contract, Unmatched, HandlerRaises,
       ScheduleRetry, SendDlq, MarkSeen, Ack, BrokerDlq, FinalAck, Seen,
       HandlerReturns, CallLost, Calls, IdleCalls, HandlerCalls, MessageCalls
  <2>5. UNCHANGED fetched \/ Die(w)
    BY <1>3 DEF HandleMessage, Drop, Poison, Contract, Unmatched, HandlerRaises,
       ScheduleRetry, SendDlq, MarkSeen, Ack, BrokerDlq, FinalAck, Seen,
       HandlerReturns, CallLost, Outcome, Returned, Raised, OnRaise
  <2> QED
    BY <1>1, <2>2, <2>3, <2>4, <2>5 DEF Die, LoopTypes
<1> QED
  BY <1>2, <1>3 DEF Loop

LEMMA OriginatesKept ==
  ASSUME TypeInv, TypeInv', Grows, Originates, group, group', origin' = origin,
         \A w \in Workers :
           Draws(w) /\ \A m \in fetched'[w] : m \in fetched[w] \/ m \in retryz,
         \A m \in retryz' : m \in retryz \/
           \E w \in Workers : pc[w] = "retry" /\ m.event = Event(w)
  PROVE  Originates'
<1>1. /\ RedisTypes /\ LoopTypes
      /\ origin \in Nat /\ last \in Nat /\ origin <= last
  BY Owners DEF RedisTypes, ServerOK
<1>2. RedisTypes'
  BY DEF TypeInv, TypeOK, RedisTypes, Entries
<1>3. \A e : Accepted(e) => Accepted(e)'
  BY <1>1, <1>2, AcceptedStays DEF GroupStays
<1>4. \A id \in pel' : id > origin
  <2>1. \A id \in pel' : id \in pel \/ id > last
    BY DEF Grows
  <2>2. pel' \subseteq Nat
    BY <1>2 DEF RedisTypes, ServerOK
  <2> QED
    BY <1>1, <2>1, <2>2 DEF Originates
<1>5. \A w \in Workers : pc[w] = "retry" => Accepted(Event(w))
  <2> SUFFICES ASSUME NEW w \in Workers, pc[w] = "retry" PROVE Accepted(Event(w))
    OBVIOUS
  <2>1. msg[w] \in Ids /\ msg[w] \in 1..last
    BY <1>1, MessageTypes DEF MessagePCs, HandlerCalls
  <2>2. msg[w] > origin
    BY <1>1, <2>1 DEF Originates
  <2> QED
    BY <2>1, <2>2 DEF Accepted, Event
<1>6. \A m \in retryz' : Accepted(m.event)'
  <2>1. \A m \in retryz' : Accepted(m.event)
    BY <1>5 DEF Originates
  <2> QED
    BY <1>3, <2>1 DEF Accepted
<1>7. ASSUME NEW w \in Workers
      PROVE  /\ \A id \in batch'[w] : id > origin
             /\ msg'[w] > origin \/ msg'[w] = 0
             /\ \A m \in fetched'[w] : Accepted(m.event)'
  <2>1. batch'[w] \subseteq Nat /\ msg'[w] \in Nat
    BY DEF TypeInv, TypeOK
  <2>2. Draws(w)
    OBVIOUS
  <2>3. \A id \in batch'[w] : id > origin
    BY <1>1, <2>1, <2>2 DEF Draws, Originates
  <2>4. msg'[w] > origin \/ msg'[w] = 0
    BY <1>1, <2>1, <2>2 DEF Draws, Originates
  <2>5. \A m \in fetched'[w] : Accepted(m.event)
    BY DEF Originates
  <2> QED
    BY <1>3, <2>3, <2>4, <2>5 DEF Accepted
<1> QED
  BY <1>4, <1>6, <1>7 DEF Originates

\* Before the group is created there is nothing to bring back.
LEMMA Unstarted ==
  ASSUME TypeInv, Originates, ~group
  PROVE  /\ pel = {} /\ retryz = {}
         /\ \A w \in Workers : batch[w] = {} /\ msg[w] = 0 /\ fetched[w] = {}
<1>1. last = 0
  BY DEF Originates
<1>2. pel = {} /\ \A w \in Workers : batch[w] = {} /\ msg[w] = 0
  BY <1>1 DEF TypeInv, ServerOK, WorkerOK
<1>3. \A e : ~Accepted(e)
  BY DEF Accepted
<1> QED
  BY <1>2, <1>3 DEF Originates

LEMMA OriginatesStep ==
  ASSUME TypeInv, Originates, [Next]_vars
  PROVE  Originates' /\ GroupStays
<1> USE DEF GroupStays
<1>1. RedisTypes /\ LoopTypes
  BY Owners
<1>2. TypeInv' /\ Grows
  BY TypeStep
<1>3. ASSUME UNCHANGED <<group, origin, batch, msg, fetched, retryz>>, group
      PROVE  Originates'
  BY <1>2, <1>3, OriginatesKept DEF Draws
<1>4. ASSUME NEW w \in Workers, Loop(w)
      PROVE  Originates' /\ GroupStays
  <2>1. /\ Draws(w) /\ UNCHANGED <<group, origin>> /\ pc[w] # "down"
        /\ fetched'[w] \subseteq fetched[w]
    BY <1>4, LoopDraws
  <2>2. group
    BY <2>1 DEF Originates
  <2>3. \A v \in Workers \ {w} : SameWorker(v)
    BY <1>4, LoopStep DEF WorkerStep, Moves
  <2>4. \A v \in Workers :
          Draws(v) /\ \A m \in fetched'[v] : m \in fetched[v] \/ m \in retryz
    BY <2>1, <2>3 DEF SameWorker, Draws
  <2>5. \A m \in retryz' : m \in retryz \/ (pc[w] = "retry" /\ m.event = Event(w))
    <3>1. LoopEffect(w)
      BY <1>4, LoopEffects
    <3>2. CASE KeepsPhases
      BY <3>2 DEF KeepsPhases
    <3>3. CASE pc[w] = "retry" /\ ZAddAndAck(RetryMember(w), msg[w])
      BY <3>3 DEF ZAddAndAck, RetryMember
    <3> QED
      BY <3>1, <3>2, <3>3 DEF LoopEffect, XReadGroup, XAck
  <2> QED
    BY <1>2, <2>1, <2>2, <2>4, <2>5, OriginatesKept
<1>5. ASSUME NEW w \in Workers, Start(w)
      PROVE  Originates' /\ GroupStays
  <2>1. /\ group' /\ UNCHANGED <<pel, retryz, batch, msg, fetched>>
        /\ group => UNCHANGED <<origin, last>>
    BY <1>5 DEF Start, XGroupCreate, Goto, Returned
  <2>2. CASE group
    BY <1>2, <1>3, <2>1, <2>2, <1>1 DEF RedisTypes
  <2>3. CASE ~group
    BY <2>1, <2>3, Unstarted DEF Originates
  <2> QED
    BY <2>1, <2>2, <2>3
<1>6. ASSUME NEW w \in Workers, Scheduler(w) \/ Crash(w)
      PROVE  Originates' /\ GroupStays
  <2>1. group
    <3>1. pc[w] # "down" \/ fetched[w] # {}
      BY <1>6 DEF Scheduler, Poll, Requeue, SchedulerFails, Crash
    <3>2. fetched[w] # {} => group
      BY DEF Originates, Accepted
    <3> QED
      BY <3>1, <3>2 DEF Originates
  <2>2. UNCHANGED <<group, origin>> /\ retryz' \subseteq retryz
    BY <1>6 DEF Scheduler, Poll, Requeue, SchedulerFails, Crash, redisVars,
       AddAndZRem, XAck
  <2>3. \A v \in Workers \ {w} : SameWorker(v)
    BY <1>6, StartStep, PollStep, RequeueStep, StopStep DEF Scheduler, Moves
  <2>4. /\ Draws(w)
        /\ \A m \in fetched'[w] : m \in fetched[w] \/ m \in retryz
    <3>1. CASE Poll(w)
      <4>1. due \subseteq retryz
        BY <1>1 DEF RedisTypes, ServerOK
      <4> QED
        BY <1>1, <3>1, <4>1 DEF Poll, localVars, Draws, LoopTypes
    <3>2. CASE Requeue(w)
      BY <1>1, <3>2 DEF Requeue, localVars, Draws, LoopTypes
    <3>3. CASE SchedulerFails(w) \/ Crash(w)
      <4>1. Die(w)
        BY <3>3 DEF SchedulerFails, Crash
      <4> QED
        BY <1>1, <4>1, DieDraws DEF Die, LoopTypes
    <3> QED
      BY <1>6, <3>1, <3>2, <3>3 DEF Scheduler
  <2>5. \A v \in Workers :
          Draws(v) /\ \A m \in fetched'[v] : m \in fetched[v] \/ m \in retryz
    BY <2>3, <2>4 DEF SameWorker, Draws
  <2> QED
    BY <1>2, <2>1, <2>2, <2>5, OriginatesKept
<1>7. CASE (\E e \in Events : Publish(e)) \/ Tick \/ UNCHANGED vars
  <2>1. UNCHANGED <<localVars, fetched>>
    BY <1>7, EnvironmentStep
  <2>2. UNCHANGED <<group, origin, last, pel, retryz>>
    BY <1>7 DEF Publish, XAdd, Tick, Idles, GoIdle, FallsDue, BecomeDue, Expires,
       Expire, vars, redisVars
  <2>3. CASE group
    BY <1>3, <2>1, <2>2, <2>3 DEF localVars
  <2>4. CASE ~group
    BY <2>1, <2>2, <2>4, Unstarted DEF localVars, Originates
  <2> QED
    BY <2>2, <2>3, <2>4
<1> QED
  BY <1>4, <1>5, <1>6, <1>7 DEF Next

LEMMA OriginatesInit == Init => Originates
BY DEF Init, RedisInit, Originates

-----------------------------------------------------------------------------
(* The refinement, step by step.                                           *)

LEMMA PhaseOf ==
  ASSUME NEW e \in Events
  PROVE  /\ ~Published(e) => ledgerPhase[e] = "unpublished"
         /\ Published(e) /\ Accepted(e) /\ Live(e) => ledgerPhase[e] = "open"
         /\ Published(e) /\ Accepted(e) /\ ~Live(e) => ledgerPhase[e] = "closed"
         /\ Published(e) /\ ~Accepted(e) => ledgerPhase[e] = "missed"
         /\ Accepted(e) => Published(e)
<1>1. Accepted(e) => Published(e)
  BY DEF Accepted, Published
<1>2. ledgerPhase[e] =
        CASE ~Published(e) -> "unpublished"
          [] Accepted(e) /\ Live(e) -> "open"
          [] Accepted(e) /\ ~Live(e) -> "closed"
          [] OTHER -> "missed"
  BY DEF ledgerPhase, Published, Quiet
<1> QED
  BY <1>1, <1>2

LEMMA PhaseOfNext ==
  ASSUME NEW e \in Events
  PROVE  /\ ~Published(e)' => ledgerPhase'[e] = "unpublished"
         /\ Published(e)' /\ Accepted(e)' /\ Live(e)' => ledgerPhase'[e] = "open"
         /\ Published(e)' /\ Accepted(e)' /\ ~Live(e)' => ledgerPhase'[e] = "closed"
         /\ Published(e)' /\ ~Accepted(e)' => ledgerPhase'[e] = "missed"
         /\ Accepted(e)' => Published(e)'
<1>1. Accepted(e)' => Published(e)'
  BY DEF Accepted, Published
<1>2. ledgerPhase'[e] =
        CASE ~Published(e)' -> "unpublished"
          [] Accepted(e)' /\ Live(e)' -> "open"
          [] Accepted(e)' /\ ~Live(e)' -> "closed"
          [] OTHER -> "missed"
  BY DEF ledgerPhase, Published, Quiet
<1> QED
  BY <1>1, <1>2

LEMMA SteadyPhase ==
  ASSUME NEW e \in Events, Steady(e)
  PROVE  ledgerPhase'[e] = ledgerPhase[e]
BY PhaseOf, PhaseOfNext DEF Steady

\* The mapped variables are functions on Events.
LEMMA LedgerTypes ==
  /\ ledgerPhase = [e \in Events |-> ledgerPhase[e]]
  /\ ledgerPhase' = [e \in Events |-> ledgerPhase'[e]]
  /\ ledgerSettled = [e \in Events |-> ledgerSettled[e]]
  /\ ledgerSettled' = [e \in Events |-> ledgerSettled'[e]]
  /\ \A e \in Events : ledgerSettled[e] \subseteq Handlers
                       /\ ledgerSettled'[e] \subseteq Handlers
BY DEF ledgerPhase, ledgerSettled

LEMMA SettledOf ==
  ASSUME NEW e \in Events
  PROVE  /\ (\A h \in Handlers : Settled(h, e)' <=> Settled(h, e))
              => ledgerSettled'[e] = ledgerSettled[e]
         /\ (\A h \in Handlers : Settled(h, e) => Settled(h, e)')
              => ledgerSettled[e] \subseteq ledgerSettled'[e]
         /\ Accounted(e) <=> ledgerSettled[e] = Handlers
BY DEF ledgerSettled, Accounted

LEMMA AllSteady ==
  ASSUME \A e \in Events : Steady(e)
  PROVE  ledgerPhase' = ledgerPhase
BY SteadyPhase, LedgerTypes

LEMMA AllKept ==
  ASSUME KeepsHistory
  PROVE  ledgerSettled' = ledgerSettled
BY KeptHistory, SettledOf, LedgerTypes

\* A step that settles at most e, an event in which nothing is left to settle
\* once it is no longer live.
LEMMA SettleStep ==
  ASSUME HistoryGrows, NEW e \in Events, SettlesOnly(e),
         Accepted(e), Live(e) \/ Accounted(e)
  PROVE  \/ ledgerSettled' = ledgerSettled
         \/ /\ ledgerPhase[e] = "open"
            /\ \E S \in SUBSET Handlers :
                 ledgerSettled' = [ledgerSettled EXCEPT ![e] = @ \cup S]
<1>1. \A d \in Events : d # e => ledgerSettled'[d] = ledgerSettled[d]
  BY SettledOf DEF SettlesOnly
<1>2. ledgerSettled[e] \subseteq ledgerSettled'[e]
  BY SettledStays, SettledOf
<1>3. CASE Live(e)
  <2>1. ledgerPhase[e] = "open"
    BY <1>3, PhaseOf
  <2>2. ledgerSettled' = [ledgerSettled EXCEPT ![e] = @ \cup ledgerSettled'[e]]
    BY <1>1, <1>2, LedgerTypes
  <2> QED
    BY <2>1, <2>2, LedgerTypes
<1>4. CASE Accounted(e)
  <2>1. ledgerSettled'[e] = ledgerSettled[e]
    BY <1>2, <1>4, SettledOf, LedgerTypes
  <2> QED
    BY <1>1, <2>1, LedgerTypes
<1> QED
  BY <1>3, <1>4

LedgerStep == [Ledger!Next]_<<ledgerPhase, ledgerSettled>>

\* The event of the message a worker is processing was accepted.
LEMMA MessageAccepted ==
  ASSUME TypeInv, Originates, NEW w \in Workers, pc[w] \in MessagePCs
  PROVE  /\ Event(w) \in Events /\ Accepted(Event(w))
         /\ msg[w] \in Ids /\ Event(w) = stream[msg[w]].event
<1>1. RedisTypes /\ LoopTypes
  BY Owners
<1>2. msg[w] \in Ids /\ msg[w] \in 1..last /\ Event(w) \in Events
  BY <1>1, MessageTypes
<1>3. group
  BY DEF Originates, MessagePCs, HandlerCalls, MessageCalls
<1>4. msg[w] > origin
  BY <1>2 DEF Originates
<1> QED
  BY <1>2, <1>3, <1>4 DEF Accepted, Event

LEMMA LoopLedger ==
  ASSUME SafeInv, Originates, NEW w \in Workers, Loop(w)
  PROVE  LedgerStep
<1>1. TypeInv /\ NoLoss /\ Progress(w)
  BY DEF SafeInv
<1>2. RedisTypes /\ LoopTypes
  BY <1>1, Owners
<1>3. HistoryGrows
  BY <1>1, LoopHistory
<1>4. LoopEffect(w)
  BY <1>1, LoopEffects
<1>5. ASSUME pc[w] \in MessagePCs
      PROVE  /\ Event(w) \in Events /\ Accepted(Event(w))
             /\ msg[w] \in Ids /\ Event(w) = stream[msg[w]].event
             /\ Live(Event(w)) \/ Accounted(Event(w))
  BY <1>1, <1>5, MessageAccepted DEF NoLoss
<1>6. CASE KeepsPhases
  <2>1. ledgerPhase' = ledgerPhase
    BY <1>6, OthersSteady, AllSteady DEF KeepsPhases
  <2>2. CASE KeepsHistory
    BY <2>1, <2>2, AllKept DEF LedgerStep
  <2>3. CASE pc[w] \in MessagePCs /\ SettlesOnly(Event(w))
    BY <1>3, <1>5, <2>1, <2>3, SettleStep
       DEF LedgerStep, Ledger!Next, Ledger!Settle
  <2>4. CASE pc[w] = "retry" /\ SettlesOnly(Event(w))
    BY <2>3, <2>4 DEF MessagePCs, HandlerCalls
  <2>5. KeepsHistory \/ (pc[w] \in MessagePCs /\ SettlesOnly(Event(w)))
    BY <1>4 DEF LoopEffect, MessagePCs, HandlerCalls
  <2> QED
    BY <2>2, <2>3, <2>5
<1>7. CASE /\ \E n \in Nat : last + n <= Len(stream) /\ XReadGroup(n)
           /\ KeepsHistory
  BY <1>2, <1>7, XReadGroupSteady, AllSteady, AllKept DEF LedgerStep
<1>8. CASE pc[w] \in {"drop", "ack", "finalack"} /\ XAck(msg[w]) /\ KeepsHistory
  <2>0. PICK e \in Events : e = Event(w)
    BY <1>5, <1>8 DEF MessagePCs, MessageCalls
  <2>1. /\ Accepted(e) /\ e = stream[msg[w]].event
        /\ ledgerSettled' = ledgerSettled
    BY <2>0, <1>5, <1>8, AllKept DEF MessagePCs, MessageCalls
  <2>2. msg[w] \in pel => Accounted(e)
    BY <1>1, <1>8, <2>0 DEF Progress, Over, Accounted
  <2>3. /\ \A d \in Events : d # e => Steady(d)
        /\ (Published(e)' <=> Published(e)) /\ Accepted(e)'
        /\ Live(e)' => Live(e)
        /\ msg[w] \notin pel => Steady(e)
    BY <1>2, <1>8, <2>1, XAckSteady
  <2>4. CASE Steady(e)
    BY <2>1, <2>3, <2>4, AllSteady DEF LedgerStep
  <2>5. CASE ~Steady(e)
    <3>1. Live(e) /\ ~Live(e)' /\ Accounted(e)
      BY <2>1, <2>2, <2>3, <2>5 DEF Steady
    <3>2. ledgerPhase[e] = "open" /\ ledgerPhase'[e] = "closed"
      BY <2>1, <2>3, <3>1, PhaseOf, PhaseOfNext
    <3>3. ledgerSettled[e] = Handlers
      BY <2>1, <3>1, SettledOf
    <3>4. ledgerPhase' = [ledgerPhase EXCEPT ![e] = "closed"]
      BY <2>1, <2>3, <3>2, SteadyPhase, LedgerTypes
    <3>5. Ledger!Close(e)
      BY <2>1, <3>2, <3>3, <3>4 DEF Ledger!Close
    <3> QED
      BY <2>1, <3>5 DEF LedgerStep, Ledger!Next
  <2> QED
    BY <2>4, <2>5
<1>9. CASE /\ pc[w] = "retry" /\ ZAddAndAck(RetryMember(w), msg[w])
           /\ SettlesOnly(Event(w))
  <2>0. PICK e \in Events : e = Event(w)
    BY <1>5, <1>9 DEF MessagePCs, HandlerCalls
  <2>1. /\ Accepted(e) /\ msg[w] \in Ids /\ SettlesOnly(e)
        /\ stream[msg[w]].event = RetryMember(w).event
        /\ RetryMember(w).event = e /\ (Live(e) \/ Accounted(e))
    BY <2>0, <1>5, <1>9 DEF MessagePCs, HandlerCalls, RetryMember
  <2>2. /\ \A d \in Events : d # e => Steady(d)
        /\ Published(e) /\ Published(e)' /\ Accepted(e)' /\ Live(e)'
    BY <1>2, <1>9, <2>1, ZAddAndAckSteady
  <2>3. /\ ledgerPhase'[e] = "open"
        /\ \A d \in Events : d # e => ledgerPhase'[d] = ledgerPhase[d]
    BY <2>1, <2>2, PhaseOfNext, SteadyPhase
  <2>4. CASE Live(e)
    <3>1. ledgerPhase' = ledgerPhase
      BY <2>1, <2>2, <2>3, <2>4, PhaseOf, LedgerTypes
    <3> QED
      BY <1>3, <1>9, <2>1, <3>1, SettleStep DEF LedgerStep, Ledger!Next, Ledger!Settle
  <2>5. CASE ~Live(e)
    <3>1. ledgerPhase[e] = "closed"
      BY <2>1, <2>2, <2>5, PhaseOf
    <3>2. ledgerSettled' = ledgerSettled
      BY <1>3, <1>9, <2>1, <3>1, SettleStep
    <3>3. ledgerPhase' = [d \in Events |-> IF d \in {e} THEN "open" ELSE ledgerPhase[d]]
      BY <2>3, LedgerTypes
    <3>4. Ledger!Reopen({e})
      BY <3>1, <3>2, <3>3 DEF Ledger!Reopen
    <3> QED
      BY <2>1, <3>4 DEF LedgerStep, Ledger!Next
  <2> QED
    BY <2>4, <2>5
<1> QED
  BY <1>4, <1>6, <1>7, <1>8, <1>9 DEF LoopEffect

LEMMA RequeueLedger ==
  ASSUME SafeInv, Originates, Originates', NEW w \in Workers, Requeue(w)
  PROVE  LedgerStep
<1>1. RedisTypes /\ LoopTypes
  BY Owners DEF SafeInv
<1>2. fetched[w] \in SUBSET Members /\ IsFiniteSet(fetched[w])
  BY <1>1 DEF LoopTypes, WorkerOK
<1>3. PICK s \in Orders(fetched[w]) : AddAndZRem(s)
  BY DEF Requeue
<1>4. ledgerSettled' = ledgerSettled
  <2>1. KeepsHistory
    BY <1>3 DEF Requeue, historyVars, AddAndZRem, KeepsHistory
  <2> QED
    BY <2>1, AllKept
<1> DEFINE Back == {e \in Events : \E m \in fetched[w] : m.event = e}
           S == {e \in Back : ~Live(e)}
<1>5. ASSUME NEW e \in Back
      PROVE  Accepted(e) /\ Accepted(e)' /\ Published(e)' /\ Live(e)'
  <2>1. Accepted(e)
    BY DEF Originates
  <2> QED
    BY <1>1, <1>2, <1>3, <2>1, AddAndZRemSteady
<1>6. \A e \in Events \ Back : Steady(e)
  BY <1>1, <1>2, <1>3, AddAndZRemSteady
<1>7. \A e \in Back : /\ ledgerPhase'[e] = "open"
                      /\ Live(e) => ledgerPhase[e] = "open"
                      /\ ~Live(e) => ledgerPhase[e] = "closed"
  BY <1>5, PhaseOf, PhaseOfNext
<1> HIDE DEF Back
<1>8. \A e \in Events : e \in Back \/ ledgerPhase'[e] = ledgerPhase[e]
  BY <1>6, SteadyPhase
<1>9. S \in SUBSET Events /\ S \subseteq Back /\ \A e \in Back : e \in S <=> ~Live(e)
  BY DEF Back
<1> HIDE DEF S
<1>10. \A e \in Events :
         ledgerPhase'[e] = IF e \in S THEN "open" ELSE ledgerPhase[e]
  BY <1>7, <1>8, <1>9
<1>11. ledgerPhase' = [e \in Events |-> IF e \in S THEN "open" ELSE ledgerPhase[e]]
  BY <1>10, LedgerTypes
<1>12. Ledger!Reopen(S)
  BY <1>4, <1>7, <1>9, <1>11 DEF Ledger!Reopen
<1> QED
  BY <1>9, <1>12 DEF LedgerStep, Ledger!Next

LEMMA PublishLedger ==
  ASSUME SafeInv, NEW e \in Events, Publish(e)
  PROVE  LedgerStep
<1>1. RedisTypes
  BY Owners DEF SafeInv
<1>2. XAdd([event |-> e, attempt |-> 1]) /\ [event |-> e, attempt |-> 1] \in Entries
  BY DEF Publish, Entries
<1>3. /\ \A d \in Events : d # e => Steady(d)
      /\ Published(e)' /\ Live(e)' /\ (group => Accepted(e)') /\ group' = group
  BY <1>1, <1>2, XAddSteady
<1>4. Accepted(e)' => group'
  BY DEF Accepted
<1>5. ledgerPhase[e] = "unpublished" /\ ledgerPhase'[e] \in {"missed", "open"}
  <2>1. ~Published(e)
    BY DEF Publish, Published
  <2> QED
    BY <1>3, <2>1, PhaseOf, PhaseOfNext
<1>6. ledgerPhase' = [ledgerPhase EXCEPT ![e] = ledgerPhase'[e]]
  BY <1>3, SteadyPhase, LedgerTypes
<1>7. ledgerSettled' = ledgerSettled
  <2>1. KeepsHistory
    BY <1>2 DEF Publish, historyVars, XAdd, KeepsHistory
  <2> QED
    BY <2>1, AllKept
<1>8. Ledger!Publish(e)
  BY <1>5, <1>6, <1>7 DEF Ledger!Publish
<1> QED
  BY <1>8 DEF LedgerStep, Ledger!Next

LEMMA LedgerNext ==
  ASSUME "contract" \notin FaultCalls, SafeInv, Originates, Originates', [Next]_vars
  PROVE  LedgerStep
<1>1. RedisTypes
  BY Owners DEF SafeInv
<1>2. ASSUME KeepsPhases, KeepsHistory PROVE LedgerStep
  BY <1>2, OthersSteady, AllSteady, AllKept DEF KeepsPhases, LedgerStep
<1>3. ASSUME NEW w \in Workers, Start(w) PROVE LedgerStep
  <2>1. KeepsHistory
    BY <1>3 DEF Start, XGroupCreate, Returned, KeepsHistory
  <2> QED
    BY <1>1, <1>3, <2>1, XGroupCreateSteady, AllSteady, AllKept DEF Start, LedgerStep
<1>4. ASSUME NEW w \in Workers, Poll(w) \/ SchedulerFails(w) \/ Crash(w)
      PROVE  LedgerStep
  <2>1. KeepsPhases /\ KeepsHistory
    BY <1>4 DEF Poll, SchedulerFails, Crash, redisVars, historyVars, KeepsPhases,
       KeepsHistory
  <2> QED
    BY <1>2, <2>1
<1>5. CASE Tick
  <2>1. KeepsPhases /\ KeepsHistory
    BY <1>5 DEF Tick, Idles, GoIdle, FallsDue, BecomeDue, Expires, Expire,
       historyVars, KeepsPhases, KeepsHistory
  <2> QED
    BY <1>2, <2>1
<1>6. CASE UNCHANGED vars
  <2>1. KeepsPhases /\ KeepsHistory
    BY <1>6 DEF vars, redisVars, historyVars, KeepsPhases, KeepsHistory
  <2> QED
    BY <1>2, <2>1
<1> QED
  BY <1>3, <1>4, <1>5, <1>6, LoopLedger, RequeueLedger, PublishLedger DEF Next, Scheduler

LEMMA LedgerInit == Init => Ledger!Init
<1> SUFFICES ASSUME Init PROVE Ledger!Init
  OBVIOUS
<1>1. ledgerPhase = [e \in Events |-> "unpublished"]
  <2>1. \A e \in Events : ~Published(e)
    BY DEF Init, RedisInit, Published, Ids
  <2> QED
    BY <2>1, PhaseOf, LedgerTypes
<1>2. \A h \in Handlers, e \in Events : ~Settled(h, e)
  BY DEF Init, RedisInit, Settled
<1>3. ledgerSettled = [e \in Events |->
                         IF e \in {d \in Events : Kind[d] = "empty"}
                         THEN Handlers ELSE {}]
  BY <1>2 DEF ledgerSettled
<1> QED
  BY <1>1, <1>3 DEF Ledger!Init

\* Delivery implements the ledger: whatever the workers, the retry schedulers,
\* crashes, failed calls (the swallowed one excepted) and expiring keys do, an
\* event accepted by the group is closed only when every handler has settled
\* it, only an open event is settled, nothing settled is unsettled, and what
\* was published before the group existed is never delivered.
THEOREM ImplementsLedgerHolds ==
  ASSUME "contract" \notin FaultCalls
  PROVE  Spec => ImplementsLedger
<1>1. Init => SafeInv /\ Originates /\ Ledger!Init
  BY SafeInvInit, OriginatesInit, LedgerInit
<1>2. SafeInv /\ Originates /\ [Next]_vars => (SafeInv /\ Originates)'
  <2>1. SafeInv => TypeInv
    BY DEF SafeInv
  <2> QED
    BY <2>1, SafeInvStep, OriginatesStep
<1>3. /\ SafeInv /\ Originates /\ (SafeInv /\ Originates)' /\ [Next]_vars
      => [Ledger!Next]_Ledger!ledgerVars
  BY LedgerNext DEF LedgerStep, Ledger!ledgerVars
<1> QED
  BY <1>1, <1>2, <1>3, PTL DEF Spec, ImplementsLedger, Ledger!Spec
=============================================================================
