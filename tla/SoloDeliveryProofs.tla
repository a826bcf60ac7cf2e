------------------------- MODULE SoloDeliveryProofs -------------------------
(***************************************************************************)
(* Theorems about EvoraDelivery with one worker: how often a handler runs, *)
(* returns and is tried, and how many copies of an event exist.  None of   *)
(* them holds for two workers, which can process two copies, or reclaim    *)
(* one entry, at the same time.                                            *)
(***************************************************************************)
EXTENDS EvoraDeliveryProofs

OneWorker == \A v, w \in Workers : v = w

-----------------------------------------------------------------------------
(* Where each move of the loop lands.                                      *)

EntryPCs == {"drop", "poison", "contract", "unmatched", "brokerdlq", "seen"}

\* w takes up a message of S and keeps the rest of S for later.
TakesUp(w, S) ==
  \E id \in S :
    /\ pc'[w] = EntryPC(id) /\ EntryPC(id) \in EntryPCs
    /\ batch'[w] = S \ {id} /\ msg'[w] = id /\ hi'[w] = 1

\* w goes on with its message: only the control point and the handler change.
SameMessage(w) == batch'[w] = batch[w] /\ msg'[w] = msg[w]

\* After handler hi[w]: the next one, or the end of the message.
PassesOn(w) ==
  /\ SameMessage(w)
  /\ \/ /\ hi[w] < NumHandlers /\ hi'[w] = hi[w] + 1
        /\ pc'[w] = HandlerPC(hi[w] + 1)
     \/ hi[w] >= NumHandlers /\ hi'[w] = hi[w] /\ pc'[w] = "ack"

\* The process has ended.
Ended(w) == pc'[w] = "down" /\ batch'[w] = {} /\ fetched'[w] = {}

LEMMA ProcessLands ==
  ASSUME RedisTypes, LoopTypes, NEW w \in Workers, NEW S \in SUBSET Ids, Process(w, S)
  PROVE  \/ S = {} /\ pc'[w] = "autoclaim" /\ batch'[w] = {}
         \/ TakesUp(w, S)
<1>1. CASE S = {}
  BY <1>1 DEF Process, LoopTypes
<1>2. ASSUME NEW id \in S,
             pc' = [pc EXCEPT ![w] = EntryPC(id)],
             batch' = [batch EXCEPT ![w] = S \ {id}],
             msg' = [msg EXCEPT ![w] = id],
             hi' = [hi EXCEPT ![w] = 1]
      PROVE  TakesUp(w, S)
  <2>1. EntryPC(id) \in EntryPCs
    BY EntryPCType DEF EntryPCs
  <2> QED
    BY <1>2, <2>1 DEF TakesUp, LoopTypes
<1> QED
  BY <1>1, <1>2 DEF Process

LEMMA NextHandlerLands ==
  ASSUME LoopTypes, NEW w \in Workers, NextHandler(w)
  PROVE  PassesOn(w) /\ pc'[w] \in {"seen", "brokerdlq", "ack"}
<1>1. HandlerPC(hi[w] + 1) \in {"brokerdlq", "seen"}
  BY HandlerPCType
<1>2. hi[w] \in 0..NumHandlers /\ NumHandlers \in Nat
  BY RedisAssumption DEF LoopTypes
<1> QED
  BY <1>1, <1>2 DEF NextHandler, PassesOn, SameMessage, LoopTypes

LEMMA GiveUpLands ==
  ASSUME LoopTypes, NEW w \in Workers, NEW label, NEW error, GiveUp(w, label, error)
  PROVE  \/ pc'[w] = label /\ err'[w] = error /\ SameMessage(w) /\ hi'[w] = hi[w]
         \/ PassesOn(w) /\ pc'[w] \in {"seen", "brokerdlq", "ack"}
<1>1. CASE hi[w] \in Dlq
  BY <1>1 DEF GiveUp, SameMessage, LoopTypes
<1>2. CASE hi[w] \notin Dlq
  BY <1>2, NextHandlerLands DEF GiveUp
<1> QED
  BY <1>1, <1>2

\* Where an exception leaves the loop.
RaiseLands(w) ==
  \/ /\ pc[w] \in HandlerCalls \ {"rescue"}
     /\ pc'[w] = "rescue" /\ SameMessage(w) /\ hi'[w] = hi[w]
  \/ /\ pc[w] \in HandlerCalls \ {"rescue"}
     /\ PassesOn(w) /\ pc'[w] \in {"seen", "brokerdlq", "ack"}
  \/ /\ pc[w] \in {"rescue", "unmatched", "ack", "contract"}
     /\ pc'[w] = IF pc[w] = "contract" THEN "ack" ELSE "brokerdlq"
     /\ SameMessage(w) /\ hi'[w] = hi[w]
  \/ pc[w] = "autoclaim" /\ pc'[w] = "pending" /\ SameMessage(w)
  \/ pc[w] \notin HandlerCalls /\ Ended(w)

LEMMA OnRaiseLands ==
  ASSUME LoopTypes, NEW w \in Workers, OnRaise(w)
  PROVE  RaiseLands(w) /\ (fetched'[w] = fetched[w] \/ Ended(w))
<1>1. CASE pc[w] \in HandlerCalls \ {"rescue"} /\ GiveUp(w, "rescue", "RedisError")
           /\ UNCHANGED fetched
  <2>1. \/ pc'[w] = "rescue" /\ SameMessage(w) /\ hi'[w] = hi[w]
        \/ PassesOn(w) /\ pc'[w] \in {"seen", "brokerdlq", "ack"}
    BY <1>1, GiveUpLands
  <2> QED
    BY <1>1, <2>1 DEF RaiseLands
<1>2. CASE pc[w] \in {"rescue", "unmatched", "ack"} /\ Goto(w, "brokerdlq")
           /\ UNCHANGED <<fetched, dropped>>
  BY <1>2 DEF Goto, RaiseLands, SameMessage, LoopTypes
<1>3. CASE pc[w] = "contract" /\ Goto(w, "ack") /\ UNCHANGED <<fetched, dropped>>
  BY <1>3 DEF Goto, RaiseLands, SameMessage, LoopTypes
<1>4. CASE pc[w] = "autoclaim" /\ Goto(w, "pending") /\ UNCHANGED <<fetched, dropped>>
  BY <1>4 DEF Goto, RaiseLands, SameMessage, LoopTypes
<1>5. CASE /\ pc[w] \in {"pending", "claim", "read", "drop", "poison",
                         "brokerdlq", "finalack"}
           /\ Die(w) /\ UNCHANGED dropped
  BY <1>5 DEF Die, RaiseLands, Ended, HandlerCalls, LoopTypes
<1> QED
  BY <1>1, <1>2, <1>3, <1>4, <1>5 DEF OnRaise

LEMMA RaisedLands ==
  ASSUME LoopTypes, NEW w \in Workers, Raised(w)
  PROVE  /\ RaiseLands(w) /\ (fetched'[w] = fetched[w] \/ Ended(w))
         /\ faults < MaxFaults /\ faults' = faults + 1
BY OnRaiseLands DEF Raised

\* A call that has its effect moves as it says, or raises.
LEMMA OutcomeLands ==
  ASSUME LoopTypes, NEW w \in Workers, NEW ACTION move, Outcome(w, move)
  PROVE  \/ move /\ fetched'[w] = fetched[w] /\ faults' = faults
         \/ /\ RaiseLands(w) /\ (fetched'[w] = fetched[w] \/ Ended(w))
            /\ faults < MaxFaults /\ faults' = faults + 1
BY RaisedLands DEF Outcome, Returned

-----------------------------------------------------------------------------
(* The steps of the loop, by what they do to the copies of events.         *)

\* The entries that will still be processed: not delivered, or pending.
Waiting(id) == id > last \/ id \in pel

SameWaiting ==
  /\ UNCHANGED <<stream, retryz>> /\ pel \subseteq pel'
  /\ \A id \in Ids : Waiting(id)' <=> Waiting(id)

\* Reclaims, lists or reads.
Looks(w) ==
  /\ pc[w] \in IdleCalls /\ SameWaiting /\ UNCHANGED <<keys, runs, done>>
  /\ fetched'[w] = fetched[w]
  /\ \/ pc'[w] \in IdleCalls /\ (batch'[w] \subseteq pel \/ batch'[w] = batch[w])
     \/ \E S \in SUBSET pel' : TakesUp(w, S)

\* Acknowledges its message and turns to the next one.
Acks(w) ==
  /\ pc[w] \in {"drop", "ack", "finalack"} /\ XAck(msg[w])
  /\ UNCHANGED <<runs, done>> /\ fetched'[w] = fetched[w]
  /\ \/ batch[w] = {} /\ pc'[w] = "autoclaim" /\ batch'[w] = {}
     \/ TakesUp(w, batch[w])
     \/ pc'[w] = "brokerdlq" /\ SameMessage(w) /\ hi'[w] = hi[w]

\* Goes on with its message: the handler raises, a call returns or raises.
Works(w) ==
  /\ pc[w] \in MessagePCs /\ SameMessage(w) /\ fetched'[w] = fetched[w]
  /\ UNCHANGED <<stream, last, pel, retryz, runs, done>>
  /\ keys' = keys \/ (pc[w] = "mark" /\ keys' = keys \cup {Key(w)})
  /\ pc[w] = "mark" => Key(w) \in keys' \/ faults' = faults + 1
  /\ pc[w] = "seen" => faults' = faults + 1
  /\ \/ /\ pc[w] = "run" /\ hi'[w] = hi[w]
        /\ \/ pc'[w] = "retry" /\ CanRetry(w, err'[w])
           \/ pc'[w] = "dlq" /\ ~CanRetry(w, err'[w])
     \/ /\ pc[w] \in HandlerCalls \cup {"run"} /\ PassesOn(w)
        /\ pc'[w] \in {"seen", "brokerdlq", "ack"}
     \/ /\ pc[w] \in HandlerCalls /\ pc'[w] = "rescue" /\ hi'[w] = hi[w]
        /\ faults' = faults + 1
     \/ /\ pc[w] \in MessageCalls \cup {"rescue"} /\ hi'[w] = hi[w]
        /\ pc'[w] \in {"brokerdlq", "ack", "finalack"}

\* Asks whether the handler has completed the event, and runs it or not.
Asks(w) ==
  /\ pc[w] = "seen" /\ SameMessage(w) /\ fetched'[w] = fetched[w]
  /\ UNCHANGED <<redisVars, done>>
  /\ \/ Key(w) \in keys /\ PassesOn(w) /\ UNCHANGED runs
     \/ /\ Key(w) \notin keys /\ pc'[w] = "run" /\ hi'[w] = hi[w]
        /\ runs' = Bump(runs, Key(w))
  /\ pc'[w] \in {"run", "seen", "brokerdlq", "ack"}

\* The handler returns.
Completes(w) ==
  /\ pc[w] = "run" /\ pc'[w] = "mark" /\ hi'[w] = hi[w] /\ SameMessage(w)
  /\ fetched'[w] = fetched[w] /\ UNCHANGED <<redisVars, runs>>
  /\ done' = Bump(done, Key(w))

\* Exchanges its message for a retry.
Exchanges(w) ==
  /\ pc[w] = "retry" /\ SameMessage(w) /\ fetched'[w] = fetched[w]
  /\ ZAddAndAck(RetryMember(w), msg[w]) /\ UNCHANGED <<runs, done>>
  /\ \/ PassesOn(w) /\ pc'[w] \in {"seen", "brokerdlq", "ack"}
     \/ pc'[w] = "rescue" /\ hi'[w] = hi[w] /\ faults' = faults + 1

\* The process ends on a failed call, which may have been an XACK.
Fails(w) ==
  /\ Ended(w) /\ faults' = faults + 1 /\ UNCHANGED <<keys, runs, done>>
  /\ SameWaiting \/ (pc[w] \in MessagePCs /\ XAck(msg[w]))

LoopKinds(w) ==
  /\ crashes' = crashes /\ faults' \in {faults, faults + 1}
  /\ faults' # faults => faults < MaxFaults
  /\ \/ Looks(w) \/ Acks(w) \/ Works(w) \/ Asks(w)
     \/ Completes(w) \/ Exchanges(w) \/ Fails(w)

LEMMA SameIsSameWaiting ==
  ASSUME UNCHANGED <<stream, last, pel, retryz>>
  PROVE  SameWaiting
BY DEF SameWaiting, Waiting

LEMMA LooksKind ==
  ASSUME TypeInv, NEW w \in Workers, FindWork(w), UNCHANGED <<runs, done, crashes>>
  PROVE  LoopKinds(w)
<1>1. RedisTypes /\ LoopTypes /\ HistoryTypes
  BY Owners
<1>2. pel \subseteq Ids /\ idle \subseteq pel
  BY <1>1 DEF RedisTypes, ServerOK, Ids
<1>3. ASSUME NEW S \in SUBSET Ids, S \subseteq pel', SameWaiting, keys' = keys,
             Process(w, S), fetched'[w] = fetched[w], faults' = faults,
             pc[w] \in IdleCalls
      PROVE  LoopKinds(w)
  <2>1. \/ S = {} /\ pc'[w] = "autoclaim" /\ batch'[w] = {}
        \/ TakesUp(w, S)
    BY <1>1, <1>3, ProcessLands
  <2>2. Looks(w)
    BY <1>3, <2>1 DEF Looks, IdleCalls
  <2> QED
    BY <1>3, <2>2 DEF LoopKinds
<1>4. ASSUME SameWaiting, keys' = keys, pc[w] \in IdleCalls,
             RaiseLands(w), fetched'[w] = fetched[w] \/ Ended(w),
             faults < MaxFaults /\ faults' = faults + 1
      PROVE  LoopKinds(w)
  <2>1. CASE Ended(w)
    BY <1>4, <2>1 DEF Fails, LoopKinds
  <2>2. CASE ~Ended(w)
    <3>1. pc'[w] = "pending" /\ batch'[w] = batch[w] /\ fetched'[w] = fetched[w]
      BY <1>4, <2>2 DEF RaiseLands, SameMessage, IdleCalls, HandlerCalls
    <3>2. Looks(w)
      BY <1>4, <3>1 DEF Looks, IdleCalls
    <3> QED
      BY <1>4, <3>2 DEF LoopKinds
  <2> QED
    BY <2>1, <2>2
<1>5. ASSUME NEW S \in SUBSET pel, XClaim(S), Outcome(w, Claimed(w, S)),
             pc[w] \in IdleCalls
      PROVE  LoopKinds(w)
  <2>1. SameWaiting /\ keys' = keys /\ S \subseteq pel' /\ S \in SUBSET Ids
    BY <1>2, <1>5, SameIsSameWaiting DEF XClaim
  <2>2. CASE RaiseLands(w) /\ (fetched'[w] = fetched[w] \/ Ended(w))
             /\ faults < MaxFaults /\ faults' = faults + 1
    BY <1>4, <1>5, <2>1, <2>2
  <2>3. CASE Claimed(w, S) /\ fetched'[w] = fetched[w] /\ faults' = faults
    <3>1. CASE S = {}
      <4>1. pc'[w] = "read" /\ batch'[w] = {}
        BY <1>1, <2>3, <3>1 DEF Claimed, LoopTypes
      <4>2. Looks(w)
        BY <1>5, <2>1, <2>3, <4>1 DEF Looks, IdleCalls
      <4> QED
        BY <2>3, <4>2 DEF LoopKinds
    <3>2. CASE S # {}
      BY <1>3, <1>5, <2>1, <2>3, <3>2 DEF Claimed
    <3> QED
      BY <3>1, <3>2
  <2> QED
    BY <1>1, <1>5, <2>2, <2>3, OutcomeLands
<1>6. CASE AutoClaim(w)
  <2>1. FirstOf(ReclaimCount, idle) \in SUBSET pel
    BY <1>2 DEF FirstOf
  <2> QED
    BY <1>5, <1>6, <2>1 DEF AutoClaim, IdleCalls
<1>7. CASE NoAutoClaim(w)
  <2>1. /\ SameWaiting /\ keys' = keys /\ faults' = faults
        /\ pc[w] = "autoclaim" /\ OnRaise(w)
    BY <1>7, SameIsSameWaiting DEF NoAutoClaim, redisVars
  <2>2. pc'[w] = "pending" /\ batch'[w] = batch[w] /\ fetched'[w] = fetched[w]
    BY <1>1, <2>1 DEF OnRaise, Goto, LoopTypes, HandlerCalls
  <2>3. Looks(w)
    BY <1>7, <2>1, <2>2 DEF Looks, IdleCalls
  <2> QED
    BY <2>1, <2>3 DEF LoopKinds
<1>8. CASE ListPending(w)
  <2>1. SameWaiting /\ keys' = keys /\ faults' = faults /\ fetched'[w] = fetched[w]
    BY <1>8, SameIsSameWaiting DEF ListPending, Returned, redisVars
  <2>2. pc[w] \in IdleCalls /\ pc'[w] \in IdleCalls
        /\ (batch'[w] \subseteq pel \/ batch'[w] = batch[w])
    <3> DEFINE ids == FirstOf(ReclaimCount, pel) \cap idle
    <3>1. ids \subseteq pel
      BY <1>2
    <3>2. \/ Goto(w, "read")
          \/ pc' = [pc EXCEPT ![w] = "claim"] /\ batch' = [batch EXCEPT ![w] = ids]
      BY <1>8 DEF ListPending
    <3> HIDE DEF ids
    <3> QED
      BY <1>1, <1>8, <3>1, <3>2 DEF Goto, LoopTypes, IdleCalls, ListPending
  <2>3. Looks(w)
    BY <1>8, <2>1, <2>2 DEF Looks
  <2> QED
    BY <2>1, <2>3 DEF LoopKinds
<1>9. CASE ClaimListed(w)
  <2>1. batch[w] \cap idle \in SUBSET pel
    BY <1>2
  <2> QED
    BY <1>5, <1>9, <2>1 DEF ClaimListed, IdleCalls
<1>10. CASE ReadNew(w)
  <2> DEFINE left == Len(stream) - last
             n == IF left < BatchSize THEN left ELSE BatchSize
             S == (last + 1)..(last + n)
  <2>1. pc[w] \in IdleCalls /\ XReadGroup(n) /\ Outcome(w, Process(w, S))
    BY <1>10 DEF ReadNew, IdleCalls
  <2>2. n \in Nat /\ last \in Nat /\ last + n <= Len(stream) /\ Len(stream) \in Nat
    BY <1>1, DeliveryAssumption DEF RedisTypes, ServerOK
  <2> HIDE DEF n
  <2>3. last' = last + n /\ pel' = pel \cup S /\ UNCHANGED <<stream, retryz, keys>>
    BY <2>1 DEF XReadGroup
  <2>4. S \in SUBSET Ids /\ S \subseteq pel'
    BY <2>2, <2>3 DEF Ids
  <2>5. SameWaiting
    BY <2>2, <2>3 DEF SameWaiting, Waiting, Ids
  <2> HIDE DEF S
  <2> QED
    BY <1>1, <1>3, <1>4, <2>1, <2>3, <2>4, <2>5, OutcomeLands
<1> QED
  BY <1>6, <1>7, <1>8, <1>9, <1>10 DEF FindWork

LEMMA AcksKind ==
  ASSUME TypeInv, NEW w \in Workers, Drop(w) \/ Ack(w) \/ FinalAck(w),
         UNCHANGED <<runs, done, crashes>>
  PROVE  LoopKinds(w)
<1>1. RedisTypes /\ LoopTypes /\ HistoryTypes
  BY Owners
<1>2. /\ pc[w] \in {"drop", "ack", "finalack"} /\ XAck(msg[w])
      /\ Outcome(w, Process(w, batch[w]))
  BY DEF Drop, Ack, FinalAck
<1>3. batch[w] \in SUBSET Ids
  BY <1>1 DEF RedisTypes, ServerOK, LoopTypes, WorkerOK, Ids
<1>4. CASE Process(w, batch[w]) /\ fetched'[w] = fetched[w] /\ faults' = faults
  <2>1. \/ batch[w] = {} /\ pc'[w] = "autoclaim" /\ batch'[w] = {}
        \/ TakesUp(w, batch[w])
    BY <1>1, <1>3, <1>4, ProcessLands
  <2>2. Acks(w)
    BY <1>2, <1>4, <2>1 DEF Acks
  <2> QED
    BY <1>4, <2>2 DEF LoopKinds
<1>5. CASE RaiseLands(w) /\ (fetched'[w] = fetched[w] \/ Ended(w))
           /\ faults < MaxFaults /\ faults' = faults + 1
  <2>1. CASE Ended(w)
    <3>1. Fails(w)
      BY <1>2, <1>5, <2>1 DEF Fails, XAck, MessagePCs, MessageCalls
    <3> QED
      BY <1>5, <3>1 DEF LoopKinds
  <2>2. CASE ~Ended(w)
    <3>1. pc'[w] = "brokerdlq" /\ SameMessage(w) /\ hi'[w] = hi[w]
      BY <1>2, <1>5, <2>2 DEF RaiseLands, HandlerCalls
    <3>2. Acks(w)
      BY <1>2, <1>5, <2>2, <3>1 DEF Acks
    <3> QED
      BY <1>5, <3>2 DEF LoopKinds
  <2> QED
    BY <2>1, <2>2
<1> QED
  BY <1>1, <1>2, <1>4, <1>5, OutcomeLands

\* A handler's call or a dead letter of the broker raises.
LEMMA RaiseWorks ==
  ASSUME TypeInv, NEW w \in Workers, pc[w] \in MessagePCs,
         UNCHANGED <<stream, last, pel, retryz, runs, done, crashes>>,
         keys' = keys \/ (pc[w] = "mark" /\ keys' = keys \cup {Key(w)}),
         RaiseLands(w), fetched'[w] = fetched[w] \/ Ended(w),
         faults < MaxFaults, faults' = faults + 1
  PROVE  LoopKinds(w)
<1>1. CASE Ended(w)
  <2>1. pc[w] \notin HandlerCalls
    BY <1>1 DEF RaiseLands, PassesOn, Ended, HandlerCalls
  <2>2. UNCHANGED <<keys, runs, done>> /\ SameWaiting
    BY <2>1, SameIsSameWaiting DEF HandlerCalls
  <2>3. Fails(w)
    BY <1>1, <2>2 DEF Fails
  <2> QED
    BY <2>3 DEF LoopKinds
<1>2. CASE ~Ended(w)
  <2>1. fetched'[w] = fetched[w] /\ SameMessage(w)
    BY <1>2 DEF RaiseLands, PassesOn
  <2>2. \/ /\ pc[w] \in HandlerCalls \cup {"run"} /\ PassesOn(w)
           /\ pc'[w] \in {"seen", "brokerdlq", "ack"}
        \/ pc[w] \in HandlerCalls /\ pc'[w] = "rescue" /\ hi'[w] = hi[w]
        \/ /\ pc[w] \in MessageCalls \cup {"rescue"} /\ hi'[w] = hi[w]
           /\ pc'[w] \in {"brokerdlq", "ack", "finalack"}
    BY <1>2 DEF RaiseLands, HandlerCalls, MessageCalls, MessagePCs
  <2>3. Works(w)
    BY <2>1, <2>2 DEF Works
  <2> QED
    BY <2>3 DEF LoopKinds
<1> QED
  BY <1>1, <1>2

LEMMA WorksKind ==
  ASSUME TypeInv, NEW w \in Workers,
         \/ Poison(w) \/ Contract(w) \/ Unmatched(w) \/ BrokerDlq(w)
         \/ HandlerRaises(w) \/ SendDlq(w) \/ MarkSeen(w),
         UNCHANGED <<runs, done, crashes>>
  PROVE  LoopKinds(w)
<1>1. RedisTypes /\ LoopTypes /\ HistoryTypes
  BY Owners
<1>2. pc[w] \in MessagePCs
  BY DEF Poison, Contract, Unmatched, BrokerDlq, HandlerRaises, SendDlq, MarkSeen,
     MessagePCs, HandlerCalls, MessageCalls
<1>3. /\ UNCHANGED <<stream, last, pel, retryz>>
      /\ keys' = keys \/ (pc[w] = "mark" /\ keys' = keys \cup {Key(w)})
  BY DEF Poison, Contract, Unmatched, BrokerDlq, HandlerRaises, SendDlq, MarkSeen,
     DlqAdd, SetKey, redisVars
<1>4. ASSUME Works(w), faults' = faults
      PROVE  LoopKinds(w)
  BY <1>4 DEF LoopKinds
<1>5. ASSUME NEW label \in {"finalack", "ack"}, Outcome(w, Goto(w, label)),
             pc[w] \in MessageCalls
      PROVE  LoopKinds(w)
  <2>1. CASE Goto(w, label) /\ fetched'[w] = fetched[w] /\ faults' = faults
    <3>1. pc'[w] = label /\ SameMessage(w) /\ hi'[w] = hi[w]
      BY <1>1, <2>1 DEF Goto, SameMessage, LoopTypes
    <3>2. pc[w] # "seen" /\ pc[w] # "mark"
      BY <1>5 DEF MessageCalls
    <3>3. Works(w)
      BY <1>2, <1>3, <1>5, <2>1, <3>1, <3>2 DEF Works
    <3> QED
      BY <1>4, <2>1, <3>3
  <2> QED
    BY <1>1, <1>2, <1>3, <1>5, <2>1, OutcomeLands, RaiseWorks
<1>6. ASSUME Outcome(w, NextHandler(w)), pc[w] \in {"dlq", "rescue", "mark"},
             pc[w] = "mark" => keys' = keys \cup {Key(w)}
      PROVE  LoopKinds(w)
  <2>1. CASE NextHandler(w) /\ fetched'[w] = fetched[w] /\ faults' = faults
    <3>1. PassesOn(w) /\ SameMessage(w) /\ pc'[w] \in {"seen", "brokerdlq", "ack"}
      BY <1>1, <2>1, NextHandlerLands DEF PassesOn
    <3>2. pc[w] \in HandlerCalls \cup {"run"} /\ pc[w] # "seen"
      BY <1>6 DEF HandlerCalls
    <3>3. Works(w)
      BY <1>2, <1>3, <1>6, <2>1, <3>1, <3>2 DEF Works
    <3> QED
      BY <1>4, <2>1, <3>3
  <2> QED
    BY <1>1, <1>2, <1>3, <1>6, <2>1, OutcomeLands, RaiseWorks
<1>7. CASE HandlerRaises(w)
  <2>1. pc[w] = "run" /\ keys' = keys /\ fetched'[w] = fetched[w] /\ faults' = faults
    BY <1>7 DEF HandlerRaises, redisVars
  <2>2. PICK error \in Raises :
          IF CanRetry(w, error)
          THEN /\ pc' = [pc EXCEPT ![w] = "retry"]
               /\ err' = [err EXCEPT ![w] = error]
               /\ UNCHANGED <<batch, msg, hi, dropped>>
          ELSE GiveUp(w, "dlq", error)
    BY <1>7 DEF HandlerRaises
  <2>3. \/ pc'[w] = "retry" /\ CanRetry(w, err'[w]) /\ SameMessage(w) /\ hi'[w] = hi[w]
        \/ pc'[w] = "dlq" /\ ~CanRetry(w, err'[w]) /\ SameMessage(w) /\ hi'[w] = hi[w]
        \/ PassesOn(w) /\ pc'[w] \in {"seen", "brokerdlq", "ack"}
    <3>1. CASE CanRetry(w, error)
      <4>1. pc'[w] = "retry" /\ err'[w] = error /\ SameMessage(w) /\ hi'[w] = hi[w]
        BY <1>1, <2>2, <3>1 DEF SameMessage, LoopTypes
      <4> QED
        BY <3>1, <4>1
    <3>2. CASE ~CanRetry(w, error)
      <4>1. \/ pc'[w] = "dlq" /\ err'[w] = error /\ SameMessage(w) /\ hi'[w] = hi[w]
            \/ PassesOn(w) /\ pc'[w] \in {"seen", "brokerdlq", "ack"}
        BY <1>1, <2>2, <3>2, GiveUpLands
      <4> QED
        BY <3>2, <4>1
    <3> QED
      BY <3>1, <3>2
  <2>4. Works(w)
    BY <1>2, <1>3, <2>1, <2>3 DEF Works, PassesOn
  <2> QED
    BY <1>4, <2>1, <2>4
<1>8. CASE Poison(w) \/ Contract(w) \/ Unmatched(w) \/ BrokerDlq(w)
  BY <1>5, <1>8 DEF Poison, Contract, Unmatched, BrokerDlq, MessageCalls
<1>9. CASE SendDlq(w)
  BY <1>6, <1>9 DEF SendDlq
<1>10. CASE MarkSeen(w)
  BY <1>6, <1>10 DEF MarkSeen, SetKey
<1> QED
  BY <1>7, <1>8, <1>9, <1>10

LEMMA LoopHasKind ==
  ASSUME TypeInv, NEW w \in Workers, Loop(w)
  PROVE  LoopKinds(w)
<1>1. RedisTypes /\ LoopTypes /\ HistoryTypes
  BY Owners
<1>2. CASE FindWork(w) /\ UNCHANGED <<runs, done, crashes>>
  BY <1>2, LooksKind
<1>3. CASE (Drop(w) \/ Ack(w) \/ FinalAck(w)) /\ UNCHANGED <<runs, done, crashes>>
  BY <1>3, AcksKind
<1>4. CASE /\ \/ Poison(w) \/ Contract(w) \/ Unmatched(w) \/ BrokerDlq(w)
              \/ HandlerRaises(w) \/ SendDlq(w) \/ MarkSeen(w)
           /\ UNCHANGED <<runs, done, crashes>>
  BY <1>4, WorksKind
<1>5. CASE ScheduleRetry(w) /\ UNCHANGED <<runs, done, crashes>>
  <2>1. /\ pc[w] = "retry" /\ ZAddAndAck(RetryMember(w), msg[w])
        /\ Outcome(w, NextHandler(w))
    BY <1>5 DEF ScheduleRetry
  <2>2. CASE NextHandler(w) /\ fetched'[w] = fetched[w] /\ faults' = faults
    <3>1. PassesOn(w) /\ SameMessage(w) /\ pc'[w] \in {"seen", "brokerdlq", "ack"}
      BY <1>1, <2>2, NextHandlerLands DEF PassesOn
    <3>2. Exchanges(w)
      BY <1>5, <2>1, <2>2, <3>1 DEF Exchanges
    <3> QED
      BY <1>5, <2>2, <3>2 DEF LoopKinds
  <2>3. CASE RaiseLands(w) /\ (fetched'[w] = fetched[w] \/ Ended(w))
             /\ faults < MaxFaults /\ faults' = faults + 1
    <3>1. /\ SameMessage(w)
          /\ \/ PassesOn(w) /\ pc'[w] \in {"seen", "brokerdlq", "ack"}
             \/ pc'[w] = "rescue" /\ hi'[w] = hi[w]
      BY <2>1, <2>3 DEF RaiseLands, PassesOn, HandlerCalls
    <3>2. fetched'[w] = fetched[w]
      BY <2>3, <3>1 DEF Ended
    <3>3. Exchanges(w)
      BY <1>5, <2>1, <2>3, <3>1, <3>2 DEF Exchanges
    <3> QED
      BY <1>5, <2>3, <3>3 DEF LoopKinds
  <2> QED
    BY <1>1, <2>1, <2>2, <2>3, OutcomeLands
<1>6. CASE Seen(w) /\ UNCHANGED <<done, crashes>>
  <2>1. /\ pc[w] = "seen" /\ fetched'[w] = fetched[w] /\ faults' = faults
        /\ UNCHANGED redisVars
    BY <1>6 DEF Seen, Returned
  <2>2. CASE Key(w) \in keys
    <3>1. NextHandler(w) /\ UNCHANGED runs
      BY <1>6, <2>2 DEF Seen, AlreadySeen
    <3>2. PassesOn(w) /\ SameMessage(w) /\ pc'[w] \in {"seen", "brokerdlq", "ack"}
      BY <1>1, <3>1, NextHandlerLands DEF PassesOn
    <3>3. Asks(w)
      BY <1>6, <2>1, <2>2, <3>1, <3>2 DEF Asks
    <3> QED
      BY <1>6, <2>1, <3>3 DEF LoopKinds
  <2>3. CASE Key(w) \notin keys
    <3>1. Goto(w, "run") /\ runs' = Bump(runs, Key(w))
      BY <1>6, <2>3 DEF Seen, AlreadySeen
    <3>2. pc'[w] = "run" /\ SameMessage(w) /\ hi'[w] = hi[w]
      BY <1>1, <3>1 DEF Goto, SameMessage, LoopTypes
    <3>3. Asks(w)
      BY <1>6, <2>1, <2>3, <3>1, <3>2 DEF Asks
    <3> QED
      BY <1>6, <2>1, <3>3 DEF LoopKinds
  <2> QED
    BY <2>2, <2>3
<1>7. CASE HandlerReturns(w) /\ UNCHANGED <<runs, crashes>>
  <2>1. /\ pc[w] = "run" /\ fetched'[w] = fetched[w] /\ faults' = faults
        /\ UNCHANGED redisVars /\ done' = Bump(done, Key(w)) /\ Goto(w, "mark")
    BY <1>7 DEF HandlerReturns, Returned
  <2>2. pc'[w] = "mark" /\ SameMessage(w) /\ hi'[w] = hi[w]
    BY <1>1, <2>1 DEF Goto, SameMessage, LoopTypes
  <2>3. Completes(w)
    BY <1>7, <2>1, <2>2 DEF Completes
  <2> QED
    BY <1>7, <2>1, <2>3 DEF LoopKinds
<1>8. CASE CallLost(w) /\ UNCHANGED <<runs, done, crashes>>
  <2>1. /\ RaiseLands(w) /\ (fetched'[w] = fetched[w] \/ Ended(w))
        /\ faults < MaxFaults /\ faults' = faults + 1 /\ UNCHANGED redisVars
    BY <1>1, <1>8, RaisedLands DEF CallLost
  <2>2. UNCHANGED <<stream, last, pel, retryz, keys>>
    BY <2>1 DEF redisVars
  <2>3. CASE pc[w] \in MessagePCs
    BY <1>8, <2>1, <2>2, <2>3, RaiseWorks
  <2>4. CASE pc[w] \notin MessagePCs
    <3>1. pc[w] \in IdleCalls
      BY <1>8, <2>4 DEF CallLost, Calls, MessagePCs
    <3>2. CASE Ended(w)
      <4>1. Fails(w)
        BY <1>8, <2>1, <2>2, <3>2, SameIsSameWaiting DEF Fails
      <4> QED
        BY <1>8, <2>1, <4>1 DEF LoopKinds
    <3>3. CASE ~Ended(w)
      <4>1. pc'[w] = "pending" /\ batch'[w] = batch[w] /\ fetched'[w] = fetched[w]
        BY <2>1, <3>1, <3>3 DEF RaiseLands, SameMessage, IdleCalls, HandlerCalls
      <4>2. Looks(w)
        BY <1>8, <2>2, <3>1, <4>1, SameIsSameWaiting DEF Looks, IdleCalls
      <4> QED
        BY <1>8, <2>1, <4>2 DEF LoopKinds
    <3> QED
      BY <3>2, <3>3
  <2> QED
    BY <2>3, <2>4
<1> QED
  BY <1>2, <1>3, <1>4, <1>5, <1>6, <1>7, <1>8 DEF Loop, HandleMessage

-----------------------------------------------------------------------------
(* How often a handler returns.                                            *)

\* The handler of key k has returned and its key is about to be set.
Marking(k) == \E w \in Workers : pc[w] = "mark" /\ Key(w) = k

\* Every return but one has cost a crash or a failed call, and all have while
\* the key is not set; a handler that runs has no key.
RepeatInv ==
  /\ \A k \in Handlers \X Events :
       /\ done[k] <= crashes + faults + 1
       /\ k \in keys \/ Marking(k) \/ done[k] <= crashes + faults
  /\ \A w \in Workers : pc[w] = "run" => Key(w) \notin keys

LEMMA KeyStays ==
  ASSUME TypeInv, Grows, NEW w \in Workers, pc[w] \in MessagePCs,
         msg'[w] = msg[w], hi'[w] = hi[w]
  PROVE  Key(w)' = Key(w)
<1>1. Event(w)' = Event(w)
  BY Owners, MessageStays
<1> QED
  BY <1>1 DEF Key

LEMMA CountTypes ==
  ASSUME TypeInv
  PROVE  /\ \A k \in Handlers \X Events : done[k] \in Nat /\ runs[k] \in Nat
         /\ crashes \in Nat /\ faults \in Nat
BY Owners, DeliveryAssumption DEF HistoryTypes

LEMMA SumType ==
  ASSUME NEW c \in Nat, NEW f \in Nat
  PROVE  c + f \in Nat
OBVIOUS

LEMMA OneMore ==
  ASSUME NEW d \in Nat, NEW n \in Nat, d <= n, NEW x, x = d \/ x = d + 1
  PROVE  x <= n + 1
OBVIOUS

LEMMA Costs ==
  ASSUME NEW d \in Nat, NEW c \in Nat, NEW f \in Nat, NEW c2 \in Nat, NEW f2 \in Nat,
         c + f <= c2 + f2
  PROVE  /\ d <= c + f => d <= c2 + f2 /\ d <= c2 + f2 + 1
         /\ d <= c + f + 1 => d <= c2 + f2 + 1
         /\ d <= c + f + 1 /\ c + f < c2 + f2 => d <= c2 + f2
OBVIOUS

\* A step at which no handler returns keeps RepeatInv, if a key about to be set
\* is set, stays about to be, or is given up at a price.
LEMMA RepeatsKept ==
  ASSUME TypeInv, TypeInv', RepeatInv, UNCHANGED done,
         crashes + faults <= crashes' + faults', keys \subseteq keys',
         \A k \in Handlers \X Events : Marking(k) =>
           k \in keys' \/ Marking(k)' \/ crashes + faults < crashes' + faults',
         \A w \in Workers : pc'[w] = "run" => Key(w)' \notin keys'
  PROVE  RepeatInv'
<1>1. /\ \A k \in Handlers \X Events : done[k] \in Nat
      /\ crashes \in Nat /\ faults \in Nat
  BY CountTypes
<1>2. crashes' \in Nat /\ faults' \in Nat
  BY DEF TypeInv, TypeOK
<1>3. ASSUME NEW k \in Handlers \X Events
      PROVE  /\ done'[k] <= crashes' + faults' + 1
             /\ k \in keys' \/ Marking(k)' \/ done'[k] <= crashes' + faults'
  <2>1. done[k] <= crashes + faults + 1 /\ done'[k] = done[k] /\ done[k] \in Nat
    BY <1>1 DEF RepeatInv
  <2>2. /\ done[k] <= crashes + faults => done[k] <= crashes' + faults'
        /\ done[k] <= crashes' + faults' + 1
        /\ crashes + faults < crashes' + faults' => done[k] <= crashes' + faults'
    BY <1>1, <1>2, <2>1, Costs
  <2>3. k \in keys \/ Marking(k) \/ done[k] <= crashes + faults
    BY DEF RepeatInv
  <2> QED
    BY <2>1, <2>2, <2>3
<1> QED
  BY <1>3 DEF RepeatInv

LEMMA RepeatsLoop ==
  ASSUME OneWorker, TypeInv, TypeInv', Grows, RepeatInv, NEW w \in Workers, Loop(w)
  PROVE  RepeatInv'
<1>1. LoopKinds(w)
  BY LoopHasKind
<1>2. /\ crashes \in Nat /\ faults \in Nat /\ crashes' = crashes
      /\ faults' = faults \/ faults' = faults + 1
      /\ crashes + faults <= crashes' + faults'
      /\ faults' = faults + 1 => crashes + faults < crashes' + faults'
  <2>1. crashes \in Nat /\ faults \in Nat /\ crashes' = crashes
        /\ (faults' = faults \/ faults' = faults + 1)
    BY <1>1, CountTypes DEF LoopKinds
  <2> QED
    BY <2>1
<1>3. \A v \in Workers : v = w
  BY DEF OneWorker
<1>4. ASSUME UNCHANGED done, keys \subseteq keys', pc'[w] # "run",
             pc[w] = "mark" => Key(w) \in keys' \/ faults' = faults + 1
      PROVE  RepeatInv'
  <2>1. \A k \in Handlers \X Events : Marking(k) =>
          k \in keys' \/ crashes + faults < crashes' + faults'
    BY <1>2, <1>3, <1>4 DEF Marking
  <2>2. \A v \in Workers : pc'[v] # "run"
    BY <1>3, <1>4
  <2> QED
    BY <1>2, <1>4, <2>1, <2>2, RepeatsKept
<1>5. CASE Looks(w)
  <2>1. pc'[w] # "run" /\ pc[w] # "mark"
    BY <1>5 DEF Looks, TakesUp, IdleCalls, EntryPCs
  <2> QED
    BY <1>4, <1>5, <2>1 DEF Looks
<1>6. CASE Acks(w)
  <2>1. pc'[w] # "run" /\ pc[w] # "mark" /\ UNCHANGED <<done, keys>>
    BY <1>6 DEF Acks, TakesUp, EntryPCs, XAck
  <2> QED
    BY <1>4, <2>1
<1>7. CASE Works(w)
  <2>1. pc'[w] # "run" /\ UNCHANGED done /\ keys \subseteq keys'
        /\ (pc[w] = "mark" => Key(w) \in keys' \/ faults' = faults + 1)
    BY <1>7 DEF Works
  <2> QED
    BY <1>4, <2>1
<1>8. CASE Fails(w)
  <2>1. pc'[w] # "run" /\ UNCHANGED <<done, keys>> /\ faults' = faults + 1
    BY <1>8 DEF Fails, Ended
  <2> QED
    BY <1>4, <2>1
<1>9. CASE Exchanges(w)
  <2>1. pc'[w] # "run" /\ pc[w] # "mark" /\ UNCHANGED <<done, keys>>
    BY <1>9 DEF Exchanges, ZAddAndAck
  <2> QED
    BY <1>4, <2>1
<1>10. CASE Asks(w)
  <2>1. UNCHANGED <<keys, done>> /\ pc[w] = "seen"
    BY <1>10 DEF Asks, redisVars
  <2>2. CASE pc'[w] # "run"
    BY <1>4, <2>1, <2>2
  <2>3. CASE pc'[w] = "run"
    <3>1. Key(w) \notin keys /\ hi'[w] = hi[w] /\ msg'[w] = msg[w]
      BY <1>10, <2>3, HandlerPCType DEF Asks, PassesOn, SameMessage
    <3>2. Key(w)' = Key(w)
      BY <2>1, <3>1, KeyStays DEF MessagePCs, HandlerCalls
    <3>3. \A k \in Handlers \X Events : ~Marking(k)
      BY <1>3, <2>1 DEF Marking
    <3>4. \A v \in Workers : pc'[v] = "run" => Key(v)' \notin keys'
      BY <1>3, <2>1, <3>1, <3>2
    <3> QED
      BY <1>2, <2>1, <3>3, <3>4, RepeatsKept
  <2> QED
    BY <2>2, <2>3
<1>11. CASE Completes(w)
  <2> DEFINE k0 == Key(w)
  <2>1. /\ pc[w] = "run" /\ pc'[w] = "mark" /\ UNCHANGED keys
        /\ hi'[w] = hi[w] /\ msg'[w] = msg[w] /\ done' = Bump(done, k0)
    BY <1>11 DEF Completes, SameMessage, redisVars
  <2>2. Key(w)' = k0 /\ k0 \in Handlers \X Events
    BY <2>1, KeyStays, MessageTypes, Owners DEF MessagePCs
  <2>3. /\ \A k \in Handlers \X Events : k # k0 => done'[k] = done[k]
        /\ done'[k0] \in {done[k0], done[k0] + 1}
    BY <2>1, <2>2, Owners DEF Bump, HistoryTypes
  <2>4. \A k : ~Marking(k)
    BY <1>3, <2>1 DEF Marking
  <2>5. k0 \notin keys
    BY <2>1 DEF RepeatInv
  <2>6. \A k : k = k0 => Marking(k)'
    BY <2>1, <2>2 DEF Marking
  <2>7. done[k0] <= crashes + faults
    BY <2>2, <2>4, <2>5 DEF RepeatInv
  <2> HIDE DEF k0
  <2>8. ASSUME NEW k \in Handlers \X Events
        PROVE  /\ done'[k] <= crashes' + faults' + 1
               /\ k \in keys' \/ Marking(k)' \/ done'[k] <= crashes' + faults'
    <3>1. done[k] \in Nat /\ done[k0] \in Nat
      BY <2>2, CountTypes
    <3>2. CASE k = k0
      <4>1. done'[k0] = done[k0] \/ done'[k0] = done[k0] + 1
        BY <2>3
      <4>2. crashes' \in Nat /\ faults' \in Nat
        BY <1>2
      <4>3. done[k0] <= crashes' + faults'
        BY <1>2, <2>7, <3>1, <4>2, Costs
      <4>5. crashes' + faults' \in Nat
        BY <4>2, SumType
      <4>4. done'[k0] <= crashes' + faults' + 1
        BY <3>1, <4>1, <4>3, <4>5, OneMore
      <4> QED
        BY <2>6, <3>2, <4>4
    <3>3. CASE k # k0
      <4>1. done[k] <= crashes + faults + 1 /\ (k \in keys \/ done[k] <= crashes + faults)
        BY <2>4 DEF RepeatInv
      <4> QED
        BY <1>2, <2>1, <2>3, <3>1, <3>3, <4>1
    <3> QED
      BY <3>2, <3>3
  <2> QED
    BY <1>3, <2>1, <2>8 DEF RepeatInv
<1> QED
  BY <1>1, <1>5, <1>6, <1>7, <1>8, <1>9, <1>10, <1>11 DEF LoopKinds

\* Where the process ends outside a call of the loop.
LEMMA StopEnds ==
  ASSUME TypeInv, NEW w \in Workers
  PROVE  /\ SchedulerFails(w) => Fails(w) /\ UNCHANGED crashes
         /\ Crash(w) => /\ Ended(w) /\ crashes' = crashes + 1
                        /\ UNCHANGED <<redisVars, runs, done, faults>>
<1>1. Die(w) => Ended(w)
  BY Owners DEF Die, Ended, LoopTypes
<1>2. ASSUME SchedulerFails(w) PROVE Fails(w) /\ UNCHANGED crashes
  <2>1. Ended(w) /\ faults' = faults + 1 /\ UNCHANGED <<runs, done, crashes>>
    BY <1>1, <1>2 DEF SchedulerFails
  <2>2. UNCHANGED redisVars \/ (pc[w] = "contract" /\ XAck(msg[w]))
    BY <1>2 DEF SchedulerFails
  <2>3. UNCHANGED keys
    BY <2>2 DEF redisVars, XAck
  <2>4. UNCHANGED redisVars => SameWaiting
    BY SameIsSameWaiting DEF redisVars
  <2> QED
    BY <2>1, <2>2, <2>3, <2>4 DEF Fails, MessagePCs, MessageCalls
<1> QED
  BY <1>1, <1>2 DEF Crash

LEMMA RepeatsStep ==
  ASSUME OneWorker, ~KeysMayExpire, TypeInv, RepeatInv, [Next]_vars
  PROVE  RepeatInv'
<1>1. TypeInv' /\ Grows
  BY TypeStep
<1>2. crashes \in Nat /\ faults \in Nat
  BY CountTypes
<1>3. ASSUME NEW w \in Workers, Loop(w) PROVE RepeatInv'
  BY <1>1, <1>3, RepeatsLoop
<1>4. ASSUME NEW w \in Workers, Start(w) PROVE RepeatInv'
  <2>1. pc[w] = "down" /\ pc'[w] = "autoclaim"
        /\ UNCHANGED <<keys, done, crashes, faults>>
    BY <1>4, Owners DEF Start, Goto, XGroupCreate, Returned, LoopTypes
  <2>2. \A v \in Workers : v = w
    BY DEF OneWorker
  <2>3. \A k : ~Marking(k)
    BY <2>1, <2>2 DEF Marking
  <2> QED
    BY <1>1, <1>2, <2>1, <2>2, <2>3, RepeatsKept
<1>5. ASSUME NEW w \in Workers, SchedulerFails(w) \/ Crash(w) PROVE RepeatInv'
  <2>1. /\ Ended(w) /\ UNCHANGED <<keys, done>>
        /\ \/ crashes' = crashes + 1 /\ faults' = faults
           \/ crashes' = crashes /\ faults' = faults + 1
    BY <1>5, StopEnds DEF Fails, redisVars
  <2>2. \A v \in Workers : pc'[v] # "run"
    BY <2>1 DEF OneWorker, Ended
  <2>3. crashes + faults < crashes' + faults'
    BY <1>2, <2>1
  <2> QED
    BY <1>1, <1>2, <2>1, <2>2, <2>3, RepeatsKept
<1>6. ASSUME UNCHANGED <<localVars, historyVars>>, UNCHANGED keys PROVE RepeatInv'
  <2>1. /\ \A w \in Workers : pc'[w] = pc[w] /\ msg'[w] = msg[w] /\ hi'[w] = hi[w]
        /\ UNCHANGED <<done, crashes, faults>>
    BY <1>6 DEF localVars, historyVars
  <2>2. \A w \in Workers : pc[w] \in MessagePCs => Key(w)' = Key(w)
    BY <1>1, <2>1, KeyStays
  <2>3. \A k : Marking(k) => Marking(k)'
    BY <2>1, <2>2 DEF Marking, MessagePCs, HandlerCalls
  <2>4. \A w \in Workers : pc'[w] = "run" => Key(w)' \notin keys'
    BY <1>6, <2>1, <2>2 DEF RepeatInv, MessagePCs
  <2> QED
    BY <1>1, <1>2, <1>6, <2>1, <2>3, <2>4, RepeatsKept
<1>7. ASSUME NEW w \in Workers, Poll(w) \/ Requeue(w) PROVE RepeatInv'
  BY <1>6, <1>7 DEF Poll, Requeue, AddAndZRem, redisVars
<1>8. ASSUME NEW e \in Events, Publish(e) PROVE RepeatInv'
  BY <1>6, <1>8 DEF Publish, XAdd
<1>9. CASE Tick
  BY <1>6, <1>9 DEF Tick, Idles, FallsDue, Expires, GoIdle, BecomeDue
<1>10. CASE UNCHANGED vars
  BY <1>6, <1>10 DEF vars, redisVars
<1> QED
  BY <1>3, <1>4, <1>5, <1>7, <1>8, <1>9, <1>10 DEF Next, Scheduler

\* One worker, keys that outlive the behaviour: each time a handler of
\* _handle_message returns again for an event, after the first, a crash or a
\* failed call came between fn's return and the key of mark_seen; no retry of
\* another handler and no redelivery repeats it.
RepeatsBound ==
  \A h \in Handlers, e \in Events : done[<<h, e>>] <= 1 + crashes + faults

THEOREM RepeatsBoundHolds ==
  ASSUME OneWorker, ~KeysMayExpire
  PROVE  Spec => []RepeatsBound
<1>1. Init => TypeInv /\ RepeatInv
  BY TypeInit DEF Init, RepeatInv
<1>2. TypeInv /\ RepeatInv /\ [Next]_vars => (TypeInv /\ RepeatInv)'
  BY TypeStep, RepeatsStep
<1>3. TypeInv /\ RepeatInv => RepeatsBound
  BY CountTypes DEF RepeatInv, RepeatsBound
<1> QED
  BY <1>1, <1>2, <1>3, PTL DEF Spec

\* crashes and faults stay within their bounds.
Bounded == crashes <= MaxCrashes /\ faults <= MaxFaults

LEMMA BoundedStep ==
  ASSUME TypeInv, Bounded, [Next]_vars
  PROVE  Bounded'
<1>1. /\ crashes \in Nat /\ faults \in Nat /\ MaxCrashes \in Nat /\ MaxFaults \in Nat
  BY CountTypes, DeliveryAssumption
<1>2. ASSUME NEW w \in Workers, Loop(w) PROVE Bounded'
  BY <1>1, <1>2, LoopHasKind DEF LoopKinds, Bounded
<1>3. ASSUME NEW w \in Workers, Start(w) \/ Scheduler(w) \/ Crash(w) PROVE Bounded'
  BY <1>1, <1>3 DEF Start, Returned, Scheduler, Poll, Requeue, SchedulerFails, Crash,
     historyVars, Bounded
<1>4. CASE (\E e \in Events : Publish(e)) \/ Tick \/ UNCHANGED vars
  BY <1>4 DEF Publish, Tick, Idles, FallsDue, Expires, vars, historyVars, Bounded
<1> QED
  BY <1>2, <1>3, <1>4 DEF Next

\* With no crash and no failed call, exactly-once processing by one worker.
THEOREM ExactlyOnceHolds ==
  ASSUME OneWorker, ~KeysMayExpire, MaxCrashes = 0, MaxFaults = 0
  PROVE  Spec => []ExactlyOnce
<1>1. Init => TypeInv /\ Bounded
  BY TypeInit, DeliveryAssumption DEF Init, Bounded
<1>2. TypeInv /\ Bounded /\ [Next]_vars => (TypeInv /\ Bounded)'
  BY TypeStep, BoundedStep
<1>3. TypeInv /\ Bounded /\ RepeatsBound => ExactlyOnce
  <2> SUFFICES ASSUME TypeInv, Bounded, RepeatsBound PROVE ExactlyOnce
    OBVIOUS
  <2>1. crashes = 0 /\ faults = 0
    BY CountTypes DEF Bounded
  <2>2. ASSUME NEW h \in Handlers, NEW e \in Events PROVE done[<<h, e>>] <= 1
    <3>1. done[<<h, e>>] <= 1 + crashes + faults /\ done[<<h, e>>] \in Nat
      BY CountTypes DEF RepeatsBound
    <3> QED
      BY <2>1, <3>1
  <2> QED
    BY <2>2 DEF ExactlyOnce
<1> QED
  BY <1>1, <1>2, <1>3, RepeatsBoundHolds, PTL DEF Spec

-----------------------------------------------------------------------------
(* One handler that runs: an event is in one place.                        *)

\* One handler, or a second one whose unsupported idempotency mode raises out
\* of _handle_message before it, or any later one, is run.
OneHandlerRuns == NumHandlers = 1 \/ 2 \in BadMode

\* No two of what can still deliver an event are of the same event; the events
\* to be retried are events that were published.
TokensApart ==
  /\ \A i, j \in Ids :
       Waiting(i) /\ Waiting(j) /\ stream[i].event = stream[j].event => i = j
  /\ \A i \in Ids, m \in retryz : Waiting(i) => stream[i].event # m.event
  /\ \A m, n \in retryz : m.event = n.event => m = n
  /\ \A m \in retryz : \E i \in Ids : stream[i].event = m.event

\* The only worker's copies are the server's: nobody else acknowledges what it
\* has read or puts back what it has fetched.
Holds(w) ==
  /\ fetched[w] \subseteq retryz /\ batch[w] \subseteq pel
  /\ pc[w] \in MessagePCs => msg[w] \notin batch[w]
  /\ pc[w] \in HandlerCalls \cup {"run"} => hi[w] = 1
  /\ pc[w] \in {"seen", "run", "mark", "retry", "dlq"} => msg[w] \in pel

SoloInv == TokensApart /\ \A w \in Workers : Holds(w)

LEMMA TokensThin ==
  ASSUME TokensApart, UNCHANGED <<stream, retryz>>,
         \A id \in Ids : Waiting(id)' => Waiting(id)
  PROVE  TokensApart'
BY DEF TokensApart, Ids

LEMMA AckThins ==
  ASSUME TypeInv, NEW w \in Workers, pc[w] \in MessagePCs, XAck(msg[w])
  PROVE  /\ UNCHANGED <<stream, last, retryz>> /\ pel' = pel \ {msg[w]}
         /\ \A id \in Ids : Waiting(id)' <=> Waiting(id) /\ id # msg[w]
<1>1. msg[w] \in 1..last /\ last \in Nat
  BY Owners, MessageTypes DEF RedisTypes
<1>2. ~(msg[w] > last)
  BY <1>1
<1> QED
  BY <1>2 DEF XAck, Waiting

\* With one handler that runs, the end of its work is the end of the loop.
LEMMA PassesOnEnds ==
  ASSUME OneHandlerRuns, NEW w \in Workers, PassesOn(w), hi[w] = 1
  PROVE  pc'[w] \in {"brokerdlq", "ack"}
<1>1. CASE hi[w] < NumHandlers
  <2>1. 2 \in BadMode
    BY <1>1 DEF OneHandlerRuns
  <2>2. ~(hi[w] >= NumHandlers) /\ hi[w] + 1 = 2
    BY <1>1, RedisAssumption
  <2>3. pc'[w] = HandlerPC(2)
    BY <2>2 DEF PassesOn
  <2> QED
    BY <2>1, <2>3 DEF HandlerPC
<1>2. CASE ~(hi[w] < NumHandlers)
  BY <1>2 DEF PassesOn
<1> QED
  BY <1>1, <1>2

LEMMA ExchangeTokens ==
  ASSUME TypeInv, TokensApart, NEW w \in Workers, Exchanges(w), msg[w] \in pel
  PROVE  TokensApart'
<1> DEFINE r == RetryMember(w)
<1>1. msg[w] \in Ids /\ Waiting(msg[w]) /\ msg[w] \in 1..last /\ last \in Nat
  BY Owners, MessageTypes DEF Exchanges, MessagePCs, HandlerCalls, Waiting, RedisTypes
<1>2. /\ stream' = stream /\ last' = last /\ retryz' = retryz \cup {r}
      /\ pel' = pel \ {msg[w]} /\ r.event = stream[msg[w]].event
  BY DEF Exchanges, ZAddAndAck, RetryMember, Event
<1> HIDE DEF r
<1>3. ~(msg[w] > last)
  BY <1>1
<1>4. \A id \in Ids : Waiting(id)' => Waiting(id) /\ id # msg[w]
  BY <1>2, <1>3 DEF Waiting
<1>5. \A i \in Ids : Waiting(i)' => stream[i].event # r.event
  BY <1>1, <1>2, <1>4 DEF TokensApart
<1>6. \A m \in retryz : m.event # r.event
  BY <1>1, <1>2 DEF TokensApart
<1>7. Ids' = Ids
  BY <1>2 DEF Ids
<1>8. \A i, j \in Ids' :
        Waiting(i)' /\ Waiting(j)' /\ stream'[i].event = stream'[j].event => i = j
  BY <1>2, <1>4, <1>7 DEF TokensApart
<1>9. \A i \in Ids', m \in retryz' : Waiting(i)' => stream'[i].event # m.event
  BY <1>2, <1>4, <1>5, <1>7 DEF TokensApart
<1>10. \A m, n \in retryz' : m.event = n.event => m = n
  BY <1>2, <1>6 DEF TokensApart
<1>11. \A m \in retryz' : \E i \in Ids' : stream'[i].event = m.event
  BY <1>1, <1>2, <1>7 DEF TokensApart
<1> QED
  BY <1>8, <1>9, <1>10, <1>11 DEF TokensApart

LEMMA SoloLoop ==
  ASSUME OneWorker, OneHandlerRuns, TypeInv, SoloInv, NEW w \in Workers, Loop(w)
  PROVE  SoloInv'
<1> USE DEF Holds
<1>1. LoopKinds(w) /\ Holds(w) /\ TokensApart
  BY LoopHasKind DEF SoloInv
<1>2. \A v \in Workers : v = w
  BY DEF OneWorker
<1>3. SUFFICES TokensApart' /\ Holds(w)'
  BY <1>2 DEF SoloInv
<1>4. CASE Looks(w)
  <2>1. TokensApart'
    BY <1>1, <1>4, TokensThin DEF Looks, SameWaiting
  <2>2. fetched'[w] \subseteq retryz' /\ pel \subseteq pel'
    BY <1>1, <1>4 DEF Looks, SameWaiting
  <2>3. CASE pc'[w] \in IdleCalls /\ (batch'[w] \subseteq pel \/ batch'[w] = batch[w])
    BY <1>1, <2>1, <2>2, <2>3 DEF IdleCalls, MessagePCs, HandlerCalls, MessageCalls
  <2>4. ASSUME NEW S \in SUBSET pel', TakesUp(w, S) PROVE Holds(w)'
    BY <2>2, <2>4 DEF TakesUp
  <2> QED
    BY <1>4, <2>1, <2>3, <2>4 DEF Looks
<1>5. CASE Acks(w)
  <2>1. pc[w] \in MessagePCs /\ XAck(msg[w]) /\ fetched'[w] = fetched[w]
    BY <1>5 DEF Acks, MessagePCs, MessageCalls
  <2>2. /\ UNCHANGED <<stream, last, retryz>> /\ pel' = pel \ {msg[w]}
        /\ \A id \in Ids : Waiting(id)' <=> Waiting(id) /\ id # msg[w]
    BY <2>1, AckThins
  <2>3. TokensApart'
    BY <1>1, <2>2, TokensThin
  <2>4. fetched'[w] \subseteq retryz' /\ batch[w] \subseteq pel'
    BY <1>1, <2>1, <2>2
  <2>5. CASE batch[w] = {} /\ pc'[w] = "autoclaim" /\ batch'[w] = {}
    BY <2>3, <2>4, <2>5 DEF MessagePCs, HandlerCalls, MessageCalls
  <2>6. CASE TakesUp(w, batch[w])
    BY <2>3, <2>4, <2>6 DEF TakesUp
  <2>7. CASE pc'[w] = "brokerdlq" /\ SameMessage(w) /\ hi'[w] = hi[w]
    BY <1>1, <2>1, <2>3, <2>4, <2>7 DEF SameMessage, HandlerCalls
  <2> QED
    BY <1>5, <2>5, <2>6, <2>7 DEF Acks
<1>6. CASE Works(w)
  <2>1. /\ UNCHANGED <<stream, last, pel, retryz>> /\ fetched'[w] = fetched[w]
        /\ SameMessage(w) /\ pc[w] \in MessagePCs
    BY <1>6 DEF Works
  <2>2. TokensApart'
    BY <1>1, <2>1, TokensThin DEF Waiting
  <2>3. /\ pc'[w] \in HandlerCalls \cup {"run"} => hi'[w] = 1
        /\ pc'[w] \in {"seen", "run", "mark", "retry", "dlq"} => msg[w] \in pel
    <3>1. CASE pc[w] = "run" /\ hi'[w] = hi[w]
               /\ pc'[w] \in {"retry", "dlq"}
      BY <1>1, <3>1
    <3>2. CASE pc[w] \in HandlerCalls \cup {"run"} /\ PassesOn(w)
      BY <1>1, <3>2, PassesOnEnds DEF HandlerCalls
    <3>3. CASE pc[w] \in HandlerCalls /\ pc'[w] = "rescue" /\ hi'[w] = hi[w]
      BY <1>1, <3>3
    <3>4. CASE pc'[w] \in {"brokerdlq", "ack", "finalack"}
      BY <3>4 DEF HandlerCalls
    <3> QED
      BY <1>6, <3>1, <3>2, <3>3, <3>4 DEF Works
  <2> QED
    BY <1>1, <2>1, <2>2, <2>3 DEF SameMessage
<1>7. CASE Asks(w)
  <2>1. /\ UNCHANGED <<stream, last, pel, retryz>> /\ fetched'[w] = fetched[w]
        /\ SameMessage(w) /\ pc[w] = "seen"
    BY <1>7 DEF Asks, redisVars
  <2>2. TokensApart'
    BY <1>1, <2>1, TokensThin DEF Waiting
  <2>3. hi[w] = 1 /\ msg[w] \in pel /\ msg[w] \notin batch[w]
    BY <1>1, <2>1 DEF HandlerCalls, MessagePCs
  <2>4. CASE pc'[w] = "run" /\ hi'[w] = hi[w]
    BY <1>1, <2>1, <2>2, <2>3, <2>4 DEF SameMessage
  <2>5. CASE PassesOn(w)
    BY <1>1, <2>1, <2>2, <2>3, <2>5, PassesOnEnds DEF SameMessage, HandlerCalls
  <2> QED
    BY <1>7, <2>4, <2>5 DEF Asks
<1>8. CASE Completes(w)
  <2>1. UNCHANGED <<stream, last, pel, retryz>> /\ fetched'[w] = fetched[w]
    BY <1>8 DEF Completes, redisVars
  <2>2. TokensApart'
    BY <1>1, <2>1, TokensThin DEF Waiting
  <2> QED
    BY <1>1, <1>8, <2>1, <2>2 DEF Completes, SameMessage, MessagePCs
<1>9. CASE Exchanges(w)
  <2>1. pc[w] = "retry" /\ hi[w] = 1 /\ msg[w] \in pel /\ msg[w] \notin batch[w]
    BY <1>1, <1>9 DEF Exchanges, HandlerCalls, MessagePCs
  <2>2. TokensApart'
    BY <1>1, <1>9, <2>1, ExchangeTokens
  <2>3. retryz \subseteq retryz' /\ pel' = pel \ {msg[w]}
    BY <1>9 DEF Exchanges, ZAddAndAck
  <2>4. pc'[w] \in {"brokerdlq", "ack"} \/ (pc'[w] = "rescue" /\ hi'[w] = 1)
    BY <1>9, <2>1, PassesOnEnds DEF Exchanges
  <2> QED
    BY <1>1, <1>9, <2>1, <2>2, <2>3, <2>4 DEF Exchanges, SameMessage, HandlerCalls
<1>10. CASE Fails(w)
  <2>1. TokensApart'
    BY <1>1, <1>10, TokensThin, AckThins DEF Fails, SameWaiting
  <2> QED
    BY <1>10, <2>1 DEF Fails, Ended, MessagePCs, HandlerCalls, MessageCalls
<1> QED
  BY <1>1, <1>4, <1>5, <1>6, <1>7, <1>8, <1>9, <1>10 DEF LoopKinds

\* What the scheduler puts back: one entry for each member it fetched.
LEMMA RequeueEffect ==
  ASSUME TypeInv, NEW w \in Workers, Requeue(w)
  PROVE  /\ Ids \subseteq Ids' /\ \A id \in Ids : stream'[id] = stream[id]
         /\ UNCHANGED <<last, pel, keys, localVars, historyVars>>
         /\ retryz' = retryz \ fetched[w] /\ fetched'[w] = {}
         /\ \A id \in Ids' \ Ids : id > last
         /\ \E g \in [Ids' \ Ids -> fetched[w]] :
              /\ \A i, j \in Ids' \ Ids : g[i] = g[j] => i = j
              /\ \A i \in Ids' \ Ids : /\ stream'[i].event = g[i].event
                                       /\ stream'[i].attempt = g[i].attempt
<1> DEFINE S == fetched[w]
<1>1. RedisTypes /\ LoopTypes /\ S \in SUBSET Members /\ IsFiniteSet(S)
  BY Owners DEF LoopTypes, WorkerOK
<1>2. PICK s \in Orders(S) : AddAndZRem(s)
  BY DEF Requeue
<1>3. /\ s \in Seq(Members) /\ Len(s) \in Nat /\ s \in [1..Len(s) -> S]
      /\ \A m \in S : \E i \in 1..Len(s) : s[i] = m
  BY <1>1, <1>2, OrdersAreSequences
<1>4. \A i, j \in 1..Len(s) : s[i] = s[j] => i = j
  <2>1. Cardinality(S) \in Nat
    BY <1>1, FS_CardinalityType
  <2>2. s \in Surjection(1..Cardinality(S), S)
    BY <1>2 DEF Orders
  <2>3. IsFiniteSet(1..Cardinality(S)) /\ Cardinality(1..Cardinality(S)) = Cardinality(S)
    BY <2>1, FS_Interval
  <2>4. s \in Injection(1..Cardinality(S), S)
    BY <2>2, <2>3, FS_SurjSameCardinalityImpliesInj
  <2>5. DOMAIN s = 1..Cardinality(S) /\ DOMAIN s = 1..Len(s)
    BY <1>3, <2>4 DEF Injection
  <2> QED
    BY <2>4, <2>5 DEF Injection, IsInjective
<1> DEFINE added == [i \in 1..Len(s) |->
                       [event |-> s[i].event, attempt |-> s[i].attempt]]
<1>5. stream \in Seq(Entries) /\ stream' = stream \o added /\ Len(stream) \in Nat
  BY <1>1, <1>2 DEF RedisTypes, AddAndZRem
<1>6. added \in Seq(Entries) /\ Len(added) = Len(s)
  <2>1. \A i \in 1..Len(s) : s[i] \in Members
    BY <1>1, <1>3
  <2> QED
    BY <1>3, <2>1 DEF Entries, Members
<1>7. \A i \in 1..Len(s) :
        added[i].event = s[i].event /\ added[i].attempt = s[i].attempt
  OBVIOUS
<1> HIDE DEF added, S
<1>8. /\ Len(stream') = Len(stream) + Len(s)
      /\ \A id \in 1..Len(stream') : stream'[id] =
           IF id <= Len(stream) THEN stream[id] ELSE added[id - Len(stream)]
  <2>1. /\ Len(stream \o added) = Len(stream) + Len(added)
        /\ \A i \in 1..Len(stream) + Len(added) : (stream \o added)[i] =
             IF i <= Len(stream) THEN stream[i] ELSE added[i - Len(stream)]
    BY <1>5, <1>6, ConcatProperties
  <2> QED
    BY <1>5, <1>6, <2>1
<1>9. \A id \in Ids' \ Ids : id \in Nat /\ id > Len(stream) /\ id - Len(stream) \in 1..Len(s)
  BY <1>3, <1>5, <1>8 DEF Ids
<1> DEFINE g == [id \in Ids' \ Ids |-> s[id - Len(stream)]]
<1>10. g \in [Ids' \ Ids -> S]
  BY <1>3, <1>9
<1>11. \A i, j \in Ids' \ Ids : g[i] = g[j] => i = j
  <2> TAKE i, j \in Ids' \ Ids
  <2>1. g[i] = g[j] => i - Len(stream) = j - Len(stream)
    BY <1>4, <1>9
  <2> QED
    BY <1>5, <1>9, <2>1
<1>12. \A i \in Ids' \ Ids :
         stream'[i].event = g[i].event /\ stream'[i].attempt = g[i].attempt
  <2> TAKE i \in Ids' \ Ids
  <2>1. i \in 1..Len(stream') /\ ~(i <= Len(stream))
    BY <1>5, <1>9 DEF Ids
  <2>2. stream'[i] = added[i - Len(stream)]
    BY <1>8, <2>1
  <2> QED
    BY <1>7, <1>9, <2>2
<1> HIDE DEF g
<1>13. retryz' = retryz \ S /\ UNCHANGED <<last, pel, keys>>
  <2>1. \A x : x \in S <=> x \in {s[i] : i \in 1..Len(s)}
    BY <1>3
  <2>2. retryz' = retryz \ {s[i] : i \in 1..Len(s)} /\ UNCHANGED <<last, pel, keys>>
    BY <1>2 DEF AddAndZRem
  <2> QED
    BY <2>1, <2>2
<1>14. UNCHANGED <<localVars, historyVars>> /\ fetched'[w] = {}
  BY <1>1 DEF Requeue, LoopTypes
<1>15. Ids \subseteq Ids' /\ \A id \in Ids : stream'[id] = stream[id]
  BY <1>3, <1>5, <1>8 DEF Ids
<1>16. \A id \in Ids' \ Ids : id > last
  BY <1>1, <1>5, <1>9 DEF RedisTypes, ServerOK
<1> QED
  BY <1>10, <1>11, <1>12, <1>13, <1>14, <1>15, <1>16 DEF S

LEMMA RequeueTokens ==
  ASSUME TypeInv, TokensApart, NEW w \in Workers, Requeue(w), fetched[w] \subseteq retryz
  PROVE  TokensApart'
<1>1. /\ Ids \subseteq Ids' /\ \A id \in Ids : stream'[id] = stream[id]
      /\ last' = last /\ pel' = pel /\ retryz' = retryz \ fetched[w]
  BY RequeueEffect
<1>2. PICK g \in [Ids' \ Ids -> fetched[w]] :
        /\ \A i, j \in Ids' \ Ids : g[i] = g[j] => i = j
        /\ \A i \in Ids' \ Ids : /\ stream'[i].event = g[i].event
                                 /\ stream'[i].attempt = g[i].attempt
  BY RequeueEffect
<1>3. \A id : Waiting(id)' <=> Waiting(id)
  BY <1>1 DEF Waiting
<1>4. \A i \in Ids' \ Ids : g[i] \in retryz /\ g[i] \notin retryz'
  BY <1>1, <1>2
<1>5. \A i, j \in Ids' :
        Waiting(i)' /\ Waiting(j)' /\ stream'[i].event = stream'[j].event => i = j
  <2> SUFFICES ASSUME NEW i \in Ids', NEW j \in Ids', Waiting(i)', Waiting(j)',
                      stream'[i].event = stream'[j].event
               PROVE  i = j
    OBVIOUS
  <2>1. CASE i \in Ids /\ j \in Ids
    BY <1>1, <1>3, <2>1 DEF TokensApart
  <2>2. CASE i \in Ids /\ j \notin Ids
    BY <1>1, <1>2, <1>3, <1>4, <2>2 DEF TokensApart
  <2>3. CASE i \notin Ids /\ j \in Ids
    BY <1>1, <1>2, <1>3, <1>4, <2>3 DEF TokensApart
  <2>4. CASE i \notin Ids /\ j \notin Ids
    <3>1. g[i] = g[j]
      BY <1>2, <1>4, <2>4 DEF TokensApart
    <3> QED
      BY <1>2, <2>4, <3>1
  <2> QED
    BY <2>1, <2>2, <2>3, <2>4
<1>6. \A i \in Ids', m \in retryz' : Waiting(i)' => stream'[i].event # m.event
  <2> SUFFICES ASSUME NEW i \in Ids', NEW m \in retryz', Waiting(i)'
               PROVE  stream'[i].event # m.event
    OBVIOUS
  <2>1. CASE i \in Ids
    BY <1>1, <1>3, <2>1 DEF TokensApart
  <2>2. CASE i \notin Ids
    <3>1. g[i] # m /\ g[i] \in retryz /\ m \in retryz
      BY <1>1, <1>4, <2>2
    <3> QED
      BY <1>2, <2>2, <3>1 DEF TokensApart
  <2> QED
    BY <2>1, <2>2
<1>7. \A m, n \in retryz' : m.event = n.event => m = n
  BY <1>1 DEF TokensApart
<1>8. \A m \in retryz' : \E i \in Ids' : stream'[i].event = m.event
  BY <1>1 DEF TokensApart
<1> QED
  BY <1>5, <1>6, <1>7, <1>8 DEF TokensApart

\* The published entry is the last of the stream.
LEMMA PublishEffect ==
  ASSUME TypeInv, NEW e \in Events, Publish(e)
  PROVE  LET n == Len(stream) + 1
         IN  /\ Ids' = Ids \cup {n} /\ n \notin Ids
             /\ \A id \in Ids : stream'[id] = stream[id] /\ stream[id].event # e
             /\ stream'[n].event = e /\ stream'[n].attempt = 1
             /\ UNCHANGED <<last, pel, retryz, keys, localVars, fetched, historyVars>>
             /\ n > last
<1> DEFINE x == [event |-> e, attempt |-> 1]
<1>1. stream \in Seq(Entries) /\ x \in Entries /\ last \in Nat /\ last <= Len(stream)
  BY Owners DEF RedisTypes, ServerOK, Entries
<1>2. x.event = e /\ x.attempt = 1
  OBVIOUS
<1>3. stream' = Append(stream, x) /\ UNCHANGED <<last, pel, retryz, keys>>
  BY DEF Publish, XAdd
<1> HIDE DEF x
<1>4. /\ Len(stream') = Len(stream) + 1 /\ Len(stream) \in Nat
      /\ stream'[Len(stream) + 1] = x
      /\ \A id \in 1..Len(stream) : stream'[id] = stream[id]
  BY <1>1, <1>3
<1>5. Ids' = Ids \cup {Len(stream) + 1} /\ Len(stream) + 1 \notin Ids
  BY <1>4 DEF Ids
<1> QED
  BY <1>1, <1>2, <1>3, <1>4, <1>5 DEF Publish, Ids

LEMMA PublishTokens ==
  ASSUME TypeInv, TokensApart, NEW e \in Events, Publish(e)
  PROVE  TokensApart'
<1> DEFINE n == Len(stream) + 1
<1>1. /\ Ids' = Ids \cup {n} /\ n \notin Ids
      /\ \A id \in Ids : stream'[id] = stream[id] /\ stream[id].event # e
      /\ stream'[n].event = e /\ UNCHANGED <<last, pel, retryz>>
  BY PublishEffect
<1> HIDE DEF n
<1>2. \A id : Waiting(id)' <=> Waiting(id)
  BY <1>1 DEF Waiting
<1>3. \A m \in retryz : m.event # e
  BY <1>1 DEF TokensApart
<1>4. \A i, j \in Ids' :
        Waiting(i)' /\ Waiting(j)' /\ stream'[i].event = stream'[j].event => i = j
  BY <1>1, <1>2 DEF TokensApart
<1>5. \A i \in Ids', m \in retryz' : Waiting(i)' => stream'[i].event # m.event
  BY <1>1, <1>2, <1>3 DEF TokensApart
<1>6. \A m, k \in retryz' : m.event = k.event => m = k
  BY <1>1 DEF TokensApart
<1>7. \A m \in retryz' : \E i \in Ids' : stream'[i].event = m.event
  BY <1>1 DEF TokensApart
<1> QED
  BY <1>4, <1>5, <1>6, <1>7 DEF TokensApart

\* Starting, polling and time bring no event anywhere.
Calm ==
  /\ UNCHANGED <<stream, pel, retryz, batch, msg, hi>>
  /\ \A id \in Ids : Waiting(id)' => Waiting(id)

LEMMA StartCalm ==
  ASSUME TypeInv, NEW w \in Workers, Start(w)
  PROVE  /\ Calm /\ UNCHANGED <<keys, fetched, historyVars>>
         /\ pc[w] = "down" /\ pc'[w] = "autoclaim"
<1>1. UNCHANGED <<stream, pel, retryz, keys, batch, msg, hi, fetched, historyVars>>
  BY DEF Start, XGroupCreate, Goto, Returned, historyVars
<1>2. last' = last \/ last' = Len(stream)
  BY DEF Start, XGroupCreate
<1>3. \A id \in Ids : id > last' => id > last
  BY <1>2, Owners DEF Ids, RedisTypes, ServerOK
<1>4. pc[w] = "down" /\ pc'[w] = "autoclaim"
  BY Owners DEF Start, Goto, LoopTypes
<1> QED
  BY <1>1, <1>3, <1>4 DEF Calm, Waiting

LEMMA TimeCalm ==
  ASSUME Tick \/ UNCHANGED vars
  PROVE  Calm /\ UNCHANGED <<pc, fetched, historyVars, last>>
<1>1. UNCHANGED <<stream, last, pel, retryz, localVars, fetched, historyVars>>
  BY DEF Tick, Idles, FallsDue, Expires, GoIdle, BecomeDue, Expire, vars, redisVars
<1> QED
  BY <1>1 DEF Calm, Waiting, localVars

LEMMA SoloStep ==
  ASSUME OneWorker, OneHandlerRuns, TypeInv, SoloInv, [Next]_vars
  PROVE  SoloInv'
<1> USE DEF Holds
<1>1. TokensApart /\ \A w \in Workers : Holds(w)
  BY DEF SoloInv
<1>2. ASSUME NEW w \in Workers, Loop(w) PROVE SoloInv'
  BY <1>2, SoloLoop
<1>3. ASSUME NEW w \in Workers, Start(w) PROVE SoloInv'
  <2>1. /\ Calm /\ fetched' = fetched /\ pc'[w] = "autoclaim"
    BY <1>3, StartCalm
  <2>2. TokensApart'
    BY <1>1, <2>1, TokensThin DEF Calm
  <2>3. Holds(w)'
    BY <1>1, <2>1 DEF Calm, MessagePCs, HandlerCalls, MessageCalls
  <2> QED
    BY <2>2, <2>3 DEF SoloInv, OneWorker
<1>4. ASSUME NEW w \in Workers, Poll(w) PROVE SoloInv'
  <2>1. UNCHANGED <<redisVars, localVars>> /\ fetched' = [fetched EXCEPT ![w] = due]
    BY <1>4 DEF Poll
  <2>2. fetched'[w] \subseteq retryz
    BY <2>1, Owners DEF RedisTypes, ServerOK, LoopTypes
  <2>3. TokensApart'
    BY <1>1, <2>1, TokensThin DEF redisVars, Waiting
  <2>4. Holds(w)'
    BY <1>1, <2>1, <2>2 DEF redisVars, localVars
  <2> QED
    BY <2>3, <2>4 DEF SoloInv, OneWorker
<1>5. ASSUME NEW w \in Workers, Requeue(w) PROVE SoloInv'
  <2>1. TokensApart'
    BY <1>1, <1>5, RequeueTokens
  <2>2. fetched'[w] = {} /\ UNCHANGED <<pel, localVars>>
    BY <1>5, RequeueEffect
  <2>3. Holds(w)'
    BY <1>1, <2>2 DEF localVars
  <2> QED
    BY <2>1, <2>3 DEF SoloInv, OneWorker
<1>6. ASSUME NEW w \in Workers, SchedulerFails(w) \/ Crash(w) PROVE SoloInv'
  <2>1. /\ Ended(w)
        /\ \/ SameWaiting
           \/ pc[w] \in MessagePCs /\ XAck(msg[w])
    BY <1>6, StopEnds, SameIsSameWaiting DEF Fails, redisVars
  <2>2. TokensApart'
    BY <1>1, <2>1, TokensThin, AckThins DEF SameWaiting
  <2>3. Holds(w)'
    BY <2>1 DEF Ended, MessagePCs, HandlerCalls, MessageCalls
  <2> QED
    BY <2>2, <2>3 DEF SoloInv, OneWorker
<1>7. ASSUME NEW e \in Events, Publish(e) PROVE SoloInv'
  <2>1. TokensApart'
    BY <1>1, <1>7, PublishTokens
  <2>2. UNCHANGED <<pel, retryz, localVars, fetched>>
    BY <1>7, PublishEffect
  <2> QED
    BY <1>1, <2>1, <2>2 DEF SoloInv, localVars
<1>8. CASE Tick \/ UNCHANGED vars
  <2>1. Calm /\ UNCHANGED <<pc, fetched>>
    BY <1>8, TimeCalm
  <2>2. TokensApart'
    BY <1>1, <2>1, TokensThin DEF Calm
  <2> QED
    BY <1>1, <2>1, <2>2 DEF SoloInv, Calm
<1> QED
  BY <1>2, <1>3, <1>4, <1>5, <1>6, <1>7, <1>8 DEF Next, Scheduler

LEMMA SoloInit == Init => SoloInv
BY DEF Init, RedisInit, SoloInv, TokensApart, Holds, Ids, MessagePCs, HandlerCalls,
   MessageCalls

LEMMA AtMostOne ==
  ASSUME NEW S, \A x, y \in S : x = y
  PROVE  Cardinality(S) \in {0, 1} /\ (S = {} => Cardinality(S) = 0)
<1>1. CASE S = {}
  BY <1>1, FS_EmptySet
<1>2. ASSUME NEW x \in S PROVE Cardinality(S) = 1
  <2>1. S = {x}
    OBVIOUS
  <2> QED
    BY <2>1, FS_Singleton
<1> QED
  BY <1>1, <1>2

\* With one worker and one handler that runs, whatever crashes, fails or
\* expires: schedule_retry and the scheduler's MULTI move an event between the
\* stream and the ZSET, and never leave it in both, or twice in one.
THEOREM SingleTokenHolds ==
  ASSUME OneWorker, OneHandlerRuns
  PROVE  Spec => []SingleToken
<1>1. Init => TypeInv /\ SoloInv
  BY TypeInit, SoloInit
<1>2. TypeInv /\ SoloInv /\ [Next]_vars => (TypeInv /\ SoloInv)'
  BY TypeStep, SoloStep
<1>3. SoloInv => SingleToken
  <2> SUFFICES ASSUME TokensApart, NEW e \in Events PROVE Tokens(e) <= 1
    BY DEF SoloInv, SingleToken
  <2> DEFINE A == {id \in Ids : stream[id].event = e /\ (id > last \/ id \in pel)}
             B == {m \in retryz : m.event = e}
  <2>1. /\ \A x, y \in A : x = y
        /\ \A x, y \in B : x = y
        /\ A = {} \/ B = {}
    BY DEF TokensApart, Waiting
  <2> HIDE DEF A, B
  <2>2. /\ Cardinality(A) \in {0, 1} /\ (A = {} => Cardinality(A) = 0)
        /\ Cardinality(B) \in {0, 1} /\ (B = {} => Cardinality(B) = 0)
    BY <2>1, AtMostOne
  <2>3. Cardinality(A) + Cardinality(B) <= 1
    BY <2>1, <2>2
  <2> QED
    BY <2>3 DEF A, B, Tokens
<1> QED
  BY <1>1, <1>2, <1>3, PTL DEF Spec

-----------------------------------------------------------------------------
(* How often the one handler that runs is started.                         *)

\* The worker has gone past the gate of its first handler.
Begun(id) == \E w \in Workers : msg[w] = id /\ pc[w] \in MessagePCs \ {"seen"}

Allowed(h) == IF MaxAttempts[h] < PoisonMax THEN MaxAttempts[h] ELSE PoisonMax

\* An entry of attempt a finds at most a - 1 starts, and a member of the ZSET
\* as well, apart from those a crash or a failed call has wasted; once the
\* worker has begun the entry there may be one more.
EntryBudget ==
  \A id \in Ids : Waiting(id) =>
    \/ runs[<<1, stream[id].event>>] + 1 <= crashes + faults + stream[id].attempt
    \/ Begun(id) /\ runs[<<1, stream[id].event>>] <= crashes + faults + stream[id].attempt

MemberBudget ==
  \A m \in retryz : runs[<<1, m.event>>] + 1 <= crashes + faults + m.attempt

AttemptsBounded ==
  /\ \A id \in Ids : stream[id].attempt <= MaxAttempts[1]
  /\ \A m \in retryz : m.attempt <= MaxAttempts[1]
  /\ \A w \in Workers : pc[w] = "retry" => Attempt(w) < MaxAttempts[1]
  /\ \A w \in Workers : pc[w] = "seen" => ~Poisoned(msg[w])

TotalBudget ==
  /\ \A e \in Events : runs[<<1, e>>] <= crashes + faults + Allowed(1)
  /\ \A h \in Handlers, e \in Events : h # 1 => runs[<<h, e>>] = 0
  /\ \A e \in Events : (\A id \in Ids : stream[id].event # e) => runs[<<1, e>>] = 0

BudgetInv == EntryBudget /\ MemberBudget /\ AttemptsBounded /\ TotalBudget

LEMMA Budgets ==
  ASSUME NEW r \in Nat, NEW a \in Nat, NEW c \in Nat, NEW f \in Nat,
         NEW c2 \in Nat, NEW f2 \in Nat, c + f <= c2 + f2
  PROVE  /\ r + 1 <= c + f + a => r + 1 <= c2 + f2 + a
         /\ r <= c + f + a => r <= c2 + f2 + a
         /\ r <= c + f + a /\ c + f < c2 + f2 => r + 1 <= c2 + f2 + a
OBVIOUS

LEMMA Firsts ==
  ASSUME TypeInv
  PROVE  /\ 1 \in Handlers /\ MaxAttempts[1] \in Nat \ {0} /\ Allowed(1) \in Nat
         /\ \A id \in Ids : stream[id].event \in Events /\ stream[id].attempt \in Nat \ {0}
         /\ \A m \in retryz : m.event \in Events /\ m.attempt \in Nat \ {0}
         /\ \A e \in Events : runs[<<1, e>>] \in Nat
<1>1. 1 \in Handlers
  BY RedisAssumption DEF Handlers
<1>2. MaxAttempts[1] \in Nat \ {0} /\ Allowed(1) \in Nat
  BY <1>1, DeliveryAssumption DEF Allowed
<1>3. \A id \in Ids : stream[id] \in Entries
  BY Owners DEF RedisTypes, Ids
<1>4. \A m \in retryz : m \in Members
  BY Owners DEF RedisTypes
<1>5. \A e \in Events : runs[<<1, e>>] \in Nat
  BY <1>1, CountTypes
<1> QED
  BY <1>1, <1>2, <1>3, <1>4, <1>5 DEF Entries, Members

\* A step that starts no handler and moves no event: a message is left only
\* once it is acknowledged, or at the price of a crash or a failed call.
LEMMA BudgetKept ==
  ASSUME TypeInv, TypeInv', BudgetInv, UNCHANGED <<stream, retryz, runs>>,
         crashes + faults <= crashes' + faults',
         \A id \in Ids : Waiting(id)' => Waiting(id),
         \A id \in Ids : Waiting(id)' /\ Begun(id) =>
           Begun(id)' \/ crashes + faults < crashes' + faults',
         \A w \in Workers : pc'[w] = "retry" => Attempt(w)' < MaxAttempts[1],
         \A w \in Workers : pc'[w] = "seen" => ~Poisoned(msg[w])'
  PROVE  BudgetInv'
<1>1. /\ crashes \in Nat /\ faults \in Nat /\ crashes' \in Nat /\ faults' \in Nat
  BY CountTypes DEF TypeInv, TypeOK
<1>2. Ids' = Ids
  BY DEF Ids
<1>3. EntryBudget'
  <2> SUFFICES ASSUME NEW id \in Ids, Waiting(id)'
               PROVE  LET r == runs[<<1, stream[id].event>>]
                          a == stream[id].attempt
                      IN  \/ r + 1 <= crashes' + faults' + a
                          \/ Begun(id)' /\ r <= crashes' + faults' + a
    BY <1>2 DEF EntryBudget
  <2> DEFINE r == runs[<<1, stream[id].event>>]
             a == stream[id].attempt
  <2>1. r \in Nat /\ a \in Nat
    BY Firsts
  <2>2. r + 1 <= crashes + faults + a \/ (Begun(id) /\ r <= crashes + faults + a)
    BY DEF BudgetInv, EntryBudget
  <2>3. Begun(id) => Begun(id)' \/ crashes + faults < crashes' + faults'
    OBVIOUS
  <2> HIDE DEF r, a
  <2>4. r + 1 <= crashes' + faults' + a \/ (Begun(id)' /\ r <= crashes' + faults' + a)
    BY <1>1, <2>1, <2>2, <2>3, Budgets
  <2> QED
    BY <2>4 DEF r, a
<1>4. MemberBudget'
  <2> SUFFICES ASSUME NEW m \in retryz
               PROVE  runs[<<1, m.event>>] + 1 <= crashes' + faults' + m.attempt
    BY DEF MemberBudget
  <2>1. runs[<<1, m.event>>] \in Nat /\ m.attempt \in Nat
    BY Firsts
  <2>2. runs[<<1, m.event>>] + 1 <= crashes + faults + m.attempt
    BY DEF BudgetInv, MemberBudget
  <2> QED
    BY <1>1, <2>1, <2>2, Budgets
<1>5. AttemptsBounded'
  BY <1>2 DEF BudgetInv, AttemptsBounded
<1>6. TotalBudget'
  <2>1. ASSUME NEW e \in Events
        PROVE  runs[<<1, e>>] <= crashes' + faults' + Allowed(1)
    <3>1. runs[<<1, e>>] \in Nat /\ Allowed(1) \in Nat
      BY Firsts
    <3>2. runs[<<1, e>>] <= crashes + faults + Allowed(1)
      BY DEF BudgetInv, TotalBudget
    <3> QED
      BY <1>1, <3>1, <3>2, Budgets
  <2>2. Allowed(1)' = Allowed(1)
    BY DEF Allowed
  <2> QED
    BY <1>2, <2>1, <2>2 DEF BudgetInv, TotalBudget
<1> QED
  BY <1>3, <1>4, <1>5, <1>6 DEF BudgetInv

LEMMA TakesUpUnpoisoned ==
  ASSUME NEW w \in Workers, NEW S, TakesUp(w, S), pc'[w] = "seen",
         UNCHANGED stream
  PROVE  ~Poisoned(msg[w])'
<1>1. PICK id \in S : EntryPC(id) = "seen" /\ msg'[w] = id
  BY DEF TakesUp
<1>2. Kind[stream[id].event] \in {"event", "undecodable", "unmatched", "empty"} =>
        ~Poisoned(id)
  BY <1>1 DEF EntryPC
<1>3. ~Poisoned(id)
  BY <1>1, <1>2 DEF EntryPC
<1> QED
  BY <1>1, <1>3 DEF Poisoned

\* The steps that neither start the handler nor exchange the message.
LEMMA BudgetQuietLoop ==
  ASSUME OneWorker, OneHandlerRuns, TypeInv, TypeInv', SoloInv, BudgetInv,
         NEW w \in Workers, LoopKinds(w),
         Looks(w) \/ Acks(w) \/ Works(w) \/ Completes(w) \/ Fails(w)
         \/ (Asks(w) /\ UNCHANGED runs)
  PROVE  BudgetInv'
<1>1. /\ crashes + faults <= crashes' + faults'
      /\ faults' = faults + 1 => crashes + faults < crashes' + faults'
  <2>1. crashes \in Nat /\ faults \in Nat /\ crashes' = crashes
        /\ (faults' = faults \/ faults' = faults + 1)
    BY CountTypes DEF LoopKinds
  <2> QED
    BY <2>1
<1>2. (\A v \in Workers : v = w) /\ Holds(w)
  BY DEF OneWorker, SoloInv
<1>3. ASSUME UNCHANGED <<stream, retryz, runs>>,
             \A id \in Ids : Waiting(id)' => Waiting(id),
             pc[w] \in MessagePCs \ {"seen"} =>
               \/ msg'[w] = msg[w] /\ pc'[w] \in MessagePCs \ {"seen"}
               \/ faults' = faults + 1
               \/ \A id \in Ids : Waiting(id)' => id # msg[w],
             pc'[w] = "retry" => pc[w] = "run" /\ msg'[w] = msg[w] /\ hi[w] = 1
                                 /\ Attempt(w) < MaxAttempts[1],
             pc'[w] = "seen" => ~Poisoned(msg[w])'
      PROVE  BudgetInv'
  <2>1. ASSUME NEW id \in Ids, Waiting(id)', Begun(id)
        PROVE  Begun(id)' \/ crashes + faults < crashes' + faults'
    <3>1. msg[w] = id /\ pc[w] \in MessagePCs \ {"seen"}
      BY <1>2, <2>1 DEF Begun
    <3>2. CASE msg'[w] = msg[w] /\ pc'[w] \in MessagePCs \ {"seen"}
      BY <3>1, <3>2 DEF Begun
    <3>3. CASE faults' = faults + 1
      BY <1>1, <3>3
    <3> QED
      BY <1>3, <2>1, <3>1, <3>2, <3>3
  <2>2. pc'[w] = "retry" => Attempt(w)' < MaxAttempts[1]
    BY <1>3 DEF Attempt
  <2> QED
    BY <1>1, <1>2, <1>3, <2>1, <2>2, BudgetKept
<1>4. CASE Looks(w)
  <2>1. UNCHANGED <<stream, retryz, runs>> /\ pc[w] \in IdleCalls
        /\ \A id \in Ids : Waiting(id)' => Waiting(id)
    BY <1>4 DEF Looks, SameWaiting
  <2>2. CASE pc'[w] \in IdleCalls
    BY <1>3, <2>1, <2>2 DEF IdleCalls, MessagePCs, HandlerCalls, MessageCalls
  <2>3. ASSUME NEW S, TakesUp(w, S) PROVE BudgetInv'
    <3>1. pc'[w] = "seen" => ~Poisoned(msg[w])'
      BY <2>1, <2>3, TakesUpUnpoisoned
    <3>2. pc'[w] # "retry"
      BY <2>3 DEF TakesUp, EntryPCs
    <3> QED
      BY <1>3, <2>1, <3>1, <3>2 DEF IdleCalls, MessagePCs, HandlerCalls, MessageCalls
  <2> QED
    BY <1>4, <2>2, <2>3 DEF Looks
<1>5. CASE Acks(w)
  <2>1. pc[w] \in MessagePCs /\ XAck(msg[w]) /\ runs' = runs
    BY <1>5 DEF Acks, MessagePCs, MessageCalls
  <2>2. /\ UNCHANGED <<stream, last, retryz>>
        /\ \A id \in Ids : Waiting(id)' => Waiting(id) /\ id # msg[w]
    BY <2>1, AckThins
  <2>3. \A id \in Ids : Waiting(id)' => id # msg[w]
    BY <2>2
  <2>4. pc'[w] = "seen" => ~Poisoned(msg[w])'
    <3>1. CASE TakesUp(w, batch[w])
      BY <2>2, <3>1, TakesUpUnpoisoned
    <3>2. CASE pc'[w] \in {"autoclaim", "brokerdlq"}
      BY <3>2
    <3> QED
      BY <1>5, <3>1, <3>2 DEF Acks
  <2>5. pc'[w] # "retry"
    BY <1>5 DEF Acks, TakesUp, EntryPCs
  <2> QED
    BY <1>3, <2>1, <2>2, <2>3, <2>4, <2>5
<1>6. CASE Works(w)
  <2>1. /\ UNCHANGED <<stream, last, pel, retryz, runs>> /\ msg'[w] = msg[w]
        /\ pc[w] \in MessagePCs /\ (pc[w] = "seen" => faults' = faults + 1)
    BY <1>6 DEF Works, SameMessage
  <2>2. pc'[w] \in MessagePCs \ {"seen"}
    <3>1. CASE pc[w] = "run" /\ pc'[w] \in {"retry", "dlq"}
      BY <3>1 DEF MessagePCs, HandlerCalls
    <3>2. CASE pc[w] \in HandlerCalls \cup {"run"} /\ PassesOn(w)
      BY <1>2, <3>2, PassesOnEnds DEF Holds, MessagePCs, MessageCalls
    <3>3. CASE pc'[w] = "rescue" \/ pc'[w] \in {"brokerdlq", "ack", "finalack"}
      BY <3>3 DEF MessagePCs, HandlerCalls, MessageCalls
    <3> QED
      BY <1>6, <3>1, <3>2, <3>3 DEF Works
  <2>3. pc'[w] = "retry" => pc[w] = "run" /\ hi[w] = 1 /\ Attempt(w) < MaxAttempts[1]
    <3> SUFFICES ASSUME pc'[w] = "retry"
                 PROVE  pc[w] = "run" /\ hi[w] = 1 /\ Attempt(w) < MaxAttempts[1]
      OBVIOUS
    <3>1. pc[w] = "run" /\ CanRetry(w, err'[w])
      BY <1>6 DEF Works
    <3>2. hi[w] = 1
      BY <1>2, <3>1 DEF Holds
    <3> QED
      BY <3>1, <3>2 DEF CanRetry
  <2> QED
    BY <1>3, <2>1, <2>2, <2>3 DEF Waiting
<1>7. CASE Completes(w)
  <2>1. /\ UNCHANGED <<stream, last, pel, retryz, runs>> /\ msg'[w] = msg[w]
        /\ pc'[w] = "mark"
    BY <1>7 DEF Completes, SameMessage, redisVars
  <2> QED
    BY <1>3, <2>1 DEF Waiting, MessagePCs, HandlerCalls
<1>8. CASE Asks(w) /\ UNCHANGED runs
  <2>1. /\ UNCHANGED <<stream, last, pel, retryz>> /\ pc[w] = "seen" /\ msg'[w] = msg[w]
        /\ pc'[w] \in {"run", "seen", "brokerdlq", "ack"}
    BY <1>8 DEF Asks, redisVars, SameMessage
  <2>2. ~Poisoned(msg[w])
    BY <2>1 DEF BudgetInv, AttemptsBounded
  <2> QED
    BY <1>3, <1>8, <2>1, <2>2 DEF Waiting, Poisoned
<1>9. CASE Fails(w)
  <2>1. UNCHANGED <<stream, retryz, runs>> /\ \A id \in Ids : Waiting(id)' => Waiting(id)
    BY <1>9, AckThins DEF Fails, SameWaiting
  <2> QED
    BY <1>3, <1>9, <2>1 DEF Fails, Ended
<1> QED
  BY <1>4, <1>5, <1>6, <1>7, <1>8, <1>9

LEMMA BudgetRuns ==
  ASSUME OneWorker, OneHandlerRuns, TypeInv, TypeInv', SoloInv, BudgetInv,
         NEW w \in Workers, LoopKinds(w), Asks(w), pc'[w] = "run",
         runs' = Bump(runs, Key(w))
  PROVE  BudgetInv'
<1> DEFINE e0 == stream[msg[w]].event
           a0 == stream[msg[w]].attempt
<1>1. (\A v \in Workers : v = w) /\ Holds(w) /\ TokensApart
  BY DEF OneWorker, SoloInv
<1>2. /\ UNCHANGED <<stream, last, pel, retryz>> /\ pc[w] = "seen"
      /\ msg[w] \in pel /\ hi[w] = 1 /\ msg'[w] = msg[w]
  BY <1>1 DEF Asks, redisVars, SameMessage, Holds, HandlerCalls
<1>3. msg[w] \in Ids /\ Waiting(msg[w]) /\ Ids' = Ids
  BY <1>2, Owners, MessageTypes DEF MessagePCs, HandlerCalls, Waiting, Ids
<1>4. /\ crashes \in Nat /\ faults \in Nat /\ crashes' \in Nat /\ faults' \in Nat
      /\ crashes' = crashes /\ (faults' = faults \/ faults' = faults + 1)
  BY CountTypes DEF LoopKinds, TypeInv, TypeOK
<1>5. crashes + faults <= crashes' + faults'
  <2>1. crashes \in Nat /\ faults \in Nat /\ crashes' = crashes
        /\ (faults' = faults \/ faults' = faults + 1)
    BY <1>4
  <2> QED
    BY <2>1
<1>6. /\ e0 \in Events /\ a0 \in Nat /\ runs[<<1, e0>>] \in Nat /\ Allowed(1) \in Nat
      /\ <<1, e0>> \in Handlers \X Events /\ 1 \in Handlers
  BY <1>3, Firsts
<1>7. /\ runs'[<<1, e0>>] = runs[<<1, e0>>] \/ runs'[<<1, e0>>] = runs[<<1, e0>>] + 1
      /\ \A k \in Handlers \X Events : k # <<1, e0>> => runs'[k] = runs[k]
  <2>1. runs \in [Handlers \X Events -> 0..CountCap] /\ Key(w) = <<1, e0>>
    BY <1>2, Owners DEF HistoryTypes, Key, Event
  <2> QED
    BY <1>6, <2>1 DEF Bump
<1>8. \A id \in Ids : ~Begun(id)
  BY <1>1, <1>2 DEF Begun
<1>9. /\ runs[<<1, e0>>] + 1 <= crashes + faults + a0
      /\ a0 <= MaxAttempts[1] /\ a0 <= PoisonMax
  BY <1>2, <1>3, <1>6, <1>8, DeliveryAssumption
    DEF BudgetInv, EntryBudget, AttemptsBounded, Poisoned
<1>10. a0 <= Allowed(1)
  BY <1>9 DEF Allowed
<1> HIDE DEF e0, a0
<1>11. /\ runs'[<<1, e0>>] \in Nat
       /\ runs'[<<1, e0>>] <= crashes' + faults' + a0
       /\ runs'[<<1, e0>>] <= crashes' + faults' + Allowed(1)
  <2> DEFINE r == runs[<<1, e0>>]
             q == runs'[<<1, e0>>]
             p == Allowed(1)
  <2>1. r \in Nat /\ (q = r \/ q = r + 1) /\ r + 1 <= crashes + faults + a0
        /\ a0 <= p /\ p \in Nat
    BY <1>6, <1>7, <1>9, <1>10
  <2> HIDE DEF r, q, p
  <2>2. q \in Nat /\ q <= crashes' + faults' + a0 /\ q <= crashes' + faults' + p
    BY <1>4, <1>6, <2>1
  <2> QED
    BY <2>2 DEF q, p
<1>12. EntryBudget'
  <2> SUFFICES ASSUME NEW id \in Ids, Waiting(id)'
               PROVE  LET r == runs'[<<1, stream[id].event>>]
                          a == stream[id].attempt
                      IN  \/ r + 1 <= crashes' + faults' + a
                          \/ Begun(id)' /\ r <= crashes' + faults' + a
    BY <1>2, <1>3 DEF EntryBudget
  <2>1. Waiting(id)
    BY <1>2 DEF Waiting
  <2>2. CASE stream[id].event = e0
    <3>1. id = msg[w]
      BY <1>1, <1>3, <2>1, <2>2 DEF TokensApart, e0
    <3>2. Begun(id)'
      BY <1>2, <3>1 DEF Begun, MessagePCs
    <3> QED
      BY <1>11, <2>2, <3>1, <3>2 DEF a0
  <2>3. CASE stream[id].event # e0
    <3> DEFINE r == runs[<<1, stream[id].event>>]
               a == stream[id].attempt
    <3>1. runs'[<<1, stream[id].event>>] = r /\ r \in Nat /\ a \in Nat
      BY <1>6, <1>7, <2>3, Firsts
    <3>2. r + 1 <= crashes + faults + a
      BY <1>8, <2>1 DEF BudgetInv, EntryBudget
    <3> HIDE DEF r, a
    <3>3. r + 1 <= crashes' + faults' + a
      BY <1>4, <1>5, <3>1, <3>2, Budgets
    <3> QED
      BY <3>1, <3>3 DEF a
  <2> QED
    BY <2>2, <2>3
<1>13. MemberBudget'
  <2> SUFFICES ASSUME NEW m \in retryz
               PROVE  runs'[<<1, m.event>>] + 1 <= crashes' + faults' + m.attempt
    BY <1>2 DEF MemberBudget
  <2>1. m.event # e0
    BY <1>1, <1>3 DEF TokensApart, e0
  <2>2. runs[<<1, m.event>>] \in Nat /\ m.attempt \in Nat /\ m.event \in Events
    BY Firsts
  <2>3. runs'[<<1, m.event>>] = runs[<<1, m.event>>]
    BY <1>6, <1>7, <2>1, <2>2
  <2>4. runs[<<1, m.event>>] + 1 <= crashes + faults + m.attempt
    BY DEF BudgetInv, MemberBudget
  <2>5. runs[<<1, m.event>>] + 1 <= crashes' + faults' + m.attempt
    BY <1>4, <1>5, <2>2, <2>4, Budgets
  <2> QED
    BY <2>3, <2>5
<1>14. AttemptsBounded'
  BY <1>1, <1>2, <1>3 DEF BudgetInv, AttemptsBounded
<1>15. TotalBudget'
  <2>1. ASSUME NEW e \in Events
        PROVE  runs'[<<1, e>>] <= crashes' + faults' + Allowed(1)
    <3>1. CASE e = e0
      BY <1>11, <3>1
    <3>2. CASE e # e0
      <4>1. runs'[<<1, e>>] = runs[<<1, e>>]
        BY <1>6, <1>7, <3>2
      <4>2. runs[<<1, e>>] \in Nat /\ runs[<<1, e>>] <= crashes + faults + Allowed(1)
        BY Firsts DEF BudgetInv, TotalBudget
      <4>3. runs[<<1, e>>] <= crashes' + faults' + Allowed(1)
        BY <1>4, <1>5, <1>6, <4>2, Budgets
      <4> QED
        BY <4>1, <4>3
    <3> QED
      BY <3>1, <3>2
  <2>2. \A h \in Handlers, e \in Events : h # 1 => runs'[<<h, e>>] = 0
    BY <1>7 DEF BudgetInv, TotalBudget
  <2>3. \A e \in Events : (\A id \in Ids : stream[id].event # e) => runs'[<<1, e>>] = 0
    BY <1>3, <1>6, <1>7 DEF BudgetInv, TotalBudget, e0
  <2>4. Allowed(1)' = Allowed(1)
    BY DEF Allowed
  <2> QED
    BY <1>2, <1>3, <2>1, <2>2, <2>3, <2>4 DEF TotalBudget
<1> QED
  BY <1>12, <1>13, <1>14, <1>15 DEF BudgetInv

LEMMA BudgetExchanges ==
  ASSUME OneWorker, OneHandlerRuns, TypeInv, TypeInv', SoloInv, BudgetInv,
         NEW w \in Workers, LoopKinds(w), Exchanges(w)
  PROVE  BudgetInv'
<1> DEFINE e0 == stream[msg[w]].event
           a0 == stream[msg[w]].attempt
           m0 == RetryMember(w)
<1>1. (\A v \in Workers : v = w) /\ Holds(w)
  BY DEF OneWorker, SoloInv
<1>2. /\ stream' = stream /\ last' = last /\ runs' = runs /\ pc[w] = "retry"
      /\ msg[w] \in pel /\ hi[w] = 1 /\ retryz' = retryz \cup {m0}
      /\ pel' = pel \ {msg[w]} /\ m0.event = e0 /\ m0.attempt = a0 + 1
  BY <1>1 DEF Exchanges, ZAddAndAck, RetryMember, Event, Attempt, Holds, HandlerCalls
<1>3. msg[w] \in Ids /\ Waiting(msg[w]) /\ Ids' = Ids /\ msg[w] \in 1..last
      /\ last \in Nat
  BY <1>2, Owners, MessageTypes DEF MessagePCs, HandlerCalls, Waiting, Ids, RedisTypes
<1>4. /\ crashes \in Nat /\ faults \in Nat /\ crashes' \in Nat /\ faults' \in Nat
      /\ crashes' = crashes /\ (faults' = faults \/ faults' = faults + 1)
  BY CountTypes DEF LoopKinds, TypeInv, TypeOK
<1>5. crashes + faults <= crashes' + faults'
  <2>1. crashes \in Nat /\ faults \in Nat /\ crashes' = crashes
        /\ (faults' = faults \/ faults' = faults + 1)
    BY <1>4
  <2> QED
    BY <2>1
<1>6. /\ e0 \in Events /\ a0 \in Nat /\ runs[<<1, e0>>] \in Nat /\ 1 \in Handlers
      /\ MaxAttempts[1] \in Nat
  BY <1>3, Firsts
<1>7. /\ runs[<<1, e0>>] + 1 <= crashes + faults + a0
         \/ runs[<<1, e0>>] <= crashes + faults + a0
      /\ a0 < MaxAttempts[1]
  BY <1>2, <1>3 DEF BudgetInv, EntryBudget, AttemptsBounded, Attempt
<1>8. pc'[w] \in {"brokerdlq", "ack", "rescue"}
  BY <1>2, PassesOnEnds DEF Exchanges
<1> HIDE DEF e0, a0, m0
<1>9. \A id \in Ids : Waiting(id)' => Waiting(id) /\ id # msg[w]
  <2>1. ~(msg[w] > last)
    BY <1>3
  <2> QED
    BY <1>2, <2>1 DEF Waiting
<1>10. EntryBudget'
  <2> SUFFICES ASSUME NEW id \in Ids, Waiting(id)'
               PROVE  runs[<<1, stream[id].event>>] + 1
                        <= crashes' + faults' + stream[id].attempt
    BY <1>2, <1>3 DEF EntryBudget
  <2>1. Waiting(id) /\ ~Begun(id)
    BY <1>1, <1>9 DEF Begun
  <2>2. runs[<<1, stream[id].event>>] \in Nat /\ stream[id].attempt \in Nat
    BY Firsts
  <2>3. runs[<<1, stream[id].event>>] + 1 <= crashes + faults + stream[id].attempt
    BY <2>1 DEF BudgetInv, EntryBudget
  <2> QED
    BY <1>4, <1>5, <2>2, <2>3, Budgets
<1>11. MemberBudget'
  <2>1. ASSUME NEW m \in retryz
        PROVE  runs[<<1, m.event>>] + 1 <= crashes' + faults' + m.attempt
    <3>1. runs[<<1, m.event>>] \in Nat /\ m.attempt \in Nat
      BY Firsts
    <3>2. runs[<<1, m.event>>] + 1 <= crashes + faults + m.attempt
      BY DEF BudgetInv, MemberBudget
    <3> QED
      BY <1>4, <1>5, <3>1, <3>2, Budgets
  <2>2. runs[<<1, m0.event>>] + 1 <= crashes' + faults' + m0.attempt
    <3>1. runs[<<1, e0>>] + 1 <= crashes' + faults' + (a0 + 1)
      BY <1>4, <1>6, <1>7
    <3> QED
      BY <1>2, <3>1
  <2> QED
    BY <1>2, <2>1, <2>2 DEF MemberBudget
<1>12. AttemptsBounded'
  <2>1. m0.attempt <= MaxAttempts[1]
    BY <1>2, <1>6, <1>7
  <2> QED
    BY <1>1, <1>2, <1>3, <1>8, <2>1 DEF BudgetInv, AttemptsBounded
<1>13. TotalBudget'
  <2>1. ASSUME NEW e \in Events
        PROVE  runs[<<1, e>>] <= crashes' + faults' + Allowed(1)
    <3>1. runs[<<1, e>>] \in Nat /\ Allowed(1) \in Nat
      BY Firsts
    <3>2. runs[<<1, e>>] <= crashes + faults + Allowed(1)
      BY DEF BudgetInv, TotalBudget
    <3> QED
      BY <1>4, <1>5, <3>1, <3>2, Budgets
  <2>2. Allowed(1)' = Allowed(1)
    BY DEF Allowed
  <2> QED
    BY <1>2, <1>3, <2>1, <2>2 DEF BudgetInv, TotalBudget
<1> QED
  BY <1>10, <1>11, <1>12, <1>13 DEF BudgetInv

LEMMA BudgetLoop ==
  ASSUME OneWorker, OneHandlerRuns, TypeInv, TypeInv', SoloInv, BudgetInv,
         NEW w \in Workers, Loop(w)
  PROVE  BudgetInv'
<1>1. LoopKinds(w)
  BY LoopHasKind
<1>2. CASE Looks(w) \/ Acks(w) \/ Works(w) \/ Completes(w) \/ Fails(w)
           \/ (Asks(w) /\ UNCHANGED runs)
  BY <1>1, <1>2, BudgetQuietLoop
<1>3. CASE Exchanges(w)
  BY <1>1, <1>3, BudgetExchanges
<1>4. CASE Asks(w) /\ pc'[w] = "run" /\ runs' = Bump(runs, Key(w))
  BY <1>1, <1>4, BudgetRuns
<1> QED
  BY <1>1, <1>2, <1>3, <1>4 DEF LoopKinds, Asks

\* A stop pays for the start it may have wasted.
LEMMA BudgetStops ==
  ASSUME OneWorker, OneHandlerRuns, TypeInv, TypeInv', BudgetInv,
         NEW w \in Workers, SchedulerFails(w) \/ Crash(w)
  PROVE  BudgetInv'
<1>1. /\ Ended(w) /\ runs' = runs
      /\ \/ SameWaiting
         \/ pc[w] \in MessagePCs /\ XAck(msg[w])
      /\ (crashes' = crashes + 1 /\ faults' = faults)
         \/ (crashes' = crashes /\ faults' = faults + 1)
  BY StopEnds, SameIsSameWaiting DEF Fails, redisVars
<1>2. crashes + faults < crashes' + faults' /\ crashes + faults <= crashes' + faults'
  <2>1. crashes \in Nat /\ faults \in Nat
    BY CountTypes
  <2> QED
    BY <1>1, <2>1
<1>3. UNCHANGED <<stream, retryz>> /\ \A id \in Ids : Waiting(id)' => Waiting(id)
  BY <1>1, AckThins DEF SameWaiting
<1>4. \A v \in Workers : pc'[v] = "down"
  BY <1>1 DEF Ended, OneWorker
<1> QED
  BY <1>1, <1>2, <1>3, <1>4, BudgetKept

LEMMA BudgetCalm ==
  ASSUME OneWorker, TypeInv, TypeInv', BudgetInv, Calm, UNCHANGED historyVars,
         \/ pc' = pc
         \/ \E w \in Workers : pc[w] = "down" /\ pc'[w] = "autoclaim"
  PROVE  BudgetInv'
<1>1. /\ UNCHANGED <<stream, retryz, runs, crashes, faults, msg>>
      /\ \A id \in Ids : Waiting(id)' => Waiting(id)
  BY DEF Calm, historyVars
<1>2. crashes + faults <= crashes' + faults'
  <2>1. crashes \in Nat /\ faults \in Nat
    BY CountTypes
  <2> QED
    BY <1>1, <2>1
<1>3. \A id \in Ids : Begun(id) => Begun(id)'
  BY <1>1 DEF Begun, OneWorker, MessagePCs, HandlerCalls, MessageCalls
<1>4. \A w \in Workers : pc'[w] \in {"retry", "seen"} => pc[w] = pc'[w]
  BY DEF OneWorker
<1>5. \A w \in Workers : pc'[w] = "retry" => Attempt(w)' < MaxAttempts[1]
  BY <1>1, <1>4 DEF BudgetInv, AttemptsBounded, Attempt
<1>6. \A w \in Workers : pc'[w] = "seen" => ~Poisoned(msg[w])'
  BY <1>1, <1>4 DEF BudgetInv, AttemptsBounded, Poisoned
<1> QED
  BY <1>1, <1>2, <1>3, <1>5, <1>6, BudgetKept

LEMMA BudgetRequeue ==
  ASSUME TypeInv, TypeInv', SoloInv, BudgetInv, NEW w \in Workers, Requeue(w)
  PROVE  BudgetInv'
<1>1. /\ Ids \subseteq Ids' /\ \A id \in Ids : stream'[id] = stream[id]
      /\ UNCHANGED <<last, pel, pc, msg, runs, crashes, faults>>
      /\ retryz' \subseteq retryz
      /\ \E g \in [Ids' \ Ids -> fetched[w]] :
           /\ \A i, j \in Ids' \ Ids : g[i] = g[j] => i = j
           /\ \A i \in Ids' \ Ids : /\ stream'[i].event = g[i].event
                                    /\ stream'[i].attempt = g[i].attempt
  BY RequeueEffect DEF localVars, historyVars
<1>2. fetched[w] \subseteq retryz
  BY DEF SoloInv, Holds
<1>3. \A i \in Ids' \ Ids : \E m \in retryz : /\ stream'[i].event = m.event
                                             /\ stream'[i].attempt = m.attempt
  BY <1>1, <1>2
<1>4. \A id \in Ids : (Waiting(id)' <=> Waiting(id)) /\ (Begun(id)' <=> Begun(id))
  BY <1>1 DEF Waiting, Begun
<1>5. EntryBudget'
  <2> SUFFICES ASSUME NEW id \in Ids', Waiting(id)'
               PROVE  \/ runs[<<1, stream'[id].event>>] + 1
                           <= crashes + faults + stream'[id].attempt
                      \/ Begun(id)' /\ runs[<<1, stream'[id].event>>]
                                         <= crashes + faults + stream'[id].attempt
    BY <1>1 DEF EntryBudget
  <2>1. CASE id \in Ids
    BY <1>1, <1>4, <2>1 DEF BudgetInv, EntryBudget
  <2>2. CASE id \notin Ids
    BY <1>3, <2>2 DEF BudgetInv, MemberBudget
  <2> QED
    BY <2>1, <2>2
<1>6. MemberBudget'
  BY <1>1 DEF BudgetInv, MemberBudget
<1>7. AttemptsBounded'
  <2>1. \A id \in Ids' : stream'[id].attempt <= MaxAttempts[1]
    BY <1>1, <1>3 DEF BudgetInv, AttemptsBounded
  <2>2. \A v \in Workers : pc[v] \in MessagePCs => msg[v] \in Ids
    BY MessageTypes, Owners
  <2>3. \A v \in Workers : pc'[v] \in {"retry", "seen"} =>
          stream'[msg'[v]] = stream[msg[v]]
    BY <1>1, <2>2 DEF MessagePCs, HandlerCalls
  <2>4. \A v \in Workers : pc'[v] = "retry" => Attempt(v)' < MaxAttempts[1]
    BY <1>1, <2>3 DEF BudgetInv, AttemptsBounded, Attempt
  <2>5. \A v \in Workers : pc'[v] = "seen" => ~Poisoned(msg[v])'
    BY <1>1, <2>3 DEF BudgetInv, AttemptsBounded, Poisoned
  <2> QED
    BY <1>1, <2>1, <2>4, <2>5 DEF BudgetInv, AttemptsBounded
<1>8. TotalBudget'
  <2>1. Allowed(1)' = Allowed(1)
    BY DEF Allowed
  <2>2. \A e \in Events : (\A id \in Ids' : stream'[id].event # e)
                            => \A id \in Ids : stream[id].event # e
    BY <1>1
  <2> QED
    BY <1>1, <2>1, <2>2 DEF BudgetInv, TotalBudget
<1> QED
  BY <1>5, <1>6, <1>7, <1>8 DEF BudgetInv

\* A newly published event has no start behind it.
LEMMA BudgetPublish ==
  ASSUME TypeInv, TypeInv', BudgetInv, NEW e \in Events, Publish(e)
  PROVE  BudgetInv'
<1> DEFINE n == Len(stream) + 1
<1>1. /\ Ids' = Ids \cup {n} /\ n \notin Ids
      /\ \A id \in Ids : stream'[id] = stream[id] /\ stream[id].event # e
      /\ stream'[n].event = e /\ stream'[n].attempt = 1
      /\ UNCHANGED <<last, pel, retryz, pc, msg, runs, crashes, faults>>
  BY PublishEffect DEF localVars, historyVars
<1> HIDE DEF n
<1>2. runs[<<1, e>>] = 0
  BY <1>1 DEF BudgetInv, TotalBudget
<1>3. 0 + 1 <= crashes + faults + 1
  BY CountTypes
<1>4. \A id \in Ids : (Waiting(id)' <=> Waiting(id)) /\ (Begun(id)' <=> Begun(id))
  BY <1>1 DEF Waiting, Begun
<1>5. EntryBudget'
  <2> SUFFICES ASSUME NEW id \in Ids', Waiting(id)'
               PROVE  \/ runs[<<1, stream'[id].event>>] + 1
                           <= crashes + faults + stream'[id].attempt
                      \/ Begun(id)' /\ runs[<<1, stream'[id].event>>]
                                         <= crashes + faults + stream'[id].attempt
    BY <1>1 DEF EntryBudget
  <2>1. CASE id \in Ids
    BY <1>1, <1>4, <2>1 DEF BudgetInv, EntryBudget
  <2>2. CASE id = n
    BY <1>1, <1>2, <1>3, <2>2
  <2> QED
    BY <1>1, <2>1, <2>2
<1>6. MemberBudget'
  BY <1>1 DEF BudgetInv, MemberBudget
<1>7. AttemptsBounded'
  <2>1. 1 <= MaxAttempts[1]
    BY Firsts
  <2>2. \A id \in Ids' : stream'[id].attempt <= MaxAttempts[1]
    BY <1>1, <2>1 DEF BudgetInv, AttemptsBounded
  <2>3. \A v \in Workers : pc[v] \in MessagePCs => msg[v] \in Ids
    BY MessageTypes, Owners
  <2>4. \A v \in Workers : pc'[v] \in {"retry", "seen"} =>
          stream'[msg'[v]] = stream[msg[v]]
    BY <1>1, <2>3 DEF MessagePCs, HandlerCalls
  <2>5. \A v \in Workers : pc'[v] = "retry" => Attempt(v)' < MaxAttempts[1]
    BY <1>1, <2>4 DEF BudgetInv, AttemptsBounded, Attempt
  <2>6. \A v \in Workers : pc'[v] = "seen" => ~Poisoned(msg[v])'
    BY <1>1, <2>4 DEF BudgetInv, AttemptsBounded, Poisoned
  <2> QED
    BY <1>1, <2>2, <2>5, <2>6 DEF BudgetInv, AttemptsBounded
<1>8. TotalBudget'
  <2>1. Allowed(1)' = Allowed(1)
    BY DEF Allowed
  <2>2. \A d \in Events : (\A id \in Ids' : stream'[id].event # d)
                            => \A id \in Ids : stream[id].event # d
    BY <1>1
  <2> QED
    BY <1>1, <2>1, <2>2 DEF BudgetInv, TotalBudget
<1> QED
  BY <1>5, <1>6, <1>7, <1>8 DEF BudgetInv

LEMMA BudgetStep ==
  ASSUME OneWorker, OneHandlerRuns, TypeInv, TypeInv', SoloInv, BudgetInv, [Next]_vars
  PROVE  BudgetInv'
<1>1. ASSUME NEW w \in Workers, Loop(w) PROVE BudgetInv'
  BY <1>1, BudgetLoop
<1>2. ASSUME NEW w \in Workers, Start(w) PROVE BudgetInv'
  BY <1>2, StartCalm, BudgetCalm
<1>3. ASSUME NEW w \in Workers, Poll(w) PROVE BudgetInv'
  <2>1. Calm /\ UNCHANGED <<pc, historyVars>>
    BY <1>3 DEF Poll, Calm, redisVars, localVars, Waiting
  <2> QED
    BY <2>1, BudgetCalm
<1>4. ASSUME NEW w \in Workers, Requeue(w) PROVE BudgetInv'
  BY <1>4, BudgetRequeue
<1>5. ASSUME NEW w \in Workers, SchedulerFails(w) \/ Crash(w) PROVE BudgetInv'
  BY <1>5, BudgetStops
<1>6. ASSUME NEW e \in Events, Publish(e) PROVE BudgetInv'
  BY <1>6, BudgetPublish
<1>7. CASE Tick \/ UNCHANGED vars
  BY <1>7, TimeCalm, BudgetCalm
<1> QED
  BY <1>1, <1>2, <1>3, <1>4, <1>5, <1>6, <1>7 DEF Next, Scheduler

LEMMA BudgetInit == Init /\ TypeInv => BudgetInv
<1> SUFFICES ASSUME Init, TypeInv PROVE BudgetInv
  OBVIOUS
<1>1. /\ Ids = {} /\ retryz = {} /\ crashes = 0 /\ faults = 0
      /\ \A w \in Workers : pc[w] = "down"
      /\ \A k \in Handlers \X Events : runs[k] = 0
  BY DEF Init, RedisInit, Ids
<1>2. 1 \in Handlers /\ Allowed(1) \in Nat
  BY Firsts
<1> QED
  BY <1>1, <1>2 DEF BudgetInv, EntryBudget, MemberBudget, AttemptsBounded, TotalBudget

\* With one worker and one handler that runs: attempts and
\* poison_max_deliveries bound how often the handler starts for an event, and
\* only a crash or a failed call adds a start.
THEOREM RunBudgetHolds ==
  ASSUME OneWorker, OneHandlerRuns
  PROVE  Spec => []RunBudget
<1>1. Init => TypeInv /\ SoloInv /\ BudgetInv
  BY TypeInit, SoloInit, BudgetInit
<1>2. TypeInv /\ SoloInv /\ BudgetInv /\ [Next]_vars => (TypeInv /\ SoloInv /\ BudgetInv)'
  <2> SUFFICES ASSUME TypeInv, SoloInv, BudgetInv, [Next]_vars
               PROVE  TypeInv' /\ SoloInv' /\ BudgetInv'
    OBVIOUS
  <2>1. TypeInv'
    BY TypeStep
  <2>2. SoloInv'
    BY SoloStep
  <2> QED
    BY <2>1, <2>2, BudgetStep
<1>3. TypeInv /\ BudgetInv => RunBudget
  <2> SUFFICES ASSUME TypeInv, BudgetInv, NEW h \in Handlers, NEW e \in Events
               PROVE  runs[<<h, e>>] <= crashes + faults + Allowed(h)
    BY DEF RunBudget, Allowed
  <2>1. Allowed(h) \in Nat /\ crashes \in Nat /\ faults \in Nat
    BY CountTypes, DeliveryAssumption DEF Allowed
  <2> QED
    BY <2>1 DEF BudgetInv, TotalBudget
<1> QED
  BY <1>1, <1>2, <1>3, PTL DEF Spec

-----------------------------------------------------------------------------
(* How often a handler is tried before its failure is dead-lettered.       *)

\* Nothing fails but handlers, the handlers' policies are within the range the
\* histories count, and keys do not expire.
NoFailures ==
  /\ MaxCrashes = 0 /\ MaxFaults = 0 /\ ~KeysMayExpire
  /\ \A h \in Handlers : MaxAttempts[h] <= CountCap

\* No handler before h, nor h, has an unsupported mode: the loop gets to h.
Reached(h) == \A g \in BadMode : h < g

Handling(w) == pc[w] \in HandlerCalls \cup {"run"}

\* Handler h has been started for e as often as a delivery of attempt a says,
\* or will not be again.
Tried(h, e, a) == <<h, e>> \in keys \/ a <= runs[<<h, e>>] + 1

\* Handler h comes after what w does with its message.
Ahead(h, w) == h > hi[w] \/ (h = hi[w] /\ pc[w] = "seen")

StillDue(h, e, a) ==
  \E w \in Workers :
    Handling(w) /\ Event(w) = e /\ a <= Attempt(w) + 1 /\ Ahead(h, w)

Backed(e, a) ==
  /\ a <= CountCap
  /\ \A h \in Handlers : Reached(h) => Tried(h, e, a) \/ StillDue(h, e, a)

WorkerTries(w) ==
  Handling(w) =>
    /\ Reached(hi[w]) /\ pc[w] # "rescue"
    /\ \A h \in Handlers : Reached(h) => Tried(h, Event(w), Attempt(w))
    /\ \A h \in Handlers : h < hi[w] => Tried(h, Event(w), Attempt(w) + 1)
    /\ pc[w] # "seen" => Attempt(w) <= runs[Key(w)]
    /\ pc[w] = "retry" => Attempt(w) < CountCap
    /\ pc[w] = "dlq" /\ Category(err[w]) = "retryable"
         => MaxAttempts[hi[w]] <= Attempt(w)

\* No copy of an event has an attempt number a handler has not had its tries
\* for, unless the worker is about to give it the last one.
TriesInv ==
  /\ \A id \in Ids : Backed(stream[id].event, stream[id].attempt)
  /\ \A m \in retryz : Backed(m.event, m.attempt)
  /\ \A w \in Workers : WorkerTries(w)
  /\ FullRetries

\* With one worker nothing is still due while it handles no message.
LEMMA NoneDue ==
  ASSUME OneWorker, NEW w \in Workers, ~Handling(w)
  PROVE  \A h \in Handlers, e \in Events, a \in Nat : ~StillDue(h, e, a)
BY DEF OneWorker, StillDue

LEMMA TriedStays ==
  ASSUME TypeInv, TypeInv', keys \subseteq keys',
         \A k \in Handlers \X Events : runs[k] <= runs'[k],
         NEW h \in Handlers, NEW e \in Events, NEW a \in Nat, Tried(h, e, a)
  PROVE  Tried(h, e, a)'
<1> DEFINE k == <<h, e>>
<1>1. k \in Handlers \X Events /\ runs[k] <= runs'[k]
  OBVIOUS
<1>2. runs[k] \in Nat
  BY <1>1, CountTypes
<1>3. runs' \in [Handlers \X Events -> 0..CountCap]
  BY DEF TypeInv, TypeOK
<1>4. runs'[k] \in Nat
  BY <1>1, <1>3, DeliveryAssumption
<1>5. a <= runs[k] + 1 => a <= runs'[k] + 1
  <2> DEFINE r == runs[k]
             q == runs'[k]
  <2>1. r \in Nat /\ q \in Nat /\ r <= q
    BY <1>1, <1>2, <1>4
  <2> HIDE DEF r, q
  <2>2. a <= r + 1 => a <= q + 1
    BY <2>1
  <2> QED
    BY <2>2 DEF r, q
<1> QED
  BY <1>5 DEF Tried

\* What is backed stays so, as long as a handler that is no longer due has
\* been tried.
LEMMA TriesKept ==
  ASSUME TypeInv, TypeInv', TriesInv, stream' = stream, keys \subseteq keys',
         \A k \in Handlers \X Events : runs[k] <= runs'[k],
         \A h \in Handlers, e \in Events, a \in Nat :
           Reached(h) /\ StillDue(h, e, a) => StillDue(h, e, a)' \/ Tried(h, e, a)',
         \A m \in retryz' : m \in retryz \/ Backed(m.event, m.attempt)',
         \A w \in Workers : WorkerTries(w)',
         FullRetries'
  PROVE  TriesInv'
<1>1. \A id \in Ids : stream[id].event \in Events /\ stream[id].attempt \in Nat
  BY Firsts
<1>2. \A m \in retryz : m.event \in Events /\ m.attempt \in Nat
  BY Firsts
<1>3. ASSUME NEW e \in Events, NEW a \in Nat, Backed(e, a) PROVE Backed(e, a)'
  <2>1. ASSUME NEW h \in Handlers, Reached(h)
        PROVE  Tried(h, e, a)' \/ StillDue(h, e, a)'
    BY <1>3, <2>1, TriedStays DEF Backed
  <2>2. \A h \in Handlers : Reached(h)' => Reached(h)
    BY DEF Reached
  <2> QED
    BY <1>3, <2>1, <2>2 DEF Backed
<1>4. ASSUME NEW id \in Ids PROVE Backed(stream[id].event, stream[id].attempt)'
  <2>1. Backed(stream[id].event, stream[id].attempt)
    BY DEF TriesInv
  <2>2. PICK e \in Events, a \in Nat : e = stream[id].event /\ a = stream[id].attempt
    BY <1>1
  <2>3. Backed(e, a)'
    BY <1>3, <2>1, <2>2
  <2>4. stream'[id].event = e /\ stream'[id].attempt = a
    BY <2>2
  <2> QED
    BY <2>3, <2>4 DEF Backed
<1>5. ASSUME NEW m \in retryz' PROVE Backed(m.event, m.attempt)'
  <2>1. ASSUME m \in retryz PROVE Backed(m.event, m.attempt)'
    BY <1>2, <1>3, <2>1 DEF TriesInv
  <2> QED
    BY <2>1
<1>6. Ids' = Ids
  BY DEF Ids
<1> QED
  BY <1>4, <1>5, <1>6 DEF TriesInv

\* The handler w is with has been tried for this attempt and w goes on to the
\* next: whoever was due still is.
LEMMA PassesTries ==
  ASSUME OneWorker, TypeInv, TypeInv', NEW w \in Workers, Handling(w), WorkerTries(w),
         stream' = stream, keys \subseteq keys',
         \A k \in Handlers \X Events : runs[k] <= runs'[k],
         PassesOn(w), pc[w] = "seen" \/ Attempt(w) <= runs[Key(w)],
         pc[w] = "seen" => Key(w) \in keys
  PROVE  /\ WorkerTries(w)'
         /\ \A h \in Handlers, e \in Events, a \in Nat :
              Reached(h) /\ StillDue(h, e, a) => StillDue(h, e, a)' \/ Tried(h, e, a)'
<1>1. PICK e0 \in Events, a0 \in Nat, h0 \in Handlers :
        e0 = Event(w) /\ a0 = Attempt(w) /\ h0 = hi[w]
  BY Owners, MessageTypes DEF Handling, MessagePCs
<1>2. Event(w)' = e0 /\ Attempt(w)' = a0
  BY <1>1 DEF PassesOn, SameMessage, Event, Attempt
<1>3. h0 \in Nat /\ NumHandlers \in Nat /\ a0 + 1 \in Nat
  BY <1>1, RedisAssumption DEF Handlers
<1>4. \A h \in Handlers, a \in Nat : Tried(h, e0, a) => Tried(h, e0, a)'
  BY TriedStays
<1>5. ASSUME NEW a \in Nat, a <= a0 + 1 PROVE Tried(h0, e0, a)'
  <2>1. Key(w) = <<h0, e0>>
    BY <1>1 DEF Key
  <2>2. CASE <<h0, e0>> \in keys
    BY <2>2 DEF Tried
  <2>3. CASE a0 <= runs[<<h0, e0>>]
    <3>1. runs[<<h0, e0>>] \in Nat
      BY CountTypes
    <3>2. Tried(h0, e0, a)
      BY <1>5, <2>3, <3>1 DEF Tried
    <3> QED
      BY <1>4, <3>2
  <2> QED
    BY <1>1, <2>1, <2>2, <2>3
<1>6. WorkerTries(w)'
  <2> SUFFICES ASSUME Handling(w)'
               PROVE  /\ Reached(hi[w])' /\ pc'[w] = "seen"
                      /\ \A h \in Handlers : Reached(h) => Tried(h, e0, a0)'
                      /\ \A h \in Handlers : h < hi'[w] => Tried(h, e0, a0 + 1)'
    BY <1>2 DEF WorkerTries, Reached, Tried
  <2>1. hi'[w] = h0 + 1 /\ pc'[w] = HandlerPC(h0 + 1)
    BY <1>1 DEF PassesOn, Handling, HandlerCalls
  <2>2. pc'[w] = "seen" /\ h0 + 1 \notin BadMode
    BY <2>1 DEF HandlerPC, Handling, HandlerCalls
  <2>3. Reached(hi[w])'
    <3>1. \A g \in BadMode : h0 < g /\ g # h0 + 1 /\ g \in Nat
      BY <1>1, <2>2, DeliveryAssumption DEF WorkerTries, Reached, Handlers
    <3>2. \A g \in BadMode : h0 + 1 < g
      BY <1>3, <3>1
    <3> QED
      BY <2>1, <3>2 DEF Reached
  <2>4. ASSUME NEW h \in Handlers, Reached(h) PROVE Tried(h, e0, a0)'
    <3>1. Tried(h, e0, a0)
      BY <1>1, <2>4 DEF WorkerTries
    <3> QED
      BY <1>4, <3>1
  <2>5. ASSUME NEW h \in Handlers, h < hi'[w] PROVE Tried(h, e0, a0 + 1)'
    <3>1. CASE h = h0
      BY <1>3, <1>5, <3>1
    <3>2. CASE h < h0
      <4>1. Tried(h, e0, a0 + 1)
        BY <1>1, <3>2 DEF WorkerTries
      <4> QED
        BY <1>3, <1>4, <4>1
    <3> QED
      BY <1>3, <2>1, <2>5, <3>1, <3>2 DEF Handlers
  <2> QED
    BY <2>2, <2>3, <2>4, <2>5
<1>7. ASSUME NEW h \in Handlers, NEW e \in Events, NEW a \in Nat,
             Reached(h), StillDue(h, e, a)
      PROVE  StillDue(h, e, a)' \/ Tried(h, e, a)'
  <2>1. e = e0 /\ a <= a0 + 1 /\ (h = h0 \/ h > h0)
    BY <1>1, <1>7 DEF StillDue, OneWorker, Ahead
  <2>2. ASSUME h = h0 PROVE Tried(h, e, a)'
    BY <1>5, <2>1, <2>2
  <2>3. ASSUME h > h0 PROVE StillDue(h, e, a)'
    <3>1. h0 < NumHandlers
      BY <1>3, <2>3 DEF Handlers
    <3>2. hi'[w] = h0 + 1 /\ pc'[w] = HandlerPC(h0 + 1)
      BY <1>1, <1>3, <3>1 DEF PassesOn
    <3>3. h0 + 1 \notin BadMode
      <4>1. ASSUME h0 + 1 \in BadMode PROVE FALSE
        <5>1. h < h0 + 1
          BY <1>7, <4>1 DEF Reached
        <5> QED
          BY <1>3, <2>3, <5>1 DEF Handlers
      <4> QED
        BY <4>1
    <3>4. pc'[w] = "seen" /\ (h > hi'[w] \/ h = hi'[w])
      BY <1>3, <2>3, <3>2, <3>3 DEF HandlerPC, Handlers
    <3>5. Handling(w)' /\ Ahead(h, w)'
      BY <3>4 DEF Handling, HandlerCalls, Ahead
    <3> QED
      BY <1>2, <2>1, <3>5 DEF StillDue
  <2> QED
    BY <2>1, <2>2, <2>3
<1> QED
  BY <1>6, <1>7

\* A message that is taken up is backed, and nobody else is with its event.
LEMMA TakesUpTries ==
  ASSUME OneWorker, TypeInv, TriesInv, UNCHANGED <<stream, keys, runs>>,
         NEW w \in Workers, ~Handling(w), NEW S, S \subseteq Ids, TakesUp(w, S)
  PROVE  WorkerTries(w)'
<1>1. PICK id \in S : pc'[w] = EntryPC(id) /\ EntryPC(id) \in EntryPCs
                      /\ msg'[w] = id /\ hi'[w] = 1
  BY DEF TakesUp
<1> SUFFICES ASSUME Handling(w)' PROVE WorkerTries(w)'
  BY DEF WorkerTries
<1>2. pc'[w] = "seen" /\ EntryPC(id) = "seen"
  BY <1>1 DEF Handling, HandlerCalls, EntryPCs
<1>3. 1 \notin BadMode
  <2>1. Kind[stream[id].event] \in {"event", "undecodable", "unmatched", "empty"}
    BY Firsts, DeliveryAssumption
  <2> QED
    BY <1>2, <2>1 DEF EntryPC, HandlerPC
<1>4. Event(w)' = stream[id].event /\ Attempt(w)' = stream[id].attempt
      /\ stream[id].event \in Events /\ stream[id].attempt \in Nat
  BY <1>1, Firsts DEF Event, Attempt
<1>5. \A h \in Handlers : Reached(h) => Tried(h, stream[id].event, stream[id].attempt)
  <2>1. id \in Ids
    OBVIOUS
  <2>2. Backed(stream[id].event, stream[id].attempt)
    BY <2>1 DEF TriesInv
  <2> QED
    BY <1>4, <2>2, NoneDue DEF Backed
<1>6. Reached(hi[w])'
  <2>1. \A g \in BadMode : g \in Nat /\ g >= 1 /\ g # 1
    BY <1>3, DeliveryAssumption DEF Handlers
  <2> QED
    BY <1>1, <2>1 DEF Reached
<1>7. \A h \in Handlers : ~(h < hi'[w])
  BY <1>1 DEF Handlers
<1> QED
  BY <1>2, <1>4, <1>5, <1>6, <1>7 DEF WorkerTries, Tried, Reached

\* What a step of the loop adds to the dead letters.
LEMMA LoopLetters ==
  ASSUME NEW w \in Workers, Loop(w)
  PROVE  \/ dlq' = dlq
         \/ \E x : dlq' = dlq \cup {x} /\ x.handler = 0
         \/ /\ pc[w] \in {"dlq", "rescue"}
            /\ dlq' = dlq \cup {Letter(w, hi[w], err[w])}
<1>1. CASE FindWork(w)
  BY <1>1 DEF FindWork, AutoClaim, NoAutoClaim, ListPending, ClaimListed, ReadNew,
     XClaim, XReadGroup, redisVars
<1>2. CASE Poison(w) \/ Contract(w) \/ Unmatched(w) \/ BrokerDlq(w)
  <2>1. \E why : dlq' = dlq \cup {Letter(w, 0, why)}
    BY <1>2 DEF Poison, Contract, Unmatched, BrokerDlq, DlqAdd
  <2>2. \A why : Letter(w, 0, why).handler = 0
    BY DEF Letter
  <2> QED
    BY <2>1, <2>2
<1>3. CASE SendDlq(w)
  BY <1>3 DEF SendDlq, DlqAdd
<1>4. CASE \/ Drop(w) \/ HandlerRaises(w) \/ ScheduleRetry(w) \/ MarkSeen(w)
           \/ Ack(w) \/ FinalAck(w) \/ Seen(w) \/ HandlerReturns(w) \/ CallLost(w)
  BY <1>4 DEF Drop, HandlerRaises, ScheduleRetry, MarkSeen, Ack, FinalAck, Seen,
     HandlerReturns, CallLost, XAck, ZAddAndAck, SetKey, redisVars
<1> QED
  BY <1>1, <1>2, <1>3, <1>4 DEF Loop, HandleMessage

LEMMA LettersKept ==
  ASSUME TypeInv, TypeInv', TriesInv, \A k \in Handlers \X Events : runs[k] <= runs'[k],
         NEW w \in Workers, Loop(w)
  PROVE  FullRetries'
<1>1. /\ dlq \subseteq Letters
      /\ \A h \in Handlers : MaxAttempts[h] \in Nat
  BY Owners, DeliveryAssumption DEF RedisTypes
<1>2. ASSUME NEW k \in Handlers \X Events, NEW n \in Nat, n <= runs[k] PROVE n <= runs'[k]
  <2>1. PICK r \in Nat, q \in Nat : r = runs[k] /\ q = runs'[k]
    <3>1. runs[k] \in Nat
      BY CountTypes
    <3>2. runs' \in [Handlers \X Events -> 0..CountCap]
      BY DEF TypeInv, TypeOK
    <3> QED
      BY <3>1, <3>2, DeliveryAssumption
  <2>2. n <= r /\ r <= q
    BY <1>2, <2>1
  <2> QED
    BY <2>1, <2>2
<1>3. ASSUME NEW letter \in dlq, letter.handler # 0, Category(letter.why) = "retryable"
      PROVE  MaxAttempts[letter.handler] <= runs'[<<letter.handler, letter.event>>]
  <2>1. letter.handler \in Handlers /\ letter.event \in Events
    BY <1>1, <1>3, RedisAssumption DEF Letters, Handlers
  <2>2. runs[<<letter.handler, letter.event>>] >= MaxAttempts[letter.handler]
    BY <1>3 DEF TriesInv, FullRetries
  <2>3. MaxAttempts[letter.handler] <= runs[<<letter.handler, letter.event>>]
    BY <1>1, <2>1, <2>2, CountTypes
  <2> QED
    BY <1>1, <1>2, <2>1, <2>3
<1>4. ASSUME pc[w] \in {"dlq", "rescue"}, Category(err[w]) = "retryable"
      PROVE  MaxAttempts[hi[w]] <= runs'[<<hi[w], Event(w)>>]
  <2>1. /\ hi[w] \in Handlers /\ Event(w) \in Events /\ Attempt(w) \in Nat
        /\ Handling(w)
    BY <1>4, Owners, MessageTypes DEF MessagePCs, HandlerCalls, Handling
  <2>2. /\ MaxAttempts[hi[w]] <= Attempt(w) /\ Attempt(w) <= runs[<<hi[w], Event(w)>>]
    BY <1>4, <2>1 DEF TriesInv, WorkerTries, Key
  <2>3. MaxAttempts[hi[w]] <= runs[<<hi[w], Event(w)>>]
    BY <1>1, <2>1, <2>2, CountTypes
  <2> QED
    BY <1>1, <1>2, <2>1, <2>3
<1>5. ASSUME NEW letter \in dlq', letter.handler # 0, Category(letter.why) = "retryable"
      PROVE  MaxAttempts[letter.handler] <= runs'[<<letter.handler, letter.event>>]
  <2>1. letter \in dlq
        \/ (pc[w] \in {"dlq", "rescue"} /\ letter = Letter(w, hi[w], err[w]))
    BY <1>5, LoopLetters
  <2>2. CASE letter \in dlq
    BY <1>3, <1>5, <2>2
  <2>3. CASE pc[w] \in {"dlq", "rescue"} /\ letter = Letter(w, hi[w], err[w])
    BY <1>4, <1>5, <2>3 DEF Letter
  <2> QED
    BY <2>1, <2>2, <2>3
<1>6. /\ dlq' \subseteq Letters
      /\ \A k \in Handlers \X Events : runs'[k] \in Nat
  BY DeliveryAssumption DEF TypeInv, TypeOK
<1>7. ASSUME NEW letter \in dlq', letter.handler # 0, Category(letter.why) = "retryable"
      PROVE  runs'[<<letter.handler, letter.event>>] >= MaxAttempts[letter.handler]
  <2>1. letter.handler \in Handlers /\ letter.event \in Events
    BY <1>6, <1>7, RedisAssumption DEF Letters, Handlers
  <2>2. /\ runs'[<<letter.handler, letter.event>>] \in Nat
        /\ MaxAttempts[letter.handler] \in Nat
    BY <1>1, <1>6, <2>1
  <2> QED
    BY <1>5, <1>7, <2>2
<1> QED
  BY <1>7 DEF FullRetries

\* The steps that only start, return from or fail a handler.
LEMMA TriesQuiet ==
  ASSUME OneWorker, TypeInv, TypeInv', TriesInv, FullRetries',
         UNCHANGED <<stream, retryz>>, keys \subseteq keys',
         \A k \in Handlers \X Events : runs[k] <= runs'[k],
         NEW w \in Workers, WorkerTries(w)',
         \/ ~Handling(w)
         \/ \A h \in Handlers, e \in Events, a \in Nat :
              Reached(h) /\ StillDue(h, e, a) => StillDue(h, e, a)' \/ Tried(h, e, a)'
  PROVE  TriesInv'
<1>1. \A v \in Workers : WorkerTries(v)'
  BY DEF OneWorker
<1>2. \A h \in Handlers, e \in Events, a \in Nat :
        Reached(h) /\ StillDue(h, e, a) => StillDue(h, e, a)' \/ Tried(h, e, a)'
  BY NoneDue
<1> QED
  BY <1>1, <1>2, TriesKept

\* The handler runs, or goes on, on the same message.
LEMMA StaysTries ==
  ASSUME OneWorker, TypeInv, TypeInv', NEW w \in Workers, Handling(w), WorkerTries(w),
         stream' = stream, keys \subseteq keys',
         \A k \in Handlers \X Events : runs[k] <= runs'[k],
         SameMessage(w), hi'[w] = hi[w], pc'[w] \in {"run", "mark", "retry", "dlq"},
         Attempt(w) <= runs'[Key(w)],
         pc'[w] = "retry" => Attempt(w) < CountCap,
         pc'[w] = "dlq" /\ Category(err'[w]) = "retryable"
           => MaxAttempts[hi[w]] <= Attempt(w)
  PROVE  /\ WorkerTries(w)'
         /\ \A h \in Handlers, e \in Events, a \in Nat :
              Reached(h) /\ StillDue(h, e, a) => StillDue(h, e, a)' \/ Tried(h, e, a)'
<1>1. PICK e0 \in Events, a0 \in Nat, h0 \in Handlers :
        e0 = Event(w) /\ a0 = Attempt(w) /\ h0 = hi[w]
  BY Owners, MessageTypes DEF Handling, MessagePCs
<1>2. /\ Event(w)' = e0 /\ Attempt(w)' = a0 /\ Key(w)' = <<h0, e0>> /\ Key(w) = <<h0, e0>>
      /\ hi'[w] = h0 /\ Handling(w)'
  BY <1>1 DEF SameMessage, Event, Attempt, Key, Handling, HandlerCalls
<1>3. a0 + 1 \in Nat
  BY <1>1
<1>4. \A h \in Handlers, a \in Nat : Tried(h, e0, a) => Tried(h, e0, a)'
  BY TriedStays
<1>5. ASSUME NEW h \in Handlers, Reached(h) PROVE Tried(h, e0, a0)'
  <2>1. Tried(h, e0, a0)
    BY <1>1, <1>5 DEF WorkerTries
  <2> QED
    BY <1>4, <2>1
<1>6. ASSUME NEW h \in Handlers, h < h0 PROVE Tried(h, e0, a0 + 1)'
  <2>1. Tried(h, e0, a0 + 1)
    BY <1>1, <1>6 DEF WorkerTries
  <2> QED
    BY <1>3, <1>4, <2>1
<1>7. Reached(h0)
  BY <1>1 DEF WorkerTries
<1>8. WorkerTries(w)'
  BY <1>1, <1>2, <1>5, <1>6, <1>7 DEF WorkerTries, Tried, Reached
<1>9. ASSUME NEW h \in Handlers, NEW e \in Events, NEW a \in Nat, StillDue(h, e, a)
      PROVE  StillDue(h, e, a)' \/ Tried(h, e, a)'
  <2>1. e = e0 /\ a <= a0 + 1 /\ (h = h0 \/ h > h0)
    BY <1>1, <1>9 DEF StillDue, OneWorker, Ahead
  <2>2. ASSUME h = h0 PROVE Tried(h, e, a)'
    <3>1. runs'[<<h0, e0>>] \in Nat /\ a0 <= runs'[<<h0, e0>>]
      BY <1>1, <1>2, DeliveryAssumption DEF TypeInv, TypeOK
    <3>2. a <= runs'[<<h0, e0>>] + 1
      BY <2>1, <3>1
    <3> QED
      BY <2>1, <2>2, <3>2 DEF Tried
  <2>3. ASSUME h > h0 PROVE StillDue(h, e, a)'
    BY <1>2, <2>1, <2>3 DEF StillDue, Ahead
  <2> QED
    BY <2>1, <2>2, <2>3
<1> QED
  BY <1>8, <1>9

\* Asks and finds no key: the handler is started once more.
LEMMA StartsTries ==
  ASSUME TypeInv, TriesInv, NEW w \in Workers, pc[w] = "seen", Key(w) \notin keys,
         Attempt(w) <= CountCap, runs' = Bump(runs, Key(w))
  PROVE  /\ Attempt(w) <= runs'[Key(w)]
         /\ \A k \in Handlers \X Events : runs[k] <= runs'[k]
<1>1. PICK k0 \in Handlers \X Events, a0 \in Nat : k0 = Key(w) /\ a0 = Attempt(w)
  BY Owners, MessageTypes DEF MessagePCs, HandlerCalls
<1>2. /\ runs \in [Handlers \X Events -> 0..CountCap] /\ CountCap \in Nat
      /\ runs[k0] \in Nat
  BY Owners, DeliveryAssumption DEF HistoryTypes
<1>3. a0 <= runs[k0] + 1
  <2>1. Reached(hi[w]) /\ hi[w] \in Handlers /\ Key(w) = <<hi[w], Event(w)>>
        /\ \A h \in Handlers : Reached(h) => Tried(h, Event(w), Attempt(w))
    BY Owners, MessageTypes DEF TriesInv, WorkerTries, Handling, HandlerCalls, MessagePCs, Key
  <2>2. Tried(hi[w], Event(w), Attempt(w))
    BY <2>1
  <2> QED
    BY <1>1, <2>1, <2>2 DEF Tried
<1>4. /\ runs'[k0] = IF runs[k0] < CountCap THEN runs[k0] + 1 ELSE runs[k0]
      /\ \A k \in Handlers \X Events : k # k0 => runs'[k] = runs[k]
  BY <1>1, <1>2 DEF Bump
<1>5. a0 <= runs'[k0] /\ runs[k0] <= runs'[k0]
  <2>1. PICK r \in Nat, q \in Nat, c \in Nat : r = runs[k0] /\ q = runs'[k0] /\ c = CountCap
    BY <1>2, <1>4
  <2>2. a0 <= r + 1 /\ q = (IF r < c THEN r + 1 ELSE r) /\ a0 <= c
    BY <1>1, <1>3, <1>4, <2>1
  <2>3. a0 <= q /\ r <= q
    BY <2>2
  <2> QED
    BY <2>1, <2>3
<1>6. ASSUME NEW k \in Handlers \X Events PROVE runs[k] <= runs'[k]
  <2>1. CASE k = k0
    BY <1>5, <2>1
  <2>2. CASE k # k0
    BY <1>2, <1>4, <2>2
  <2> QED
    BY <2>1, <2>2
<1> QED
  BY <1>1, <1>5, <1>6

\* schedule_retry puts back a copy of the next attempt, which the handlers
\* before this one and this one have had their tries for; the later ones are
\* still due.
LEMMA ExchangeBacked ==
  ASSUME OneWorker, TypeInv, TypeInv', TriesInv, NEW w \in Workers, Exchanges(w),
         UNCHANGED faults,
         \A h \in Handlers, e \in Events, a \in Nat :
           Reached(h) /\ StillDue(h, e, a) => StillDue(h, e, a)' \/ Tried(h, e, a)'
  PROVE  \A m \in retryz' : m \in retryz \/ Backed(m.event, m.attempt)'
<1>1. PICK e0 \in Events, a0 \in Nat, h0 \in Handlers :
        e0 = Event(w) /\ a0 = Attempt(w) /\ h0 = hi[w]
  BY Owners, MessageTypes DEF Exchanges, MessagePCs, HandlerCalls
<1>2. PICK m0 : /\ m0 = RetryMember(w) /\ m0.event = e0 /\ m0.attempt = a0 + 1
                /\ retryz' = retryz \cup {m0}
  BY <1>1 DEF Exchanges, ZAddAndAck, RetryMember
<1>3. /\ a0 + 1 \in Nat /\ Handling(w) /\ pc[w] = "retry"
      /\ keys \subseteq keys' /\ \A k \in Handlers \X Events : runs[k] <= runs'[k]
  BY <1>1, CountTypes DEF Exchanges, Handling, HandlerCalls, ZAddAndAck
<1>4. WorkerTries(w) /\ Key(w) = <<h0, e0>> /\ CountCap \in Nat
  BY <1>1, DeliveryAssumption DEF TriesInv, Key
<1>5. a0 + 1 <= CountCap
  BY <1>1, <1>3, <1>4 DEF WorkerTries
<1>6. ASSUME NEW h \in Handlers, Reached(h)
      PROVE  Tried(h, e0, a0 + 1)' \/ StillDue(h, e0, a0 + 1)'
  <2>1. CASE h > h0
    <3>1. StillDue(h, e0, a0 + 1)
      BY <1>1, <1>3, <2>1 DEF StillDue, Ahead
    <3> QED
      BY <1>3, <1>6, <3>1
  <2>2. CASE h = h0 \/ h < h0
    <3>1. a0 <= runs[<<h0, e0>>] /\ runs[<<h0, e0>>] \in Nat
      BY <1>1, <1>3, <1>4, CountTypes DEF WorkerTries
    <3>2. Tried(h0, e0, a0 + 1)
      BY <3>1 DEF Tried
    <3>3. h < h0 => Tried(h, e0, a0 + 1)
      BY <1>1, <1>3, <1>4 DEF WorkerTries
    <3>4. Tried(h, e0, a0 + 1)
      BY <2>2, <3>2, <3>3
    <3> QED
      BY <1>3, <3>4, TriedStays
  <2> QED
    BY <2>1, <2>2 DEF Handlers
<1>7. Backed(e0, a0 + 1)'
  BY <1>5, <1>6 DEF Backed, Reached
<1> QED
  BY <1>2, <1>7 DEF Backed

LEMMA TriesLoop ==
  ASSUME OneWorker, NoFailures, TypeInv, TypeInv', Bounded, TriesInv,
         NEW w \in Workers, Loop(w)
  PROVE  TriesInv'
<1>1. LoopKinds(w)
  BY LoopHasKind
<1>2. faults' = faults /\ faults' # faults + 1
  BY <1>1, CountTypes DEF LoopKinds, Bounded, NoFailures
<1>3. WorkerTries(w) /\ \A k \in Handlers \X Events : runs[k] <= runs[k]
  BY CountTypes DEF TriesInv
<1>4. (\A k \in Handlers \X Events : runs[k] <= runs'[k]) => FullRetries'
  BY LettersKept
<1>5. MessageCalls \cap (HandlerCalls \cup {"run"}) = {}
      /\ IdleCalls \cap (HandlerCalls \cup {"run"}) = {}
  BY DEF MessageCalls, HandlerCalls, IdleCalls
<1>6. CASE Looks(w)
  <2>1. UNCHANGED <<stream, retryz, keys, runs>> /\ ~Handling(w)
    BY <1>5, <1>6 DEF Looks, SameWaiting, Handling
  <2>2. WorkerTries(w)'
    <3>1. CASE pc'[w] \in IdleCalls
      BY <1>5, <3>1 DEF WorkerTries, Handling
    <3>2. ASSUME NEW S \in SUBSET pel', TakesUp(w, S) PROVE WorkerTries(w)'
      <4>1. pel' \subseteq Ids
        <5>1. /\ pel' \subseteq 1..last' /\ last' <= Len(stream) /\ last' \in Nat
              /\ Len(stream) \in Nat
          BY <2>1, Owners DEF TypeInv, TypeOK, ServerOK, RedisTypes
        <5> QED
          BY <5>1 DEF Ids
      <4> QED
        BY <2>1, <3>2, <4>1, TakesUpTries
    <3> QED
      BY <1>6, <3>1, <3>2 DEF Looks
  <2> QED
    BY <1>3, <1>4, <2>1, <2>2, TriesQuiet
<1>7. CASE Acks(w)
  <2>1. UNCHANGED <<stream, retryz, keys, runs>> /\ ~Handling(w)
    BY <1>7 DEF Acks, XAck, Handling, HandlerCalls
  <2>2. WorkerTries(w)'
    <3>1. CASE pc'[w] \in {"autoclaim", "brokerdlq"}
      BY <3>1 DEF WorkerTries, Handling, HandlerCalls
    <3>2. CASE TakesUp(w, batch[w])
      <4>1. batch[w] \subseteq Ids
        BY Owners DEF LoopTypes, RedisTypes, WorkerOK, ServerOK, Ids
      <4> QED
        BY <2>1, <3>2, <4>1, TakesUpTries
    <3> QED
      BY <1>7, <3>1, <3>2 DEF Acks
  <2> QED
    BY <1>3, <1>4, <2>1, <2>2, TriesQuiet
<1>8. CASE Works(w)
  <2>1. /\ UNCHANGED <<stream, retryz, runs>> /\ keys \subseteq keys' /\ SameMessage(w)
        /\ pc[w] # "seen"
    BY <1>2, <1>8 DEF Works
  <2>2. CASE pc[w] = "run" /\ hi'[w] = hi[w] /\ pc'[w] \in {"retry", "dlq"}
    <3>1. Handling(w) /\ hi[w] \in Handlers /\ Attempt(w) \in Nat
      BY <2>2, Owners, MessageTypes DEF Handling, MessagePCs
    <3>2. MaxAttempts[hi[w]] \in Nat /\ MaxAttempts[hi[w]] <= CountCap /\ CountCap \in Nat
      BY <3>1, DeliveryAssumption DEF NoFailures
    <3>3. pc'[w] = "retry" => Attempt(w) < CountCap
      <4>1. pc'[w] = "retry" => Attempt(w) < MaxAttempts[hi[w]]
        BY <1>8, <2>2 DEF Works, CanRetry, HandlerCalls, MessageCalls, PassesOn
      <4> QED
        BY <3>1, <3>2, <4>1
    <3>4. pc'[w] = "dlq" /\ Category(err'[w]) = "retryable"
            => MaxAttempts[hi[w]] <= Attempt(w)
      <4>1. pc'[w] = "dlq" => ~CanRetry(w, err'[w])
        BY <1>8, <2>2 DEF Works, HandlerCalls, MessageCalls, PassesOn
      <4> QED
        BY <3>1, <3>2, <4>1 DEF CanRetry
    <3>5. Attempt(w) <= runs'[Key(w)]
      BY <1>3, <2>1, <2>2, <3>1 DEF WorkerTries
    <3> QED
      BY <1>3, <1>4, <2>1, <2>2, <3>1, <3>3, <3>4, <3>5, StaysTries, TriesQuiet
  <2>3. CASE pc[w] \in HandlerCalls \cup {"run"} /\ PassesOn(w)
    <3>1. Handling(w) /\ Attempt(w) <= runs[Key(w)]
      BY <1>3, <2>1, <2>3 DEF WorkerTries, Handling
    <3> QED
      BY <1>3, <1>4, <2>1, <2>3, <3>1, PassesTries, TriesQuiet
  <2>4. CASE pc[w] \in MessageCalls \cup {"rescue"}
             /\ pc'[w] \in {"brokerdlq", "ack", "finalack"}
    <3>1. ~Handling(w)
      BY <1>3, <1>5, <2>4 DEF WorkerTries, Handling
    <3>2. WorkerTries(w)'
      BY <2>4 DEF WorkerTries, Handling, HandlerCalls
    <3> QED
      BY <1>3, <1>4, <2>1, <3>1, <3>2, TriesQuiet
  <2> QED
    BY <1>2, <1>8, <2>2, <2>3, <2>4 DEF Works
<1>9. CASE Asks(w)
  <2>1. UNCHANGED <<stream, retryz, keys>> /\ SameMessage(w) /\ pc[w] = "seen" /\ Handling(w)
    BY <1>9 DEF Asks, redisVars, Handling, HandlerCalls
  <2>2. CASE Key(w) \in keys /\ PassesOn(w) /\ UNCHANGED runs
    BY <1>3, <1>4, <2>1, <2>2, PassesTries, TriesQuiet
  <2>3. CASE Key(w) \notin keys /\ pc'[w] = "run" /\ hi'[w] = hi[w]
             /\ runs' = Bump(runs, Key(w))
    <3>1. msg[w] \in Ids
      BY <2>1, Owners, MessageTypes DEF MessagePCs, HandlerCalls
    <3>2. Attempt(w) <= CountCap
      BY <3>1 DEF TriesInv, Backed, Attempt
    <3>3. /\ Attempt(w) <= runs'[Key(w)]
          /\ \A k \in Handlers \X Events : runs[k] <= runs'[k]
      BY <2>1, <2>3, <3>2, StartsTries
    <3> QED
      BY <1>3, <1>4, <2>1, <2>3, <3>3, StaysTries, TriesQuiet
  <2> QED
    BY <1>9, <2>2, <2>3 DEF Asks
<1>10. CASE Completes(w)
  <2>1. /\ UNCHANGED <<stream, retryz, keys, runs>> /\ SameMessage(w) /\ Handling(w)
        /\ pc[w] = "run" /\ pc'[w] = "mark" /\ hi'[w] = hi[w]
    BY <1>10 DEF Completes, redisVars, Handling
  <2>2. Attempt(w) <= runs'[Key(w)]
    BY <1>3, <2>1 DEF WorkerTries
  <2> QED
    BY <1>3, <1>4, <2>1, <2>2, StaysTries, TriesQuiet
<1>11. CASE Exchanges(w)
  <2>1. /\ stream' = stream /\ keys' = keys /\ runs' = runs /\ SameMessage(w) /\ Handling(w)
        /\ pc[w] = "retry" /\ PassesOn(w)
    BY <1>2, <1>11 DEF Exchanges, ZAddAndAck, Handling, HandlerCalls
  <2>2. Attempt(w) <= runs[Key(w)]
    BY <1>3, <2>1 DEF WorkerTries
  <2>3. /\ WorkerTries(w)'
        /\ \A h \in Handlers, e \in Events, a \in Nat :
             Reached(h) /\ StillDue(h, e, a) => StillDue(h, e, a)' \/ Tried(h, e, a)'
    BY <1>3, <2>1, <2>2, PassesTries
  <2>4. \A m \in retryz' : m \in retryz \/ Backed(m.event, m.attempt)'
    BY <1>2, <1>11, <2>3, ExchangeBacked
  <2>5. \A v \in Workers : WorkerTries(v)'
    BY <2>3 DEF OneWorker
  <2> QED
    BY <1>3, <1>4, <2>1, <2>3, <2>4, <2>5, TriesKept
<1> QED
  BY <1>1, <1>2, <1>6, <1>7, <1>8, <1>9, <1>10, <1>11 DEF LoopKinds, Fails

\* The other steps: they start no handler, write no dead letter, and the
\* entries they add are backed.
LEMMA TriesIdle ==
  ASSUME OneWorker, TypeInv, TypeInv', TriesInv, keys' = keys, runs' = runs, dlq' = dlq,
         retryz' \subseteq retryz, Ids \subseteq Ids', \A id \in Ids : stream'[id] = stream[id],
         UNCHANGED <<msg, hi, err>>,
         \A w \in Workers : pc'[w] = pc[w] \/ (pc[w] = "down" /\ pc'[w] = "autoclaim"),
         \A id \in Ids' \ Ids : \/ stream'[id].attempt = 1
                                \/ \E m \in retryz : /\ stream'[id].event = m.event
                                                     /\ stream'[id].attempt = m.attempt
  PROVE  TriesInv'
<1>1. \A w \in Workers : /\ Handling(w)' <=> Handling(w)
                         /\ Handling(w) => pc'[w] = pc[w]
  BY DEF Handling, HandlerCalls
<1>2. ASSUME NEW w \in Workers, Handling(w)
      PROVE  Event(w)' = Event(w) /\ Attempt(w)' = Attempt(w) /\ Key(w)' = Key(w)
  <2>1. msg[w] \in Ids
    BY <1>2, Owners, MessageTypes DEF Handling, MessagePCs
  <2> QED
    BY <2>1 DEF Event, Attempt, Key
<1>3. \A h, e, a : Tried(h, e, a)' <=> Tried(h, e, a)
  BY DEF Tried
<1>4. \A h, e, a : StillDue(h, e, a) => StillDue(h, e, a)'
  BY <1>1, <1>2 DEF StillDue, Ahead
<1>5. \A e, a : Backed(e, a) => Backed(e, a)'
  BY <1>3, <1>4 DEF Backed, Reached
<1>6. ASSUME NEW w \in Workers PROVE WorkerTries(w)'
  <2>1. WorkerTries(w)
    BY DEF TriesInv
  <2> SUFFICES ASSUME Handling(w) PROVE WorkerTries(w)'
    BY <1>1 DEF WorkerTries
  <2>2. PICK e0, a0, k0 : e0 = Event(w) /\ a0 = Attempt(w) /\ k0 = Key(w)
    OBVIOUS
  <2>3. Event(w)' = e0 /\ Attempt(w)' = a0 /\ Key(w)' = k0
    BY <1>2, <2>2
  <2> QED
    BY <1>1, <1>3, <2>1, <2>2, <2>3 DEF WorkerTries, Reached
<1>7. ASSUME NEW id \in Ids' PROVE Backed(stream[id].event, stream[id].attempt)'
  <2>1. \A e, a : e = stream'[id].event /\ a = stream'[id].attempt /\ Backed(e, a)'
          => Backed(stream[id].event, stream[id].attempt)'
    BY DEF Backed, Tried, StillDue
  <2>2. CASE id \in Ids
    <3>1. stream'[id] = stream[id] /\ Backed(stream[id].event, stream[id].attempt)
      BY <2>2 DEF TriesInv
    <3> QED
      BY <1>5, <2>1, <3>1
  <2>3. ASSUME NEW m \in retryz, stream'[id].event = m.event, stream'[id].attempt = m.attempt
        PROVE  Backed(stream[id].event, stream[id].attempt)'
    <3>1. Backed(m.event, m.attempt)
      BY DEF TriesInv
    <3> QED
      BY <1>5, <2>1, <2>3, <3>1
  <2>4. CASE stream'[id].attempt = 1
    <3>1. PICK e : e = stream'[id].event
      OBVIOUS
    <3>2. e \in Events
      <4>1. stream' \in Seq([event : Events, attempt : Nat \ {0}]) /\ id \in 1..Len(stream')
        BY DEF TypeInv, TypeOK, Ids
      <4>2. stream'[id] \in [event : Events, attempt : Nat \ {0}]
        BY <4>1, ElementOfSeq
      <4> QED
        BY <3>1, <4>2
    <3>3. \A h \in Handlers : Tried(h, e, 1)
      BY <3>2, CountTypes DEF Tried
    <3>4. Backed(e, 1)
      BY <3>3, DeliveryAssumption DEF Backed
    <3> QED
      BY <1>5, <2>1, <2>4, <3>1, <3>4
  <2> QED
    BY <2>2, <2>3, <2>4
<1>8. ASSUME NEW m \in retryz' PROVE Backed(m.event, m.attempt)'
  <2>1. m \in retryz
    OBVIOUS
  <2> QED
    BY <1>5, <2>1 DEF TriesInv
<1>9. FullRetries'
  BY DEF TriesInv, FullRetries
<1> QED
  BY <1>6, <1>7, <1>8, <1>9 DEF TriesInv

LEMMA TriesStep ==
  ASSUME OneWorker, NoFailures, TypeInv, TypeInv', Bounded, TriesInv,
         \A w \in Workers : fetched[w] \subseteq retryz, [Next]_vars
  PROVE  TriesInv'
<1>1. ASSUME NEW w \in Workers, Loop(w) PROVE TriesInv'
  BY <1>1, TriesLoop
<1>2. ASSUME NEW w \in Workers, Start(w) PROVE TriesInv'
  <2>1. /\ UNCHANGED <<stream, retryz, keys, runs, dlq, msg, hi, err>>
        /\ pc' = [pc EXCEPT ![w] = "autoclaim"] /\ pc[w] = "down"
    BY <1>2 DEF Start, XGroupCreate, Goto, Returned
  <2>2. \A v \in Workers : pc'[v] = pc[v] \/ (pc[v] = "down" /\ pc'[v] = "autoclaim")
    BY <2>1, Owners DEF LoopTypes
  <2>3. Ids' = Ids
    BY <2>1 DEF Ids
  <2> QED
    BY <2>1, <2>2, <2>3, TriesIdle
<1>3. ASSUME NEW w \in Workers, Poll(w) PROVE TriesInv'
  <2>1. UNCHANGED <<stream, retryz, keys, runs, dlq, msg, hi, err, pc>>
    BY <1>3 DEF Poll, redisVars, localVars, historyVars
  <2>2. Ids' = Ids
    BY <2>1 DEF Ids
  <2> QED
    BY <2>1, <2>2, TriesIdle
<1>4. ASSUME NEW w \in Workers, Requeue(w) PROVE TriesInv'
  <2>1. /\ Ids \subseteq Ids' /\ \A id \in Ids : stream'[id] = stream[id]
        /\ UNCHANGED <<keys, runs, msg, hi, err, pc>> /\ retryz' \subseteq retryz
        /\ \E g \in [Ids' \ Ids -> fetched[w]] :
             \A i \in Ids' \ Ids : /\ stream'[i].event = g[i].event
                                   /\ stream'[i].attempt = g[i].attempt
    BY <1>4, RequeueEffect DEF localVars, historyVars
  <2>2. dlq' = dlq
    BY <1>4 DEF Requeue, AddAndZRem
  <2> QED
    BY <2>1, <2>2, TriesIdle
<1>5. ASSUME NEW w \in Workers, SchedulerFails(w) \/ Crash(w) PROVE TriesInv'
  BY <1>5, CountTypes DEF SchedulerFails, Crash, NoFailures, Bounded
<1>6. ASSUME NEW e \in Events, Publish(e) PROVE TriesInv'
  <2>1. /\ Ids \subseteq Ids' /\ \A id \in Ids : stream'[id] = stream[id]
        /\ UNCHANGED <<keys, runs, msg, hi, err, pc, retryz>>
        /\ \A id \in Ids' \ Ids : stream'[id].attempt = 1
    BY <1>6, PublishEffect DEF localVars, historyVars
  <2>2. dlq' = dlq
    BY <1>6 DEF Publish, XAdd
  <2> QED
    BY <2>1, <2>2, TriesIdle
<1>7. CASE Tick \/ UNCHANGED vars
  <2>1. UNCHANGED <<stream, retryz, keys, runs, dlq, msg, hi, err, pc>>
    BY <1>7 DEF Tick, Idles, FallsDue, Expires, GoIdle, BecomeDue, NoFailures, vars,
       redisVars, localVars, historyVars
  <2>2. Ids' = Ids
    BY <2>1 DEF Ids
  <2> QED
    BY <2>1, <2>2, TriesIdle
<1> QED
  BY <1>1, <1>2, <1>3, <1>4, <1>5, <1>6, <1>7 DEF Next, Scheduler

\* The only scheduler is the only one to take members out of the ZSET.
OwnFetched == \A w \in Workers : fetched[w] \subseteq retryz

LEMMA OwnFetchedStep ==
  ASSUME OneWorker, TypeInv, OwnFetched, [Next]_vars
  PROVE  OwnFetched'
<1>1. ASSUME NEW w \in Workers, Loop(w) PROVE OwnFetched'
  <2>1. LoopKinds(w)
    BY <1>1, LoopHasKind
  <2>2. (fetched'[w] = fetched[w] \/ fetched'[w] = {}) /\ (retryz \subseteq retryz' \/ Ended(w))
    BY <2>1 DEF LoopKinds, Looks, Acks, Works, Asks, Completes, Exchanges, Fails, Ended,
       SameWaiting, XAck, ZAddAndAck, redisVars
  <2>3. fetched'[w] \subseteq retryz'
    BY <2>2 DEF OwnFetched, Ended
  <2> QED
    BY <2>3 DEF OwnFetched, OneWorker
<1>2. ASSUME NEW w \in Workers, Requeue(w) \/ SchedulerFails(w) \/ Crash(w)
      PROVE  OwnFetched'
  <2>1. fetched'[w] = {}
    BY <1>2, RequeueEffect, StopEnds DEF Fails, Ended
  <2> QED
    BY <2>1 DEF OwnFetched, OneWorker
<1>3. ASSUME NEW w \in Workers, Poll(w) PROVE OwnFetched'
  <2>1. retryz' = retryz /\ fetched' = [fetched EXCEPT ![w] = due] /\ due \subseteq retryz
    BY <1>3, Owners DEF Poll, redisVars, RedisTypes, ServerOK
  <2>2. fetched'[w] = due
    BY <2>1, Owners DEF LoopTypes
  <2> QED
    BY <2>1, <2>2 DEF OwnFetched, OneWorker
<1>4. CASE \/ \E w \in Workers : Start(w)
           \/ \E e \in Events : Publish(e)
           \/ Tick \/ UNCHANGED vars
  <2>1. UNCHANGED <<retryz, fetched>>
    BY <1>4, StartCalm, PublishEffect, TimeCalm DEF Calm
  <2> QED
    BY <2>1 DEF OwnFetched
<1> QED
  BY <1>1, <1>2, <1>3, <1>4 DEF Next, Scheduler

LEMMA TriesInit == Init => TriesInv /\ OwnFetched
BY DEF Init, RedisInit, TriesInv, WorkerTries, Handling, HandlerCalls, FullRetries, Ids,
   OwnFetched

\* With one worker and no crash, failed call or expiry: before a retryable
\* failure of a handler is dead-lettered it has had all the tries of its
\* policy, whatever attempt numbers the other handlers of the event use up.
THEOREM FullRetriesHolds ==
  ASSUME OneWorker, NoFailures
  PROVE  Spec => []FullRetries
<1> DEFINE All == TypeInv /\ Bounded /\ OwnFetched /\ TriesInv
<1>1. Init => All
  BY TypeInit, TriesInit, DeliveryAssumption DEF Init, Bounded
<1>2. All /\ [Next]_vars => All'
  <2> SUFFICES ASSUME TypeInv, Bounded, OwnFetched, TriesInv, [Next]_vars
               PROVE  TypeInv' /\ Bounded' /\ OwnFetched' /\ TriesInv'
    OBVIOUS
  <2>1. TypeInv'
    BY TypeStep
  <2>2. Bounded' /\ OwnFetched'
    BY BoundedStep, OwnFetchedStep
  <2>3. TriesInv'
    BY <2>1, TriesStep DEF OwnFetched
  <2> QED
    BY <2>1, <2>2, <2>3
<1>3. All => FullRetries
  BY DEF TriesInv
<1> QED
  BY <1>1, <1>2, <1>3, PTL DEF Spec

-----------------------------------------------------------------------------
(* How the copies of an event multiply.                                    *)

Current(p, w) == msg[w] = p /\ pc[w] \in MessagePCs

\* w may still ask handler h about its message, or put a copy back for it.
Asking(w, h) == Handling(w) /\ hi[w] <= h /\ (pc[w] = "rescue" => hi[w] # h)

\* Handler h may still put a copy of entry p back.
Open(p, h) == Waiting(p) \/ \E w \in Workers : Current(p, w) /\ Asking(w, h)

\* An entry or member x is what handler q[2] put back of entry q[1].
CopyOf(x, q) ==
  stream[q[1]].event = x.event /\ stream[q[1]].attempt + 1 = x.attempt

Later == {id \in Ids : stream[id].attempt # 1}

\* fe and fm say of what the later entries and the members are copies: each of
\* another entry or of another handler's, and of none that can yet be made.
Descent(fe, fm) ==
  /\ \A i \in Later : CopyOf(stream[i], fe[i]) /\ ~Open(fe[i][1], fe[i][2])
  /\ \A m \in retryz : CopyOf(m, fm[m]) /\ ~Open(fm[m][1], fm[m][2])
  /\ \A i, j \in Later : fe[i] = fe[j] => i = j
  /\ \A m, n \in retryz : fm[m] = fm[n] => m = n
  /\ \A i \in Later, m \in retryz : fe[i] # fm[m]

Lineage ==
  \E fe \in [Later -> Ids \X Handlers], fm \in [retryz -> Ids \X Handlers] :
    Descent(fe, fm)

\* An event is published once.
FirstOnce ==
  \A i, j \in Ids : /\ stream[i].attempt = 1 /\ stream[j].attempt = 1
                    /\ stream[i].event = stream[j].event
                    => i = j

BatchOK(w) == batch[w] \subseteq pel /\ (pc[w] \in MessagePCs => msg[w] \notin batch[w])

LineageInv == Lineage /\ FirstOnce /\ \A w \in Workers : BatchOK(w)

\* With one worker: what the step leaves to be put back could be before, and
\* of what it reads the worker keeps what is pending.
Thins(w) ==
  /\ \A p \in Ids, h \in Handlers : Open(p, h)' => Open(p, h)
  /\ BatchOK(w)'

\* For one worker, without the quantifier.
LEMMA OpenSolo ==
  ASSUME OneWorker, NEW w \in Workers, NEW p, NEW h
  PROVE  /\ Open(p, h) <=> Waiting(p) \/ (Current(p, w) /\ Asking(w, h))
         /\ Open(p, h)' <=> Waiting(p)' \/ (Current(p, w)' /\ Asking(w, h)')
BY DEF OneWorker, Open

\* The worker turns to a message of S.
LEMMA TakesUpThins ==
  ASSUME OneWorker, NEW w \in Workers, NEW S, S \subseteq pel', TakesUp(w, S),
         \A p \in Ids : Waiting(p)' => Waiting(p)
  PROVE  Thins(w)
<1>1. PICK id \in S : pc'[w] \in EntryPCs /\ batch'[w] = S \ {id} /\ msg'[w] = id
  BY DEF TakesUp
<1>2. ASSUME NEW p \in Ids, NEW h \in Handlers, Open(p, h)' PROVE Open(p, h)
  <2>1. Waiting(p)'
    BY <1>1, <1>2, OpenSolo DEF Current, Waiting
  <2> QED
    BY <2>1, OpenSolo
<1> QED
  BY <1>1, <1>2 DEF Thins, BatchOK

\* The worker stays with its message and goes no step back.
LEMMA StaysThins ==
  ASSUME OneWorker, TypeInv, NEW w \in Workers, BatchOK(w), SameMessage(w),
         pc[w] \in MessagePCs, pc'[w] \in MessagePCs,
         \A p \in Ids : Waiting(p)' => Waiting(p),
         batch[w] \subseteq pel',
         Handling(w)' => /\ Handling(w)
                         /\ \/ hi'[w] = hi[w] + 1
                            \/ hi'[w] = hi[w] /\ (pc[w] = "rescue" => pc'[w] = "rescue")
  PROVE  Thins(w)
<1>1. hi[w] \in Nat /\ \A h \in Handlers : h \in Nat
  BY Owners, MessageTypes DEF Handlers
<1>2. ASSUME NEW p \in Ids, NEW h \in Handlers, Open(p, h)' PROVE Open(p, h)
  <2>1. Current(p, w)' <=> Current(p, w)
    BY DEF Current, SameMessage
  <2>2. CASE Waiting(p)'
    BY <2>2, OpenSolo
  <2>3. CASE Current(p, w)' /\ Asking(w, h)'
    <3>1. CASE hi'[w] = hi[w] + 1
      <4>1. hi[w] <= h /\ hi[w] # h
        BY <1>1, <2>3, <3>1 DEF Asking
      <4>2. Asking(w, h)
        BY <2>3, <4>1 DEF Asking
      <4> QED
        BY <2>1, <2>3, <4>2, OpenSolo
    <3>2. CASE hi'[w] = hi[w] /\ (pc[w] = "rescue" => pc'[w] = "rescue")
      <4>1. Asking(w, h)
        BY <2>3, <3>2 DEF Asking
      <4> QED
        BY <2>1, <2>3, <4>1, OpenSolo
    <3> QED
      BY <2>3, <3>1, <3>2 DEF Asking
  <2> QED
    BY <1>2, <2>2, <2>3, OpenSolo
<1>3. BatchOK(w)'
  BY DEF BatchOK, SameMessage
<1> QED
  BY <1>2, <1>3 DEF Thins

\* The worker is at no message afterwards.
LEMMA LeavesThins ==
  ASSUME OneWorker, NEW w \in Workers, pc'[w] \notin MessagePCs, batch'[w] \subseteq pel',
         \A p \in Ids : Waiting(p)' => Waiting(p)
  PROVE  Thins(w)
<1>1. \A p : ~Current(p, w)'
  BY DEF Current
<1>2. \A p \in Ids, h \in Handlers : Open(p, h)' => Open(p, h)
  BY <1>1, OpenSolo
<1> QED
  BY <1>2 DEF Thins, BatchOK

LEMMA EndThins ==
  ASSUME OneWorker, TypeInv, NEW w \in Workers, Ended(w),
         SameWaiting \/ (pc[w] \in MessagePCs /\ XAck(msg[w]))
  PROVE  Thins(w) /\ UNCHANGED <<stream, retryz>>
<1>1. pc'[w] \notin MessagePCs /\ batch'[w] = {}
  BY DEF Ended, MessagePCs, HandlerCalls, MessageCalls
<1>2. UNCHANGED <<stream, retryz>> /\ \A p \in Ids : Waiting(p)' => Waiting(p)
  BY AckThins DEF SameWaiting
<1> QED
  BY <1>1, <1>2, LeavesThins

LEMMA LoopThins ==
  ASSUME OneWorker, TypeInv, TypeInv', NEW w \in Workers, BatchOK(w), LoopKinds(w)
  PROVE  Thins(w)
<1>1. CASE Looks(w)
  <2>1. pel \subseteq pel' /\ \A p \in Ids : Waiting(p)' => Waiting(p)
    BY <1>1 DEF Looks, SameWaiting
  <2>2. CASE pc'[w] \in IdleCalls /\ (batch'[w] \subseteq pel \/ batch'[w] = batch[w])
    <3>1. pc'[w] \notin MessagePCs /\ batch'[w] \subseteq pel'
      BY <2>1, <2>2 DEF BatchOK, IdleCalls, MessagePCs, HandlerCalls, MessageCalls
    <3> QED
      BY <2>1, <3>1, LeavesThins
  <2>3. ASSUME NEW S \in SUBSET pel', TakesUp(w, S) PROVE Thins(w)
    BY <2>1, <2>3, TakesUpThins
  <2> QED
    BY <1>1, <2>2, <2>3 DEF Looks
<1>2. CASE Acks(w)
  <2>1. pc[w] \in MessagePCs /\ ~Handling(w) /\ XAck(msg[w])
    BY <1>2 DEF Acks, MessagePCs, MessageCalls, Handling, HandlerCalls
  <2>2. pel' = pel \ {msg[w]} /\ \A p \in Ids : Waiting(p)' => Waiting(p)
    BY <2>1, AckThins
  <2>3. batch[w] \subseteq pel'
    BY <2>1, <2>2 DEF BatchOK
  <2>4. CASE batch'[w] = {} /\ pc'[w] = "autoclaim"
    <3>1. pc'[w] \notin MessagePCs
      BY <2>4 DEF MessagePCs, HandlerCalls, MessageCalls
    <3> QED
      BY <2>2, <2>4, <3>1, LeavesThins
  <2>5. CASE TakesUp(w, batch[w])
    BY <2>2, <2>3, <2>5, TakesUpThins
  <2>6. CASE pc'[w] = "brokerdlq" /\ SameMessage(w)
    <3>1. pc'[w] \in MessagePCs /\ ~Handling(w)'
      BY <2>6 DEF MessagePCs, MessageCalls, Handling, HandlerCalls
    <3> QED
      BY <2>1, <2>2, <2>3, <2>6, <3>1, StaysThins
  <2> QED
    BY <1>2, <2>4, <2>5, <2>6 DEF Acks
<1>3. CASE Works(w) \/ Asks(w) \/ Completes(w)
  <2>1. UNCHANGED <<last, pel>> /\ SameMessage(w) /\ pc[w] \in MessagePCs
    BY <1>3 DEF Works, Asks, Completes, redisVars, MessagePCs, HandlerCalls
  <2>2. pc'[w] \in MessagePCs
    BY <1>3 DEF Works, Asks, Completes, MessagePCs, HandlerCalls, MessageCalls
  <2>3. Handling(w)' => /\ Handling(w)
                        /\ \/ hi'[w] = hi[w] + 1
                           \/ hi'[w] = hi[w] /\ (pc[w] = "rescue" => pc'[w] = "rescue")
    BY <1>3 DEF Works, Asks, Completes, PassesOn, Handling, HandlerCalls, MessageCalls
  <2>4. batch[w] \subseteq pel' /\ \A p \in Ids : Waiting(p)' => Waiting(p)
    BY <2>1 DEF BatchOK, Waiting
  <2> QED
    BY <2>1, <2>2, <2>3, <2>4, StaysThins
<1>4. CASE Exchanges(w)
  <2>1. /\ SameMessage(w) /\ pc[w] = "retry" /\ pc'[w] \in MessagePCs /\ Handling(w)
        /\ hi'[w] = hi[w] + 1 \/ hi'[w] = hi[w]
        /\ pel' = pel \ {msg[w]} /\ last' = last
    BY <1>4 DEF Exchanges, PassesOn, ZAddAndAck, MessagePCs, MessageCalls, HandlerCalls,
       Handling
  <2>2. pc[w] \in MessagePCs
    BY <2>1 DEF MessagePCs, HandlerCalls
  <2>3. batch[w] \subseteq pel' /\ \A p \in Ids : Waiting(p)' => Waiting(p)
    BY <2>1, <2>2 DEF BatchOK, Waiting
  <2> QED
    BY <2>1, <2>2, <2>3, StaysThins
<1>5. CASE Fails(w)
  BY <1>5, EndThins DEF Fails
<1> QED
  BY <1>1, <1>2, <1>3, <1>4, <1>5 DEF LoopKinds

\* No copy is added, none that was made can be made again.
LEMMA LineageKept ==
  ASSUME Lineage, UNCHANGED <<stream, retryz>>,
         \A p \in Ids, h \in Handlers : Open(p, h)' => Open(p, h)
  PROVE  Lineage'
<1>1. PICK fe \in [Later -> Ids \X Handlers], fm \in [retryz -> Ids \X Handlers] :
        Descent(fe, fm)
  BY DEF Lineage
<1>2. Later' = Later /\ Ids' = Ids
  BY DEF Later, Ids
<1>3. Descent(fe, fm)'
  BY <1>1, <1>2 DEF Descent, CopyOf
<1> QED
  BY <1>1, <1>2, <1>3 DEF Lineage

\* schedule_retry adds one copy, which it then can no longer make.
LEMMA LineageExchange ==
  ASSUME OneWorker, TypeInv, TypeInv', Lineage, NEW w \in Workers, Exchanges(w), Thins(w)
  PROVE  Lineage'
<1>1. PICK fe \in [Later -> Ids \X Handlers], fm \in [retryz -> Ids \X Handlers] :
        Descent(fe, fm)
  BY DEF Lineage
<1>2. PICK p0 \in Ids, h0 \in Handlers, m0 \in {RetryMember(w)} :
        p0 = msg[w] /\ h0 = hi[w] /\ m0 = RetryMember(w)
  BY Owners, MessageTypes DEF Exchanges, MessagePCs, HandlerCalls
<1>3. /\ stream' = stream /\ last' = last /\ pel' = pel \ {p0}
      /\ retryz' = retryz \cup {m0} /\ SameMessage(w) /\ pc[w] = "retry"
      /\ Handling(w) /\ Current(p0, w)
      /\ \/ PassesOn(w) /\ pc'[w] \in {"seen", "brokerdlq", "ack"}
         \/ pc'[w] = "rescue"
  BY <1>2 DEF Exchanges, ZAddAndAck, Handling, HandlerCalls, Current, MessagePCs
<1>4. Later' = Later /\ Ids' = Ids
  BY <1>3 DEF Later, Ids
<1>5. /\ stream[p0].event = m0.event /\ stream[p0].attempt + 1 = m0.attempt
  BY <1>2 DEF RetryMember, Event, Attempt
<1>6. h0 \in Nat
  BY DEF Handlers
<1>7. Open(p0, h0)
  BY <1>2, <1>3, <1>6, OpenSolo DEF Asking
<1>8. ~Open(p0, h0)'
  <2>1. ~Waiting(p0)'
    <3>1. p0 \in 1..last /\ last \in Nat
      BY <1>2, <1>3, Owners, MessageTypes DEF RedisTypes, MessagePCs, HandlerCalls
    <3> QED
      BY <1>3, <3>1 DEF Waiting
  <2>2. ~Asking(w, h0)'
    <3>1. CASE pc'[w] = "rescue"
      <4>1. hi'[w] = h0
        BY <1>2, <3>1 DEF Exchanges
      <4> QED
        BY <3>1, <4>1 DEF Asking
    <3>2. CASE PassesOn(w) /\ pc'[w] \in {"seen", "brokerdlq", "ack"}
      BY <1>2, <1>6, <3>2 DEF PassesOn, Asking, Handling, HandlerCalls
    <3> QED
      BY <1>3, <3>1, <3>2
  <2> QED
    BY <2>1, <2>2, OpenSolo
<1>9. \A p \in Ids, h \in Handlers : ~Open(p, h) =>
        ~Open(p, h)' /\ <<p, h>> # <<p0, h0>>
  BY <1>7 DEF Thins
<1>10. PICK gm \in [retryz' -> Ids \X Handlers] :
         /\ \A m \in retryz : gm[m] = fm[m]
         /\ \A m \in retryz' : m \notin retryz => gm[m] = <<p0, h0>>
  <2> DEFINE d == [m \in retryz' |-> IF m \in retryz THEN fm[m] ELSE <<p0, h0>>]
  <2>1. /\ d \in [retryz' -> Ids \X Handlers]
        /\ \A m \in retryz : d[m] = fm[m]
        /\ \A m \in retryz' : m \notin retryz => d[m] = <<p0, h0>>
    BY <1>1, <1>2, <1>3
  <2> QED
    BY <2>1
<1>11. \A i \in Later : /\ CopyOf(stream[i], fe[i]) /\ fe[i] # <<p0, h0>>
                        /\ ~Open(fe[i][1], fe[i][2])'
  BY <1>1, <1>9 DEF Descent
<1>12. \A m \in retryz : /\ CopyOf(m, fm[m]) /\ fm[m] # <<p0, h0>>
                         /\ ~Open(fm[m][1], fm[m][2])'
  BY <1>1, <1>9 DEF Descent
<1>13. /\ \A m \in retryz : gm[m] = fm[m]
       /\ \A m \in retryz' : m \notin retryz => gm[m] = <<p0, h0>> /\ m = m0
  BY <1>3, <1>10
<1>14. ASSUME NEW m \in retryz'
       PROVE  CopyOf(m, gm[m]) /\ ~Open(gm[m][1], gm[m][2])'
  <2>1. CASE m \in retryz
    <3>1. gm[m] = fm[m]
      BY <1>13, <2>1
    <3> QED
      BY <1>12, <2>1, <3>1
  <2>2. CASE m \notin retryz
    <3>1. gm[m][1] = p0 /\ gm[m][2] = h0 /\ m = m0
      BY <1>13, <2>2
    <3> QED
      BY <1>5, <1>8, <3>1 DEF CopyOf
  <2> QED
    BY <2>1, <2>2
<1>15. \A m, n \in retryz' : gm[m] = gm[n] => m = n
  BY <1>1, <1>12, <1>13 DEF Descent
<1>16. \A i \in Later, m \in retryz' : fe[i] # gm[m]
  <2> TAKE i \in Later, m \in retryz'
  <2>1. CASE m \in retryz
    BY <1>1, <1>13, <2>1 DEF Descent
  <2>2. CASE m \notin retryz
    BY <1>11, <1>13, <2>2
  <2> QED
    BY <2>1, <2>2
<1>17. Descent(fe, gm)'
  <2>1. /\ \A i \in Later' : CopyOf(stream[i], fe[i])' /\ ~Open(fe[i][1], fe[i][2])'
        /\ \A i, j \in Later' : fe[i] = fe[j] => i = j
    BY <1>1, <1>3, <1>4, <1>11 DEF Descent, CopyOf
  <2>2. \A m \in retryz' : CopyOf(m, gm[m])' /\ ~Open(gm[m][1], gm[m][2])'
    BY <1>3, <1>14 DEF CopyOf
  <2> QED
    BY <1>4, <1>15, <1>16, <2>1, <2>2 DEF Descent
<1> QED
  BY <1>1, <1>4, <1>10, <1>17 DEF Lineage

\* What the scheduler puts back are the copies it took out of the ZSET.
LEMMA LineageRequeue ==
  ASSUME TypeInv, TypeInv', Lineage, OwnFetched, FirstOnce, NEW w \in Workers, Requeue(w)
  PROVE  Lineage' /\ FirstOnce'
<1>1. PICK fe \in [Later -> Ids \X Handlers], fm \in [retryz -> Ids \X Handlers] :
        Descent(fe, fm)
  BY DEF Lineage
<1>2. /\ Ids \subseteq Ids' /\ \A id \in Ids : stream'[id] = stream[id]
      /\ UNCHANGED <<last, pel, pc, msg, hi>> /\ retryz' = retryz \ fetched[w]
      /\ fetched[w] \subseteq retryz
  BY RequeueEffect DEF localVars, OwnFetched
<1>3. PICK g \in [Ids' \ Ids -> fetched[w]] :
        /\ \A i, j \in Ids' \ Ids : g[i] = g[j] => i = j
        /\ \A i \in Ids' \ Ids : /\ stream'[i].event = g[i].event
                                 /\ stream'[i].attempt = g[i].attempt
  BY RequeueEffect
<1>4. \A i \in Ids' \ Ids : g[i] \in retryz /\ g[i] \notin retryz'
  BY <1>2, <1>3
<1>5. \A p \in Ids : stream[p].attempt \in Nat \ {0}
  BY Firsts
<1>6. \A m \in retryz : m.attempt # 1
  <2> SUFFICES ASSUME NEW m \in retryz PROVE m.attempt # 1
    OBVIOUS
  <2>1. PICK p \in Ids : stream[p].attempt + 1 = m.attempt
    BY <1>1 DEF Descent, CopyOf
  <2>2. stream[p].attempt \in Nat \ {0}
    BY <1>5
  <2> QED
    BY <2>1, <2>2
<1>7. Later' = Later \cup (Ids' \ Ids)
  BY <1>2, <1>3, <1>4, <1>6 DEF Later
<1>8. \A p, h : Open(p, h)' <=> Open(p, h)
  BY <1>2 DEF Open, Waiting, Current, Asking, Handling
<1>9. PICK ge \in [Later' -> Ids' \X Handlers] :
        /\ \A i \in Later : ge[i] = fe[i]
        /\ \A i \in Ids' \ Ids : ge[i] = fm[g[i]]
  <2> DEFINE d == [i \in Later' |-> IF i \in Ids THEN fe[i] ELSE fm[g[i]]]
  <2>1. \A i \in Later : i \in Ids
    BY DEF Later
  <2>2. /\ d \in [Later' -> Ids' \X Handlers]
        /\ \A i \in Later : d[i] = fe[i]
        /\ \A i \in Ids' \ Ids : d[i] = fm[g[i]]
    BY <1>1, <1>2, <1>4, <1>7, <2>1
  <2> QED
    BY <2>2
<1>10. PICK gm \in [retryz' -> Ids' \X Handlers] : \A m \in retryz' : gm[m] = fm[m]
  <2> DEFINE d == [m \in retryz' |-> fm[m]]
  <2>1. d \in [retryz' -> Ids' \X Handlers] /\ \A m \in retryz' : d[m] = fm[m]
    BY <1>1, <1>2
  <2> QED
    BY <2>1
<1>11. /\ \A i \in Later : fe[i][1] \in Ids
       /\ \A m \in retryz : fm[m][1] \in Ids
  BY <1>1
<1>12. \A i \in Later' : /\ stream'[ge[i][1]].event = stream'[i].event
                         /\ stream'[ge[i][1]].attempt + 1 = stream'[i].attempt
                         /\ ~Open(ge[i][1], ge[i][2])'
  <2> TAKE i \in Later'
  <2>1. CASE i \in Later
    <3>1. i \in Ids /\ ge[i] = fe[i] /\ fe[i][1] \in Ids
      BY <1>9, <1>11, <2>1 DEF Later
    <3>2. CopyOf(stream[i], fe[i]) /\ ~Open(fe[i][1], fe[i][2])'
      BY <1>1, <1>8, <2>1 DEF Descent
    <3> QED
      BY <1>2, <3>1, <3>2 DEF CopyOf
  <2>2. CASE i \in Ids' \ Ids
    <3>1. ge[i] = fm[g[i]] /\ fm[g[i]][1] \in Ids /\ g[i] \in retryz
      BY <1>4, <1>9, <1>11, <2>2
    <3>2. CopyOf(g[i], fm[g[i]]) /\ ~Open(fm[g[i]][1], fm[g[i]][2])
      BY <1>1, <3>1 DEF Descent
    <3>3. PICK q : q = fm[g[i]]
      OBVIOUS
    <3>4. ~Open(q[1], q[2])'
      BY <1>8, <3>2, <3>3
    <3> QED
      BY <1>2, <1>3, <2>2, <3>1, <3>2, <3>3, <3>4 DEF CopyOf
  <2> QED
    BY <1>7, <2>1, <2>2
<1>13. \A m \in retryz' : /\ stream'[gm[m][1]].event = m.event
                          /\ stream'[gm[m][1]].attempt + 1 = m.attempt
                          /\ ~Open(gm[m][1], gm[m][2])'
  <2> TAKE m \in retryz'
  <2>1. m \in retryz /\ gm[m] = fm[m] /\ fm[m][1] \in Ids
    BY <1>2, <1>10, <1>11
  <2>2. CopyOf(m, fm[m]) /\ ~Open(fm[m][1], fm[m][2])'
    BY <1>1, <1>8, <2>1 DEF Descent
  <2> QED
    BY <1>2, <2>1, <2>2 DEF CopyOf
<1>14. \A i, j \in Later' : ge[i] = ge[j] => i = j
  <2> TAKE i, j \in Later'
  <2>1. ASSUME NEW a \in Later, NEW b \in Ids' \ Ids PROVE ge[a] # ge[b]
    <3>1. ge[a] = fe[a] /\ ge[b] = fm[g[b]] /\ g[b] \in retryz
      BY <1>4, <1>9, <2>1
    <3> QED
      BY <1>1, <2>1, <3>1 DEF Descent
  <2>2. CASE i \in Later /\ j \in Later
    BY <1>1, <1>9, <2>2 DEF Descent
  <2>3. CASE i \in Ids' \ Ids /\ j \in Ids' \ Ids
    <3>1. ge[i] = fm[g[i]] /\ ge[j] = fm[g[j]] /\ g[i] \in retryz /\ g[j] \in retryz
      BY <1>4, <1>9, <2>3
    <3>2. ge[i] = ge[j] => g[i] = g[j]
      BY <1>1, <3>1 DEF Descent
    <3> QED
      BY <1>3, <2>3, <3>2
  <2> QED
    BY <1>7, <2>1, <2>2, <2>3
<1>15. \A m, n \in retryz' : gm[m] = gm[n] => m = n
  BY <1>1, <1>2, <1>10 DEF Descent
<1>16. \A i \in Later', m \in retryz' : ge[i] # gm[m]
  <2> TAKE i \in Later', m \in retryz'
  <2>1. m \in retryz /\ gm[m] = fm[m]
    BY <1>2, <1>10
  <2>2. CASE i \in Later
    BY <1>1, <1>9, <2>1, <2>2 DEF Descent
  <2>3. CASE i \in Ids' \ Ids
    <3>1. ge[i] = fm[g[i]] /\ g[i] \in retryz /\ g[i] # m
      BY <1>4, <1>9, <2>3
    <3> QED
      BY <1>1, <2>1, <3>1 DEF Descent
  <2> QED
    BY <1>7, <2>2, <2>3
<1>17. Descent(ge, gm)'
  <2>1. \A i \in Later' : CopyOf(stream[i], ge[i])' /\ ~Open(ge[i][1], ge[i][2])'
    BY <1>12 DEF CopyOf
  <2>2. \A m \in retryz' : CopyOf(m, gm[m])' /\ ~Open(gm[m][1], gm[m][2])'
    BY <1>13 DEF CopyOf
  <2> QED
    BY <1>14, <1>15, <1>16, <2>1, <2>2 DEF Descent
<1>18. FirstOnce'
  <2>1. \A i \in Ids' : stream'[i].attempt = 1 => i \in Ids
    BY <1>3, <1>4, <1>6
  <2> QED
    BY <1>2, <2>1 DEF FirstOnce
<1> QED
  BY <1>9, <1>17, <1>18 DEF Lineage

\* A published event has no copy yet, and no other first entry.
LEMMA LineagePublish ==
  ASSUME TypeInv, Lineage, FirstOnce, NEW e \in Events, Publish(e)
  PROVE  Lineage' /\ FirstOnce'
<1> DEFINE n == Len(stream) + 1
<1>1. PICK fe \in [Later -> Ids \X Handlers], fm \in [retryz -> Ids \X Handlers] :
        Descent(fe, fm)
  BY DEF Lineage
<1>2. /\ Ids' = Ids \cup {n} /\ n \notin Ids
      /\ \A id \in Ids : stream'[id] = stream[id] /\ stream[id].event # e
      /\ stream'[n].event = e /\ stream'[n].attempt = 1
      /\ UNCHANGED <<last, pel, retryz, pc, msg, hi>>
  BY PublishEffect DEF localVars
<1> HIDE DEF n
<1>3. Later' = Later
  BY <1>2 DEF Later
<1>4. \A p, h : Open(p, h)' <=> Open(p, h)
  BY <1>2 DEF Open, Waiting, Current, Asking, Handling
<1>5. /\ \A i \in Later : fe[i][1] \in Ids /\ i \in Ids
      /\ \A m \in retryz : fm[m][1] \in Ids
      /\ fe \in [Later' -> Ids' \X Handlers] /\ fm \in [retryz' -> Ids' \X Handlers]
  BY <1>1, <1>2, <1>3 DEF Later
<1>6. Descent(fe, fm)'
  BY <1>1, <1>2, <1>3, <1>4, <1>5 DEF Descent, CopyOf
<1>7. FirstOnce'
  BY <1>2 DEF FirstOnce
<1> QED
  BY <1>5, <1>6, <1>7 DEF Lineage

LEMMA LineageStep ==
  ASSUME OneWorker, TypeInv, TypeInv', OwnFetched, LineageInv, [Next]_vars
  PROVE  LineageInv'
<1>1. ASSUME NEW w \in Workers, Loop(w) PROVE LineageInv'
  <2>1. LoopKinds(w)
    BY <1>1, LoopHasKind
  <2>2. Thins(w)
    BY <2>1, LoopThins DEF LineageInv
  <2>3. stream' = stream /\ (retryz' = retryz \/ Exchanges(w))
    BY <2>1 DEF LoopKinds, Looks, Acks, Works, Asks, Completes, Exchanges, Fails,
       SameWaiting, XAck, ZAddAndAck, redisVars
  <2>4. Lineage'
    BY <2>1, <2>2, <2>3, LineageKept, LineageExchange DEF LineageInv, Thins
  <2>5. FirstOnce'
    BY <2>3 DEF LineageInv, FirstOnce, Ids
  <2>6. \A v \in Workers : BatchOK(v)'
    BY <2>2 DEF Thins, OneWorker
  <2> QED
    BY <2>4, <2>5, <2>6 DEF LineageInv
<1>2. ASSUME Calm,
             \/ pc' = pc
             \/ \E w \in Workers : pc[w] = "down" /\ pc'[w] = "autoclaim"
      PROVE  LineageInv'
  <2>1. \A w \in Workers : /\ pc[w] \in MessagePCs <=> pc'[w] \in MessagePCs
                           /\ Handling(w)' <=> Handling(w)
    BY <1>2 DEF OneWorker, MessagePCs, HandlerCalls, MessageCalls, Handling
  <2>2. \A p \in Ids, h \in Handlers : Open(p, h)' => Open(p, h)
    BY <1>2, <2>1 DEF Calm, Open, Current, Asking, Handling, HandlerCalls, OneWorker
  <2>3. Lineage'
    BY <1>2, <2>2, LineageKept DEF LineageInv, Calm
  <2>4. FirstOnce' /\ \A w \in Workers : BatchOK(w)'
    BY <1>2, <2>1 DEF LineageInv, Calm, FirstOnce, BatchOK, Ids
  <2> QED
    BY <2>3, <2>4 DEF LineageInv
<1>3. ASSUME NEW w \in Workers, Start(w) PROVE LineageInv'
  BY <1>2, <1>3, StartCalm
<1>4. ASSUME NEW w \in Workers, Poll(w) PROVE LineageInv'
  <2>1. Calm /\ pc' = pc
    BY <1>4 DEF Poll, Calm, redisVars, localVars, Waiting
  <2> QED
    BY <1>2, <2>1
<1>5. ASSUME NEW w \in Workers, Requeue(w) PROVE LineageInv'
  <2>1. UNCHANGED <<pel, pc, msg, batch>>
    BY <1>5, RequeueEffect DEF localVars
  <2> QED
    BY <1>5, <2>1, LineageRequeue DEF LineageInv, BatchOK
<1>6. ASSUME NEW w \in Workers, SchedulerFails(w) \/ Crash(w) PROVE LineageInv'
  <2>1. /\ Ended(w)
        /\ \/ SameWaiting
           \/ pc[w] \in MessagePCs /\ XAck(msg[w])
    BY <1>6, StopEnds, SameIsSameWaiting DEF Fails, redisVars
  <2>2. Thins(w) /\ UNCHANGED <<stream, retryz>>
    BY <2>1, EndThins
  <2>3. Lineage'
    BY <2>2, LineageKept DEF LineageInv, Thins
  <2>4. FirstOnce' /\ \A v \in Workers : BatchOK(v)'
    BY <2>2 DEF LineageInv, FirstOnce, Ids, Thins, OneWorker
  <2> QED
    BY <2>3, <2>4 DEF LineageInv
<1>7. ASSUME NEW e \in Events, Publish(e) PROVE LineageInv'
  <2>1. UNCHANGED <<pel, pc, msg, batch>>
    BY <1>7, PublishEffect DEF localVars
  <2> QED
    BY <1>7, <2>1, LineagePublish DEF LineageInv, BatchOK
<1>8. CASE Tick \/ UNCHANGED vars
  BY <1>2, <1>8, TimeCalm
<1> QED
  BY <1>1, <1>3, <1>4, <1>5, <1>6, <1>7, <1>8 DEF Next, Scheduler

LEMMA LineageInit == Init => LineageInv
<1> SUFFICES ASSUME Init PROVE LineageInv
  OBVIOUS
<1>1. Ids = {} /\ Later = {} /\ retryz = {}
  BY DEF Init, RedisInit, Ids, Later
<1>2. Lineage
  <2> DEFINE f == [x \in {} |-> x]
  <2>1. f \in [Later -> Ids \X Handlers] /\ f \in [retryz -> Ids \X Handlers]
    BY <1>1
  <2>2. Descent(f, f)
    BY <1>1 DEF Descent
  <2> QED
    BY <2>1, <2>2 DEF Lineage
<1>3. FirstOnce /\ \A w \in Workers : BatchOK(w)
  BY <1>1 DEF Init, FirstOnce, BatchOK, MessagePCs, HandlerCalls, MessageCalls
<1> QED
  BY <1>2, <1>3 DEF LineageInv

\* The entries of an attempt are as many as there are pairs of an entry of the
\* attempt before and a handler, at most.
LEMMA LineageBound == TypeInv /\ LineageInv => Amplification
<1> SUFFICES ASSUME TypeInv, LineageInv, NEW id \in Ids
             PROVE  LET x == stream[id]
                    IN  Copies(x) <= IF x.attempt = 1 THEN 1
                          ELSE NumHandlers * Copies([x EXCEPT !.attempt = @ - 1])
  BY DEF Amplification
<1> DEFINE x == stream[id]
           y == [x EXCEPT !.attempt = @ - 1]
           A == {j \in Ids : stream[j] = x}
           B == {j \in Ids : stream[j] = y}
<1>1. \A j \in Ids : stream[j] \in Entries
  BY Owners DEF RedisTypes, Ids
<1>2. Len(stream) \in Nat /\ IsFiniteSet(Ids)
  <2>1. Len(stream) \in Nat
    BY Owners DEF RedisTypes
  <2> QED
    BY <2>1, FS_Interval DEF Ids
<1>3. IsFiniteSet(A) /\ IsFiniteSet(B)
  BY <1>2, FS_Subset
<1>4. CASE x.attempt = 1
  <2>1. \A i, j \in A : i = j
    BY <1>4 DEF LineageInv, FirstOnce
  <2> HIDE DEF A
  <2>2. Cardinality(A) <= 1
    BY <2>1, AtMostOne
  <2> QED
    BY <1>4, <2>2 DEF A, Copies
<1>5. CASE x.attempt # 1
  <2>1. PICK fe \in [Later -> Ids \X Handlers], fm \in [retryz -> Ids \X Handlers] :
          Descent(fe, fm)
    BY DEF LineageInv, Lineage
  <2>2. A \subseteq Later
    BY <1>5 DEF Later
  <2>3. ASSUME NEW i \in A PROVE fe[i] \in B \X Handlers
    <3>1. /\ fe[i][1] \in Ids /\ fe[i][2] \in Handlers /\ fe[i] = <<fe[i][1], fe[i][2]>>
          /\ stream[fe[i][1]].event = x.event /\ stream[fe[i][1]].attempt + 1 = x.attempt
      BY <2>1, <2>2 DEF Descent, CopyOf
    <3>2. PICK z \in Entries : z = stream[fe[i][1]]
      BY <1>1, <3>1
    <3>3. PICK u \in Entries : u = x
      BY <1>1
    <3>4. z.attempt \in Nat /\ u.attempt \in Nat
      BY DEF Entries
    <3>5. z.event = u.event /\ z.attempt + 1 = u.attempt
      BY <3>1, <3>2, <3>3
    <3>6. z.attempt = u.attempt - 1
      BY <3>4, <3>5
    <3>7. z = [u EXCEPT !.attempt = @ - 1]
      BY <3>5, <3>6 DEF Entries
    <3> QED
      BY <3>1, <3>2, <3>3, <3>7
  <2> DEFINE f == [i \in A |-> fe[i]]
  <2>4. f \in Injection(A, B \X Handlers)
    BY <2>1, <2>2, <2>3 DEF Descent, Injection, IsInjective
  <2>5. IsFiniteSet(Handlers) /\ Cardinality(Handlers) = NumHandlers
    BY FS_Interval, RedisAssumption DEF Handlers
  <2> HIDE DEF A, B, f
  <2>6. /\ IsFiniteSet(B \X Handlers)
        /\ Cardinality(B \X Handlers) = Cardinality(B) * NumHandlers
    BY <1>3, <2>5, FS_Product
  <2>7. Cardinality(A) <= Cardinality(B) * NumHandlers
    BY <2>4, <2>6, FS_Injection
  <2>8. Cardinality(B) \in Nat /\ NumHandlers \in Nat
    BY <1>3, FS_CardinalityType, RedisAssumption
  <2>9. Cardinality(B) * NumHandlers = NumHandlers * Cardinality(B)
    BY <2>8
  <2> QED
    BY <1>5, <2>7, <2>9 DEF A, B, Copies
<1> QED
  BY <1>4, <1>5

\* With one worker: of an attempt an event has at most NumHandlers times as many
\* entries as of the attempt before, whatever crashes, fails or expires, and
\* however the scheduler's polls fall between the retries.
THEOREM AmplificationHolds ==
  ASSUME OneWorker
  PROVE  Spec => []Amplification
<1> DEFINE All == TypeInv /\ OwnFetched /\ LineageInv
<1>1. Init => All
  BY TypeInit, TriesInit, LineageInit
<1>2. All /\ [Next]_vars => All'
  <2> SUFFICES ASSUME TypeInv, OwnFetched, LineageInv, [Next]_vars
               PROVE  TypeInv' /\ OwnFetched' /\ LineageInv'
    OBVIOUS
  <2>1. TypeInv'
    BY TypeStep
  <2> QED
    BY <2>1, OwnFetchedStep, LineageStep
<1>3. All => Amplification
  BY LineageBound
<1> QED
  BY <1>1, <1>2, <1>3, PTL DEF Spec

-----------------------------------------------------------------------------
(* How often a handler starts, by the copies of its event.                 *)

\* Handler h has not been started for entry p and may yet be.
Startable(h, p) ==
  \/ \E w \in Workers : Current(p, w) /\ Handling(w) /\ Ahead(h, w)
  \/ Waiting(p) /\ \A w \in Workers : ~Current(p, w)

CopiesAllowed(e) == {p \in Ids : stream[p].event = e /\ Allows(stream[p])}
Unstarted(h, e) == {p \in CopiesAllowed(e) : Startable(h, p)}

\* Every start has used up a copy, or been paid for by a crash or a failed call.
StartsInv ==
  \A h \in Handlers, e \in Events :
    runs[<<h, e>>] + Cardinality(Unstarted(h, e))
      <= crashes + faults + Cardinality(CopiesAllowed(e))

\* Some handler's policy allows attempt a.
Within(a) == \E h \in Handlers : a <= MaxAttempts[h]

\* No copy goes beyond every policy, and no handler runs beyond the poison limit.
AttemptsOK ==
  /\ \A id \in Ids : Within(stream[id].attempt)
  /\ \A m \in retryz : Within(m.attempt)
  /\ \A w \in Workers : /\ pc[w] = "retry" => Attempt(w) < MaxAttempts[hi[w]]
                        /\ Handling(w) => ~Poisoned(msg[w])

\* For one worker, without the quantifiers.
LEMMA StartableSolo ==
  ASSUME OneWorker, NEW w \in Workers, NEW h, NEW p
  PROVE  /\ Startable(h, p) <=> IF Current(p, w) THEN Handling(w) /\ Ahead(h, w)
                                ELSE Waiting(p)
         /\ Startable(h, p)' <=> IF Current(p, w)' THEN Handling(w)' /\ Ahead(h, w)'
                                 ELSE Waiting(p)'
BY DEF OneWorker, Startable

\* What can be started after the step could be before; but for entry q.
NoneRevived == \A h \in Handlers, p \in Ids : Startable(h, p)' => Startable(h, p)
RevivedOnly(q) ==
  \A h \in Handlers, p \in Ids : Startable(h, p)' => Startable(h, p) \/ p = q

LEMMA CopyTypes ==
  ASSUME TypeInv, NEW h \in Handlers, NEW e \in Events
  PROVE  /\ IsFiniteSet(CopiesAllowed(e)) /\ Cardinality(CopiesAllowed(e)) \in Nat
         /\ IsFiniteSet(Unstarted(h, e)) /\ Cardinality(Unstarted(h, e)) \in Nat
<1>1. IsFiniteSet(Ids)
  BY Owners, FS_Interval DEF Ids, RedisTypes
<1>2. IsFiniteSet(CopiesAllowed(e))
  BY <1>1, FS_Subset DEF CopiesAllowed
<1>3. IsFiniteSet(Unstarted(h, e))
  BY <1>2, FS_Subset DEF Unstarted
<1> QED
  BY <1>2, <1>3, FS_CardinalityType

LEMMA Sums ==
  ASSUME NEW r \in Nat, NEW u \in Nat, NEW v \in Nat, NEW n \in Nat,
         NEW c \in Nat, NEW f \in Nat, NEW c2 \in Nat, NEW f2 \in Nat,
         c + f <= c2 + f2, r + u <= c + f + n
  PROVE  /\ v <= u => r + v <= c2 + f2 + n
         /\ v <= u + 1 /\ c + f < c2 + f2 => r + v <= c2 + f2 + n
         /\ v + 1 <= u => r + 1 + v <= c2 + f2 + n
OBVIOUS

\* A step that starts no handler and adds no entry.
LEMMA StartsKept ==
  ASSUME TypeInv, TypeInv', StartsInv, UNCHANGED <<stream, runs>>,
         crashes + faults <= crashes' + faults',
         \/ NoneRevived
         \/ crashes + faults < crashes' + faults' /\ \E q : RevivedOnly(q)
  PROVE  StartsInv'
<1> SUFFICES ASSUME NEW h \in Handlers, NEW e \in Events
             PROVE  (runs[<<h, e>>] + Cardinality(Unstarted(h, e))
                       <= crashes + faults + Cardinality(CopiesAllowed(e)))'
  BY DEF StartsInv
<1> DEFINE r == runs[<<h, e>>]
           n == Cardinality(CopiesAllowed(e))
           U == Unstarted(h, e)
           V == Unstarted(h, e)'
<1>1. /\ r \in Nat /\ n \in Nat /\ IsFiniteSet(U) /\ Cardinality(U) \in Nat
      /\ crashes \in Nat /\ faults \in Nat
  BY CopyTypes, CountTypes
<1>2. crashes' \in Nat /\ faults' \in Nat
  BY DEF TypeInv, TypeOK
<1>3. CopiesAllowed(e)' = CopiesAllowed(e)
  BY DEF CopiesAllowed, Ids, Allows
<1>4. PICK q : V \subseteq U \cup {q}
  BY <1>3 DEF NoneRevived, RevivedOnly, Unstarted, CopiesAllowed
<1>5. V \subseteq U \/ crashes + faults < crashes' + faults'
  BY <1>3 DEF NoneRevived, Unstarted, CopiesAllowed
<1>6. r + Cardinality(U) <= crashes + faults + n
  BY DEF StartsInv
<1>7. r' = r /\ n' = n
  BY <1>3
<1> HIDE DEF r, n, U, V
<1>8. IsFiniteSet(V) /\ Cardinality(V) \in Nat /\ Cardinality(V) <= Cardinality(U) + 1
  <2>1. IsFiniteSet(U \cup {q}) /\ Cardinality(U \cup {q}) \in Nat
        /\ Cardinality(U \cup {q}) <= Cardinality(U) + 1
    <3>1. /\ IsFiniteSet(U \cup {q})
          /\ \/ Cardinality(U \cup {q}) = Cardinality(U)
             \/ Cardinality(U \cup {q}) = Cardinality(U) + 1
      BY <1>1, FS_AddElement
    <3> QED
      BY <1>1, <3>1
  <2>2. IsFiniteSet(V) /\ Cardinality(V) <= Cardinality(U \cup {q})
    BY <1>4, <2>1, FS_Subset
  <2>3. Cardinality(V) \in Nat
    BY <2>2, FS_CardinalityType
  <2> QED
    BY <1>1, <2>1, <2>2, <2>3
<1>9. V \subseteq U => Cardinality(V) <= Cardinality(U)
  BY <1>1, FS_Subset
<1>10. r + Cardinality(V) <= crashes' + faults' + n
  BY <1>1, <1>2, <1>5, <1>6, <1>8, <1>9, Sums
<1> QED
  BY <1>7, <1>10 DEF r, n, V

\* The start of handler hi[w] uses up the worker's message.
LEMMA StartsBump ==
  ASSUME OneWorker, TypeInv, TypeInv', StartsInv, AttemptsOK, NEW w \in Workers,
         Asks(w), pc'[w] = "run", runs' = Bump(runs, Key(w)), NoneRevived,
         crashes + faults <= crashes' + faults'
  PROVE  StartsInv'
<1>1. /\ UNCHANGED redisVars /\ pc[w] = "seen" /\ msg'[w] = msg[w] /\ hi'[w] = hi[w]
  BY HandlerPCType DEF Asks, PassesOn, SameMessage
<1>2. PICK q \in Ids, h0 \in Handlers, e0 \in Events :
        /\ q = msg[w] /\ h0 = hi[w] /\ e0 = Event(w) /\ Key(w) = <<h0, e0>>
        /\ stream[q].event = e0 /\ stream[q].attempt \in Nat
  BY <1>1, Owners, MessageTypes DEF MessagePCs, HandlerCalls, Key, Event, Attempt
<1>3. Current(q, w) /\ Current(q, w)' /\ Handling(w)
  BY <1>1, <1>2 DEF Current, MessagePCs, Handling, HandlerCalls
<1>4. Allows(stream[q])
  BY <1>2, <1>3, DeliveryAssumption DEF AttemptsOK, Within, Poisoned, Allows
<1>5. q \in Unstarted(h0, e0)
  <2>1. Startable(h0, q)
    BY <1>1, <1>2, <1>3, StartableSolo DEF Ahead
  <2> QED
    BY <1>2, <1>4, <2>1 DEF Unstarted, CopiesAllowed
<1>6. ~Startable(h0, q)'
  <2>1. ~Ahead(h0, w)'
    BY <1>1, <1>2 DEF Ahead, Handlers
  <2> QED
    BY <1>3, <2>1, StartableSolo
<1>7. /\ crashes \in Nat /\ faults \in Nat /\ crashes' \in Nat /\ faults' \in Nat
  BY CountTypes DEF TypeInv, TypeOK
<1>8. /\ runs'[<<h0, e0>>] = runs[<<h0, e0>>] \/ runs'[<<h0, e0>>] = runs[<<h0, e0>>] + 1
      /\ \A k \in Handlers \X Events : k # <<h0, e0>> => runs'[k] = runs[k]
  <2>1. runs \in [Handlers \X Events -> 0..CountCap]
    BY Owners DEF HistoryTypes
  <2> QED
    BY <1>2, <2>1 DEF Bump
<1> SUFFICES ASSUME NEW h \in Handlers, NEW e \in Events
             PROVE  (runs[<<h, e>>] + Cardinality(Unstarted(h, e))
                       <= crashes + faults + Cardinality(CopiesAllowed(e)))'
  BY DEF StartsInv
<1> DEFINE r == runs[<<h, e>>]
           n == Cardinality(CopiesAllowed(e))
           U == Unstarted(h, e)
           V == Unstarted(h, e)'
<1>9. r \in Nat /\ n \in Nat /\ IsFiniteSet(U) /\ Cardinality(U) \in Nat
  BY CopyTypes, CountTypes
<1>10. CopiesAllowed(e)' = CopiesAllowed(e)
  BY <1>1 DEF CopiesAllowed, Ids, Allows, redisVars
<1>11. V \subseteq U
  BY <1>10 DEF NoneRevived, Unstarted, CopiesAllowed
<1>12. r + Cardinality(U) <= crashes + faults + n
  BY DEF StartsInv
<1>13. h = h0 /\ e = e0 => q \in U /\ q \notin V
  BY <1>5, <1>6 DEF Unstarted
<1>14. /\ h = h0 /\ e = e0 => r' = r \/ r' = r + 1
       /\ ~(h = h0 /\ e = e0) => r' = r
  BY <1>8
<1>15. n' = n
  BY <1>10
<1> HIDE DEF n, U, V
<1>16. IsFiniteSet(V) /\ Cardinality(V) \in Nat /\ Cardinality(V) <= Cardinality(U)
  BY <1>9, <1>11, FS_Subset, FS_CardinalityType
<1>17. h = h0 /\ e = e0 => Cardinality(V) + 1 <= Cardinality(U)
  <2> SUFFICES ASSUME h = h0, e = e0 PROVE Cardinality(V) + 1 <= Cardinality(U)
    OBVIOUS
  <2>1. IsFiniteSet(U \ {q}) /\ Cardinality(U \ {q}) = Cardinality(U) - 1
    BY <1>9, <1>13, FS_RemoveElement
  <2>2. V \subseteq U \ {q}
    BY <1>11, <1>13
  <2>3. Cardinality(V) <= Cardinality(U \ {q})
    BY <2>1, <2>2, FS_Subset
  <2> QED
    BY <1>9, <1>16, <2>1, <2>3
<1>18. /\ r + Cardinality(V) <= crashes' + faults' + n
       /\ h = h0 /\ e = e0 => r + 1 + Cardinality(V) <= crashes' + faults' + n
  <2> HIDE DEF r
  <2> QED
    BY <1>7, <1>9, <1>12, <1>16, <1>17, Sums
<1>19. r' + Cardinality(V) <= crashes' + faults' + n
  <2>1. CASE r' = r
    BY <1>18, <2>1
  <2>2. CASE r' = r + 1 /\ h = h0 /\ e = e0
    BY <1>18, <2>2
  <2> QED
    BY <1>14, <2>1, <2>2
<1> QED
  BY <1>15, <1>19 DEF n, V

\* New entries, of which none has been started, add to both sides.
LEMMA StartsGrow ==
  ASSUME TypeInv, TypeInv', StartsInv, UNCHANGED <<last, pel, pc, msg, hi>>,
         UNCHANGED <<runs, crashes, faults>>,
         Ids \subseteq Ids', \A id \in Ids : stream'[id] = stream[id]
  PROVE  StartsInv'
<1> SUFFICES ASSUME NEW h \in Handlers, NEW e \in Events
             PROVE  (runs[<<h, e>>] + Cardinality(Unstarted(h, e))
                       <= crashes + faults + Cardinality(CopiesAllowed(e)))'
  BY DEF StartsInv
<1> DEFINE r == runs[<<h, e>>]
           C == CopiesAllowed(e)
           D == CopiesAllowed(e)'
           U == Unstarted(h, e)
           V == Unstarted(h, e)'
           Z == D \ C
<1>1. /\ r \in Nat /\ IsFiniteSet(C) /\ Cardinality(C) \in Nat
      /\ IsFiniteSet(U) /\ Cardinality(U) \in Nat
      /\ crashes \in Nat /\ faults \in Nat
  BY CopyTypes, CountTypes
<1>2. IsFiniteSet(D) /\ IsFiniteSet(V)
  <2>1. IsFiniteSet(Ids')
    <3>1. Len(stream') \in Nat
      BY DEF TypeInv, TypeOK
    <3> QED
      BY <3>1, FS_Interval DEF Ids
  <2>2. IsFiniteSet(D)
    BY <2>1, FS_Subset DEF CopiesAllowed
  <2> QED
    BY <2>2, FS_Subset DEF Unstarted
<1>3. D = C \cup Z /\ C \cap Z = {} /\ \A p \in Ids : p \in D => p \in C
  BY DEF CopiesAllowed, Allows
<1>4. \A p : Startable(h, p)' <=> Startable(h, p)
  BY DEF Startable, Current, Handling, Ahead, Waiting
<1>5. V \subseteq U \cup Z
  BY <1>4 DEF Unstarted
<1>6. r + Cardinality(U) <= crashes + faults + Cardinality(C)
  BY DEF StartsInv
<1> HIDE DEF C, D, U, V
<1>7. IsFiniteSet(Z) /\ Cardinality(Z) \in Nat
  BY <1>2, FS_Subset, FS_CardinalityType
<1>8. Cardinality(D) = Cardinality(C) + Cardinality(Z)
  <2> HIDE DEF Z
  <2>1. Cardinality(D) = Cardinality(C) + Cardinality(Z) - Cardinality(C \cap Z)
    BY <1>1, <1>3, <1>7, FS_Union
  <2>2. Cardinality(C \cap Z) = 0
    BY <1>3, FS_EmptySet
  <2> QED
    BY <1>1, <1>7, <2>1, <2>2
<1>9. Cardinality(V) \in Nat /\ Cardinality(V) <= Cardinality(U) + Cardinality(Z)
  <2> HIDE DEF Z
  <2>1. /\ IsFiniteSet(U \cup Z) /\ IsFiniteSet(U \cap Z)
        /\ Cardinality(U \cup Z) = Cardinality(U) + Cardinality(Z) - Cardinality(U \cap Z)
    BY <1>1, <1>7, FS_Union, FS_Intersection
  <2>2. Cardinality(U \cap Z) \in Nat /\ Cardinality(V) \in Nat
    BY <1>2, <2>1, FS_CardinalityType
  <2>3. Cardinality(V) <= Cardinality(U \cup Z)
    BY <1>5, <2>1, FS_Subset
  <2> QED
    BY <1>1, <1>7, <2>1, <2>2, <2>3
<1>10. r + Cardinality(V) <= crashes + faults + Cardinality(D)
  <2> HIDE DEF Z, r
  <2> QED
    BY <1>1, <1>6, <1>7, <1>8, <1>9
<1> QED
  BY <1>10 DEF V, D

\* The worker is at no message, or at another one, afterwards.
LEMMA TurnsRevive ==
  ASSUME OneWorker, NEW w \in Workers,
         \A p \in Ids : Waiting(p)' => Waiting(p) /\ ~Current(p, w),
         \A p \in Ids : Current(p, w)' => Waiting(p)' \/ ~Handling(w)'
  PROVE  NoneRevived
<1> SUFFICES ASSUME NEW h \in Handlers, NEW p \in Ids, Startable(h, p)'
             PROVE  Startable(h, p)
  BY DEF NoneRevived
<1>1. Waiting(p)'
  BY StartableSolo
<1> QED
  BY <1>1, StartableSolo

\* The worker stays with its message and goes no step back.
LEMMA StaysRevive ==
  ASSUME OneWorker, TypeInv, NEW w \in Workers, SameMessage(w),
         pc[w] \in MessagePCs, pc'[w] \in MessagePCs,
         \A p \in Ids : Waiting(p)' => Waiting(p),
         Handling(w)' => /\ Handling(w)
                         /\ hi'[w] = hi[w] + 1 \/ (hi'[w] = hi[w] /\ pc'[w] # "seen")
  PROVE  NoneRevived
<1> SUFFICES ASSUME NEW h \in Handlers, NEW p \in Ids, Startable(h, p)'
             PROVE  Startable(h, p)
  BY DEF NoneRevived
<1>1. hi[w] \in Nat /\ h \in Nat
  BY Owners, MessageTypes DEF Handlers
<1>2. Current(p, w)' <=> Current(p, w)
  BY DEF Current, SameMessage
<1>3. CASE Current(p, w)
  <2>1. Handling(w)' /\ Ahead(h, w)'
    BY <1>2, <1>3, StartableSolo
  <2>2. Ahead(h, w)
    BY <1>1, <2>1 DEF Ahead
  <2> QED
    BY <1>3, <2>1, <2>2, StartableSolo
<1>4. CASE ~Current(p, w)
  BY <1>2, <1>4, StartableSolo
<1> QED
  BY <1>3, <1>4

LEMMA EndRevives ==
  ASSUME OneWorker, TypeInv, NEW w \in Workers, Ended(w),
         SameWaiting \/ (pc[w] \in MessagePCs /\ XAck(msg[w]))
  PROVE  RevivedOnly(msg[w])
<1> SUFFICES ASSUME NEW h \in Handlers, NEW p \in Ids, Startable(h, p)', p # msg[w]
             PROVE  Startable(h, p)
  BY DEF RevivedOnly
<1>1. ~Current(p, w)' /\ ~Current(p, w)
  BY DEF Ended, Current, MessagePCs, HandlerCalls, MessageCalls
<1>2. Waiting(p)'
  BY <1>1, StartableSolo
<1>3. Waiting(p)
  BY <1>2, AckThins DEF SameWaiting
<1> QED
  BY <1>1, <1>3, StartableSolo

LEMMA LoopRevives ==
  ASSUME OneWorker, TypeInv, NEW w \in Workers, BatchOK(w), LoopKinds(w)
  PROVE  /\ NoneRevived \/ (faults' = faults + 1 /\ RevivedOnly(msg[w]))
         /\ Asks(w) => NoneRevived
<1>1. CASE Looks(w)
  <2>1. /\ pc[w] \notin MessagePCs /\ \A p \in Ids : Waiting(p)' => Waiting(p)
    BY <1>1 DEF Looks, SameWaiting, IdleCalls, MessagePCs, HandlerCalls, MessageCalls
  <2>2. \A p \in Ids : Current(p, w)' => Waiting(p)' \/ ~Handling(w)'
    BY <1>1 DEF Looks, TakesUp, IdleCalls, Current, Waiting, MessagePCs, HandlerCalls,
       MessageCalls
  <2> QED
    BY <2>1, <2>2, TurnsRevive DEF Current
<1>2. CASE Acks(w)
  <2>1. pc[w] \in MessagePCs /\ XAck(msg[w])
    BY <1>2 DEF Acks, MessagePCs, MessageCalls
  <2>2. /\ pel' = pel \ {msg[w]}
        /\ \A p \in Ids : Waiting(p)' => Waiting(p) /\ p # msg[w]
    BY <2>1, AckThins
  <2>3. \A p \in Ids : Current(p, w)' => Waiting(p)' \/ ~Handling(w)'
    <3>1. CASE batch'[w] = {} /\ pc'[w] = "autoclaim"
      BY <3>1 DEF Current, MessagePCs, HandlerCalls, MessageCalls
    <3>2. CASE TakesUp(w, batch[w])
      BY <2>1, <2>2, <3>2 DEF TakesUp, BatchOK, Current, Waiting
    <3>3. CASE pc'[w] = "brokerdlq"
      BY <3>3 DEF Handling, HandlerCalls
    <3> QED
      BY <1>2, <3>1, <3>2, <3>3 DEF Acks
  <2> QED
    BY <2>2, <2>3, TurnsRevive DEF Current
<1>3. CASE Works(w) \/ Asks(w) \/ Completes(w)
  <2>1. UNCHANGED <<last, pel>> /\ SameMessage(w) /\ pc[w] \in MessagePCs
    BY <1>3 DEF Works, Asks, Completes, redisVars, MessagePCs, HandlerCalls
  <2>2. pc'[w] \in MessagePCs
    BY <1>3 DEF Works, Asks, Completes, MessagePCs, HandlerCalls, MessageCalls
  <2>3. Handling(w)' => /\ Handling(w)
                        /\ hi'[w] = hi[w] + 1 \/ (hi'[w] = hi[w] /\ pc'[w] # "seen")
    BY <1>3 DEF Works, Asks, Completes, PassesOn, Handling, HandlerCalls, MessageCalls
  <2>4. \A p \in Ids : Waiting(p)' => Waiting(p)
    BY <2>1 DEF Waiting
  <2> QED
    BY <2>1, <2>2, <2>3, <2>4, StaysRevive
<1>4. CASE Exchanges(w)
  <2>1. /\ SameMessage(w) /\ pc[w] = "retry" /\ pc'[w] \in MessagePCs /\ Handling(w)
        /\ pel' = pel \ {msg[w]} /\ last' = last
    BY <1>4 DEF Exchanges, PassesOn, ZAddAndAck, MessagePCs, MessageCalls, HandlerCalls,
       Handling
  <2>2. Handling(w)' => hi'[w] = hi[w] + 1 \/ (hi'[w] = hi[w] /\ pc'[w] # "seen")
    BY <1>4 DEF Exchanges, PassesOn, Handling, HandlerCalls
  <2>3. pc[w] \in MessagePCs /\ \A p \in Ids : Waiting(p)' => Waiting(p)
    BY <2>1 DEF Waiting, MessagePCs, HandlerCalls
  <2> QED
    BY <2>1, <2>2, <2>3, StaysRevive
<1>5. CASE Fails(w)
  BY <1>5, EndRevives DEF Fails, Ended, Asks
<1> QED
  BY <1>1, <1>2, <1>3, <1>4, <1>5 DEF LoopKinds

LEMMA StartsStep ==
  ASSUME OneWorker, TypeInv, TypeInv', LineageInv, AttemptsOK, StartsInv, [Next]_vars
  PROVE  StartsInv'
<1>1. crashes \in Nat /\ faults \in Nat
  BY CountTypes
<1>2. ASSUME NEW w \in Workers, Loop(w) PROVE StartsInv'
  <2>1. LoopKinds(w) /\ BatchOK(w)
    BY <1>2, LoopHasKind DEF LineageInv
  <2>2. /\ NoneRevived \/ (faults' = faults + 1 /\ RevivedOnly(msg[w]))
        /\ Asks(w) => NoneRevived
    BY <2>1, LoopRevives
  <2>3. /\ crashes' = crashes /\ (faults' = faults \/ faults' = faults + 1)
    BY <2>1 DEF LoopKinds
  <2>4. /\ crashes + faults <= crashes' + faults'
        /\ faults' = faults + 1 => crashes + faults < crashes' + faults'
    BY <1>1, <2>3
  <2>5. stream' = stream
    BY <2>1 DEF LoopKinds, Looks, Acks, Works, Asks, Completes, Exchanges, Fails,
       SameWaiting, XAck, ZAddAndAck, redisVars
  <2>6. CASE UNCHANGED runs
    BY <2>2, <2>4, <2>5, <2>6, StartsKept
  <2>7. CASE Asks(w) /\ pc'[w] = "run" /\ runs' = Bump(runs, Key(w))
    BY <2>2, <2>4, <2>7, StartsBump
  <2> QED
    BY <2>1, <2>6, <2>7 DEF LoopKinds, Looks, Acks, Works, Asks, Completes, Exchanges,
       Fails
<1>3. ASSUME Calm, UNCHANGED historyVars,
             \/ pc' = pc
             \/ \E w \in Workers : pc[w] = "down" /\ pc'[w] = "autoclaim"
      PROVE  StartsInv'
  <2>1. \A w \in Workers : /\ pc[w] \in MessagePCs <=> pc'[w] \in MessagePCs
                           /\ Handling(w)' <=> Handling(w)
                           /\ Handling(w) => pc'[w] = pc[w]
    BY <1>3 DEF OneWorker, MessagePCs, HandlerCalls, MessageCalls, Handling
  <2>2. NoneRevived
    BY <1>3, <2>1 DEF NoneRevived, Startable, Calm, Current, Ahead
  <2>3. UNCHANGED <<stream, runs>> /\ crashes + faults <= crashes' + faults'
    BY <1>1, <1>3 DEF Calm, historyVars
  <2> QED
    BY <2>2, <2>3, StartsKept
<1>4. ASSUME NEW w \in Workers, Start(w) PROVE StartsInv'
  BY <1>3, <1>4, StartCalm
<1>5. ASSUME NEW w \in Workers, Poll(w) PROVE StartsInv'
  <2>1. Calm /\ pc' = pc /\ UNCHANGED historyVars
    BY <1>5 DEF Poll, Calm, redisVars, localVars, Waiting
  <2> QED
    BY <1>3, <2>1
<1>6. ASSUME NEW w \in Workers, Requeue(w) PROVE StartsInv'
  BY <1>6, RequeueEffect, StartsGrow DEF localVars, historyVars
<1>7. ASSUME NEW w \in Workers, SchedulerFails(w) \/ Crash(w) PROVE StartsInv'
  <2>1. /\ Ended(w) /\ runs' = runs
        /\ \/ SameWaiting
           \/ pc[w] \in MessagePCs /\ XAck(msg[w])
        /\ (crashes' = crashes + 1 /\ faults' = faults)
           \/ (crashes' = crashes /\ faults' = faults + 1)
    BY <1>7, StopEnds, SameIsSameWaiting DEF Fails, redisVars
  <2>2. RevivedOnly(msg[w]) /\ stream' = stream
    BY <2>1, EndRevives, EndThins
  <2>3. crashes + faults < crashes' + faults' /\ crashes + faults <= crashes' + faults'
    BY <1>1, <2>1
  <2> QED
    BY <2>1, <2>2, <2>3, StartsKept
<1>8. ASSUME NEW e \in Events, Publish(e) PROVE StartsInv'
  <2>1. /\ Ids \subseteq Ids' /\ \A id \in Ids : stream'[id] = stream[id]
        /\ UNCHANGED <<last, pel, localVars, historyVars>>
    BY <1>8, PublishEffect
  <2> QED
    BY <2>1, StartsGrow DEF localVars, historyVars
<1>9. CASE Tick \/ UNCHANGED vars
  BY <1>3, <1>9, TimeCalm
<1> QED
  BY <1>2, <1>4, <1>5, <1>6, <1>7, <1>8, <1>9 DEF Next, Scheduler

LEMMA AttemptsStep ==
  ASSUME OneWorker, TypeInv, TypeInv', OwnFetched, AttemptsOK, [Next]_vars
  PROVE  AttemptsOK'
<1>1. ASSUME NEW w \in Workers, Loop(w) PROVE AttemptsOK'
  <2>1. LoopKinds(w)
    BY <1>1, LoopHasKind
  <2>2. stream' = stream /\ (retryz' = retryz \/ Exchanges(w))
    BY <2>1 DEF LoopKinds, Looks, Acks, Works, Asks, Completes, Exchanges, Fails,
       SameWaiting, XAck, ZAddAndAck, redisVars
  <2>3. \A id \in Ids' : Within(stream'[id].attempt)
    BY <2>2 DEF AttemptsOK, Ids
  <2>4. \A m \in retryz' : Within(m.attempt)
    <3>1. CASE retryz' = retryz
      BY <3>1 DEF AttemptsOK
    <3>2. CASE Exchanges(w)
      <4> DEFINE m0 == RetryMember(w)
      <4>1. /\ retryz' = retryz \cup {m0} /\ m0.attempt = Attempt(w) + 1
            /\ pc[w] = "retry"
        BY <3>2 DEF Exchanges, ZAddAndAck, RetryMember
      <4>2. /\ hi[w] \in Handlers /\ Attempt(w) \in Nat /\ MaxAttempts[hi[w]] \in Nat
        BY <4>1, Owners, MessageTypes, DeliveryAssumption DEF MessagePCs, HandlerCalls
      <4>3. Attempt(w) + 1 <= MaxAttempts[hi[w]]
        BY <4>1, <4>2 DEF AttemptsOK
      <4>4. Within(m0.attempt)
        BY <4>1, <4>2, <4>3 DEF Within
      <4> HIDE DEF m0
      <4> QED
        BY <4>1, <4>4 DEF AttemptsOK
    <3> QED
      BY <2>2, <3>1, <3>2
  <2>5. pc'[w] = "retry" => Attempt(w)' < MaxAttempts[hi'[w]]
    <3> SUFFICES ASSUME pc'[w] = "retry" PROVE Attempt(w)' < MaxAttempts[hi'[w]]
      OBVIOUS
    <3>1. Works(w) /\ hi'[w] = hi[w] /\ CanRetry(w, err'[w])
      BY <2>1 DEF LoopKinds, Looks, Acks, Works, Asks, Completes, Exchanges, Fails,
         TakesUp, EntryPCs, IdleCalls, Ended
    <3>2. Attempt(w)' = Attempt(w)
      BY <2>2, <3>1 DEF Attempt, Works, SameMessage
    <3> QED
      BY <3>1, <3>2 DEF CanRetry
  <2>6. Handling(w)' => ~Poisoned(msg[w])'
    <3> SUFFICES ASSUME Handling(w)' PROVE ~Poisoned(msg[w])'
      OBVIOUS
    <3>1. \/ \E S : TakesUp(w, S)
          \/ SameMessage(w) /\ Handling(w)
      BY <2>1 DEF LoopKinds, Looks, Acks, Works, Asks, Completes, Exchanges, Fails,
         IdleCalls, Ended, Handling, HandlerCalls, MessageCalls
    <3>2. ASSUME NEW S, TakesUp(w, S) PROVE ~Poisoned(msg[w])'
      <4>1. pc'[w] = "seen"
        BY <3>2 DEF TakesUp, EntryPCs, Handling, HandlerCalls
      <4> QED
        BY <2>2, <3>2, <4>1, TakesUpUnpoisoned
    <3>3. CASE SameMessage(w) /\ Handling(w)
      BY <2>2, <3>3 DEF AttemptsOK, SameMessage, Poisoned
    <3> QED
      BY <3>1, <3>2, <3>3
  <2> QED
    BY <2>3, <2>4, <2>5, <2>6 DEF AttemptsOK, OneWorker
<1>2. ASSUME UNCHANGED <<stream, retryz, msg, hi>>,
             \A w \in Workers : pc'[w] = pc[w] \/ ~Handling(w)'
      PROVE  AttemptsOK'
  <2>1. \A w \in Workers : pc'[w] = "retry" => Handling(w)'
    BY DEF Handling, HandlerCalls
  <2>2. \A w \in Workers : Handling(w)' => Handling(w) /\ pc'[w] = pc[w]
    BY <1>2 DEF Handling
  <2> QED
    BY <1>2, <2>1, <2>2 DEF AttemptsOK, Ids, Attempt, Poisoned
<1>3. ASSUME NEW w \in Workers, Start(w) \/ Poll(w) PROVE AttemptsOK'
  <2>1. UNCHANGED <<stream, retryz, msg, hi>> /\ (pc' = pc \/ pc'[w] = "autoclaim")
    BY <1>3, StartCalm DEF Calm, Poll, redisVars, localVars
  <2> QED
    BY <1>2, <2>1 DEF OneWorker, Handling, HandlerCalls
<1>4. ASSUME NEW w \in Workers, SchedulerFails(w) \/ Crash(w) PROVE AttemptsOK'
  <2>1. Ended(w) /\ UNCHANGED <<stream, retryz>>
    BY <1>4, StopEnds, EndThins, SameIsSameWaiting DEF Fails, redisVars
  <2>2. Ids' = Ids /\ \A v \in Workers : ~Handling(v)' /\ pc'[v] # "retry"
    BY <2>1 DEF OneWorker, Ended, Handling, HandlerCalls, Ids
  <2> QED
    BY <2>1, <2>2 DEF AttemptsOK
<1>5. ASSUME Ids \subseteq Ids', \A id \in Ids : stream'[id] = stream[id],
             UNCHANGED <<pc, msg, hi>>, retryz' \subseteq retryz,
             \A id \in Ids' \ Ids : Within(stream'[id].attempt)
      PROVE  AttemptsOK'
  <2>1. \A v \in Workers : pc[v] = "retry" => Handling(v)
    BY DEF Handling, HandlerCalls
  <2>2. \A v \in Workers : Handling(v) => stream'[msg'[v]] = stream[msg[v]]
    BY <1>5, MessageTypes, Owners DEF Handling, MessagePCs
  <2>3. /\ \A v \in Workers : pc'[v] = "retry" => Attempt(v)' < MaxAttempts[hi'[v]]
        /\ \A v \in Workers : Handling(v)' => ~Poisoned(msg[v])'
    BY <1>5, <2>1, <2>2 DEF AttemptsOK, Attempt, Poisoned, Handling
  <2> QED
    BY <1>5, <2>3 DEF AttemptsOK
<1>6. ASSUME NEW w \in Workers, Requeue(w) PROVE AttemptsOK'
  <2>1. /\ Ids \subseteq Ids' /\ \A id \in Ids : stream'[id] = stream[id]
        /\ UNCHANGED <<pc, msg, hi>> /\ retryz' \subseteq retryz
    BY <1>6, RequeueEffect DEF localVars
  <2>2. \A i \in Ids' \ Ids : \E m \in retryz : stream'[i].attempt = m.attempt
    BY <1>6, RequeueEffect DEF OwnFetched
  <2> QED
    BY <1>5, <2>1, <2>2 DEF AttemptsOK
<1>7. ASSUME NEW e \in Events, Publish(e) PROVE AttemptsOK'
  <2>1. /\ Ids \subseteq Ids' /\ \A id \in Ids : stream'[id] = stream[id]
        /\ UNCHANGED <<pc, msg, hi, retryz>>
        /\ \A id \in Ids' \ Ids : stream'[id].attempt = 1
    BY <1>7, PublishEffect DEF localVars
  <2>2. Within(1)
    BY Firsts DEF Within
  <2> QED
    BY <1>5, <2>1, <2>2
<1>8. CASE Tick \/ UNCHANGED vars
  BY <1>2, <1>8, TimeCalm DEF Calm
<1> QED
  BY <1>1, <1>3, <1>4, <1>6, <1>7, <1>8 DEF Next, Scheduler

LEMMA StartsInit == Init => StartsInv /\ AttemptsOK
<1> SUFFICES ASSUME Init PROVE StartsInv /\ AttemptsOK
  OBVIOUS
<1>1. /\ Ids = {} /\ retryz = {} /\ crashes = 0 /\ faults = 0
      /\ \A w \in Workers : pc[w] = "down"
      /\ \A k \in Handlers \X Events : runs[k] = 0
  BY DEF Init, RedisInit, Ids
<1>2. \A h, e : CopiesAllowed(e) = {} /\ Unstarted(h, e) = {}
  BY <1>1 DEF CopiesAllowed, Unstarted
<1>3. StartsInv
  BY <1>1, <1>2, FS_EmptySet DEF StartsInv
<1> QED
  BY <1>1, <1>3 DEF AttemptsOK, Handling, HandlerCalls

\* With one worker, whatever crashes, fails or expires: a handler starts for an
\* event at most once for each of its copies that the policies and the poison
\* limit allow, and once more for each crash and each failed call.
THEOREM CopyBudgetHolds ==
  ASSUME OneWorker
  PROVE  Spec => []CopyBudget
<1> DEFINE All == TypeInv /\ OwnFetched /\ LineageInv /\ AttemptsOK /\ StartsInv
<1>1. Init => All
  BY TypeInit, TriesInit, LineageInit, StartsInit
<1>2. All /\ [Next]_vars => All'
  <2> SUFFICES ASSUME TypeInv, OwnFetched, LineageInv, AttemptsOK, StartsInv, [Next]_vars
               PROVE  TypeInv' /\ OwnFetched' /\ LineageInv' /\ AttemptsOK' /\ StartsInv'
    OBVIOUS
  <2>1. TypeInv'
    BY TypeStep
  <2> QED
    BY <2>1, OwnFetchedStep, LineageStep, AttemptsStep, StartsStep
<1>3. All => CopyBudget
  <2> SUFFICES ASSUME TypeInv, StartsInv, NEW h \in Handlers, NEW e \in Events
               PROVE  runs[<<h, e>>] <= crashes + faults + Cardinality(CopiesAllowed(e))
    BY DEF CopyBudget, CopiesAllowed
  <2>1. /\ runs[<<h, e>>] \in Nat /\ crashes \in Nat /\ faults \in Nat
        /\ Cardinality(CopiesAllowed(e)) \in Nat /\ Cardinality(Unstarted(h, e)) \in Nat
    BY CountTypes, CopyTypes
  <2>2. runs[<<h, e>>] + Cardinality(Unstarted(h, e))
          <= crashes + faults + Cardinality(CopiesAllowed(e))
    BY DEF StartsInv
  <2> QED
    BY <2>1, <2>2
<1> QED
  BY <1>1, <1>2, <1>3, PTL DEF Spec

=============================================================================
