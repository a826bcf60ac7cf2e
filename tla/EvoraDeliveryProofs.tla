------------------------ MODULE EvoraDeliveryProofs ------------------------
(***************************************************************************)
(* Theorems about EvoraDelivery, for any number of events, handlers and    *)
(* workers and any bounds.  Each action is a Redis command and a move of a *)
(* worker's control; a lemma for each command and each move says what it   *)
(* preserves, and the inductive steps combine them.                        *)
(***************************************************************************)
EXTENDS EvoraDelivery, FiniteSetTheorems, SequenceTheorems, TLAPS

Entries == [event : Events, attempt : Nat \ {0}]

\* TypeInv by owner: the server, the workers, the histories.
RedisTypes ==
  /\ stream \in Seq(Entries)
  /\ group \in BOOLEAN
  /\ origin \in Nat /\ last \in Nat
  /\ retryz \subseteq Members /\ due \subseteq Members
  /\ keys \subseteq Handlers \X Events
  /\ dlq \subseteq Letters
  /\ ServerOK

LoopTypes ==
  /\ pc \in [Workers -> PCs]
  /\ batch \in [Workers -> SUBSET (Nat \ {0})]
  /\ msg \in [Workers -> Nat]
  /\ hi \in [Workers -> 0..NumHandlers]
  /\ err \in [Workers -> ErrorTypes \cup {"RedisError", "none"}]
  /\ fetched \in [Workers -> SUBSET Members]
  /\ \A w \in Workers : WorkerOK(w)

HistoryTypes ==
  /\ runs \in [Handlers \X Events -> 0..CountCap]
  /\ done \in [Handlers \X Events -> 0..CountCap]
  /\ dropped \subseteq Handlers \X Events
  /\ crashes \in Nat /\ faults \in Nat

LEMMA Owners == TypeInv <=> RedisTypes /\ LoopTypes /\ HistoryTypes
<1>1. ServerOK /\ last \in Nat => pel \subseteq Nat \ {0} /\ idle \subseteq Nat \ {0}
  BY DEF ServerOK
<1> QED
  BY <1>1 DEF TypeInv, TypeOK, RedisTypes, LoopTypes, HistoryTypes, Entries

\* A step of the server: the stream is only appended to, delivery advances,
\* only what it passes becomes pending, dead letters and keys accumulate.
Grows ==
  /\ last <= last'
  /\ Len(stream) <= Len(stream')
  /\ \A id \in Ids : stream'[id] = stream[id]
  /\ \A id \in pel' : id \in pel \/ id > last
  /\ dlq \subseteq dlq'

-----------------------------------------------------------------------------
(* Commands keep the server's types and only grow it.                      *)

LEMMA NoCommandTypes ==
  ASSUME RedisTypes, UNCHANGED redisVars
  PROVE  RedisTypes' /\ Grows
BY DEF RedisTypes, ServerOK, Grows, redisVars, Ids

LEMMA XGroupCreateTypes ==
  ASSUME RedisTypes, XGroupCreate
  PROVE  RedisTypes' /\ Grows
BY DEF RedisTypes, ServerOK, Grows, XGroupCreate, Ids

LEMMA XAddTypes ==
  ASSUME RedisTypes, NEW entry \in Entries, XAdd(entry)
  PROVE  RedisTypes' /\ Grows
BY DEF RedisTypes, ServerOK, Grows, XAdd, Ids

LEMMA XReadGroupTypes ==
  ASSUME RedisTypes, NEW n \in Nat, last + n <= Len(stream), XReadGroup(n)
  PROVE  RedisTypes' /\ Grows
BY DEF RedisTypes, ServerOK, Grows, XReadGroup, Ids

LEMMA XClaimTypes ==
  ASSUME RedisTypes, NEW S, XClaim(S)
  PROVE  RedisTypes' /\ Grows
<1>1. idle' \subseteq pel' /\ pel' \subseteq 1..last'
  BY DEF RedisTypes, ServerOK, XClaim
<1>2. IsFiniteSet(retryz') /\ due' \subseteq retryz'
  BY DEF RedisTypes, ServerOK, XClaim
<1> QED
  BY <1>1, <1>2 DEF RedisTypes, ServerOK, Grows, XClaim, Ids

LEMMA XAckTypes ==
  ASSUME RedisTypes, NEW id, XAck(id)
  PROVE  RedisTypes' /\ Grows
<1>1. idle' \subseteq pel' /\ pel' \subseteq 1..last'
  BY DEF RedisTypes, ServerOK, XAck
<1>2. IsFiniteSet(retryz') /\ due' \subseteq retryz'
  BY DEF RedisTypes, ServerOK, XAck
<1> QED
  BY <1>1, <1>2 DEF RedisTypes, ServerOK, Grows, XAck, Ids

LEMMA DlqAddTypes ==
  ASSUME RedisTypes, NEW letter \in Letters, DlqAdd(letter)
  PROVE  RedisTypes' /\ Grows
BY DEF RedisTypes, ServerOK, Grows, DlqAdd, Ids

LEMMA SetKeyTypes ==
  ASSUME RedisTypes, NEW key \in Handlers \X Events, SetKey(key)
  PROVE  RedisTypes' /\ Grows
BY DEF RedisTypes, ServerOK, Grows, SetKey, Ids

LEMMA TimeTypes ==
  ASSUME RedisTypes, NEW x, GoIdle(x) \/ BecomeDue(x) \/ Expire(x)
  PROVE  RedisTypes' /\ Grows
<1>1. CASE GoIdle(x)
  BY <1>1 DEF RedisTypes, ServerOK, Grows, GoIdle, Ids
<1>2. CASE BecomeDue(x)
  BY <1>2 DEF RedisTypes, ServerOK, Grows, BecomeDue, Ids
<1>3. CASE Expire(x)
  BY <1>3 DEF RedisTypes, ServerOK, Grows, Expire, Ids
<1> QED
  BY <1>1, <1>2, <1>3

LEMMA ZAddAndAckTypes ==
  ASSUME RedisTypes, NEW m \in Members, NEW id, ZAddAndAck(m, id)
  PROVE  RedisTypes' /\ Grows
<1>1. IsFiniteSet(retryz')
  BY FS_AddElement DEF RedisTypes, ServerOK, ZAddAndAck
<1>2. idle' \subseteq pel' /\ pel' \subseteq 1..last' /\ due' \subseteq retryz'
  BY DEF RedisTypes, ServerOK, ZAddAndAck
<1>3. retryz' \subseteq Members /\ due' \subseteq Members
  BY DEF RedisTypes, ZAddAndAck
<1> QED
  BY <1>1, <1>2, <1>3 DEF RedisTypes, ServerOK, Grows, ZAddAndAck, Ids

\* What the scheduler appends is a sequence of entries.
LEMMA OrdersAreSequences ==
  ASSUME NEW S \in SUBSET Members, IsFiniteSet(S), NEW s \in Orders(S)
  PROVE  /\ s \in Seq(Members)
         /\ Len(s) \in Nat
         /\ s \in [1..Len(s) -> S]
         /\ \A m \in S : \E i \in 1..Len(s) : s[i] = m
<1>1. Cardinality(S) \in Nat
  BY FS_CardinalityType
<1>2. s \in [1..Cardinality(S) -> S] /\ \A m \in S : \E i \in 1..Cardinality(S) : s[i] = m
  BY DEF Orders, Surjection
<1>3. s \in Seq(Members) /\ Len(s) = Cardinality(S)
  BY <1>1, <1>2
<1> QED
  BY <1>1, <1>2, <1>3

LEMMA AddAndZRemTypes ==
  ASSUME RedisTypes, NEW S \in SUBSET Members, IsFiniteSet(S),
         NEW s \in Orders(S), AddAndZRem(s)
  PROVE  /\ RedisTypes' /\ Grows
         /\ \A m \in S : \E id \in 1..Len(stream') :
              id > Len(stream) /\ stream'[id].event = m.event
<1> DEFINE added == [i \in 1..Len(s) |->
                       [event |-> s[i].event, attempt |-> s[i].attempt]]
<1>1. s \in Seq(Members) /\ Len(s) \in Nat /\ s \in [1..Len(s) -> S]
  BY OrdersAreSequences
<1>2. \A m \in S : \E i \in 1..Len(s) : s[i] = m
  BY OrdersAreSequences
<1>3. \A i \in 1..Len(s) : s[i] \in Members
  BY <1>1
<1>4. added \in Seq(Entries) /\ Len(added) = Len(s)
  BY <1>1, <1>3 DEF Entries, Members
<1>5. stream \in Seq(Entries) /\ stream' = stream \o added
  BY DEF RedisTypes, AddAndZRem
<1> HIDE DEF added
<1>6. /\ stream' \in Seq(Entries)
      /\ Len(stream') = Len(stream) + Len(s)
      /\ \A id \in 1..Len(stream) : stream'[id] = stream[id]
      /\ \A i \in 1..Len(s) : stream'[Len(stream) + i] = added[i]
  <2>1. /\ stream \o added \in Seq(Entries)
        /\ Len(stream \o added) = Len(stream) + Len(added)
        /\ \A i \in 1..Len(stream) + Len(added) : (stream \o added)[i] =
             IF i <= Len(stream) THEN stream[i] ELSE added[i - Len(stream)]
    BY <1>4, <1>5, ConcatProperties
  <2>2. Len(stream) \in Nat /\ Len(added) \in Nat
    BY <1>4, <1>5
  <2> QED
    BY <1>4, <1>5, <2>1, <2>2
<1>7. \A m \in S : \E id \in 1..Len(stream') :
        id > Len(stream) /\ stream'[id].event = m.event
  <2> SUFFICES ASSUME NEW m \in S
               PROVE  \E id \in 1..Len(stream') :
                        id > Len(stream) /\ stream'[id].event = m.event
    OBVIOUS
  <2>1. PICK i \in 1..Len(s) : s[i] = m
    BY <1>2
  <2>2. added[i].event = m.event
    BY <2>1 DEF added
  <2>3. Len(stream) \in Nat
    BY <1>5
  <2> QED
    BY <1>1, <1>6, <2>1, <2>2, <2>3
<1>8. IsFiniteSet(retryz') /\ retryz' \subseteq retryz /\ due' \subseteq retryz'
  BY FS_Subset DEF RedisTypes, ServerOK, AddAndZRem
<1>9. Len(stream) \in Nat
  BY <1>5
<1>10. RedisTypes' /\ Grows
  BY <1>1, <1>6, <1>8, <1>9 DEF RedisTypes, ServerOK, AddAndZRem, Grows, Ids
<1> QED
  BY <1>7, <1>10

-----------------------------------------------------------------------------
(* Moves keep the workers' types.                                          *)

Advances == last \in Nat /\ last' \in Nat /\ last <= last'

LocalTypes ==
  /\ pc \in [Workers -> PCs]
  /\ batch \in [Workers -> SUBSET (Nat \ {0})]
  /\ msg \in [Workers -> Nat]
  /\ hi \in [Workers -> 0..NumHandlers]
  /\ err \in [Workers -> ErrorTypes \cup {"RedisError", "none"}]
  /\ fetched \in [Workers -> SUBSET Members]

\* A worker none of whose variables change stays well-formed.
SameWorker(v) ==
  /\ pc'[v] = pc[v] /\ batch'[v] = batch[v] /\ msg'[v] = msg[v]
  /\ hi'[v] = hi[v] /\ err'[v] = err[v] /\ fetched'[v] = fetched[v]

\* A move of w: the types are kept, w is well-formed, the others are the same.
Moves(w) ==
  /\ LocalTypes' /\ WorkerOK(w)'
  /\ \A v \in Workers \ {w} : SameWorker(v)

LEMMA MovesTypes ==
  ASSUME LoopTypes, Advances, NEW w \in Workers, Moves(w)
  PROVE  LoopTypes'
<1>1. \A v \in Workers \ {w} : WorkerOK(v)'
  BY DEF LoopTypes, WorkerOK, Advances, Moves, SameWorker
<1> QED
  BY <1>1 DEF Moves, LocalTypes, LoopTypes

LEMMA GotoMoves ==
  ASSUME LoopTypes, Advances, NEW w \in Workers, NEW label \in PCs,
         label \in MessagePCs => msg[w] # 0 /\ hi[w] # 0,
         label \notin {"retry", "dlq", "rescue"},
         Goto(w, label), UNCHANGED fetched
  PROVE  Moves(w)
<1>1. LocalTypes'
  BY DEF LoopTypes, LocalTypes, Goto
<1>2. WorkerOK(w)'
  BY DEF LoopTypes, WorkerOK, Advances, Goto
<1> QED
  BY <1>1, <1>2 DEF Moves, SameWorker, Goto, LoopTypes

LEMMA DieMoves ==
  ASSUME LoopTypes, Advances, NEW w \in Workers, Die(w)
  PROVE  Moves(w)
<1>1. LocalTypes'
  BY RedisAssumption DEF LoopTypes, LocalTypes, Die, PCs
<1>2. WorkerOK(w)'
  BY FS_EmptySet DEF LoopTypes, WorkerOK, Advances, Die, MessagePCs, HandlerCalls, MessageCalls
<1> QED
  BY <1>1, <1>2 DEF Moves, SameWorker, Die, LoopTypes

LEMMA PCSubsets == MessagePCs \subseteq PCs
BY DEF MessagePCs, PCs, Calls, HandlerCalls, MessageCalls

LEMMA HandlerPCType ==
  ASSUME NEW h
  PROVE  HandlerPC(h) \in {"brokerdlq", "seen"}
BY DEF HandlerPC

LEMMA EntryPCType ==
  ASSUME RedisTypes, NEW id \in Ids
  PROVE  EntryPC(id) \in {"drop", "poison", "contract", "unmatched", "brokerdlq", "seen"}
<1>0. stream[id] \in Entries
  BY DEF RedisTypes, Ids
<1>1. stream[id].event \in Events
  BY <1>0 DEF Entries
<1>2. Kind[stream[id].event] \in {"event", "undecodable", "unmatched", "empty"}
  BY <1>1, DeliveryAssumption
<1> QED
  BY <1>2, HandlerPCType DEF EntryPC

LEMMA ProcessMoves ==
  ASSUME RedisTypes, LoopTypes, Advances, NEW w \in Workers,
         NEW S, S \subseteq 1..last', S \subseteq Ids,
         Process(w, S), UNCHANGED fetched
  PROVE  Moves(w)
<1> USE RedisAssumption
<1>1. CASE S = {}
  <2>1. LocalTypes'
    BY <1>1 DEF LoopTypes, LocalTypes, Process, PCs, Calls, IdleCalls
  <2>2. WorkerOK(w)'
    BY <1>1 DEF LoopTypes, WorkerOK, Advances, Process, MessagePCs,
                HandlerCalls, MessageCalls
  <2> QED
    BY <1>1, <2>1, <2>2 DEF Moves, SameWorker, Process, LoopTypes
<1>2. ASSUME NEW id \in S,
             pc' = [pc EXCEPT ![w] = EntryPC(id)],
             batch' = [batch EXCEPT ![w] = S \ {id}],
             msg' = [msg EXCEPT ![w] = id],
             hi' = [hi EXCEPT ![w] = 1],
             err' = [err EXCEPT ![w] = "none"]
      PROVE  Moves(w)
  <2>1. EntryPC(id) \in MessagePCs
        /\ EntryPC(id) \notin {"retry", "dlq", "rescue"}
    BY EntryPCType DEF MessagePCs, HandlerCalls, MessageCalls
  <2>2. id \in Nat \ {0} /\ id \in 0..last' /\ S \in SUBSET (Nat \ {0})
    BY DEF Advances
  <2>3. LocalTypes'
    BY <1>2, <2>1, <2>2, PCSubsets DEF LoopTypes, LocalTypes
  <2>4. /\ pc'[w] = EntryPC(id) /\ batch'[w] = S \ {id}
        /\ msg'[w] = id /\ hi'[w] = 1 /\ fetched'[w] = fetched[w]
    BY <1>2 DEF LoopTypes
  <2>5. IsFiniteSet(fetched[w])
    BY DEF LoopTypes, WorkerOK
  <2>6. WorkerOK(w)'
    BY <2>1, <2>2, <2>4, <2>5 DEF WorkerOK
  <2> QED
    BY <1>2, <2>3, <2>6 DEF Moves, SameWorker, LoopTypes
<1> QED
  BY <1>1, <1>2 DEF Process

LEMMA NextHandlerMoves ==
  ASSUME LoopTypes, Advances, NEW w \in Workers, pc[w] \in MessagePCs,
         NextHandler(w), UNCHANGED fetched
  PROVE  Moves(w)
<1> USE RedisAssumption
<1>1. HandlerPC(hi[w] + 1) \in {"brokerdlq", "seen"}
  BY HandlerPCType
<1>2. LocalTypes'
  BY <1>1 DEF LoopTypes, LocalTypes, NextHandler, PCs, Calls, HandlerCalls, MessageCalls
<1>3. WorkerOK(w)'
  BY <1>1 DEF LoopTypes, WorkerOK, Advances, NextHandler, MessagePCs,
              HandlerCalls, MessageCalls
<1> QED
  BY <1>2, <1>3 DEF Moves, SameWorker, NextHandler, LoopTypes

LEMMA GiveUpMoves ==
  ASSUME LoopTypes, Advances, NEW w \in Workers, pc[w] \in MessagePCs,
         NEW label \in {"dlq", "rescue"}, NEW error \in ErrorTypes \cup {"RedisError"},
         GiveUp(w, label, error), UNCHANGED fetched
  PROVE  Moves(w)
<1>1. CASE hi[w] \in Dlq
  <2>1. LocalTypes'
    BY <1>1 DEF LoopTypes, LocalTypes, GiveUp, PCs, Calls, HandlerCalls
  <2>2. WorkerOK(w)'
    BY <1>1 DEF LoopTypes, WorkerOK, Advances, GiveUp, ErrorTypes
  <2> QED
    BY <1>1, <2>1, <2>2 DEF Moves, SameWorker, GiveUp, LoopTypes
<1>2. CASE hi[w] \notin Dlq
  BY <1>2, NextHandlerMoves DEF GiveUp
<1> QED
  BY <1>1, <1>2

\* What a worker's message stands for while it is being processed.
LEMMA MessageTypes ==
  ASSUME RedisTypes, LoopTypes, NEW w \in Workers, pc[w] \in MessagePCs
  PROVE  /\ msg[w] \in Ids /\ msg[w] \in 1..last
         /\ hi[w] \in Handlers
         /\ Event(w) \in Events /\ Attempt(w) \in Nat \ {0}
         /\ Key(w) \in Handlers \X Events
<1>1. msg[w] \in 1..last /\ hi[w] \in 1..NumHandlers
  BY RedisAssumption DEF RedisTypes, LoopTypes, WorkerOK
<1>2. msg[w] \in Ids
  BY <1>1 DEF RedisTypes, ServerOK, Ids
<1>3. stream[msg[w]] \in Entries
  BY <1>2 DEF RedisTypes, Ids
<1> QED
  BY <1>1, <1>2, <1>3 DEF Event, Attempt, Key, Handlers, Entries

\* What raising does to the histories.
DropsOnly(w) ==
  /\ dropped \subseteq dropped'
  /\ dropped' \subseteq dropped \cup {Key(w)}
  /\ dropped' # dropped => pc[w] \in MessagePCs

LEMMA GiveUpDrops ==
  ASSUME NEW w \in Workers, NEW label, NEW error, GiveUp(w, label, error),
         pc[w] \in MessagePCs
  PROVE  DropsOnly(w)
BY DEF GiveUp, DropsOnly

LEMMA RaisedMoves ==
  ASSUME LoopTypes, Advances, faults \in Nat, NEW w \in Workers, Raised(w)
  PROVE  Moves(w) /\ faults' \in Nat /\ DropsOnly(w)
<1>1. faults' \in Nat /\ OnRaise(w)
  BY DEF Raised
<1>2. CASE /\ pc[w] \in HandlerCalls \ {"rescue"}
           /\ GiveUp(w, "rescue", "RedisError")
           /\ UNCHANGED fetched
  BY <1>1, <1>2, GiveUpMoves, GiveUpDrops DEF MessagePCs
<1>3. CASE /\ pc[w] \in {"rescue", "unmatched", "ack"}
           /\ Goto(w, "brokerdlq")
           /\ UNCHANGED <<fetched, dropped>>
  <2>1. msg[w] # 0 /\ hi[w] # 0
    BY <1>3 DEF LoopTypes, WorkerOK, MessagePCs, HandlerCalls, MessageCalls
  <2> QED
    BY <1>1, <1>3, <2>1, GotoMoves DEF PCs, Calls, MessageCalls, DropsOnly
<1>4. CASE /\ pc[w] = "contract"
           /\ Goto(w, "ack")
           /\ UNCHANGED <<fetched, dropped>>
  <2>1. msg[w] # 0 /\ hi[w] # 0
    BY <1>4 DEF LoopTypes, WorkerOK, MessagePCs, MessageCalls
  <2> QED
    BY <1>1, <1>4, <2>1, GotoMoves DEF PCs, Calls, MessageCalls, DropsOnly
<1>5. CASE /\ pc[w] = "autoclaim"
           /\ Goto(w, "pending")
           /\ UNCHANGED <<fetched, dropped>>
  BY <1>1, <1>5, GotoMoves DEF PCs, Calls, IdleCalls, DropsOnly, MessagePCs,
                               HandlerCalls, MessageCalls
<1>6. CASE Die(w) /\ UNCHANGED dropped
  BY <1>1, <1>6, DieMoves DEF DropsOnly
<1> QED
  BY <1>1, <1>2, <1>3, <1>4, <1>5, <1>6 DEF OnRaise

LEMMA OutcomeMoves ==
  ASSUME LoopTypes, Advances, faults \in Nat, NEW w \in Workers,
         NEW ACTION move, Outcome(w, move),
         move /\ UNCHANGED fetched => Moves(w)
  PROVE  Moves(w) /\ faults' \in Nat /\ DropsOnly(w)
BY RaisedMoves DEF Outcome, Returned, DropsOnly

-----------------------------------------------------------------------------
(* Each action of the loop is a command and a move.                        *)

LEMMA GrowsAdvances ==
  ASSUME RedisTypes, RedisTypes', Grows
  PROVE  Advances
BY DEF RedisTypes, Grows, Advances

LEMMA LetterTypes ==
  ASSUME RedisTypes, LoopTypes, NEW w \in Workers, pc[w] \in MessagePCs
  PROVE  /\ \A why \in {"poison", "contract", "unmatched", "broker"} :
              Letter(w, 0, why) \in Letters
         /\ err[w] # "none" => Letter(w, hi[w], err[w]) \in Letters
<1>1. Event(w) \in Events /\ hi[w] \in 0..NumHandlers /\ 0 \in 0..NumHandlers
  BY MessageTypes, RedisAssumption DEF LoopTypes
<1>2. err[w] \in ErrorTypes \cup {"RedisError", "none"}
  BY DEF LoopTypes
<1> QED
  BY <1>1, <1>2 DEF Letter, Letters

\* The batch a worker has left to process.
LEMMA BatchTypes ==
  ASSUME RedisTypes, LoopTypes, Grows, RedisTypes', NEW w \in Workers
  PROVE  batch[w] \subseteq 1..last' /\ batch[w] \subseteq Ids
BY DEF RedisTypes, ServerOK, LoopTypes, WorkerOK, Grows, Ids

LEMMA ClaimedMoves ==
  ASSUME RedisTypes, LoopTypes, Advances, NEW w \in Workers,
         NEW S, S \subseteq pel, Claimed(w, S), UNCHANGED <<fetched, last>>
  PROVE  Moves(w)
<1>1. CASE S = {}
  <2>1. LocalTypes'
    BY <1>1 DEF LoopTypes, LocalTypes, Claimed, PCs, Calls, IdleCalls
  <2>2. WorkerOK(w)'
    BY <1>1 DEF LoopTypes, WorkerOK, Advances, Claimed, MessagePCs,
                HandlerCalls, MessageCalls
  <2> QED
    BY <1>1, <2>1, <2>2 DEF Moves, SameWorker, Claimed, LoopTypes
<1>2. CASE S # {}
  <2>1. S \subseteq 1..last' /\ S \subseteq Ids
    BY DEF RedisTypes, ServerOK, Ids
  <2> QED
    BY <1>2, <2>1, ProcessMoves DEF Claimed
<1> QED
  BY <1>1, <1>2

\* What each action of the loop establishes.
WorkerStep(w) ==
  /\ RedisTypes' /\ Grows /\ Moves(w)
  /\ faults' \in Nat /\ DropsOnly(w)

LEMMA FindWorkStep ==
  ASSUME RedisTypes, LoopTypes, faults \in Nat, NEW w \in Workers, FindWork(w)
  PROVE  WorkerStep(w)
<1>1. CASE AutoClaim(w)
  <2> DEFINE S == FirstOf(ReclaimCount, idle)
  <2>1. XClaim(S) /\ Outcome(w, Claimed(w, S))
    BY <1>1 DEF AutoClaim
  <2>2. S \subseteq pel
    BY DEF FirstOf, RedisTypes, ServerOK
  <2> HIDE DEF S
  <2>3. RedisTypes' /\ Grows /\ Advances /\ UNCHANGED last
    BY <2>1, XClaimTypes, GrowsAdvances DEF XClaim
  <2>4. Claimed(w, S) /\ UNCHANGED fetched => Moves(w)
    BY <2>2, <2>3, ClaimedMoves
  <2> QED
    BY <2>1, <2>3, <2>4, OutcomeMoves DEF WorkerStep
<1>2. CASE NoAutoClaim(w)
  <2>1. RedisTypes' /\ Grows /\ Advances
    BY <1>2, NoCommandTypes, GrowsAdvances DEF NoAutoClaim
  <2>2. Goto(w, "pending") /\ UNCHANGED <<fetched, dropped, faults>>
    BY <1>2 DEF NoAutoClaim, OnRaise, HandlerCalls
  <2>3. Moves(w)
    BY <2>1, <2>2, GotoMoves DEF PCs, Calls, IdleCalls, MessagePCs,
                                 HandlerCalls, MessageCalls
  <2> QED
    BY <2>1, <2>2, <2>3 DEF WorkerStep, DropsOnly
<1>3. CASE ListPending(w)
  <2>1. RedisTypes' /\ Grows /\ Advances
    BY <1>3, NoCommandTypes, GrowsAdvances DEF ListPending
  <2> DEFINE ids == FirstOf(ReclaimCount, pel) \cap idle
  <2>2. ids \subseteq 1..last'
    <3>1. ids \subseteq idle
      OBVIOUS
    <3>2. idle \subseteq 1..last
      BY DEF RedisTypes, ServerOK
    <3>3. 1..last \subseteq 1..last'
      BY <2>1 DEF Advances
    <3> QED
      BY <3>1, <3>2, <3>3
  <2>3. CASE ids = {}
    <3>1. Goto(w, "read") /\ UNCHANGED fetched
      BY <1>3, <2>3 DEF ListPending, Returned
    <3> QED
      BY <2>1, <3>1, GotoMoves, <1>3 DEF PCs, Calls, IdleCalls, MessagePCs,
         HandlerCalls, MessageCalls, WorkerStep, DropsOnly, ListPending, Returned
  <2>4. CASE ids # {}
    <3> HIDE DEF ids
    <3>1. /\ pc' = [pc EXCEPT ![w] = "claim"]
          /\ batch' = [batch EXCEPT ![w] = ids]
          /\ UNCHANGED <<msg, hi, err, fetched, dropped, faults>>
      BY <1>3, <2>4 DEF ListPending, Returned, ids
    <3>2. ids \in SUBSET (Nat \ {0})
      BY <2>1, <2>2 DEF Advances
    <3>3. LocalTypes'
      BY <3>1, <3>2 DEF LoopTypes, LocalTypes, PCs, Calls, IdleCalls
    <3>4. /\ pc'[w] = "claim" /\ batch'[w] = ids
          /\ msg'[w] = msg[w] /\ fetched'[w] = fetched[w]
      BY <3>1 DEF LoopTypes
    <3>6. msg[w] \in 0..last' /\ IsFiniteSet(fetched[w])
      BY <2>1 DEF LoopTypes, WorkerOK, Advances
    <3>7. WorkerOK(w)'
      BY <2>2, <3>4, <3>6 DEF WorkerOK, MessagePCs, HandlerCalls, MessageCalls
    <3>5. Moves(w)
      BY <3>1, <3>3, <3>7 DEF Moves, SameWorker, LoopTypes
    <3> QED
      BY <2>1, <3>1, <3>5 DEF WorkerStep, DropsOnly
  <2> QED
    BY <2>3, <2>4
<1>4. CASE ClaimListed(w)
  <2> DEFINE S == batch[w] \cap idle
  <2>1. XClaim(S) /\ Outcome(w, Claimed(w, S))
    BY <1>4 DEF ClaimListed
  <2>2. S \subseteq pel
    BY DEF RedisTypes, ServerOK
  <2> HIDE DEF S
  <2>3. RedisTypes' /\ Grows /\ Advances /\ UNCHANGED last
    BY <2>1, XClaimTypes, GrowsAdvances DEF XClaim
  <2>4. Claimed(w, S) /\ UNCHANGED fetched => Moves(w)
    BY <2>2, <2>3, ClaimedMoves
  <2> QED
    BY <2>1, <2>3, <2>4, OutcomeMoves DEF WorkerStep
<1>5. CASE ReadNew(w)
  <2> DEFINE left == Len(stream) - last
             n == IF left < BatchSize THEN left ELSE BatchSize
             S == (last + 1)..(last + n)
  <2>1. XReadGroup(n) /\ Outcome(w, Process(w, S))
    BY <1>5 DEF ReadNew
  <2>2. n \in Nat /\ last + n <= Len(stream)
    BY DeliveryAssumption DEF RedisTypes, ServerOK
  <2> HIDE DEF n
  <2>3. RedisTypes' /\ Grows /\ Advances /\ last' = last + n
    BY <2>1, <2>2, XReadGroupTypes, GrowsAdvances DEF XReadGroup
  <2>4. S \subseteq 1..last' /\ S \subseteq Ids
    BY <2>2, <2>3 DEF RedisTypes, Ids, Advances
  <2> HIDE DEF S
  <2>5. Process(w, S) /\ UNCHANGED fetched => Moves(w)
    BY <2>3, <2>4, ProcessMoves
  <2> QED
    BY <2>1, <2>3, <2>5, OutcomeMoves DEF WorkerStep
<1> QED
  BY <1>1, <1>2, <1>3, <1>4, <1>5 DEF FindWork

\* An XACK of the message, then the next one of the batch.
LEMMA AckAndProcessStep ==
  ASSUME RedisTypes, LoopTypes, faults \in Nat, NEW w \in Workers,
         XAck(msg[w]), Outcome(w, Process(w, batch[w]))
  PROVE  WorkerStep(w)
<1>1. RedisTypes' /\ Grows /\ Advances
  BY XAckTypes, GrowsAdvances
<1>2. Process(w, batch[w]) /\ UNCHANGED fetched => Moves(w)
  BY <1>1, BatchTypes, ProcessMoves
<1> QED
  BY <1>1, <1>2, OutcomeMoves DEF WorkerStep

\* A dead letter of the message, then an XACK of it.
LEMMA DeadLetterStep ==
  ASSUME RedisTypes, LoopTypes, faults \in Nat, NEW w \in Workers,
         pc[w] \in MessagePCs,
         NEW why \in {"poison", "contract", "unmatched", "broker"},
         NEW label \in {"ack", "finalack"},
         DlqAdd(Letter(w, 0, why)), Outcome(w, Goto(w, label))
  PROVE  WorkerStep(w)
<1>1. RedisTypes' /\ Grows /\ Advances
  BY DlqAddTypes, LetterTypes, GrowsAdvances
<1>2. msg[w] # 0 /\ hi[w] # 0
  BY DEF LoopTypes, WorkerOK
<1>3. Goto(w, label) /\ UNCHANGED fetched => Moves(w)
  BY <1>1, <1>2, GotoMoves DEF PCs, Calls, MessageCalls
<1> QED
  BY <1>1, <1>3, OutcomeMoves DEF WorkerStep

LEMMA HandleMessageStep ==
  ASSUME RedisTypes, LoopTypes, faults \in Nat, NEW w \in Workers,
         HandleMessage(w)
  PROVE  WorkerStep(w)
<1> USE DEF MessagePCs, HandlerCalls, MessageCalls
<1>1. CASE Drop(w) \/ Ack(w) \/ FinalAck(w)
  BY <1>1, AckAndProcessStep DEF Drop, Ack, FinalAck
<1>2. CASE Poison(w)
  BY <1>2, DeadLetterStep DEF Poison
<1>3. CASE Contract(w)
  BY <1>3, DeadLetterStep DEF Contract
<1>4. CASE Unmatched(w)
  BY <1>4, DeadLetterStep DEF Unmatched
<1>5. CASE BrokerDlq(w)
  BY <1>5, DeadLetterStep DEF BrokerDlq
<1>6. CASE HandlerRaises(w)
  <2>1. RedisTypes' /\ Grows /\ Advances
    BY <1>6, NoCommandTypes, GrowsAdvances DEF HandlerRaises
  <2>2. PICK error \in Raises :
          IF CanRetry(w, error)
          THEN /\ pc' = [pc EXCEPT ![w] = "retry"]
               /\ err' = [err EXCEPT ![w] = error]
               /\ UNCHANGED <<batch, msg, hi, dropped>>
          ELSE GiveUp(w, "dlq", error)
    BY <1>6 DEF HandlerRaises
  <2>3. error \in ErrorTypes
    BY DeliveryAssumption
  <2>4. pc[w] = "run" /\ UNCHANGED <<fetched, faults>>
    BY <1>6 DEF HandlerRaises
  <2>5. CASE CanRetry(w, error)
    <3>1. /\ pc' = [pc EXCEPT ![w] = "retry"]
          /\ err' = [err EXCEPT ![w] = error]
          /\ UNCHANGED <<batch, msg, hi, dropped>>
      BY <2>2, <2>5
    <3>2. LocalTypes'
      BY <2>3, <2>4, <3>1 DEF LoopTypes, LocalTypes, PCs, Calls
    <3>3. /\ pc'[w] = "retry" /\ err'[w] = error /\ batch'[w] = batch[w]
          /\ msg'[w] = msg[w] /\ hi'[w] = hi[w] /\ fetched'[w] = fetched[w]
      BY <2>4, <3>1 DEF LoopTypes
    <3>4. WorkerOK(w)'
      BY <2>1, <2>3, <2>4, <3>3 DEF LoopTypes, WorkerOK, Advances
    <3>5. Moves(w)
      BY <2>4, <3>1, <3>2, <3>4 DEF Moves, SameWorker, LoopTypes
    <3> QED
      BY <2>1, <2>4, <3>1, <3>5 DEF WorkerStep, DropsOnly
  <2>6. CASE ~CanRetry(w, error)
    <3>1. GiveUp(w, "dlq", error)
      BY <2>2, <2>6
    <3>2. Moves(w) /\ DropsOnly(w)
      BY <2>1, <2>3, <2>4, <3>1, GiveUpMoves, GiveUpDrops
    <3> QED
      BY <2>1, <2>4, <3>2 DEF WorkerStep
  <2> QED
    BY <2>5, <2>6
<1>7. CASE ScheduleRetry(w)
  <2>1. pc[w] = "retry" /\ err[w] \in ErrorTypes
    BY <1>7 DEF ScheduleRetry, LoopTypes, WorkerOK
  <2>2. RetryMember(w) \in Members
    BY <2>1, MessageTypes DEF RetryMember, Members
  <2>3. RedisTypes' /\ Grows /\ Advances
    BY <1>7, <2>2, ZAddAndAckTypes, GrowsAdvances DEF ScheduleRetry
  <2>4. NextHandler(w) /\ UNCHANGED fetched => Moves(w)
    BY <2>1, <2>3, NextHandlerMoves
  <2> QED
    BY <1>7, <2>3, <2>4, OutcomeMoves DEF WorkerStep, ScheduleRetry
<1>8. CASE SendDlq(w)
  <2>1. pc[w] \in {"dlq", "rescue"} /\ err[w] # "none"
    BY <1>8 DEF SendDlq, LoopTypes, WorkerOK
  <2>2. RedisTypes' /\ Grows /\ Advances
    BY <1>8, <2>1, LetterTypes, DlqAddTypes, GrowsAdvances DEF SendDlq
  <2>3. NextHandler(w) /\ UNCHANGED fetched => Moves(w)
    BY <2>1, <2>2, NextHandlerMoves
  <2> QED
    BY <1>8, <2>2, <2>3, OutcomeMoves DEF WorkerStep, SendDlq
<1>9. CASE MarkSeen(w)
  <2>1. pc[w] = "mark" /\ Key(w) \in Handlers \X Events
    BY <1>9, MessageTypes DEF MarkSeen
  <2>2. RedisTypes' /\ Grows /\ Advances
    BY <1>9, <2>1, SetKeyTypes, GrowsAdvances DEF MarkSeen
  <2>3. NextHandler(w) /\ UNCHANGED fetched => Moves(w)
    BY <2>1, <2>2, NextHandlerMoves
  <2> QED
    BY <1>9, <2>2, <2>3, OutcomeMoves DEF WorkerStep, MarkSeen
<1> QED
  BY <1>1, <1>2, <1>3, <1>4, <1>5, <1>6, <1>7, <1>8, <1>9 DEF HandleMessage

\* Seen and HandlerReturns change no server state, CallLost none either.
LEMMA QuietStep ==
  ASSUME RedisTypes, LoopTypes, faults \in Nat, NEW w \in Workers,
         Seen(w) \/ HandlerReturns(w) \/ CallLost(w)
  PROVE  WorkerStep(w)
<1>1. RedisTypes' /\ Grows /\ Advances
  BY NoCommandTypes, GrowsAdvances DEF Seen, HandlerReturns, CallLost
<1>2. CASE Seen(w)
  <2>1. pc[w] \in MessagePCs /\ UNCHANGED <<fetched, dropped, faults>>
    BY <1>2 DEF Seen, Returned, MessagePCs, HandlerCalls
  <2>2. CASE NextHandler(w)
    BY <1>1, <2>1, <2>2, NextHandlerMoves DEF WorkerStep, DropsOnly
  <2>3. CASE Goto(w, "run")
    <3>1. msg[w] # 0 /\ hi[w] # 0
      BY <2>1 DEF LoopTypes, WorkerOK
    <3> QED
      BY <1>1, <2>1, <2>3, <3>1, GotoMoves DEF PCs, WorkerStep, DropsOnly
  <2> QED
    BY <1>2, <2>2, <2>3 DEF Seen
<1>3. CASE HandlerReturns(w)
  <2>1. pc[w] = "run" /\ Goto(w, "mark") /\ UNCHANGED <<fetched, dropped, faults>>
    BY <1>3 DEF HandlerReturns, Returned
  <2>2. msg[w] # 0 /\ hi[w] # 0
    BY <2>1 DEF LoopTypes, WorkerOK, MessagePCs
  <2> QED
    BY <1>1, <2>1, <2>2, GotoMoves DEF PCs, Calls, HandlerCalls, WorkerStep, DropsOnly
<1>4. CASE CallLost(w)
  BY <1>1, <1>4, RaisedMoves DEF CallLost, WorkerStep
<1> QED
  BY <1>2, <1>3, <1>4

LEMMA BumpTypes ==
  ASSUME NEW S, NEW count \in [S -> 0..CountCap], NEW x \in S
  PROVE  /\ Bump(count, x) \in [S -> 0..CountCap]
         /\ \A y \in S : count[y] <= Bump(count, x)[y]
         /\ Bump(count, x)[x] > 0
BY DeliveryAssumption DEF Bump

LEMMA LoopStep ==
  ASSUME TypeInv, NEW w \in Workers, Loop(w)
  PROVE  WorkerStep(w) /\ HistoryTypes'
<1> USE DEF HistoryTypes
<1>1. RedisTypes /\ LoopTypes /\ HistoryTypes
  BY Owners
<1>2. WorkerStep(w)
  BY <1>1, FindWorkStep, HandleMessageStep, QuietStep DEF Loop
<1>3. dropped' \subseteq Handlers \X Events
  BY <1>1, <1>2, MessageTypes DEF WorkerStep, DropsOnly
<1>4. /\ runs' \in [Handlers \X Events -> 0..CountCap]
      /\ done' \in [Handlers \X Events -> 0..CountCap]
  <2>1. CASE Seen(w) /\ UNCHANGED <<done, crashes>>
    <3>1. Key(w) \in Handlers \X Events
      BY <1>1, <2>1, MessageTypes DEF Seen, MessagePCs, HandlerCalls
    <3> QED
      BY <1>1, <2>1, <3>1, BumpTypes DEF Seen
  <2>2. CASE HandlerReturns(w) /\ UNCHANGED <<runs, crashes>>
    <3>1. Key(w) \in Handlers \X Events
      BY <1>1, <2>2, MessageTypes DEF HandlerReturns, MessagePCs
    <3> QED
      BY <1>1, <2>2, <3>1, BumpTypes DEF HandlerReturns
  <2>3. CASE UNCHANGED <<runs, done, crashes>>
    BY <1>1, <2>3
  <2> QED
    BY <2>1, <2>2, <2>3 DEF Loop
<1>5. crashes' \in Nat
  BY <1>1 DEF Loop
<1> QED
  BY <1>2, <1>3, <1>4, <1>5 DEF WorkerStep

-----------------------------------------------------------------------------
(* The other actions, and type correctness.                                *)

LEMMA StartStep ==
  ASSUME TypeInv, NEW w \in Workers, Start(w)
  PROVE  RedisTypes' /\ Grows /\ Moves(w) /\ UNCHANGED historyVars
<1>1. RedisTypes /\ LoopTypes
  BY Owners
<1>2. RedisTypes' /\ Grows /\ Advances
  BY <1>1, XGroupCreateTypes, GrowsAdvances DEF Start
<1> QED
  BY <1>1, <1>2, GotoMoves DEF Start, Returned, historyVars, PCs, Calls,
     IdleCalls, MessagePCs, HandlerCalls, MessageCalls

LEMMA PollStep ==
  ASSUME TypeInv, NEW w \in Workers, Poll(w)
  PROVE  RedisTypes' /\ Grows /\ Moves(w) /\ UNCHANGED historyVars
<1>1. RedisTypes /\ LoopTypes
  BY Owners
<1>2. RedisTypes' /\ Grows /\ Advances
  BY <1>1, NoCommandTypes, GrowsAdvances DEF Poll
<1>3. due \in SUBSET Members /\ IsFiniteSet(due)
  BY <1>1, FS_Subset DEF RedisTypes, ServerOK
<1>4. fetched' = [fetched EXCEPT ![w] = due] /\ UNCHANGED localVars
  BY DEF Poll
<1>5. LocalTypes'
  BY <1>1, <1>3, <1>4 DEF LoopTypes, LocalTypes, localVars
<1>6. WorkerOK(w)'
  BY <1>1, <1>2, <1>3, <1>4 DEF LoopTypes, WorkerOK, Advances, localVars
<1> QED
  BY <1>1, <1>2, <1>4, <1>5, <1>6 DEF Moves, SameWorker, LoopTypes, localVars, Poll

LEMMA RequeueStep ==
  ASSUME TypeInv, NEW w \in Workers, Requeue(w)
  PROVE  /\ RedisTypes' /\ Grows /\ Moves(w)
         /\ UNCHANGED historyVars
         /\ \A m \in fetched[w] : \E id \in 1..Len(stream') :
              id > Len(stream) /\ stream'[id].event = m.event
<1>1. RedisTypes /\ LoopTypes /\ faults \in Nat
  BY Owners DEF HistoryTypes
<1>2. fetched[w] \in SUBSET Members /\ IsFiniteSet(fetched[w])
  BY <1>1 DEF LoopTypes, WorkerOK
<1>3. PICK s \in Orders(fetched[w]) : AddAndZRem(s)
  BY DEF Requeue
<1>4. /\ RedisTypes' /\ Grows
      /\ \A m \in fetched[w] : \E id \in 1..Len(stream') :
           id > Len(stream) /\ stream'[id].event = m.event
  BY <1>1, <1>2, <1>3, AddAndZRemTypes
<1>5. Advances
  BY <1>1, <1>4, GrowsAdvances
<1>6. fetched' = [fetched EXCEPT ![w] = {}] /\ UNCHANGED <<localVars, historyVars>>
  BY DEF Requeue
<1>7. Moves(w)
  <2>1. LocalTypes'
    BY <1>1, <1>6 DEF LoopTypes, LocalTypes, localVars
  <2>2. WorkerOK(w)'
    BY <1>1, <1>5, <1>6, FS_EmptySet DEF LoopTypes, WorkerOK, Advances, localVars
  <2> QED
    BY <1>1, <1>6, <2>1, <2>2 DEF Moves, SameWorker, LoopTypes, localVars
<1> QED
  BY <1>4, <1>6, <1>7

LEMMA StopStep ==
  ASSUME TypeInv, NEW w \in Workers, SchedulerFails(w) \/ Crash(w)
  PROVE  /\ RedisTypes' /\ Grows /\ Moves(w) /\ Die(w)
         /\ UNCHANGED <<runs, done, dropped>> /\ crashes' \in Nat /\ faults' \in Nat
<1>1. RedisTypes /\ LoopTypes /\ HistoryTypes
  BY Owners
<1>2. RedisTypes' /\ Grows /\ Advances
  BY <1>1, NoCommandTypes, XAckTypes, GrowsAdvances DEF SchedulerFails, Crash
<1>3. Moves(w)
  BY <1>1, <1>2, DieMoves DEF SchedulerFails, Crash
<1> QED
  BY <1>1, <1>2, <1>3 DEF SchedulerFails, Crash, HistoryTypes

LEMMA EnvironmentStep ==
  ASSUME TypeInv,
         (\E e \in Events : Publish(e)) \/ Tick \/ UNCHANGED vars
  PROVE  RedisTypes' /\ Grows /\ UNCHANGED <<localVars, fetched, historyVars>>
<1>1. RedisTypes
  BY Owners
<1>2. ASSUME NEW e \in Events, Publish(e)
      PROVE  RedisTypes' /\ Grows /\ UNCHANGED <<localVars, fetched, historyVars>>
  <2>1. [event |-> e, attempt |-> 1] \in Entries
    BY DEF Entries
  <2> QED
    BY <1>1, <1>2, <2>1, XAddTypes DEF Publish
<1>3. CASE Tick
  BY <1>1, <1>3, TimeTypes DEF Tick, Idles, FallsDue, Expires
<1>4. CASE UNCHANGED vars
  BY <1>1, <1>4, NoCommandTypes DEF vars
<1> QED
  BY <1>2, <1>3, <1>4

\* A worker's step keeps TypeInv.
LEMMA WorkerTypeStep ==
  ASSUME TypeInv, NEW w \in Workers, RedisTypes', Grows, Moves(w), HistoryTypes'
  PROVE  TypeInv'
<1>1. RedisTypes /\ LoopTypes
  BY Owners
<1>2. LoopTypes'
  BY <1>1, GrowsAdvances, MovesTypes
<1>3. (TypeInv <=> RedisTypes /\ LoopTypes /\ HistoryTypes)'
  BY Owners, PTL
<1> QED
  BY <1>2, <1>3

LEMMA TypeStep ==
  ASSUME TypeInv, [Next]_vars
  PROVE  TypeInv' /\ Grows
<1>1. RedisTypes /\ LoopTypes /\ HistoryTypes
  BY Owners
<1>2. ASSUME NEW w \in Workers, Start(w)
      PROVE  TypeInv' /\ Grows
  BY <1>1, <1>2, StartStep, WorkerTypeStep DEF HistoryTypes, historyVars
<1>3. ASSUME NEW w \in Workers, Loop(w)
      PROVE  TypeInv' /\ Grows
  BY <1>3, LoopStep, WorkerTypeStep DEF WorkerStep
<1>4. ASSUME NEW w \in Workers, Poll(w)
      PROVE  TypeInv' /\ Grows
  BY <1>1, <1>4, PollStep, WorkerTypeStep DEF HistoryTypes, historyVars
<1>5. ASSUME NEW w \in Workers, Requeue(w)
      PROVE  TypeInv' /\ Grows
  BY <1>1, <1>5, RequeueStep, WorkerTypeStep DEF HistoryTypes, historyVars
<1>6. ASSUME NEW w \in Workers, SchedulerFails(w) \/ Crash(w)
      PROVE  TypeInv' /\ Grows
  BY <1>1, <1>6, StopStep, WorkerTypeStep DEF HistoryTypes
<1>7. CASE (\E e \in Events : Publish(e)) \/ Tick \/ UNCHANGED vars
  <2>1. RedisTypes' /\ Grows /\ UNCHANGED <<localVars, fetched, historyVars>>
    BY <1>7, EnvironmentStep
  <2>2. LocalTypes'
    BY <1>1, <2>1 DEF LoopTypes, LocalTypes, localVars
  <2>3. \A w \in Workers : WorkerOK(w)'
    BY <1>1, <2>1 DEF LoopTypes, WorkerOK, localVars, Grows, RedisTypes
  <2>4. LoopTypes' /\ HistoryTypes'
    BY <1>1, <2>1, <2>2, <2>3 DEF LoopTypes, LocalTypes, HistoryTypes, historyVars
  <2>5. (TypeInv <=> RedisTypes /\ LoopTypes /\ HistoryTypes)'
    BY Owners, PTL
  <2> QED
    BY <2>1, <2>4, <2>5
<1> QED
  BY <1>2, <1>3, <1>4, <1>5, <1>6, <1>7 DEF Next, Scheduler

LEMMA TypeInit == Init => TypeInv
<1> SUFFICES ASSUME Init PROVE TypeInv
  OBVIOUS
<1>1. RedisTypes
  <2>1. stream \in Seq(Entries) /\ Len(stream) = 0
    BY DEF Init, RedisInit
  <2>2. ServerOK
    BY <2>1, FS_EmptySet DEF Init, RedisInit, ServerOK
  <2> QED
    BY <2>1, <2>2 DEF Init, RedisInit, RedisTypes
<1>2. LoopTypes
  BY RedisAssumption, FS_EmptySet DEF Init, RedisInit, LoopTypes, WorkerOK, PCs,
     MessagePCs, HandlerCalls, MessageCalls
<1>3. HistoryTypes
  BY DeliveryAssumption DEF Init, HistoryTypes
<1> QED
  BY <1>1, <1>2, <1>3, Owners

\* The variables keep the types the code gives them, and what each worker
\* holds fits the point of run_consumer, _process_one and _handle_message it
\* has reached: among others, every id it holds was delivered, the loop over
\* the handlers stays within them, a retry always has an exception to report.
THEOREM TypeCorrect == Spec => []TypeInv
<1>1. Init => TypeInv
  BY TypeInit
<1>2. TypeInv /\ [Next]_vars => TypeInv'
  BY TypeStep
<1> QED
  BY <1>1, <1>2, PTL DEF Spec

THEOREM TypeOKHolds == Spec => []TypeOK
<1>1. TypeInv => TypeOK
  BY DEF TypeInv
<1> QED
  BY <1>1, TypeCorrect, PTL

-----------------------------------------------------------------------------
(* No loss.  First, what each command does to the tokens of an event: it   *)
(* may end an event's being live only where the lemma says so.             *)

KeepsLive(e) == Accepted(e)' => Live(e)' \/ (Accepted(e) /\ ~Live(e))

\* Commands that touch neither the stream, nor what is pending, nor the ZSET.
LEMMA OthersKeep ==
  ASSUME NEW e, UNCHANGED <<stream, group, origin, last, pel, retryz>>
  PROVE  KeepsLive(e)
BY DEF KeepsLive, Accepted, Live, Ids

LEMMA XGroupCreateKeeps ==
  ASSUME RedisTypes, XGroupCreate, NEW e
  PROVE  KeepsLive(e)
<1>1. CASE group
  BY <1>1, OthersKeep DEF XGroupCreate, RedisTypes
<1>2. CASE ~group
  BY <1>2 DEF XGroupCreate, KeepsLive, Accepted, Ids
<1> QED
  BY <1>1, <1>2

LEMMA XAddKeeps ==
  ASSUME RedisTypes, NEW entry \in Entries, XAdd(entry), NEW e
  PROVE  KeepsLive(e)
<1> USE DEF Ids
<1>1. /\ Len(stream) \in Nat /\ Len(stream') = Len(stream) + 1
      /\ \A id \in Ids : stream'[id] = stream[id]
      /\ UNCHANGED <<group, origin, last, pel, retryz>>
      /\ last \in Nat /\ last <= Len(stream) /\ pel \subseteq 1..last
  BY DEF RedisTypes, ServerOK, XAdd
<1>2. SUFFICES ASSUME Accepted(e)', ~Live(e)'
               PROVE  Accepted(e) /\ ~Live(e)
  BY DEF KeepsLive
<1>3. PICK id \in 1..Len(stream') : id > origin /\ stream'[id].event = e
  BY <1>1, <1>2 DEF Accepted
<1>4. id <= Len(stream)
  BY <1>1, <1>2, <1>3 DEF Live
<1>5. Accepted(e)
  BY <1>1, <1>2, <1>3, <1>4 DEF Accepted
<1>6. ~Live(e)
  BY <1>1, <1>2 DEF Live
<1> QED
  BY <1>5, <1>6

LEMMA XReadGroupKeeps ==
  ASSUME RedisTypes, NEW n \in Nat, XReadGroup(n), NEW e
  PROVE  KeepsLive(e)
<1>1. \A id \in Ids : id > last => id > last' \/ id \in pel'
  BY DEF XReadGroup, RedisTypes, Ids
<1>2. pel \subseteq pel' /\ UNCHANGED <<stream, group, origin, retryz>>
  BY DEF XReadGroup
<1>3. Live(e) => Live(e)'
  BY <1>1, <1>2 DEF Live, Ids
<1> QED
  BY <1>2, <1>3 DEF KeepsLive, Accepted, Ids

\* XACK ends an event's being live only for the event of the entry it names.
LEMMA XAckKeeps ==
  ASSUME RedisTypes, NEW id, XAck(id), NEW e,
         id \notin pel \/ stream[id].event # e
  PROVE  KeepsLive(e)
<1>1. UNCHANGED <<stream, group, origin, last, retryz>> /\ pel' = pel \ {id}
  BY DEF XAck
<1>2. Live(e) => Live(e)'
  BY <1>1 DEF Live, Ids
<1> QED
  BY <1>1, <1>2 DEF KeepsLive, Accepted, Ids

\* schedule_retry acknowledges one token of an event and adds another.
LEMMA ZAddAndAckKeeps ==
  ASSUME RedisTypes, NEW m, NEW id, stream[id].event = m.event,
         ZAddAndAck(m, id), NEW e
  PROVE  KeepsLive(e)
<1>1. /\ UNCHANGED <<stream, group, origin, last>>
      /\ pel' = pel \ {id} /\ retryz' = retryz \cup {m}
  BY DEF ZAddAndAck
<1>2. Live(e) => Live(e)'
  BY <1>1 DEF Live, Ids
<1> QED
  BY <1>1, <1>2 DEF KeepsLive, Accepted, Ids

\* The scheduler removes members and adds an entry for each of them.
LEMMA AddAndZRemKeeps ==
  ASSUME RedisTypes, NEW S \in SUBSET Members, IsFiniteSet(S),
         NEW s \in Orders(S), AddAndZRem(s), NEW e
  PROVE  KeepsLive(e)
<1> USE DEF Ids
<1>1. /\ Grows /\ RedisTypes'
      /\ \A m \in S : \E id \in 1..Len(stream') :
           id > Len(stream) /\ stream'[id].event = m.event
  BY AddAndZRemTypes
<1>2. s \in [1..Len(s) -> S]
  BY OrdersAreSequences
<1>3. /\ UNCHANGED <<group, origin, last, pel>>
      /\ \A m \in retryz : m \in retryz' \/ m \in S
  BY <1>2 DEF AddAndZRem
<1>4. /\ Len(stream) \in Nat /\ Len(stream') \in Nat
      /\ Len(stream) <= Len(stream')
      /\ \A id \in Ids : stream'[id] = stream[id]
      /\ last \in Nat /\ last <= Len(stream) /\ pel \subseteq 1..last
  BY <1>1 DEF RedisTypes, ServerOK, Grows
<1>5. SUFFICES ASSUME Accepted(e)', ~Live(e)'
               PROVE  Accepted(e) /\ ~Live(e)
  BY DEF KeepsLive
<1>6. PICK id \in 1..Len(stream') : id > origin /\ stream'[id].event = e
  BY <1>3, <1>5 DEF Accepted
<1>7. id <= Len(stream)
  BY <1>3, <1>4, <1>5, <1>6 DEF Live
<1>8. Accepted(e)
  BY <1>3, <1>4, <1>5, <1>6, <1>7 DEF Accepted
<1>9. \A m \in retryz : m.event # e
  BY <1>1, <1>3, <1>4, <1>5 DEF Live
<1>10. ~Live(e)
  BY <1>3, <1>4, <1>5, <1>9 DEF Live
<1> QED
  BY <1>8, <1>10

-----------------------------------------------------------------------------
(* What is over stays over.                                                *)

HistoryGrows ==
  /\ dlq \subseteq dlq' /\ dropped \subseteq dropped'
  /\ \A x \in Handlers \X Events : done[x] > 0 => done'[x] > 0

LEMMA SettledStays ==
  ASSUME HistoryGrows, NEW h \in Handlers, NEW e \in Events, Settled(h, e)
  PROVE  Settled(h, e)'
BY DEF HistoryGrows, Settled

\* Whatever the server does, the message of a worker that keeps it stands for
\* the same event, and does not become pending again.
LEMMA MessageStays ==
  ASSUME RedisTypes, LoopTypes, Grows, NEW v \in Workers,
         pc[v] \in MessagePCs, msg'[v] = msg[v]
  PROVE  /\ Event(v)' = Event(v)
         /\ msg[v] \notin pel => msg'[v] \notin pel'
<1>1. msg[v] \in Ids /\ msg[v] \in 1..last
  BY MessageTypes
<1>2. stream'[msg'[v]] = stream[msg[v]]
  BY <1>1 DEF Grows
<1>3. Event(v)' = Event(v)
  BY <1>2 DEF Event
<1>4. ~(msg[v] > last)
  BY <1>1 DEF RedisTypes
<1> QED
  BY <1>3, <1>4 DEF Grows

LEMMA OverStays ==
  ASSUME RedisTypes, LoopTypes, Grows, HistoryGrows, NEW v \in Workers,
         pc[v] \in MessagePCs, msg'[v] = msg[v], NEW h \in Handlers, Over(h, v)
  PROVE  Over(h, v)'
<1>1. /\ Event(v)' = Event(v) /\ Event(v) \in Events
      /\ msg[v] \notin pel => msg'[v] \notin pel'
  BY MessageStays, MessageTypes
<1>2. Settled(h, Event(v)) => Settled(h, Event(v))'
  <2>1. \A e \in Events : Settled(h, e) => Settled(h, e)'
    BY SettledStays
  <2> QED
    BY <1>1, <2>1 DEF Settled
<1> QED
  BY <1>1, <1>2 DEF Over

LEMMA SameWorkerProgress ==
  ASSUME RedisTypes, LoopTypes, Grows, HistoryGrows, NEW v \in Workers,
         Progress(v), pc'[v] = pc[v], msg'[v] = msg[v], hi'[v] = hi[v]
  PROVE  Progress(v)'
<1>1. /\ pc'[v] = pc[v] /\ msg'[v] = msg[v] /\ hi'[v] = hi[v]
  OBVIOUS
<1>2. CASE pc[v] \in MessagePCs
  <2>1. Event(v)' = Event(v)
    BY <1>1, <1>2, MessageStays
  <2>2. \A h \in Handlers : Over(h, v) => Over(h, v)'
    BY <1>1, <1>2, OverStays
  <2>3. Key(v)' = Key(v) /\ Key(v) \in Handlers \X Events
    BY <1>1, <1>2, <2>1, MessageTypes DEF Key
  <2>4. done[Key(v)] > 0 => done'[Key(v)'] > 0
    BY <2>3 DEF HistoryGrows
  <2> QED
    BY <1>1, <2>1, <2>2, <2>4 DEF Progress
<1>3. CASE pc[v] \notin MessagePCs
  BY <1>1, <1>3 DEF Progress, MessagePCs, HandlerCalls, MessageCalls
<1> QED
  BY <1>2, <1>3

-----------------------------------------------------------------------------
(* How far each move of a worker has brought it.                           *)

LEMMA DownProgress ==
  ASSUME NEW w \in Workers,
         pc'[w] \in {"down", "autoclaim", "pending", "claim", "read", "poison",
                     "contract", "unmatched", "brokerdlq"}
  PROVE  Progress(w)'
BY DEF Progress, HandlerCalls

LEMMA ProcessProgress ==
  ASSUME RedisTypes, LoopTypes, Grows, NEW w \in Workers,
         NEW S, S \subseteq Ids, Process(w, S)
  PROVE  Progress(w)'
<1>1. CASE S = {}
  <2>1. pc'[w] = "autoclaim"
    BY <1>1 DEF Process, LoopTypes
  <2> QED
    BY <2>1, DownProgress
<1>2. CASE S # {}
  <2>1. PICK id \in S : /\ pc'[w] = EntryPC(id) /\ msg'[w] = id /\ hi'[w] = 1
    BY <1>2 DEF Process, LoopTypes
  <2>2. Event(w)' = stream[id].event
    BY <2>1 DEF Event, Grows
  <2>3. CASE pc'[w] = "drop"
    <3>1. Kind[stream[id].event] = "empty"
      <4>1. stream[id] \in Entries
        BY DEF RedisTypes, Ids
      <4>2. Kind[stream[id].event] \in {"event", "undecodable", "unmatched", "empty"}
        BY <4>1, DeliveryAssumption DEF Entries
      <4> QED
        BY <2>1, <2>3, <4>2, HandlerPCType DEF EntryPC
    <3> QED
      BY <2>2, <2>3, <3>1 DEF Progress, HandlerCalls
  <2>4. CASE pc'[w] = "seen"
    BY <2>1, <2>4 DEF Progress, HandlerCalls, Handlers
  <2> QED
    BY <2>1, <2>3, <2>4, EntryPCType, DownProgress
<1> QED
  BY <1>1, <1>2

LEMMA NextHandlerProgress ==
  ASSUME LoopTypes, NEW w \in Workers, NextHandler(w), pc[w] \in MessagePCs,
         \A h \in Handlers : h <= hi[w] => Over(h, w)'
  PROVE  Progress(w)'
<1>1. hi[w] \in 0..NumHandlers /\ NumHandlers \in Nat
  BY RedisAssumption DEF LoopTypes
<1>2. CASE hi[w] < NumHandlers
  <2>1. pc'[w] \in {"brokerdlq", "seen"} /\ hi'[w] = hi[w] + 1
    BY <1>2, HandlerPCType DEF NextHandler, LoopTypes
  <2>2. \A h \in Handlers : h < hi'[w] => Over(h, w)'
    BY <1>1, <2>1 DEF Handlers
  <2> QED
    BY <2>1, <2>2 DEF Progress, HandlerCalls
<1>3. CASE ~(hi[w] < NumHandlers)
  <2>1. pc'[w] = "ack"
    BY <1>3 DEF NextHandler, LoopTypes
  <2>2. \A h \in Handlers : Over(h, w)'
    BY <1>1, <1>3 DEF Handlers
  <2> QED
    BY <2>1, <2>2 DEF Progress, HandlerCalls
<1> QED
  BY <1>2, <1>3

\* A handler is done with the message, and so were those before it.
LEMMA HandlerOver ==
  ASSUME RedisTypes, LoopTypes, Grows, HistoryGrows, NEW w \in Workers,
         pc[w] \in HandlerCalls \cup {"run"}, Progress(w), NextHandler(w),
         NEW current \in Handlers, current = hi[w], Over(current, w)'
  PROVE  Progress(w)'
<1>1. pc[w] \in MessagePCs /\ msg'[w] = msg[w]
  BY DEF MessagePCs, NextHandler
<1>2. \A h \in Handlers : h < hi[w] => Over(h, w)'
  BY <1>1, OverStays DEF Progress
<1>3. \A h \in Handlers : h <= hi[w] => Over(h, w)'
  <2>1. hi[w] \in 0..NumHandlers
    BY DEF LoopTypes
  <2>2. \A h \in Handlers : h <= hi[w] => h < hi[w] \/ h = current
    BY <2>1 DEF Handlers
  <2> QED
    BY <1>2, <2>2
<1> QED
  BY <1>1, <1>3, NextHandlerProgress

LEMMA GiveUpProgress ==
  ASSUME RedisTypes, LoopTypes, Grows, HistoryGrows, NEW w \in Workers,
         pc[w] \in HandlerCalls \cup {"run"}, Progress(w),
         NEW label \in {"dlq", "rescue"}, NEW error, GiveUp(w, label, error)
  PROVE  Progress(w)'
<1>1. CASE hi[w] \in Dlq
  <2>1. pc'[w] = label /\ msg'[w] = msg[w] /\ hi'[w] = hi[w]
    BY <1>1 DEF GiveUp, LoopTypes
  <2>2. \A h \in Handlers : h < hi[w] => Over(h, w)'
    BY <2>1, OverStays DEF Progress, MessagePCs
  <2> QED
    BY <2>1, <2>2 DEF Progress, HandlerCalls
<1>2. CASE hi[w] \notin Dlq
  <2>1. Key(w) \in dropped' /\ NextHandler(w) /\ msg'[w] = msg[w]
    BY <1>2 DEF GiveUp, NextHandler
  <2>2. Event(w)' = Event(w)
    BY <2>1, MessageStays DEF MessagePCs
  <2>3. PICK current \in Handlers : current = hi[w]
    BY MessageTypes DEF MessagePCs
  <2>4. Over(current, w)'
    BY <2>1, <2>2, <2>3 DEF Over, Settled, Key
  <2> QED
    BY <2>1, <2>3, <2>4, HandlerOver
<1> QED
  BY <1>1, <1>2

\* The one swallowed failure is the dead letter of an undecodable message.
LEMMA RaisedProgress ==
  ASSUME "contract" \notin FaultCalls,
         RedisTypes, LoopTypes, Grows, HistoryGrows, NEW w \in Workers,
         Progress(w), Raised(w)
  PROVE  Progress(w)'
<1>1. pc[w] # "contract" /\ OnRaise(w)
  BY DEF Raised
<1>2. CASE pc[w] \in HandlerCalls \ {"rescue"} /\ GiveUp(w, "rescue", "RedisError")
  BY <1>2, GiveUpProgress
<1>3. CASE Goto(w, "brokerdlq")
  BY <1>3, DownProgress DEF Goto, LoopTypes
<1>4. CASE Goto(w, "pending")
  BY <1>4, DownProgress DEF Goto, LoopTypes
<1>5. CASE Die(w)
  BY <1>5, DownProgress DEF Die, LoopTypes
<1> QED
  BY <1>1, <1>2, <1>3, <1>4, <1>5 DEF OnRaise

LEMMA OutcomeProgress ==
  ASSUME "contract" \notin FaultCalls,
         RedisTypes, LoopTypes, Grows, HistoryGrows, NEW w \in Workers,
         Progress(w), NEW ACTION move, Outcome(w, move),
         move => Progress(w)'
  PROVE  Progress(w)'
BY RaisedProgress DEF Outcome

-----------------------------------------------------------------------------
(* Each action of the loop keeps the promise to every event.               *)

KeepsPromise ==
  \A e \in Events : KeepsLive(e) \/ Accounted(e)

LEMMA NoLossKept ==
  ASSUME HistoryGrows, NoLoss, KeepsPromise
  PROVE  NoLoss'
<1>1. \A e \in Events : Accounted(e) => Accounted(e)'
  BY SettledStays DEF Accounted
<1> QED
  BY <1>1 DEF NoLoss, KeepsPromise, KeepsLive

LEMMA KeysStayEarned ==
  ASSUME RedisTypes, HistoryGrows, KeysEarned, keys' \subseteq keys
  PROVE  KeysEarned'
<1>1. \A key \in keys : key \in Handlers \X Events
  BY DEF RedisTypes
<1> QED
  BY <1>1 DEF KeysEarned, HistoryGrows

SafeStep(w) == Progress(w)' /\ KeepsPromise /\ KeysEarned'

\* What is known when worker w takes a step of its loop.
Stepping(w) ==
  /\ "contract" \notin FaultCalls
  /\ RedisTypes /\ LoopTypes /\ Grows /\ HistoryGrows
  /\ Progress(w) /\ KeysEarned

LEMMA DeliveredIds ==
  ASSUME RedisTypes
  PROVE  1..last \subseteq Ids /\ pel \subseteq Ids /\ idle \subseteq Ids
<1>1. 1..last \subseteq Ids
  BY DEF RedisTypes, ServerOK, Ids
<1>2. pel \subseteq 1..last /\ idle \subseteq pel
  BY DEF RedisTypes, ServerOK
<1> QED
  BY <1>1, <1>2

LEMMA FindWorkSafe ==
  ASSUME NEW w \in Workers, Stepping(w), FindWork(w)
  PROVE  SafeStep(w)
<1> USE DEF Stepping
<1> DEFINE Kept == UNCHANGED <<stream, group, origin, last, pel, retryz, keys>>
<1>1. ASSUME Kept PROVE KeepsPromise /\ KeysEarned'
  BY <1>1, OthersKeep, KeysStayEarned DEF KeepsPromise
<1>2. ASSUME NEW S, S \subseteq Ids, Claimed(w, S)
      PROVE  Progress(w)'
  <2>1. CASE S = {}
    BY <1>2, <2>1, DownProgress DEF Claimed, LoopTypes
  <2>2. CASE S # {}
    BY <1>2, <2>2, ProcessProgress DEF Claimed
  <2> QED
    BY <2>1, <2>2
<1>3. CASE AutoClaim(w)
  <2> DEFINE S == FirstOf(ReclaimCount, idle)
  <2>1. XClaim(S) /\ Outcome(w, Claimed(w, S))
    BY <1>3 DEF AutoClaim
  <2>2. S \subseteq Ids
    BY DeliveredIds DEF FirstOf
  <2> HIDE DEF S
  <2>3. Kept
    BY <2>1 DEF XClaim
  <2>4. Progress(w)'
    BY <1>2, <2>1, <2>2, OutcomeProgress
  <2> QED
    BY <1>1, <2>3, <2>4 DEF SafeStep
<1>4. CASE NoAutoClaim(w)
  <2>1. Kept
    BY <1>4 DEF NoAutoClaim, redisVars
  <2>2. pc'[w] = "pending"
    BY <1>4 DEF NoAutoClaim, OnRaise, HandlerCalls, Goto, LoopTypes
  <2> QED
    BY <1>1, <2>1, <2>2, DownProgress DEF SafeStep
<1>5. CASE ListPending(w)
  <2>1. Kept
    BY <1>5 DEF ListPending, redisVars
  <2>2. pc'[w] \in {"read", "claim"}
    BY <1>5 DEF ListPending, Goto, LoopTypes
  <2> QED
    BY <1>1, <2>1, <2>2, DownProgress DEF SafeStep
<1>6. CASE ClaimListed(w)
  <2> DEFINE S == batch[w] \cap idle
  <2>1. XClaim(S) /\ Outcome(w, Claimed(w, S))
    BY <1>6 DEF ClaimListed
  <2>2. S \subseteq Ids
    BY DeliveredIds
  <2> HIDE DEF S
  <2>3. Kept
    BY <2>1 DEF XClaim
  <2>4. Progress(w)'
    BY <1>2, <2>1, <2>2, OutcomeProgress
  <2> QED
    BY <1>1, <2>3, <2>4 DEF SafeStep
<1>7. CASE ReadNew(w)
  <2> DEFINE left == Len(stream) - last
             n == IF left < BatchSize THEN left ELSE BatchSize
             S == (last + 1)..(last + n)
  <2>1. XReadGroup(n) /\ Outcome(w, Process(w, S))
    BY <1>7 DEF ReadNew
  <2>2. n \in Nat /\ last + n <= Len(stream)
    BY DeliveryAssumption DEF RedisTypes, ServerOK
  <2>3. S \subseteq Ids
    BY <2>2 DEF RedisTypes, Ids
  <2> HIDE DEF S, n
  <2>4. KeepsPromise
    BY <2>1, <2>2, XReadGroupKeeps DEF KeepsPromise
  <2>5. KeysEarned'
    BY <2>1, KeysStayEarned DEF XReadGroup
  <2>6. Process(w, S) => Progress(w)'
    BY <2>3, ProcessProgress
  <2>7. Progress(w)'
    BY <2>1, <2>6, OutcomeProgress
  <2> QED
    BY <2>4, <2>5, <2>7 DEF SafeStep
<1> QED
  BY <1>3, <1>4, <1>5, <1>6, <1>7 DEF FindWork

\* The XACK of a message whose event is accounted for.
LEMMA AckSafe ==
  ASSUME NEW w \in Workers, Stepping(w), pc[w] \in {"drop", "ack", "finalack"},
         XAck(msg[w]), Outcome(w, Process(w, batch[w]))
  PROVE  SafeStep(w)
<1> USE DEF Stepping
<1>1. Event(w) \in Events /\ Event(w) = stream[msg[w]].event
  BY MessageTypes DEF Event, MessagePCs, MessageCalls
<1>2. msg[w] \in pel => Accounted(Event(w))
  BY DEF Progress, Over, Accounted
<1>3. KeepsPromise
  BY <1>1, <1>2, XAckKeeps DEF KeepsPromise
<1>4. KeysEarned'
  BY KeysStayEarned DEF XAck
<1>5. batch[w] \subseteq Ids
  BY DEF RedisTypes, ServerOK, LoopTypes, WorkerOK, Ids
<1>6. Process(w, batch[w]) => Progress(w)'
  BY <1>5, ProcessProgress
<1>7. Progress(w)'
  BY <1>6, OutcomeProgress
<1> QED
  BY <1>3, <1>4, <1>7 DEF SafeStep

\* A dead letter not of one handler accounts for the event.
LEMMA DeadLetterSafe ==
  ASSUME NEW w \in Workers, Stepping(w), pc[w] \in MessagePCs,
         NEW why, NEW label \in {"ack", "finalack"},
         DlqAdd(Letter(w, 0, why)), Outcome(w, Goto(w, label))
  PROVE  SafeStep(w)
<1> USE DEF Stepping
<1>1. KeepsPromise
  BY OthersKeep DEF KeepsPromise, DlqAdd
<1>2. KeysEarned'
  BY KeysStayEarned DEF DlqAdd
<1>3. ASSUME Goto(w, label) PROVE Progress(w)'
  <2>1. pc'[w] = label /\ msg'[w] = msg[w]
    BY <1>3 DEF Goto, LoopTypes
  <2>2. Event(w)' = Event(w)
    BY <2>1, MessageStays
  <2>3. Letter(w, 0, why) \in dlq'
    BY DEF DlqAdd
  <2>4. Letter(w, 0, why).event = Event(w) /\ Letter(w, 0, why).handler = 0
    BY DEF Letter
  <2>5. PICK letter \in dlq' : letter.event = Event(w) /\ letter.handler = 0
    BY <2>3, <2>4
  <2>6. \A h \in Handlers : Settled(h, Event(w))'
    BY <2>2, <2>5 DEF Settled
  <2> QED
    BY <2>1, <2>6 DEF Progress, Over, HandlerCalls
<1>4. Progress(w)'
  BY <1>3, OutcomeProgress
<1> QED
  BY <1>1, <1>2, <1>4 DEF SafeStep

\* The handlers' outcomes: each either leaves the handler over, or goes on to
\* deal with its exception.
LEMMA HandlerSafe ==
  ASSUME NEW w \in Workers, Stepping(w),
         done \in [Handlers \X Events -> 0..CountCap],
         \/ HandlerRaises(w) \/ ScheduleRetry(w) \/ SendDlq(w) \/ MarkSeen(w)
         \/ Seen(w) \/ (HandlerReturns(w) /\ done' = Bump(done, Key(w)))
  PROVE  SafeStep(w)
<1> USE DEF Stepping
<1> DEFINE Kept == UNCHANGED <<stream, group, origin, last, pel, retryz, keys>>
<1>1. ASSUME Kept PROVE KeepsPromise /\ KeysEarned'
  BY <1>1, OthersKeep, KeysStayEarned DEF KeepsPromise
<1>2. pc[w] \in HandlerCalls \cup {"run"} /\ pc[w] \in MessagePCs
  BY DEF HandlerRaises, ScheduleRetry, SendDlq, MarkSeen, Seen, HandlerReturns,
         HandlerCalls, MessagePCs
<1>3. PICK current \in Handlers : current = hi[w]
  BY <1>2, MessageTypes
<1>4. Event(w) \in Events /\ Key(w) = <<current, Event(w)>>
  BY <1>2, <1>3, MessageTypes DEF Key
\* The handler is settled after the step: on to the next one.
<1>5. ASSUME Settled(current, Event(w))', NextHandler(w)
      PROVE  Progress(w)'
  <2>1. msg'[w] = msg[w]
    BY <1>5 DEF NextHandler
  <2>2. Event(w)' = Event(w)
    BY <1>2, <2>1, MessageStays
  <2>3. Over(current, w)'
    BY <1>5, <2>2 DEF Over
  <2> QED
    BY <1>2, <1>3, <1>5, <2>3, HandlerOver
\* The worker goes on with the same handler.
<1>6. ASSUME NEW label \in {"run", "mark", "retry"}, pc'[w] = label,
             msg'[w] = msg[w], hi'[w] = hi[w],
             label = "mark" => done'[Key(w)] > 0
      PROVE  Progress(w)'
  <2>1. \A h \in Handlers : h < hi[w] => Over(h, w)'
    BY <1>2, <1>6, OverStays DEF Progress
  <2>2. Key(w)' = Key(w)
    BY <1>2, <1>6, MessageStays DEF Key
  <2> QED
    BY <1>6, <2>1, <2>2 DEF Progress, HandlerCalls
<1>7. CASE HandlerRaises(w)
  <2>1. Kept
    BY <1>7 DEF HandlerRaises, redisVars
  <2>2. PICK error \in Raises :
          IF CanRetry(w, error)
          THEN /\ pc' = [pc EXCEPT ![w] = "retry"]
               /\ err' = [err EXCEPT ![w] = error]
               /\ UNCHANGED <<batch, msg, hi, dropped>>
          ELSE GiveUp(w, "dlq", error)
    BY <1>7 DEF HandlerRaises
  <2>3. CASE CanRetry(w, error)
    <3>1. pc'[w] = "retry" /\ msg'[w] = msg[w] /\ hi'[w] = hi[w]
      BY <2>2, <2>3 DEF LoopTypes
    <3> QED
      BY <1>1, <1>6, <2>1, <3>1 DEF SafeStep
  <2>4. CASE ~CanRetry(w, error)
    BY <1>1, <1>2, <2>1, <2>2, <2>4, GiveUpProgress DEF SafeStep
  <2> QED
    BY <2>3, <2>4
<1>8. CASE ScheduleRetry(w)
  <2>1. ZAddAndAck(RetryMember(w), msg[w]) /\ Outcome(w, NextHandler(w))
    BY <1>8 DEF ScheduleRetry
  <2>2. stream[msg[w]].event = RetryMember(w).event
    BY DEF RetryMember, Event
  <2>3. KeepsPromise
    BY <2>1, <2>2, ZAddAndAckKeeps DEF KeepsPromise
  <2>4. KeysEarned'
    BY <2>1, KeysStayEarned DEF ZAddAndAck
  <2>5. ASSUME NextHandler(w) PROVE Progress(w)'
    <3>1. msg'[w] = msg[w] /\ msg[w] \notin pel'
      BY <2>1, <2>5 DEF ZAddAndAck, NextHandler
    <3>2. Over(current, w)'
      BY <3>1 DEF Over
    <3> QED
      BY <1>2, <1>3, <2>5, <3>2, HandlerOver
  <2>6. Progress(w)'
    BY <2>1, <2>5, OutcomeProgress
  <2> QED
    BY <2>3, <2>4, <2>6 DEF SafeStep
<1>9. CASE SendDlq(w)
  <2>1. DlqAdd(Letter(w, hi[w], err[w])) /\ Outcome(w, NextHandler(w))
    BY <1>9 DEF SendDlq
  <2>2. Kept
    BY <2>1 DEF DlqAdd
  <2>3. PICK letter \in dlq' : letter.event = Event(w) /\ letter.handler = current
    <3> DEFINE sent == Letter(w, hi[w], err[w])
    <3>1. sent \in dlq'
      BY <2>1 DEF DlqAdd
    <3>2. sent.event = Event(w) /\ sent.handler = current
      BY <1>3 DEF Letter
    <3> QED
      BY <3>1, <3>2
  <2>5. ASSUME NextHandler(w) PROVE Progress(w)'
    <3>1. msg'[w] = msg[w]
      BY <2>5 DEF NextHandler
    <3>2. Event(w)' = Event(w)
      BY <1>2, <3>1, MessageStays
    <3>3. Settled(current, Event(w))'
      BY <2>3, <3>2 DEF Settled
    <3> QED
      BY <1>5, <2>5, <3>3
  <2>6. Progress(w)'
    BY <2>1, <2>5, OutcomeProgress
  <2> QED
    BY <1>1, <2>2, <2>6 DEF SafeStep
<1>10. CASE MarkSeen(w)
  <2>1. SetKey(Key(w)) /\ Outcome(w, NextHandler(w)) /\ pc[w] = "mark"
    BY <1>10 DEF MarkSeen
  <2>2. KeepsPromise
    BY <2>1, OthersKeep DEF KeepsPromise, SetKey
  <2>3. done[Key(w)] > 0 /\ done'[Key(w)] > 0
    BY <1>4, <2>1 DEF Progress, HistoryGrows
  <2>4. KeysEarned'
    <3>1. \A key \in keys : done'[key] > 0
      BY DEF KeysEarned, HistoryGrows, RedisTypes
    <3> QED
      BY <2>1, <2>3, <3>1 DEF KeysEarned, SetKey
  <2>5. ASSUME NextHandler(w) PROVE Progress(w)'
    <3>1. msg'[w] = msg[w]
      BY <2>5 DEF NextHandler
    <3>2. Event(w)' = Event(w)
      BY <1>2, <3>1, MessageStays
    <3>3. Settled(current, Event(w))'
      BY <1>4, <2>3, <3>2 DEF Settled
    <3> QED
      BY <1>5, <2>5, <3>3
  <2>6. Progress(w)'
    BY <2>1, <2>5, OutcomeProgress
  <2> QED
    BY <2>2, <2>4, <2>6 DEF SafeStep
<1>11. CASE Seen(w)
  <2>1. Kept
    BY <1>11 DEF Seen, redisVars
  <2>2. CASE AlreadySeen(w)
    <3>1. NextHandler(w) /\ Key(w) \in keys
      BY <1>11, <2>2 DEF Seen, AlreadySeen
    <3>2. done'[Key(w)] > 0
      BY <1>4, <3>1 DEF KeysEarned, HistoryGrows
    <3>3. msg'[w] = msg[w]
      BY <3>1 DEF NextHandler
    <3>4. Event(w)' = Event(w)
      BY <1>2, <3>3, MessageStays
    <3>5. Settled(current, Event(w))'
      BY <1>4, <3>2, <3>4 DEF Settled
    <3> QED
      BY <1>1, <1>5, <2>1, <3>1, <3>5 DEF SafeStep
  <2>3. CASE ~AlreadySeen(w)
    <3>1. pc'[w] = "run" /\ msg'[w] = msg[w] /\ hi'[w] = hi[w]
      BY <1>11, <2>3 DEF Seen, Goto, LoopTypes
    <3> QED
      BY <1>1, <1>6, <2>1, <3>1 DEF SafeStep
  <2> QED
    BY <2>2, <2>3
<1>12. CASE HandlerReturns(w) /\ done' = Bump(done, Key(w))
  <2>1. Kept
    BY <1>12 DEF HandlerReturns, redisVars
  <2>2. pc'[w] = "mark" /\ msg'[w] = msg[w] /\ hi'[w] = hi[w]
    BY <1>12 DEF HandlerReturns, Goto, LoopTypes
  <2>3. Key(w) \in Handlers \X Events
    BY <1>3, <1>4
  <2>4. done'[Key(w)] > 0
    BY <1>12, <2>3, BumpTypes
  <2> QED
    BY <1>1, <1>6, <2>1, <2>2, <2>4 DEF SafeStep
<1> QED
  BY <1>7, <1>8, <1>9, <1>10, <1>11, <1>12

\* A step of the loop keeps what happened: dead letters, drops, completions.
LEMMA LoopHistory ==
  ASSUME TypeInv, NEW w \in Workers, Loop(w)
  PROVE  HistoryGrows
<1>1. RedisTypes /\ LoopTypes /\ HistoryTypes
  BY Owners
<1>2. dlq \subseteq dlq' /\ dropped \subseteq dropped'
  BY LoopStep DEF WorkerStep, Grows, DropsOnly
<1>3. \A x \in Handlers \X Events : done[x] <= done'[x]
  <2>1. CASE HandlerReturns(w)
    <3>1. Key(w) \in Handlers \X Events
      BY <1>1, <2>1, MessageTypes DEF HandlerReturns, MessagePCs
    <3>2. done \in [Handlers \X Events -> 0..CountCap]
      BY <1>1 DEF HistoryTypes
    <3> QED
      BY <2>1, <3>1, <3>2, BumpTypes DEF HandlerReturns
  <2>2. CASE done' = done
    BY <1>1, <2>2, DeliveryAssumption DEF HistoryTypes
  <2> QED
    BY <2>1, <2>2 DEF Loop
<1>4. /\ done \in [Handlers \X Events -> 0..CountCap]
      /\ done' \in [Handlers \X Events -> 0..CountCap]
  BY <1>1, LoopStep DEF HistoryTypes
<1>5. \A x \in Handlers \X Events : done[x] > 0 => done'[x] > 0
  BY <1>3, <1>4, DeliveryAssumption
<1> QED
  BY <1>2, <1>5 DEF HistoryGrows

LEMMA LoopSafe ==
  ASSUME NEW w \in Workers, Stepping(w), TypeInv, Loop(w)
  PROVE  SafeStep(w)
<1>1. done \in [Handlers \X Events -> 0..CountCap]
  BY Owners DEF HistoryTypes
<1>2. CASE FindWork(w)
  BY <1>2, FindWorkSafe
<1>3. CASE Drop(w) \/ Ack(w) \/ FinalAck(w)
  BY <1>3, AckSafe DEF Drop, Ack, FinalAck
<1>4. CASE Poison(w) \/ Contract(w) \/ Unmatched(w) \/ BrokerDlq(w)
  BY <1>4, DeadLetterSafe DEF Poison, Contract, Unmatched, BrokerDlq, MessagePCs,
     MessageCalls
<1>5. CASE HandlerRaises(w) \/ ScheduleRetry(w) \/ SendDlq(w) \/ MarkSeen(w) \/ Seen(w)
  <2>1. \/ HandlerRaises(w) \/ ScheduleRetry(w) \/ SendDlq(w) \/ MarkSeen(w)
        \/ Seen(w) \/ (HandlerReturns(w) /\ done' = Bump(done, Key(w)))
    BY <1>5
  <2> QED
    BY <1>1, <2>1, HandlerSafe
<1>6. CASE HandlerReturns(w)
  BY <1>1, <1>6, HandlerSafe DEF HandlerReturns
<1>7. CASE CallLost(w)
  <2>1. UNCHANGED <<stream, group, origin, last, pel, retryz, keys>>
    BY <1>7 DEF CallLost, redisVars
  <2>2. KeepsPromise /\ KeysEarned'
    BY <2>1, OthersKeep, KeysStayEarned DEF KeepsPromise, Stepping
  <2>3. Progress(w)'
    BY <1>7, RaisedProgress DEF CallLost, Stepping
  <2> QED
    BY <2>2, <2>3 DEF SafeStep
<1> QED
  BY <1>2, <1>3, <1>4, <1>5, <1>6, <1>7 DEF Loop, HandleMessage

-----------------------------------------------------------------------------
(* The other actions, and the theorem.                                     *)

\* A start, a stop and the scheduler's steps keep the histories; they leave the
\* loop where it was or move it to a point at which it holds no message.
LEMMA OtherStepSafe ==
  ASSUME "contract" \notin FaultCalls,
         TypeInv, NEW w \in Workers, Progress(w), KeysEarned,
         Start(w) \/ Scheduler(w) \/ Crash(w)
  PROVE  HistoryGrows /\ SafeStep(w)
<1>1. RedisTypes /\ LoopTypes /\ HistoryTypes
  BY Owners
<1>2. Grows /\ UNCHANGED <<done, dropped, keys>>
  <2>1. CASE Start(w)
    BY <2>1, StartStep DEF historyVars, Start, XGroupCreate
  <2>2. CASE Poll(w)
    BY <2>2, PollStep DEF historyVars, Poll, redisVars
  <2>3. CASE Requeue(w)
    BY <2>3, RequeueStep DEF historyVars, Requeue, AddAndZRem
  <2>4. CASE SchedulerFails(w) \/ Crash(w)
    BY <2>4, StopStep DEF SchedulerFails, Crash, redisVars
  <2> QED
    BY <2>1, <2>2, <2>3, <2>4 DEF Scheduler
<1>3. HistoryGrows
  BY <1>2 DEF HistoryGrows, Grows
<1>4. KeysEarned'
  BY <1>1, <1>2, <1>3, KeysStayEarned
<1>5. ASSUME UNCHANGED localVars PROVE Progress(w)'
  BY <1>1, <1>2, <1>3, <1>5, SameWorkerProgress DEF localVars
<1>6. ASSUME Die(w) PROVE Progress(w)'
  BY <1>1, <1>6, DownProgress DEF Die, LoopTypes
<1>7. CASE Start(w)
  <2>1. KeepsPromise
    BY <1>1, <1>7, XGroupCreateKeeps DEF Start, KeepsPromise
  <2>2. Progress(w)'
    BY <1>1, <1>7, DownProgress DEF Start, Goto, LoopTypes
  <2> QED
    BY <1>3, <1>4, <2>1, <2>2 DEF SafeStep
<1>8. CASE Poll(w) \/ SchedulerFails(w) \/ Crash(w)
  <2>1. KeepsPromise
    BY <1>8, OthersKeep DEF Poll, SchedulerFails, Crash, redisVars, KeepsPromise
  <2> QED
    BY <1>3, <1>4, <1>5, <1>6, <1>8, <2>1 DEF Poll, SchedulerFails, Crash, SafeStep
<1>9. CASE Requeue(w)
  <2>1. fetched[w] \in SUBSET Members /\ IsFiniteSet(fetched[w])
    BY <1>1 DEF LoopTypes, WorkerOK
  <2>2. KeepsPromise
    BY <1>1, <1>9, <2>1, AddAndZRemKeeps DEF Requeue, KeepsPromise
  <2> QED
    BY <1>3, <1>4, <1>5, <1>6, <1>9, <2>2 DEF Requeue, SafeStep
<1> QED
  BY <1>7, <1>8, <1>9 DEF Scheduler

\* Publishing and time.
LEMMA EnvironmentSafe ==
  ASSUME TypeInv, KeysEarned,
         (\E e \in Events : Publish(e)) \/ Tick \/ UNCHANGED vars
  PROVE  HistoryGrows /\ KeepsPromise /\ KeysEarned'
<1>1. RedisTypes
  BY Owners
<1>2. Grows /\ UNCHANGED <<done, dropped>>
  BY EnvironmentStep DEF historyVars
<1>3. HistoryGrows
  BY <1>2 DEF HistoryGrows, Grows
<1>4. keys' \subseteq keys /\ KeepsPromise
  <2>1. ASSUME NEW e \in Events, Publish(e)
        PROVE  keys' \subseteq keys /\ KeepsPromise
    <3>1. [event |-> e, attempt |-> 1] \in Entries
      BY DEF Entries
    <3> QED
      BY <1>1, <2>1, <3>1, XAddKeeps DEF Publish, XAdd, KeepsPromise
  <2>2. CASE Tick
    <3>1. /\ keys' \subseteq keys
          /\ UNCHANGED <<stream, group, origin, last, pel, retryz>>
      BY <2>2 DEF Tick, Idles, GoIdle, FallsDue, BecomeDue, Expires, Expire
    <3> QED
      BY <3>1, OthersKeep DEF KeepsPromise
  <2>3. CASE UNCHANGED vars
    BY <2>3, OthersKeep DEF vars, redisVars, KeepsPromise
  <2> QED
    BY <2>1, <2>2, <2>3
<1> QED
  BY <1>1, <1>3, <1>4, KeysStayEarned

LEMMA SafeInvStep ==
  ASSUME "contract" \notin FaultCalls, SafeInv, [Next]_vars
  PROVE  SafeInv'
<1>1. /\ TypeInv /\ KeysEarned /\ NoLoss
      /\ \A v \in Workers : Progress(v)
  BY DEF SafeInv
<1>2. RedisTypes /\ LoopTypes
  BY <1>1, Owners
<1>3. TypeInv' /\ Grows
  BY <1>1, TypeStep
<1>4. ASSUME NEW w \in Workers, HistoryGrows, SafeStep(w), Moves(w)
      PROVE  SafeInv'
  <2>1. NoLoss'
    BY <1>1, <1>4, NoLossKept DEF SafeStep
  <2>2. ASSUME NEW v \in Workers PROVE Progress(v)'
    <3>1. CASE v = w
      BY <1>4, <3>1 DEF SafeStep
    <3>2. CASE v # w
      <4>1. SameWorker(v)
        BY <1>4, <3>2 DEF Moves
      <4> QED
        BY <1>1, <1>2, <1>3, <1>4, <4>1, SameWorkerProgress DEF SameWorker
    <3> QED
      BY <3>1, <3>2
  <2> QED
    BY <1>3, <1>4, <2>1, <2>2 DEF SafeInv, SafeStep
<1>5. ASSUME NEW w \in Workers, Loop(w) PROVE SafeInv'
  <2>1. HistoryGrows /\ Moves(w)
    BY <1>1, <1>5, LoopHistory, LoopStep DEF WorkerStep
  <2>2. Stepping(w)
    BY <1>1, <1>2, <1>3, <2>1 DEF Stepping
  <2> QED
    BY <1>1, <1>4, <1>5, <2>1, <2>2, LoopSafe
<1>6. ASSUME NEW w \in Workers, Start(w) \/ Scheduler(w) \/ Crash(w) PROVE SafeInv'
  <2>1. HistoryGrows /\ SafeStep(w)
    BY <1>1, <1>6, OtherStepSafe
  <2>2. Moves(w)
    BY <1>1, <1>6, StartStep, PollStep, RequeueStep, StopStep DEF Scheduler
  <2> QED
    BY <1>4, <2>1, <2>2
<1>7. CASE (\E e \in Events : Publish(e)) \/ Tick \/ UNCHANGED vars
  <2>1. HistoryGrows /\ KeepsPromise /\ KeysEarned'
    BY <1>1, <1>7, EnvironmentSafe
  <2>2. UNCHANGED localVars
    BY <1>1, <1>7, EnvironmentStep
  <2>3. \A v \in Workers : Progress(v)'
    BY <1>1, <1>2, <1>3, <2>1, <2>2, SameWorkerProgress DEF localVars
  <2>4. NoLoss'
    BY <1>1, <2>1, NoLossKept
  <2> QED
    BY <1>3, <2>1, <2>3, <2>4 DEF SafeInv
<1> QED
  BY <1>5, <1>6, <1>7 DEF Next

LEMMA SafeInvInit == Init => SafeInv
<1> SUFFICES ASSUME Init PROVE SafeInv
  OBVIOUS
<1>1. \A w \in Workers : Progress(w)
  BY DEF Init, Progress, HandlerCalls
<1>2. KeysEarned /\ NoLoss
  BY DEF Init, RedisInit, KeysEarned, NoLoss, Accepted
<1> QED
  BY <1>1, <1>2, TypeInit DEF SafeInv

\* At-least-once delivery, for any number of workers, handlers and events and
\* whatever crashes, fails and expires: provided only that storing the dead
\* letter of an undecodable message does not fail (the failure that
\* App._handle_message swallows), no event the consumer group accepted ceases
\* to be deliverable before every handler has dealt with it.
THEOREM NoLossHolds ==
  ASSUME "contract" \notin FaultCalls
  PROVE  Spec => []NoLoss
<1>1. Init => SafeInv
  BY SafeInvInit
<1>2. SafeInv /\ [Next]_vars => SafeInv'
  BY SafeInvStep
<1>3. SafeInv => NoLoss
  BY DEF SafeInv
<1> QED
  BY <1>1, <1>2, <1>3, PTL DEF Spec

\* Under the same assumption, a worker that is about to acknowledge a message
\* still pending has dealt with it for every handler: the guards on the way to
\* each XACK of run_consumer establish it, and no step of another worker, of
\* the scheduler or of time takes it back.
THEOREM AckEarnedHolds ==
  ASSUME "contract" \notin FaultCalls
  PROVE  Spec => []AckEarned
<1>1. Init => SafeInv
  BY SafeInvInit
<1>2. SafeInv /\ [Next]_vars => SafeInv'
  BY SafeInvStep
<1>3. SafeInv => AckEarned
  BY DEF SafeInv, AckEarned, Progress, Over, Accounted
<1> QED
  BY <1>1, <1>2, <1>3, PTL DEF Spec
=============================================================================
