------------------------ MODULE MemoryDeliveryProofs ------------------------
(***************************************************************************)
(* Theorems about MemoryDelivery, for any handlers, events, channels and   *)
(* bounds.                                                                 *)
(***************************************************************************)
EXTENDS MemoryDelivery, FiniteSetTheorems, SequenceTheorems,
        WellFoundedInduction, TLAPS

-----------------------------------------------------------------------------
(* Numbers and sequences.                                                  *)

\* Every non-empty set of numbers has a least one.
LEMMA Least ==
  ASSUME NEW S \in SUBSET Nat, S # {}
  PROVE  /\ Min(S) \in S
         /\ \A n \in S : Min(S) <= n
<1>1. PICK m \in S : \A n \in S : ~(<<n, m>> \in OpToRel(<, Nat))
  BY NatLessThanWellFounded, WFMin
<1>2. \A n \in S : m <= n
  <2> SUFFICES ASSUME NEW n \in S PROVE m <= n
    OBVIOUS
  <2>1. ~(n < m)
    BY <1>1 DEF OpToRel
  <2> QED
    BY <2>1
<1> QED
  BY <1>2 DEF Min

\* What leaves the middle of a sequence, and where the others go.
LEMMA Removed ==
  ASSUME NEW T, NEW s \in Seq(T), NEW i \in 1..Len(s)
  PROVE  /\ RemoveAt(s, i) \in Seq(T)
         /\ Len(RemoveAt(s, i)) = Len(s) - 1
         /\ \A j \in 1..Len(s) - 1 :
              RemoveAt(s, i)[j] = IF j < i THEN s[j] ELSE s[j + 1]
<1> DEFINE before == SubSeq(s, 1, i - 1)
           after == SubSeq(s, i + 1, Len(s))
<1>1. /\ before \in Seq(T) /\ Len(before) = i - 1
      /\ \A j \in 1..i - 1 : before[j] = s[j]
  BY SubSeqProperties
<1>2. /\ after \in Seq(T) /\ Len(after) = Len(s) - i
      /\ \A j \in 1..Len(s) - i : after[j] = s[i + j]
  BY SubSeqProperties
<1> HIDE DEF before, after
<1>3. /\ before \o after \in Seq(T)
      /\ Len(before \o after) = Len(before) + Len(after)
      /\ \A j \in 1..Len(before) + Len(after) : (before \o after)[j] =
           IF j <= Len(before) THEN before[j] ELSE after[j - Len(before)]
  BY <1>1, <1>2, ConcatProperties
<1>4. RemoveAt(s, i) = before \o after
  BY DEF RemoveAt, before, after
<1>5. ASSUME NEW j \in 1..Len(s) - 1
      PROVE  RemoveAt(s, i)[j] = IF j < i THEN s[j] ELSE s[j + 1]
  <2>1. CASE j < i
    BY <1>1, <1>2, <1>3, <1>4, <2>1
  <2>2. CASE ~(j < i)
    <3>1. PICK k \in 1..Len(s) - i : k = j - (i - 1) /\ i + k = j + 1
      BY <2>2
    <3>2. after[k] = s[j + 1]
      BY <1>2, <3>1
    <3>3. (before \o after)[j] = after[k]
      BY <1>1, <1>2, <1>3, <2>2, <3>1
    <3> QED
      BY <1>4, <2>2, <3>2, <3>3
  <2> QED
    BY <2>1, <2>2
<1> QED
  BY <1>1, <1>2, <1>3, <1>4, <1>5

-----------------------------------------------------------------------------
(* Types, and what a loop holds at each point of its control.              *)

Messages == [event : Events, by : Channels \cup {Publisher}]
Busy == {"gate", "run", "mark", "letter"}

AppTypes ==
  /\ handlers \in Seq(Handlers)
  /\ byType \in [Types -> Classes \cup {None}]

QueueTypes == queue \in [Channels -> Seq(Messages)] /\ sent \subseteq Events

LoopTypes ==
  /\ pc \in [Channels -> PCs]
  /\ cur \in [Channels -> Events \cup {None}]
  /\ as \in [Channels -> Classes \cup {None}]
  /\ upto \in [Channels -> Nat] /\ at \in [Channels -> Nat]
  /\ open \in [Channels -> Nat] /\ stops \in [Channels -> Nat]

ResultTypes ==
  /\ keys \subseteq STRING \X Events
  /\ closed \subseteq [event : Events, offered : SUBSET Handlers]
  /\ done \in [Handlers \X Events -> Nat]
  /\ dead \subseteq (Handlers \cup {None}) \X Events
  /\ dropped \subseteq Handlers \X Events
  /\ faults \in Nat

LoopOK(c) ==
  /\ pc[c] # "down" => c \in Homes
  /\ pc[c] \in {"down", "idle"} => cur[c] = None /\ at[c] = 0
  /\ upto[c] <= Len(handlers)
  /\ at[c] # 0 => cur[c] \in Events /\ at[c] \in Matching(cur[c], upto[c])
  /\ pc[c] \in {"gate", "run", "mark"} => at[c] # 0
  /\ pc[c] = "letter" => cur[c] \in Events
  /\ at[c] = 0 => upto[c] = 0

Watched(c) ==
  LET running == IF at[c] = 0 \/ pc[c] = "stopping" THEN 0 ELSE 1
  IN  open[c] \in running .. running + stops[c]

TypeInv == TypeOK /\ \A c \in Channels : LoopOK(c) /\ Watched(c)

\* The handler a loop is at was there when it matched its message.
Positions == \A c \in Channels : at[c] <= upto[c] /\ upto[c] <= Len(handlers)

LEMMA Owners ==
  /\ TypeOK <=> AppTypes /\ QueueTypes /\ LoopTypes /\ ResultTypes /\ Positions
  /\ Observed <=> \A c \in Channels : Watched(c)
BY DEF TypeOK, AppTypes, QueueTypes, LoopTypes, ResultTypes, Messages, Observed, Watched,
   Positions

\* The parts of TypeInv after a step.
LEMMA PartsMakeTypeInv ==
  ASSUME AppTypes', QueueTypes', LoopTypes', ResultTypes',
         \A c \in Channels : LoopOK(c)' /\ Watched(c)'
  PROVE  TypeInv'
<1>1. ASSUME NEW c \in Channels PROVE at'[c] <= upto'[c] /\ upto'[c] <= Len(handlers')
  <2>1. at'[c] \in Nat /\ upto'[c] \in Nat /\ upto'[c] <= Len(handlers')
    BY DEF LoopTypes, LoopOK
  <2>2. at'[c] # 0 => at'[c] \in 1..upto'[c]
    BY DEF LoopOK, Matching
  <2> QED
    BY <2>1, <2>2
<1>2. Positions'
  BY <1>1 DEF Positions
<1> QED
  BY <1>2 DEF TypeInv, TypeOK, AppTypes, QueueTypes, LoopTypes, ResultTypes, Messages,
     Positions

LEMMA HandlersHaveHomes ==
  ASSUME NEW h \in Handlers
  PROVE  /\ Decl[h].channel \in Homes /\ DlqOf[Decl[h].channel] \in Channels
         /\ Decl[h].name \in STRING /\ Decl[h].event_cls \in Classes
         /\ TypeOf[Decl[h].event_cls] \in Types
<1>1. Decl[h].channel \in Homes
  BY DEF Homes
<1> QED
  BY <1>1, MemoryAssumption DEF Types

\* What is registered stays at its position.
HandlersGrow ==
  /\ Len(handlers) <= Len(handlers')
  /\ \A i \in 1..Len(handlers) : handlers'[i] = handlers[i]

LEMMA MatchingStays ==
  ASSUME AppTypes, AppTypes', HandlersGrow, NEW e, NEW n \in Nat, n <= Len(handlers)
  PROVE  Matching(e, n)' = Matching(e, n)
<1>1. Len(handlers) \in Nat /\ Len(handlers') \in Nat
  BY DEF AppTypes
<1>2. \A i \in 1..n : handlers'[i] = handlers[i]
  BY <1>1 DEF HandlersGrow
<1> QED
  BY <1>2 DEF Matching

\* The handler a loop is at.
LEMMA CurrentTypes ==
  ASSUME AppTypes, LoopTypes, NEW c \in Channels, LoopOK(c), at[c] # 0
  PROVE  /\ at[c] \in 1..upto[c] /\ at[c] \in 1..Len(handlers)
         /\ Handler(c) \in Handlers /\ cur[c] \in Events
         /\ Key(c) \in STRING \X Events
         /\ at[c] \in Matching(cur[c], upto[c])
<1>1. at[c] \in Matching(cur[c], upto[c]) /\ cur[c] \in Events
  BY DEF LoopOK
<1>2. at[c] \in 1..upto[c] /\ upto[c] \in Nat /\ Len(handlers) \in Nat
  BY <1>1 DEF Matching, LoopTypes, AppTypes
<1>3. at[c] \in 1..Len(handlers)
  BY <1>2 DEF LoopOK
<1>4. Handler(c) \in Handlers
  BY <1>3 DEF Handler, AppTypes
<1> QED
  BY <1>1, <1>2, <1>3, <1>4, HandlersHaveHomes DEF Key

\* The loops the step does not touch.
SameLoop(d) ==
  /\ pc'[d] = pc[d] /\ cur'[d] = cur[d] /\ as'[d] = as[d] /\ upto'[d] = upto[d]
  /\ at'[d] = at[d] /\ open'[d] = open[d] /\ stops'[d] = stops[d]

\* The step is one of loop c.
Moves(c) ==
  /\ LoopTypes' /\ LoopOK(c)' /\ Watched(c)'
  /\ \A d \in Channels \ {c} : SameLoop(d)

LEMMA SameLoopOK ==
  ASSUME AppTypes, AppTypes', HandlersGrow, LoopTypes, NEW d \in Channels,
         LoopOK(d), Watched(d), SameLoop(d)
  PROVE  LoopOK(d)' /\ Watched(d)'
<1>1. Matching(cur[d], upto[d])' = Matching(cur[d], upto[d])
  <2>1. PICK e, n : e = cur[d] /\ n = upto[d]
    OBVIOUS
  <2>2. n \in Nat /\ n <= Len(handlers)
    BY <2>1 DEF LoopTypes, LoopOK
  <2>3. Matching(e, n)' = Matching(e, n)
    BY <2>2, MatchingStays
  <2> QED
    BY <2>1, <2>3 DEF SameLoop, Matching, TypeOfEvent
<1>2. upto'[d] <= Len(handlers')
  BY DEF SameLoop, LoopOK, LoopTypes, HandlersGrow, AppTypes
<1>3. LoopOK(d)'
  BY <1>1, <1>2 DEF LoopOK, SameLoop
<1> QED
  BY <1>3 DEF Watched, SameLoop

LEMMA MovesOK ==
  ASSUME AppTypes, AppTypes', HandlersGrow, LoopTypes, NEW c \in Channels, Moves(c),
         \A d \in Channels : LoopOK(d) /\ Watched(d)
  PROVE  \A d \in Channels : LoopOK(d)' /\ Watched(d)'
BY SameLoopOK DEF Moves

-----------------------------------------------------------------------------
(* The moves of a loop.                                                    *)

\* The matching handlers still to come.
Ahead(c) == {i \in Matching(cur[c], upto[c]) : i > at[c]}

\* The loop goes on to the next of them, or is done with the message.
Continues(c) ==
  /\ at'[c] \in Ahead(c) /\ \A i \in Ahead(c) : at'[c] <= i
  /\ pc'[c] = "gate" /\ cur'[c] = cur[c] /\ as'[c] = as[c] /\ upto'[c] = upto[c]
  /\ closed' = closed

Ends(c) ==
  /\ Ahead(c) = {}
  /\ pc'[c] = "idle" /\ cur'[c] = None /\ as'[c] = None
  /\ upto'[c] = 0 /\ at'[c] = 0
  /\ closed' = closed \cup
       {[event |-> cur[c],
         offered |-> {handlers[i] : i \in Matching(cur[c], upto[c])}]}

\* It stays with the handler it is at.
Stays(c) ==
  /\ at'[c] = at[c] /\ cur'[c] = cur[c] /\ as'[c] = as[c] /\ upto'[c] = upto[c]
  /\ closed' = closed

\* It takes the next message, to a handler or to the channel's DLQ.
Begins(c) ==
  /\ pc[c] = "idle" /\ queue[c] # <<>> /\ cur'[c] = Head(queue[c]).event
  /\ \/ pc'[c] = "letter" /\ at'[c] = 0
     \/ /\ pc'[c] = "gate" /\ upto'[c] = Len(handlers)
        /\ as'[c] = byType[TypeOfEvent(cur'[c])]
        /\ \A i \in Matching(cur'[c], Len(handlers)) : at'[c] <= i

LEMMA AdvanceMoves ==
  ASSUME AppTypes, LoopTypes, ResultTypes, NEW c \in Channels, LoopOK(c), Watched(c),
         pc[c] \in Busy, NEW ended \in {0, 1}, ended = 0 <=> at[c] = 0,
         Advance(c, ended), UNCHANGED <<handlers, stops>>
  PROVE  /\ Moves(c) /\ (Continues(c) \/ Ends(c))
         /\ closed' \subseteq [event : Events, offered : SUBSET Handlers]
<1> DEFINE left == {i \in Matching(cur[c], upto[c]) : i > at[c]}
<1>1. /\ c \in Homes /\ cur[c] \in Events /\ at[c] \in Nat /\ upto[c] \in Nat
      /\ open[c] \in Nat /\ stops[c] \in Nat /\ open[c] - ended \in 0..stops[c]
  BY DEF LoopOK, Watched, Busy, LoopTypes
<1>2. left = Ahead(c) /\ left \in SUBSET Nat
  BY <1>1 DEF Ahead, Matching
<1>3. CASE left # {}
  <2>1. Min(left) \in left /\ \A i \in left : Min(left) <= i
    BY <1>2, <1>3, Least
  <2>2. /\ at' = [at EXCEPT ![c] = Min(left)]
        /\ pc' = [pc EXCEPT ![c] = "gate"]
        /\ open' = [open EXCEPT ![c] = @ - ended + 1]
        /\ UNCHANGED <<cur, as, upto, closed>>
    BY <1>3 DEF Advance, Observe
  <2> HIDE DEF left
  <2>3. PICK m \in Nat : m = Min(left) /\ m \in left /\ at' = [at EXCEPT ![c] = m]
    BY <1>2, <2>1, <2>2
  <2>4. /\ at'[c] = m /\ pc'[c] = "gate" /\ cur'[c] = cur[c] /\ as'[c] = as[c]
        /\ upto'[c] = upto[c] /\ open'[c] = open[c] - ended + 1
        /\ stops'[c] = stops[c] /\ closed' = closed
    BY <2>2, <2>3 DEF LoopTypes
  <2>5. Continues(c)
    BY <1>2, <2>1, <2>3, <2>4 DEF Continues
  <2>6. LoopTypes'
    <3>1. PICK o \in Nat : o = open[c] - ended + 1
      BY <1>1
    <3>2. open' \in [Channels -> Nat]
      BY <2>2, <3>1 DEF LoopTypes
    <3>3. pc' \in [Channels -> PCs] /\ at' \in [Channels -> Nat]
      BY <2>2, <2>3 DEF LoopTypes, PCs
    <3> QED
      BY <2>2, <3>2, <3>3 DEF LoopTypes
  <2>7. m \in Matching(cur[c], upto[c]) /\ m # 0
    <3>1. m \in Matching(cur[c], upto[c]) /\ m > at[c]
      BY <2>3 DEF left
    <3> QED
      BY <1>1, <3>1
  <2>8. Matching(cur[c], upto[c])' = Matching(cur[c], upto[c])
    BY <2>4 DEF Matching, TypeOfEvent
  <2>9. LoopOK(c)'
    BY <1>1, <2>4, <2>7, <2>8 DEF LoopOK
  <2>10. Watched(c)'
    BY <1>1, <2>4, <2>7 DEF Watched
  <2>11. \A d \in Channels \ {c} : SameLoop(d)
    BY <2>2, <2>3 DEF SameLoop, LoopTypes
  <2> QED
    BY <2>4, <2>5, <2>6, <2>9, <2>10, <2>11 DEF Moves, ResultTypes
<1>4. CASE left = {}
  <2>1. /\ pc' = [pc EXCEPT ![c] = "idle"]
        /\ open' = [open EXCEPT ![c] = @ - ended + 0]
        /\ cur' = [cur EXCEPT ![c] = None]
        /\ as' = [as EXCEPT ![c] = None]
        /\ upto' = [upto EXCEPT ![c] = 0]
        /\ at' = [at EXCEPT ![c] = 0]
        /\ closed' = closed \cup
             {[event |-> cur[c],
               offered |-> {handlers[i] : i \in Matching(cur[c], upto[c])}]}
    BY <1>4 DEF Advance, Observe
  <2> HIDE DEF left
  <2>2. Ends(c)
    BY <1>2, <1>4, <2>1 DEF Ends, LoopTypes
  <2>3. LoopTypes'
    <3>1. PICK o \in Nat : o = open[c] - ended + 0
      BY <1>1
    <3>2. open' \in [Channels -> Nat]
      BY <2>1, <3>1 DEF LoopTypes
    <3>3. pc' \in [Channels -> PCs]
      BY <2>1 DEF LoopTypes, PCs
    <3> QED
      BY <2>1, <3>2, <3>3 DEF LoopTypes
  <2>4. LoopOK(c)' /\ Watched(c)'
    <3>1. /\ pc'[c] = "idle" /\ at'[c] = 0 /\ upto'[c] = 0 /\ cur'[c] = None
          /\ open'[c] \in 0..stops[c] /\ stops'[c] = stops[c]
      BY <1>1, <2>1 DEF LoopTypes
    <3>2. 0 <= Len(handlers)
      BY DEF AppTypes
    <3> QED
      BY <1>1, <3>1, <3>2 DEF LoopOK, Watched
  <2>5. {handlers[i] : i \in Matching(cur[c], upto[c])} \subseteq Handlers
    <3>1. upto[c] <= Len(handlers) /\ Len(handlers) \in Nat
      BY DEF LoopOK, AppTypes
    <3>2. \A i \in Matching(cur[c], upto[c]) : i \in 1..Len(handlers)
      BY <1>1, <3>1 DEF Matching
    <3> QED
      BY <3>2 DEF AppTypes
  <2>6. closed' \subseteq [event : Events, offered : SUBSET Handlers]
    BY <1>1, <2>1, <2>5 DEF ResultTypes
  <2>7. \A d \in Channels \ {c} : SameLoop(d)
    BY <2>1 DEF SameLoop, LoopTypes
  <2> QED
    BY <2>2, <2>3, <2>4, <2>6, <2>7 DEF Moves
<1> QED
  BY <1>3, <1>4

\* A loop at a handler goes from one label to another.
LEMMA GotoMoves ==
  ASSUME AppTypes, LoopTypes, NEW c \in Channels, LoopOK(c), Watched(c),
         pc[c] \in Busy, at[c] # 0, NEW label \in {"run", "mark", "letter"},
         Goto(c, label), UNCHANGED <<handlers, stops, open>>
  PROVE  Moves(c) /\ Stays(c) /\ pc'[c] = label
<1>1. /\ pc' = [pc EXCEPT ![c] = label]
      /\ UNCHANGED <<cur, as, upto, at, open, closed, stops, handlers>>
  BY DEF Goto
<1>2. LoopTypes' /\ pc'[c] = label
  BY <1>1 DEF LoopTypes, PCs
<1>3. Matching(cur[c], upto[c])' = Matching(cur[c], upto[c])
  BY <1>1 DEF Matching, TypeOfEvent
<1>4. LoopOK(c)'
  BY <1>1, <1>2, <1>3 DEF LoopOK, Busy
<1>5. Watched(c)'
  BY <1>1, <1>2 DEF Watched, Busy
<1>6. \A d \in Channels \ {c} : SameLoop(d)
  BY <1>1 DEF SameLoop, LoopTypes
<1> QED
  BY <1>1, <1>2, <1>4, <1>5, <1>6 DEF Moves, Stays

LEMMA PutTypes ==
  ASSUME NEW q \in [Channels -> Seq(Messages)], NEW d \in Channels, NEW e \in Events,
         NEW by \in Channels \cup {Publisher}
  PROVE  /\ Put(q, d, e, by) \in [Channels -> Seq(Messages)]
         /\ Put(q, d, e, by)[d] = Append(q[d], [event |-> e, by |-> by])
         /\ \A x \in Channels \ {d} : Put(q, d, e, by)[x] = q[x]
<1>1. [event |-> e, by |-> by] \in Messages
  BY DEF Messages
<1>2. Append(q[d], [event |-> e, by |-> by]) \in Seq(Messages)
  BY <1>1
<1> QED
  BY <1>2 DEF Put

LEMMA GiveUpMoves ==
  ASSUME AppTypes, LoopTypes, QueueTypes, ResultTypes, NEW c \in Channels, LoopOK(c),
         Watched(c), pc[c] \in Busy, at[c] # 0, GiveUp(c), UNCHANGED <<handlers, stops>>
  PROVE  /\ Moves(c)
         /\ queue' \in [Channels -> Seq(Messages)]
         /\ closed' \subseteq [event : Events, offered : SUBSET Handlers]
         /\ dropped' \subseteq Handlers \X Events
         /\ \/ /\ Stays(c) /\ pc'[c] = "letter" /\ UNCHANGED dropped
               /\ queue' = Put(queue, LetterChannel(c), cur[c], c)
            \/ /\ (Continues(c) \/ Ends(c)) /\ UNCHANGED queue
               /\ dropped' = dropped \cup {<<Handler(c), cur[c]>>}
<1>1. Handler(c) \in Handlers /\ cur[c] \in Events
  BY CurrentTypes
<1>2. CASE Decl[Handler(c)].dlq
  <2>1. /\ queue' = Put(queue, LetterChannel(c), cur[c], c)
        /\ Goto(c, "letter") /\ UNCHANGED <<dropped, closed, open>>
    BY <1>2 DEF GiveUp, Goto
  <2>2. LetterChannel(c) \in Channels
    BY <1>1, HandlersHaveHomes DEF LetterChannel
  <2>3. queue' \in [Channels -> Seq(Messages)]
    BY <1>1, <2>1, <2>2, PutTypes DEF QueueTypes
  <2>4. Moves(c) /\ Stays(c) /\ pc'[c] = "letter"
    BY <2>1, GotoMoves
  <2> QED
    BY <2>1, <2>3, <2>4 DEF ResultTypes
<1>3. CASE ~Decl[Handler(c)].dlq
  <2>1. /\ dropped' = dropped \cup {<<Handler(c), cur[c]>>}
        /\ Advance(c, 1) /\ UNCHANGED queue
    BY <1>3 DEF GiveUp
  <2>2. /\ Moves(c) /\ (Continues(c) \/ Ends(c))
        /\ closed' \subseteq [event : Events, offered : SUBSET Handlers]
    BY <2>1, AdvanceMoves
  <2> QED
    BY <1>1, <2>1, <2>2 DEF ResultTypes, QueueTypes
<1> QED
  BY <1>2, <1>3

\* A loop at nothing takes a message.
LEMMA TakeMoves ==
  ASSUME AppTypes, LoopTypes, QueueTypes, NEW c \in Channels, LoopOK(c),
         Watched(c), Take(c)
  PROVE  Moves(c) /\ Begins(c) /\ queue' \in [Channels -> Seq(Messages)]
<1> DEFINE e == Head(queue[c]).event
           k == byType[TypeOfEvent(e)]
           matching == Matching(e, Len(handlers))
           rest == [queue EXCEPT ![c] = Tail(@)]
<1>1. /\ pc[c] = "idle" /\ queue[c] # <<>> /\ UNCHANGED <<handlers, stops>>
      /\ cur' = [cur EXCEPT ![c] = e]
  BY DEF Take, appVars
<1>2. /\ c \in Homes /\ at[c] = 0 /\ upto[c] = 0 /\ open[c] \in 0..stops[c]
      /\ stops[c] \in Nat /\ Len(handlers) \in Nat
  BY <1>1 DEF LoopOK, Watched, LoopTypes, AppTypes
<1>3. e \in Events /\ TypeOfEvent(e) \in Types /\ DlqOf[c] \in Channels
  <2>1. Head(queue[c]) \in Messages
    BY <1>1 DEF QueueTypes
  <2>2. e \in Events
    BY <2>1 DEF Messages
  <2> QED
    BY <1>2, <2>2, MemoryAssumption DEF TypeOfEvent, Types
<1>4. k \in Classes \cup {None}
  BY <1>3 DEF AppTypes
<1>5. rest \in [Channels -> Seq(Messages)]
  <2>1. Tail(queue[c]) \in Seq(Messages)
    BY <1>1 DEF QueueTypes
  <2> QED
    BY <2>1 DEF QueueTypes
<1>6. matching \in SUBSET Nat /\ matching = Matching(e, Len(handlers))
  BY <1>2 DEF Matching
<1>7. CASE <<k, Made[e].cls>> \in Reads /\ matching # {}
  <2>1. /\ pc' = [pc EXCEPT ![c] = "gate"]
        /\ as' = [as EXCEPT ![c] = k]
        /\ upto' = [upto EXCEPT ![c] = Len(handlers)]
        /\ at' = [at EXCEPT ![c] = Min(matching)]
        /\ open' = [open EXCEPT ![c] = @ - 0 + 1]
        /\ queue' = rest
    BY <1>7 DEF Take, Observe
  <2>2. Min(matching) \in matching
    BY <1>6, <1>7, Least
  <2> HIDE DEF e, k, matching, rest
  <2>3. PICK m \in Nat : m = Min(matching) /\ m \in matching
    BY <1>6, <2>2
  <2>4. PICK n \in Nat : n = Len(handlers)
    BY <1>2
  <2>5. PICK o \in Nat : o = open[c] - 0 + 1 /\ o = open[c] + 1
    BY <1>2
  <2>6. LoopTypes'
    <3>1. pc' \in [Channels -> PCs] /\ cur' \in [Channels -> Events \cup {None}]
      BY <1>1, <1>3, <2>1 DEF LoopTypes, PCs
    <3>2. as' \in [Channels -> Classes \cup {None}] /\ upto' \in [Channels -> Nat]
      BY <1>4, <2>1, <2>4 DEF LoopTypes
    <3>3. at' \in [Channels -> Nat] /\ open' \in [Channels -> Nat]
      BY <2>1, <2>3, <2>5 DEF LoopTypes
    <3> QED
      BY <1>1, <3>1, <3>2, <3>3 DEF LoopTypes
  <2>7. /\ pc'[c] = "gate" /\ cur'[c] = e /\ upto'[c] = n /\ at'[c] = m
        /\ open'[c] = open[c] + 1 /\ stops'[c] = stops[c]
    BY <1>1, <2>1, <2>3, <2>4, <2>5 DEF LoopTypes
  <2>8. Matching(cur[c], upto[c])' = matching
    BY <1>1, <2>4, <2>7 DEF Matching, TypeOfEvent, matching
  <2>9. m # 0
    <3>1. m \in 1..Len(handlers)
      BY <2>3 DEF matching, Matching
    <3> QED
      BY <1>2, <3>1
  <2>10. LoopOK(c)'
    BY <1>1, <1>2, <1>3, <2>3, <2>4, <2>7, <2>8, <2>9 DEF LoopOK
  <2>11. Watched(c)'
    BY <1>2, <2>7, <2>9 DEF Watched
  <2>12. \A d \in Channels \ {c} : SameLoop(d)
    BY <1>1, <2>1 DEF SameLoop, LoopTypes
  <2>13. Begins(c)
    <3>1. m = at'[c] /\ \A i \in matching : m <= i
      BY <1>6, <2>3, <2>7, Least
    <3>2. matching = Matching(cur'[c], Len(handlers))
      BY <2>7 DEF matching, Matching
    <3>3. as'[c] = byType[TypeOfEvent(cur'[c])] /\ cur'[c] = Head(queue[c]).event
      BY <2>1, <2>7 DEF k, e, LoopTypes
    <3> QED
      BY <1>1, <2>4, <2>7, <3>1, <3>2, <3>3 DEF Begins
  <2> QED
    BY <1>5, <2>1, <2>6, <2>10, <2>11, <2>12, <2>13 DEF Moves
<1>8. CASE ~(<<k, Made[e].cls>> \in Reads /\ matching # {})
  <2>1. /\ pc' = [pc EXCEPT ![c] = "letter"]
        /\ queue' = Put(rest, DlqOf[c], e, c)
        /\ UNCHANGED <<as, upto, at, open>>
    BY <1>8 DEF Take
  <2> HIDE DEF e, k, matching, rest
  <2>2. queue' \in [Channels -> Seq(Messages)]
    BY <1>3, <1>5, <2>1, PutTypes
  <2>3. LoopTypes'
    BY <1>1, <1>3, <2>1 DEF LoopTypes, PCs
  <2>4. /\ pc'[c] = "letter" /\ cur'[c] = e /\ upto'[c] = 0 /\ at'[c] = 0
        /\ open'[c] = open[c] /\ stops'[c] = stops[c] /\ handlers' = handlers
    BY <1>1, <1>2, <2>1 DEF LoopTypes
  <2>5. LoopOK(c)' /\ Watched(c)'
    BY <1>2, <1>3, <2>4 DEF LoopOK, Watched
  <2>6. \A d \in Channels \ {c} : SameLoop(d)
    BY <1>1, <2>1 DEF SameLoop, LoopTypes
  <2>7. Begins(c)
    BY <1>1, <2>4 DEF Begins, e
  <2> QED
    BY <2>2, <2>3, <2>5, <2>6, <2>7 DEF Moves
<1> QED
  BY <1>7, <1>8

\* All loops are cancelled; one of them may have reported its handler's end.
LEMMA CancelAllMoves ==
  ASSUME AppTypes, LoopTypes, \A d \in Channels : LoopOK(d) /\ Watched(d),
         CancelAll, UNCHANGED handlers, open' \in [Channels -> Nat],
         \A d \in Channels :
           open'[d] = open[d] \/ (pc[d] = "gate" /\ open'[d] = open[d] - 1)
  PROVE  LoopTypes' /\ \A d \in Channels : LoopOK(d)' /\ Watched(d)'
<1>1. /\ stops' = [d \in Channels |-> IF pc[d] = "down" THEN stops[d] ELSE stops[d] + 1]
      /\ pc' = [d \in Channels |-> IF pc[d] = "down" THEN "down" ELSE "stopping"]
      /\ UNCHANGED <<cur, as, upto, at, closed>>
  BY DEF CancelAll
<1>2. LoopTypes'
  <2>1. pc' \in [Channels -> PCs]
    BY <1>1 DEF PCs
  <2>2. stops' \in [Channels -> Nat]
    BY <1>1 DEF LoopTypes
  <2> QED
    BY <1>1, <2>1, <2>2 DEF LoopTypes
<1>3. ASSUME NEW d \in Channels PROVE LoopOK(d)' /\ Watched(d)'
  <2>1. Matching(cur[d], upto[d])' = Matching(cur[d], upto[d])
    BY <1>1 DEF Matching, TypeOfEvent
  <2>2. pc'[d] = IF pc[d] = "down" THEN "down" ELSE "stopping"
    BY <1>1
  <2>3. LoopOK(d)'
    BY <1>1, <2>1, <2>2 DEF LoopOK
  <2>4. /\ stops'[d] = IF pc[d] = "down" THEN stops[d] ELSE stops[d] + 1
        /\ stops[d] \in Nat /\ open[d] \in Nat /\ at'[d] = at[d]
    BY <1>1 DEF LoopTypes
  <2>5. CASE pc[d] = "down"
    <3>1. at[d] = 0 /\ open'[d] = open[d] /\ stops'[d] = stops[d]
      BY <2>4, <2>5 DEF LoopOK
    <3>2. open[d] \in 0..0 + stops[d]
      BY <3>1 DEF Watched
    <3> QED
      BY <2>3, <2>4, <3>1, <3>2 DEF Watched
  <2>6. CASE pc[d] # "down"
    <3>1. open[d] \in 0..stops[d] + 1
      BY <2>4 DEF Watched
    <3>2. pc[d] = "gate" => open[d] >= 1
      BY <2>4 DEF Watched, LoopOK
    <3>3. open'[d] \in 0..stops[d] + 1
      BY <2>4, <3>1, <3>2
    <3>4. pc'[d] = "stopping" /\ stops'[d] = stops[d] + 1 /\ open'[d] \in 0..0 + stops'[d]
      BY <2>2, <2>4, <2>6, <3>3
    <3> QED
      BY <2>3, <3>4 DEF Watched
  <2> QED
    BY <2>5, <2>6
<1> QED
  BY <1>2, <1>3

\* The task of a loop ends.
LEMMA CancelledMoves ==
  ASSUME AppTypes, LoopTypes, QueueTypes, NEW c \in Channels, LoopOK(c), Watched(c),
         Cancelled(c)
  PROVE  /\ Moves(c) /\ pc[c] = "stopping" /\ pc'[c] = "down" /\ cur'[c] = None
         /\ QueueTypes'
<1>1. /\ pc[c] = "stopping"
      /\ pc' = [pc EXCEPT ![c] = "down"]
      /\ cur' = [cur EXCEPT ![c] = None]
      /\ as' = [as EXCEPT ![c] = None]
      /\ upto' = [upto EXCEPT ![c] = 0]
      /\ at' = [at EXCEPT ![c] = 0]
      /\ UNCHANGED <<handlers, open, stops>>
  BY DEF Cancelled, appVars
<1>2. LoopTypes'
  BY <1>1 DEF LoopTypes, PCs
<1>3. /\ pc'[c] = "down" /\ cur'[c] = None /\ upto'[c] = 0 /\ at'[c] = 0
      /\ open'[c] = open[c] /\ stops'[c] = stops[c] /\ Len(handlers') \in Nat
  BY <1>1 DEF LoopTypes, AppTypes
<1>4. LoopOK(c)' /\ Watched(c)'
  BY <1>1, <1>3 DEF LoopOK, Watched
<1>5. \A d \in Channels \ {c} : SameLoop(d)
  BY <1>1 DEF SameLoop, LoopTypes
<1>6. QueueTypes'
  <2>1. CASE UNCHANGED <<queue, sent>>
    BY <2>1 DEF QueueTypes
  <2>2. CASE /\ queue[c] # <<>> /\ queue' = [queue EXCEPT ![c] = Tail(@)]
             /\ UNCHANGED sent
    <3>1. Tail(queue[c]) \in Seq(Messages)
      BY <2>2 DEF QueueTypes
    <3> QED
      BY <2>2, <3>1 DEF QueueTypes
  <2>3. ASSUME NEW d \in Channels, NEW i \in DOMAIN queue[d],
               queue' = [queue EXCEPT ![d] = RemoveAt(@, i)],
               sent' = sent \ ({queue[d][i].event} \ {cur[c]})
        PROVE  QueueTypes'
    <3>1. queue[d] \in Seq(Messages) /\ i \in 1..Len(queue[d])
      BY DEF QueueTypes
    <3>2. RemoveAt(queue[d], i) \in Seq(Messages)
      BY <3>1, Removed
    <3> QED
      BY <2>3, <3>2 DEF QueueTypes
  <2> QED
    BY <2>1, <2>2, <2>3 DEF Cancelled
<1> QED
  BY <1>1, <1>2, <1>3, <1>4, <1>5, <1>6 DEF Moves

LEMMA RunMoves ==
  ASSUME AppTypes, LoopTypes, \A d \in Channels : LoopOK(d) /\ Watched(d), Run
  PROVE  LoopTypes' /\ \A d \in Channels : LoopOK(d)' /\ Watched(d)'
<1> DEFINE S == {Decl[handlers[i]].channel : i \in DOMAIN handlers}
<1>1. /\ \A d \in Channels : pc[d] = "down"
      /\ pc' = [d \in Channels |-> IF d \in S THEN "idle" ELSE "down"]
      /\ UNCHANGED <<cur, as, upto, at, open, stops, handlers>>
  BY DEF Run, appVars
<1>2. S \subseteq Homes
  BY HandlersHaveHomes DEF AppTypes
<1> HIDE DEF S
<1>3. pc' \in [Channels -> PCs]
  BY <1>1 DEF PCs
<1>4. ASSUME NEW d \in Channels PROVE LoopOK(d)' /\ Watched(d)'
  <2>1. pc[d] = "down" /\ pc'[d] = IF d \in S THEN "idle" ELSE "down"
    BY <1>1
  <2>2. LoopOK(d)'
    BY <1>1, <1>2, <2>1 DEF LoopOK
  <2> QED
    BY <1>1, <2>1, <2>2 DEF LoopOK, Watched
<1> QED
  BY <1>1, <1>3, <1>4 DEF LoopTypes

-----------------------------------------------------------------------------
(* Every step keeps the types.                                             *)

\* One step of the loop of a channel.
LEMMA LoopTypesKept ==
  ASSUME TypeInv, NEW c \in Channels, Loop(c)
  PROVE  TypeInv'
<1>1. /\ AppTypes /\ QueueTypes /\ LoopTypes /\ ResultTypes
      /\ \A d \in Channels : LoopOK(d) /\ Watched(d)
  BY Owners DEF TypeInv
<1>2. /\ UNCHANGED appVars /\ AppTypes' /\ HandlersGrow
  <2>1. UNCHANGED appVars
    BY DEF Loop, Take, Abort, Gate, Emit, HandlerReturns, HandlerRaises, MarkSeen,
           StoreFails, LetterSent
  <2> QED
    BY <1>1, <2>1 DEF appVars, AppTypes, HandlersGrow
<1>3. UNCHANGED handlers
  BY <1>2 DEF appVars
<1>4. LoopOK(c) /\ Watched(c)
  BY <1>1
<1>5. SUFFICES /\ QueueTypes' /\ ResultTypes'
               /\ Moves(c) \/ (LoopTypes' /\ \A d \in Channels : LoopOK(d)' /\ Watched(d)')
  <2>1. ASSUME Moves(c) PROVE LoopTypes' /\ \A d \in Channels : LoopOK(d)' /\ Watched(d)'
    <3>1. LoopTypes'
      BY <2>1 DEF Moves
    <3> QED
      BY <1>1, <1>2, <2>1, <3>1, MovesOK
  <2> QED
    BY <1>2, <2>1, PartsMakeTypeInv
<1>6. CASE Take(c)
  <2>1. Moves(c) /\ queue' \in [Channels -> Seq(Messages)]
    BY <1>1, <1>4, <1>6, TakeMoves
  <2> QED
    BY <1>1, <1>6, <2>1 DEF Take, QueueTypes, ResultTypes, resultVars
<1>7. CASE Abort(c)
  <2>1. CancelAll /\ pc[c] = "gate" /\ open' = [open EXCEPT ![c] = @ - 1 + 0]
    BY <1>7 DEF Abort, Observe
  <2>2. at[c] # 0 /\ open[c] \in Nat /\ stops[c] \in Nat /\ open[c] >= 1
    BY <1>1, <1>4, <2>1 DEF LoopOK, Watched, LoopTypes
  <2>3. PICK o \in Nat : o = open[c] - 1 + 0 /\ o = open[c] - 1
    BY <2>2
  <2>4. open' = [open EXCEPT ![c] = o]
    BY <2>1, <2>3
  <2>5. open' \in [Channels -> Nat] /\ open'[c] = open[c] - 1
        /\ \A d \in Channels \ {c} : open'[d] = open[d]
    BY <1>1, <2>3, <2>4 DEF LoopTypes
  <2>6. LoopTypes' /\ \A d \in Channels : LoopOK(d)' /\ Watched(d)'
    BY <1>1, <1>3, <2>1, <2>5, CancelAllMoves
  <2> QED
    BY <1>1, <1>7, <2>6 DEF Abort, CancelAll, QueueTypes, ResultTypes
<1>8. CASE pc[c] \in {"gate", "mark"} /\ Advance(c, 1)
           /\ UNCHANGED <<queue, sent, done, dead, dropped, stops, faults>>
           /\ keys' \subseteq STRING \X Events
  <2>1. at[c] # 0 /\ pc[c] \in Busy
    BY <1>4, <1>8 DEF LoopOK, Busy
  <2>2. Moves(c) /\ closed' \subseteq [event : Events, offered : SUBSET Handlers]
    BY <1>1, <1>3, <1>4, <1>8, <2>1, AdvanceMoves
  <2> QED
    BY <1>1, <1>8, <2>2 DEF QueueTypes, ResultTypes
<1>9. CASE Gate(c)
  <2>1. CASE AlreadySeen(c)
    BY <1>1, <1>8, <1>9, <2>1 DEF Gate, ResultTypes
  <2>2. CASE ~AlreadySeen(c)
    <3>1. /\ pc[c] = "gate" /\ Goto(c, "run") /\ UNCHANGED <<stops, open, closed>>
          /\ UNCHANGED <<queue, keys, sent, done, dead, dropped, faults>>
      BY <1>9, <2>2 DEF Gate, Goto
    <3>2. at[c] # 0 /\ pc[c] \in Busy
      BY <1>4, <3>1 DEF LoopOK, Busy
    <3>3. Moves(c)
      BY <1>1, <1>3, <1>4, <3>1, <3>2, GotoMoves
    <3> QED
      BY <1>1, <3>1, <3>3 DEF QueueTypes, ResultTypes
  <2> QED
    BY <2>1, <2>2
<1>10. CASE Emit(c)
  <2>1. PICK e \in Emits[Handler(c)] \ sent :
          /\ queue' = Put(queue, Made[e].channel, e, c)
          /\ sent' = sent \cup {e}
    BY <1>10 DEF Emit
  <2>2. pc[c] = "run" /\ UNCHANGED <<loopVars, keys, resultVars, stops, faults>>
    BY <1>10 DEF Emit
  <2>3. Handler(c) \in Handlers
    BY <1>1, <1>4, <2>2, CurrentTypes DEF LoopOK
  <2>4. e \in Events /\ Made[e].channel \in Channels
    BY <2>1, <2>3, MemoryAssumption
  <2>5. queue' \in [Channels -> Seq(Messages)]
    BY <1>1, <2>1, <2>4, PutTypes DEF QueueTypes
  <2>6. QueueTypes' /\ ResultTypes'
    BY <1>1, <2>1, <2>2, <2>4, <2>5 DEF QueueTypes, ResultTypes, resultVars
  <2>7. \A d \in Channels : SameLoop(d)
    BY <2>2 DEF SameLoop, loopVars
  <2>8. LoopTypes'
    BY <1>1, <2>2 DEF LoopTypes, loopVars
  <2>9. \A d \in Channels : LoopOK(d)' /\ Watched(d)'
    BY <1>1, <1>2, <2>7, SameLoopOK
  <2> QED
    BY <2>6, <2>8, <2>9
<1>11. CASE HandlerReturns(c)
  <2>1. /\ pc[c] = "run" /\ Goto(c, "mark") /\ UNCHANGED <<stops, open, closed>>
        /\ done' = [done EXCEPT ![<<Handler(c), cur[c]>>] = @ + 1]
        /\ UNCHANGED <<queue, keys, sent, dead, dropped, faults>>
    BY <1>11 DEF HandlerReturns, Goto
  <2>2. at[c] # 0 /\ pc[c] \in Busy
    BY <1>4, <2>1 DEF LoopOK, Busy
  <2>3. Moves(c)
    BY <1>1, <1>3, <1>4, <2>1, <2>2, GotoMoves
  <2>4. done' \in [Handlers \X Events -> Nat]
    <3>1. Handler(c) \in Handlers /\ cur[c] \in Events
      BY <1>1, <1>4, <2>2, CurrentTypes
    <3> QED
      BY <1>1, <2>1, <3>1 DEF ResultTypes
  <2> QED
    BY <1>1, <2>1, <2>3, <2>4 DEF QueueTypes, ResultTypes
<1>12. CASE /\ pc[c] \in {"gate", "run", "mark"} /\ GiveUp(c)
            /\ UNCHANGED <<sent, done, dead, stops>>
            /\ keys' \subseteq STRING \X Events /\ faults' \in Nat
  <2>1. at[c] # 0 /\ pc[c] \in Busy
    BY <1>4, <1>12 DEF LoopOK, Busy
  <2>2. /\ Moves(c) /\ queue' \in [Channels -> Seq(Messages)]
        /\ closed' \subseteq [event : Events, offered : SUBSET Handlers]
        /\ dropped' \subseteq Handlers \X Events
    BY <1>1, <1>3, <1>4, <1>12, <2>1, GiveUpMoves
  <2> QED
    BY <1>1, <1>12, <2>2 DEF QueueTypes, ResultTypes
<1>13. CASE HandlerRaises(c)
  BY <1>1, <1>12, <1>13 DEF HandlerRaises, ResultTypes
<1>14. ASSUME pc[c] \in {"gate", "run", "mark"}
       PROVE  keys \subseteq STRING \X Events /\ keys \cup {Key(c)} \subseteq STRING \X Events
  <2>1. Key(c) \in STRING \X Events
    BY <1>1, <1>4, <1>14, CurrentTypes DEF LoopOK
  <2> QED
    BY <1>1, <2>1 DEF ResultTypes
<1>15. CASE MarkSeen(c)
  BY <1>8, <1>14, <1>15 DEF MarkSeen
<1>16. CASE StoreFails(c)
  <2>1. /\ pc[c] \in {"gate", "mark"} /\ keys' \in {keys, keys \cup {Key(c)}}
        /\ faults' = faults + 1 /\ GiveUp(c) /\ UNCHANGED <<sent, done, dead, stops>>
    BY <1>16 DEF StoreFails
  <2> QED
    BY <1>1, <1>12, <1>14, <2>1 DEF ResultTypes
<1>17. CASE LetterSent(c)
  <2>1. /\ pc[c] = "letter" /\ Advance(c, IF at[c] = 0 THEN 0 ELSE 1)
        /\ dead' = dead \cup {<<IF at[c] = 0 THEN None ELSE Handler(c), cur[c]>>}
        /\ UNCHANGED <<queue, keys, sent, done, dropped, stops, faults>>
    BY <1>17 DEF LetterSent
  <2>2. PICK ended \in {0, 1} : ended = (IF at[c] = 0 THEN 0 ELSE 1)
    OBVIOUS
  <2>3. Moves(c) /\ closed' \subseteq [event : Events, offered : SUBSET Handlers]
    <3>1. pc[c] \in Busy /\ (ended = 0 <=> at[c] = 0) /\ Advance(c, ended)
      BY <2>1, <2>2 DEF Busy
    <3> QED
      BY <1>1, <1>3, <1>4, <2>1, <3>1, AdvanceMoves
  <2>4. dead' \subseteq (Handlers \cup {None}) \X Events
    <3>1. cur[c] \in Events /\ (at[c] # 0 => Handler(c) \in Handlers)
      BY <1>1, <1>4, <2>1, CurrentTypes DEF LoopOK
    <3> QED
      BY <1>1, <2>1, <3>1 DEF ResultTypes
  <2> QED
    BY <1>1, <2>1, <2>3, <2>4 DEF QueueTypes, ResultTypes
<1> QED
  BY <1>6, <1>7, <1>9, <1>10, <1>11, <1>13, <1>15, <1>16, <1>17 DEF Loop

\* Registrations, publishers, other consumers, and tasks that start or end.
Outside ==
  \/ \E h \in Handlers : AddHandler(h)
  \/ Run \/ Stop
  \/ \E c \in Channels : Cancelled(c)
  \/ \E e \in Events : Publish(e)
  \/ \E c \in Drained : Drain(c)

LEMMA NextSplits ==
  Next => Outside \/ \E c \in Channels : Loop(c)
BY DEF Next, Outside

LEMMA OutsideTypesKept ==
  ASSUME TypeInv, Outside
  PROVE  TypeInv'
<1>1. /\ AppTypes /\ QueueTypes /\ LoopTypes /\ ResultTypes
      /\ \A d \in Channels : LoopOK(d) /\ Watched(d)
  BY Owners DEF TypeInv
<1>2. SUFFICES /\ AppTypes' /\ QueueTypes' /\ LoopTypes' /\ ResultTypes'
               /\ \A d \in Channels : LoopOK(d)' /\ Watched(d)'
  BY PartsMakeTypeInv
<1>3. ASSUME UNCHANGED handlers PROVE HandlersGrow
  BY <1>1, <1>3 DEF HandlersGrow, AppTypes
<1>4. ASSUME UNCHANGED <<loopVars, stops>> PROVE LoopTypes' /\ \A d \in Channels : SameLoop(d)
  BY <1>1, <1>4 DEF loopVars, LoopTypes, SameLoop
<1>5. ASSUME NEW h \in Handlers, AddHandler(h)
      PROVE  /\ AppTypes' /\ QueueTypes' /\ LoopTypes' /\ ResultTypes'
             /\ \A d \in Channels : LoopOK(d)' /\ Watched(d)'
  <2>1. /\ handlers' = Append(handlers, h) /\ Register(Decl[h].event_cls)
        /\ UNCHANGED <<queue, loopVars, keys, sent, resultVars, stops, faults>>
    BY <1>5 DEF AddHandler
  <2>2. handlers' \in Seq(Handlers) /\ HandlersGrow
    <3>1. handlers \in Seq(Handlers)
      BY <1>1 DEF AppTypes
    <3> QED
      BY <2>1, <3>1 DEF HandlersGrow
  <2>3. AppTypes'
    BY <1>1, <2>1, <2>2, HandlersHaveHomes DEF AppTypes, Register
  <2>4. QueueTypes' /\ ResultTypes'
    BY <1>1, <2>1 DEF QueueTypes, ResultTypes, resultVars
  <2>5. LoopTypes' /\ \A d \in Channels : LoopOK(d)' /\ Watched(d)'
    BY <1>1, <1>4, <2>1, <2>2, <2>3, SameLoopOK
  <2> QED
    BY <2>3, <2>4, <2>5
<1>6. CASE Run
  <2>1. UNCHANGED <<appVars, queue, keys, sent, resultVars, faults>>
    BY <1>6 DEF Run, EnsureChannels
  <2>2. AppTypes' /\ QueueTypes' /\ ResultTypes'
    BY <1>1, <2>1 DEF AppTypes, QueueTypes, ResultTypes, appVars, resultVars
  <2> QED
    BY <1>1, <1>6, <2>2, RunMoves
<1>7. CASE Stop
  <2>1. CancelAll /\ UNCHANGED <<appVars, queue, open, keys, sent, done, dead, dropped, faults>>
    BY <1>7 DEF Stop
  <2>2. UNCHANGED closed
    BY <2>1 DEF CancelAll
  <2>3. AppTypes' /\ QueueTypes' /\ ResultTypes'
    BY <1>1, <2>1, <2>2 DEF AppTypes, QueueTypes, ResultTypes, appVars
  <2>4. open' \in [Channels -> Nat] /\ (\A d \in Channels : open'[d] = open[d]) /\ UNCHANGED handlers
    BY <1>1, <2>1 DEF LoopTypes, appVars
  <2>5. LoopTypes' /\ \A d \in Channels : LoopOK(d)' /\ Watched(d)'
    BY <1>1, <2>1, <2>4, CancelAllMoves
  <2> QED
    BY <2>3, <2>5
<1>8. ASSUME NEW c \in Channels, Cancelled(c)
      PROVE  /\ AppTypes' /\ QueueTypes' /\ LoopTypes' /\ ResultTypes'
             /\ \A d \in Channels : LoopOK(d)' /\ Watched(d)'
  <2>1. LoopOK(c) /\ Watched(c)
    BY <1>1
  <2>2. Moves(c) /\ QueueTypes'
    BY <1>1, <1>8, <2>1, CancelledMoves
  <2>3. UNCHANGED <<appVars, open, keys, resultVars, stops, faults>>
    BY <1>8 DEF Cancelled
  <2>4. AppTypes' /\ ResultTypes' /\ HandlersGrow
    BY <1>1, <1>3, <2>3 DEF AppTypes, ResultTypes, appVars, resultVars
  <2>5. LoopTypes'
    BY <2>2 DEF Moves
  <2> QED
    BY <1>1, <2>2, <2>4, <2>5, MovesOK
<1>9. ASSUME UNCHANGED <<appVars, loopVars, keys, resultVars, stops, faults>>
      PROVE  /\ AppTypes' /\ LoopTypes' /\ ResultTypes'
             /\ \A d \in Channels : LoopOK(d)' /\ Watched(d)'
  <2>1. AppTypes' /\ ResultTypes' /\ HandlersGrow
    BY <1>1, <1>3, <1>9 DEF AppTypes, ResultTypes, appVars, resultVars
  <2> QED
    BY <1>1, <1>4, <1>9, <2>1, SameLoopOK
<1>10. ASSUME NEW e \in Events, Publish(e)
       PROVE  /\ AppTypes' /\ QueueTypes' /\ LoopTypes' /\ ResultTypes'
              /\ \A d \in Channels : LoopOK(d)' /\ Watched(d)'
  <2>1. /\ queue' = Put(queue, Made[e].channel, e, Publisher) /\ sent' = sent \cup {e}
        /\ UNCHANGED <<appVars, loopVars, keys, resultVars, stops, faults>>
    BY <1>10 DEF Publish
  <2>2. Made[e].channel \in Channels
    BY MemoryAssumption
  <2>3. queue' \in [Channels -> Seq(Messages)]
    BY <1>1, <2>1, <2>2, PutTypes DEF QueueTypes
  <2> QED
    BY <1>1, <1>9, <2>1, <2>3 DEF QueueTypes
<1>11. ASSUME NEW c \in Drained, Drain(c)
       PROVE  /\ AppTypes' /\ QueueTypes' /\ LoopTypes' /\ ResultTypes'
              /\ \A d \in Channels : LoopOK(d)' /\ Watched(d)'
  <2>1. /\ queue[c] # <<>> /\ queue' = [queue EXCEPT ![c] = Tail(@)]
        /\ UNCHANGED <<appVars, loopVars, keys, sent, resultVars, stops, faults>>
    BY <1>11 DEF Drain
  <2>2. c \in Channels
    BY MemoryAssumption
  <2>3. Tail(queue[c]) \in Seq(Messages)
    BY <1>1, <2>1, <2>2 DEF QueueTypes
  <2> QED
    BY <1>1, <1>9, <2>1, <2>3 DEF QueueTypes
<1> QED
  BY <1>5, <1>6, <1>7, <1>8, <1>10, <1>11 DEF Outside

LEMMA TypeStep == TypeInv /\ [Next]_vars => TypeInv'
<1> SUFFICES ASSUME TypeInv, [Next]_vars PROVE TypeInv'
  OBVIOUS
<1>1. CASE Next
  BY <1>1, NextSplits, LoopTypesKept, OutsideTypesKept
<1>2. CASE UNCHANGED vars
  <2>1. TypeOK'
    BY <1>2 DEF TypeInv, TypeOK, vars, appVars, loopVars, resultVars
  <2>2. \A d \in Channels : LoopOK(d)' /\ Watched(d)'
    BY <1>2 DEF TypeInv, LoopOK, Watched, Matching, TypeOfEvent,
                vars, appVars, loopVars
  <2> QED
    BY <2>1, <2>2 DEF TypeInv
<1> QED
  BY <1>1, <1>2

LEMMA TypeInit == Init => TypeInv
<1> SUFFICES ASSUME Init PROVE TypeInv
  OBVIOUS
<1>1. byType \in [Types -> Classes \cup {None}]
  <2>1. ASSUME NEW t \in Types
        PROVE  (IF \E k \in Bare : TypeOf[k] = t THEN CHOOSE k \in Bare : TypeOf[k] = t
                                                ELSE None) \in Classes \cup {None}
    <3>1. CASE \E k \in Bare : TypeOf[k] = t
      BY <3>1, MemoryAssumption
    <3> QED
      BY <3>1
  <2> QED
    BY <2>1 DEF Init
<1>2. TypeOK
  BY <1>1 DEF Init, TypeOK, PCs
<1>3. ASSUME NEW d \in Channels PROVE LoopOK(d) /\ Watched(d)
  BY DEF Init, LoopOK, Watched
<1> QED
  BY <1>2, <1>3 DEF TypeInv

\* The inductive invariant of the types and of the loops' control.
THEOREM TypeCorrect == Spec => []TypeInv
<1>1. Init => TypeInv
  BY TypeInit
<1>2. TypeInv /\ [Next]_vars => TypeInv'
  BY TypeStep
<1> QED
  BY <1>1, <1>2, PTL DEF Spec

\* Every variable holds what the code's types let it hold; a loop that is at a
\* handler is at one of its message's, and never beyond what is registered.
THEOREM TypeOKHolds == Spec => []TypeOK
<1>1. TypeInv => TypeOK
  BY DEF TypeInv
<1> QED
  BY <1>1, TypeCorrect, PTL

\* Telemetry: whatever way a handler ends (it returns, raises, is skipped, the
\* store fails, its dead letter is sent, its mode is unsupported), exactly one
\* on_consume_end answers its on_consume_start; what stays open is what a
\* cancelled loop was at.
THEOREM ObservedHolds == Spec => []Observed
<1>1. TypeInv => Observed
  BY Owners DEF TypeInv
<1> QED
  BY <1>1, TypeCorrect, PTL

-----------------------------------------------------------------------------
(* What each action of a loop at a message comes to.                       *)

\* It goes on past the handler it is at, or is done with the message.
GoesOn(c) == Moves(c) /\ (Continues(c) \/ Ends(c))

Relabels(c, from, to) == Moves(c) /\ Stays(c) /\ pc[c] = from /\ pc'[c] = to

Skips(c) ==
  /\ pc[c] = "gate" /\ Key(c) \in keys /\ GoesOn(c)
  /\ UNCHANGED <<queue, keys, sent, done, dead, dropped, stops, faults>>

Starts(c) ==
  /\ Relabels(c, "gate", "run") /\ Key(c) \notin keys
  /\ UNCHANGED <<queue, keys, sent, done, dead, dropped, stops, faults>>

Returns(c) ==
  /\ Relabels(c, "run", "mark") /\ ~Blocked(c)
  /\ done' = [done EXCEPT ![<<Handler(c), cur[c]>>] = @ + 1]
  /\ UNCHANGED <<queue, keys, sent, dead, dropped, stops, faults>>

Marks(c) ==
  /\ pc[c] = "mark" /\ keys' = keys \cup {Key(c)} /\ GoesOn(c)
  /\ UNCHANGED <<queue, sent, done, dead, dropped, stops, faults>>

Fails(c) ==
  /\ \/ pc[c] = "run" /\ ~Blocked(c) /\ UNCHANGED <<keys, faults>>
     \/ pc[c] = "gate" /\ UNCHANGED keys /\ faults' = faults + 1
     \/ pc[c] = "mark" /\ keys' \in {keys, keys \cup {Key(c)}} /\ faults' = faults + 1
  /\ \/ /\ Relabels(c, pc[c], "letter") /\ UNCHANGED dropped
        /\ queue' = Put(queue, LetterChannel(c), cur[c], c)
     \/ /\ GoesOn(c) /\ UNCHANGED queue
        /\ dropped' = dropped \cup {<<Handler(c), cur[c]>>}
  /\ UNCHANGED <<sent, done, dead, stops>>

Delivers(c) ==
  /\ pc[c] = "letter" /\ ~Blocked(c) /\ GoesOn(c)
  /\ dead' = dead \cup {<<IF at[c] = 0 THEN None ELSE Handler(c), cur[c]>>}
  /\ UNCHANGED <<queue, keys, sent, done, dropped, stops, faults>>

LEMMA LoopEffects ==
  ASSUME TypeInv, NEW c \in Channels, Loop(c)
  PROVE  \/ Take(c) /\ Moves(c) /\ Begins(c)
         \/ Abort(c) \/ Emit(c)
         \/ Skips(c) \/ Starts(c) \/ Returns(c) \/ Marks(c) \/ Fails(c) \/ Delivers(c)
<1>1. /\ AppTypes /\ QueueTypes /\ LoopTypes /\ ResultTypes
      /\ LoopOK(c) /\ Watched(c)
  BY Owners DEF TypeInv
<1>2. pc[c] \in {"gate", "run", "mark"} => at[c] # 0 /\ pc[c] \in Busy
  BY <1>1 DEF LoopOK, Busy
<1>3. ASSUME pc[c] \in {"gate", "mark"}, Advance(c, 1), UNCHANGED <<handlers, stops>>
      PROVE  GoesOn(c)
  BY <1>1, <1>2, <1>3, AdvanceMoves DEF GoesOn
<1>4. ASSUME pc[c] \in {"gate", "run", "mark"}, GiveUp(c), UNCHANGED <<handlers, stops>>
      PROVE  \/ /\ Relabels(c, pc[c], "letter") /\ UNCHANGED dropped
                /\ queue' = Put(queue, LetterChannel(c), cur[c], c)
             \/ /\ GoesOn(c) /\ UNCHANGED queue
                /\ dropped' = dropped \cup {<<Handler(c), cur[c]>>}
  BY <1>1, <1>2, <1>4, GiveUpMoves DEF GoesOn, Relabels
<1>5. CASE Take(c)
  BY <1>1, <1>5, TakeMoves
<1>6. CASE Gate(c)
  <2>1. /\ pc[c] = "gate" /\ IF Key(c) \in keys THEN Advance(c, 1) ELSE Goto(c, "run")
        /\ UNCHANGED <<queue, keys, sent, done, dead, dropped, stops, faults, handlers>>
    BY <1>6 DEF Gate, AlreadySeen, appVars
  <2>2. CASE Key(c) \in keys
    BY <1>3, <2>1, <2>2 DEF Skips
  <2>3. CASE Key(c) \notin keys
    <3>1. Goto(c, "run") /\ UNCHANGED open
      BY <2>1, <2>3 DEF Goto
    <3>2. Moves(c) /\ Stays(c) /\ pc'[c] = "run"
      BY <1>1, <1>2, <2>1, <3>1, GotoMoves
    <3> QED
      BY <2>1, <2>3, <3>2 DEF Starts, Relabels
  <2> QED
    BY <2>2, <2>3
<1>7. CASE HandlerReturns(c)
  <2>1. /\ pc[c] = "run" /\ ~Blocked(c) /\ Goto(c, "mark") /\ UNCHANGED open
        /\ done' = [done EXCEPT ![<<Handler(c), cur[c]>>] = @ + 1]
        /\ UNCHANGED <<queue, keys, sent, dead, dropped, stops, faults, handlers>>
    BY <1>7 DEF HandlerReturns, Goto, appVars
  <2>2. Moves(c) /\ Stays(c) /\ pc'[c] = "mark"
    BY <1>1, <1>2, <2>1, GotoMoves
  <2> QED
    BY <2>1, <2>2 DEF Returns, Relabels
<1>8. CASE HandlerRaises(c)
  <2>1. /\ pc[c] = "run" /\ ~Blocked(c) /\ GiveUp(c)
        /\ UNCHANGED <<keys, sent, done, dead, stops, faults, handlers>>
    BY <1>8 DEF HandlerRaises, appVars
  <2> QED
    BY <1>4, <2>1 DEF Fails
<1>9. CASE MarkSeen(c)
  <2>1. /\ pc[c] = "mark" /\ Advance(c, 1) /\ keys' = keys \cup {Key(c)}
        /\ UNCHANGED <<queue, sent, done, dead, dropped, stops, faults, handlers>>
    BY <1>9 DEF MarkSeen, appVars
  <2> QED
    BY <1>3, <2>1 DEF Marks
<1>10. CASE StoreFails(c)
  <2>1. /\ \/ pc[c] = "gate" /\ UNCHANGED keys
           \/ pc[c] = "mark" /\ keys' \in {keys, keys \cup {Key(c)}}
        /\ faults' = faults + 1 /\ GiveUp(c)
        /\ UNCHANGED <<sent, done, dead, stops, handlers>>
    BY <1>10 DEF StoreFails, appVars
  <2> QED
    BY <1>4, <2>1 DEF Fails
<1>11. CASE LetterSent(c)
  <2>1. /\ pc[c] = "letter" /\ ~Blocked(c) /\ Advance(c, IF at[c] = 0 THEN 0 ELSE 1)
        /\ dead' = dead \cup {<<IF at[c] = 0 THEN None ELSE Handler(c), cur[c]>>}
        /\ UNCHANGED <<queue, keys, sent, done, dropped, stops, faults, handlers>>
    BY <1>11 DEF LetterSent, appVars
  <2>2. PICK ended \in {0, 1} : ended = (IF at[c] = 0 THEN 0 ELSE 1)
    OBVIOUS
  <2>3. pc[c] \in Busy /\ (ended = 0 <=> at[c] = 0) /\ Advance(c, ended)
    BY <2>1, <2>2 DEF Busy
  <2>4. GoesOn(c)
    BY <1>1, <2>1, <2>3, AdvanceMoves DEF GoesOn
  <2> QED
    BY <2>1, <2>4 DEF Delivers
<1> QED
  BY <1>5, <1>6, <1>7, <1>8, <1>9, <1>10, <1>11 DEF Loop

-----------------------------------------------------------------------------
(* What the handlers of a message have come to.                            *)

\* The loop is at none of its message's handlers before the others have dealt
\* with it.
Passed(c) ==
  pc[c] \in Busy /\ at[c] # 0 =>
    \A i \in Matching(cur[c], upto[c]) : i < at[c] => Settled(handlers[i], cur[c])

Returned(c) == pc[c] = "mark" => done[<<Handler(c), cur[c]>>] > 0

\* A key stands for a handler of its name that returned.
KeysEarned ==
  \A k \in keys : \E g \in Handlers : Decl[g].name = k[1] /\ done[<<g, k[2]>>] > 0

SettledInv ==
  /\ \A c \in Channels : Passed(c) /\ Returned(c)
  /\ KeysEarned /\ ClosedSettled

\* What was dealt with stays so.
HistoryGrows ==
  /\ \A x \in Handlers \X Events : done[x] <= done'[x]
  /\ dead \subseteq dead' /\ dropped \subseteq dropped'

LEMMA SettledStays ==
  ASSUME TypeInv, TypeInv', HistoryGrows, NEW h \in Handlers, NEW e \in Events, Settled(h, e)
  PROVE  Settled(h, e)'
<1>1. \A x \in Handlers \X Events : done[x] \in Nat /\ done'[x] \in Nat
  BY DEF TypeInv, TypeOK
<1>2. ASSUME NEW g \in Handlers, done[<<g, e>>] > 0 PROVE done'[<<g, e>>] > 0
  BY <1>1, <1>2 DEF HistoryGrows
<1> QED
  BY <1>2 DEF Settled, HistoryGrows

\* The handlers of the message a loop is at.
LEMMA MatchingTypes ==
  ASSUME TypeInv, NEW c \in Channels
  PROVE  /\ upto[c] \in Nat /\ upto[c] <= Len(handlers) /\ at[c] \in Nat
         /\ \A i \in Matching(cur[c], upto[c]) :
              i \in Nat /\ i \in 1..Len(handlers) /\ handlers[i] \in Handlers
<1>1. upto[c] \in Nat /\ upto[c] <= Len(handlers) /\ handlers \in Seq(Handlers) /\ at[c] \in Nat
  BY DEF TypeInv, TypeOK, LoopOK
<1>2. \A i \in Matching(cur[c], upto[c]) : i \in 1..upto[c]
  BY DEF Matching
<1> QED
  BY <1>1, <1>2

\* The matching handlers of a loop the step does not touch stay the same.
LEMMA SameMatching ==
  ASSUME TypeInv, TypeInv', HandlersGrow, NEW d \in Channels,
         cur'[d] = cur[d], upto'[d] = upto[d]
  PROVE  Matching(cur[d], upto[d])' = Matching(cur[d], upto[d])
<1>1. AppTypes /\ AppTypes'
  BY DEF TypeInv, TypeOK, AppTypes
<1>2. PICK e, n : e = cur[d] /\ n = upto[d]
  OBVIOUS
<1>3. n \in Nat /\ n <= Len(handlers)
  BY <1>2, MatchingTypes
<1>4. Matching(e, n)' = Matching(e, n)
  BY <1>1, <1>3, MatchingStays
<1> QED
  BY <1>2, <1>4 DEF Matching, TypeOfEvent

LEMMA SameLoopSettled ==
  ASSUME TypeInv, TypeInv', HandlersGrow, HistoryGrows, NEW d \in Channels,
         SameLoop(d), Passed(d), Returned(d)
  PROVE  Passed(d)' /\ Returned(d)'
<1>1. Matching(cur[d], upto[d])' = Matching(cur[d], upto[d])
  BY SameMatching DEF SameLoop
<1>2. ASSUME NEW i \in Matching(cur[d], upto[d]), cur[d] \in Events, Settled(handlers[i], cur[d])
      PROVE  Settled(handlers[i], cur[d])'
  <2>1. PICK h \in Handlers, e \in Events : h = handlers[i] /\ e = cur[d]
    BY <1>2, MatchingTypes
  <2>2. Settled(h, e)'
    BY <1>2, <2>1, SettledStays
  <2>3. handlers'[i] = handlers[i] /\ cur'[d] = cur[d]
    BY MatchingTypes DEF HandlersGrow, SameLoop
  <2> QED
    BY <2>1, <2>2, <2>3 DEF Settled
<1>3. Passed(d)'
  BY <1>1, <1>2 DEF Passed, SameLoop, TypeInv, LoopOK
<1>4. Returned(d)'
  <2>1. SUFFICES ASSUME pc[d] = "mark" PROVE done'[<<Handler(d)', cur'[d]>>] > 0
    BY DEF Returned, SameLoop
  <2>2. at[d] # 0 /\ AppTypes /\ LoopTypes /\ LoopOK(d)
    BY <2>1 DEF TypeInv, TypeOK, LoopOK, AppTypes, LoopTypes
  <2>3. Handler(d) \in Handlers /\ cur[d] \in Events /\ at[d] \in 1..Len(handlers)
    BY <2>2, CurrentTypes
  <2>4. Handler(d)' = Handler(d) /\ cur'[d] = cur[d]
    BY <2>3 DEF Handler, HandlersGrow, SameLoop
  <2>5. done[<<Handler(d), cur[d]>>] > 0
    BY <2>1 DEF Returned
  <2> QED
    BY <2>3, <2>4, <2>5 DEF HistoryGrows, TypeInv, TypeOK
<1> QED
  BY <1>3, <1>4

\* A loop that goes on leaves a handler behind that has dealt with the message,
\* and a message only with all of them.
LEMMA GoesOnSettled ==
  ASSUME TypeInv, TypeInv', UNCHANGED handlers, HistoryGrows, NEW c \in Channels,
         pc[c] \in Busy, GoesOn(c), Passed(c), ClosedSettled,
         at[c] = 0 => <<None, cur[c]>> \in dead',
         \A h \in Handlers, e \in Events :
           at[c] # 0 /\ h = Handler(c) /\ e = cur[c] => Settled(h, e)'
  PROVE  Passed(c)' /\ Returned(c)' /\ ClosedSettled'
<1> DEFINE matching == Matching(cur[c], upto[c])
<1>1. HandlersGrow
  BY DEF HandlersGrow, TypeInv, TypeOK
<1>2. ASSUME NEW h \in Handlers, NEW e \in Events, Settled(h, e) PROVE Settled(h, e)'
  BY <1>2, SettledStays
<1>3. PICK e \in Events : e = cur[c]
  BY DEF TypeInv, LoopOK, Busy
<1>4. ASSUME NEW i \in matching, i <= at[c]
      PROVE  Settled(handlers[i], e)'
  <2>1. i \in Nat /\ i \in 1..Len(handlers) /\ at[c] \in Nat /\ handlers[i] \in Handlers
    BY MatchingTypes
  <2>2. at[c] # 0
    BY <1>4, <2>1
  <2>3. CASE i = at[c]
    <3>1. PICK h \in Handlers : h = handlers[i]
      BY <2>1
    <3>2. Settled(h, e)'
      BY <1>3, <2>2, <2>3, <3>1 DEF Handler
    <3> QED
      BY <3>1, <3>2 DEF Settled
  <2>4. CASE i < at[c]
    <3>1. Settled(handlers[i], e)
      BY <1>3, <2>2, <2>4 DEF Passed
    <3>2. PICK h \in Handlers : h = handlers[i]
      BY <2>1
    <3>3. Settled(h, e)'
      BY <1>2, <3>1, <3>2
    <3> QED
      BY <3>2, <3>3 DEF Settled
  <2> QED
    BY <1>4, <2>1, <2>3, <2>4
<1>5. ASSUME NEW x \in closed, NEW h \in x.offered, \A g \in x.offered : Settled(g, x.event)
      PROVE  Settled(h, x.event)'
  <2>1. PICK y \in [event : Events, offered : SUBSET Handlers] : y = x
    BY DEF TypeInv, TypeOK
  <2>2. PICK f \in Events : f = x.event
    BY <2>1
  <2>3. PICK g \in Handlers : g = h
    BY <2>1
  <2>4. Settled(g, f)'
    BY <1>2, <1>5, <2>2, <2>3
  <2> QED
    BY <2>2, <2>3, <2>4 DEF Settled
<1>6. \A x \in closed : IF x.offered = {} THEN <<None, x.event>> \in dead'
                                         ELSE \A h \in x.offered : Settled(h, x.event)'
  <2>1. ASSUME NEW x \in closed
        PROVE  IF x.offered = {} THEN <<None, x.event>> \in dead
                                 ELSE \A h \in x.offered : Settled(h, x.event)
    BY DEF ClosedSettled
  <2> QED
    BY <1>5, <2>1 DEF HistoryGrows
<1>7. CASE Continues(c)
  <2>1. /\ pc'[c] = "gate" /\ cur'[c] = cur[c] /\ upto'[c] = upto[c] /\ closed' = closed
        /\ at'[c] \in Ahead(c) /\ \A i \in Ahead(c) : at'[c] <= i
    BY <1>7 DEF Continues
  <2>2. Matching(cur[c], upto[c])' = matching
    BY <1>1, <2>1, SameMatching
  <2>3. ASSUME NEW i \in matching, i < at'[c] PROVE i <= at[c]
    <3>1. i \in Nat /\ at[c] \in Nat /\ at'[c] \in Nat
      BY MatchingTypes DEF TypeInv, TypeOK
    <3>2. ~(i \in Ahead(c))
      BY <2>1, <2>3, <3>1
    <3> QED
      BY <3>1, <3>2 DEF Ahead
  <2>4. \A i \in matching : i < at'[c] => Settled(handlers[i], e)'
    BY <1>4, <2>3
  <2>5. Passed(c)'
    BY <1>3, <2>1, <2>2, <2>4 DEF Passed, Settled
  <2> QED
    BY <1>6, <2>1, <2>5 DEF Returned, ClosedSettled, Settled
<1>8. CASE Ends(c)
  <2>1. /\ pc'[c] = "idle" /\ Ahead(c) = {}
        /\ closed' = closed \cup
             {[event |-> cur[c], offered |-> {handlers[i] : i \in matching}]}
    BY <1>8 DEF Ends
  <2>2. \A i \in matching : i <= at[c]
    BY <2>1, MatchingTypes DEF Ahead
  <2>3. ASSUME {handlers[i] : i \in matching} = {} PROVE <<None, cur[c]>> \in dead'
    <3>1. matching = {}
      BY <2>3
    <3>2. at[c] = 0
      BY <3>1 DEF TypeInv, LoopOK
    <3> QED
      BY <3>2
  <2>4. \A h \in {handlers[i] : i \in matching} : Settled(h, e)'
    <3>1. SUFFICES ASSUME NEW i \in matching, NEW h, h = handlers[i] PROVE Settled(h, e)'
      OBVIOUS
    <3>2. Settled(handlers[i], e)'
      BY <1>4, <2>2
    <3>3. handlers'[i] = handlers[i]
      OBVIOUS
    <3> QED
      BY <3>1, <3>2, <3>3 DEF Settled
  <2>5. ClosedSettled'
    <3>1. ASSUME NEW x \in closed'
          PROVE  IF x.offered = {} THEN <<None, x.event>> \in dead'
                                   ELSE \A h \in x.offered : Settled(h, x.event)'
      <4>1. CASE x \in closed
        BY <1>6, <4>1
      <4>2. CASE x \notin closed
        <5>1. x.event = e /\ x.offered = {handlers[i] : i \in matching}
          BY <1>3, <2>1, <3>1, <4>2
        <5> QED
          BY <1>3, <2>3, <2>4, <5>1
      <4> QED
        BY <4>1, <4>2
    <3> QED
      BY <3>1 DEF ClosedSettled, Settled
  <2> QED
    BY <2>1, <2>5 DEF Passed, Returned, Busy
<1> QED
  BY <1>7, <1>8 DEF GoesOn

LEMMA LoopSettled ==
  ASSUME TypeInv, TypeInv', SettledInv, NEW c \in Channels, Loop(c)
  PROVE  SettledInv'
<1>1. /\ AppTypes /\ LoopTypes /\ ResultTypes /\ LoopOK(c)
      /\ \A d \in Channels : Passed(d) /\ Returned(d)
  BY Owners DEF TypeInv, SettledInv
<1>2. UNCHANGED handlers /\ HandlersGrow
  <2>1. UNCHANGED appVars
    BY DEF Loop, Take, Abort, Gate, Emit, HandlerReturns, HandlerRaises, MarkSeen,
           StoreFails, LetterSent
  <2> QED
    BY <1>1, <2>1 DEF appVars, AppTypes, HandlersGrow
<1>3. pc[c] \in {"gate", "run", "mark"} => /\ at[c] # 0 /\ pc[c] \in Busy
                                         /\ Handler(c) \in Handlers /\ cur[c] \in Events
  BY <1>1, CurrentTypes DEF LoopOK, Busy
<1>4. ASSUME UNCHANGED done PROVE \A x \in Handlers \X Events : done[x] <= done'[x]
  BY <1>1, <1>4 DEF ResultTypes
\* Another loop; the store's keys.
<1>5. ASSUME HistoryGrows, NEW d \in Channels, SameLoop(d) PROVE Passed(d)' /\ Returned(d)'
  BY <1>1, <1>2, <1>5, SameLoopSettled
<1>6. ASSUME HistoryGrows,
             keys' \subseteq keys \/ (keys' = keys \cup {Key(c)} /\ pc[c] = "mark")
      PROVE  KeysEarned'
  <2>1. ASSUME NEW k \in keys'
        PROVE  \E g \in Handlers : Decl[g].name = k[1] /\ done'[<<g, k[2]>>] > 0
    <3>1. PICK g \in Handlers : Decl[g].name = k[1] /\ done[<<g, k[2]>>] > 0
      <4>1. CASE k \in keys
        BY <4>1 DEF SettledInv, KeysEarned
      <4>2. CASE k \notin keys
        BY <1>1, <1>3, <1>6, <2>1, <4>2 DEF Key, Returned
      <4> QED
        BY <4>1, <4>2
    <3>2. k[2] \in Events
      <4>1. k \in STRING \X Events
        BY <2>1 DEF TypeInv, TypeOK
      <4> QED
        BY <4>1
    <3>3. done[<<g, k[2]>>] \in Nat /\ done'[<<g, k[2]>>] \in Nat
      BY <3>2 DEF TypeInv, TypeOK
    <3> QED
      BY <1>6, <3>1, <3>2, <3>3 DEF HistoryGrows
  <2> QED
    BY <2>1 DEF KeysEarned
\* Closed messages, where none is added.
<1>7. ASSUME HistoryGrows, closed' = closed PROVE ClosedSettled'
  <2>1. ASSUME NEW x \in closed
        PROVE  IF x.offered = {} THEN <<None, x.event>> \in dead'
                                 ELSE \A h \in x.offered : Settled(h, x.event)'
    <3>1. PICK f \in Events : f = x.event
      BY <1>1 DEF ResultTypes
    <3>2. x.offered \subseteq Handlers
      BY <1>1 DEF ResultTypes
    <3>3. \A h \in Handlers : Settled(h, f) => Settled(h, f)'
      BY <1>7, SettledStays
    <3>4. IF x.offered = {} THEN <<None, f>> \in dead ELSE \A h \in x.offered : Settled(h, f)
      BY <3>1 DEF SettledInv, ClosedSettled
    <3>5. IF x.offered = {} THEN <<None, f>> \in dead' ELSE \A h \in x.offered : Settled(h, f)'
      BY <1>7, <3>2, <3>3, <3>4 DEF HistoryGrows
    <3> QED
      BY <3>1, <3>5 DEF Settled
  <2> QED
    BY <1>7, <2>1 DEF ClosedSettled, Settled
\* The loop goes on, or stays where it is.
<1>8. ASSUME HistoryGrows, GoesOn(c), pc[c] \in Busy,
             at[c] = 0 => <<None, cur[c]>> \in dead',
             \A h \in Handlers, e \in Events :
               at[c] # 0 /\ h = Handler(c) /\ e = cur[c] => Settled(h, e)'
      PROVE  (\A d \in Channels : Passed(d)' /\ Returned(d)') /\ ClosedSettled'
  <2>1. Passed(c)' /\ Returned(c)' /\ ClosedSettled'
    BY <1>1, <1>2, <1>8, GoesOnSettled DEF SettledInv
  <2>2. \A d \in Channels \ {c} : SameLoop(d)
    BY <1>8 DEF GoesOn, Moves
  <2> QED
    BY <1>5, <1>8, <2>1, <2>2
<1>9. ASSUME HistoryGrows, NEW from, NEW to, Relabels(c, from, to), pc[c] \in Busy,
             to = "mark" => at[c] # 0 /\ done'[<<Handler(c), cur[c]>>] > 0
      PROVE  (\A d \in Channels : Passed(d)' /\ Returned(d)') /\ ClosedSettled'
  <2>1. /\ Moves(c) /\ pc'[c] = to /\ at'[c] = at[c] /\ cur'[c] = cur[c]
        /\ upto'[c] = upto[c] /\ closed' = closed
    BY <1>9 DEF Relabels, Stays
  <2>2. Matching(cur[c], upto[c])' = Matching(cur[c], upto[c])
    BY <1>2, <2>1, SameMatching
  <2>3. ASSUME NEW i \in Matching(cur[c], upto[c]), cur[c] \in Events, Settled(handlers[i], cur[c])
        PROVE  Settled(handlers[i], cur[c])'
    <3>1. PICK h \in Handlers, e \in Events : h = handlers[i] /\ e = cur[c]
      BY <2>3, MatchingTypes
    <3>2. Settled(h, e)'
      BY <1>9, <2>3, <3>1, SettledStays
    <3> QED
      BY <1>2, <2>1, <3>1, <3>2 DEF Settled
  <2>4. Passed(c)'
    BY <1>1, <1>9, <2>1, <2>2, <2>3 DEF Passed, LoopOK, Busy
  <2>5. Returned(c)'
    BY <1>2, <1>9, <2>1 DEF Returned, Handler
  <2> QED
    BY <1>5, <1>7, <1>9, <2>1, <2>4, <2>5 DEF Moves
\* The actions.
<1>10. CASE Take(c) /\ Moves(c) /\ Begins(c)
  <2>1. UNCHANGED <<keys, closed, done, dead, dropped>>
    BY <1>10 DEF Take, resultVars
  <2>2. HistoryGrows
    BY <1>4, <2>1 DEF HistoryGrows
  <2>3. ASSUME NEW i \in Matching(cur[c], upto[c])', pc'[c] # "letter"
        PROVE  ~(i < at'[c])
    <3>1. upto'[c] = Len(handlers) /\ \A j \in Matching(cur'[c], Len(handlers)) : at'[c] <= j
      BY <1>10, <2>3 DEF Begins
    <3>2. i \in Matching(cur'[c], Len(handlers)) /\ i \in 1..Len(handlers)
      BY <1>2, <2>3, <3>1 DEF Matching, TypeOfEvent
    <3>3. Len(handlers) \in Nat /\ at'[c] \in Nat
      BY <1>1 DEF TypeInv, TypeOK, AppTypes
    <3> QED
      BY <3>1, <3>2, <3>3
  <2>4. pc'[c] = "gate" \/ (pc'[c] = "letter" /\ at'[c] = 0)
    BY <1>10 DEF Begins
  <2>5. Passed(c)' /\ Returned(c)'
    BY <2>3, <2>4 DEF Passed, Returned
  <2> QED
    BY <1>5, <1>6, <1>7, <1>10, <2>1, <2>2, <2>5 DEF Moves, SettledInv
<1>11. CASE Abort(c)
  <2>1. CancelAll /\ UNCHANGED <<keys, done, dead, dropped>>
    BY <1>11 DEF Abort
  <2>2. HistoryGrows
    BY <1>4, <2>1 DEF HistoryGrows
  <2>3. UNCHANGED closed /\ \A d \in Channels : pc'[d] \in {"down", "stopping"}
    BY <2>1 DEF CancelAll
  <2>4. \A d \in Channels : Passed(d)' /\ Returned(d)'
    BY <2>3 DEF Passed, Returned, Busy
  <2> QED
    BY <1>6, <1>7, <2>1, <2>2, <2>3, <2>4 DEF SettledInv
<1>12. CASE Emit(c)
  <2>1. UNCHANGED <<loopVars, stops, keys, resultVars>>
    BY <1>12 DEF Emit
  <2>2. HistoryGrows
    BY <1>4, <2>1 DEF HistoryGrows, resultVars
  <2>3. \A d \in Channels : SameLoop(d)
    BY <2>1 DEF SameLoop, loopVars
  <2> QED
    BY <1>5, <1>6, <1>7, <2>1, <2>2, <2>3 DEF SettledInv, resultVars
<1>13. CASE Skips(c)
  <2>1. HistoryGrows
    BY <1>4, <1>13 DEF Skips, HistoryGrows
  <2>2. PICK g \in Handlers : Decl[g].name = Decl[Handler(c)].name /\ done[<<g, cur[c]>>] > 0
    <3>1. Key(c)[1] = Decl[Handler(c)].name /\ Key(c)[2] = cur[c]
      BY DEF Key
    <3> QED
      BY <1>13, <3>1 DEF Skips, SettledInv, KeysEarned
  <2>3. \A h \in Handlers, e \in Events : h = Handler(c) /\ e = cur[c] => Settled(h, e)'
    BY <1>13, <2>2 DEF Settled, Skips
  <2> QED
    BY <1>3, <1>6, <1>8, <1>13, <2>1, <2>3 DEF Skips, SettledInv
<1>14. CASE Starts(c)
  <2>1. HistoryGrows
    BY <1>4, <1>14 DEF Starts, HistoryGrows
  <2> QED
    BY <1>3, <1>6, <1>9, <1>14, <2>1 DEF Starts, SettledInv, Relabels
<1>15. CASE Returns(c)
  <2>1. Handler(c) \in Handlers /\ cur[c] \in Events /\ at[c] # 0 /\ pc[c] \in Busy
    BY <1>3, <1>15 DEF Returns, Relabels
  <2>2. done' = [done EXCEPT ![<<Handler(c), cur[c]>>] = @ + 1]
    BY <1>15 DEF Returns
  <2>3. done'[<<Handler(c), cur[c]>>] > 0 /\ \A x \in Handlers \X Events : done[x] <= done'[x]
    BY <1>1, <2>1, <2>2 DEF ResultTypes
  <2>4. HistoryGrows
    BY <1>15, <2>3 DEF Returns, HistoryGrows
  <2> QED
    BY <1>6, <1>9, <1>15, <2>1, <2>3, <2>4 DEF Returns, SettledInv
<1>16. CASE Marks(c)
  <2>1. HistoryGrows
    BY <1>4, <1>16 DEF Marks, HistoryGrows
  <2>2. \A h \in Handlers, e \in Events : h = Handler(c) /\ e = cur[c] => Settled(h, e)'
    BY <1>1, <1>16 DEF Settled, Marks, Returned
  <2> QED
    BY <1>3, <1>6, <1>8, <1>16, <2>1, <2>2 DEF Marks, SettledInv
<1>17. CASE Fails(c)
  <2>1. /\ pc[c] \in {"gate", "run", "mark"}
        /\ keys' \subseteq keys \/ (keys' = keys \cup {Key(c)} /\ pc[c] = "mark")
        /\ UNCHANGED <<done, dead>>
        /\ \/ Relabels(c, pc[c], "letter") /\ UNCHANGED dropped
           \/ GoesOn(c) /\ dropped' = dropped \cup {<<Handler(c), cur[c]>>}
    BY <1>17 DEF Fails
  <2>2. HistoryGrows
    BY <1>4, <2>1 DEF HistoryGrows
  <2>3. CASE Relabels(c, pc[c], "letter")
    BY <1>3, <1>6, <1>9, <2>1, <2>2, <2>3 DEF SettledInv
  <2>4. CASE GoesOn(c) /\ dropped' = dropped \cup {<<Handler(c), cur[c]>>}
    <3>1. \A h \in Handlers, e \in Events : h = Handler(c) /\ e = cur[c] => Settled(h, e)'
      BY <2>4 DEF Settled
    <3> QED
      BY <1>3, <1>6, <1>8, <2>1, <2>2, <2>4, <3>1 DEF SettledInv
  <2> QED
    BY <2>1, <2>3, <2>4
<1>18. CASE Delivers(c)
  <2>1. HistoryGrows
    BY <1>4, <1>18 DEF Delivers, HistoryGrows
  <2>2. \A h \in Handlers, e \in Events :
          at[c] # 0 /\ h = Handler(c) /\ e = cur[c] => Settled(h, e)'
    BY <1>18 DEF Settled, Delivers
  <2>3. at[c] = 0 => <<None, cur[c]>> \in dead'
    BY <1>18 DEF Delivers
  <2>4. GoesOn(c) /\ pc[c] \in Busy /\ UNCHANGED keys
    BY <1>18 DEF Delivers, Busy
  <2> QED
    BY <1>6, <1>8, <2>1, <2>2, <2>3, <2>4 DEF SettledInv
<1> QED
  BY <1>10, <1>11, <1>12, <1>13, <1>14, <1>15, <1>16, <1>17, <1>18, LoopEffects

\* What happens outside a message keeps what is known of its handlers, and
\* leaves the loops alone, but for those whose tasks start or end.
LEMMA OutsideEffects ==
  ASSUME TypeInv, TypeInv', Outside
  PROVE  /\ HandlersGrow /\ UNCHANGED <<keys, resultVars, faults>>
         /\ \A d \in Channels : SameLoop(d) \/ pc'[d] \in {"down", "idle", "stopping"}
<1>1. handlers \in Seq(Handlers) /\ handlers' \in Seq(Handlers)
  BY DEF TypeInv, TypeOK
<1>2. ASSUME UNCHANGED handlers PROVE HandlersGrow
  BY <1>1, <1>2 DEF HandlersGrow
<1>3. ASSUME UNCHANGED <<loopVars, stops>> PROVE \A d \in Channels : SameLoop(d)
  BY <1>3 DEF loopVars, SameLoop
<1>4. CASE \E h \in Handlers : AddHandler(h)
  <2>1. PICK h \in Handlers : AddHandler(h)
    BY <1>4
  <2>2. /\ handlers' = Append(handlers, h)
        /\ UNCHANGED <<loopVars, stops, keys, resultVars, faults>>
    BY <2>1 DEF AddHandler
  <2> QED
    BY <1>1, <1>3, <2>2 DEF HandlersGrow
<1>5. CASE Run
  <2>1. UNCHANGED <<appVars, keys, resultVars, faults>>
    BY <1>5 DEF Run
  <2>2. \A d \in Channels : pc'[d] \in {"down", "idle"}
    BY <1>5 DEF Run
  <2> QED
    BY <1>2, <2>1, <2>2 DEF appVars
<1>6. CASE Stop
  BY <1>2, <1>6 DEF Stop, CancelAll, appVars, resultVars
<1>7. CASE \E c \in Channels : Cancelled(c)
  <2>1. PICK c \in Channels : Cancelled(c)
    BY <1>7
  <2>2. AppTypes /\ LoopTypes /\ QueueTypes /\ LoopOK(c) /\ Watched(c)
    BY Owners DEF TypeInv
  <2>3. Moves(c) /\ pc'[c] = "down"
    BY <2>1, <2>2, CancelledMoves
  <2>4. UNCHANGED <<appVars, keys, resultVars, faults>>
    BY <2>1 DEF Cancelled
  <2> QED
    BY <1>2, <2>3, <2>4 DEF Moves, appVars
<1>8. CASE \E e \in Events : Publish(e)
  BY <1>2, <1>3, <1>8 DEF Publish, appVars
<1>9. CASE \E c \in Drained : Drain(c)
  BY <1>2, <1>3, <1>9 DEF Drain, appVars
<1> QED
  BY <1>4, <1>5, <1>6, <1>7, <1>8, <1>9 DEF Outside

LEMMA OutsideSettled ==
  ASSUME TypeInv, TypeInv', SettledInv, Outside
  PROVE  SettledInv'
<1>1. /\ HandlersGrow /\ UNCHANGED <<keys, closed, done, dead, dropped>>
      /\ \A d \in Channels : SameLoop(d) \/ pc'[d] \in {"down", "idle", "stopping"}
  BY OutsideEffects DEF resultVars
<1>2. HistoryGrows
  BY <1>1 DEF HistoryGrows, TypeInv, TypeOK
<1>3. ASSUME NEW d \in Channels PROVE Passed(d)' /\ Returned(d)'
  <2>1. CASE SameLoop(d)
    BY <1>1, <1>2, <2>1, SameLoopSettled DEF SettledInv
  <2>2. CASE pc'[d] \in {"down", "idle", "stopping"}
    BY <2>2 DEF Passed, Returned, Busy
  <2> QED
    BY <1>1, <2>1, <2>2
<1>4. KeysEarned'
  BY <1>1 DEF SettledInv, KeysEarned
<1>5. ClosedSettled'
  BY <1>1 DEF SettledInv, ClosedSettled, Settled
<1> QED
  BY <1>3, <1>4, <1>5 DEF SettledInv

LEMMA SettledStep == TypeInv /\ TypeInv' /\ SettledInv /\ [Next]_vars => SettledInv'
<1> SUFFICES ASSUME TypeInv, TypeInv', SettledInv, [Next]_vars PROVE SettledInv'
  OBVIOUS
<1>1. CASE Next
  BY <1>1, NextSplits, LoopSettled, OutsideSettled
<1>2. CASE UNCHANGED vars
  BY <1>2 DEF SettledInv, Passed, Returned, KeysEarned, ClosedSettled, Settled, Matching,
              TypeOfEvent, Handler, vars, appVars, loopVars, resultVars
<1> QED
  BY <1>1, <1>2

\* Nothing is closed without its handlers: one that never reached a handler was
\* dead-lettered as it is, and of any other each handler of its type that was
\* registered when it was taken has returned for it (or one of its name has),
\* was dead-lettered, or is on record as given up.
THEOREM ClosedSettledHolds == Spec => []ClosedSettled
<1>1. Init => SettledInv
  BY DEF Init, SettledInv, Passed, Returned, KeysEarned, ClosedSettled, Busy
<1>2. TypeInv /\ TypeInv' /\ SettledInv /\ [Next]_vars => SettledInv'
  BY SettledStep
<1>3. SettledInv => ClosedSettled
  BY DEF SettledInv
<1> QED
  BY <1>1, <1>2, <1>3, TypeCorrect, PTL DEF Spec

-----------------------------------------------------------------------------
(* The class a handler gets.                                               *)

\* Of every type with a handler, the class the registry holds is that of its
\* last handler.
ClassOf(i) == Decl[handlers[i]].event_cls
Latest(i) ==
  \E j \in i..Len(handlers) : /\ TypeOf[ClassOf(j)] = TypeOf[ClassOf(i)]
                              /\ ClassOf(j) = byType[TypeOf[ClassOf(i)]]

\* What a loop decoded its message to is the class of each matching handler or
\* of one registered after it.
Decoded(c) ==
  pc[c] \in Busy /\ at[c] # 0 =>
    \A i \in Matching(cur[c], upto[c]) : \E j \in i..Len(handlers) : ClassOf(j) = as[c]

ClassInv ==
  /\ \A i \in 1..Len(handlers) : Latest(i)
  /\ \A c \in Channels : Decoded(c)

\* The class of a position stays; so does the one a loop decoded to.
LEMMA SameLoopDecoded ==
  ASSUME TypeInv, TypeInv', HandlersGrow, NEW d \in Channels, Decoded(d),
         pc[d] \in Busy, at[d] # 0,
         cur'[d] = cur[d], upto'[d] = upto[d], as'[d] = as[d]
  PROVE  Decoded(d)'
<1>1. Matching(cur[d], upto[d])' = Matching(cur[d], upto[d])
  BY SameMatching
<1>2. ASSUME NEW i \in Matching(cur[d], upto[d])
      PROVE  \E j \in i..Len(handlers') : ClassOf(j)' = as[d]
  <2>1. PICK j \in i..Len(handlers) : ClassOf(j) = as[d]
    BY DEF Decoded
  <2>2. i \in Nat /\ i \in 1..Len(handlers)
    BY MatchingTypes
  <2>3. Len(handlers) \in Nat /\ Len(handlers') \in Nat
    BY DEF TypeInv, TypeOK
  <2>4. j \in 1..Len(handlers) /\ j \in i..Len(handlers')
    BY <2>2, <2>3 DEF HandlersGrow
  <2> QED
    BY <2>1, <2>4 DEF ClassOf, HandlersGrow
<1> QED
  BY <1>1, <1>2 DEF Decoded

LEMMA LatestStays ==
  ASSUME UNCHANGED appVars, NEW i, Latest(i)
  PROVE  Latest(i)'
BY DEF Latest, ClassOf, appVars

LEMMA LoopClass ==
  ASSUME TypeInv, TypeInv', ClassInv, NEW c \in Channels, Loop(c)
  PROVE  ClassInv'
<1>1. UNCHANGED appVars
  BY DEF Loop, Take, Abort, Gate, Emit, HandlerReturns, HandlerRaises, MarkSeen,
         StoreFails, LetterSent
<1>2. UNCHANGED handlers /\ HandlersGrow
  BY <1>1 DEF appVars, HandlersGrow, TypeInv, TypeOK
<1>3. \A i \in 1..Len(handlers') : Latest(i)'
  BY <1>1, <1>2, LatestStays DEF ClassInv
<1>4. ASSUME NEW d \in Channels, SameLoop(d) PROVE Decoded(d)'
  <2>1. CASE pc[d] \in Busy /\ at[d] # 0
    BY <1>2, <1>4, <2>1, SameLoopDecoded DEF SameLoop, ClassInv
  <2>2. CASE ~(pc[d] \in Busy /\ at[d] # 0)
    BY <1>4, <2>2 DEF SameLoop, Decoded
  <2> QED
    BY <2>1, <2>2
<1>5. SUFFICES \A d \in Channels : Decoded(d)'
  BY <1>3 DEF ClassInv
<1>6. CASE Take(c) /\ Moves(c) /\ Begins(c)
  <2>1. CASE pc'[c] = "letter" /\ at'[c] = 0
    BY <1>4, <1>6, <2>1 DEF Moves, Decoded
  <2>2. CASE /\ upto'[c] = Len(handlers) /\ as'[c] = byType[TypeOfEvent(cur'[c])]
    <3>1. ASSUME NEW i \in Matching(cur[c], upto[c])'
          PROVE  \E j \in i..Len(handlers') : ClassOf(j)' = as'[c]
      <4>1. i \in 1..Len(handlers) /\ TypeOf[ClassOf(i)] = TypeOfEvent(cur'[c])
        BY <1>2, <2>2, <3>1 DEF Matching, TypeOfEvent, ClassOf
      <4>2. PICK j \in i..Len(handlers) : ClassOf(j) = byType[TypeOf[ClassOf(i)]]
        BY <4>1 DEF ClassInv, Latest
      <4> QED
        BY <1>2, <2>2, <4>1, <4>2 DEF ClassOf
    <3> QED
      BY <1>4, <1>6, <3>1 DEF Moves, Decoded
  <2> QED
    BY <1>6, <2>1, <2>2 DEF Begins
<1>7. CASE Abort(c)
  BY <1>7 DEF Abort, CancelAll, Decoded, Busy
<1>8. CASE Emit(c)
  BY <1>4, <1>8 DEF Emit, loopVars, SameLoop
<1>9. ASSUME pc[c] \in Busy, Moves(c), Continues(c) \/ Ends(c) \/ Stays(c)
      PROVE  \A d \in Channels : Decoded(d)'
  <2>1. Decoded(c)'
    <3>1. CASE Ends(c)
      BY <3>1 DEF Ends, Decoded
    <3>2. CASE at[c] = 0 /\ Stays(c)
      BY <3>2 DEF Stays, Decoded
    <3>3. CASE at[c] = 0 /\ Continues(c)
      <4>1. Ahead(c) = {}
        BY <3>3 DEF Ahead, Matching, TypeInv, LoopOK
      <4> QED
        BY <3>3, <4>1 DEF Continues
    <3>4. CASE at[c] # 0 /\ (Continues(c) \/ Stays(c))
      BY <1>2, <1>9, <3>4, SameLoopDecoded DEF ClassInv, Continues, Stays
    <3> QED
      BY <1>9, <3>1, <3>2, <3>3, <3>4
  <2> QED
    BY <1>4, <1>9, <2>1 DEF Moves
<1>10. ASSUME Skips(c) \/ Starts(c) \/ Returns(c) \/ Marks(c) \/ Fails(c) \/ Delivers(c)
       PROVE  pc[c] \in Busy /\ Moves(c) /\ (Continues(c) \/ Ends(c) \/ Stays(c))
  BY <1>10 DEF Skips, Starts, Returns, Marks, Fails, Delivers, GoesOn, Relabels, Busy
<1> QED
  BY <1>6, <1>7, <1>8, <1>9, <1>10, LoopEffects

\* Registered last, registered: the new class of its type is that of the new
\* handler, which comes after all others of the type.
LEMMA AddLatest ==
  ASSUME TypeInv, TypeInv', ClassInv, NEW h \in Handlers, AddHandler(h)
  PROVE  \A i \in 1..Len(handlers') : Latest(i)'
<1> DEFINE n == Len(handlers)
           t == TypeOf[Decl[h].event_cls]
<1>1. /\ handlers' = Append(handlers, h)
      /\ byType' = [byType EXCEPT ![t] = Decl[h].event_cls]
  BY DEF AddHandler, Register
<1>2. /\ n \in Nat /\ Len(handlers') = n + 1 /\ handlers'[n + 1] = h
      /\ \A i \in 1..n : handlers'[i] = handlers[i]
  BY <1>1 DEF TypeInv, TypeOK
<1>3. /\ byType'[t] = Decl[h].event_cls
      /\ \A u \in Types \ {t} : byType'[u] = byType[u]
  BY <1>1, HandlersHaveHomes DEF TypeInv, TypeOK
<1> HIDE DEF n
<1>4. ASSUME NEW i \in 1..n + 1 PROVE Latest(i)'
  <2>1. CASE TypeOf[ClassOf(i)'] = t
    <3>1. PICK m \in Nat : m = n + 1
      BY <1>2
    <3>2. m \in i..Len(handlers') /\ ClassOf(m)' = Decl[h].event_cls
      BY <1>2, <3>1 DEF ClassOf
    <3> QED
      BY <1>3, <2>1, <3>2 DEF Latest
  <2>2. CASE TypeOf[ClassOf(i)'] # t
    <3>1. i \in 1..n
      BY <1>2, <2>2 DEF ClassOf
    <3>2. ClassOf(i)' = ClassOf(i) /\ handlers[i] \in Handlers
      BY <1>2, <3>1 DEF ClassOf, TypeInv, TypeOK, n
    <3>3. PICK j \in i..n : /\ TypeOf[ClassOf(j)] = TypeOf[ClassOf(i)]
                            /\ ClassOf(j) = byType[TypeOf[ClassOf(i)]]
      BY <3>1 DEF ClassInv, Latest, n
    <3>4. j \in 1..n /\ j \in i..Len(handlers')
      BY <1>2, <3>1
    <3>5. ClassOf(j)' = ClassOf(j)
      BY <1>2, <3>4 DEF ClassOf
    <3>6. TypeOf[ClassOf(i)] \in Types \ {t}
      BY <2>2, <3>2, HandlersHaveHomes DEF ClassOf
    <3>7. byType'[TypeOf[ClassOf(i)]] = byType[TypeOf[ClassOf(i)]]
      BY <1>3, <3>6
    <3> QED
      BY <3>2, <3>3, <3>4, <3>5, <3>7 DEF Latest
  <2> QED
    BY <2>1, <2>2
<1> QED
  BY <1>2, <1>4

LEMMA OutsideClass ==
  ASSUME TypeInv, TypeInv', ClassInv, Outside
  PROVE  ClassInv'
<1>1. /\ HandlersGrow
      /\ \A d \in Channels : SameLoop(d) \/ pc'[d] \in {"down", "idle", "stopping"}
  BY OutsideEffects
<1>2. ASSUME NEW d \in Channels PROVE Decoded(d)'
  <2>1. CASE SameLoop(d) /\ pc[d] \in Busy /\ at[d] # 0
    BY <1>1, <2>1, SameLoopDecoded DEF SameLoop, ClassInv
  <2>2. CASE SameLoop(d) /\ ~(pc[d] \in Busy /\ at[d] # 0)
    BY <2>2 DEF SameLoop, Decoded
  <2>3. CASE pc'[d] \in {"down", "idle", "stopping"}
    BY <2>3 DEF Decoded, Busy
  <2> QED
    BY <1>1, <2>1, <2>2, <2>3
<1>3. \A i \in 1..Len(handlers') : Latest(i)'
  <2>1. CASE \E h \in Handlers : AddHandler(h)
    BY <2>1, AddLatest
  <2>2. CASE ~\E h \in Handlers : AddHandler(h)
    <3>1. UNCHANGED appVars
      BY <2>2 DEF Outside, Run, Stop, Cancelled, Publish, Drain
    <3> QED
      BY <3>1, LatestStays DEF ClassInv, appVars
  <2> QED
    BY <2>1, <2>2
<1> QED
  BY <1>2, <1>3 DEF ClassInv

LEMMA ClassStep == TypeInv /\ TypeInv' /\ ClassInv /\ [Next]_vars => ClassInv'
<1> SUFFICES ASSUME TypeInv, TypeInv', ClassInv, [Next]_vars PROVE ClassInv'
  OBVIOUS
<1>1. CASE Next
  BY <1>1, NextSplits, LoopClass, OutsideClass
<1>2. CASE UNCHANGED vars
  BY <1>2 DEF ClassInv, Decoded, Latest, ClassOf, Matching, TypeOfEvent,
              vars, appVars, loopVars
<1> QED
  BY <1>1, <1>2

\* The class a message was decoded to is the running handler's own, or that of
\* a handler registered after it under the same type: Registry.register only
\* ever replaces a class by a later one.
THEOREM OwnClassHolds == Spec => []OwnClass
<1>1. Init => ClassInv
  BY DEF Init, ClassInv, Decoded, Busy
<1>2. TypeInv /\ TypeInv' /\ ClassInv /\ [Next]_vars => ClassInv'
  BY ClassStep
<1>3. TypeInv /\ ClassInv => OwnClass
  <2> SUFFICES ASSUME TypeInv, ClassInv, NEW c \in Channels, pc[c] = "run",
                      as[c] # Decl[Handler(c)].event_cls
               PROVE  \E i \in at[c] + 1..Len(handlers) : Decl[handlers[i]].event_cls = as[c]
    BY DEF OwnClass
  <2>1. at[c] # 0 /\ at[c] \in Matching(cur[c], upto[c]) /\ pc[c] \in Busy
    BY DEF TypeInv, LoopOK, Busy
  <2>2. PICK j \in at[c]..Len(handlers) : ClassOf(j) = as[c]
    BY <2>1 DEF ClassInv, Decoded
  <2>3. at[c] \in Nat /\ Len(handlers) \in Nat
    BY DEF TypeInv, TypeOK
  <2>4. j # at[c]
    BY <2>2 DEF ClassOf, Handler
  <2>5. j \in at[c] + 1..Len(handlers)
    BY <2>3, <2>4
  <2> QED
    BY <2>2, <2>5 DEF ClassOf
<1> QED
  BY <1>1, <1>2, <1>3, TypeCorrect, PTL DEF Spec

=============================================================================
