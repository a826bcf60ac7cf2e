--------------------------- MODULE MemoryDelivery ---------------------------
(***************************************************************************)
(* An App on a MemoryBroker: handlers are registered, App.run starts one   *)
(* loop per channel, and _handle_message runs in that loop.  A channel is  *)
(* an anyio memory object stream: it buffers max_buffer_size messages, and *)
(* whoever sends to a full one, a publisher or a loop in the middle of a   *)
(* message, waits in line behind it.                                       *)
(*                                                                         *)
(* The broker keeps nothing of a message once a loop has taken it, and has *)
(* no schedule_retry: a retryable failure raises AttributeError inside the *)
(* handler loop, whose outer except ends where a fatal failure does.       *)
(***************************************************************************)
EXTENDS Naturals, SequencesExt, FiniteSetsExt

CONSTANTS
  Handlers,  \* functions decorated with @subscribe
  Decl,      \* their __evora_spec__: event_cls, name, channel, dlq, mode
             \* ("event_id" or another), declared (passes the strict checks)
  Strict,    \* App.strict
  Classes,   \* event classes
  TypeOf,    \* event_type() of each class; several may share one
  Reads,     \* <<reader, writer>>: reader validates what writer dumps
  Bare,      \* classes registered beforehand, without a handler
  Events,    \* events published
  Made,      \* of each event, its cls and the channel it is published to
  Emits,     \* [Handlers -> SUBSET Events]: what a handler may publish
  Channels,  \* channel names
  DlqOf,     \* channel + dlq_suffix, of the channels the App may consume
  Drained,   \* channels that a consumer outside the App empties
  Cap,       \* max_buffer_size
  MaxAdds,   \* bound: handlers registered
  MaxStops,  \* bound: times the loop of a channel is cancelled, aborts apart
  MaxFaults  \* bound: failed calls of the idempotency store

Homes == {Decl[h].channel : h \in Handlers}
Types == {TypeOf[k] : k \in Classes}
External == Events \ UNION {Emits[h] : h \in Handlers}
Publisher == "publisher"
None == "none"

ASSUME MemoryAssumption ==
  /\ Decl \in [Handlers -> [event_cls : Classes, name : STRING, mode : STRING,
                            channel : Channels, dlq : BOOLEAN, declared : BOOLEAN]]
  /\ Strict \in BOOLEAN
  /\ TypeOf \in [Classes -> STRING] /\ Reads \subseteq Classes \X Classes
  /\ Bare \subseteq Classes /\ None \notin Classes
  /\ Made \in [Events -> [cls : Classes, channel : Channels]] /\ None \notin Events
  /\ Emits \in [Handlers -> SUBSET Events]
  /\ DlqOf \in [Homes -> Channels] /\ Publisher \notin Channels
  /\ IsFiniteSet(Channels)
  /\ Drained \subseteq Channels \ Homes
  /\ \A e \in Events : Made[e].channel \notin Drained
  /\ Cap \in Nat \ {0} /\ MaxAdds \in Nat /\ MaxStops \in Nat /\ MaxFaults \in Nat

VARIABLES
  handlers,  \* App._handlers
  byType,    \* Registry._by_type
  queue,     \* of each channel: the first Cap are buffered, the rest wait
  pc,        \* what the loop of each channel does
  cur,       \* event of the message it processes
  as,        \* class it was decoded to
  upto,      \* length of _handlers when it was matched
  at,        \* position in _handlers of the handler being run, 0 for none
  keys,      \* idempotency keys <<handler name, event>>
  sent,      \* history: events handed to a stream and not withdrawn
  closed,    \* history: messages dealt with, and the handlers they matched
  done,      \* history: how often each handler returned for each event
  dead,      \* history: <<handler or None, event>> dead-lettered
  dropped,   \* history: <<handler, event>> given up without a dead letter
  open,      \* of each channel: on_consume_start without an on_consume_end
  stops,     \* how often the loop of each channel was cancelled
  faults     \* failed calls of the store so far

appVars == <<handlers, byType>>
loopVars == <<pc, cur, as, upto, at, open>>
resultVars == <<closed, done, dead, dropped>>
vars == <<appVars, queue, loopVars, keys, sent, resultVars, stops, faults>>

Init ==
  /\ handlers = <<>>
  /\ byType = [t \in Types |-> IF \E k \in Bare : TypeOf[k] = t
                               THEN CHOOSE k \in Bare : TypeOf[k] = t ELSE None]
  /\ queue = [c \in Channels |-> <<>>]
  /\ pc = [c \in Channels |-> "down"]
  /\ cur = [c \in Channels |-> None]
  /\ as = [c \in Channels |-> None]
  /\ upto = [c \in Channels |-> 0]
  /\ at = [c \in Channels |-> 0]
  /\ open = [c \in Channels |-> 0]
  /\ keys = {} /\ sent = {} /\ closed = {} /\ dead = {} /\ dropped = {}
  /\ done = [x \in Handlers \X Events |-> 0]
  /\ stops = [c \in Channels |-> 0] /\ faults = 0

-----------------------------------------------------------------------------
(* Streams.                                                                *)

Put(q, c, e, by) == [q EXCEPT ![c] = Append(@, [event |-> e, by |-> by])]

\* Position i of channel c holds a message whose sender still waits.
Waits(c, i) == i \in Cap + 1 .. Len(queue[c])

\* The task of loop c is waiting to send to d; to anything.
WaitsFor(c, d) == \E i \in DOMAIN queue[d] : Waits(d, i) /\ queue[d][i].by = c
Blocked(c) == \E d \in Channels : WaitsFor(c, d)

-----------------------------------------------------------------------------
(* Registration.                                                           *)

\* Seeded bug: the first class of a type is kept.
RegisterFirst(k) ==
  byType' = [byType EXCEPT ![TypeOf[k]] = IF @ = None THEN k ELSE @]

\* Registry.register: the last class of a type replaces the one before.
Register(k) == byType' = [byType EXCEPT ![TypeOf[k]] = k]

\* add_handler; in strict mode an incomplete declaration raises.  Nothing
\* keeps a function from being added twice.
AddHandler(h) ==
  /\ Len(handlers) < MaxAdds
  /\ Strict => Decl[h].declared
  /\ Register(Decl[h].event_cls)
  /\ handlers' = Append(handlers, h)
  /\ UNCHANGED <<queue, loopVars, keys, sent, resultVars, stops, faults>>

\* Seeded bug: _ensure_channel makes a new stream each time.
EnsureChannelsAnew(S) ==
  queue' = [c \in Channels |-> IF c \in S THEN <<>> ELSE queue[c]]

\* _ensure_channel: a stream that exists is kept, with what it buffers.
EnsureChannels(S) == UNCHANGED queue

\* App.run: one loop for each channel of a handler registered by now.
Run ==
  /\ \A c \in Channels : pc[c] = "down"
  /\ \A c \in Channels : stops[c] <= MaxStops
  /\ LET S == {Decl[handlers[i]].channel : i \in DOMAIN handlers}
     IN  /\ S # {}
         /\ EnsureChannels(S)
         /\ pc' = [c \in Channels |-> IF c \in S THEN "idle" ELSE "down"]
  /\ UNCHANGED <<appVars, cur, as, upto, at, open, keys, sent, resultVars, stops, faults>>

-----------------------------------------------------------------------------
(* _handle_message in the loop of channel c.                               *)

TypeOfEvent(e) == TypeOf[Made[e].cls]
Handler(c) == handlers[at[c]]
Key(c) == <<Decl[Handler(c)].name, cur[c]>>

\* Seeded bug: the handlers are matched anew before each of them.
MatchingNow(e, n) ==
  {i \in DOMAIN handlers : TypeOf[Decl[handlers[i]].event_cls] = TypeOfEvent(e)}

\* Positions of the handlers among the first n that take e: by type alone,
\* whatever channel the message came from.
Matching(e, n) ==
  {i \in 1..n : TypeOf[Decl[handlers[i]].event_cls] = TypeOfEvent(e)}

Goto(c, label) ==
  /\ pc' = [pc EXCEPT ![c] = label]
  /\ UNCHANGED <<cur, as, upto, at, open, closed>>

\* The calls of Telemetry: on_consume_end and on_consume_start.
Observe(c, ended, begun) == open' = [open EXCEPT ![c] = @ - ended + begun]

\* On to the next matching handler; after the last, the next message.  The
\* branch that gets here has called on_consume_end that often.
Advance(c, ended) ==
  LET matching == Matching(cur[c], upto[c])
      left == {i \in matching : i > at[c]}
  IN  IF left # {}
      THEN /\ at' = [at EXCEPT ![c] = Min(left)]
           /\ pc' = [pc EXCEPT ![c] = "gate"]
           /\ Observe(c, ended, 1)
           /\ UNCHANGED <<cur, as, upto, closed>>
      ELSE /\ pc' = [pc EXCEPT ![c] = "idle"]
           /\ Observe(c, ended, 0)
           /\ cur' = [cur EXCEPT ![c] = None]
           /\ as' = [as EXCEPT ![c] = None]
           /\ upto' = [upto EXCEPT ![c] = 0]
           /\ at' = [at EXCEPT ![c] = 0]
           /\ closed' = closed \cup
                {[event |-> cur[c], offered |-> {handlers[i] : i \in matching}]}

\* The next message is decoded and matched.  One of a type nobody registered,
\* one its type's class does not read and one without a handler are published
\* as they are to the channel's own DLQ.
Take(c) ==
  /\ pc[c] = "idle" /\ queue[c] # <<>>
  /\ LET e == Head(queue[c]).event
         k == byType[TypeOfEvent(e)]
         matching == Matching(e, Len(handlers))
         rest == [queue EXCEPT ![c] = Tail(@)]
     IN  /\ cur' = [cur EXCEPT ![c] = e]
         /\ IF <<k, Made[e].cls>> \in Reads /\ matching # {}
            THEN /\ pc' = [pc EXCEPT ![c] = "gate"]
                 /\ as' = [as EXCEPT ![c] = k]
                 /\ upto' = [upto EXCEPT ![c] = Len(handlers)]
                 /\ at' = [at EXCEPT ![c] = Min(matching)]
                 /\ Observe(c, 0, 1)
                 /\ queue' = rest
            ELSE /\ pc' = [pc EXCEPT ![c] = "letter"]
                 /\ queue' = Put(rest, DlqOf[c], e, c)
                 /\ UNCHANGED <<as, upto, at, open>>
  /\ UNCHANGED <<appVars, keys, sent, resultVars, stops, faults>>

\* Every task of App.run is cancelled.
CancelAll ==
  /\ stops' = [c \in Channels |-> IF pc[c] = "down" THEN stops[c] ELSE stops[c] + 1]
  /\ pc' = [c \in Channels |-> IF pc[c] = "down" THEN "down" ELSE "stopping"]
  /\ UNCHANGED <<cur, as, upto, at, closed>>

GoodMode(c) == Decl[Handler(c)].mode = "event_id"

\* The unsupported mode raises before the try: out of the loop of this channel,
\* whose task group cancels the loops of all others.
Abort(c) ==
  /\ pc[c] = "gate" /\ ~GoodMode(c)
  /\ CancelAll
  /\ Observe(c, 1, 0)
  /\ UNCHANGED <<appVars, queue, keys, sent, done, dead, dropped, faults>>

\* Seeded bug: the gate is never shut.
AlreadySeenNever(c) == FALSE

AlreadySeen(c) == Key(c) \in keys

\* Seeded bug: a handler that is skipped is not reported as ended.
GateUnreported(c) ==
  /\ pc[c] = "gate" /\ GoodMode(c)
  /\ IF AlreadySeen(c) THEN Advance(c, 0) ELSE Goto(c, "run")
  /\ UNCHANGED <<appVars, queue, keys, sent, done, dead, dropped, stops, faults>>

Gate(c) ==
  /\ pc[c] = "gate" /\ GoodMode(c)
  /\ IF AlreadySeen(c) THEN Advance(c, 1) ELSE Goto(c, "run")
  /\ UNCHANGED <<appVars, queue, keys, sent, done, dead, dropped, stops, faults>>

\* The running handler publishes an event of its own, and waits with its loop
\* where the stream is full.
Emit(c) ==
  /\ pc[c] = "run" /\ ~Blocked(c)
  /\ \E e \in Emits[Handler(c)] \ sent :
       /\ queue' = Put(queue, Made[e].channel, e, c)
       /\ sent' = sent \cup {e}
  /\ UNCHANGED <<appVars, loopVars, keys, resultVars, stops, faults>>

HandlerReturns(c) ==
  /\ pc[c] = "run" /\ ~Blocked(c)
  /\ done' = [done EXCEPT ![<<Handler(c), cur[c]>>] = @ + 1]
  /\ Goto(c, "mark")
  /\ UNCHANGED <<appVars, queue, keys, sent, dead, dropped, stops, faults>>

\* _send_dlq: the DLQ of the handler's channel, not of the message's.
LetterChannel(c) == DlqOf[Decl[Handler(c)].channel]

\* Seeded bugs: what fails is tried again, without a limit; it is neither
\* dead-lettered nor recorded.
GiveUpTriesAgain(c) == Goto(c, "gate") /\ UNCHANGED <<queue, dropped>>
GiveUpSilently(c) == Advance(c, 1) /\ UNCHANGED <<queue, dropped>>

\* A failure, of the handler or around it: a dead letter, or nothing.
GiveUp(c) ==
  IF Decl[Handler(c)].dlq
  THEN /\ queue' = Put(queue, LetterChannel(c), cur[c], c)
       /\ Goto(c, "letter")
       /\ UNCHANGED dropped
  ELSE /\ dropped' = dropped \cup {<<Handler(c), cur[c]>>}
       /\ Advance(c, 1)
       /\ UNCHANGED queue

\* Any exception of the handler: without a schedule_retry there is no retry.
HandlerRaises(c) ==
  /\ pc[c] = "run" /\ ~Blocked(c)
  /\ GiveUp(c)
  /\ UNCHANGED <<appVars, keys, sent, done, dead, stops, faults>>

MarkSeen(c) ==
  /\ pc[c] = "mark"
  /\ keys' = keys \cup {Key(c)}
  /\ Advance(c, 1)
  /\ UNCHANGED <<appVars, queue, sent, done, dead, dropped, stops, faults>>

\* seen or mark_seen raises; mark_seen may have set the key.
StoreFails(c) ==
  /\ faults < MaxFaults
  /\ \/ pc[c] = "gate" /\ GoodMode(c) /\ UNCHANGED keys
     \/ pc[c] = "mark" /\ keys' \in {keys, keys \cup {Key(c)}}
  /\ faults' = faults + 1
  /\ GiveUp(c)
  /\ UNCHANGED <<appVars, sent, done, dead, stops>>

\* The stream has taken the dead letter, that of a handler or of a message
\* that reached none.
LetterSent(c) ==
  /\ pc[c] = "letter" /\ ~Blocked(c)
  /\ dead' = dead \cup {<<IF at[c] = 0 THEN None ELSE Handler(c), cur[c]>>}
  /\ Advance(c, IF at[c] = 0 THEN 0 ELSE 1)
  /\ UNCHANGED <<appVars, queue, keys, sent, done, dropped, stops, faults>>

Loop(c) ==
  \/ Take(c) \/ Abort(c) \/ Gate(c) \/ Emit(c) \/ HandlerReturns(c)
  \/ HandlerRaises(c) \/ MarkSeen(c) \/ StoreFails(c) \/ LetterSent(c)

-----------------------------------------------------------------------------
(* The end of a consumer, publishers and other consumers.                  *)

Stop ==
  /\ \E c \in Channels : pc[c] \notin {"down", "stopping"}
  /\ \A c \in Channels : stops[c] < MaxStops
  /\ CancelAll
  /\ UNCHANGED <<appVars, queue, open, keys, sent, done, dead, dropped, faults>>

\* A loop's task ends: what it waited to send is withdrawn, what it processed
\* is gone, and so is a message the stream had just handed to it.
Cancelled(c) ==
  /\ pc[c] = "stopping"
  /\ pc' = [pc EXCEPT ![c] = "down"]
  /\ cur' = [cur EXCEPT ![c] = None]
  /\ as' = [as EXCEPT ![c] = None]
  /\ upto' = [upto EXCEPT ![c] = 0]
  /\ at' = [at EXCEPT ![c] = 0]
  /\ \/ /\ ~Blocked(c)
        /\ UNCHANGED <<queue, sent>>
     \/ /\ cur[c] = None /\ queue[c] # <<>>
        /\ queue' = [queue EXCEPT ![c] = Tail(@)]
        /\ UNCHANGED sent
     \/ \E d \in Channels : \E i \in DOMAIN queue[d] :
          /\ Waits(d, i) /\ queue[d][i].by = c
          /\ queue' = [queue EXCEPT ![d] = RemoveAt(@, i)]
          /\ sent' = sent \ ({queue[d][i].event} \ {cur[c]})
  /\ UNCHANGED <<appVars, open, keys, resultVars, stops, faults>>

\* App.publish from outside any handler; a task of its own, which may wait.
Publish(e) ==
  /\ e \in External \ sent
  /\ queue' = Put(queue, Made[e].channel, e, Publisher)
  /\ sent' = sent \cup {e}
  /\ UNCHANGED <<appVars, loopVars, keys, resultVars, stops, faults>>

\* run_consumer on a channel with a handler that is not an App.
Drain(c) ==
  /\ queue[c] # <<>>
  /\ queue' = [queue EXCEPT ![c] = Tail(@)]
  /\ UNCHANGED <<appVars, loopVars, keys, sent, resultVars, stops, faults>>

Next ==
  \/ \E h \in Handlers : AddHandler(h)
  \/ Run \/ Stop
  \/ \E c \in Channels : Loop(c) \/ Cancelled(c)
  \/ \E e \in Events : Publish(e)
  \/ \E c \in Drained : Drain(c)

Spec == Init /\ [][Next]_vars

\* The event loop runs every task that can go on, and handlers end.
Fairness ==
  /\ \A c \in Homes : WF_vars(Loop(c)) /\ WF_vars(Cancelled(c))
  /\ \A c \in Drained : WF_vars(Drain(c))

FairSpec == Spec /\ Fairness

-----------------------------------------------------------------------------
(* Properties.                                                             *)

PCs == {"down", "idle", "gate", "run", "mark", "letter", "stopping"}

\* The variables hold values of the types the code gives them; a loop runs one
\* of the handlers that were registered when it matched its message, though
\* add_handler may append others while it is at it.
TypeOK ==
  /\ handlers \in Seq(Handlers)
  /\ byType \in [Types -> Classes \cup {None}]
  /\ queue \in [Channels -> Seq([event : Events, by : Channels \cup {Publisher}])]
  /\ pc \in [Channels -> PCs]
  /\ cur \in [Channels -> Events \cup {None}]
  /\ as \in [Channels -> Classes \cup {None}]
  /\ upto \in [Channels -> Nat] /\ at \in [Channels -> Nat]
  /\ \A c \in Channels : at[c] <= upto[c] /\ upto[c] <= Len(handlers)
  /\ keys \subseteq STRING \X Events
  /\ sent \subseteq Events
  /\ closed \subseteq [event : Events, offered : SUBSET Handlers]
  /\ done \in [Handlers \X Events -> Nat]
  /\ dead \subseteq (Handlers \cup {None}) \X Events
  /\ dropped \subseteq Handlers \X Events
  /\ open \in [Channels -> Nat]
  /\ stops \in [Channels -> Nat] /\ faults \in Nat

\* Handler h, or one that shares its idempotency scope, has dealt with e.
Settled(h, e) ==
  \/ \E g \in Handlers : Decl[g].name = Decl[h].name /\ done[<<g, e>>] > 0
  \/ <<h, e>> \in dead
  \/ <<h, e>> \in dropped

\* A message is done with only when every handler of its type has dealt with
\* it, or the message as a whole was dead-lettered: failures of one handler, of
\* the store and of the missing schedule_retry stay with that handler.
ClosedSettled ==
  \A x \in closed : IF x.offered = {} THEN <<None, x.event>> \in dead
                                      ELSE \A h \in x.offered : Settled(h, x.event)

Queued(e) ==
  \E c \in Channels : \E i \in DOMAIN queue[c] : queue[c][i].event = e

Gone ==
  {e \in sent : /\ ~Queued(e)
                /\ \A c \in Channels : cur[c] # e
                /\ \A x \in closed : x.event # e}

\* Without acknowledgements a cancelled consumer loses what it was at: of each
\* channel at most one message for each time its loop was cancelled, and
\* nothing that was still queued.
LossBound ==
  \A c \in Channels : Cardinality({e \in Gone : Made[e].channel = c}) <= stops[c]

\* No handler returns twice for an event, registered twice or not, unless the
\* store failed to keep its key.
CompletesOnce == \A h \in Handlers, e \in Events : done[<<h, e>>] <= 1 + faults

\* Telemetry: whatever way a handler ends, on_consume_end is called once for its
\* on_consume_start; only what a cancelled loop was at stays open.
Observed ==
  \A c \in Channels :
    LET running == IF at[c] = 0 \/ pc[c] = "stopping" THEN 0 ELSE 1
    IN  open[c] \in running .. running + stops[c]

\* A handler gets an instance of a class other than its own only when that
\* class was registered under the same type after it.
OwnClass ==
  \A c \in Channels :
    pc[c] = "run" /\ as[c] # Decl[Handler(c)].event_cls =>
      \E i \in at[c] + 1 .. Len(handlers) : Decl[handlers[i]].event_cls = as[c]

\* Loops that wait for each other, or for a channel nobody empties.
Doomed(c) ==
  \E D \in SUBSET Homes :
    /\ c \in D
    /\ \A x \in D : \E d \in Channels :
         WaitsFor(x, d) /\ (d \in D \/ (d \notin Drained /\ pc[d] = "down"))

\* A message that a loop has begun it ends, and so it comes to the next one,
\* unless the loops it needs wait for each other, for themselves or for a
\* channel nobody empties.
Finishes ==
  \A c \in Homes :
    pc[c] \notin {"down", "idle"} ~> pc[c] \in {"down", "idle"} \/ Doomed(c)

=============================================================================
