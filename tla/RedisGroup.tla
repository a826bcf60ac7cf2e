----------------------------- MODULE RedisGroup -----------------------------
(***************************************************************************)
(* The Redis server as evora uses it: one channel's stream with its one    *)
(* consumer group, the channel's retry ZSET, its dead-letter stream and    *)
(* the idempotency keys.  Redis is not part of the repository: each        *)
(* command below is modelled from the way RedisStreamsBroker and           *)
(* RedisIdempotencyStore call it, and each is one atomic step, as Redis    *)
(* executes a command or a MULTI pipeline.                                 *)
(*                                                                         *)
(* A payload is abstracted to the event it carries.  Stream ids are the    *)
(* positions 1, 2, ... of the entries.  The clock is abstracted to two     *)
(* facts it decides: which pending entries have been idle long enough to   *)
(* be claimed, and which members of the ZSET have a score in the past.     *)
(***************************************************************************)
EXTENDS Naturals, Sequences, FiniteSets, Functions

CONSTANTS
  Events,        \* the published events (one envelope id each)
  NumHandlers,   \* handlers registered for the events' type
  MaxEntries     \* bound: entries the stream may hold

Handlers == 1..NumHandlers

ASSUME RedisAssumption == NumHandlers \in Nat \ {0} /\ MaxEntries \in Nat

VARIABLES
  stream,   \* XADD order: [event, attempt] entries, never trimmed
  group,    \* has the consumer group been created?
  origin,   \* length of the stream when the group was created with id "$"
  last,     \* the group's last-delivered id
  pel,      \* pending entries list: ids delivered and not acknowledged
  idle,     \* pending ids whose idle time has passed poison_idle_ms
  retryz,   \* the retry ZSET: members [event, attempt, err]
  due,      \* members whose score (due time) has passed
  keys,     \* idempotency keys <<handler, event>>
  dlq       \* dead letters [event, handler, why]; handler 0: not one handler's

redisVars == <<stream, group, origin, last, pel, idle, retryz, due, keys, dlq>>

Ids == 1..Len(stream)

RedisInit ==
  /\ stream = <<>>
  /\ group = FALSE
  /\ origin = 0
  /\ last = 0
  /\ pel = {}
  /\ idle = {}
  /\ retryz = {}
  /\ due = {}
  /\ keys = {}
  /\ dlq = {}

-----------------------------------------------------------------------------
(* What is known of an event.                                              *)

\* An entry of e the group will still deliver, or has not seen acknowledged,
\* or a member of the ZSET that will put one back.
Live(e) ==
  \/ \E id \in Ids : id > last /\ stream[id].event = e
  \/ \E id \in pel : stream[id].event = e
  \/ \E m \in retryz : m.event = e

\* The group is entitled to e: it was added after XGROUP CREATE ... "$".
Accepted(e) == group /\ \E id \in Ids : id > origin /\ stream[id].event = e

\* The n smallest ids of S, all of them when there are fewer.
FirstOf(n, S) == {id \in S : Cardinality({j \in S : j < id}) < n}

\* Every order in which a reply could list the members of S.
Orders(S) == Surjection(1..Cardinality(S), S)

-----------------------------------------------------------------------------
(* Commands.  Each leaves every part of the server it does not name alone. *)

\* Seeded bug: a (re)start sets the group back to where it began.
XGroupReset ==
  /\ group' = TRUE
  /\ IF group THEN last' = origin /\ UNCHANGED origin
              ELSE origin' = Len(stream) /\ last' = Len(stream)
  /\ UNCHANGED <<stream, pel, idle, retryz, due, keys, dlq>>

\* XGROUP CREATE id="$" MKSTREAM; BUSYGROUP when it exists.
XGroupCreate ==
  /\ group' = TRUE
  /\ IF group THEN UNCHANGED <<origin, last>>
              ELSE origin' = Len(stream) /\ last' = Len(stream)
  /\ UNCHANGED <<stream, pel, idle, retryz, due, keys, dlq>>

\* XADD channel of one entry.
XAdd(entry) ==
  /\ Len(stream) < MaxEntries
  /\ stream' = Append(stream, entry)
  /\ UNCHANGED <<group, origin, last, pel, idle, retryz, due, keys, dlq>>

\* XREADGROUP ">" delivering the next n entries to the caller.
XReadGroup(n) ==
  /\ last' = last + n
  /\ pel' = pel \cup (last + 1)..(last + n)
  /\ UNCHANGED <<stream, group, origin, idle, retryz, due, keys, dlq>>

\* XAUTOCLAIM / XCLAIM of the idle entries in S: their idle time restarts.
XClaim(S) ==
  /\ idle' = idle \ S
  /\ UNCHANGED <<stream, group, origin, last, pel, retryz, due, keys, dlq>>

\* XACK; no effect on an id that is no longer pending.
XAck(id) ==
  /\ pel' = pel \ {id}
  /\ idle' = idle \ {id}
  /\ UNCHANGED <<stream, group, origin, last, retryz, due, keys, dlq>>

\* Seeded bug: the retry is scheduled and the message left pending.
ZAddOnly(m, id) ==
  /\ retryz' = retryz \cup {m}
  /\ due' = due \ {m}
  /\ UNCHANGED <<stream, group, origin, last, pel, idle, keys, dlq>>

\* MULTI ZADD member; XACK id EXEC.  ZADD of a present member rescores it.
ZAddAndAck(m, id) ==
  /\ retryz' = retryz \cup {m}
  /\ due' = due \ {m}
  /\ pel' = pel \ {id}
  /\ idle' = idle \ {id}
  /\ UNCHANGED <<stream, group, origin, last, keys, dlq>>

\* MULTI (XADD channel; ZREM member)* EXEC over the members in the order s.
AddAndZRem(s) ==
  /\ Len(stream) + Len(s) <= MaxEntries
  /\ stream' = stream \o [i \in 1..Len(s) |->
                            [event |-> s[i].event, attempt |-> s[i].attempt]]
  /\ retryz' = retryz \ {s[i] : i \in 1..Len(s)}
  /\ due' = due \ {s[i] : i \in 1..Len(s)}
  /\ UNCHANGED <<group, origin, last, pel, idle, keys, dlq>>

\* XADD channel.dlq.
DlqAdd(letter) ==
  /\ dlq' = dlq \cup {letter}
  /\ UNCHANGED <<stream, group, origin, last, pel, idle, retryz, due, keys>>

\* SET key NX EX ttl.
SetKey(key) ==
  /\ keys' = keys \cup {key}
  /\ UNCHANGED <<stream, group, origin, last, pel, idle, retryz, due, dlq>>

-----------------------------------------------------------------------------
(* Time.                                                                   *)

\* A pending entry has been idle for poison_idle_ms, its holder dead or slow.
GoIdle(id) ==
  /\ id \in pel \ idle
  /\ idle' = idle \cup {id}
  /\ UNCHANGED <<stream, group, origin, last, pel, retryz, due, keys, dlq>>

\* The score of a member of the ZSET is now in the past.
BecomeDue(m) ==
  /\ m \in retryz \ due
  /\ due' = due \cup {m}
  /\ UNCHANGED <<stream, group, origin, last, pel, idle, retryz, keys, dlq>>

\* The TTL of an idempotency key runs out.
Expire(key) ==
  /\ key \in keys
  /\ keys' = keys \ {key}
  /\ UNCHANGED <<stream, group, origin, last, pel, idle, retryz, due, dlq>>
=============================================================================
