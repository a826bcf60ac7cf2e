------------------------- MODULE MemoryCopiesProofs -------------------------
(***************************************************************************)
(* Theorems about the copies of a message in MemoryDelivery, where the App *)
(* does not consume the channels its own dead letters go to: a handler     *)
(* returns once for an event, and a cancelled loop loses at most the one   *)
(* message it was at or was about to take.                                 *)
(***************************************************************************)
EXTENDS MemoryDeliveryProofs

-----------------------------------------------------------------------------
(* Copies of a message.                                                    *)

\* The App does not consume the channels its own dead letters go to.
LettersApart == \A c \in Homes : DlqOf[c] \notin Homes

Holds(c, e) == \E i \in 1..Len(queue[c]) : queue[c][i].event = e

\* A home channel has each of its events once, in its stream or in its loop.
Distinct(c) ==
  \A i, j \in 1..Len(queue[c]) : queue[c][i].event = queue[c][j].event => i = j

HomeOK(c) ==
  /\ Distinct(c)
  /\ \A e \in Events : Holds(c, e) =>
       /\ Made[e].channel = c /\ e \in sent
       /\ \A h \in Handlers : done[<<h, e>>] = 0

TakenOK(c) ==
  cur[c] # None => Made[cur[c]].channel = c /\ cur[c] \in sent /\ ~Holds(c, cur[c])

DoneOK ==
  \A h \in Handlers, e \in Events :
    done[<<h, e>>] > 0 => e \in sent /\ Made[e].channel \in Homes

\* What a loop waits to send is its dead letter or an event of its handler's.
WaitOK(d) ==
  \A i \in 1..Len(queue[d]) :
    LET m == queue[d][i]
    IN  Waits(d, i) /\ m.by \in Channels =>
          /\ pc[m.by] \in {"run", "letter", "stopping"} /\ cur[m.by] # None
          /\ IF m.event = cur[m.by] THEN d \notin Homes ELSE Made[m.event].channel = d

OneWait ==
  \A d1, d2 \in Channels : \A i \in 1..Len(queue[d1]), j \in 1..Len(queue[d2]) :
    /\ Waits(d1, i) /\ Waits(d2, j)
    /\ queue[d1][i].by = queue[d2][j].by /\ queue[d1][i].by \in Channels
    => d1 = d2 /\ i = j

CopyInv ==
  /\ \A c \in Homes : HomeOK(c)
  /\ \A c \in Channels : TakenOK(c) /\ WaitOK(c)
  /\ DoneOK /\ OneWait

-----------------------------------------------------------------------------
(* Steps of a stream.                                                      *)

\* A message joins at the end; the one at position k leaves.
Joins(d, e, by) == queue'[d] = Append(queue[d], [event |-> e, by |-> by])
Leaves(d, k) ==
  /\ k \in 1..Len(queue[d]) /\ Len(queue'[d]) = Len(queue[d]) - 1
  /\ \A j \in 1..Len(queue[d]) - 1 :
       queue'[d][j] = queue[d][IF j < k THEN j ELSE j + 1]

\* Nothing joins: what is there was there, no further ahead.
Thins(d) ==
  \E f \in [1..Len(queue'[d]) -> 1..Len(queue[d])] :
    /\ \A j \in 1..Len(queue'[d]) : j <= f[j] /\ queue'[d][j] = queue[d][f[j]]
    /\ \A i, j \in 1..Len(queue'[d]) : f[i] = f[j] => i = j

LEMMA QueueLength ==
  ASSUME TypeInv, NEW d \in Channels
  PROVE  /\ queue[d] \in Seq(Messages) /\ Len(queue[d]) \in Nat
         /\ \A i \in 1..Len(queue[d]) :
              /\ queue[d][i] \in Messages /\ queue[d][i].event \in Events
              /\ queue[d][i].by \in Channels \cup {Publisher}
<1>1. queue[d] \in Seq(Messages)
  BY DEF TypeInv, TypeOK, Messages
<1>2. \A i \in 1..Len(queue[d]) : queue[d][i] \in Messages
  BY <1>1
<1> QED
  BY <1>1, <1>2 DEF Messages

LEMMA SameThins ==
  ASSUME TypeInv, NEW d \in Channels, queue'[d] = queue[d]
  PROVE  Thins(d)
<1> DEFINE f == [j \in 1..Len(queue[d]) |-> j]
<1>1. Len(queue[d]) \in Nat
  BY QueueLength
<1>2. f \in [1..Len(queue'[d]) -> 1..Len(queue[d])]
  OBVIOUS
<1>3. \A j \in 1..Len(queue'[d]) : j <= f[j] /\ queue'[d][j] = queue[d][f[j]]
  BY <1>1
<1>4. \A i, j \in 1..Len(queue'[d]) : f[i] = f[j] => i = j
  OBVIOUS
<1> QED
  BY <1>2, <1>3, <1>4 DEF Thins

LEMMA LeavesThins ==
  ASSUME TypeInv, NEW d \in Channels, NEW k, Leaves(d, k)
  PROVE  /\ Thins(d)
         /\ \A j \in 1..Len(queue'[d]) : \E i \in 1..Len(queue[d]) :
              i # k /\ queue'[d][j] = queue[d][i]
         /\ \A i \in 1..Len(queue[d]) : i # k =>
              \E j \in 1..Len(queue'[d]) : queue'[d][j] = queue[d][i]
<1> DEFINE n == Len(queue[d])
           f == [j \in 1..n - 1 |-> IF j < k THEN j ELSE j + 1]
<1>1. n \in Nat /\ k \in 1..n /\ Len(queue'[d]) = n - 1
  BY QueueLength DEF Leaves
<1>2. \A j \in 1..n - 1 : queue'[d][j] = queue[d][IF j < k THEN j ELSE j + 1]
  BY DEF Leaves
<1> HIDE DEF n
<1>3. \A j \in 1..n - 1 : f[j] \in 1..n /\ j <= f[j] /\ f[j] # k
  BY <1>1
<1>4. \A i, j \in 1..n - 1 : f[i] = f[j] => i = j
  BY <1>1
<1>5. f \in [1..Len(queue'[d]) -> 1..n]
  BY <1>1, <1>3
<1>6. \A j \in 1..n - 1 : queue'[d][j] = queue[d][f[j]]
  BY <1>2
<1>7. ASSUME NEW i \in 1..n, i # k
      PROVE  \E j \in 1..n - 1 : queue'[d][j] = queue[d][i]
  <2>1. CASE i < k
    <3>1. i \in 1..n - 1
      BY <1>1, <2>1
    <3> QED
      BY <1>2, <2>1, <3>1
  <2>2. CASE i > k
    <3>1. PICK j \in 1..n - 1 : j + 1 = i /\ ~(j < k)
      <4>1. i - 1 \in 1..n - 1 /\ (i - 1) + 1 = i /\ ~(i - 1 < k)
        BY <1>1, <2>2
      <4> QED
        BY <4>1
    <3> QED
      BY <1>2, <3>1
  <2> QED
    BY <1>1, <1>7, <2>1, <2>2
<1> HIDE DEF f
<1>8. Thins(d)
  BY <1>1, <1>3, <1>4, <1>5, <1>6 DEF Thins, n
<1> QED
  BY <1>1, <1>3, <1>6, <1>7, <1>8 DEF n

LEMMA TailLeaves ==
  ASSUME TypeInv, NEW d \in Channels, queue[d] # <<>>, queue'[d] = Tail(queue[d])
  PROVE  Leaves(d, 1) /\ Head(queue[d]) = queue[d][1]
<1>1. queue[d] \in Seq(Messages) /\ Len(queue[d]) \in Nat
  BY QueueLength
<1>2. Len(queue[d]) # 0
  BY <1>1
<1>3. /\ Len(queue'[d]) = Len(queue[d]) - 1
      /\ \A j \in 1..Len(queue[d]) - 1 : queue'[d][j] = queue[d][j + 1]
  BY <1>1, <1>2
<1> QED
  BY <1>1, <1>2, <1>3 DEF Leaves

LEMMA RemoveLeaves ==
  ASSUME TypeInv, NEW d \in Channels, NEW i \in 1..Len(queue[d]),
         queue'[d] = RemoveAt(queue[d], i)
  PROVE  Leaves(d, i)
<1>1. queue[d] \in Seq(Messages)
  BY QueueLength
<1> QED
  BY <1>1, Removed DEF Leaves

LEMMA JoinsAtEnd ==
  ASSUME TypeInv, NEW d \in Channels, NEW e \in Events,
         NEW by \in Channels \cup {Publisher}, Joins(d, e, by)
  PROVE  /\ Len(queue'[d]) = Len(queue[d]) + 1
         /\ queue'[d][Len(queue[d]) + 1] = [event |-> e, by |-> by]
         /\ \A j \in 1..Len(queue[d]) : queue'[d][j] = queue[d][j]
<1>1. queue[d] \in Seq(Messages) /\ [event |-> e, by |-> by] \in Messages
  BY QueueLength DEF Messages
<1> QED
  BY <1>1 DEF Joins

-----------------------------------------------------------------------------
(* What a step leaves in place.                                            *)

\* What a channel holds, as messages join and leave.
LEMMA HoldsThins ==
  ASSUME NEW d \in Channels, Thins(d), NEW e, Holds(d, e)'
  PROVE  Holds(d, e)
BY DEF Holds, Thins

LEMMA HoldsJoins ==
  ASSUME TypeInv, NEW d \in Channels, NEW e \in Events,
         NEW by \in Channels \cup {Publisher}, Joins(d, e, by)
  PROVE  \A x : Holds(d, x)' <=> Holds(d, x) \/ x = e
<1>1. /\ Len(queue'[d]) = Len(queue[d]) + 1 /\ Len(queue[d]) \in Nat
      /\ queue'[d][Len(queue[d]) + 1] = [event |-> e, by |-> by]
      /\ \A j \in 1..Len(queue[d]) : queue'[d][j] = queue[d][j]
  BY JoinsAtEnd, QueueLength
<1>2. ASSUME NEW x, Holds(d, x)' PROVE Holds(d, x) \/ x = e
  <2>1. PICK j \in 1..Len(queue[d]) + 1 : queue'[d][j].event = x
    BY <1>1, <1>2 DEF Holds
  <2>2. CASE j \in 1..Len(queue[d])
    BY <1>1, <2>1, <2>2 DEF Holds
  <2>3. CASE j = Len(queue[d]) + 1
    BY <1>1, <2>1, <2>3
  <2> QED
    BY <1>1, <2>2, <2>3
<1>3. ASSUME NEW x, Holds(d, x) PROVE Holds(d, x)'
  <2>1. PICK j \in 1..Len(queue[d]) : queue[d][j].event = x
    BY <1>3 DEF Holds
  <2>2. j \in 1..Len(queue'[d])
    BY <1>1
  <2> QED
    BY <1>1, <2>1, <2>2 DEF Holds
<1>4. Holds(d, e)'
  <2>1. Len(queue[d]) + 1 \in 1..Len(queue'[d])
    BY <1>1
  <2>2. queue'[d][Len(queue[d]) + 1].event = e
    BY <1>1
  <2> QED
    BY <2>1, <2>2 DEF Holds
<1> QED
  BY <1>2, <1>3, <1>4

LEMMA HoldsLeaves ==
  ASSUME TypeInv, NEW d \in Channels, NEW k, Leaves(d, k), NEW x, Holds(d, x),
         x # queue[d][k].event
  PROVE  Holds(d, x)'
<1>1. PICK i \in 1..Len(queue[d]) : queue[d][i].event = x
  BY DEF Holds
<1>2. PICK j \in 1..Len(queue'[d]) : queue'[d][j] = queue[d][i]
  BY <1>1, LeavesThins
<1> QED
  BY <1>1, <1>2 DEF Holds

\* What leaves its home is not in it any more.
LEMMA LeavesHome ==
  ASSUME TypeInv, NEW d \in Channels, Distinct(d), NEW k, Leaves(d, k)
  PROVE  \A x : x = queue[d][k].event => ~Holds(d, x)'
<1>1. k \in 1..Len(queue[d])
  BY DEF Leaves
<1>2. ASSUME NEW j \in 1..Len(queue'[d]) PROVE queue'[d][j].event # queue[d][k].event
  <2>1. PICK i \in 1..Len(queue[d]) : i # k /\ queue'[d][j] = queue[d][i]
    BY LeavesThins
  <2> QED
    BY <1>1, <2>1 DEF Distinct
<1> QED
  BY <1>2 DEF Holds

LEMMA DistinctThins ==
  ASSUME NEW c \in Channels, Distinct(c), Thins(c)
  PROVE  Distinct(c)'
<1>1. PICK f \in [1..Len(queue'[c]) -> 1..Len(queue[c])] :
        /\ \A j \in 1..Len(queue'[c]) : j <= f[j] /\ queue'[c][j] = queue[c][f[j]]
        /\ \A i, j \in 1..Len(queue'[c]) : f[i] = f[j] => i = j
  BY DEF Thins
<1>2. ASSUME NEW i \in 1..Len(queue'[c]), NEW j \in 1..Len(queue'[c]),
             queue'[c][i].event = queue'[c][j].event
      PROVE  i = j
  <2>1. f[i] \in 1..Len(queue[c]) /\ f[j] \in 1..Len(queue[c])
    OBVIOUS
  <2>2. queue[c][f[i]].event = queue[c][f[j]].event
    BY <1>1, <1>2
  <2>3. f[i] = f[j]
    BY <2>1, <2>2 DEF Distinct
  <2> QED
    BY <1>1, <2>3
<1> QED
  BY <1>2 DEF Distinct

LEMMA DistinctJoins ==
  ASSUME TypeInv, NEW c \in Channels, Distinct(c), NEW e \in Events, ~Holds(c, e),
         NEW by \in Channels \cup {Publisher}, Joins(c, e, by)
  PROVE  Distinct(c)'
<1> DEFINE n == Len(queue[c])
<1>1. /\ Len(queue'[c]) = n + 1 /\ n \in Nat /\ queue'[c][n + 1].event = e
      /\ \A j \in 1..n : queue'[c][j] = queue[c][j]
  <2>1. n \in Nat
    BY QueueLength
  <2>2. /\ Len(queue'[c]) = n + 1 /\ queue'[c][n + 1] = [event |-> e, by |-> by]
        /\ \A j \in 1..n : queue'[c][j] = queue[c][j]
    BY JoinsAtEnd
  <2> QED
    BY <2>1, <2>2
<1>2. \A i, j \in 1..n : queue[c][i].event = queue[c][j].event => i = j
  BY DEF Distinct
<1>3. \A j \in 1..n : queue[c][j].event # e
  BY DEF Holds
<1> HIDE DEF n
<1>4. \A j \in 1..n + 1 : j \in 1..n \/ j = n + 1
  BY <1>1
<1>5. ASSUME NEW i \in 1..n + 1, NEW j \in 1..n + 1,
             queue'[c][i].event = queue'[c][j].event
      PROVE  i = j
  <2>1. CASE i \in 1..n /\ j \in 1..n
    BY <1>1, <1>2, <1>5, <2>1
  <2>2. CASE i \in 1..n /\ j = n + 1
    BY <1>1, <1>3, <1>5, <2>2
  <2>3. CASE i = n + 1 /\ j \in 1..n
    BY <1>1, <1>3, <1>5, <2>3
  <2> QED
    BY <1>4, <2>1, <2>2, <2>3
<1> QED
  BY <1>1, <1>5 DEF Distinct

\* A home channel, as messages leave it and an event joins it.
LEMMA HomeThins ==
  ASSUME TypeInv, TypeInv', NEW c \in Channels, HomeOK(c), Thins(c),
         \A x \in Events : Holds(c, x)' /\ x \in sent =>
           x \in sent' /\ \A h \in Handlers : done'[<<h, x>>] = done[<<h, x>>]
  PROVE  HomeOK(c)'
<1>1. Distinct(c)'
  BY DistinctThins DEF HomeOK
<1>2. ASSUME NEW x \in Events, Holds(c, x)'
      PROVE  /\ Made[x].channel = c /\ x \in sent'
             /\ \A h \in Handlers : done'[<<h, x>>] = 0
  <2>1. Holds(c, x)
    BY <1>2, HoldsThins
  <2> QED
    BY <1>2, <2>1 DEF HomeOK
<1> QED
  BY <1>1, <1>2 DEF HomeOK

LEMMA HomeJoins ==
  ASSUME TypeInv, TypeInv', NEW c \in Channels, HomeOK(c), DoneOK,
         NEW e \in Events \ sent, NEW by \in Channels \cup {Publisher}, Joins(c, e, by),
         Made[e].channel = c, sent' = sent \cup {e}, UNCHANGED done
  PROVE  HomeOK(c)'
<1>1. ~Holds(c, e)
  BY DEF HomeOK
<1>2. Distinct(c)'
  BY <1>1, DistinctJoins DEF HomeOK
<1>3. \A h \in Handlers : done[<<h, e>>] = 0
  <2>1. \A h \in Handlers : done[<<h, e>>] \in Nat /\ ~(done[<<h, e>>] > 0)
    BY DEF DoneOK, TypeInv, TypeOK
  <2> QED
    BY <2>1
<1>4. \A x : Holds(c, x)' <=> Holds(c, x) \/ x = e
  BY HoldsJoins
<1> QED
  BY <1>2, <1>3, <1>4 DEF HomeOK

\* What a loop has taken.
LEMMA TakenKept ==
  ASSUME TypeInv, NEW c \in Channels, TakenOK(c), cur'[c] = cur[c],
         cur[c] \in sent => cur[c] \in sent',
         \/ Thins(c)
         \/ \E e \in Events, by \in Channels \cup {Publisher} : Joins(c, e, by) /\ e # cur[c]
  PROVE  TakenOK(c)'
<1> SUFFICES ASSUME cur[c] # None
             PROVE  /\ Made[cur[c]].channel = c /\ cur[c] \in sent'
                    /\ \A x : x = cur[c] => ~Holds(c, x)'
  BY DEF TakenOK, Holds
<1>1. Made[cur[c]].channel = c /\ cur[c] \in sent' /\ ~Holds(c, cur[c])
  BY DEF TakenOK
<1> QED
  BY <1>1, HoldsThins, HoldsJoins

-----------------------------------------------------------------------------
(* Messages whose sender waits.                                            *)

LEMMA Waiting ==
  ASSUME TypeInv, NEW d \in Channels, NEW i
  PROVE  Waits(d, i) <=> i \in 1..Len(queue[d]) /\ i > Cap
BY QueueLength, MemoryAssumption DEF Waits

LEMMA WaitingThins ==
  ASSUME TypeInv, TypeInv', NEW d \in Channels, Thins(d)
  PROVE  \E f \in [1..Len(queue'[d]) -> 1..Len(queue[d])] :
           /\ \A j \in 1..Len(queue'[d]) :
                queue'[d][j] = queue[d][f[j]] /\ (Waits(d, j)' => Waits(d, f[j]))
           /\ \A i, j \in 1..Len(queue'[d]) : f[i] = f[j] => i = j
<1>1. PICK f \in [1..Len(queue'[d]) -> 1..Len(queue[d])] :
        /\ \A j \in 1..Len(queue'[d]) : j <= f[j] /\ queue'[d][j] = queue[d][f[j]]
        /\ \A i, j \in 1..Len(queue'[d]) : f[i] = f[j] => i = j
  BY DEF Thins
<1>2. ASSUME NEW j \in 1..Len(queue'[d]), Waits(d, j)' PROVE Waits(d, f[j])
  <2>1. Len(queue[d]) \in Nat /\ Len(queue'[d]) \in Nat /\ Cap \in Nat
    <3>1. Len(queue[d]) \in Nat /\ Cap \in Nat
      BY QueueLength, MemoryAssumption
    <3>2. Len(queue'[d]) \in Nat
      BY DEF TypeInv, TypeOK
    <3> QED
      BY <3>1, <3>2
  <2>2. j > Cap
    BY <1>2, <2>1 DEF Waits
  <2>3. f[j] \in 1..Len(queue[d]) /\ j <= f[j]
    BY <1>1
  <2>4. f[j] > Cap
    BY <2>1, <2>2, <2>3
  <2> QED
    BY <2>3, <2>4, Waiting
<1> QED
  BY <1>1, <1>2

\* A message that waits after a message joined waited before, or has joined.
LEMMA WaitingJoins ==
  ASSUME TypeInv, TypeInv', NEW d \in Channels, NEW e \in Events,
         NEW by \in Channels \cup {Publisher}, Joins(d, e, by),
         NEW j \in 1..Len(queue'[d]), Waits(d, j)'
  PROVE  \/ /\ j \in 1..Len(queue[d]) /\ Waits(d, j) /\ queue'[d][j] = queue[d][j]
         \/ j = Len(queue[d]) + 1 /\ queue'[d][j] = [event |-> e, by |-> by]
<1>1. Len(queue[d]) \in Nat /\ Cap \in Nat
  BY QueueLength, MemoryAssumption
<1>2. /\ Len(queue'[d]) = Len(queue[d]) + 1
      /\ queue'[d][Len(queue[d]) + 1] = [event |-> e, by |-> by]
      /\ \A i \in 1..Len(queue[d]) : queue'[d][i] = queue[d][i]
  BY JoinsAtEnd
<1>3. j \in Nat /\ j > Cap
  BY <1>1, <1>2 DEF Waits
<1>4. CASE j = Len(queue[d]) + 1
  BY <1>2, <1>4
<1>5. CASE j # Len(queue[d]) + 1
  <2>1. j \in 1..Len(queue[d])
    BY <1>1, <1>2, <1>5
  <2>2. Waits(d, j)
    BY <1>3, <2>1, Waiting
  <2> QED
    BY <1>2, <2>1, <2>2
<1> QED
  BY <1>4, <1>5

\* What the loops wait to send, as messages leave a channel and one joins it.
LEMMA WaitThins ==
  ASSUME TypeInv, TypeInv', NEW d \in Channels, WaitOK(d), Thins(d),
         \A b \in Channels : WaitsFor(b, d) /\ WaitsFor(b, d)' =>
           pc'[b] \in {"run", "letter", "stopping"} /\ cur'[b] = cur[b]
  PROVE  WaitOK(d)'
<1>1. PICK f \in [1..Len(queue'[d]) -> 1..Len(queue[d])] :
        \A j \in 1..Len(queue'[d]) :
          queue'[d][j] = queue[d][f[j]] /\ (Waits(d, j)' => Waits(d, f[j]))
  BY WaitingThins
<1>2. ASSUME NEW j \in 1..Len(queue'[d]), Waits(d, j)', queue'[d][j].by \in Channels
      PROVE  LET m == queue'[d][j]
             IN  /\ pc'[m.by] \in {"run", "letter", "stopping"} /\ cur'[m.by] # None
                 /\ IF m.event = cur'[m.by] THEN d \notin Homes ELSE Made[m.event].channel = d
  <2>1. PICK i \in 1..Len(queue[d]) : Waits(d, i) /\ queue[d][i] = queue'[d][j]
    BY <1>1, <1>2
  <2>2. PICK b \in Channels : b = queue'[d][j].by
    BY <1>2
  <2>3. DOMAIN queue[d] = 1..Len(queue[d]) /\ DOMAIN queue'[d] = 1..Len(queue'[d])
    BY DEF TypeInv, TypeOK
  <2>4. WaitsFor(b, d) /\ WaitsFor(b, d)'
    BY <1>2, <2>1, <2>2, <2>3 DEF WaitsFor
  <2>5. LET m == queue[d][i]
        IN  /\ cur[b] # None
            /\ IF m.event = cur[b] THEN d \notin Homes ELSE Made[m.event].channel = d
    BY <2>1, <2>2 DEF WaitOK
  <2> QED
    BY <2>1, <2>2, <2>4, <2>5
<1> QED
  BY <1>2 DEF WaitOK

LEMMA WaitJoins ==
  ASSUME TypeInv, TypeInv', NEW d \in Channels, WaitOK(d), NEW e \in Events,
         NEW by \in Channels \cup {Publisher}, Joins(d, e, by),
         by \in Channels =>
           /\ pc'[by] \in {"run", "letter", "stopping"} /\ cur'[by] # None
           /\ IF e = cur'[by] THEN d \notin Homes ELSE Made[e].channel = d,
         \A b \in Channels : WaitsFor(b, d) =>
           pc'[b] \in {"run", "letter", "stopping"} /\ cur'[b] = cur[b]
  PROVE  WaitOK(d)'
<1>2. ASSUME NEW j \in 1..Len(queue'[d]), Waits(d, j)', queue'[d][j].by \in Channels
      PROVE  LET m == queue'[d][j]
             IN  /\ pc'[m.by] \in {"run", "letter", "stopping"} /\ cur'[m.by] # None
                 /\ IF m.event = cur'[m.by] THEN d \notin Homes ELSE Made[m.event].channel = d
  <2>1. CASE /\ j \in 1..Len(queue[d]) /\ Waits(d, j) /\ queue'[d][j] = queue[d][j]
    <3>1. PICK b \in Channels : b = queue[d][j].by
      BY <1>2, <2>1
    <3>2. DOMAIN queue[d] = 1..Len(queue[d])
      BY DEF TypeInv, TypeOK
    <3>3. WaitsFor(b, d)
      BY <2>1, <3>1, <3>2 DEF WaitsFor
    <3>4. LET m == queue[d][j]
          IN  /\ cur[b] # None
              /\ IF m.event = cur[b] THEN d \notin Homes ELSE Made[m.event].channel = d
      BY <2>1, <3>1 DEF WaitOK
    <3> QED
      BY <2>1, <3>1, <3>3, <3>4
  <2>2. CASE queue'[d][j] = [event |-> e, by |-> by]
    BY <1>2, <2>2
  <2> QED
    BY <1>2, <2>1, <2>2, WaitingJoins
<1> QED
  BY <1>2 DEF WaitOK

\* No loop waits twice, when the sender of what joins did not wait.
LEMMA OneWaitKept ==
  ASSUME TypeInv, TypeInv', OneWait, NEW e, NEW by \in Channels \cup {Publisher}, NEW D,
         \A d \in Channels : Thins(d) \/ (d = D /\ e \in Events /\ Joins(d, e, by)),
         by \in Channels => ~Blocked(by)
  PROVE  OneWait'
<1> DEFINE Old(d, j) == \E i \in 1..Len(queue[d]) : Waits(d, i) /\ queue[d][i] = queue'[d][j]
           New(d, j) == /\ d = D /\ e \in Events /\ Joins(d, e, by) /\ j = Len(queue[d]) + 1
                        /\ queue'[d][j] = [event |-> e, by |-> by]
<1>1. ASSUME NEW d \in Channels, NEW j \in 1..Len(queue'[d]), Waits(d, j)'
      PROVE  Old(d, j) \/ New(d, j)
  <2>1. CASE Thins(d)
    BY <1>1, <2>1, WaitingThins
  <2>2. CASE d = D /\ e \in Events /\ Joins(d, e, by)
    BY <1>1, <2>2, WaitingJoins
  <2> QED
    BY <2>1, <2>2
<1>2. ASSUME NEW d \in Channels, NEW j \in 1..Len(queue'[d]), Old(d, j),
             queue'[d][j].by = by, by \in Channels
      PROVE  FALSE
  <2>1. PICK i \in 1..Len(queue[d]) : Waits(d, i) /\ queue[d][i].by = by
    BY <1>2
  <2>2. DOMAIN queue[d] = 1..Len(queue[d])
    BY DEF TypeInv, TypeOK
  <2> QED
    BY <1>2, <2>1, <2>2 DEF Blocked, WaitsFor
<1>3. ASSUME NEW d1 \in Channels, NEW d2 \in Channels,
             NEW i \in 1..Len(queue'[d1]), NEW j \in 1..Len(queue'[d2]),
             Waits(d1, i)', Waits(d2, j)', queue'[d1][i].by = queue'[d2][j].by,
             queue'[d1][i].by \in Channels
      PROVE  d1 = d2 /\ i = j
  <2>1. CASE Old(d1, i) /\ Old(d2, j)
    <3>1. d1 = d2
      BY <1>3, <2>1 DEF OneWait
    <3>2. CASE Thins(d1)
      <4>1. PICK f \in [1..Len(queue'[d1]) -> 1..Len(queue[d1])] :
              /\ \A k \in 1..Len(queue'[d1]) :
                   queue'[d1][k] = queue[d1][f[k]] /\ (Waits(d1, k)' => Waits(d1, f[k]))
              /\ \A k, l \in 1..Len(queue'[d1]) : f[k] = f[l] => k = l
        BY <3>2, WaitingThins
      <4>2. /\ f[i] \in 1..Len(queue[d1]) /\ f[j] \in 1..Len(queue[d1])
            /\ Waits(d1, f[i]) /\ Waits(d1, f[j])
            /\ queue[d1][f[i]].by = queue[d1][f[j]].by /\ queue[d1][f[i]].by \in Channels
        BY <1>3, <3>1, <4>1
      <4>3. f[i] = f[j]
        BY <4>2 DEF OneWait
      <4> QED
        BY <3>1, <4>1, <4>3
    <3>3. CASE d1 = D /\ e \in Events /\ Joins(d1, e, by)
      <4>1. ASSUME NEW k \in 1..Len(queue'[d1]), Waits(d1, k)', Old(d1, k),
                   queue'[d1][k].by \in Channels
            PROVE  k \in 1..Len(queue[d1]) /\ Waits(d1, k) /\ queue[d1][k] = queue'[d1][k]
        <5>1. CASE queue'[d1][k] = [event |-> e, by |-> by]
          BY <1>2, <4>1, <5>1
        <5> QED
          BY <3>3, <4>1, <5>1, WaitingJoins
      <4> QED
        BY <1>3, <2>1, <3>1, <4>1 DEF OneWait
    <3> QED
      BY <3>2, <3>3
  <2>2. CASE New(d1, i) /\ New(d2, j)
    BY <2>2
  <2>3. CASE New(d1, i) /\ Old(d2, j)
    BY <1>2, <1>3, <2>3
  <2>4. CASE Old(d1, i) /\ New(d2, j)
    BY <1>2, <1>3, <2>4
  <2> QED
    BY <1>1, <1>3, <2>1, <2>2, <2>3, <2>4
<1> QED
  BY <1>3 DEF OneWait

-----------------------------------------------------------------------------
(* Every step keeps the copies.                                            *)

\* A loop that has a message is that of a home channel.
LEMMA TakenTypes ==
  ASSUME TypeInv, NEW c \in Channels
  PROVE  /\ cur[c] \in Events \cup {None}
         /\ cur[c] # None => c \in Homes /\ cur[c] \in Events
BY DEF TypeInv, TypeOK, LoopOK

\* A loop that waits is at a message, in its handler or at its dead letter.
LEMMA BlockedAt ==
  ASSUME TypeInv, CopyInv, NEW b \in Channels, Blocked(b)
  PROVE  pc[b] \in {"run", "letter", "stopping"} /\ cur[b] # None
<1>1. PICK d \in Channels : \E i \in DOMAIN queue[d] : Waits(d, i) /\ queue[d][i].by = b
  BY DEF Blocked, WaitsFor
<1>2. DOMAIN queue[d] = 1..Len(queue[d])
  BY DEF TypeInv, TypeOK
<1> QED
  BY <1>1, <1>2 DEF CopyInv, WaitOK

LEMMA CopiesThin ==
  ASSUME TypeInv, TypeInv', CopyInv, \A d \in Channels : Thins(d) /\ TakenOK(d)',
         DoneOK',
         \A d \in Homes, x \in Events : Holds(d, x)' /\ x \in sent =>
           x \in sent' /\ \A h \in Handlers : done'[<<h, x>>] = done[<<h, x>>],
         \A b, d \in Channels : WaitsFor(b, d) /\ WaitsFor(b, d)' =>
           pc'[b] \in {"run", "letter", "stopping"} /\ cur'[b] = cur[b]
  PROVE  CopyInv'
<1>1. Homes \subseteq Channels
  BY MemoryAssumption DEF Homes
<1>2. \A d \in Homes : HomeOK(d)'
  BY <1>1, HomeThins DEF CopyInv
<1>3. \A d \in Channels : WaitOK(d)'
  BY WaitThins DEF CopyInv
<1>4. OneWait'
  <2>1. Publisher \in Channels \cup {Publisher} /\ Publisher \notin Channels
    BY MemoryAssumption
  <2> QED
    BY <2>1, OneWaitKept DEF CopyInv
<1> QED
  BY <1>2, <1>3, <1>4 DEF CopyInv

LEMMA CopiesJoin ==
  ASSUME TypeInv, TypeInv', CopyInv, UNCHANGED done,
         NEW D \in Channels, NEW e \in Events, NEW by \in Channels \cup {Publisher},
         Joins(D, e, by), \A d \in Channels \ {D} : Thins(d),
         \/ D \notin Homes /\ UNCHANGED sent
         \/ Made[e].channel = D /\ e \notin sent /\ sent' = sent \cup {e},
         by \in Channels =>
           /\ ~Blocked(by)
           /\ pc'[by] \in {"run", "letter", "stopping"} /\ cur'[by] # None
           /\ IF e = cur'[by] THEN D \notin Homes ELSE Made[e].channel = D,
         \A b \in Channels : Blocked(b) =>
           pc'[b] \in {"run", "letter", "stopping"} /\ cur'[b] = cur[b],
         \A d \in Channels : cur'[d] = cur[d] \/ TakenOK(d)'
  PROVE  CopyInv'
<1>1. Homes \subseteq Channels
  BY MemoryAssumption DEF Homes
<1>2. sent \subseteq sent'
  OBVIOUS
<1>3. ASSUME NEW d \in Homes PROVE HomeOK(d)'
  <2>1. HomeOK(d) /\ DoneOK /\ d \in Channels
    BY <1>1 DEF CopyInv
  <2>2. CASE d # D
    BY <1>2, <2>1, <2>2, HomeThins
  <2>3. CASE d = D
    BY <2>1, <2>3, HomeJoins
  <2> QED
    BY <2>2, <2>3
<1>4. ASSUME NEW d \in Channels PROVE TakenOK(d)'
  <2>1. SUFFICES ASSUME cur'[d] = cur[d] PROVE TakenOK(d)'
    OBVIOUS
  <2>2. TakenOK(d)
    BY DEF CopyInv
  <2>3. d = D => e # cur[d]
    BY <2>2, TakenTypes, MemoryAssumption DEF TakenOK
  <2> QED
    BY <1>2, <2>1, <2>2, <2>3, TakenKept
<1>5. ASSUME NEW d \in Channels PROVE WaitOK(d)'
  <2>1. \A b \in Channels : WaitsFor(b, d) =>
          pc'[b] \in {"run", "letter", "stopping"} /\ cur'[b] = cur[b]
    BY DEF Blocked
  <2>2. WaitOK(d)
    BY DEF CopyInv
  <2>3. CASE d # D
    BY <2>1, <2>2, <2>3, WaitThins
  <2>4. CASE d = D
    BY <2>1, <2>2, <2>4, WaitJoins
  <2> QED
    BY <2>3, <2>4
<1>6. OneWait'
  BY OneWaitKept DEF CopyInv
<1>7. DoneOK'
  BY <1>2 DEF CopyInv, DoneOK
<1> QED
  BY <1>3, <1>4, <1>5, <1>6, <1>7 DEF CopyInv

\* Where the step leaves the streams and the history alone.
LEMMA CopiesStay ==
  ASSUME TypeInv, TypeInv', CopyInv, UNCHANGED <<queue, sent, done>>,
         \A d \in Channels : cur'[d] = cur[d] \/ cur'[d] = None,
         \A b \in Channels : Blocked(b) =>
           pc'[b] \in {"run", "letter", "stopping"} /\ cur'[b] = cur[b]
  PROVE  CopyInv'
<1>1. \A d \in Channels : Thins(d)
  BY SameThins
<1>2. ASSUME NEW d \in Channels PROVE TakenOK(d)'
  <2>1. TakenOK(d)
    BY DEF CopyInv
  <2>2. CASE cur'[d] = cur[d]
    BY <1>1, <2>1, <2>2, TakenKept
  <2>3. CASE cur'[d] = None
    BY <2>3 DEF TakenOK
  <2> QED
    BY <2>2, <2>3
<1>3. DoneOK'
  BY DEF CopyInv, DoneOK
<1>4. \A b, d \in Channels : WaitsFor(b, d) /\ WaitsFor(b, d)' =>
        pc'[b] \in {"run", "letter", "stopping"} /\ cur'[b] = cur[b]
  BY DEF Blocked
<1> QED
  BY <1>1, <1>2, <1>3, <1>4, CopiesThin

\* A loop takes a message, to a handler or to the channel's DLQ.
LEMMA TakeCopies ==
  ASSUME TypeInv, TypeInv', LettersApart, CopyInv, NEW c \in Channels,
         Take(c), Moves(c), Begins(c)
  PROVE  CopyInv'
<1>1. /\ pc[c] = "idle" /\ queue[c] # <<>>
      /\ queue \in [Channels -> Seq(Messages)]
  BY DEF Take, TypeInv, TypeOK, Messages
<1>2. c \in Homes /\ DlqOf[c] \in Channels /\ DlqOf[c] \notin Homes /\ DlqOf[c] # c
  BY <1>1, MemoryAssumption DEF TypeInv, LoopOK, LettersApart
<1>3. PICK e \in Events : e = Head(queue[c]).event
  <2>1. Head(queue[c]) \in Messages
    BY <1>1
  <2> QED
    BY <2>1 DEF Messages
<1>4. e # None /\ cur'[c] = e /\ UNCHANGED <<sent, done>>
  BY <1>3, MemoryAssumption DEF Begins, Take, resultVars
<1>5. PICK rest \in [Channels -> Seq(Messages)] : rest = [queue EXCEPT ![c] = Tail(@)]
  <2>1. Tail(queue[c]) \in Seq(Messages)
    BY <1>1
  <2> QED
    BY <1>1, <2>1
<1>6. /\ rest[c] = Tail(queue[c])
      /\ \A d \in Channels \ {c} : rest[d] = queue[d]
  BY <1>1, <1>5
<1>7. \/ queue' = rest
      \/ queue' = Put(rest, DlqOf[c], e, c) /\ pc'[c] = "letter"
  <2>1. pc' = [pc EXCEPT ![c] = "letter"] => pc'[c] = "letter"
    BY DEF TypeInv, TypeOK
  <2> QED
    BY <1>3, <1>5, <2>1 DEF Take
<1>8. /\ \A d \in Channels \ {DlqOf[c]} : queue'[d] = rest[d]
      /\ \/ queue'[DlqOf[c]] = rest[DlqOf[c]]
         \/ /\ queue'[DlqOf[c]] = Append(rest[DlqOf[c]], [event |-> e, by |-> c])
            /\ pc'[c] = "letter"
  <2>1. CASE queue' = rest
    BY <2>1
  <2>2. CASE queue' = Put(rest, DlqOf[c], e, c) /\ pc'[c] = "letter"
    <3>1. /\ Put(rest, DlqOf[c], e, c)[DlqOf[c]] =
               Append(rest[DlqOf[c]], [event |-> e, by |-> c])
          /\ \A d \in Channels \ {DlqOf[c]} : Put(rest, DlqOf[c], e, c)[d] = rest[d]
      BY <1>2, PutTypes
    <3> QED
      BY <2>2, <3>1
  <2> QED
    BY <1>7, <2>1, <2>2
<1>9. Leaves(c, 1) /\ e = queue[c][1].event
  <2>1. queue'[c] = Tail(queue[c])
    BY <1>2, <1>6, <1>8
  <2> QED
    BY <1>1, <1>3, <2>1, TailLeaves
<1>10. /\ \A d \in Channels \ {c, DlqOf[c]} : queue'[d] = queue[d]
       /\ \/ queue'[DlqOf[c]] = queue[DlqOf[c]]
          \/ Joins(DlqOf[c], e, c) /\ pc'[c] = "letter"
  BY <1>2, <1>6, <1>8 DEF Joins
<1>11. HomeOK(c) /\ Holds(c, e)
  <2>1. 1 \in 1..Len(queue[c])
    BY <1>9 DEF Leaves
  <2> QED
    BY <1>2, <1>9, <2>1 DEF CopyInv, Holds
<1>12. \A d \in Channels \ {DlqOf[c]} : Thins(d)
  BY <1>9, <1>10, SameThins, LeavesThins
<1>13. ~Blocked(c) /\ \A b \in Channels : Blocked(b) =>
         pc'[b] \in {"run", "letter", "stopping"} /\ cur'[b] = cur[b]
  BY <1>1, BlockedAt DEF Moves, SameLoop
<1>14. TakenOK(c)'
  <2>1. ~Holds(c, e)'
    BY <1>9, <1>11, LeavesHome DEF HomeOK
  <2>2. Made[e].channel = c /\ e \in sent
    BY <1>11 DEF HomeOK
  <2> QED
    BY <1>4, <2>1, <2>2 DEF TakenOK, Holds
<1>15. \A d \in Channels \ {c} : cur'[d] = cur[d]
  BY DEF Moves, SameLoop
<1>16. CASE queue'[DlqOf[c]] = queue[DlqOf[c]]
  <2>1. \A d \in Channels : Thins(d)
    BY <1>2, <1>12, <1>16, SameThins
  <2>2. ASSUME NEW d \in Channels PROVE TakenOK(d)'
    <3>1. TakenOK(d)
      BY DEF CopyInv
    <3>2. CASE d # c
      BY <1>4, <1>15, <2>1, <3>1, <3>2, TakenKept
    <3> QED
      BY <1>14, <3>2
  <2>3. DoneOK'
    BY <1>4 DEF CopyInv, DoneOK
  <2>4. \A b, d \in Channels : WaitsFor(b, d) /\ WaitsFor(b, d)' =>
          pc'[b] \in {"run", "letter", "stopping"} /\ cur'[b] = cur[b]
    BY <1>13 DEF Blocked
  <2> QED
    BY <1>4, <2>1, <2>2, <2>3, <2>4, CopiesThin
<1>17. CASE Joins(DlqOf[c], e, c) /\ pc'[c] = "letter"
  BY <1>2, <1>4, <1>12, <1>13, <1>14, <1>15, <1>17, CopiesJoin
<1> QED
  BY <1>10, <1>16, <1>17

\* A message joins a channel: an event of the handler's, a dead letter, or one
\* from outside.
LEMMA PutJoins ==
  ASSUME TypeInv, NEW D \in Channels, NEW e \in Events,
         NEW by \in Channels \cup {Publisher}, queue' = Put(queue, D, e, by)
  PROVE  Joins(D, e, by) /\ \A d \in Channels \ {D} : Thins(d)
<1>1. queue \in [Channels -> Seq(Messages)]
  BY DEF TypeInv, TypeOK, Messages
<1>2. queue'[D] = Append(queue[D], [event |-> e, by |-> by])
      /\ \A d \in Channels \ {D} : queue'[d] = queue[d]
  BY <1>1, PutTypes
<1> QED
  BY <1>2, SameThins DEF Joins

LEMMA LoopCopies ==
  ASSUME TypeInv, TypeInv', LettersApart, CopyInv, NEW c \in Channels, Loop(c)
  PROVE  CopyInv'
<1>1. /\ LoopOK(c) /\ AppTypes /\ LoopTypes
      /\ TakenOK(c)
  BY Owners DEF TypeInv, CopyInv
<1>2. \A b \in Channels : Blocked(b) => pc[b] \in {"run", "letter", "stopping"} /\ cur[b] # None
  BY BlockedAt
<1>3. ASSUME Moves(c), ~Blocked(c)
      PROVE  \A b \in Channels : Blocked(b) =>
               pc'[b] \in {"run", "letter", "stopping"} /\ cur'[b] = cur[b]
  BY <1>2, <1>3 DEF Moves, SameLoop
<1>4. pc[c] \in {"gate", "mark"} => ~Blocked(c)
  BY <1>2
<1>5. CASE Take(c) /\ Moves(c) /\ Begins(c)
  BY <1>5, TakeCopies
<1>6. CASE Abort(c)
  <2>1. CancelAll /\ UNCHANGED <<queue, sent, done>>
    BY <1>6 DEF Abort
  <2>2. UNCHANGED cur /\ \A b \in Channels : pc[b] # "down" => pc'[b] = "stopping"
    BY <2>1 DEF CancelAll
  <2> QED
    BY <1>2, <2>1, <2>2, CopiesStay
<1>7. CASE Emit(c)
  <2>1. PICK e \in Emits[Handler(c)] \ sent :
          queue' = Put(queue, Made[e].channel, e, c) /\ sent' = sent \cup {e}
    BY <1>7 DEF Emit
  <2>2. pc[c] = "run" /\ ~Blocked(c) /\ UNCHANGED <<pc, cur, done>>
    BY <1>7 DEF Emit, loopVars, resultVars
  <2>3. Handler(c) \in Handlers /\ cur[c] \in Events
    BY <1>1, <2>2, CurrentTypes DEF LoopOK
  <2>4. e \in Events /\ Made[e].channel \in Channels
    BY <2>1, <2>3, MemoryAssumption
  <2>5. cur[c] # None /\ cur[c] \in sent /\ e # cur[c]
    BY <1>1, <2>1, <2>3, MemoryAssumption DEF TakenOK
  <2>6. Joins(Made[e].channel, e, c) /\ \A d \in Channels \ {Made[e].channel} : Thins(d)
    BY <2>1, <2>4, PutJoins
  <2> QED
    BY <1>2, <2>1, <2>2, <2>4, <2>5, <2>6, CopiesJoin
<1>8. ASSUME Moves(c), Continues(c) \/ Ends(c) \/ Stays(c), ~Blocked(c),
             UNCHANGED <<queue, sent, done>>
      PROVE  CopyInv'
  <2>1. \A d \in Channels : cur'[d] = cur[d] \/ cur'[d] = None
    BY <1>8 DEF Moves, SameLoop, Continues, Ends, Stays
  <2> QED
    BY <1>3, <1>8, <2>1, CopiesStay
<1>9. CASE Skips(c) \/ Starts(c) \/ Marks(c) \/ Delivers(c)
  BY <1>4, <1>8, <1>9 DEF Skips, Starts, Marks, Delivers, GoesOn, Relabels
<1>10. CASE Returns(c)
  <2>1. /\ pc[c] = "run" /\ Moves(c) /\ Stays(c) /\ ~Blocked(c)
        /\ UNCHANGED <<queue, sent>>
        /\ done' = [done EXCEPT ![<<Handler(c), cur[c]>>] = @ + 1]
    BY <1>10 DEF Returns, Relabels
  <2>2. Handler(c) \in Handlers /\ cur[c] \in Events
    BY <1>1, <2>1, CurrentTypes DEF LoopOK
  <2>3. /\ Made[cur[c]].channel = c /\ c \in Homes /\ cur[c] \in sent /\ ~Holds(c, cur[c])
    BY <1>1, <2>1, <2>2, MemoryAssumption DEF LoopOK, TakenOK
  <2>4. \A h \in Handlers, x \in Events : x # cur[c] => done'[<<h, x>>] = done[<<h, x>>]
    BY <2>1, <2>2 DEF TypeInv, TypeOK
  <2>5. \A d \in Channels : Thins(d)
    BY <2>1, SameThins
  <2>6. ASSUME NEW d \in Homes, NEW x \in Events, Holds(d, x)' PROVE x # cur[c]
    <3>1. Holds(d, x)
      BY <2>1, <2>6 DEF Holds
    <3>2. Made[x].channel = d
      BY <3>1 DEF CopyInv, HomeOK
    <3> QED
      BY <2>3, <3>1, <3>2
  <2>7. \A d \in Channels : TakenOK(d)'
    BY <2>1, <2>5, TakenKept DEF CopyInv, Moves, SameLoop, Stays
  <2>8. DoneOK'
    BY <2>1, <2>3, <2>4 DEF CopyInv, DoneOK
  <2>9. \A b, d \in Channels : WaitsFor(b, d) /\ WaitsFor(b, d)' =>
          pc'[b] \in {"run", "letter", "stopping"} /\ cur'[b] = cur[b]
    BY <1>3, <2>1 DEF Blocked
  <2> QED
    BY <2>1, <2>4, <2>5, <2>6, <2>7, <2>8, <2>9, CopiesThin
<1>11. CASE Fails(c)
  <2>1. /\ ~Blocked(c) /\ Moves(c) /\ pc[c] \in {"gate", "run", "mark"}
        /\ UNCHANGED <<sent, done>>
    BY <1>4, <1>11 DEF Fails, Relabels, GoesOn
  <2>2. CASE /\ Relabels(c, pc[c], "letter")
             /\ queue' = Put(queue, LetterChannel(c), cur[c], c)
    <3>1. Handler(c) \in Handlers /\ cur[c] \in Events
      BY <1>1, <2>1, CurrentTypes DEF LoopOK
    <3>2. LetterChannel(c) \in Channels /\ LetterChannel(c) \notin Homes
      BY <3>1, HandlersHaveHomes DEF LetterChannel, LettersApart
    <3>3. /\ Joins(LetterChannel(c), cur[c], c)
          /\ \A d \in Channels \ {LetterChannel(c)} : Thins(d)
      BY <2>2, <3>1, <3>2, PutJoins
    <3>4. cur'[c] = cur[c] /\ pc'[c] = "letter" /\ cur[c] # None
      BY <2>2, <3>1, MemoryAssumption DEF Relabels, Stays
    <3>5. \A d \in Channels : cur'[d] = cur[d]
      BY <2>1, <3>4 DEF Moves, SameLoop
    <3> QED
      BY <1>3, <2>1, <3>1, <3>2, <3>3, <3>4, <3>5, CopiesJoin
  <2>3. CASE GoesOn(c) /\ UNCHANGED queue
    BY <1>8, <2>1, <2>3 DEF GoesOn
  <2> QED
    BY <1>11, <2>2, <2>3 DEF Fails
<1> QED
  BY <1>5, <1>6, <1>7, <1>9, <1>10, <1>11, LoopEffects

\* The task of a loop ends: nothing of it waits any more, and an event of its
\* handler's that waited counts as never sent.
LEMMA CancelledCopies ==
  ASSUME TypeInv, TypeInv', CopyInv, NEW c \in Channels, Cancelled(c)
  PROVE  CopyInv'
<1>1. /\ pc[c] = "stopping" /\ cur'[c] = None /\ UNCHANGED done
      /\ \A d \in Channels \ {c} : SameLoop(d)
  <2>1. AppTypes /\ LoopTypes /\ QueueTypes /\ LoopOK(c) /\ Watched(c)
    BY Owners DEF TypeInv
  <2>2. UNCHANGED done
    BY DEF Cancelled, resultVars
  <2> QED
    BY <2>1, <2>2, CancelledMoves DEF Moves
<1>2. \A b \in Channels \ {c} : Blocked(b) =>
        pc'[b] \in {"run", "letter", "stopping"} /\ cur'[b] = cur[b]
  BY <1>1, BlockedAt DEF SameLoop
<1>3. ASSUME \A d \in Channels : Thins(d), ~Blocked(c), UNCHANGED sent
      PROVE  CopyInv'
  <2>1. \A d \in Channels : TakenOK(d)'
    <3>1. ASSUME NEW d \in Channels, d # c PROVE TakenOK(d)'
      BY <1>1, <1>3, <3>1, TakenKept DEF CopyInv, SameLoop
    <3>2. TakenOK(c)'
      BY <1>1 DEF TakenOK
    <3> QED
      BY <3>1, <3>2
  <2>2. DoneOK'
    BY <1>1, <1>3 DEF CopyInv, DoneOK
  <2>3. \A b, d \in Channels : WaitsFor(b, d) /\ WaitsFor(b, d)' =>
          pc'[b] \in {"run", "letter", "stopping"} /\ cur'[b] = cur[b]
    BY <1>2, <1>3 DEF Blocked
  <2> QED
    BY <1>1, <1>3, <2>1, <2>2, <2>3, CopiesThin
<1>4. CASE ~Blocked(c) /\ UNCHANGED <<queue, sent>>
  BY <1>3, <1>4, SameThins
<1>5. CASE /\ cur[c] = None /\ queue[c] # <<>>
           /\ queue' = [queue EXCEPT ![c] = Tail(@)] /\ UNCHANGED sent
  <2>1. ~Blocked(c)
    BY <1>5, BlockedAt
  <2>2. queue'[c] = Tail(queue[c]) /\ \A d \in Channels \ {c} : queue'[d] = queue[d]
    BY <1>5 DEF TypeInv, TypeOK
  <2>3. Leaves(c, 1)
    BY <1>5, <2>2, TailLeaves
  <2>4. \A d \in Channels : Thins(d)
    BY <2>2, <2>3, LeavesThins, SameThins
  <2> QED
    BY <1>3, <1>5, <2>1, <2>4
<1>6. ASSUME NEW d \in Channels, NEW i \in DOMAIN queue[d], Waits(d, i), queue[d][i].by = c,
             queue' = [queue EXCEPT ![d] = RemoveAt(@, i)],
             sent' = sent \ ({queue[d][i].event} \ {cur[c]})
      PROVE  CopyInv'
  <2>1. \A x \in Channels : DOMAIN queue[x] = 1..Len(queue[x])
                            /\ DOMAIN queue'[x] = 1..Len(queue'[x])
    BY DEF TypeInv, TypeOK
  <2>2. i \in 1..Len(queue[d])
    BY <1>6, <2>1
  <2>3. queue'[d] = RemoveAt(queue[d], i) /\ \A x \in Channels \ {d} : queue'[x] = queue[x]
    BY <1>6 DEF TypeInv, TypeOK
  <2>4. Leaves(d, i)
    BY <2>2, <2>3, RemoveLeaves
  <2>5. \A x \in Channels : Thins(x)
    BY <2>3, <2>4, LeavesThins, SameThins
  <2>6. PICK e \in Events : e = queue[d][i].event /\ Holds(d, e)
    BY <2>2, QueueLength DEF Holds
  <2>7. e # cur[c] => Made[e].channel = d
    BY <1>6, <2>2, <2>6 DEF CopyInv, WaitOK
\* Nothing of c waits elsewhere.
  <2>8. ASSUME NEW x \in Channels PROVE ~WaitsFor(c, x)'
    <3>1. SUFFICES ASSUME NEW j \in 1..Len(queue'[x]), Waits(x, j)', queue'[x][j].by = c
                   PROVE  FALSE
      BY <2>1 DEF WaitsFor
    <3>2. CASE x # d
      <4>1. Waits(x, j) /\ queue[x][j].by = c /\ j \in 1..Len(queue[x])
        BY <2>3, <3>1, <3>2 DEF Waits
      <4> QED
        BY <1>6, <2>2, <3>2, <4>1 DEF CopyInv, OneWait
    <3>3. CASE x = d
      <4>1. \A k \in 1..Len(queue[d]) : Waits(d, k) /\ queue[d][k].by = c => k = i
        BY <1>6, <2>2 DEF CopyInv, OneWait
      <4>2. Len(queue[d]) - 1 = Len(queue'[d]) /\ Len(queue[d]) \in Nat /\ Cap \in Nat
        BY <2>4, QueueLength, MemoryAssumption DEF Leaves
      <4>3. queue'[d][j] = queue[d][IF j < i THEN j ELSE j + 1]
        BY <2>4, <3>1, <3>3, <4>2 DEF Leaves
      <4>4. PICK k \in 1..Len(queue[d]) : k = (IF j < i THEN j ELSE j + 1) /\ k >= j /\ k # i
        BY <2>2, <3>1, <3>3, <4>2
      <4>5. k > Cap
        BY <3>1, <3>3, <4>2, <4>4 DEF Waits
      <4>6. Waits(d, k) /\ queue[d][k].by = c
        BY <3>1, <3>3, <4>3, <4>4, <4>5, Waiting
      <4> QED
        BY <4>1, <4>4, <4>6
    <3> QED
      BY <3>2, <3>3
  <2>9. \A b, x \in Channels : WaitsFor(b, x) /\ WaitsFor(b, x)' =>
          pc'[b] \in {"run", "letter", "stopping"} /\ cur'[b] = cur[b]
    BY <1>2, <2>8 DEF Blocked
\* What is no longer sent was nowhere else.
  <2>10. \A x \in Events : x \in sent /\ x \notin sent' => x = e /\ e # cur[c]
    BY <1>6, <2>6
  <2>11. ASSUME NEW x \in Homes, x \in Channels, Holds(x, e)', e # cur[c] PROVE FALSE
    <3>1. Holds(x, e)
      BY <2>5, <2>11, HoldsThins
    <3>2. x = d /\ Distinct(d)
      BY <2>7, <2>11, <3>1 DEF CopyInv, HomeOK
    <3> QED
      BY <2>4, <2>6, <2>11, <3>2, LeavesHome
  <2>12. Homes \subseteq Channels
    BY MemoryAssumption DEF Homes
  <2>13. \A x \in Homes, y \in Events : Holds(x, y)' /\ y \in sent => y \in sent'
    BY <2>10, <2>11, <2>12
  <2>14. ASSUME NEW x \in Channels PROVE TakenOK(x)'
    <3>1. CASE x = c
      BY <1>1, <3>1 DEF TakenOK
    <3>2. CASE x # c
      <4>1. TakenOK(x) /\ cur'[x] = cur[x]
        BY <1>1, <3>2 DEF CopyInv, SameLoop
      <4>2. cur[x] \in sent /\ cur[x] # None => cur[x] \in sent'
        <5>1. SUFFICES ASSUME cur[x] \in sent, cur[x] # None, cur[x] \notin sent' PROVE FALSE
          OBVIOUS
        <5>2. cur[x] = e /\ e # cur[c]
          BY <2>10, <5>1 DEF TypeInv, TypeOK
        <5>3. x = d /\ ~Holds(d, e)
          BY <2>7, <4>1, <5>1, <5>2 DEF TakenOK
        <5> QED
          BY <2>6, <5>3
      <4>3. cur[x] \in sent => cur[x] \in sent'
        BY <4>2, MemoryAssumption DEF TypeInv, TypeOK
      <4> QED
        BY <2>5, <4>1, <4>3, TakenKept
    <3> QED
      BY <3>1, <3>2
  <2>15. DoneOK'
    <3>1. SUFFICES ASSUME NEW h \in Handlers, NEW x \in Events, done[<<h, x>>] > 0
                   PROVE  x \in sent' /\ Made[x].channel \in Homes
      BY <1>1 DEF DoneOK
    <3>2. x \in sent /\ Made[x].channel \in Homes
      BY <3>1 DEF CopyInv, DoneOK
    <3>3. ASSUME x \notin sent' PROVE FALSE
      <4>1. x = e /\ d \in Homes
        BY <2>7, <2>10, <3>2, <3>3
      <4>2. done[<<h, x>>] = 0
        BY <2>6, <4>1 DEF CopyInv, HomeOK
      <4> QED
        BY <3>1, <4>2
    <3> QED
      BY <3>2, <3>3
  <2> QED
    BY <1>1, <2>5, <2>9, <2>13, <2>14, <2>15, CopiesThin
<1> QED
  BY <1>4, <1>5, <1>6 DEF Cancelled

LEMMA OutsideCopies ==
  ASSUME TypeInv, TypeInv', CopyInv, Outside
  PROVE  CopyInv'
<1>1. \A b \in Channels : Blocked(b) => pc[b] \in {"run", "letter", "stopping"} /\ cur[b] # None
  BY BlockedAt
<1>2. CASE \E h \in Handlers : AddHandler(h)
  BY <1>1, <1>2, CopiesStay DEF AddHandler, loopVars, resultVars
<1>3. CASE Run
  <2>1. (\A d \in Channels : pc[d] = "down") /\ UNCHANGED <<queue, cur, sent, done>>
    BY <1>3 DEF Run, EnsureChannels, resultVars
  <2> QED
    BY <1>1, <2>1, CopiesStay
<1>4. CASE Stop
  <2>1. CancelAll /\ UNCHANGED <<queue, sent, done>>
    BY <1>4 DEF Stop
  <2>2. UNCHANGED cur /\ \A b \in Channels : pc[b] # "down" => pc'[b] = "stopping"
    BY <2>1 DEF CancelAll
  <2> QED
    BY <1>1, <2>1, <2>2, CopiesStay
<1>5. CASE \E c \in Channels : Cancelled(c)
  BY <1>5, CancelledCopies
<1>6. CASE \E e \in Events : Publish(e)
  <2>1. PICK e \in Events :
          /\ e \notin sent /\ queue' = Put(queue, Made[e].channel, e, Publisher)
          /\ sent' = sent \cup {e} /\ UNCHANGED <<pc, cur, done>>
    BY <1>6 DEF Publish, loopVars, resultVars
  <2>2. Made[e].channel \in Channels /\ Publisher \notin Channels
        /\ Publisher \in Channels \cup {Publisher}
    BY MemoryAssumption
  <2>3. /\ Joins(Made[e].channel, e, Publisher)
        /\ \A d \in Channels \ {Made[e].channel} : Thins(d)
    BY <2>1, <2>2, PutJoins
  <2> QED
    BY <1>1, <2>1, <2>2, <2>3, CopiesJoin
<1>7. CASE \E c \in Drained : Drain(c)
  <2>1. PICK c \in Drained : /\ queue[c] # <<>> /\ queue' = [queue EXCEPT ![c] = Tail(@)]
                            /\ UNCHANGED <<pc, cur, sent, done>>
    BY <1>7 DEF Drain, loopVars, resultVars
  <2>2. c \in Channels
    BY MemoryAssumption
  <2>3. queue'[c] = Tail(queue[c]) /\ \A d \in Channels \ {c} : queue'[d] = queue[d]
    BY <2>1, <2>2 DEF TypeInv, TypeOK
  <2>4. Leaves(c, 1)
    BY <2>1, <2>2, <2>3, TailLeaves
  <2>5. \A d \in Channels : Thins(d)
    BY <2>2, <2>3, <2>4, LeavesThins, SameThins
  <2>6. \A d \in Channels : TakenOK(d)'
    BY <2>1, <2>5, TakenKept DEF CopyInv
  <2>7. DoneOK'
    BY <2>1 DEF CopyInv, DoneOK
  <2>8. \A b, d \in Channels : WaitsFor(b, d) /\ WaitsFor(b, d)' =>
          pc'[b] \in {"run", "letter", "stopping"} /\ cur'[b] = cur[b]
    BY <1>1, <2>1 DEF Blocked
  <2> QED
    BY <2>1, <2>5, <2>6, <2>7, <2>8, CopiesThin
<1> QED
  BY <1>2, <1>3, <1>4, <1>5, <1>6, <1>7 DEF Outside

LEMMA CopyStep ==
  LettersApart /\ TypeInv /\ TypeInv' /\ CopyInv /\ [Next]_vars => CopyInv'
<1> SUFFICES ASSUME LettersApart, TypeInv, TypeInv', CopyInv, [Next]_vars PROVE CopyInv'
  OBVIOUS
<1>1. CASE Next
  BY <1>1, NextSplits, LoopCopies, OutsideCopies
<1>2. CASE UNCHANGED vars
  <2>1. UNCHANGED <<queue, sent, done, pc, cur>>
    BY <1>2 DEF vars, loopVars, resultVars
  <2> QED
    BY <2>1, BlockedAt, CopiesStay
<1> QED
  BY <1>1, <1>2

LEMMA CopyInit == Init => CopyInv
<1> SUFFICES ASSUME Init PROVE CopyInv
  OBVIOUS
<1>1. \A d \in Channels : queue[d] = <<>> /\ cur[d] = None
  BY DEF Init
<1>2. Homes \subseteq Channels
  BY MemoryAssumption DEF Homes
<1>3. \A d \in Channels : HomeOK(d) /\ TakenOK(d) /\ WaitOK(d)
  BY <1>1 DEF HomeOK, Distinct, Holds, TakenOK, WaitOK
<1>4. OneWait
  BY <1>1 DEF OneWait
<1>5. DoneOK
  BY DEF Init, DoneOK
<1> QED
  BY <1>2, <1>3, <1>4, <1>5 DEF CopyInv

-----------------------------------------------------------------------------
(* How often a handler returns for an event.                               *)

\* Of the handlers of the message a loop is at, only those whose key is set, and
\* the one about to set it, have returned more often than the store failed.
CountOK(c) ==
  pc[c] \in Busy =>
    /\ \A h \in Handlers :
         <<Decl[h].name, cur[c]>> \notin keys
         /\ ~(pc[c] = "mark" /\ h = Handler(c)) => done[<<h, cur[c]>>] <= faults
    /\ pc[c] = "run" => Key(c) \notin keys

CountInv == CompletesOnce /\ \A c \in Channels : CountOK(c)

LEMMA SameLoopCount ==
  ASSUME TypeInv, TypeInv', HandlersGrow, NEW d \in Channels, SameLoop(d), CountOK(d),
         faults <= faults', keys \subseteq keys',
         \A h \in Handlers : <<Decl[h].name, cur[d]>> \in keys' => <<Decl[h].name, cur[d]>> \in keys,
         \A h \in Handlers : done'[<<h, cur[d]>>] = done[<<h, cur[d]>>]
  PROVE  CountOK(d)'
<1>1. SUFFICES ASSUME pc[d] \in Busy PROVE CountOK(d)'
  BY DEF CountOK, SameLoop
<1>2. AppTypes /\ LoopTypes /\ LoopOK(d)
  BY Owners DEF TypeInv
<1>3. cur[d] \in Events
  BY <1>1 DEF TypeInv, LoopOK, Busy
<1>4. at[d] # 0 => Handler(d)' = Handler(d) /\ Handler(d) \in Handlers
  <2>1. at[d] # 0 => at[d] \in 1..Len(handlers) /\ Handler(d) \in Handlers
    BY <1>2, CurrentTypes
  <2> QED
    BY <2>1 DEF Handler, HandlersGrow, SameLoop
<1>5. pc[d] \in {"run", "mark"} => at[d] # 0
  BY <1>2 DEF LoopOK
<1>6. ASSUME NEW h \in Handlers, <<Decl[h].name, cur[d]>> \notin keys',
             ~(pc[d] = "mark" /\ h = Handler(d)')
      PROVE  done'[<<h, cur[d]>>] <= faults'
  <2>1. done[<<h, cur[d]>>] <= faults
    BY <1>1, <1>4, <1>5, <1>6 DEF CountOK
  <2>2. done[<<h, cur[d]>>] \in Nat /\ faults \in Nat /\ faults' \in Nat
    BY <1>3 DEF TypeInv, TypeOK
  <2> QED
    BY <2>1, <2>2
<1>7. pc[d] = "run" => Key(d)' \notin keys'
  <2>1. SUFFICES ASSUME pc[d] = "run" PROVE <<Decl[Handler(d)].name, cur[d]>> \notin keys'
    BY <1>4, <1>5 DEF Key, SameLoop
  <2> QED
    BY <1>1, <1>4, <1>5, <2>1 DEF CountOK, Key
<1> QED
  BY <1>6, <1>7 DEF CountOK, SameLoop

LEMMA LoopCounts ==
  ASSUME TypeInv, TypeInv', CopyInv, CountInv, NEW c \in Channels, Loop(c)
  PROVE  CountInv'
<1>1. /\ LoopOK(c) /\ AppTypes /\ LoopTypes /\ CountOK(c) /\ TakenOK(c)
      /\ faults \in Nat /\ faults' \in Nat
      /\ \A x \in Handlers \X Events : done[x] \in Nat /\ done'[x] \in Nat
  BY Owners DEF TypeInv, TypeOK, CountInv, CopyInv
<1>2. UNCHANGED handlers /\ HandlersGrow
  <2>1. UNCHANGED appVars
    BY DEF Loop, Take, Abort, Gate, Emit, HandlerReturns, HandlerRaises, MarkSeen,
           StoreFails, LetterSent
  <2> QED
    BY <2>1 DEF appVars, HandlersGrow, TypeInv, TypeOK
<1>3. pc[c] \in {"gate", "run", "mark"} =>
        /\ Handler(c) \in Handlers /\ cur[c] \in Events /\ pc[c] \in Busy /\ at[c] # 0
  BY <1>1, CurrentTypes DEF LoopOK, Busy
\* The handlers of other loops' messages, and where nobody returns.
<1>4. ASSUME NEW d \in Channels \ {c}, cur[d] \in Events, cur[c] \in Events
      PROVE  cur[d] # cur[c]
  <2>1. TakenOK(d) /\ cur[d] # None /\ cur[c] # None
    BY <1>4, MemoryAssumption DEF CopyInv
  <2> QED
    BY <1>1, <1>4, <2>1 DEF TakenOK
<1>5. ASSUME faults <= faults', \A d \in Channels \ {c} : SameLoop(d),
             \/ UNCHANGED keys
             \/ keys' = keys \cup {Key(c)} /\ cur[c] \in Events,
             \/ UNCHANGED done
             \/ /\ cur[c] \in Events /\ Handler(c) \in Handlers
                /\ done' = [done EXCEPT ![<<Handler(c), cur[c]>>] = @ + 1]
      PROVE  \A d \in Channels \ {c} : CountOK(d)'
  <2> SUFFICES ASSUME NEW d \in Channels \ {c} PROVE CountOK(d)'
    OBVIOUS
  <2>1. SameLoop(d) /\ CountOK(d)
    BY <1>5 DEF CountInv
  <2>2. CASE pc[d] \notin Busy
    BY <2>1, <2>2 DEF CountOK, SameLoop
  <2>3. CASE pc[d] \in Busy
    <3>1. cur[d] \in Events
      BY <2>3 DEF TypeInv, LoopOK, Busy
    <3>2. cur[c] \in Events => cur[d] # cur[c]
      BY <1>4, <3>1
    <3>3. \A h \in Handlers : done'[<<h, cur[d]>>] = done[<<h, cur[d]>>]
      BY <1>5, <3>1, <3>2 DEF TypeInv, TypeOK
    <3>4. \A h \in Handlers :
            <<Decl[h].name, cur[d]>> \in keys' => <<Decl[h].name, cur[d]>> \in keys
      BY <1>5, <3>2 DEF Key
    <3>5. keys \subseteq keys'
      BY <1>5
    <3> QED
      BY <1>2, <1>5, <2>1, <3>3, <3>4, <3>5, SameLoopCount
  <2> QED
    BY <2>2, <2>3
<1>6. ASSUME UNCHANGED done, faults <= faults' PROVE CompletesOnce'
  <2> SUFFICES ASSUME NEW h \in Handlers, NEW e \in Events
               PROVE  done[<<h, e>>] <= 1 + faults'
    BY <1>6 DEF CompletesOnce
  <2>1. done[<<h, e>>] <= 1 + faults
    BY DEF CountInv, CompletesOnce
  <2>2. done[<<h, e>>] \in Nat
    BY <1>1
  <2> QED
    BY <1>1, <1>6, <2>1, <2>2
\* The loop itself, at the message it was at.
<1>7. ASSUME pc[c] \in Busy, Moves(c), Continues(c) \/ Ends(c) \/ Stays(c), UNCHANGED done,
             keys \subseteq keys', faults <= faults',
             pc[c] = "mark" => Key(c) \in keys' \/ faults' = faults + 1,
             pc'[c] = "run" => Stays(c) /\ Key(c) \notin keys', pc'[c] # "mark"
      PROVE  CountOK(c)'
  <2>1. CASE Ends(c)
    BY <2>1 DEF Ends, CountOK, Busy
  <2>2. CASE Continues(c) \/ Stays(c)
    <3>1. cur'[c] = cur[c] /\ cur[c] \in Events
      BY <1>7, <2>2 DEF Continues, Stays, TypeInv, LoopOK, Busy
    <3>2. ASSUME NEW h \in Handlers, <<Decl[h].name, cur[c]>> \notin keys'
          PROVE  done'[<<h, cur[c]>>] <= faults'
      <4>1. CASE ~(pc[c] = "mark" /\ h = Handler(c))
        <5>1. done[<<h, cur[c]>>] <= faults
          BY <1>1, <1>7, <3>2, <4>1 DEF CountOK
        <5> QED
          BY <1>1, <1>7, <3>1, <5>1
      <4>2. CASE pc[c] = "mark" /\ h = Handler(c)
        <5>1. faults' = faults + 1
          BY <1>7, <3>2, <4>2 DEF Key
        <5>2. done[<<h, cur[c]>>] <= 1 + faults
          BY <3>1 DEF CountInv, CompletesOnce
        <5> QED
          BY <1>1, <1>7, <3>1, <5>1, <5>2
      <4> QED
        BY <4>1, <4>2
    <3>3. pc'[c] = "run" => Key(c)' \notin keys'
      <4>1. pc'[c] = "run" => Key(c)' = Key(c)
        BY <1>2, <1>7 DEF Key, Handler, Stays
      <4> QED
        BY <1>7, <4>1
    <3> QED
      BY <3>1, <3>2, <3>3 DEF CountOK
  <2> QED
    BY <1>7, <2>1, <2>2
<1>8. CASE Take(c) /\ Moves(c) /\ Begins(c)
  <2>1. UNCHANGED <<keys, done, faults>> /\ \A d \in Channels \ {c} : SameLoop(d)
    BY <1>8 DEF Take, resultVars, Moves
  <2>2. /\ pc[c] = "idle" /\ queue[c] # <<>> /\ cur'[c] = Head(queue[c]).event
        /\ pc'[c] \in {"gate", "letter"}
    BY <1>8 DEF Begins
  <2>3. \A h \in Handlers : done[<<h, cur'[c]>>] = 0
    <3>1. queue[c] \in Seq(Messages)
      BY QueueLength
    <3>2. 1 \in 1..Len(queue[c]) /\ Head(queue[c]) = queue[c][1]
      BY <2>2, <3>1
    <3>3. queue[c][1].event \in Events
      BY <3>2, QueueLength
    <3>4. Holds(c, cur'[c]) /\ cur'[c] \in Events
      BY <2>2, <3>2, <3>3 DEF Holds
    <3>5. c \in Homes
      BY <1>1, <2>2 DEF LoopOK
    <3> QED
      BY <3>4, <3>5 DEF CopyInv, HomeOK
  <2>4. CountOK(c)'
    BY <1>1, <2>1, <2>2, <2>3 DEF CountOK
  <2>5. faults <= faults'
    BY <1>1, <2>1
  <2> QED
    BY <1>5, <1>6, <2>1, <2>4, <2>5 DEF CountInv
<1>9. CASE Abort(c)
  <2>1. CancelAll /\ UNCHANGED <<done, faults>>
    BY <1>9 DEF Abort
  <2>2. (\A d \in Channels : pc'[d] \notin Busy) /\ faults <= faults'
    BY <1>1, <2>1 DEF CancelAll, Busy
  <2> QED
    BY <1>6, <2>1, <2>2 DEF CountInv, CountOK
<1>10. CASE Emit(c)
  <2>1. UNCHANGED <<loopVars, stops, keys, done, faults>>
    BY <1>10 DEF Emit, resultVars
  <2>2. (\A d \in Channels : SameLoop(d)) /\ faults <= faults'
    BY <1>1, <2>1 DEF SameLoop, loopVars
  <2>3. \A d \in Channels : CountOK(d)'
    BY <1>2, <2>1, <2>2, SameLoopCount DEF CountInv
  <2> QED
    BY <1>6, <2>1, <2>2, <2>3 DEF CountInv
<1>11. CASE Skips(c)
  <2>1. Moves(c) /\ pc'[c] \notin {"run", "mark"}
    BY <1>11 DEF Skips, GoesOn, Continues, Ends
  <2>2. faults <= faults' /\ UNCHANGED <<keys, done>> /\ pc[c] = "gate"
    BY <1>1, <1>11 DEF Skips
  <2>3. CountOK(c)'
    BY <1>3, <1>7, <1>11, <2>1, <2>2 DEF Skips, GoesOn
  <2> QED
    BY <1>5, <1>6, <2>1, <2>2, <2>3 DEF CountInv, Moves
<1>12. CASE Starts(c)
  <2>1. Moves(c) /\ Stays(c) /\ pc[c] = "gate" /\ pc'[c] = "run" /\ Key(c) \notin keys
    BY <1>12 DEF Starts, Relabels
  <2>2. faults <= faults' /\ UNCHANGED <<keys, done>>
    BY <1>1, <1>12 DEF Starts
  <2>3. CountOK(c)'
    BY <1>3, <1>7, <2>1, <2>2
  <2> QED
    BY <1>5, <1>6, <2>1, <2>2, <2>3 DEF CountInv, Moves
<1>13. CASE Returns(c)
  <2>1. /\ Moves(c) /\ Stays(c) /\ pc[c] = "run" /\ pc'[c] = "mark"
        /\ done' = [done EXCEPT ![<<Handler(c), cur[c]>>] = @ + 1]
        /\ UNCHANGED <<keys, faults>>
    BY <1>13 DEF Returns, Relabels
  <2>2. Handler(c) \in Handlers /\ cur[c] \in Events /\ faults <= faults'
    BY <1>1, <1>3, <2>1
  <2>3. done[<<Handler(c), cur[c]>>] <= faults
    BY <1>1, <1>3, <2>1, <2>2 DEF CountOK, Key
  <2>4. /\ done'[<<Handler(c), cur[c]>>] = done[<<Handler(c), cur[c]>>] + 1
        /\ \A x \in Handlers \X Events :
             x # <<Handler(c), cur[c]>> => done'[x] = done[x]
    BY <2>1, <2>2 DEF TypeInv, TypeOK
  <2>5. CompletesOnce'
    <3>1. ASSUME NEW h \in Handlers, NEW e \in Events PROVE done'[<<h, e>>] <= 1 + faults
      <4>1. CASE h = Handler(c) /\ e = cur[c]
        BY <1>1, <2>2, <2>3, <2>4, <4>1
      <4>2. CASE ~(h = Handler(c) /\ e = cur[c])
        BY <2>4, <4>2 DEF CountInv, CompletesOnce
      <4> QED
        BY <4>1, <4>2
    <3> QED
      BY <2>1, <3>1 DEF CompletesOnce
  <2>6. CountOK(c)'
    <3>1. Handler(c)' = Handler(c) /\ cur'[c] = cur[c]
      BY <1>2, <2>1 DEF Handler, Stays
    <3>2. \A h \in Handlers : <<Decl[h].name, cur[c]>> \notin keys /\ h # Handler(c) =>
            done'[<<h, cur[c]>>] <= faults
      BY <1>1, <1>3, <2>1, <2>2, <2>4 DEF CountOK
    <3> QED
      BY <2>1, <3>1, <3>2 DEF CountOK
  <2> QED
    BY <1>5, <2>1, <2>2, <2>5, <2>6 DEF CountInv, Moves
<1>14. CASE Marks(c)
  <2>1. /\ Moves(c) /\ pc'[c] \notin {"run", "mark"} /\ pc[c] = "mark"
        /\ keys' = keys \cup {Key(c)} /\ UNCHANGED done
    BY <1>14 DEF Marks, GoesOn, Continues, Ends
  <2>2. faults <= faults'
    BY <1>1, <1>14 DEF Marks
  <2>3. CountOK(c)'
    BY <1>3, <1>7, <1>14, <2>1, <2>2 DEF Marks, GoesOn
  <2> QED
    BY <1>3, <1>5, <1>6, <2>1, <2>2, <2>3 DEF CountInv, Moves
<1>15. CASE Fails(c)
  <2>1. /\ Moves(c) /\ pc'[c] \notin {"run", "mark"} /\ pc[c] \in {"gate", "run", "mark"}
        /\ Continues(c) \/ Ends(c) \/ Stays(c)
        /\ UNCHANGED done /\ (keys' = keys \/ keys' = keys \cup {Key(c)})
        /\ pc[c] = "mark" => faults' = faults + 1
    BY <1>15 DEF Fails, GoesOn, Relabels, Continues, Ends
  <2>2. faults <= faults'
    BY <1>1, <1>15 DEF Fails
  <2>3. CountOK(c)'
    BY <1>3, <1>7, <2>1, <2>2
  <2> QED
    BY <1>3, <1>5, <1>6, <2>1, <2>2, <2>3 DEF CountInv, Moves
<1>16. CASE Delivers(c)
  <2>1. Moves(c) /\ pc'[c] \notin {"run", "mark"} /\ pc[c] = "letter" /\ pc[c] \in Busy
    BY <1>16 DEF Delivers, GoesOn, Continues, Ends, Busy
  <2>2. faults <= faults' /\ UNCHANGED <<keys, done>>
    BY <1>1, <1>16 DEF Delivers
  <2>3. CountOK(c)'
    BY <1>7, <1>16, <2>1, <2>2 DEF Delivers, GoesOn
  <2> QED
    BY <1>5, <1>6, <2>1, <2>2, <2>3 DEF CountInv, Moves
<1> QED
  BY <1>8, <1>9, <1>10, <1>11, <1>12, <1>13, <1>14, <1>15, <1>16, LoopEffects

LEMMA CountStep ==
  TypeInv /\ TypeInv' /\ CopyInv /\ CountInv /\ [Next]_vars => CountInv'
<1> SUFFICES ASSUME TypeInv, TypeInv', CopyInv, CountInv, [Next]_vars PROVE CountInv'
  OBVIOUS
<1>1. CASE Outside
  <2>1. /\ HandlersGrow /\ UNCHANGED <<keys, done, faults>>
        /\ \A d \in Channels : SameLoop(d) \/ pc'[d] \in {"down", "idle", "stopping"}
    BY <1>1, OutsideEffects DEF resultVars
  <2>2. faults <= faults'
    BY <2>1 DEF TypeInv, TypeOK
  <2>3. ASSUME NEW d \in Channels PROVE CountOK(d)'
    <3>1. CASE SameLoop(d)
      BY <2>1, <2>2, <3>1, SameLoopCount DEF CountInv
    <3>2. CASE pc'[d] \in {"down", "idle", "stopping"}
      BY <3>2 DEF CountOK, Busy
    <3> QED
      BY <2>1, <3>1, <3>2
  <2>4. CompletesOnce'
    BY <2>1 DEF CountInv, CompletesOnce
  <2> QED
    BY <2>3, <2>4 DEF CountInv
<1>2. CASE UNCHANGED vars
  BY <1>2 DEF CountInv, CompletesOnce, CountOK, Key, Handler, vars, appVars, loopVars, resultVars
<1> QED
  BY <1>1, <1>2, NextSplits, LoopCounts

\* No handler returns twice for an event, registered twice or not, on however
\* many loops, unless the store failed in between: each failure allows one more.
\* The App does not consume its own dead letters.
THEOREM CompletesOnceHolds ==
  ASSUME LettersApart
  PROVE  Spec => []CompletesOnce
<1>1. Init => CopyInv /\ CountInv
  BY CopyInit DEF Init, CountInv, CompletesOnce, CountOK, Busy
<1>2. /\ TypeInv /\ TypeInv' /\ CopyInv /\ CountInv /\ [Next]_vars
      => CopyInv' /\ CountInv'
  BY CopyStep, CountStep
<1>3. CountInv => CompletesOnce
  BY DEF CountInv
<1> QED
  BY <1>1, <1>2, <1>3, TypeCorrect, PTL DEF Spec

-----------------------------------------------------------------------------
(* What cancelled loops lose.                                              *)

\* A message of channel c is in its stream, in its loop or dealt with.
Kept(c, e) == Holds(c, e) \/ cur[c] = e \/ \E x \in closed : x.event = e

Lost(c) == {e \in sent : Made[e].channel = c /\ ~Kept(c, e)}

\* A loop that is being cancelled may still lose what it is at.
LossOK(c) ==
  /\ IsFiniteSet(Lost(c))
  /\ Cardinality(Lost(c)) + (IF pc[c] = "stopping" THEN 1 ELSE 0) <= stops[c]

LossInv == \A c \in Channels : LossOK(c)

\* Nothing more is lost, and what the cancellation may lose is accounted for.
LEMMA LossStays ==
  ASSUME TypeInv, TypeInv', NEW c \in Channels, LossOK(c),
         \/ stops'[c] = stops[c] /\ (pc'[c] = "stopping" => pc[c] = "stopping")
         \/ stops'[c] = stops[c] + 1,
         closed \subseteq closed',
         cur[c] = None \/ cur'[c] = cur[c] \/ \E x \in closed' : x.event = cur[c],
         \A e \in sent' : Made[e].channel = c =>
           IF e \in sent THEN Holds(c, e) => Holds(c, e)' \/ cur'[c] = e
                         ELSE Holds(c, e)'
  PROVE  LossOK(c)'
<1>1. sent \subseteq Events /\ sent' \subseteq Events /\ None \notin Events
  BY MemoryAssumption DEF TypeInv, TypeOK
<1>2. ASSUME NEW e \in sent', Made[e].channel = c, e \notin sent \/ Kept(c, e)
      PROVE  Holds(c, e)' \/ cur'[c] = e \/ \E x \in closed' : x.event = e
  BY <1>1, <1>2 DEF Kept
<1>3. Lost(c)' \subseteq Lost(c)
  BY <1>2 DEF Lost, Kept, Holds
<1>4. PICK L, M : L = Lost(c) /\ M = Lost(c)'
  OBVIOUS
<1>5. /\ IsFiniteSet(M) /\ Cardinality(M) <= Cardinality(L)
      /\ Cardinality(M) \in Nat /\ Cardinality(L) \in Nat
  <2>1. IsFiniteSet(L) /\ M \in SUBSET L
    BY <1>3, <1>4 DEF LossOK
  <2> QED
    BY <2>1, FS_Subset, FS_CardinalityType
<1>6. Cardinality(L) + (IF pc[c] = "stopping" THEN 1 ELSE 0) <= stops[c]
  BY <1>4 DEF LossOK
<1>7. stops[c] \in Nat /\ stops'[c] \in Nat
  BY DEF TypeInv, TypeOK
<1>8. Cardinality(M) + (IF pc'[c] = "stopping" THEN 1 ELSE 0) <= stops'[c]
  <2>1. CASE stops'[c] = stops[c] + 1
    <3>1. Cardinality(L) <= stops[c]
      BY <1>5, <1>6, <1>7
    <3> QED
      BY <1>5, <1>7, <2>1, <3>1
  <2>2. CASE stops'[c] = stops[c] /\ (pc'[c] = "stopping" => pc[c] = "stopping")
    BY <1>5, <1>6, <1>7, <2>2
  <2> QED
    BY <2>1, <2>2
<1> QED
  BY <1>4, <1>5, <1>8 DEF LossOK

\* The task of a loop ends, and with it one message is lost.
LEMMA LossOne ==
  ASSUME TypeInv, TypeInv', NEW c \in Channels, LossOK(c),
         pc[c] = "stopping", pc'[c] # "stopping", stops'[c] = stops[c],
         UNCHANGED closed, sent' \subseteq sent,
         NEW x, cur[c] \in {None, x},
         \A e \in sent' : Made[e].channel = c /\ e # x =>
           (Holds(c, e) => Holds(c, e)')
  PROVE  LossOK(c)'
<1>1. sent \subseteq Events /\ None \notin Events
  BY MemoryAssumption DEF TypeInv, TypeOK
<1>2. ASSUME NEW e \in sent', Made[e].channel = c, e # x, Kept(c, e)
      PROVE  Holds(c, e)' \/ \E y \in closed' : y.event = e
  BY <1>1, <1>2 DEF Kept
<1>3. Lost(c)' \subseteq Lost(c) \cup {x}
  BY <1>2 DEF Lost, Kept, Holds
<1>4. PICK L, M : L = Lost(c) /\ M = Lost(c)'
  OBVIOUS
<1>5. IsFiniteSet(L) /\ Cardinality(L) + 1 <= stops[c]
  BY <1>4 DEF LossOK
<1>6. /\ IsFiniteSet(L \cup {x}) /\ Cardinality(L \cup {x}) <= Cardinality(L) + 1
      /\ Cardinality(L) \in Nat
  <2>1. Cardinality(L) \in Nat
    BY <1>5, FS_CardinalityType
  <2>2. /\ IsFiniteSet(L \cup {x})
        /\ Cardinality(L \cup {x}) = IF x \in L THEN Cardinality(L) ELSE Cardinality(L) + 1
    BY <1>5, FS_AddElement
  <2> QED
    BY <2>1, <2>2
<1>7. IsFiniteSet(M) /\ Cardinality(M) <= Cardinality(L \cup {x})
  <2>1. M \in SUBSET (L \cup {x})
    BY <1>3, <1>4
  <2> QED
    BY <1>6, <2>1, FS_Subset
<1>8. Cardinality(M) \in Nat /\ Cardinality(L \cup {x}) \in Nat /\ stops[c] \in Nat
  BY <1>6, <1>7, FS_CardinalityType DEF TypeInv, TypeOK
<1>9. Cardinality(M) <= stops'[c]
  BY <1>5, <1>6, <1>7, <1>8
<1> QED
  BY <1>4, <1>7, <1>8, <1>9 DEF LossOK

\* What a loop takes from a stream is where the loop is.
LEMMA TakeHolds ==
  ASSUME TypeInv, LettersApart, NEW c \in Channels, Take(c), Moves(c), Begins(c)
  PROVE  \A d \in Channels, x \in Events :
           Holds(d, x) => Holds(d, x)' \/ (d = c /\ cur'[d] = x)
<1>1. /\ pc[c] = "idle" /\ queue[c] # <<>>
      /\ queue \in [Channels -> Seq(Messages)]
  BY DEF Take, TypeInv, TypeOK, Messages
<1>2. c \in Homes /\ DlqOf[c] \in Channels /\ DlqOf[c] # c
  BY <1>1, MemoryAssumption DEF TypeInv, LoopOK, LettersApart
<1>3. PICK e \in Events : e = Head(queue[c]).event
  <2>1. Head(queue[c]) \in Messages
    BY <1>1
  <2> QED
    BY <2>1 DEF Messages
<1>4. PICK rest \in [Channels -> Seq(Messages)] : rest = [queue EXCEPT ![c] = Tail(@)]
  <2>1. Tail(queue[c]) \in Seq(Messages)
    BY <1>1
  <2> QED
    BY <1>1, <2>1
<1>5. rest[c] = Tail(queue[c]) /\ \A d \in Channels \ {c} : rest[d] = queue[d]
  BY <1>1, <1>4
<1>6. queue' = rest \/ queue' = Put(rest, DlqOf[c], e, c)
  BY <1>3, <1>4 DEF Take
<1>7. /\ \A d \in Channels \ {DlqOf[c]} : queue'[d] = rest[d]
      /\ \/ queue'[DlqOf[c]] = rest[DlqOf[c]]
         \/ queue'[DlqOf[c]] = Append(rest[DlqOf[c]], [event |-> e, by |-> c])
  <2>1. /\ Put(rest, DlqOf[c], e, c)[DlqOf[c]] =
             Append(rest[DlqOf[c]], [event |-> e, by |-> c])
        /\ \A d \in Channels \ {DlqOf[c]} : Put(rest, DlqOf[c], e, c)[d] = rest[d]
    BY <1>2, PutTypes
  <2> QED
    BY <1>6, <2>1
<1>8. /\ queue'[c] = Tail(queue[c])
      /\ \A d \in Channels \ {c} : queue'[d] = queue[d] \/ Joins(d, e, c)
  BY <1>2, <1>5, <1>7 DEF Joins
<1>9. Leaves(c, 1) /\ e = queue[c][1].event /\ cur'[c] = e
  BY <1>1, <1>3, <1>8, TailLeaves DEF Begins
<1>10. ASSUME NEW d \in Channels \ {c}, NEW x \in Events, Holds(d, x) PROVE Holds(d, x)'
  BY <1>8, <1>10, HoldsJoins DEF Holds
<1>11. ASSUME NEW x \in Events, Holds(c, x), x # e PROVE Holds(c, x)'
  BY <1>9, <1>11, HoldsLeaves
<1> QED
  BY <1>9, <1>10, <1>11

\* The task of a loop ends: only what it was at, or was about to take, is lost;
\* an event of its handler's that waited was not sent, and the original of a
\* dead letter that waited is the message the loop was at.
LEMMA CancelledLoss ==
  ASSUME TypeInv, TypeInv', CopyInv, LossInv, NEW c \in Channels, Cancelled(c)
  PROVE  LossInv'
<1>1. /\ pc[c] = "stopping" /\ pc'[c] = "down" /\ UNCHANGED <<closed, stops>>
      /\ \A d \in Channels \ {c} : SameLoop(d)
  <2>1. AppTypes /\ LoopTypes /\ QueueTypes /\ LoopOK(c) /\ Watched(c)
    BY Owners DEF TypeInv
  <2>2. UNCHANGED <<closed, stops>>
    BY DEF Cancelled, resultVars
  <2> QED
    BY <2>1, <2>2, CancelledMoves DEF Moves
<1>2. \A d \in Channels : LossOK(d)
  BY DEF LossInv
<1>3. ASSUME NEW x, cur[c] \in {None, x}, sent' \subseteq sent,
             \A e \in sent' : Made[e].channel = c /\ e # x => (Holds(c, e) => Holds(c, e)'),
             \A d \in Channels \ {c}, e \in sent' : Made[e].channel = d =>
               (Holds(d, e) => Holds(d, e)')
      PROVE  LossInv'
  <2>1. LossOK(c)'
    BY <1>1, <1>2, <1>3, LossOne
  <2>2. ASSUME NEW d \in Channels \ {c} PROVE LossOK(d)'
    <3>1. cur'[d] = cur[d] /\ stops'[d] = stops[d] /\ pc'[d] = pc[d]
      BY <1>1 DEF SameLoop
    <3>2. \A e \in sent' : Made[e].channel = d => e \in sent /\ (Holds(d, e) => Holds(d, e)')
      BY <1>3
    <3> QED
      BY <1>1, <1>2, <3>1, <3>2, LossStays
  <2> QED
    BY <2>1, <2>2 DEF LossInv
<1>4. CASE ~Blocked(c) /\ UNCHANGED <<queue, sent>>
  <2>1. \A d \in Channels : \A x : Holds(d, x) => Holds(d, x)'
    BY <1>4 DEF Holds
  <2>2. cur[c] \in {None, cur[c]}
    OBVIOUS
  <2> QED
    BY <1>3, <1>4, <2>1, <2>2
<1>5. CASE /\ cur[c] = None /\ queue[c] # <<>>
           /\ queue' = [queue EXCEPT ![c] = Tail(@)] /\ UNCHANGED sent
  <2>1. queue'[c] = Tail(queue[c]) /\ \A d \in Channels \ {c} : queue'[d] = queue[d]
    BY <1>5 DEF TypeInv, TypeOK
  <2>2. Leaves(c, 1)
    BY <1>5, <2>1, TailLeaves
  <2>3. PICK x : x = queue[c][1].event
    OBVIOUS
  <2>4. \A e : e # x /\ Holds(c, e) => Holds(c, e)'
    BY <2>2, <2>3, HoldsLeaves
  <2>5. \A d \in Channels \ {c} : \A e : Holds(d, e) => Holds(d, e)'
    BY <2>1 DEF Holds
  <2> QED
    BY <1>3, <1>5, <2>4, <2>5
<1>6. ASSUME NEW d \in Channels, NEW i \in DOMAIN queue[d], Waits(d, i), queue[d][i].by = c,
             queue' = [queue EXCEPT ![d] = RemoveAt(@, i)],
             sent' = sent \ ({queue[d][i].event} \ {cur[c]})
      PROVE  LossInv'
  <2>1. i \in 1..Len(queue[d])
    <3>1. DOMAIN queue[d] = 1..Len(queue[d])
      BY DEF TypeInv, TypeOK
    <3> QED
      BY <1>6, <3>1
  <2>2. queue'[d] = RemoveAt(queue[d], i) /\ \A x \in Channels \ {d} : queue'[x] = queue[x]
    BY <1>6 DEF TypeInv, TypeOK
  <2>3. Leaves(d, i)
    BY <2>1, <2>2, RemoveLeaves
  <2>4. PICK e \in Events : e = queue[d][i].event
    BY <2>1, QueueLength
  <2>5. e = cur[c] => d \notin Homes
    BY <1>6, <2>1, <2>4 DEF CopyInv, WaitOK
  <2>6. e = cur[c] => Made[e].channel = c /\ c \in Homes
    BY <2>4, TakenTypes, MemoryAssumption DEF CopyInv, TakenOK
  <2>7. \A x \in sent' : x = e => Made[x].channel # d
    BY <1>6, <2>4, <2>5, <2>6
  <2>8. \A x : x # e /\ Holds(d, x) => Holds(d, x)'
    BY <2>3, <2>4, HoldsLeaves
  <2>9. \A y \in Channels \ {d} : \A x : Holds(y, x) => Holds(y, x)'
    BY <2>2 DEF Holds
  <2>10. \A y \in Channels, x \in sent' : Made[x].channel = y => (Holds(y, x) => Holds(y, x)')
    BY <2>7, <2>8, <2>9
  <2>11. cur[c] \in {None, cur[c]} /\ sent' \subseteq sent
    BY <1>6
  <2> QED
    BY <1>3, <2>10, <2>11
<1> QED
  BY <1>4, <1>5, <1>6 DEF Cancelled

LEMMA LossStep ==
  LettersApart /\ TypeInv /\ TypeInv' /\ CopyInv /\ LossInv /\ [Next]_vars => LossInv'
<1> SUFFICES ASSUME LettersApart, TypeInv, TypeInv', CopyInv, LossInv, [Next]_vars
             PROVE  LossInv'
  OBVIOUS
<1>1. ASSUME UNCHANGED queue PROVE \A d \in Channels : \A x : Holds(d, x) => Holds(d, x)'
  BY <1>1 DEF Holds
<1>2. ASSUME \A d \in Channels, x \in Events : Holds(d, x) => Holds(d, x)',
             UNCHANGED <<closed, cur, sent>>, CancelAll \/ UNCHANGED <<pc, stops>>
      PROVE  LossInv'
  <2>1. ASSUME NEW d \in Channels
        PROVE  \/ stops'[d] = stops[d] /\ (pc'[d] = "stopping" => pc[d] = "stopping")
               \/ stops'[d] = stops[d] + 1
    BY <1>2 DEF CancelAll
  <2>2. sent \subseteq Events
    BY DEF TypeInv, TypeOK
  <2> QED
    BY <1>2, <2>1, <2>2, LossStays DEF LossInv
<1>3. ASSUME NEW D \in Channels, NEW e \in Events, NEW by \in Channels \cup {Publisher},
             queue' = Put(queue, D, e, by), UNCHANGED <<closed, cur, pc, stops>>,
             Made[e].channel = D, sent' = sent \cup {e}
      PROVE  LossInv'
  <2>1. Joins(D, e, by)
    BY <1>3, PutJoins
  <2>2. \A x : Holds(D, x)' <=> Holds(D, x) \/ x = e
    BY <2>1, HoldsJoins
  <2>3. \A d \in Channels \ {D} : queue'[d] = queue[d]
    <3>1. queue \in [Channels -> Seq(Messages)]
      BY DEF TypeInv, TypeOK, Messages
    <3> QED
      BY <1>3, <3>1 DEF Put
  <2>4. \A d \in Channels : \A x : Holds(d, x) => Holds(d, x)'
    BY <2>2, <2>3 DEF Holds
  <2> QED
    BY <1>3, <2>2, <2>4, LossStays DEF LossInv
<1>4. CASE \E c \in Channels : Loop(c)
  <2>1. PICK c \in Channels : Loop(c)
    BY <1>4
  <2>2. AppTypes /\ LoopTypes /\ LoopOK(c)
    BY Owners DEF TypeInv
  <2>3. ASSUME Moves(c), \A d \in Channels, x \in Events : Holds(d, x) => Holds(d, x)',
               Continues(c) \/ Ends(c) \/ Stays(c), UNCHANGED <<sent, stops>>,
               pc'[c] # "stopping"
        PROVE  LossInv'
    <3>1. closed \subseteq closed'
      BY <2>3 DEF Continues, Ends, Stays
    <3>2. cur'[c] = cur[c] \/ \E x \in closed' : x.event = cur[c]
      <4>1. CASE Ends(c)
        <5>1. PICK S : closed' = closed \cup {[event |-> cur[c], offered |-> S]}
          BY <4>1 DEF Ends
        <5>2. PICK y : y = [event |-> cur[c], offered |-> S]
          OBVIOUS
        <5>3. y \in closed' /\ y.event = cur[c]
          BY <5>1, <5>2
        <5> QED
          BY <5>3
      <4> QED
        BY <2>3, <4>1 DEF Continues, Stays
    <3>3. ASSUME NEW d \in Channels
          PROVE  /\ cur'[d] = cur[d] \/ \E x \in closed' : x.event = cur[d]
                 /\ pc'[d] = "stopping" => pc[d] = "stopping"
      BY <2>3, <3>2 DEF Moves, SameLoop
    <3>4. sent \subseteq Events
      BY DEF TypeInv, TypeOK
    <3> QED
      BY <2>3, <3>1, <3>3, <3>4, LossStays DEF LossInv
  <2>4. CASE Take(c) /\ Moves(c) /\ Begins(c)
    <3>1. pc[c] = "idle" /\ queue[c] # <<>> /\ cur'[c] = Head(queue[c]).event
          /\ pc'[c] \in {"gate", "letter"} /\ cur[c] = None /\ c \in Homes
      BY <2>2, <2>4 DEF Begins, LoopOK
    <3>2. UNCHANGED <<sent, stops, closed>> /\ \A d \in Channels \ {c} : SameLoop(d)
      BY <2>4 DEF Take, Moves, resultVars
    <3>3. \A d \in Channels, x \in Events :
            Holds(d, x) => Holds(d, x)' \/ (d = c /\ cur'[d] = x)
      BY <2>4, TakeHolds
    <3>4. sent \subseteq Events
      BY DEF TypeInv, TypeOK
    <3>5. ASSUME NEW d \in Channels
          PROVE  /\ cur[d] = None \/ cur'[d] = cur[d]
                 /\ pc'[d] = "stopping" => pc[d] = "stopping"
      BY <3>1, <3>2 DEF SameLoop
    <3> QED
      BY <3>2, <3>3, <3>4, <3>5, LossStays DEF LossInv
  <2>5. CASE Abort(c)
    <3>1. CancelAll /\ UNCHANGED <<queue, sent>>
      BY <2>5 DEF Abort
    <3> QED
      BY <1>1, <1>2, <3>1 DEF CancelAll
  <2>6. CASE Emit(c)
    <3>1. PICK e \in Emits[Handler(c)] \ sent :
            queue' = Put(queue, Made[e].channel, e, c) /\ sent' = sent \cup {e}
      BY <2>6 DEF Emit
    <3>2. pc[c] = "run" /\ UNCHANGED <<closed, cur, pc, stops>>
      BY <2>6 DEF Emit, loopVars, resultVars
    <3>3. Handler(c) \in Handlers
      BY <2>2, <3>2, CurrentTypes DEF LoopOK
    <3>4. e \in Events /\ Made[e].channel \in Channels
      BY <3>1, <3>3, MemoryAssumption
    <3> QED
      BY <1>3, <3>1, <3>2, <3>4
  <2>7. CASE Skips(c) \/ Starts(c) \/ Returns(c) \/ Marks(c) \/ Delivers(c)
    <3>1. /\ Moves(c)
          /\ Continues(c) \/ Ends(c) \/ Stays(c)
          /\ UNCHANGED <<queue, sent, stops>> /\ pc'[c] # "stopping"
      BY <2>7 DEF Skips, Starts, Returns, Marks, Delivers, GoesOn, Relabels, Continues, Ends
    <3> QED
      BY <1>1, <2>3, <3>1
  <2>8. CASE Fails(c)
    <3>1. /\ Moves(c)
          /\ Continues(c) \/ Ends(c) \/ Stays(c)
          /\ UNCHANGED <<sent, stops>> /\ pc'[c] # "stopping"
          /\ pc[c] \in {"gate", "run", "mark"}
      BY <2>8 DEF Fails, GoesOn, Relabels, Continues, Ends
    <3>2. CASE UNCHANGED queue
      BY <1>1, <2>3, <3>1, <3>2
    <3>3. CASE queue' = Put(queue, LetterChannel(c), cur[c], c)
      <4>1. Handler(c) \in Handlers /\ cur[c] \in Events
        BY <2>2, <3>1, CurrentTypes DEF LoopOK
      <4>2. LetterChannel(c) \in Channels
        BY <4>1, HandlersHaveHomes DEF LetterChannel
      <4>3. PICK D \in Channels, e \in Events : D = LetterChannel(c) /\ e = cur[c]
        BY <4>1, <4>2
      <4>4. queue \in [Channels -> Seq(Messages)]
        BY DEF TypeInv, TypeOK, Messages
      <4>5. Joins(D, e, c)
        BY <3>3, <4>3, PutJoins
      <4>6. \A d \in Channels \ {D} : queue'[d] = queue[d]
        BY <3>3, <4>3, <4>4 DEF Put
      <4>7. \A x : Holds(D, x)' <=> Holds(D, x) \/ x = e
        BY <4>5, HoldsJoins
      <4>8. \A d \in Channels, x \in Events : Holds(d, x) => Holds(d, x)'
        BY <4>6, <4>7 DEF Holds
      <4> QED
        BY <2>3, <3>1, <4>8
    <3> QED
      BY <2>8, <3>2, <3>3 DEF Fails
  <2> QED
    BY <2>1, <2>4, <2>5, <2>6, <2>7, <2>8, LoopEffects
<1>5. CASE \E h \in Handlers : AddHandler(h)
  BY <1>1, <1>2, <1>5 DEF AddHandler, loopVars, resultVars
<1>6. CASE Run
  <2>1. /\ UNCHANGED <<queue, cur, sent, closed, stops>>
        /\ \A d \in Channels : pc'[d] # "stopping"
    BY <1>6 DEF Run, EnsureChannels, resultVars
  <2>2. sent \subseteq Events
    BY DEF TypeInv, TypeOK
  <2> QED
    BY <1>1, <2>1, <2>2, LossStays DEF LossInv
<1>7. CASE Stop
  <2>1. CancelAll /\ UNCHANGED <<queue, sent>>
    BY <1>7 DEF Stop
  <2> QED
    BY <1>1, <1>2, <2>1 DEF CancelAll
<1>8. CASE \E c \in Channels : Cancelled(c)
  BY <1>8, CancelledLoss
<1>9. CASE \E e \in Events : Publish(e)
  <2>1. PICK e \in Events :
          /\ queue' = Put(queue, Made[e].channel, e, Publisher)
          /\ sent' = sent \cup {e} /\ UNCHANGED <<pc, cur, closed, stops>>
    BY <1>9 DEF Publish, loopVars, resultVars
  <2>2. Made[e].channel \in Channels /\ Publisher \in Channels \cup {Publisher}
    BY MemoryAssumption
  <2> QED
    BY <1>3, <2>1, <2>2
<1>10. CASE \E c \in Drained : Drain(c)
  <2>1. PICK c \in Drained : /\ queue' = [queue EXCEPT ![c] = Tail(@)]
                             /\ UNCHANGED <<pc, cur, sent, closed, stops>>
    BY <1>10 DEF Drain, loopVars, resultVars
  <2>2. c \in Channels /\ sent \subseteq Events /\ \A e \in Events : Made[e].channel # c
    BY MemoryAssumption DEF TypeInv, TypeOK
  <2>3. \A d \in Channels \ {c} : queue'[d] = queue[d]
    BY <2>1, <2>2 DEF TypeInv, TypeOK
  <2>4. \A d \in Channels \ {c} : \A x : Holds(d, x) => Holds(d, x)'
    BY <2>3 DEF Holds
  <2>5. \A d \in Channels, e \in sent' : Made[e].channel = d =>
          e \in sent /\ (Holds(d, e) => Holds(d, e)')
    BY <2>1, <2>2, <2>4
  <2> QED
    BY <2>1, <2>5, LossStays DEF LossInv
<1>11. CASE UNCHANGED vars
  BY <1>1, <1>2, <1>11 DEF vars, loopVars, resultVars
<1> QED
  BY <1>4, <1>5, <1>6, <1>7, <1>8, <1>9, <1>10, <1>11, NextSplits DEF Outside

\* Of each channel at most one message is lost for each time its loop was
\* cancelled, whatever handlers and the store did; what was still queued is not.
\* The App does not consume its own dead letters.
THEOREM LossBoundHolds ==
  ASSUME LettersApart
  PROVE  Spec => []LossBound
<1>1. Init => CopyInv /\ LossInv
  <2> SUFFICES ASSUME Init PROVE LossInv
    BY CopyInit
  <2>1. ASSUME NEW c \in Channels PROVE Lost(c) = {} /\ stops[c] = 0 /\ pc[c] = "down"
    BY DEF Init, Lost
  <2>2. IsFiniteSet({}) /\ Cardinality({}) = 0
    BY FS_EmptySet
  <2> QED
    BY <2>1, <2>2 DEF LossInv, LossOK
<1>2. /\ TypeInv /\ TypeInv' /\ CopyInv /\ LossInv /\ [Next]_vars
      => CopyInv' /\ LossInv'
  BY CopyStep, LossStep
<1>3. TypeInv /\ LossInv => LossBound
  <2> SUFFICES ASSUME TypeInv, LossInv, NEW c \in Channels
               PROVE  Cardinality({e \in Gone : Made[e].channel = c}) <= stops[c]
    BY DEF LossBound
  <2>1. \A d \in Channels : DOMAIN queue[d] = 1..Len(queue[d])
    BY DEF TypeInv, TypeOK
  <2>2. {e \in Gone : Made[e].channel = c} \in SUBSET Lost(c)
    BY <2>1 DEF Gone, Lost, Kept, Holds, Queued
  <2>3. PICK G, L : G = {e \in Gone : Made[e].channel = c} /\ L = Lost(c)
    OBVIOUS
  <2>4. IsFiniteSet(L) /\ G \in SUBSET L
    BY <2>2, <2>3 DEF LossInv, LossOK
  <2>5. /\ IsFiniteSet(G) /\ Cardinality(G) <= Cardinality(L)
        /\ Cardinality(G) \in Nat /\ Cardinality(L) \in Nat
    BY <2>4, FS_Subset, FS_CardinalityType
  <2>6. Cardinality(L) + (IF pc[c] = "stopping" THEN 1 ELSE 0) <= stops[c]
        /\ stops[c] \in Nat
    BY <2>3 DEF LossInv, LossOK, TypeInv, TypeOK
  <2>7. Cardinality(G) <= stops[c]
    BY <2>5, <2>6
  <2> QED
    BY <2>3, <2>7
<1> QED
  BY <1>1, <1>2, <1>3, TypeCorrect, PTL DEF Spec

=============================================================================
