--------------------------- MODULE DeliveryLedger ---------------------------
(***************************************************************************)
(* EvoraDelivery implements EventLedger: the refinement mapping.           *)
(***************************************************************************)
EXTENDS EvoraDelivery

ledgerPhase ==
  [e \in Events |->
     CASE \A id \in Ids : stream[id].event # e -> "unpublished"
       [] Accepted(e) /\ Live(e) -> "open"
       [] Quiet(e) -> "closed"
       [] OTHER -> "missed"]

ledgerSettled ==
  [e \in Events |->
     IF Kind[e] = "empty" THEN Handlers
                          ELSE {h \in Handlers : Settled(h, e)}]

Ledger == INSTANCE EventLedger
            WITH Void <- {e \in Events : Kind[e] = "empty"},
                 phase <- ledgerPhase,
                 settled <- ledgerSettled

\* Delivery keeps the promise of EventLedger at every step: an accepted event
\* is closed only when all its handlers have settled it, nothing settled is
\* ever unsettled, and only an open event is settled.
ImplementsLedger == Ledger!Spec

-----------------------------------------------------------------------------
(* The inductive invariant the refinement rests on, besides SafeInv.       *)

\* Whatever can put an event back on the stream is of an event the group was
\* entitled to: no retry brings back what was published before the group.
Originates ==
  /\ ~group => last = 0 /\ \A w \in Workers : pc[w] = "down"
  /\ \A id \in pel : id > origin
  /\ \A w \in Workers :
       /\ \A id \in batch[w] : id > origin
       /\ msg[w] > origin \/ msg[w] = 0
       /\ \A m \in fetched[w] : Accepted(m.event)
  /\ \A m \in retryz : Accepted(m.event)

=============================================================================
