---------------------------- MODULE EventLedger ----------------------------
(***************************************************************************)
(* What evora's delivery promises a publisher, without brokers, retries or *)
(* workers: for each event, who has dealt with it and whether it can still *)
(* be delivered.  An event published while the consumer group exists is    *)
(* opened; it may be closed only when every handler has settled it; what   *)
(* is settled stays settled.  Closed events may open again (a worker that  *)
(* lost a message to another one can still schedule a retry of it, and one *)
(* batch of the retry scheduler can put several of them back at once), and *)
(* then have to be closed again.                                           *)
(***************************************************************************)
CONSTANTS
  Events,    \* what is published
  Handlers,  \* who has to settle each event
  Void       \* events nobody has to settle

VARIABLES phase, settled

ledgerVars == <<phase, settled>>

Init ==
  /\ phase = [e \in Events |-> "unpublished"]
  /\ settled = [e \in Events |-> IF e \in Void THEN Handlers ELSE {}]

Publish(e) ==
  /\ phase[e] = "unpublished"
  /\ \E p \in {"missed", "open"} : phase' = [phase EXCEPT ![e] = p]
  /\ UNCHANGED settled

Settle(e) ==
  /\ phase[e] = "open"
  /\ \E S \in SUBSET Handlers : settled' = [settled EXCEPT ![e] = @ \cup S]
  /\ UNCHANGED phase

Close(e) ==
  /\ phase[e] = "open" /\ settled[e] = Handlers
  /\ phase' = [phase EXCEPT ![e] = "closed"]
  /\ UNCHANGED settled

Reopen(S) ==
  /\ \A e \in S : phase[e] = "closed"
  /\ phase' = [e \in Events |-> IF e \in S THEN "open" ELSE phase[e]]
  /\ UNCHANGED settled

Next ==
  \/ \E e \in Events : Publish(e) \/ Settle(e) \/ Close(e)
  \/ \E S \in SUBSET Events : Reopen(S)

Spec == Init /\ [][Next]_ledgerVars
=============================================================================
