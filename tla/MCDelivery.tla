----------------------------- MODULE MCDelivery -----------------------------
(***************************************************************************)
(* Instances of EvoraDelivery for TLC: model values and functions that a   *)
(* configuration file cannot write down.                                   *)
(***************************************************************************)
EXTENDS DeliveryLedger, TLC

CONSTANTS e1, e2, e3, e4

\* Payload kinds: well-formed events only, or one event of each other kind.
AllEvents == [e \in Events |-> "event"]
AllUndecodable == [e \in Events |-> "undecodable"]
MixedKinds ==
  [e \in Events |-> CASE e = e1 -> "undecodable"
                      [] e = e2 -> "unmatched"
                      [] e = e3 -> "empty"
                      [] e = e4 -> "event"]

\* RetryPolicy.max_attempts, the same for every handler.
Attempts2 == [h \in Handlers |-> 2]
Attempts3 == [h \in Handlers |-> 3]

\* Every Redis call of the loop may fail but the dead letter of an undecodable
\* message, whose failure _handle_message swallows.
AllButContract == (Calls \ {"contract"}) \cup {"scheduler"}

\* Behaviours in which no message is pending for poison_idle_ms: none is ever
\* reclaimed, so only the retry scheduler can deliver a message again.
PromptSpec == Init /\ [][Next /\ idle' = {}]_vars

Symmetry == Permutations(Workers)
=============================================================================
