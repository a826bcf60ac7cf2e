------------------------------ MODULE MCTiming ------------------------------
(***************************************************************************)
(* An instance of RetryTiming for TLC: three durable retries, of which one *)
(* poll takes one, beside a local one.                                     *)
(***************************************************************************)
EXTENDS RetryTiming, TLC

CONSTANTS d1, d2, d3, local

MCStrategy == [t \in Tasks |-> IF t = local THEN "exponential" ELSE "durable"]
Symmetry == Permutations({d1, d2, d3})
=============================================================================
