--------------------------- MODULE MCDeltaDelivery ---------------------------
(***************************************************************************)
(* A small instance of DeltaDelivery: a pair of robots on a map of three   *)
(* cells.  Both report cell 1, at different steps, so that its stamps      *)
(* conflict; robot 0 may only see the cells 2 and 3 instead, so that first *)
(* attempts and retries compete for two packets in each step.              *)
(***************************************************************************)
EXTENDS DeltaDelivery, TLC

MCTruth == <<BLOCKED, FREE, FREE>>

PairWindows == (0 :> {{1}, {2, 3}}) @@ (1 :> {{1}})

=============================================================================
