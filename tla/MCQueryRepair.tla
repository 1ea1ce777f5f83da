---------------------------- MODULE MCQueryRepair ----------------------------
(***************************************************************************)
(* A small instance of QueryRepair: robot 0 walks into cells 1 and 2 and   *)
(* may ask for either or both; robot 1 sees cell 2 at one step or another, *)
(* so that its stamp of cell 2 may be older or newer than robot 0's; robot *)
(* 2 sees cell 1 and never asks.                                           *)
(***************************************************************************)
EXTENDS QueryRepair, TLC

MCTruth == <<BLOCKED, FREE>>

MCWindows == (0 :> {{}, {2}}) @@ (1 :> {{}, {2}}) @@ (2 :> {{1}})

MCQuerySets == (0 :> {{1, 2}}) @@ (1 :> {{}, {1}}) @@ (2 :> {{}})

=============================================================================
