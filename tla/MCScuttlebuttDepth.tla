-------------------------- MODULE MCScuttlebuttDepth --------------------------
(***************************************************************************)
(* A small instance of ScuttlebuttDepth on a map of two cells: robot 0     *)
(* reports two cells, but a patch has room for one; robot 1 reports one of *)
(* them too, so that origins compete for a patch; robot 2 sees nothing and *)
(* may pass on what it heard.  Robots 1 and 2 compete for the budget of    *)
(* robot 0, and only their links with it are fair.                         *)
(***************************************************************************)
EXTENDS ScuttlebuttDepth, TLC

MCTruth == <<BLOCKED, FREE>>

TeamWindows == (0 :> {{1, 2}}) @@ (1 :> {{2}}) @@ (2 :> {{}})

MCLinks == {<<1, 0>>, <<2, 0>>}

=============================================================================
