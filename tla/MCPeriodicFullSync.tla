-------------------------- MODULE MCPeriodicFullSync --------------------------
(***************************************************************************)
(* Small instances of PeriodicFullSync.                                    *)
(*                                                                         *)
(* Ample: three robots, two cells, a budget of one packet per teammate, on *)
(* a lossy link, with deltas between the sync steps.                       *)
(* Small: four robots, three cells, the default budget of two packets, a   *)
(* sync in every step, no loss.  Robots 0, 1 and 2 see all three cells in  *)
(* the same step and robot 3 sees none.                                    *)
(***************************************************************************)
EXTENDS PeriodicFullSync, TLC

AmpleTruth == <<BLOCKED, FREE>>
AmpleWindows == (0 :> {{1, 2}}) @@ (1 :> {{}, {2}}) @@ (2 :> {{}})

SmallTruth == <<BLOCKED, FREE, FREE>>
SmallWindows ==
    (0 :> {{1, 2, 3}}) @@ (1 :> {{1, 2, 3}}) @@ (2 :> {{1, 2, 3}}) @@ (3 :> {{}})

=============================================================================
