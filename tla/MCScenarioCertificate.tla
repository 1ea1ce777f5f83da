------------------------ MODULE MCScenarioCertificate ------------------------
(***************************************************************************)
(* Three candidates, at most two of them blocked, plans of four steps and  *)
(* a round trip of two.  Three routes lead through one candidate each and  *)
(* part in step 2, just in time; the fourth avoids them all and leaves the *)
(* others in step 1, just too late.  The hand-made tasks the certificate   *)
(* is meant for are judged on the side.                                    *)
(***************************************************************************)
EXTENDS ScenarioCertificate, CriticalTasks

MCRoutes ==
    {<<10, 11, 12, 1, 14>>, <<10, 11, 12, 2, 14>>, <<10, 11, 12, 3>>,
     <<10, 11, 13, 15, 14>>}

=============================================================================
