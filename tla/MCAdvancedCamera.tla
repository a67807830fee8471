-------------------------- MODULE MCAdvancedCamera --------------------------
(* AdvancedCamera on a small instance: exposures of 0 s and of 1.5 s (the   *)
(* second outlives the 2 s join of stop()), at most two of them.           *)
EXTENDS AdvancedCamera

MCDurations == {0, 3}
MCMaxJobs == 2
=============================================================================
