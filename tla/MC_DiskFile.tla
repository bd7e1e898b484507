----------------------------- MODULE MC_DiskFile -----------------------------
(***************************************************************************)
(* TLC instance of the disk manager with crashes and faults.               *)
(***************************************************************************)
EXTENDS DiskFile

\* Each strategy, and both ways to write.
MCConfigs ==
  {[strategy |-> "by_place", sync_on_write |-> FALSE],
   [strategy |-> "sequential", sync_on_write |-> TRUE],
   [strategy |-> "new_track", sync_on_write |-> FALSE]}
=============================================================================
