------------------------------- MODULE MCRuns -------------------------------
(* Instances of Runs: one or two workers, one or two shops.                *)
EXTENDS Runs
=============================================================================
