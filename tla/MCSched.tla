------------------------------ MODULE MCSched ------------------------------
(***************************************************************************)
(* Model checking of Sched.  Three processes are the fewest that tell a    *)
(* round robin from any other order; MAXFILES = 4 leaves one regular open  *)
(* before the one that overruns the table.                                 *)
(***************************************************************************)
EXTENDS Sched
=============================================================================
