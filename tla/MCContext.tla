----------------------------- MODULE MCContext -----------------------------
(***************************************************************************)
(* Model checking of Context: processes and tags of their registers.       *)
(***************************************************************************)
EXTENDS Context
=============================================================================
