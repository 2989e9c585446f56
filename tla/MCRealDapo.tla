----------------------------- MODULE MCRealDapo -----------------------------
(***************************************************************************)
(* Model checking of RealDapo.  The bounds: two prompts per generation     *)
(* batch and two responses per prompt already give every class of prompt;  *)
(* the buffer threshold is crossed with and without surplus; the dataset   *)
(* ends, and the job is killed, in the middle of an accumulation.          *)
(***************************************************************************)
EXTENDS RealDapo

=============================================================================
