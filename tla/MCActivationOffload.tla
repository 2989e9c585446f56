------------------------ MODULE MCActivationOffload ------------------------
(***************************************************************************)
(* Model checking of ActivationOffload.  Five layers have a first, three   *)
(* middle and a last group; further micro-batches reuse the memory and the *)
(* counters of the first while the GPU may still be working on it.         *)
(***************************************************************************)
EXTENDS ActivationOffload

=============================================================================
