---------------------------- MODULE MCOneStepOff ----------------------------
(***************************************************************************)
(* Model checking of OneStepOff.  Two rollout ranks and two parameters     *)
(* give every order in which the ranks reach and leave a broadcast; four   *)
(* steps over two epochs contain the first, a middle and the last step;    *)
(* two kills resume a resumed job.                                         *)
(***************************************************************************)
EXTENDS OneStepOff

=============================================================================
