--------------------------- MODULE MCCkptManager ---------------------------
(***************************************************************************)
(* Model checking of CkptManager.  Two ranks give every interleaving of a  *)
(* writing and a waiting rank; three saves make the rotation remove a      *)
(* checkpoint within one start; three starts give a second crash, during   *)
(* the saves of the resumed job.                                           *)
(***************************************************************************)
EXTENDS CkptManager

Keep(n) == [c \in Components |-> n]
KeepOne == Keep(1)
KeepTwo == Keep(2)
=============================================================================
