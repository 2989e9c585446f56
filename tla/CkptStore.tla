------------------------------ MODULE CkptStore ------------------------------
(***************************************************************************)
(* What a trainer that checkpoints promises: one store that always holds   *)
(* the newest finished save, whole, except for the moment in which it is   *)
(* replaced, and a job that comes up with exactly what the store holds.    *)
(* CkptManager shows that the distributed, file by file procedure of the   *)
(* code looks like this.                                                   *)
(***************************************************************************)
EXTENDS Naturals

CONSTANT
  Unreadable   \* the store in the moment between two saves

VARIABLES
  job,      \* "down", "up" or "failed"
  step,     \* how far the weights of the job are trained
  newest    \* step of the save in the store; 0 is the untrained model

vars == <<job, step, newest>>

Init == job = "down" /\ step = 0 /\ newest = 0

ComeUp ==
  /\ job = "down" /\ newest # Unreadable
  /\ job' = "up" /\ step' = newest
  /\ UNCHANGED newest

CannotComeUp ==
  /\ job = "down" /\ newest = Unreadable
  /\ job' = "failed"
  /\ UNCHANGED <<step, newest>>

Train ==
  /\ job = "up"
  /\ step' = step + 1
  /\ UNCHANGED <<job, newest>>

Withdraw ==
  /\ job = "up"
  /\ newest' = Unreadable
  /\ UNCHANGED <<job, step>>

Publish ==
  /\ job = "up" /\ newest = Unreadable
  /\ newest' = step
  /\ UNCHANGED <<job, step>>

Die ==
  /\ job = "up"
  /\ job' = "down"
  /\ UNCHANGED <<step, newest>>

Next == ComeUp \/ CannotComeUp \/ Train \/ Withdraw \/ Publish \/ Die

Spec == Init /\ [][Next]_vars
=============================================================================
