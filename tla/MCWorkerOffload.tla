-------------------------- MODULE MCWorkerOffload --------------------------
(***************************************************************************)
(* Model checking of WorkerOffload.  Two mini-batches of two micro-batches *)
(* show what one leaves to the next; four steps are two updates, by either *)
(* optimizer in either order, and two kills resume a resumed job, each     *)
(* time with any configuration.                                            *)
(***************************************************************************)
EXTENDS WorkerOffload

\* The configuration of dp_actor.yaml.
Default == {[param |-> FALSE, optimizer |-> FALSE, cache |-> TRUE]}
=============================================================================
