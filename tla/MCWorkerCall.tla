---------------------------- MODULE MCWorkerCall ----------------------------
(***************************************************************************)
(* Model checking of WorkerCall on two ranks.  Every assignment of short   *)
(* and long rows gives chunks that ask for different numbers of            *)
(* micro-batches; mini-batches of three rows leave a last one of one row;  *)
(* the prompts come in orders that sorting their uids changes within a     *)
(* rank and between ranks.                                                 *)
(***************************************************************************)
EXTENDS WorkerCall

ShortOrLong == {2, 5}

\* Four prompts with two responses each, their uids in the given order.
TwoEach(order) == [i \in 1..8 |-> order[(i + 1) \div 2]]

UidOrders == {<<1, 2, 3, 4>>, <<2, 1, 3, 4>>, <<4, 3, 2, 1>>}

MCJobs ==
  {[call |-> "validate", uid |-> Rows(n), len |-> [i \in 1..n |-> 2]] : n \in {1, 2, 3, 5}}
  \cup {[call |-> "real", uid |-> TwoEach(order), len |-> len] :
          order \in UidOrders, len \in [1..8 -> ShortOrLong]}
  \cup {[call |-> "grpo", uid |-> TwoEach(<<1, 2, 3, 4>>), len |-> len] : len \in [1..8 -> ShortOrLong]}

\* Two micro-batches are enough for these rows on average, and one of the two
\* exceeds the limit nevertheless, whichever way the three rows are divided.
ASSUME LimitIsNoMaximum ==
  LET lens == <<5, 5, 2>>
  IN  /\ NumMicroBatches(lens, 6) = 2
      /\ \E m \in 1..2 : Tokens(lens, MicroBatches(lens, 2)[m]) > 6

=============================================================================
