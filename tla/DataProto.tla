----------------------------- MODULE DataProto -----------------------------
(***************************************************************************)
(* The operations on a batch that the driver and the workers share:        *)
(* DataProto in protocol.py and the dispatch functions of                  *)
(* single_controller/base/decorator.py.  A batch is the sequence of its    *)
(* rows; tensors and numpy arrays of a batch are cut at the same places.   *)
(***************************************************************************)
EXTENDS Integers, Sequences, FiniteSets, SequencesExt

\* DataProto.concat
Concat(batches) == FlattenSeq(batches)

\* DataProto.reorder
Reorder(batch, indices) == [i \in DOMAIN indices |-> batch[indices[i]]]

\* DataProto.chunk: parts of equal size.
Chunk(batch, chunks) ==
  LET size == Len(batch) \div chunks
  IN  [c \in 1..chunks |-> SubSeq(batch, (c - 1) * size + 1, c * size)]

SmallerOf(a, b) == IF a <= b THEN a ELSE b

\* DataProto.split: parts of size rows, the last may be smaller.
Split(batch, size) ==
  [c \in 1..((Len(batch) + size - 1) \div size) |->
     SubSeq(batch, (c - 1) * size + 1, SmallerOf(c * size, Len(batch)))]

PadSize(batch, divisor) == (divisor - (Len(batch) % divisor)) % divisor

\* pad_dataproto_to_divisor: the padding repeats the batch from its first row.
PadToDivisor(batch, divisor) ==
  batch \o [i \in 1..PadSize(batch, divisor) |-> batch[((i - 1) % Len(batch)) + 1]]

\* unpad_dataproto
Unpad(batch, pad_size) == SubSeq(batch, 1, Len(batch) - pad_size)

\* dispatch_nd_compute: ranks of one data-parallel rank get the same chunk.
DispatchTo(batch, dpRank, ranks) ==
  LET dpSize == Cardinality({dpRank[r] : r \in ranks})
  IN  [r \in ranks |-> Chunk(batch, dpSize)[dpRank[r] + 1]]

\* collect_nd_compute: of each data-parallel rank one answer, in rank order.
CollectFrom(answers, collectMask, worldSize) ==
  Concat([i \in 1..worldSize |-> IF collectMask[i - 1] THEN answers[i - 1] ELSE <<>>])

=============================================================================
