-------------------------- MODULE SeqlenBalancing --------------------------
(***************************************************************************)
(* How a batch is cut into parts of about the same number of tokens:       *)
(* utils/seqlen_balancing.py.  A batch is the sequence of the lengths of   *)
(* its rows; a partition names rows by their positions, from 1.            *)
(***************************************************************************)
EXTENDS Integers, Sequences, FiniteSets, SequencesExt, FiniteSetsExt

CeilDiv(a, b) == -((-a) \div b)

\* The sequence itself; TLC evaluates its members here and not at every use.
Evaluated(seq) == seq \o <<>>

\* Sorting: the members of S in the order of R, in which no two tie.
InOrder(S, R) ==
  Evaluated([m \in 1..Cardinality(S) |->
               CHOOSE x \in S : Cardinality({y \in S : <<y, x>> \in R}) = m - 1])

\* The rows of a batch of n, and those of them in S, in batch order.
Rows(n) == [i \in 1..n |-> i]
RowsIn(S) == InOrder(S, {ij \in S \X S : ij[1] < ij[2]})

\* The total length of a part: its tokens by the place of their row and by
\* their own.
TokensOf(lens, part) == UNION {{p} \X (1..lens[part[p]]) : p \in DOMAIN part}
Tokens(lens, part) == Cardinality(TokensOf(lens, part))
-----------------------------------------------------------------------------
(* karmarkar_karp: the largest differencing method.  A set holds rows and  *)
(* their total length; a state holds k sets, the largest first.            *)

EmptySet == [sum |-> 0, items |-> <<>>]

\* Set.__lt__: by sum, then by number of rows, then by the rows themselves.
SetLess(a, b) ==
  \/ a.sum < b.sum
  \/ /\ a.sum = b.sum
     /\ \/ Len(a.items) < Len(b.items)
        \/ /\ Len(a.items) = Len(b.items)
           /\ \E i \in 1..Len(a.items) : /\ a.items[i] < b.items[i]
                                         /\ \A j \in 1..(i - 1) : a.items[j] = b.items[j]

\* sorted(sets, reverse=True), which leaves equal sets as they are.
Decreasing(sets) ==
  LET positions == DOMAIN sets
      precedes(p, q) == SetLess(sets[q], sets[p]) \/ (~SetLess(sets[p], sets[q]) /\ p < q)
      larger == {pq \in positions \X positions : precedes(pq[1], pq[2])}
      order == InOrder(positions, larger)
  IN  Evaluated([m \in positions |-> sets[order[m]]])

\* State.__init__ for the rows of one group.
StateOf(lens, rows, k) ==
  Decreasing([i \in 1..k |-> IF i <= Len(rows)
                             THEN [sum |-> lens[rows[i]], items |-> <<rows[i]>>]
                             ELSE EmptySet])

Spread(st) == st[1].sum - st[Len(st)].sum

\* State.__lt__: the state the heap hands out first.
Before(s, t) ==
  \/ Spread(s) > Spread(t)
  \/ Spread(s) = Spread(t) /\ SetLess(t[1], s[1])

\* Mutant: the largest set of one state joins the largest of the other.
MergedLargestFirst(s, t) ==
  Decreasing([i \in 1..Len(s) |-> [sum |-> s[i].sum + t[i].sum,
                                   items |-> s[i].items \o t[i].items]])

\* State.merge: the largest set of one state joins the smallest of the other.
Merged(s, t) ==
  Decreasing([i \in 1..Len(s) |->
    LET other == t[Len(s) + 1 - i] IN
    [sum |-> s[i].sum + other.sum, items |-> s[i].items \o other.items]])

\* heapq.heappop
Popped(states) == CHOOSE s \in states : \A t \in states \ {s} : Before(s, t)

\* One round of the loop over the heap.
MergeTwo(states) ==
  LET s == Popped(states)
      t == Popped(states \ {s})
  IN  (states \ {s, t}) \cup {Merged(s, t)}

\* The rows by length, those of equal length by position.
ByLength(lens) ==
  LET rows == DOMAIN lens
      shorter(i, j) == lens[i] < lens[j] \/ (lens[i] = lens[j] /\ i < j)
  IN  InOrder(rows, {ij \in rows \X rows : shorter(ij[1], ij[2])})

InitialStates(lens, k, equal_size) ==
  LET size == IF equal_size THEN k ELSE 1
      rows == ByLength(lens)
  IN  {StateOf(lens, SubSeq(rows, g * size + 1, (g + 1) * size), k) :
         g \in 0..(Len(lens) \div size - 1)}

KarmarkarKarp(lens, k, equal_size) ==
  LET states == InitialStates(lens, k, equal_size)
      rounds == Cardinality(states) - 1
      heap[n \in 0..rounds] == IF n = 0 THEN states ELSE MergeTwo(heap[n - 1])
  IN  [i \in 1..k |-> (CHOOSE st \in heap[rounds] : TRUE)[i].items]

\* get_seqlen_balanced_partitions: the rows of each part in batch order.
BalancedPartitions(lens, k, equal_size) ==
  LET partitions == KarmarkarKarp(lens, k, equal_size)
  IN  Evaluated([i \in 1..k |-> RowsIn(ToSet(partitions[i]))])
-----------------------------------------------------------------------------
(* rearrange_micro_batches *)

\* The number of micro-batches one rank asks for.
NumMicroBatches(lens, maxTokenLen) ==
  Min({Len(lens), CeilDiv(Tokens(lens, Rows(Len(lens))), maxTokenLen)})

\* The sort key of a micro-batch: the sum of squares, the pairs of tokens of its
\* rows, which approximates the workload, then its first row.  The sort is stable.
Work(lens, part) ==
  Cardinality(UNION {{p} \X (1..lens[part[p]]) \X (1..lens[part[p]]) : p \in DOMAIN part})
FirstRow(part) == IF part = <<>> THEN 0 ELSE Head(part)

Precedes(lens, parts, p, q) ==
  LET wp == Work(lens, parts[p])
      wq == Work(lens, parts[q])
  IN  \/ wp > wq
      \/ wp = wq /\ FirstRow(parts[p]) > FirstRow(parts[q])
      \/ wp = wq /\ FirstRow(parts[p]) = FirstRow(parts[q]) /\ p < q

\* micro_bsz_idx for the number of micro-batches all ranks agreed on: the
\* heaviest first.
MicroBatches(lens, count) ==
  LET parts == BalancedPartitions(lens, count, FALSE)
      heavier == {pq \in (1..count) \X (1..count) : Precedes(lens, parts, pq[1], pq[2])}
      order == InOrder(1..count, heavier)
  IN  [m \in 1..count |-> parts[order[m]]]
-----------------------------------------------------------------------------
(* restore_dynamic_batch *)

\* get_reverse_idx: the later of two equal entries would win.
ReverseIdx(idx_map) ==
  [j \in DOMAIN idx_map |->
     LET places == {i \in DOMAIN idx_map : idx_map[i] = j}
     IN  IF places = {} THEN idx_map[j] ELSE Max(places)]

\* Mutant: the results are indexed with the plan itself.
RestoredByPlan(results, plan) ==
  LET indices == FlattenSeq(plan) IN [i \in DOMAIN results |-> results[indices[i]]]

\* results come in the order of the micro-batches and leave in batch order.
RestoreDynamicBatch(results, plan) ==
  LET back == ReverseIdx(FlattenSeq(plan)) IN [i \in DOMAIN results |-> results[back[i]]]

=============================================================================
