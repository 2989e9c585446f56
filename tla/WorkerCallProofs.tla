-------------------------- MODULE WorkerCallProofs --------------------------
(***************************************************************************)
(* Proofs about WorkerCall, for any number of ranks, any mini-batch size   *)
(* and token limit, any jobs, and rows of any lengths.  Four invariants    *)
(* rest on each other: LockInv says at which operations the ranks can be   *)
(* at the same time, DataInv which rows every rank holds and what it has   *)
(* computed from them, TrainInv what it has accumulated and trained, and   *)
(* AdvantageInv what each row is compared with.                            *)
(***************************************************************************)
EXTENDS WorkerCall, SeqlenBalancingProofs, SequenceTheorems

-----------------------------------------------------------------------------
(* The inductive invariant *)

PerRank(f) == f = [r \in Ranks |-> f[r]]
Sequential(s) == \E S : s \in Seq(S)

\* Mini-batches a rank trains on in an epoch.
PerEpoch(r) == Len(MiniBatches(chunk[r]))

ShapeInv ==
  /\ PerRank(at) /\ PerRank(stage) /\ PerRank(epoch) /\ PerRank(minis)
  /\ PerRank(count) /\ PerRank(plan) /\ PerRank(done)

\* The driver's call belongs to its job, and its batch has a row for each of
\* the job's.
Working == {"real", "log_prob", "update"}

JobInv ==
  /\ job \in Jobs
  /\ pc \in {"start", "generate", "returned", "scored"} \cup Working
  /\ pc = "generate" => job.call = "validate"
  /\ pc = "real" => job.call = "real"
  /\ pc \in {"log_prob", "scored", "update"} => job.call = "grpo"
  /\ pc = "start" => batch = Rows(Len(job.uid))
  /\ Len(batch) = Len(job.uid)

\* The chunks of an update are of equal length.  The log probabilities are
\* computed on one mini-batch, and an update of GRPO trains only.
ChunkInv(r) ==
  /\ Len(chunk[r]) \in Nat
  /\ at[r] \notin {"advantages", "idle"} => Sequential(minis[r])

PlaceInv(r) ==
  /\ pc = "log_prob" => stage[r] = "eval" /\ at[r] \notin {"step", "advantages"}
  /\ pc = "log_prob" /\ at[r] # "idle" => ~(Len(minis[r]) > 1)
  /\ pc = "update" => stage[r] = "train" /\ at[r] \notin {"gather", "advantages"}

ChunksInv ==
  pc \in Working =>
    /\ \A r \in Ranks : ChunkInv(r)
    /\ \A r \in Ranks : PlaceInv(r)
    /\ \A r, s \in Ranks : Len(chunk[r]) = Len(chunk[s])

\* The ranks are all done, or on their way to one and the same operation: the
\* reduction of the number of micro-batches, the first forward pass on them
\* or the check before it, a further forward pass, the optimizer step.
Idle(r) == at[r] \in {"idle", "generate"} \/ (at[r] = "gather" /\ pc = "log_prob")

ToCount(r, st, e, m) ==
  \/ at[r] \in {"plan", "count"} /\ stage[r] = st /\ epoch[r] = e /\ Len(minis[r]) = m
  \/ /\ at[r] = "gather" /\ Len(minis[r]) > 1
     /\ stage[r] = st /\ epoch[r] = e /\ Len(minis[r]) - 1 = m
  \/ /\ pc = "real"
     /\ (at[r] = "gather" /\ ~(Len(minis[r]) > 1)) \/ at[r] = "advantages"
     /\ st = "train" /\ e = Epochs /\ m = PerEpoch(r)

ToForward(r, st, e, m, c) ==
  /\ stage[r] = st /\ epoch[r] = e /\ Len(minis[r]) = m /\ count[r] = c
  /\ \/ at[r] = "arrange"
     \/ /\ at[r] = IF pc = "real" /\ st = "train" THEN "minmax" ELSE "forward"
        /\ DOMAIN plan[r] = 1..c /\ done[r] = 0

AtForward(r, st, e, m, c, d) ==
  /\ at[r] = "forward"
  /\ stage[r] = st /\ epoch[r] = e /\ Len(minis[r]) = m /\ count[r] = c /\ done[r] = d

AtStep(r, st, e, m) ==
  at[r] = "step" /\ stage[r] = st /\ epoch[r] = e /\ Len(minis[r]) = m

AllIdling == \A r \in Ranks : Idle(r)
AllToCount == \E st, e, m : \A r \in Ranks : ToCount(r, st, e, m)
AllToForward == \E st, e, m, c : \A r \in Ranks : ToForward(r, st, e, m, c)
AllAtForward == \E st, e, m, c, d : \A r \in Ranks : AtForward(r, st, e, m, c, d)
AllAtStep == \E st, e, m : \A r \in Ranks : AtStep(r, st, e, m)

LockStep == AllIdling \/ AllToCount \/ AllToForward \/ AllAtForward \/ AllAtStep

LockInv ==
  /\ ShapeInv /\ JobInv /\ ChunksInv
  /\ IF pc \in Working THEN LockStep ELSE AllIdling
-----------------------------------------------------------------------------
(* Chunks and mini-batches *)

LEMMA FunctionLen ==
  ASSUME NEW k \in Nat, NEW f, f = [c \in 1..k |-> f[c]]
  PROVE  Sequential(f) /\ Len(f) = k
  <1>1. f \in [1..k -> {f[c] : c \in 1..k}]
    OBVIOUS
  <1>2. f \in Seq({f[c] : c \in 1..k})
    BY <1>1, SeqDef
  <1>3. DOMAIN f = 1..k
    OBVIOUS
  <1>4. Len(f) = k
    BY <1>2, <1>3, LenProperties
  <1> QED
    BY <1>2, <1>4 DEF Sequential

LEMMA TailLen ==
  ASSUME NEW s, Sequential(s), Len(s) > 1
  PROVE  Sequential(Tail(s)) /\ Len(Tail(s)) = Len(s) - 1 /\ Len(s) \in Nat
  <1>1. PICK S : s \in Seq(S)
    BY DEF Sequential
  <1>2. s # << >> /\ Len(s) \in Nat
    BY <1>1, LenProperties
  <1>3. Tail(s) \in Seq(S) /\ Len(Tail(s)) = Len(s) - 1
    BY <1>1, <1>2, HeadTailProperties
  <1> QED
    BY <1>2, <1>3 DEF Sequential

LEMMA SizesNat == WorldSize \in Nat \ {0} /\ MiniBatchSize \in Nat \ {0} /\ Epochs \in Nat \ {0}
  BY WorkerCallAssumption

LEMMA MiniBatchesSequential ==
  ASSUME NEW rows, Len(rows) \in Nat
  PROVE  Sequential(MiniBatches(rows)) /\ Len(MiniBatches(rows)) \in Nat
  <1> DEFINE all == Rows(Len(rows))
             k == (Len(all) + MiniBatchSize - 1) \div MiniBatchSize
             f == MiniBatches(rows)
  <1>1. all = [c \in 1..Len(rows) |-> all[c]]
    BY DEF Rows
  <1>2. Len(all) \in Nat
    BY <1>1, FunctionLen
  <1>3. k \in Nat
    <2> HIDE DEF all
    <2> QED
      BY <1>2, SizesNat
  <1>4. f = [c \in 1..k |-> f[c]]
    BY DEF MiniBatches, Split
  <1> HIDE DEF f, k
  <1>5. Sequential(f) /\ Len(f) = k
    BY <1>3, <1>4, FunctionLen
  <1> QED
    BY <1>3, <1>5 DEF f

\* Every rank has a chunk of its own.
LEMMA OwnChunks == Cardinality({OwnChunk[r] : r \in Ranks}) = WorldSize
  <1>1. {OwnChunk[r] : r \in Ranks} = 0..(WorldSize - 1)
    BY DEF OwnChunk, Ranks
  <1>2. Cardinality(0..(WorldSize - 1)) = WorldSize
    BY SizesNat, FS_Interval
  <1> QED
    BY <1>1, <1>2

LEMMA ChunkLen ==
  ASSUME NEW b, Len(b) \in Nat, NEW r \in Ranks
  PROVE  Len(DispatchTo(b, OwnChunk, Ranks)[r]) = Len(b) \div WorldSize
  <1> DEFINE size == Len(b) \div WorldSize
             c == r + 1
             part == SubSeq(b, (c - 1) * size + 1, c * size)
  <1>1. size \in Nat /\ c \in 1..WorldSize
    BY SizesNat DEF Ranks
  <1>2. DispatchTo(b, OwnChunk, Ranks)[r] = Chunk(b, WorldSize)[c]
    BY OwnChunks DEF DispatchTo, OwnChunk
  <1>3. Chunk(b, WorldSize)[c] = part
    BY <1>1 DEF Chunk
  <1>4. c * size - ((c - 1) * size + 1) + 1 = size /\ c * size \in Int /\ (c - 1) * size \in Int
    <2> HIDE DEF size, c
    <2>1. (c - 1) * size = c * size - size
      BY <1>1
    <2>2. c * size \in Int
      BY <1>1
    <2> QED
      BY <1>1, <2>1, <2>2
  <1>5. Len(part) = size
    <2> DEFINE m == (c - 1) * size + 1
               n == c * size
               S == {b[i] : i \in m..n}
    <2>1. m \in Int /\ n \in Int /\ n - m + 1 = size
      BY <1>4
    <2> HIDE DEF m, n, size
    <2>2. \A i \in m..n : b[i] \in S
      OBVIOUS
    <2>3. Len(SubSeq(b, m, n)) = IF m <= n THEN n - m + 1 ELSE 0
      BY <2>1, <2>2, SubSeqProperties
    <2>4. Len(SubSeq(b, m, n)) = size
      BY <1>1, <2>1, <2>3
    <2> QED
      BY <2>4 DEF m, n
  <1> HIDE DEF part, c, size
  <1> QED
    BY <1>2, <1>3, <1>5 DEF size

LEMMA SameEpochs ==
  ASSUME NEW r \in Ranks, NEW s \in Ranks, Len(chunk[r]) = Len(chunk[s])
  PROVE  PerEpoch(r) = PerEpoch(s)
  BY DEF PerEpoch, MiniBatches
-----------------------------------------------------------------------------
(* The batch of GRPO after balancing *)

\* The sizes of a job.
LEMMA JobRows ==
  ASSUME NEW j \in Jobs
  PROVE  /\ Len(j.uid) \in Nat \ {0} /\ Len(j.len) = Len(j.uid)
         /\ j.len \in [1..Len(j.uid) -> Nat \ {0}]
         /\ Rows(Len(j.uid)) \in Seq(1..Len(j.uid)) /\ Len(Rows(Len(j.uid))) = Len(j.uid)
  <1>1. /\ j.uid \in Seq(Nat) /\ j.len \in Seq(1..MaxTokenLen) /\ MaxTokenLen \in Nat \ {0}
        /\ Len(j.uid) = Len(j.len) /\ j.uid # <<>>
    BY WorkerCallAssumption
  <1>2. Len(j.uid) \in Nat \ {0}
    BY <1>1, EmptySeq, LenProperties
  <1>3. j.len \in [1..Len(j.uid) -> 1..MaxTokenLen]
    BY <1>1, LenProperties
  <1> DEFINE n == Len(j.uid)
  <1>4. Rows(n) \in [1..n -> 1..n]
    BY DEF Rows
  <1>5. \A k \in 1..MaxTokenLen : k \in Nat \ {0}
    OBVIOUS
  <1>6. j.len \in [1..n -> Nat \ {0}]
    BY <1>3, <1>5
  <1> HIDE DEF n
  <1>7. n \in Nat
    BY <1>2 DEF n
  <1>8. Rows(n) \in Seq(1..n) /\ Len(Rows(n)) = n
    BY <1>4, <1>7, EvaluatedIs
  <1> QED
    BY <1>1, <1>2, <1>6, <1>8 DEF n

\* How far the lengths of two rows of a job are apart at most.
RowsWithin(j, d) == SpreadBound(j.len, Len(j.uid), TRUE, d)

PartsOf(j) == BalancedPartitions(j.len, WorldSize, TRUE)

\* Every rank gets the same number of rows, and similar tokens.
LEMMA BalancedParts ==
  ASSUME NEW j \in Jobs, j.call = "grpo", NEW d \in Nat, RowsWithin(j, d)
  PROVE  /\ Partitions(PartsOf(j), Len(j.uid), WorldSize)
         /\ TokensWithin(j.len, PartsOf(j), WorldSize, d)
         /\ SameSize(PartsOf(j), WorldSize)
  <1>1. Len(j.uid) \in Nat \ {0} /\ j.len \in [1..Len(j.uid) -> Nat \ {0}]
    BY JobRows
  <1>2. Len(j.uid) % WorldSize = 0
    BY WorkerCallAssumption
  <1> DEFINE n == Len(j.uid)
  <1> HIDE DEF n
  <1>3. n \in Nat \ {0} /\ n % WorldSize = 0
    BY <1>1, <1>2 DEF n
  <1>4. n \div WorldSize \in Nat /\ n = (n \div WorldSize) * WorldSize
    BY <1>3, SizesNat, Divides
  <1>5. WorldSize \in 1..n
    <2> DEFINE q == n \div WorldSize
    <2>1. q # 0
      BY <1>3, <1>4, SizesNat
    <2> HIDE DEF q
    <2>2. q \in Nat /\ q * WorldSize = n
      BY <1>4 DEF q
    <2>3. \E e \in Nat : q = e + 1
      <3>1. q - 1 \in Nat /\ q = (q - 1) + 1
        BY <2>1, <2>2
      <3> QED
        BY <3>1
    <2>4. PICK e \in Nat : q = e + 1
      BY <2>3
    <2>5. n = e * WorldSize + WorldSize /\ e * WorldSize \in Nat
      BY <2>2, <2>4, SizesNat
    <2> DEFINE x == e * WorldSize
    <2> HIDE DEF x
    <2>6. n = x + WorldSize /\ x \in Nat
      BY <2>5 DEF x
    <2> QED
      BY <2>6, SizesNat
  <1> DEFINE lens == j.len
             eq == TRUE
  <1>6. SpreadBound(lens, n, eq, d) /\ lens \in [1..n -> Nat \ {0}]
    BY <1>1 DEF RowsWithin, n
  <1>7. eq \in BOOLEAN /\ eq /\ n % WorldSize = 0 /\ PartsOf(j) = BalancedPartitions(lens, WorldSize, eq)
    BY <1>3 DEF PartsOf
  <1>9. n \in Nat /\ WorldSize \in 1..n
    BY <1>3, <1>5
  <1> HIDE DEF lens, eq
  <1>8. LET P == BalancedPartitions(lens, WorldSize, eq)
        IN  Partitions(P, n, WorldSize) /\ TokensWithin(lens, P, WorldSize, d) /\ (eq => SameSize(P, WorldSize))
    BY <1>6, <1>7, <1>9, BalancedPartitionsCorrect
  <1> QED
    BY <1>7, <1>8 DEF n, lens

LEMMA RowsWithinAny == ASSUME NEW j \in Jobs PROVE RowsWithin(j, MaxTokenLen) /\ MaxTokenLen \in Nat
  <1>1. j.len \in Seq(1..MaxTokenLen) /\ Len(j.uid) = Len(j.len) /\ MaxTokenLen \in Nat
    BY WorkerCallAssumption
  <1>2. \A i \in 1..Len(j.uid) : j.len[i] \in 1..MaxTokenLen
    BY <1>1
  <1>3. \A i, k \in 1..Len(j.uid) : j.len[i] <= j.len[k] + MaxTokenLen
    <2> TAKE i, k \in 1..Len(j.uid)
    <2> DEFINE a == j.len[i]
               b == j.len[k]
    <2>1. a \in 1..MaxTokenLen /\ b \in 1..MaxTokenLen
      BY <1>2
    <2> HIDE DEF a, b
    <2>2. a <= b + MaxTokenLen
      BY <1>1, <2>1
    <2> QED
      BY <2>2 DEF a, b
  <1> QED
    BY <1>1, <1>3 DEF RowsWithin, SpreadBound

\* Every row of the batch is in it once after balancing, too.
LEMMA BalancedIs ==
  ASSUME job \in Jobs, job.call = "grpo", batch = Rows(Len(job.uid))
  PROVE  /\ Balanced(batch) = FlattenSeq(PartsOf(job))
         /\ Balanced(batch) \in Seq(1..Len(job.uid)) /\ Len(Balanced(batch)) = Len(job.uid)
         /\ Lists(Balanced(batch), Len(job.uid), 1..Len(job.uid))
  <1> DEFINE n == Len(job.uid)
             f == FlattenSeq(PartsOf(job))
  <1>1. n \in Nat /\ job.len \in [1..n -> Nat \ {0}]
    BY JobRows
  <1>2. Lens(batch) = job.len
    <2>1. Lens(batch) = [i \in 1..n |-> job.len[i]]
      BY DEF Lens, Rows
    <2> QED
      BY <1>1, <2>1
  <1>3. Balanced(batch) = Reorder(Rows(n), f)
    BY <1>2 DEF Balanced, PartsOf, Concat
  <1>4. Partitions(PartsOf(job), n, WorldSize)
    BY RowsWithinAny, BalancedParts
  <1>5. f \in Seq(1..n) /\ Len(f) = n /\ Lists(f, n, 1..n)
    <2> HIDE DEF n
    <2> QED
      BY <1>1, <1>4, SizesNat, PartitionsConcat
  <1> HIDE DEF n, f
  <1>6. f \in [1..n -> 1..n]
    BY <1>5 DEF Lists
  <1>7. Reorder(Rows(n), f) = [i \in 1..n |-> f[i]]
    <2>1. Reorder(Rows(n), f) = [i \in 1..n |-> Rows(n)[f[i]]]
      BY <1>6 DEF Reorder
    <2>2. \A i \in 1..n : Rows(n)[f[i]] = f[i]
      BY <1>6 DEF Rows
    <2> QED
      BY <2>1, <2>2
  <1>8. Balanced(batch) = f
    BY <1>3, <1>6, <1>7
  <1> QED
    BY <1>5, <1>8 DEF n, f

-----------------------------------------------------------------------------
(* The invariant is inductive *)

LEMMA LockInit == Init => LockInv
  <1> SUFFICES ASSUME Init PROVE LockInv
    OBVIOUS
  <1>1. Len(batch) = Len(job.uid)
    BY JobRows DEF Init
  <1> QED
    BY <1>1 DEF Init, LockInv, ShapeInv, JobInv, ChunksInv, ChunkInv, PlaceInv, PerRank, Same, AllIdling, Idle, Working

\* The driver

LEMMA LockCallGenerate == LockInv /\ CallGenerate => LockInv'
  BY DEF LockInv, ShapeInv, JobInv, ChunksInv, ChunkInv, PlaceInv, PerRank, Same, AllIdling, Idle, CallGenerate,
         loopVars, microVars, Working

LEMMA LockCallReal == LockInv /\ CallReal => LockInv'
  <1> SUFFICES ASSUME LockInv, CallReal PROVE LockInv'
    OBVIOUS
  <1> USE DEF LockInv
  <1>1. ShapeInv' /\ JobInv'
    BY DEF CallReal, ShapeInv, JobInv, PerRank, Same, microVars, Working
  <1>2. Len(batch) \in Nat
    BY JobRows DEF JobInv
  <1>3. \A r \in Ranks : chunk'[r] = DispatchTo(batch, OwnChunk, Ranks)[r]
    BY DEF CallReal
  <1>4. \A r \in Ranks : Len(chunk'[r]) = Len(batch) \div WorldSize
    BY <1>2, <1>3, ChunkLen
  <1>5. \A r \in Ranks : Len(chunk'[r]) \in Nat
    BY <1>2, <1>4, SizesNat
  <1>6. \A r \in Ranks : minis'[r] = MiniBatches(chunk'[r])
    BY DEF CallReal
  <1>7. \A r \in Ranks : Sequential(minis'[r])
    BY <1>5, <1>6, MiniBatchesSequential
  <1>8. ChunksInv'
    BY <1>4, <1>5, <1>7 DEF ChunksInv, ChunkInv, PlaceInv, CallReal
  <1>9. AllToCount'
    <2>1. \E m : \A r \in Ranks : Len(minis'[r]) = m
      BY <1>4, <1>6 DEF MiniBatches
    <2>2. PICK m : \A r \in Ranks : Len(minis'[r]) = m
      BY <2>1
    <2>3. \A r \in Ranks : ToCount(r, "eval", 1, m)'
      BY <2>2 DEF CallReal, Same, ToCount
    <2> QED
      BY <2>3 DEF AllToCount
  <1> QED
    BY <1>1, <1>8, <1>9 DEF LockStep, CallReal, Working

LEMMA LockCallLogProb == LockInv /\ CallLogProb => LockInv'
  <1> SUFFICES ASSUME LockInv, CallLogProb PROVE LockInv'
    OBVIOUS
  <1> USE DEF LockInv
  <1>1. Len(batch') \in Nat /\ Len(batch') = Len(job.uid)
    BY JobRows, BalancedIs DEF JobInv, CallLogProb
  <1>2. ShapeInv' /\ JobInv'
    BY <1>1 DEF CallLogProb, ShapeInv, JobInv, PerRank, Same, microVars, Working
  <1>3. \A r \in Ranks : Len(chunk'[r]) = Len(batch') \div WorldSize
    BY <1>1, ChunkLen DEF CallLogProb
  <1>4. \A r \in Ranks : Len(chunk'[r]) \in Nat
    BY <1>1, <1>3, SizesNat
  <1>5. \A r \in Ranks : \E x : minis'[r] = <<x>>
    BY DEF CallLogProb
  <1>6. \A r \in Ranks : Sequential(minis'[r]) /\ Len(minis'[r]) = 1
    <2> TAKE r \in Ranks
    <2>1. PICK x : minis'[r] = <<x>>
      BY <1>5
    <2>2. <<x>> \in Seq({x}) /\ Len(<<x>>) = 1
      OBVIOUS
    <2> QED
      BY <2>1, <2>2 DEF Sequential
  <1>7. ChunksInv'
    BY <1>3, <1>4, <1>6 DEF ChunksInv, ChunkInv, PlaceInv, CallLogProb, Same
  <1>8. \A r \in Ranks : ToCount(r, "eval", 1, 1)'
    BY <1>6 DEF CallLogProb, Same, ToCount
  <1> QED
    BY <1>2, <1>7, <1>8 DEF LockStep, AllToCount, CallLogProb, Working

LEMMA LockCallUpdate == LockInv /\ CallUpdate => LockInv'
  <1> SUFFICES ASSUME LockInv, CallUpdate PROVE LockInv'
    OBVIOUS
  <1> USE DEF LockInv
  <1>1. Len(batch) \in Nat
    BY JobRows DEF JobInv
  <1>2. ShapeInv' /\ JobInv'
    BY DEF CallUpdate, ShapeInv, JobInv, PerRank, Same, microVars, Working
  <1>3. \A r \in Ranks : Len(chunk'[r]) = Len(batch) \div WorldSize
    BY <1>1, ChunkLen DEF CallUpdate
  <1>4. \A r \in Ranks : Len(chunk'[r]) \in Nat
    BY <1>1, <1>3, SizesNat
  <1>5. \A r \in Ranks : minis'[r] = MiniBatches(chunk'[r])
    BY DEF CallUpdate
  <1>6. \A r \in Ranks : Sequential(minis'[r])
    BY <1>4, <1>5, MiniBatchesSequential
  <1>7. ChunksInv'
    BY <1>3, <1>4, <1>6 DEF ChunksInv, ChunkInv, PlaceInv, CallUpdate, Same
  <1>8. \E m : \A r \in Ranks : Len(minis'[r]) = m
    BY <1>3, <1>5 DEF MiniBatches
  <1>9. PICK m : \A r \in Ranks : Len(minis'[r]) = m
    BY <1>8
  <1>10. \A r \in Ranks : ToCount(r, "train", Epochs, m)'
    BY <1>9 DEF CallUpdate, Same, ToCount
  <1> QED
    BY <1>2, <1>7, <1>10 DEF LockStep, AllToCount, CallUpdate, Working

LEMMA LockCollect == LockInv /\ Collect => LockInv'
  BY DEF LockInv, ShapeInv, JobInv, ChunksInv, ChunkInv, PlaceInv, PerRank, AllIdling, Idle, AllIdle, Collect,
         loopVars, microVars, Working

LEMMA LockReturn == LockInv /\ Return => LockInv'
  BY DEF LockInv, ShapeInv, JobInv, ChunksInv, ChunkInv, PlaceInv, PerRank, AllIdling, Idle, AllIdle, Return,
         loopVars, microVars, Working

LEMMA LockStutter == LockInv /\ UNCHANGED vars => LockInv'
  BY DEF LockInv, ShapeInv, JobInv, ChunksInv, ChunkInv, PlaceInv, PerRank, AllIdling, Idle, LockStep, AllToCount,
         AllToForward, AllAtForward, AllAtStep, ToCount, ToForward, AtForward, AtStep, PerEpoch,
         MiniBatches, vars, driverVars, dataVars, loopVars, microVars, evalVars, trainVars

\* A rank at these places is in an update or computes log probabilities.
LEMMA InCall ==
  ASSUME LockInv, NEW r \in Ranks, ~Idle(r)
  PROVE  pc \in Working /\ LockStep
  BY DEF LockInv, AllIdling

LEMMA ChunksAre ==
  ASSUME LockInv, pc \in Working, NEW r \in Ranks
  PROVE  /\ Len(chunk[r]) \in Nat /\ (at[r] \notin {"advantages", "idle"} => Sequential(minis[r]))
         /\ PlaceInv(r)
  BY DEF LockInv, ChunksInv, ChunkInv

LEMMA ChunksKept ==
  ASSUME LockInv, pc \in Working, UNCHANGED <<pc, chunk>>,
         \A r \in Ranks : at'[r] \notin {"advantages", "idle"} => Sequential(minis'[r]),
         \A r \in Ranks : PlaceInv(r)'
  PROVE  ChunksInv'
  <1>1. \A r \in Ranks : ChunkInv(r)'
    BY ChunksAre DEF ChunkInv
  <1>2. \A r, s \in Ranks : Len(chunk'[r]) = Len(chunk'[s])
    BY DEF LockInv, ChunksInv
  <1> QED
    BY <1>1, <1>2 DEF ChunksInv

\* Which of the alternatives of LockStep a rank's place leaves.
LEMMA OneAlternative ==
  ASSUME LockStep, NEW r \in Ranks
  PROVE  /\ at[r] \in {"plan", "count", "advantages"} => AllToCount
         /\ at[r] = "gather" => AllToCount \/ (AllIdling /\ pc = "log_prob")
         /\ at[r] \in {"arrange", "minmax"} => AllToForward
         /\ at[r] = "forward" => AllToForward \/ AllAtForward
         /\ at[r] = "step" => AllAtStep
  BY DEF LockStep, AllIdling, Idle, AllToCount, AllToForward, AllAtForward, AllAtStep,
         ToCount, ToForward, AtForward, AtStep

\* A rank alone

LEMMA LockGenerate == ASSUME NEW r \in Ranks PROVE LockInv /\ Generate(r) => LockInv'
  <1> SUFFICES ASSUME LockInv, Generate(r) PROVE LockInv'
    OBVIOUS
  <1> USE DEF LockInv
  <1>1. ShapeInv' /\ JobInv' /\ ChunksInv'
    BY DEF Generate, ShapeInv, JobInv, ChunksInv, ChunkInv, PlaceInv, PerRank, driverVars, dataVars, loopVars, microVars
  <1>2. AllIdling
    BY OneAlternative DEF LockStep, AllIdling, AllToCount, AllToForward, AllAtForward, AllAtStep,
          ToCount, ToForward, AtForward, AtStep, Generate
  <1>3. AllIdling'
    BY <1>2 DEF Generate, AllIdling, Idle, ShapeInv, PerRank, driverVars
  <1> QED
    BY <1>1, <1>3 DEF LockStep

\* What a rank does on its own on the way to the reduction.
LEMMA LockToCount ==
  ASSUME LockInv, AllToCount, pc \in Working, NEW r \in Ranks,
         ShapeInv', JobInv', ChunksInv', UNCHANGED <<pc, chunk>>,
         \A s \in Ranks \ {r} : UNCHANGED <<at[s], stage[s], epoch[s], minis[s]>>,
         \A st, e, m : ToCount(r, st, e, m) => ToCount(r, st, e, m)'
  PROVE  LockInv'
  <1>1. PICK st, e, m : \A s \in Ranks : ToCount(s, st, e, m)
    BY DEF AllToCount
  <1>2. \A s \in Ranks : ToCount(s, st, e, m)'
    <2> TAKE s \in Ranks
    <2>1. CASE s = r
      BY <1>1, <2>1
    <2>2. CASE s # r
      <3>1. ToCount(s, st, e, m)
        BY <1>1
      <3> QED
        BY <2>2, <3>1 DEF ToCount, PerEpoch
    <2> QED
      BY <2>1, <2>2
  <1> QED
    BY <1>2 DEF LockInv, LockStep, AllToCount

LEMMA LockPlan == ASSUME NEW r \in Ranks PROVE LockInv /\ Plan(r) => LockInv'
  <1> SUFFICES ASSUME LockInv, Plan(r) PROVE LockInv'
    OBVIOUS
  <1>1. pc \in Working /\ AllToCount
    BY InCall, OneAlternative DEF Plan, Idle, LockInv
  <1>2. ShapeInv' /\ JobInv' /\ ChunksInv'
    BY DEF LockInv, Plan, ShapeInv, JobInv, ChunksInv, ChunkInv, PlaceInv, PerRank, driverVars, dataVars, loopVars
  <1>3. at' = [at EXCEPT ![r] = "count"] /\ at'[r] = "count"
    BY DEF LockInv, ShapeInv, PerRank, Plan
  <1>4. \A s \in Ranks \ {r} : UNCHANGED <<at[s], stage[s], epoch[s], minis[s]>>
    BY <1>3 DEF LockInv, ShapeInv, PerRank, Plan, loopVars
  <1>5. \A st, e, m : ToCount(r, st, e, m) => ToCount(r, st, e, m)'
    BY <1>3 DEF ToCount, Plan, loopVars
  <1> QED
    BY <1>1, <1>2, <1>4, <1>5, LockToCount DEF Plan, driverVars, dataVars

\* The log probabilities of a rank are complete.
LEMMA LockGatherLast ==
  ASSUME NEW r \in Ranks, LockInv, Gather(r), pc = "log_prob", ShapeInv', JobInv'
  PROVE  LockInv'
  <1>1. LockStep /\ pc \in Working
    BY DEF LockInv, Working
  <1>2. ~(Len(minis[r]) > 1)
    BY <1>1 DEF LockInv, ChunksInv, ChunkInv, PlaceInv, Gather
  <1>3. AllIdling
    <2>1. CASE AllToCount
      <3>1. PICK st, e, m : ToCount(r, st, e, m)
        BY <2>1 DEF AllToCount
      <3> QED
        BY <1>2, <3>1 DEF ToCount, Gather
    <2> QED
      BY <1>1, <2>1, OneAlternative DEF Gather
  <1>4. at' = [at EXCEPT ![r] = "idle"] /\ at'[r] = "idle" /\ pc' = pc
    BY <1>2 DEF LockInv, ShapeInv, PerRank, Gather, driverVars
  <1>5. \A s \in Ranks \ {r} : at'[s] = at[s] /\ minis'[s] = minis[s]
    BY <1>4 DEF LockInv, ShapeInv, PerRank, Gather
  <1>6. AllIdling'
    BY <1>3, <1>4, <1>5 DEF AllIdling, Idle
  <1>7. UNCHANGED <<chunk, stage>>
    BY DEF Gather, dataVars
  <1>8. ChunksInv'
    BY <1>1, <1>4, <1>5, <1>7 DEF LockInv, ChunksInv, ChunkInv, PlaceInv
  <1> QED
    BY <1>4, <1>6, <1>8 DEF LockInv, LockStep

LEMMA LockGatherReal ==
  ASSUME NEW r \in Ranks, LockInv, Gather(r), pc = "real", ShapeInv', JobInv'
  PROVE  LockInv'
  <1>0. ~Idle(r)
    BY DEF Gather, Idle
  <1>1. pc \in Working /\ pc = "real" /\ AllToCount
    BY <1>0, InCall, OneAlternative DEF Gather
  <1>2. ShapeInv' /\ JobInv'
    OBVIOUS
  <1>3. /\ minis'[r] = Tail(minis[r])
        /\ at'[r] = IF Len(minis[r]) > 1 THEN "plan" ELSE "advantages"
    BY <1>1 DEF LockInv, ShapeInv, PerRank, Gather
  <1>4. \A s \in Ranks \ {r} : UNCHANGED <<at[s], stage[s], epoch[s], minis[s]>>
    BY DEF LockInv, ShapeInv, PerRank, Gather
  <1>5. Sequential(minis[r])
    BY <1>1, ChunksAre DEF Gather
  <1>6. \A st, e, m : ToCount(r, st, e, m) => ToCount(r, st, e, m)'
    <2> SUFFICES ASSUME NEW st, NEW e, NEW m, ToCount(r, st, e, m) PROVE ToCount(r, st, e, m)'
      OBVIOUS
    <2>1. CASE Len(minis[r]) > 1
      <3>1. Len(minis'[r]) = Len(minis[r]) - 1 /\ Len(minis[r]) \in Nat
        BY <1>3, <1>5, <2>1, TailLen
      <3>2. Len(minis[r]) - 1 = m /\ stage[r] = st /\ epoch[r] = e
        BY <2>1 DEF ToCount, Gather
      <3> QED
        BY <1>3, <2>1, <3>1, <3>2 DEF ToCount, Gather
    <2>2. CASE ~(Len(minis[r]) > 1)
      BY <1>3, <2>2 DEF ToCount, PerEpoch, Gather, dataVars, driverVars
    <2> QED
      BY <2>1, <2>2
  <1>7. ChunksInv'
    <2>1. \A s \in Ranks : PlaceInv(s)'
      BY <1>1 DEF PlaceInv, Gather, driverVars
    <2>2. at'[r] \notin {"advantages", "idle"} => Sequential(minis'[r])
      BY <1>3, <1>5, TailLen
    <2>3. \A s \in Ranks : at'[s] \notin {"advantages", "idle"} => Sequential(minis'[s])
      BY <1>1, <1>4, <2>2, ChunksAre
    <2> QED
      BY <1>1, <2>1, <2>3, ChunksKept DEF Gather, driverVars, dataVars
  <1> QED
    BY <1>1, <1>2, <1>4, <1>6, <1>7, LockToCount DEF Gather, driverVars, dataVars

LEMMA LockGather == ASSUME NEW r \in Ranks PROVE LockInv /\ Gather(r) => LockInv'
  <1> SUFFICES ASSUME LockInv, Gather(r) PROVE LockInv'
    OBVIOUS
  <1>2. ShapeInv' /\ JobInv'
    BY DEF LockInv, Gather, ShapeInv, JobInv, PerRank, driverVars, microVars
  <1>9. pc = "real" \/ pc = "log_prob"
    BY InCall DEF Gather, Idle, LockInv, ChunksInv, ChunkInv, PlaceInv, Working
  <1>10. CASE pc = "log_prob"
    BY <1>2, <1>10, LockGatherLast
  <1>11. CASE pc = "real"
    BY <1>2, <1>11, LockGatherReal
  <1> QED
    BY <1>9, <1>10, <1>11

LEMMA LockComputeAdvantages ==
  ASSUME NEW r \in Ranks PROVE LockInv /\ ComputeAdvantages(r) => LockInv'
  <1> SUFFICES ASSUME LockInv, ComputeAdvantages(r) PROVE LockInv'
    OBVIOUS
  <1>1. pc \in Working /\ AllToCount
    BY InCall, OneAlternative DEF ComputeAdvantages, Idle, LockInv
  <1>2. ShapeInv' /\ JobInv'
    BY DEF LockInv, ComputeAdvantages, ShapeInv, JobInv, PerRank, driverVars, microVars
  <1>3. /\ minis'[r] = MiniBatches(chunk[r])
        /\ at'[r] = "plan" /\ stage'[r] = "train" /\ epoch'[r] = Epochs
    BY DEF LockInv, ShapeInv, PerRank, ComputeAdvantages
  <1>4. \A s \in Ranks \ {r} : UNCHANGED <<at[s], stage[s], epoch[s], minis[s]>>
    BY DEF LockInv, ShapeInv, PerRank, ComputeAdvantages
  <1>5. Sequential(minis'[r])
    BY <1>1, <1>3, MiniBatchesSequential DEF LockInv, ChunksInv, ChunkInv, PlaceInv
  <1>6. ChunksInv'
    <2>1. pc = "real"
      BY <1>1, ChunksAre DEF ComputeAdvantages, PlaceInv, Working
    <2>2. \A s \in Ranks : PlaceInv(s)'
      BY <2>1 DEF PlaceInv, ComputeAdvantages, driverVars
    <2>3. \A s \in Ranks : at'[s] \notin {"advantages", "idle"} => Sequential(minis'[s])
      BY <1>1, <1>4, <1>5, ChunksAre
    <2> QED
      BY <1>1, <2>2, <2>3, ChunksKept DEF ComputeAdvantages, driverVars, dataVars
  <1>7. \A st, e, m : ToCount(r, st, e, m) => ToCount(r, st, e, m)'
    BY <1>3 DEF ToCount, PerEpoch, ComputeAdvantages
  <1> QED
    BY <1>1, <1>2, <1>4, <1>6, <1>7, LockToCount DEF ComputeAdvantages, driverVars, dataVars

LEMMA MicroBatchesDomain == \A lens, c : DOMAIN MicroBatches(lens, c) = 1..c
  BY DEF MicroBatches

LEMMA LockArrange == ASSUME NEW r \in Ranks PROVE LockInv /\ Arrange(r) => LockInv'
  <1> SUFFICES ASSUME LockInv, Arrange(r) PROVE LockInv'
    OBVIOUS
  <1>1. pc \in Working /\ AllToForward
    BY InCall, OneAlternative DEF Arrange, Idle, LockInv
  <1>2. ShapeInv' /\ JobInv' /\ ChunksInv'
    BY DEF LockInv, Arrange, ShapeInv, JobInv, ChunksInv, ChunkInv, PlaceInv, PerRank, driverVars, dataVars, loopVars
  <1>3. /\ at'[r] = IF pc = "real" /\ stage[r] = "train" THEN "minmax" ELSE "forward"
        /\ plan'[r] = MicroBatches(MiniLens(r), count[r]) /\ done'[r] = 0
    BY <1>1 DEF LockInv, ShapeInv, PerRank, Arrange
  <1>4. \A s \in Ranks \ {r} : UNCHANGED <<at[s], plan[s], done[s]>>
    BY DEF LockInv, ShapeInv, PerRank, Arrange
  <1>5. PICK st, e, m, c : \A s \in Ranks : ToForward(s, st, e, m, c)
    BY <1>1 DEF AllToForward
  <1>6. \A s \in Ranks : ToForward(s, st, e, m, c)'
    <2> TAKE s \in Ranks
    <2>1. ToForward(s, st, e, m, c)
      BY <1>5
    <2>2. CASE s = r
      <3>1. DOMAIN plan'[r] = 1..count[r]
        BY <1>3, MicroBatchesDomain
      <3> QED
        BY <1>3, <2>1, <2>2, <3>1 DEF ToForward, Arrange, loopVars, driverVars
    <2>3. CASE s # r
      BY <1>4, <2>1, <2>3 DEF ToForward, Arrange, loopVars, driverVars
    <2> QED
      BY <2>2, <2>3
  <1> QED
    BY <1>1, <1>2, <1>6 DEF LockInv, LockStep, AllToForward, Arrange, driverVars

\* All ranks together

LEMMA SomeRank == 0 \in Ranks
  BY SizesNat DEF Ranks

LEMMA LockReduceCount == LockInv /\ ReduceCount => LockInv'
  <1> SUFFICES ASSUME LockInv, ReduceCount PROVE LockInv'
    OBVIOUS
  <1>1. pc \in Working /\ AllToCount
    BY InCall, OneAlternative, SomeRank DEF ReduceCount, Reached, Idle, LockInv
  <1>2. ShapeInv' /\ JobInv' /\ ChunksInv'
    <2>1. ShapeInv' /\ JobInv'
      BY DEF LockInv, ReduceCount, Same, ShapeInv, JobInv, PerRank, driverVars, loopVars
    <2>2. \A r \in Ranks : Len(chunk[r]) \in Nat /\ Sequential(minis[r])
      BY <1>1, ChunksAre DEF ReduceCount, Reached
    <2>3. ChunksInv'
      <3>1. \A r \in Ranks : PlaceInv(r)'
        <4> TAKE r \in Ranks
        <4>1. PlaceInv(r)
          BY <1>1, ChunksAre
        <4> QED
          BY <4>1 DEF PlaceInv, ReduceCount, Reached, Same, driverVars, loopVars
      <3> QED
        BY <1>1, <2>2, <3>1, ChunksKept DEF ReduceCount, driverVars, dataVars, loopVars
    <2> QED
      BY <2>1, <2>3
  <1>3. PICK st, e, m : \A s \in Ranks : ToCount(s, st, e, m)
    BY <1>1 DEF AllToCount
  <1>4. \A r, s \in Ranks : AgreedCount(r) = AgreedCount(s)
    BY DEF AgreedCount
  <1>5. PICK c : \A r \in Ranks : AgreedCount(r) = c
    BY <1>4
  <1>6. \A s \in Ranks : ToForward(s, st, e, m, c)'
    BY <1>3, <1>5 DEF ToCount, ToForward, ReduceCount, Reached, Same, loopVars
  <1> QED
    BY <1>1, <1>2, <1>6 DEF LockInv, LockStep, AllToForward, ReduceCount, driverVars

LEMMA LockCompareCounts == LockInv /\ CompareCounts => LockInv'
  <1> SUFFICES ASSUME LockInv, CompareCounts PROVE LockInv'
    OBVIOUS
  <1>1. pc \in Working /\ AllToForward
    BY InCall, OneAlternative, SomeRank DEF CompareCounts, Reached, Idle, LockInv
  <1>2. ShapeInv' /\ JobInv' /\ ChunksInv'
    <2>1. ShapeInv' /\ JobInv'
      BY DEF LockInv, CompareCounts, Same, ShapeInv, JobInv, PerRank, driverVars, loopVars, microVars
    <2>2. \A r \in Ranks : Len(chunk[r]) \in Nat /\ Sequential(minis[r])
      BY <1>1, ChunksAre DEF CompareCounts, Reached
    <2>3. ChunksInv'
      <3>1. \A r \in Ranks : PlaceInv(r)'
        <4> TAKE r \in Ranks
        <4>1. PlaceInv(r)
          BY <1>1, ChunksAre
        <4> QED
          BY <4>1 DEF PlaceInv, CompareCounts, Reached, Same, driverVars, loopVars
      <3> QED
        BY <1>1, <2>2, <3>1, ChunksKept DEF CompareCounts, driverVars, dataVars, loopVars
    <2> QED
      BY <2>1, <2>3
  <1>3. PICK st, e, m, c : \A s \in Ranks : ToForward(s, st, e, m, c)
    BY <1>1 DEF AllToForward
  <1>4. \A r, s \in Ranks : DOMAIN plan[r] = DOMAIN plan[s]
    BY <1>3 DEF ToForward, CompareCounts, Reached
  <1>5. \A s \in Ranks : AtForward(s, st, e, m, c, 0)'
    BY <1>3, <1>4 DEF ToForward, AtForward, CompareCounts, Reached, Same, loopVars, microVars
  <1> QED
    BY <1>1, <1>2, <1>5 DEF LockInv, LockStep, AllAtForward, CompareCounts, driverVars

LEMMA LockForward == LockInv /\ Forward => LockInv'
  <1> SUFFICES ASSUME LockInv, Forward PROVE LockInv'
    OBVIOUS
  <1>1. pc \in Working /\ (AllToForward \/ AllAtForward)
    BY InCall, OneAlternative, SomeRank DEF Forward, Reached, Idle, LockInv
  <1>2. ShapeInv' /\ JobInv' /\ ChunksInv'
    <2>1. ShapeInv' /\ JobInv'
      BY DEF LockInv, Forward, ShapeInv, JobInv, PerRank, driverVars, loopVars
    <2>2. \A r \in Ranks : Len(chunk[r]) \in Nat /\ Sequential(minis[r])
      BY <1>1, ChunksAre DEF Forward, Reached
    <2>3. ChunksInv'
      <3>1. \A r \in Ranks : PlaceInv(r)'
        <4> TAKE r \in Ranks
        <4>1. PlaceInv(r)
          BY <1>1, ChunksAre
        <4> QED
          BY <4>1 DEF PlaceInv, Forward, Reached, driverVars, loopVars
      <3> QED
        BY <1>1, <2>2, <3>1, ChunksKept DEF Forward, driverVars, dataVars, loopVars
    <2> QED
      BY <2>1, <2>3
  <1>3. \E st, e, m, c, d : \A s \in Ranks : AtForward(s, st, e, m, c, d)
    <2>1. CASE AllToForward
      <3>1. PICK st, e, m, c : \A s \in Ranks : ToForward(s, st, e, m, c)
        BY <2>1 DEF AllToForward
      <3>2. \A s \in Ranks : AtForward(s, st, e, m, c, 0)
        BY <3>1 DEF ToForward, AtForward, Forward, Reached
      <3> QED
        BY <3>2
    <2> QED
      BY <1>1, <2>1 DEF AllAtForward
  <1>4. PICK st, e, m, c, d : \A s \in Ranks : AtForward(s, st, e, m, c, d)
    BY <1>3
  <1>5. \A r \in Ranks :
          /\ done'[r] = d + 1
          /\ at'[r] = IF ~(d + 1 = c) THEN "forward" ELSE IF st = "eval" THEN "gather" ELSE "step"
    BY <1>4 DEF AtForward, Forward, LastMicro
  <1>6. \A r \in Ranks : stage'[r] = st /\ epoch'[r] = e /\ Len(minis'[r]) = m /\ count'[r] = c
    BY <1>4 DEF AtForward, Forward, loopVars
  <1>7. LockStep'
    <2>1. CASE ~(d + 1 = c)
      <3>1. \A r \in Ranks : AtForward(r, st, e, m, c, d + 1)'
        BY <1>5, <1>6, <2>1 DEF AtForward
      <3> QED
        BY <3>1 DEF LockStep, AllAtForward
    <2>2. CASE d + 1 = c /\ st # "eval"
      <3>1. \A r \in Ranks : AtStep(r, st, e, m)'
        BY <1>5, <1>6, <2>2 DEF AtStep
      <3> QED
        BY <3>1 DEF LockStep, AllAtStep
    <2>3. CASE d + 1 = c /\ st = "eval" /\ m > 1
      <3>1. \A r \in Ranks : ToCount(r, st, e, m - 1)'
        BY <1>5, <1>6, <2>3 DEF ToCount
      <3> QED
        BY <3>1 DEF LockStep, AllToCount
    <2>5. CASE d + 1 = c /\ st = "eval" /\ pc = "log_prob"
      <3>1. \A r \in Ranks : Idle(r)'
        BY <1>5, <2>5 DEF Idle, Forward, driverVars
      <3> QED
        BY <3>1 DEF LockStep, AllIdling
    <2>6. pc = "update" => st # "eval"
      BY <1>1, <1>4, SomeRank DEF AtForward, LockInv, ChunksInv, ChunkInv, PlaceInv
    <2>4. CASE d + 1 = c /\ st = "eval" /\ ~(m > 1) /\ pc = "real"
      <3>1. \A r, s \in Ranks : PerEpoch(r) = PerEpoch(s)
        BY <1>1, SameEpochs DEF LockInv, ChunksInv, ChunkInv, PlaceInv
      <3>2. \E k : \A r \in Ranks : PerEpoch(r) = k
        BY <3>1
      <3>3. PICK k : \A r \in Ranks : PerEpoch(r) = k
        BY <3>2
      <3>4. \A r \in Ranks : PerEpoch(r)' = k
        BY <3>3 DEF PerEpoch, Forward, dataVars
      <3>6. pc' = "real"
        BY <2>4 DEF Forward, driverVars
      <3>5. \A r \in Ranks : ToCount(r, "train", Epochs, k)'
        BY <1>5, <1>6, <2>4, <3>4, <3>6 DEF ToCount
      <3> QED
        BY <3>5 DEF LockStep, AllToCount
    <2> QED
      BY <1>1, <2>1, <2>2, <2>3, <2>4, <2>5, <2>6 DEF Working
  <1> QED
    BY <1>1, <1>2, <1>7 DEF LockInv, Forward, driverVars

LEMMA LockOptimizerStep == LockInv /\ Step => LockInv'
  <1> SUFFICES ASSUME LockInv, Step PROVE LockInv'
    OBVIOUS
  <1>1. pc \in Working /\ AllAtStep
    BY InCall, OneAlternative, SomeRank DEF Step, Reached, Idle, LockInv
  <1>2. ShapeInv' /\ JobInv'
    BY DEF LockInv, Step, ShapeInv, JobInv, PerRank, driverVars, microVars
  <1>3. PICK st, e, m : \A s \in Ranks : AtStep(s, st, e, m)
    BY <1>1 DEF AllAtStep
  <1>4. \A r \in Ranks :
          /\ minis'[r] = IF m > 1 THEN Tail(minis[r]) ELSE MiniBatches(chunk[r])
          /\ epoch'[r] = IF m > 1 THEN e ELSE e - 1
          /\ at'[r] = IF m > 1 \/ e > 1 THEN "plan" ELSE "idle"
          /\ stage'[r] = st /\ Len(minis[r]) = m
    BY <1>3 DEF AtStep, Step
  <1>5. \A r \in Ranks : Sequential(minis[r]) /\ Len(chunk[r]) \in Nat
    BY <1>1, <1>3, ChunksAre DEF AtStep
  <1>6. \A r \in Ranks : /\ Sequential(minis'[r])
                         /\ Len(minis'[r]) = IF m > 1 THEN m - 1 ELSE PerEpoch(r)
    <2> TAKE r \in Ranks
    <2>1. CASE m > 1
      BY <1>4, <1>5, <2>1, TailLen
    <2>2. CASE ~(m > 1)
      BY <1>4, <1>5, <2>2, MiniBatchesSequential DEF PerEpoch
    <2> QED
      BY <2>1, <2>2
  <1>7. ChunksInv'
    <2>1. \A r \in Ranks : PlaceInv(r)'
      <3> TAKE r \in Ranks
      <3>1. PlaceInv(r) /\ at[r] = "step"
        BY <1>1, ChunksAre DEF Step, Reached
      <3> QED
        BY <1>4, <3>1 DEF PlaceInv, Step, driverVars
    <2> QED
      BY <1>1, <1>6, <2>1, ChunksKept DEF Step, driverVars, dataVars
  <1>8. LockStep'
    <2>1. CASE m > 1
      <3>1. \A r \in Ranks : ToCount(r, st, e, m - 1)'
        BY <1>4, <1>6, <2>1 DEF ToCount
      <3> QED
        BY <3>1 DEF LockStep, AllToCount
    <2>2. CASE ~(m > 1) /\ e > 1
      <3>1. \A r, s \in Ranks : PerEpoch(r) = PerEpoch(s)
        BY <1>1, SameEpochs DEF LockInv, ChunksInv, ChunkInv, PlaceInv
      <3>2. \E k : \A r \in Ranks : PerEpoch(r) = k
        BY <3>1
      <3>3. PICK k : \A r \in Ranks : PerEpoch(r) = k
        BY <3>2
      <3>4. \A r \in Ranks : ToCount(r, st, e - 1, k)'
        BY <1>4, <1>6, <2>2, <3>3 DEF ToCount
      <3> QED
        BY <3>4 DEF LockStep, AllToCount
    <2>3. CASE ~(m > 1) /\ ~(e > 1)
      BY <1>4, <2>3 DEF LockStep, AllIdling, Idle
    <2> QED
      BY <2>1, <2>2, <2>3
  <1> QED
    BY <1>1, <1>2, <1>7, <1>8 DEF LockInv, Step, driverVars
-----------------------------------------------------------------------------
(* The theorem *)

LEMMA LockNext == LockInv /\ [Next]_vars => LockInv'
  <1> SUFFICES ASSUME LockInv, [Next]_vars PROVE LockInv'
    OBVIOUS
  <1>1. CASE CallGenerate
    BY <1>1, LockCallGenerate
  <1>2. CASE CallReal
    BY <1>2, LockCallReal
  <1>3. CASE CallLogProb \/ CallUpdate
    BY <1>3, LockCallLogProb, LockCallUpdate
  <1>4. CASE Collect
    BY <1>4, LockCollect
  <1>5. CASE Return
    BY <1>5, LockReturn
  <1>6. CASE ReduceCount
    BY <1>6, LockReduceCount
  <1>7. CASE CompareCounts
    BY <1>7, LockCompareCounts
  <1>8. CASE Forward
    BY <1>8, LockForward
  <1>9. CASE Step
    BY <1>9, LockOptimizerStep
  <1>10. CASE \E r \in Ranks : Generate(r) \/ Plan(r) \/ Arrange(r) \/ Gather(r) \/ ComputeAdvantages(r)
    BY <1>10, LockGenerate, LockPlan, LockArrange, LockGather, LockComputeAdvantages
  <1>11. CASE Finished \/ UNCHANGED vars
    BY <1>11, LockStutter DEF Finished
  <1> QED
    BY <1>1, <1>2, <1>3, <1>4, <1>5, <1>6, <1>7, <1>8, <1>9, <1>10, <1>11 DEF Next

LEMMA LockSafe == LockInv => RanksInStep
  <1> SUFFICES ASSUME LockInv PROVE RanksInStep
    OBVIOUS
  <1>1. AllIdling \/ LockStep
    BY DEF LockInv
  <1>2. CASE AllIdling
    BY <1>2 DEF AllIdling, Idle, RanksInStep, Collectives
  <1>3. CASE AllToCount
    BY <1>3 DEF AllToCount, ToCount, RanksInStep, Collectives
  <1>4. CASE AllToForward
    BY <1>4 DEF AllToForward, ToForward, RanksInStep, Collectives
  <1>5. CASE AllAtForward
    BY <1>5 DEF AllAtForward, AtForward, RanksInStep, Collectives
  <1>6. CASE AllAtStep
    BY <1>6 DEF AllAtStep, AtStep, RanksInStep, Collectives
  <1> QED
    BY <1>1, <1>2, <1>3, <1>4, <1>5, <1>6 DEF LockStep

\* In validation, in a REAL update and in an update of GRPO no rank waits in
\* the reduction of the number of micro-batches, a forward pass or an
\* optimizer step while another waits elsewhere, and REAL's comparison of
\* these numbers never raises: the maximum that rearrange_micro_batches
\* agrees on is enough, because all chunks are of equal length.
THEOREM RanksInStepCorrect == Spec => []RanksInStep
  <1>1. Init => LockInv
    BY LockInit
  <1>2. LockInv /\ [Next]_vars => LockInv'
    BY LockNext
  <1>3. LockInv => RanksInStep
    BY LockSafe
  <1> QED
    BY <1>1, <1>2, <1>3, PTL DEF Spec

-----------------------------------------------------------------------------
(* Where the rows are: definitions *)

\* Rows of a rank in an update, rows of its mini-batches, and these.
SizeOf(j) == Len(j.uid) \div WorldSize
WidthOf(p, j) == IF p = "log_prob" THEN SizeOf(j) ELSE MiniBatchSize
SlicesOf(p, j) == Split(Rows(SizeOf(j)), WidthOf(p, j))

\* Where the first k mini-batches end.
EndIn(p, j, k) == EndOf(SizeOf(j), WidthOf(p, j), k)

\* The mini-batches left are the last ones, those behind are the first.
Behind(parts, ms) == Len(parts) - Len(ms)
Left(parts, ms) ==
  Len(ms) \in 1..Len(parts) /\ ms = SubSeq(parts, Behind(parts, ms) + 1, Len(parts))

\* The lengths of the rows that inputs hold at some positions.
LensOf(j, inputs, m) == [i \in DOMAIN m |-> j.len[inputs[m[i]]]]

\* There is a row for every micro-batch, and room for the tokens of all rows.
Enough(lens, n, c) == c \in 1..n /\ Weight(lens, 1..n) <= c * MaxTokenLen

\* The rows of the first d micro-batches.
SeenRows(inputs, m, pl, d) == [p \in 1..Len(Flat(pl, d)) |-> inputs[m[Flat(pl, d)[p]]]]

\* A rank holds the rows of its chunk and no other.
RowsAre(j, b, r, rows, inputs) ==
  /\ rows = Block(b, SizeOf(j), r)
  /\ Lists(inputs, SizeOf(j), Members(rows))
  /\ j.call = "grpo" => inputs = rows

Busy == {"plan", "count", "arrange", "minmax", "forward", "gather", "step"}
Counted == {"count", "arrange", "minmax", "forward", "gather", "step"}
Planned == {"minmax", "forward", "gather", "step"}

-----------------------------------------------------------------------------
(* Where the rows are: the second invariant *)

\* The batch has every row once.
BatchInv ==
  /\ Lists(batch, Len(job.uid), 1..Len(job.uid))
  /\ job.call # "grpo" => batch = Rows(Len(job.uid))
  /\ pc \in {"log_prob", "scored", "update"} => batch = Concat(PartsOf(job))

RowsInv(r) == RowsAre(job, batch, r, chunk[r], packs[r])

\* A rank goes through its mini-batches in their order.
MinisInv(r) == at[r] \in Busy => Left(SlicesOf(pc, job), minis[r])

Turn(r) == Behind(SlicesOf(pc, job), minis[r])

CountInv(r) ==
  at[r] \in Counted => Enough(LensOf(job, packs[r], Mini(r)), Len(Mini(r)), count[r])

\* It goes through all micro-batches, and then to where the stage leads.
PlanInv(r) ==
  /\ at[r] \in Planned => plan[r] = MicroBatches(LensOf(job, packs[r], Mini(r)), count[r])
  /\ at[r] = "minmax" => done[r] = 0
  /\ at[r] = "forward" => done[r] \in 0..(count[r] - 1)
  /\ at[r] \in {"gather", "step"} => done[r] = count[r]

StageInv(r) ==
  /\ stage[r] \in {"eval", "train"}
  /\ at[r] = "step" => stage[r] = "train"
  /\ at[r] \in {"gather", "advantages"} => stage[r] = "eval"
  /\ at[r] # "generate"

\* The results so far are those of the rows seen; those of the mini-batches
\* behind are in the order of the rows.
ResultsInv(r) ==
  results[r] = IF at[r] \in Planned /\ stage[r] = "eval"
               THEN SeenRows(packs[r], Mini(r), plan[r], done[r]) ELSE <<>>

ScoresInv(r) ==
  /\ at[r] \in Busy /\ stage[r] = "eval" => scores[r] = Prefix(packs[r], EndIn(pc, job, Turn(r)))
  /\ at[r] = "advantages" \/ (at[r] = "idle" /\ pc = "log_prob") => scores[r] = packs[r]
  /\ pc = "real" /\ stage[r] = "train" => scores[r] = packs[r]

RankInv(r) ==
  /\ RowsInv(r) /\ MinisInv(r) /\ CountInv(r) /\ PlanInv(r) /\ StageInv(r)
  /\ ResultsInv(r) /\ ScoresInv(r)

\* The answers of the ranks in validation.
GenerateInv ==
  /\ pc \in {"start", "scored", "returned"} => AllIdle
  /\ pc = "generate" =>
       /\ chunk = DispatchTo(PadToDivisor(batch, WorldSize), GenerationRank, Ranks)
       /\ \A r \in Ranks : at[r] = "idle" => scores[r] = chunk[r]

DataInv ==
  /\ PerRank(results) /\ PerRank(scores)
  /\ BatchInv /\ GenerateInv /\ ReturnedInOrder
  /\ pc = "start" => results = Same(<<>>) /\ scores = Same(<<>>)
  /\ pc = "scored" => results = Same(<<>>)
  /\ pc \in Working => \A r \in Ranks : RankInv(r)

-----------------------------------------------------------------------------
(* Chunks and mini-batches of a job *)

LEMMA JobSizes ==
  ASSUME NEW j \in Jobs, j.call # "validate"
  PROVE  /\ SizeOf(j) \in Nat \ {0} /\ Len(j.uid) = SizeOf(j) * WorldSize
         /\ Len(j.uid) = WorldSize * SizeOf(j)
  <1> DEFINE n == Len(j.uid)
             s == n \div WorldSize
  <1>1. n \in Nat \ {0} /\ n % WorldSize = 0
    BY JobRows, WorkerCallAssumption
  <1> HIDE DEF n
  <1>2. s \in Nat /\ n = s * WorldSize
    BY <1>1, SizesNat, Divides
  <1> HIDE DEF s
  <1>3. s # 0 /\ s * WorldSize = WorldSize * s
    BY <1>1, <1>2, SizesNat
  <1> QED
    BY <1>2, <1>3 DEF SizeOf, n, s

LEMMA SlicesCut ==
  ASSUME NEW j \in Jobs, j.call # "validate", NEW p
  PROVE  /\ SizeOf(j) \in Nat \ {0} /\ WidthOf(p, j) \in Nat \ {0}
         /\ Cut(SizeOf(j), WidthOf(p, j), SlicesOf(p, j))
  <1>1. SizeOf(j) \in Nat \ {0} /\ WidthOf(p, j) \in Nat \ {0}
    BY JobSizes, SizesNat DEF WidthOf
  <1>2. Cut(SizeOf(j), WidthOf(p, j), SlicesOf(p, j))
    BY <1>1, SplitIs DEF SlicesOf
  <1> QED
    BY <1>1, <1>2

\* The log probabilities are computed on one mini-batch.
LEMMA OneSlice ==
  ASSUME NEW j \in Jobs, j.call # "validate"
  PROVE  SlicesOf("log_prob", j) = <<Rows(SizeOf(j))>>
  <1> DEFINE n == SizeOf(j)
             parts == SlicesOf("log_prob", j)
             k == Len(parts)
  <1>1. n \in Nat \ {0} /\ Cut(n, n, parts)
    BY SlicesCut DEF WidthOf
  <1> HIDE DEF n, parts
  <1>2. parts \in Seq(Seq(1..n)) /\ k \in Nat \ {0} /\ EndOf(n, n, 0) = 0 /\ EndOf(n, n, k) = n
    BY <1>1 DEF Cut
  <1>3. \A c \in 0..(k - 1) : EndOf(n, n, c) < EndOf(n, n, c + 1) /\ parts[c + 1] = Part(n, n, c)
    BY <1>1 DEF Cut
  <1>4. EndOf(n, n, 1) = n /\ EndOf(n, n, 2) = n
    <2>1. 1 * n = n /\ 2 * n >= n /\ 2 * n \in Nat
      BY <1>1
    <2> QED
      BY <1>1, <2>1 DEF EndOf, SmallerOf
  <1>8. k \in Nat \ {0}
    BY <1>2
  <1> HIDE DEF k
  <1>5. k = 1
    <2> SUFFICES ASSUME k # 1 PROVE FALSE
      OBVIOUS
    <2>1. 1 \in 0..(k - 1) /\ 1 + 1 = 2
      BY <1>8
    <2>2. EndOf(n, n, 1) < EndOf(n, n, 1 + 1)
      BY <1>3, <2>1
    <2> QED
      BY <1>1, <1>4, <2>1, <2>2
  <1>6. parts[1] = Rows(n)
    <2>1. 0 \in 0..(k - 1) /\ 0 + 1 = 1
      BY <1>8
    <2>2. parts[1] = Part(n, n, 0)
      BY <1>3, <2>1
    <2>3. Part(n, n, 0) = [p \in 1..(n - 0) |-> 0 + p]
      BY <1>2, <1>4, <2>1 DEF Part
    <2>4. n - 0 = n /\ \A p \in 1..n : 0 + p = p
      BY <1>1
    <2> QED
      BY <2>2, <2>3, <2>4 DEF Rows
  <1>7. parts = <<parts[1]>>
    <2>1. Len(parts) = 1
      BY <1>5 DEF k
    <2> QED
      BY <1>2, <2>1
  <1> QED
    BY <1>6, <1>7 DEF n, parts

\* A rank's present mini-batch, and what is left after it.
MiniIs(p, j, ms) ==
  LET parts == SlicesOf(p, j)
      k == Behind(parts, ms)
      x == EndIn(p, j, k)
      y == EndIn(p, j, k + 1)
  IN  /\ x \in Nat /\ y \in 1..SizeOf(j) /\ y - x \in Nat \ {0}
      /\ Head(ms) \in Seq(1..SizeOf(j)) /\ Len(Head(ms)) = y - x
      /\ \A a \in 1..(y - x) : Head(ms)[a] = x + a
      /\ ~(Len(ms) > 1) => y = SizeOf(j)
      /\ Len(ms) > 1 => Left(parts, Tail(ms)) /\ Behind(parts, Tail(ms)) = k + 1

LEMMA MiniFacts ==
  ASSUME NEW j \in Jobs, j.call # "validate", NEW p, NEW ms, Left(SlicesOf(p, j), ms)
  PROVE  MiniIs(p, j, ms)
  <1> DEFINE n == SizeOf(j)
             w == WidthOf(p, j)
             parts == SlicesOf(p, j)
             k == Behind(parts, ms)
             x == EndIn(p, j, k)
             y == EndIn(p, j, k + 1)
  <1>1. Cut(n, w, parts) /\ n \in Nat \ {0}
    BY SlicesCut
  <1> HIDE DEF n, w, parts
  <1>2. Len(ms) \in 1..Len(parts) /\ ms = SubSeq(parts, k + 1, Len(parts))
    BY DEF Left, parts
  <1>3. parts \in Seq(Seq(1..n)) /\ Len(parts) \in Nat \ {0} /\ EndOf(n, w, Len(parts)) = n
    BY <1>1 DEF Cut
  <1>4. k = Len(parts) - Len(ms)
    BY DEF Behind
  <1> HIDE DEF k
  <1>5. k \in 0..(Len(parts) - 1) /\ Len(ms) = Len(parts) - k
    BY <1>2, <1>3, <1>4
  <1>6. /\ EndOf(n, w, k) \in Nat /\ EndOf(n, w, k + 1) \in 1..n /\ EndOf(n, w, k) < EndOf(n, w, k + 1)
        /\ parts[k + 1] = Part(n, w, k)
    BY <1>1, <1>5 DEF Cut
  <1>7. x = EndOf(n, w, k) /\ y = EndOf(n, w, k + 1)
    BY DEF EndIn, n, w
  <1> HIDE DEF x, y
  <1>8. x \in Nat /\ y \in 1..n /\ x < y /\ parts[k + 1] = [a \in 1..(y - x) |-> x + a]
    BY <1>6, <1>7 DEF Part
  <1> DEFINE t == SubSeq(parts, k + 1, Len(parts))
  <1>9. /\ Head(t) = parts[k + 1] /\ Tail(t) = SubSeq(parts, k + 2, Len(parts))
        /\ Len(Tail(t)) = Len(parts) - (k + 1)
    BY <1>3, <1>5, RestOf
  <1>10. Head(ms) = [a \in 1..(y - x) |-> x + a]
    BY <1>2, <1>8, <1>9
  <1>11. y - x \in Nat \ {0}
    BY <1>8
  <1>12. Head(ms) \in Seq(1..n) /\ Len(Head(ms)) = y - x
    <2>1. \A a \in 1..(y - x) : x + a \in 1..n
      BY <1>1, <1>8
    <2>2. Head(ms) \in [1..(y - x) -> 1..n]
      BY <1>10, <2>1
    <2> QED
      BY <1>11, <2>2, EvaluatedIs
  <1>13. ~(Len(ms) > 1) => y = n
    <2> SUFFICES ASSUME ~(Len(ms) > 1) PROVE y = n
      OBVIOUS
    <2> DEFINE l == Len(ms)
               m == Len(parts)
    <2>2. l \in 1..m /\ m \in Nat /\ k \in 0..(m - 1) /\ l = m - k /\ ~(l > 1)
      BY <1>2, <1>3, <1>5
    <2> HIDE DEF l, m
    <2>3. k + 1 = m
      BY <2>2
    <2>1. k + 1 = Len(parts)
      BY <2>3 DEF m
    <2> QED
      BY <1>3, <1>7, <2>1
  <1>14. Len(ms) > 1 => Left(parts, Tail(ms)) /\ Behind(parts, Tail(ms)) = k + 1
    <2> SUFFICES ASSUME Len(ms) > 1 PROVE Left(parts, Tail(ms)) /\ Behind(parts, Tail(ms)) = k + 1
      OBVIOUS
    <2>1. Len(Tail(ms)) = Len(parts) - (k + 1) /\ Tail(ms) = SubSeq(parts, k + 2, Len(parts))
      BY <1>2, <1>9
    <2> DEFINE l == Len(Tail(ms))
               m == Len(parts)
    <2>2. l = m - (k + 1) /\ m \in Nat /\ k \in 0..(m - 1) /\ m - k > 1
      BY <1>3, <1>5, <2>1
    <2>3. Tail(ms) = SubSeq(parts, k + 2, m)
      BY <2>1
    <2> HIDE DEF l, m
    <2>4. l \in 1..m /\ m - l = k + 1 /\ (m - l) + 1 = k + 2
      BY <2>2
    <2> QED
      BY <2>3, <2>4 DEF Left, Behind, l, m
  <1> QED
    BY <1>8, <1>10, <1>11, <1>12, <1>13, <1>14 DEF MiniIs, n, parts, k, x, y

\* All mini-batches are left at first.
LEMMA AllLeft ==
  ASSUME NEW j \in Jobs, j.call # "validate", NEW p
  PROVE  /\ Left(SlicesOf(p, j), SlicesOf(p, j)) /\ Behind(SlicesOf(p, j), SlicesOf(p, j)) = 0
         /\ EndIn(p, j, 0) = 0
  <1> DEFINE n == SizeOf(j)
             parts == SlicesOf(p, j)
  <1>1. Cut(n, WidthOf(p, j), parts)
    BY SlicesCut
  <1> HIDE DEF n, parts
  <1>2. parts \in Seq(Seq(1..n)) /\ Len(parts) \in Nat \ {0} /\ EndOf(n, WidthOf(p, j), 0) = 0
    BY <1>1 DEF Cut
  <1>3. parts = SubSeq(parts, 1, Len(parts))
    BY <1>2, SubSeqFull
  <1> DEFINE m == Len(parts)
  <1>4. m \in 1..m /\ m - m = 0 /\ (m - m) + 1 = 1
    BY <1>2
  <1> QED
    BY <1>2, <1>3, <1>4 DEF Left, Behind, EndIn, n, parts

\* The lengths of the rows of a mini-batch.
LEMMA LensFacts ==
  ASSUME NEW j \in Jobs, NEW s \in Nat, NEW inputs \in [1..s -> 1..Len(j.uid)], NEW m \in Seq(1..s)
  PROVE  /\ LensOf(j, inputs, m) \in [1..Len(m) -> Nat \ {0}]
         /\ SpreadBound(LensOf(j, inputs, m), Len(m), FALSE, MaxTokenLen)
  <1>1. DOMAIN m = 1..Len(m) /\ \A i \in 1..Len(m) : inputs[m[i]] \in 1..Len(j.uid)
    OBVIOUS
  <1>2. j.len \in Seq(1..MaxTokenLen) /\ Len(j.uid) = Len(j.len)
    BY WorkerCallAssumption
  <1> DEFINE l == j.len
             k == Len(j.uid)
             f == [i \in 1..Len(m) |-> l[inputs[m[i]]]]
  <1>3. \A x \in 1..k : l[x] \in 1..MaxTokenLen
    <2>1. l \in [1..Len(l) -> 1..MaxTokenLen] /\ Len(l) = k
      BY <1>2, LenProperties
    <2> HIDE DEF l, k
    <2> QED
      BY <2>1
  <1>4. LensOf(j, inputs, m) = f
    BY <1>1 DEF LensOf
  <1>5. \A i \in 1..Len(m) : l[inputs[m[i]]] \in 1..MaxTokenLen
    BY <1>1, <1>3
  <1> HIDE DEF l, k
  <1>6. \A i \in 1..Len(m) : f[i] \in 1..MaxTokenLen
    BY <1>5
  <1>7. f \in [1..Len(m) -> 1..MaxTokenLen]
    BY <1>5
  <1> HIDE DEF f
  <1>8. f \in [1..Len(m) -> Nat \ {0}]
    BY <1>7
  <1>9. \A i \in 1..Len(m) : f[i] <= MaxTokenLen
    BY <1>6
  <1> QED
    BY <1>4, <1>8, <1>9 DEF SpreadBound

\* The place of a rank's rows in the batch.
LEMMA BlockPlaces ==
  ASSUME NEW j \in Jobs, j.call # "validate", NEW r \in Ranks
  PROVE  \A p \in 1..SizeOf(j) : r * SizeOf(j) + p \in 1..Len(j.uid)
  <1> DEFINE n == SizeOf(j)
  <1>1. n \in Nat \ {0} /\ Len(j.uid) = WorldSize * n /\ WorldSize \in Nat \ {0}
    BY JobSizes, SizesNat
  <1> HIDE DEF n
  <1>2. r \in Nat /\ r < WorldSize
    BY <1>1 DEF Ranks
  <1>3. r * n + n <= WorldSize * n /\ r * n \in Nat /\ WorldSize * n \in Nat
    BY <1>1, <1>2, BlockEnds
  <1> DEFINE x == r * n
             y == WorldSize * n
  <1> HIDE DEF x, y
  <1>4. x + n <= y /\ x \in Nat /\ y \in Nat
    BY <1>3 DEF x, y
  <1>5. \A p \in 1..n : x + p \in 1..y
    BY <1>1, <1>4
  <1> QED
    BY <1>1, <1>5 DEF n, x, y

\* Rows of the batch, none twice.
Distinct(j, rows, inputs) ==
  /\ inputs \in [1..SizeOf(j) -> 1..Len(j.uid)]
  /\ rows \in [1..SizeOf(j) -> 1..Len(j.uid)]
  /\ SizeOf(j) \in Nat \ {0}
  /\ \A p, q \in 1..SizeOf(j) : inputs[p] = inputs[q] => p = q
  /\ inputs = Prefix(inputs, SizeOf(j))

LEMMA InputsAre ==
  ASSUME NEW j \in Jobs, j.call # "validate", NEW r \in Ranks, NEW b, Lists(b, Len(j.uid), 1..Len(j.uid)),
         NEW rows, NEW inputs, RowsAre(j, b, r, rows, inputs)
  PROVE  Distinct(j, rows, inputs)
  <1> DEFINE n == SizeOf(j)
             u == Len(j.uid)
  <1>1. n \in Nat \ {0} /\ \A p \in 1..n : r * n + p \in 1..u
    BY JobSizes, BlockPlaces
  <1> HIDE DEF n, u
  <1>2. b \in [1..u -> 1..u]
    BY DEF Lists, u
  <1>3. rows = [p \in 1..n |-> b[r * n + p]]
    BY DEF RowsAre, Block, n
  <1>4. rows \in [1..n -> 1..u]
    BY <1>1, <1>2, <1>3
  <1>5. Lists(inputs, n, Members(rows))
    BY DEF RowsAre, n
  <1>6. Members(rows) \subseteq 1..u
    BY <1>4 DEF Members
  <1>7. inputs \in [1..n -> 1..u] /\ \A p, q \in 1..n : inputs[p] = inputs[q] => p = q
    BY <1>5, <1>6 DEF Lists
  <1>8. inputs = [p \in 1..n |-> inputs[p]]
    BY <1>7
  <1> QED
    BY <1>1, <1>4, <1>7, <1>8 DEF n, u, Prefix, Distinct

LEMMA MiniLensIs == \A r : MiniLens(r) = LensOf(job, packs[r], Mini(r))
  BY DEF MiniLens, LensOf

\* What the second invariant says of a rank at work.
RankAt(r) ==
  /\ MiniIs(pc, job, minis[r])
  /\ packs[r] \in [1..SizeOf(job) -> 1..Len(job.uid)] /\ SizeOf(job) \in Nat \ {0}
  /\ packs[r] = Prefix(packs[r], SizeOf(job))
  /\ Mini(r) \in Seq(1..SizeOf(job)) /\ Len(Mini(r)) \in Nat \ {0}
  /\ MiniLens(r) \in [1..Len(Mini(r)) -> Nat \ {0}]
  /\ SpreadBound(MiniLens(r), Len(Mini(r)), FALSE, MaxTokenLen)

LEMMA RankFacts ==
  ASSUME job \in Jobs, job.call # "validate", BatchInv, NEW r \in Ranks, RankInv(r), at[r] \in Busy
  PROVE  RankAt(r)
  <1>1. MiniIs(pc, job, minis[r])
    BY MiniFacts DEF RankInv, MinisInv
  <1>2. /\ packs[r] \in [1..SizeOf(job) -> 1..Len(job.uid)] /\ SizeOf(job) \in Nat \ {0}
        /\ packs[r] = Prefix(packs[r], SizeOf(job))
    <2>1. Distinct(job, chunk[r], packs[r])
      BY InputsAre DEF RankInv, RowsInv, BatchInv
    <2> QED
      BY <2>1 DEF Distinct
  <1>3. Mini(r) \in Seq(1..SizeOf(job)) /\ Len(Mini(r)) \in Nat \ {0}
    BY <1>1 DEF MiniIs, Mini
  <1> DEFINE s == SizeOf(job)
  <1>4. s \in Nat /\ packs[r] \in [1..s -> 1..Len(job.uid)] /\ Mini(r) \in Seq(1..s)
    BY <1>2, <1>3
  <1> HIDE DEF s
  <1>5. /\ LensOf(job, packs[r], Mini(r)) \in [1..Len(Mini(r)) -> Nat \ {0}]
        /\ SpreadBound(LensOf(job, packs[r], Mini(r)), Len(Mini(r)), FALSE, MaxTokenLen)
    BY <1>4, LensFacts
  <1> QED
    BY <1>1, <1>2, <1>3, <1>5, MiniLensIs DEF RankAt

\* A step that leaves a rank alone.
Untouched(r) ==
  UNCHANGED <<at[r], stage[r], chunk[r], packs[r], minis[r], count[r], plan[r], done[r],
              results[r], scores[r]>>

LEMMA RankKept ==
  ASSUME NEW r, RankInv(r), Untouched(r), UNCHANGED <<pc, job, batch>>
  PROVE  RankInv(r)'
  BY DEF RankInv, RowsInv, MinisInv, Turn, CountInv, PlanInv, StageInv, ResultsInv, ScoresInv, Mini, Untouched

-----------------------------------------------------------------------------
(* Where the rows are: the ranks' steps *)

LEMMA DataKept ==
  ASSUME DataInv, pc \in Working, UNCHANGED driverVars, PerRank(results)', PerRank(scores)',
         \A r \in Ranks : RankInv(r)'
  PROVE  DataInv'
  BY DEF DataInv, BatchInv, GenerateInv, ReturnedInOrder, driverVars, Working

\* The call of a rank at work has rows.
LEMMA JobOfCall ==
  ASSUME LockInv, DataInv, pc \in Working
  PROVE  /\ job \in Jobs /\ job.call # "validate" /\ BatchInv
         /\ \A r \in Ranks : RankInv(r) /\ (at[r] \in Busy => RankAt(r))
  <1>1. job \in Jobs /\ job.call # "validate" /\ BatchInv /\ \A r \in Ranks : RankInv(r)
    BY DEF LockInv, JobInv, DataInv, Working
  <1> QED
    BY <1>1, RankFacts

\* One rank steps.
LEMMA DataOfOne ==
  ASSUME LockInv, DataInv, pc \in Working, UNCHANGED driverVars, PerRank(results)', PerRank(scores)',
         NEW r \in Ranks, RankInv(r)', \A s \in Ranks \ {r} : Untouched(s)
  PROVE  DataInv'
  <1>1. \A s \in Ranks : RankInv(s)'
    <2> TAKE s \in Ranks
    <2>1. CASE s = r
      BY <2>1
    <2>2. CASE s # r
      BY <2>2, JobOfCall, RankKept DEF driverVars
    <2> QED
      BY <2>1, <2>2
  <1> QED
    BY <1>1, DataKept

LEMMA DataPlan == ASSUME NEW r \in Ranks, LockInv, DataInv, Plan(r) PROVE DataInv'
  <1>1. pc \in Working
    BY InCall DEF Plan, Idle
  <1>2. RankInv(r) /\ RankAt(r)
    BY <1>1, JobOfCall DEF Plan, Busy
  <1>3. /\ at'[r] = "count" /\ count'[r] = NumMicroBatches(MiniLens(r), MaxTokenLen)
        /\ \A s \in Ranks \ {r} : Untouched(s)
        /\ PerRank(results)' /\ PerRank(scores)'
    BY DEF LockInv, ShapeInv, DataInv, PerRank, Plan, Untouched, dataVars, loopVars, evalVars
  <1>4. UNCHANGED driverVars /\ UNCHANGED <<pc, job, batch, stage, chunk, packs, minis, plan, done, results, scores>>
    BY DEF Plan, driverVars, dataVars, loopVars, evalVars
  <1>5. Enough(MiniLens(r), Len(Mini(r)), count'[r])
    BY <1>2, <1>3, NumEnough, WorkerCallAssumption DEF RankAt, Enough
  <1>6. RankInv(r)'
    <2>1. CountInv(r)'
      BY <1>4, <1>5, MiniLensIs DEF CountInv, Mini
    <2>2. RowsInv(r)' /\ MinisInv(r)' /\ PlanInv(r)' /\ StageInv(r)' /\ ResultsInv(r)' /\ ScoresInv(r)'
      BY <1>2, <1>3, <1>4 DEF RankInv, RowsInv, MinisInv, PlanInv, StageInv, ResultsInv, ScoresInv,
         Turn, Plan, Busy, Counted, Planned, Mini
    <2> QED
      BY <2>1, <2>2 DEF RankInv
  <1> QED
    BY <1>1, <1>3, <1>4, <1>6, DataOfOne

LEMMA DataArrange == ASSUME NEW r \in Ranks, LockInv, DataInv, Arrange(r) PROVE DataInv'
  <1>1. pc \in Working
    BY InCall DEF Arrange, Idle
  <1>2. RankInv(r) /\ RankAt(r)
    BY <1>1, JobOfCall DEF Arrange, Busy
  <1>3. /\ at'[r] \in {"minmax", "forward"}
        /\ plan'[r] = MicroBatches(MiniLens(r), count[r]) /\ done'[r] = 0
        /\ \A s \in Ranks \ {r} : Untouched(s)
        /\ PerRank(results)' /\ PerRank(scores)'
    BY DEF LockInv, ShapeInv, DataInv, PerRank, Arrange, Untouched, dataVars, loopVars, evalVars
  <1>4. UNCHANGED driverVars /\ UNCHANGED <<pc, job, batch, stage, chunk, packs, minis, count, results, scores>>
    BY DEF Arrange, driverVars, dataVars, loopVars, evalVars
  <1>5. Enough(LensOf(job, packs[r], Mini(r)), Len(Mini(r)), count[r])
    BY <1>2 DEF RankInv, CountInv, Arrange, Counted
  <1>6. 0 \in 0..(count[r] - 1)
    BY <1>5 DEF Enough
  <1>7. \A pl, inputs, m : SeenRows(inputs, m, pl, 0) = <<>>
    <2> TAKE pl, inputs, m
    <2>1. Flat(pl, 0) = <<>>
      BY FlatNone
    <2>2. 1..Len(<<>>) = {}
      OBVIOUS
    <2> QED
      BY <2>1, <2>2 DEF SeenRows
  <1>8. RankInv(r)'
    <2>4. plan'[r] = MicroBatches(LensOf(job', packs'[r], Mini(r)'), count'[r])
      BY <1>3, <1>4, MiniLensIs DEF Mini
    <2>5. done'[r] \in 0..(count'[r] - 1)
      BY <1>3, <1>4, <1>6
    <2>1. PlanInv(r)'
      BY <1>3, <2>4, <2>5 DEF PlanInv
    <2>2. ResultsInv(r)'
      BY <1>2, <1>3, <1>4, <1>7 DEF RankInv, ResultsInv, Arrange, Planned
    <2>3. RowsInv(r)' /\ MinisInv(r)' /\ CountInv(r)' /\ StageInv(r)' /\ ScoresInv(r)'
      BY <1>2, <1>3, <1>4 DEF RankInv, RowsInv, MinisInv, CountInv, StageInv, ScoresInv,
         Turn, Arrange, Busy, Counted, Planned, Mini
    <2> QED
      BY <2>1, <2>2, <2>3 DEF RankInv
  <1> QED
    BY <1>1, <1>3, <1>4, <1>8, DataOfOne

LEMMA DataReduceCount == ASSUME LockInv, DataInv, ReduceCount PROVE DataInv'
  <1>1. pc \in Working /\ AllToCount
    BY InCall, OneAlternative, SomeRank DEF ReduceCount, Reached, Idle, LockInv
  <1>2. \A r \in Ranks : RankInv(r) /\ RankAt(r) /\ at[r] = "count"
    BY <1>1, JobOfCall DEF ReduceCount, Reached, Busy
  <1>3. /\ UNCHANGED driverVars /\ UNCHANGED <<pc, job, batch, stage, chunk, packs, minis, results, scores>>
        /\ \A r \in Ranks : at'[r] = "arrange" /\ count'[r] = AgreedCount(r)
        /\ PerRank(results)' /\ PerRank(scores)'
    BY DEF DataInv, PerRank, ReduceCount, Same, driverVars, dataVars, loopVars, evalVars
  <1>4. \E n : \A r \in Ranks : Len(Mini(r)) = n
    <2>1. PICK m : \A r \in Ranks : Len(minis[r]) = m
      BY <1>1, <1>2 DEF AllToCount, ToCount
    <2>2. \A r, s \in Ranks : Len(Mini(r)) = Len(Mini(s))
      BY <1>2, <2>1, ZenonT(30) DEF RankAt, MiniIs, Mini, Behind
    <2> QED
      BY <2>2
  <1>5. PICK n : \A r \in Ranks : Len(Mini(r)) = n
    BY <1>4
  <1>6. n \in Nat
    BY <1>2, <1>5, SomeRank DEF RankAt
  <1> DEFINE C == {count[s] : s \in Ranks}
             c == Max(C)
  <1>7. \A r \in Ranks : count[r] \in 1..n /\ Weight(LensOf(job, packs[r], Mini(r)), 1..n) <= count[r] * MaxTokenLen
    BY <1>2, <1>5 DEF RankInv, CountInv, Counted, Enough
  <1>8. C \subseteq 0..n /\ C # {}
    BY <1>6, <1>7, SomeRank
  <1>9. c \in C /\ \A r \in Ranks : count[r] <= c
    <2>1. \A r \in Ranks : count[r] \in C
      OBVIOUS
    <2> HIDE DEF C
    <2> QED
      BY <1>6, <1>8, <2>1, GreatestElement
  <1>10. c \in 1..n
    BY <1>7, <1>9
  <1>11. \A r \in Ranks : count'[r] = c
    BY <1>3 DEF AgreedCount
  <1> HIDE DEF C, c
  <1>12. ASSUME NEW r \in Ranks PROVE Enough(LensOf(job, packs[r], Mini(r)), n, c)
    <2> DEFINE w == Weight(LensOf(job, packs[r], Mini(r)), 1..n)
               x == count[r]
    <2>1. x \in 1..n /\ w <= x * MaxTokenLen /\ x <= c /\ MaxTokenLen \in Nat
      BY <1>7, <1>9, WorkerCallAssumption
    <2>2. w \in Nat
      BY <1>2, <1>5, <1>6, WeightBounds, MiniLensIs, WorkerCallAssumption DEF RankAt
    <2> HIDE DEF w, x
    <2>3. x * MaxTokenLen <= c * MaxTokenLen /\ x * MaxTokenLen \in Nat /\ c * MaxTokenLen \in Nat
      <3>1. CASE x = c
        BY <1>10, <2>1, <3>1
      <3>2. CASE x < c
        <4>1. x \in Nat /\ c \in Nat
          BY <1>10, <2>1
        <4>2. x * MaxTokenLen + MaxTokenLen <= c * MaxTokenLen /\ x * MaxTokenLen \in Nat /\ c * MaxTokenLen \in Nat
          BY <2>1, <3>2, <4>1, BlockEnds
        <4> DEFINE y == x * MaxTokenLen
                   z == c * MaxTokenLen
        <4> HIDE DEF y, z
        <4>3. y + MaxTokenLen <= z /\ y \in Nat /\ z \in Nat
          BY <4>2 DEF y, z
        <4>4. y <= z
          BY <2>1, <4>3
        <4> QED
          BY <4>3, <4>4 DEF y, z
      <3> QED
        BY <1>10, <2>1, <3>1, <3>2
    <2> DEFINE y == x * MaxTokenLen
               z == c * MaxTokenLen
    <2> HIDE DEF y, z
    <2>4. w <= y /\ y <= z /\ y \in Nat /\ z \in Nat
      BY <2>1, <2>3 DEF y, z
    <2>5. w <= z
      BY <2>2, <2>4
    <2> QED
      BY <1>10, <2>5 DEF Enough, w, z
  <1>13. ASSUME NEW r \in Ranks PROVE RankInv(r)'
    <2>1. CountInv(r)'
      BY <1>3, <1>5, <1>11, <1>12 DEF CountInv, Mini
    <2>2. RowsInv(r)' /\ MinisInv(r)' /\ PlanInv(r)' /\ StageInv(r)' /\ ResultsInv(r)' /\ ScoresInv(r)'
      BY <1>2, <1>3 DEF RankInv, RowsInv, MinisInv, PlanInv, StageInv, ResultsInv, ScoresInv,
         Turn, Busy, Planned, Mini
    <2> QED
      BY <2>1, <2>2 DEF RankInv
  <1> QED
    BY <1>1, <1>3, <1>13, DataKept

LEMMA DataCompareCounts == ASSUME LockInv, DataInv, CompareCounts PROVE DataInv'
  <1>1. pc \in Working /\ AllToForward
    BY InCall, OneAlternative, SomeRank DEF CompareCounts, Reached, Idle, LockInv
  <1>2. \A r \in Ranks : RankInv(r) /\ at[r] = "minmax"
    BY <1>1, JobOfCall DEF CompareCounts, Reached
  <1>3. PICK c : \A s \in Ranks : DOMAIN plan[s] = 1..c
    BY <1>1, <1>2 DEF AllToForward, ToForward
  <1>4. /\ UNCHANGED driverVars /\ UNCHANGED <<pc, job, batch, stage, chunk, packs, minis, count, plan, done, results, scores>>
        /\ \A r \in Ranks : at'[r] = "forward"
        /\ PerRank(results)' /\ PerRank(scores)'
    BY <1>3 DEF DataInv, PerRank, CompareCounts, Same, driverVars, dataVars, loopVars, microVars, evalVars
  <1>5. ASSUME NEW r \in Ranks PROVE RankInv(r)'
    <2>1. count[r] \in 1..Len(Mini(r))
      BY <1>2 DEF RankInv, CountInv, Counted, Enough
    <2>2. 0 \in 0..(count[r] - 1)
      BY <2>1
    <2>3. RankInv(r) /\ at[r] = "minmax" /\ at'[r] = "forward"
      BY <1>2, <1>4
    <2>4. PlanInv(r)'
      BY <1>4, <2>2, <2>3 DEF RankInv, PlanInv, Planned, Mini
    <2>5. RowsInv(r)' /\ MinisInv(r)' /\ CountInv(r)' /\ StageInv(r)' /\ ResultsInv(r)' /\ ScoresInv(r)'
      BY <1>4, <2>3 DEF RankInv, RowsInv, MinisInv, CountInv, StageInv, ResultsInv, ScoresInv,
         Turn, Busy, Counted, Planned, Mini
    <2> QED
      BY <2>4, <2>5 DEF RankInv
  <1> QED
    BY <1>1, <1>4, <1>5, DataKept

\* A mini-batch m of n rows with d of its c micro-batches seen, and not the last.
Seeing(n, c, pl, d, m) ==
  /\ n \in Nat /\ c \in Nat /\ pl \in [1..c -> Seq(1..n)]
  /\ d \in 0..c /\ d + 1 \in 1..c /\ DOMAIN m = 1..n

\* The rows of a micro-batch that is added to those seen.
LEMMA SeenGrows ==
  ASSUME NEW n, NEW c, NEW pl, NEW d, NEW m, Seeing(n, c, pl, d, m), NEW inputs
  PROVE  SeenRows(inputs, m, pl, d + 1) = SeenRows(inputs, m, pl, d) \o Reorder(inputs, Reorder(m, pl[d + 1]))
  <1> DEFINE f == Flat(pl, d)
             g == Flat(pl, d + 1)
             t == pl[d + 1]
             h == [a \in 1..n |-> inputs[m[a]]]
  <1>1. Appends(f, t, g, 1..n)
    BY FlatAppends DEF Seeing
  <1>2. t \in Seq(1..n) /\ DOMAIN m = 1..n /\ n \in Nat
    BY DEF Seeing
  <1> HIDE DEF f, g, t
  <1>3. f \in Seq(1..n) /\ g \in Seq(1..n) /\ t \in Seq(1..n)
    BY <1>1 DEF Appends
  <1>4. /\ \A p \in 1..Len(f) : f[p] \in 1..n
        /\ \A p \in 1..Len(g) : g[p] \in 1..n
        /\ \A p \in 1..Len(t) : t[p] \in 1..n
        /\ DOMAIN t = 1..Len(t)
    BY <1>2, <1>3
  <1>5. /\ Image(h, f) = [p \in 1..Len(f) |-> inputs[m[f[p]]]]
        /\ Image(h, g) = [p \in 1..Len(g) |-> inputs[m[g[p]]]]
        /\ Image(h, t) = [p \in 1..Len(t) |-> inputs[m[t[p]]]]
    BY <1>4 DEF Image
  <1> HIDE DEF h
  <1>6. Image(h, g) = Image(h, f) \o Image(h, t)
    BY <1>1, MapAppends
  <1>7. Reorder(inputs, Reorder(m, t)) = [p \in 1..Len(t) |-> inputs[m[t[p]]]]
    BY <1>4 DEF Reorder
  <1>8. /\ SeenRows(inputs, m, pl, d) = [p \in 1..Len(f) |-> inputs[m[f[p]]]]
        /\ SeenRows(inputs, m, pl, d + 1) = [p \in 1..Len(g) |-> inputs[m[g[p]]]]
    BY DEF SeenRows, f, g
  <1> QED
    BY <1>5, <1>6, <1>7, <1>8 DEF t

\* The rows of a mini-batch that are added to those before it.
LEMMA PrefixGrows ==
  ASSUME NEW inputs, NEW x \in Nat, NEW y \in Nat, y - x \in Nat
  PROVE  Prefix(inputs, y) = Prefix(inputs, x) \o [a \in 1..(y - x) |-> inputs[x + a]]
  <1> DEFINE z == y - x
             a == Prefix(inputs, x)
             b == [p \in 1..z |-> inputs[x + p]]
             c == Prefix(inputs, y)
  <1>1. z \in Nat /\ x + z = y
    OBVIOUS
  <1> HIDE DEF z
  <1>2. a = [p \in 1..x |-> a[p]] /\ b = [p \in 1..z |-> b[p]]
    BY DEF Prefix
  <1>3. c = [p \in 1..(x + z) |-> c[p]]
    BY <1>1 DEF Prefix
  <1>4. \A p \in 1..x : p \in 1..y /\ c[p] = a[p]
    BY <1>1 DEF Prefix
  <1>5. \A p \in 1..z : c[x + p] = b[p]
    <2>1. \A p \in 1..z : x + p \in 1..y
      BY <1>1
    <2> QED
      BY <2>1 DEF Prefix
  <1> HIDE DEF a, b, c
  <1>6. Joining(a, x, b, z, c)
    BY <1>2, <1>3, <1>4, <1>5 DEF Joining
  <1>7. a \o b = c
    BY <1>1, <1>6, JoinedIs
  <1> QED
    BY <1>7 DEF a, b, c, z

\* The micro-batches of a rank at work.
PlanAt(r) ==
  /\ Partitions(plan[r], Len(Mini(r)), count[r])
  /\ count[r] \in 1..Len(Mini(r))
  /\ DOMAIN plan[r] = 1..count[r]

LEMMA PlanFacts ==
  ASSUME NEW r \in Ranks, RankInv(r), RankAt(r), at[r] \in Planned
  PROVE  PlanAt(r)
  <1> DEFINE n == Len(Mini(r))
             l == MiniLens(r)
             c == count[r]
  <1>1. n \in Nat /\ l \in [1..n -> Nat \ {0}] /\ SpreadBound(l, n, FALSE, MaxTokenLen) /\ MaxTokenLen \in Nat
    BY WorkerCallAssumption DEF RankAt
  <1>2. plan[r] = MicroBatches(l, c)
    BY MiniLensIs DEF RankInv, PlanInv
  <1>3. c \in 1..n
    BY DEF RankInv, CountInv, Enough, Planned, Counted
  <1>4. DOMAIN plan[r] = 1..c
    BY <1>2, MicroBatchesDomain
  <1> HIDE DEF n, l, c
  <1>5. Partitions(MicroBatches(l, c), n, c)
    BY <1>1, <1>3, MicroBatchesCorrect
  <1> QED
    BY <1>2, <1>3, <1>4, <1>5 DEF PlanAt, n, c

LEMMA DataForward == ASSUME LockInv, DataInv, Forward PROVE DataInv'
  <1>1. pc \in Working
    BY InCall, SomeRank DEF Forward, Reached, Idle
  <1>2. \A r \in Ranks : RankInv(r) /\ RankAt(r) /\ at[r] = "forward"
    BY <1>1, JobOfCall DEF Forward, Reached, Busy
  <1>3. /\ UNCHANGED driverVars /\ UNCHANGED <<pc, job, batch, stage, chunk, packs, minis, count, plan, scores>>
        /\ \A r \in Ranks : done'[r] = done[r] + 1
        /\ \A r \in Ranks : results'[r] = IF stage[r] = "eval" THEN results[r] \o Reorder(packs[r], Micro(r))
                                          ELSE results[r]
        /\ \A r \in Ranks : at'[r] = IF ~LastMicro(r) THEN "forward"
                                     ELSE IF stage[r] = "eval" THEN "gather" ELSE "step"
        /\ PerRank(results)' /\ PerRank(scores)'
    BY DEF DataInv, PerRank, Forward, driverVars, dataVars, loopVars
  <1>4. ASSUME NEW r \in Ranks PROVE RankInv(r)'
    <2> DEFINE n == Len(Mini(r))
               c == count[r]
               d == done[r]
    <2>1. RankInv(r) /\ RankAt(r) /\ at[r] = "forward" /\ PlanAt(r)
      BY <1>2, PlanFacts DEF Planned
    <2>2. c \in 1..n /\ plan[r] \in [1..c -> Seq(1..n)] /\ n \in Nat
      BY <2>1 DEF PlanAt, Partitions, RankAt
    <2>3. d \in 0..(c - 1)
      BY <2>1 DEF RankInv, PlanInv
    <2>4. Mini(r) \in [1..n -> 1..SizeOf(job)]
      BY <2>1 DEF RankAt
    <2>5. at'[r] = (IF d + 1 # c THEN "forward" ELSE IF stage[r] = "eval" THEN "gather" ELSE "step") /\ done'[r] = d + 1
      BY <1>3 DEF LastMicro
    <2>6. stage[r] \in {"eval", "train"}
      BY <2>1 DEF RankInv, StageInv
    <2>7. results'[r] = IF stage[r] = "eval" THEN SeenRows(packs[r], Mini(r), plan[r], d + 1) ELSE <<>>
      <3>1. Micro(r) = Reorder(Mini(r), plan[r][d + 1])
        BY DEF Micro
      <3>2. results[r] = IF stage[r] = "eval" THEN SeenRows(packs[r], Mini(r), plan[r], d) ELSE <<>>
        BY <2>1 DEF RankInv, ResultsInv, Planned
      <3> HIDE DEF n, c, d
      <3>3. c \in Nat /\ d \in 0..c /\ d + 1 \in 1..c
        BY <2>2, <2>3
      <3>4. SeenRows(packs[r], Mini(r), plan[r], d + 1)
              = SeenRows(packs[r], Mini(r), plan[r], d) \o Reorder(packs[r], Reorder(Mini(r), plan[r][d + 1]))
        <4>1. plan[r] \in [1..c -> Seq(1..n)] /\ DOMAIN Mini(r) = 1..n /\ n \in Nat
          BY <2>2, <2>4 DEF n, c
        <4>2. Seeing(n, c, plan[r], d, Mini(r))
          BY <3>3, <4>1 DEF Seeing
        <4> QED
          BY <4>2, SeenGrows
      <3> QED
        BY <1>3, <3>1, <3>2, <3>4
    <2>8. PlanInv(r)'
      <3>1. plan[r] = MicroBatches(LensOf(job, packs[r], Mini(r)), c)
        BY <2>1 DEF RankInv, PlanInv, Planned
      <3>2. at'[r] # "minmax" /\ (at'[r] = "forward" => d + 1 # c) /\ (at'[r] \in {"gather", "step"} => d + 1 = c)
        BY <2>5
      <3>3. d + 1 # c => d + 1 \in 0..(c - 1)
        <4> HIDE DEF n, c, d
        <4> QED
          BY <2>2, <2>3
      <3> QED
        BY <1>3, <2>5, <3>1, <3>2, <3>3 DEF PlanInv, Mini
    <2>9. StageInv(r)' /\ ResultsInv(r)'
      <3>1. at'[r] \in Planned /\ at'[r] # "advantages"
        BY <2>5 DEF Planned
      <3>2. ResultsInv(r)'
        BY <1>3, <2>5, <2>7, <3>1 DEF ResultsInv, Mini
      <3>3. StageInv(r)'
        BY <1>3, <2>5, <2>6, <3>1 DEF StageInv
      <3> QED
        BY <3>2, <3>3
    <2>10. RowsInv(r)' /\ MinisInv(r)' /\ CountInv(r)' /\ ScoresInv(r)'
      <3>1. at'[r] \in {"forward", "gather", "step"}
        BY <2>5
      <3> QED
        BY <1>3, <2>1, <3>1 DEF RankInv, RowsInv, MinisInv, CountInv, ScoresInv, Turn, Busy, Counted, Mini
    <2> QED
      BY <2>8, <2>9, <2>10 DEF RankInv
  <1> QED
    BY <1>1, <1>3, <1>4, DataKept

LEMMA DataGather == ASSUME NEW r \in Ranks, LockInv, DataInv, Gather(r) PROVE DataInv'
  <1>1. pc \in Working
    BY DEF Gather, LockInv, AllIdling, Idle, Working
  <1>1a. at[r] = "gather"
    BY DEF Gather
  <1>2. RankInv(r) /\ RankAt(r) /\ PlanAt(r) /\ stage[r] = "eval"
    BY <1>1, JobOfCall, PlanFacts DEF Gather, Busy, Planned, RankInv, StageInv
  <1>3. /\ at'[r] = IF Len(minis[r]) > 1 THEN "plan" ELSE IF pc = "real" THEN "advantages" ELSE "idle"
        /\ scores'[r] = scores[r] \o InBatchOrder(results[r], plan[r])
        /\ results'[r] = <<>> /\ minis'[r] = Tail(minis[r])
        /\ \A s \in Ranks \ {r} : Untouched(s)
        /\ PerRank(results)' /\ PerRank(scores)'
    BY DEF LockInv, ShapeInv, DataInv, PerRank, Gather, Untouched, dataVars, microVars
  <1>4. UNCHANGED driverVars /\ UNCHANGED <<pc, job, batch, stage, chunk, packs, count, plan, done>>
    BY DEF Gather, driverVars, dataVars, microVars
  <1> DEFINE parts == SlicesOf(pc, job)
             k == Behind(parts, minis[r])
             x == EndIn(pc, job, k)
             y == EndIn(pc, job, k + 1)
             n == Len(Mini(r))
             inputs == packs[r]
  <1>5. /\ x \in Nat /\ y \in 1..SizeOf(job) /\ y - x \in Nat \ {0} /\ n = y - x
        /\ \A a \in 1..(y - x) : Mini(r)[a] = x + a
        /\ ~(Len(minis[r]) > 1) => y = SizeOf(job)
        /\ Len(minis[r]) > 1 => Left(parts, Tail(minis[r])) /\ Behind(parts, Tail(minis[r])) = k + 1
    BY <1>2 DEF RankAt, MiniIs, Mini
  <1>6. Partitions(plan[r], n, count[r]) /\ n \in Nat \ {0} /\ count[r] \in Nat /\ DOMAIN plan[r] = 1..count[r]
    BY <1>2 DEF PlanAt, RankAt
  <1>7. scores[r] = Prefix(inputs, x)
    BY <1>1a, <1>2 DEF RankInv, ScoresInv, Turn, Busy
  <1>8. results[r] = SeenRows(inputs, Mini(r), plan[r], count[r])
    BY <1>1a, <1>2 DEF RankInv, ResultsInv, PlanInv, Planned
  <1>9. inputs = Prefix(inputs, SizeOf(job))
    BY <1>2 DEF RankAt
  <1> HIDE DEF parts, k, x, y, n, inputs
  <1>10. InBatchOrder(results[r], plan[r]) = [a \in 1..n |-> inputs[Mini(r)[a]]]
    <2> DEFINE f == FlattenSeq(plan[r])
               g == [a \in 1..n |-> inputs[Mini(r)[a]]]
               pl == plan[r]
    <2>1. f \in Seq(1..n) /\ Len(f) = n /\ Lists(f, n, 1..n)
      BY <1>6, PartitionsConcat
    <2>2. Flat(plan[r], count[r]) = f
      <3>1. plan[r] = [i \in 1..count[r] |-> plan[r][i]]
        BY <1>6 DEF Partitions
      <3> QED
        BY <3>1 DEF Flat
    <2>3. results[r] = [p \in 1..n |-> inputs[Mini(r)[f[p]]]]
      BY <1>8, <2>1, <2>2 DEF SeenRows
    <2>4. \A p \in 1..n : f[p] \in 1..n
      BY <2>1
    <2>5. results[r] = Image(g, f)
      BY <2>1, <2>3, <2>4 DEF Image
    <2> HIDE DEF f, g
    <2>8. n \in Nat /\ f = FlattenSeq(plan[r])
      BY <1>6 DEF f
    <2>6. RestoreDynamicBatch(results[r], plan[r]) = [i \in 1..n |-> g[i]]
      BY <2>1, <2>5, <2>8, RestoreIs
    <2>7. [i \in 1..n |-> g[i]] = [a \in 1..n |-> inputs[Mini(r)[a]]]
      BY DEF g
    <2> QED
      BY <2>6, <2>7 DEF InBatchOrder
  <1>11. scores'[r] = Prefix(inputs, y)
    <2>1. [a \in 1..n |-> inputs[Mini(r)[a]]] = [a \in 1..(y - x) |-> inputs[x + a]]
      BY <1>5
    <2>2. x \in Nat /\ y \in Nat /\ y - x \in Nat
      BY <1>2, <1>5 DEF RankAt
    <2>3. Prefix(inputs, y) = Prefix(inputs, x) \o [a \in 1..(y - x) |-> inputs[x + a]]
      BY <2>2, PrefixGrows
    <2> QED
      BY <1>3, <1>7, <1>10, <2>1, <2>3
  <1>12. RankInv(r)'
    <2>1. RowsInv(r)'
      BY <1>2, <1>4 DEF RankInv, RowsInv
    <2>2. CountInv(r)' /\ PlanInv(r)' /\ StageInv(r)' /\ ResultsInv(r)'
      BY <1>2, <1>3, <1>4 DEF CountInv, PlanInv, StageInv, ResultsInv, Counted, Planned
    <2>3. MinisInv(r)' /\ ScoresInv(r)'
      <3>1. CASE Len(minis[r]) > 1
        <4>1. at'[r] = "plan" /\ stage'[r] = "eval" /\ minis'[r] = Tail(minis[r])
          BY <1>2, <1>3, <1>4, <3>1
        <4>2. Left(SlicesOf(pc, job), minis'[r]) /\ Behind(SlicesOf(pc, job), minis'[r]) = k + 1
          BY <1>5, <3>1, <4>1 DEF parts
        <4>3. scores'[r] = Prefix(packs[r], EndIn(pc, job, Behind(SlicesOf(pc, job), minis'[r])))
          BY <1>11, <4>2 DEF y, inputs
        <4> QED
          BY <1>4, <4>1, <4>2, <4>3 DEF MinisInv, ScoresInv, Turn
      <3>2. CASE ~(Len(minis[r]) > 1)
        <4>1. at'[r] \in {"advantages", "idle"} /\ stage'[r] = "eval"
          BY <1>2, <1>3, <1>4, <3>2
        <4>2. scores'[r] = packs[r]
          BY <1>5, <1>9, <1>11, <3>2 DEF inputs
        <4> QED
          BY <1>4, <4>1, <4>2 DEF MinisInv, ScoresInv, Busy
      <3> QED
        BY <3>1, <3>2
    <2> QED
      BY <2>1, <2>2, <2>3 DEF RankInv
  <1> QED
    BY <1>1, <1>3, <1>4, <1>12, DataOfOne

LEMMA BlockLen ==
  ASSUME NEW j \in Jobs, j.call # "validate", NEW b, NEW r
  PROVE  Len(Block(b, SizeOf(j), r)) = SizeOf(j)
  <1> DEFINE n == SizeOf(j)
             f == Block(b, n, r)
  <1>1. n \in Nat
    BY JobSizes
  <1> HIDE DEF n
  <1>2. f = [p \in 1..n |-> f[p]]
    BY DEF Block
  <1> HIDE DEF f
  <1>3. Len(f) = n
    BY <1>1, <1>2, FunctionLength
  <1> QED
    BY <1>3 DEF f, n

\* A rank begins an epoch with all mini-batches of its chunk.
LEMMA EpochBegins ==
  ASSUME NEW j \in Jobs, j.call # "validate", NEW p, p # "log_prob", NEW rows, Len(rows) = SizeOf(j)
  PROVE  MiniBatches(rows) = SlicesOf(p, j) /\ Left(SlicesOf(p, j), MiniBatches(rows))
  <1>1. MiniBatches(rows) = SlicesOf(p, j)
    BY DEF MiniBatches, SlicesOf, WidthOf
  <1> QED
    BY <1>1, AllLeft

LEMMA DataComputeAdvantages == ASSUME NEW r \in Ranks, LockInv, DataInv, ComputeAdvantages(r) PROVE DataInv'
  <1>1. pc \in Working
    BY InCall DEF ComputeAdvantages, Idle
  <1>2. RankInv(r) /\ at[r] = "advantages" /\ job \in Jobs /\ job.call # "validate"
    BY <1>1, JobOfCall DEF ComputeAdvantages
  <1>3. pc = "real"
    BY <1>1, <1>2, ChunksAre DEF PlaceInv, Working
  <1>4. /\ at'[r] = "plan" /\ stage'[r] = "train" /\ minis'[r] = MiniBatches(chunk[r])
        /\ \A s \in Ranks \ {r} : Untouched(s)
        /\ PerRank(results)' /\ PerRank(scores)'
    BY DEF LockInv, ShapeInv, DataInv, PerRank, ComputeAdvantages, Untouched, dataVars, microVars, evalVars
  <1>5. UNCHANGED driverVars /\ UNCHANGED <<pc, job, batch, chunk, packs, count, plan, done, results, scores>>
    BY DEF ComputeAdvantages, driverVars, dataVars, microVars, evalVars
  <1>6. Len(chunk[r]) = SizeOf(job)
    BY <1>2, BlockLen DEF RankInv, RowsInv, RowsAre
  <1>7. Left(SlicesOf(pc, job), minis'[r])
    BY <1>2, <1>3, <1>4, <1>6, EpochBegins
  <1>8. RankInv(r)'
    <2>1. MinisInv(r)'
      BY <1>5, <1>7 DEF MinisInv
    <2>2. RowsInv(r)' /\ CountInv(r)' /\ PlanInv(r)' /\ StageInv(r)' /\ ResultsInv(r)' /\ ScoresInv(r)'
      BY <1>2, <1>4, <1>5 DEF RankInv, RowsInv, CountInv, PlanInv, StageInv, ResultsInv, ScoresInv, Counted, Planned
    <2> QED
      BY <2>1, <2>2 DEF RankInv
  <1> QED
    BY <1>1, <1>4, <1>5, <1>8, DataOfOne

LEMMA DataOptimizerStep == ASSUME LockInv, DataInv, Step PROVE DataInv'
  <1>1. pc \in Working
    BY InCall, SomeRank DEF Step, Reached, Idle
  <1>2. \A r \in Ranks : RankInv(r) /\ RankAt(r) /\ at[r] = "step" /\ job \in Jobs /\ job.call # "validate"
    BY <1>1, JobOfCall DEF Step, Reached, Busy
  <1>3. pc # "log_prob"
    BY <1>1, <1>2, SomeRank, ChunksAre DEF PlaceInv
  <1>4. /\ UNCHANGED driverVars
        /\ UNCHANGED <<pc, job, batch, stage, chunk, packs, count, plan, done, results, scores>>
        /\ \A r \in Ranks : minis'[r] = IF Len(minis[r]) > 1 THEN Tail(minis[r]) ELSE MiniBatches(chunk[r])
        /\ \A r \in Ranks : at'[r] \in {"plan", "idle"}
        /\ PerRank(results)' /\ PerRank(scores)'
    BY DEF DataInv, PerRank, Step, driverVars, dataVars, microVars, evalVars
  <1>5. ASSUME NEW r \in Ranks PROVE RankInv(r)'
    <2>1. RankInv(r) /\ RankAt(r) /\ at[r] = "step" /\ stage[r] = "train" /\ at'[r] \in {"plan", "idle"}
      BY <1>2, <1>4 DEF RankInv, StageInv
    <2>2. Len(chunk[r]) = SizeOf(job)
      BY <1>2, BlockLen DEF RankInv, RowsInv, RowsAre
    <2>3. Left(SlicesOf(pc, job), minis'[r])
      <3>1. CASE Len(minis[r]) > 1
        BY <1>4, <2>1, <3>1 DEF RankAt, MiniIs
      <3>2. CASE ~(Len(minis[r]) > 1)
        BY <1>2, <1>3, <1>4, <2>2, <3>2, EpochBegins
      <3> QED
        BY <3>1, <3>2
    <2>4. MinisInv(r)'
      BY <1>4, <2>3 DEF MinisInv
    <2>5. RowsInv(r)' /\ CountInv(r)' /\ PlanInv(r)' /\ StageInv(r)' /\ ResultsInv(r)' /\ ScoresInv(r)'
      BY <1>3, <1>4, <2>1 DEF RankInv, RowsInv, CountInv, PlanInv, StageInv, ResultsInv, ScoresInv, Counted, Planned
    <2> QED
      BY <2>4, <2>5 DEF RankInv
  <1> QED
    BY <1>1, <1>4, <1>5, DataKept

LEMMA DataGenerate == ASSUME NEW r \in Ranks, LockInv, DataInv, Generate(r) PROVE DataInv'
  <1>1. pc = "generate"
    BY DEF Generate, LockInv, JobInv, DataInv, GenerateInv, RankInv, StageInv, AllIdle
  <1>2. /\ at[r] = "generate" /\ at'[r] = "idle" /\ scores'[r] = chunk[r] /\ UNCHANGED <<chunk, results>>
        /\ \A s \in Ranks \ {r} : UNCHANGED <<at[s], scores[s]>>
        /\ PerRank(results)' /\ PerRank(scores)'
        /\ UNCHANGED <<pc, job, batch, returned>>
    BY DEF LockInv, ShapeInv, DataInv, PerRank, Generate, driverVars, dataVars
  <1> QED
    BY <1>1, <1>2 DEF DataInv, BatchInv, GenerateInv, ReturnedInOrder, Working

-----------------------------------------------------------------------------
(* Where the rows are: the driver's steps *)

\* The rows a rank gets.
LEMMA DispatchedIs ==
  ASSUME NEW j \in Jobs, j.call # "validate", NEW b, Len(b) = Len(j.uid), NEW r \in Ranks
  PROVE  DispatchTo(b, OwnChunk, Ranks)[r] = Block(b, SizeOf(j), r)
  <1>1. Len(b) \in Nat /\ WorldSize \in Nat \ {0}
    BY JobRows, SizesNat
  <1>2. r + 1 \in 1..WorldSize /\ (r + 1) - 1 = r
    BY <1>1 DEF Ranks
  <1>3. DispatchTo(b, OwnChunk, Ranks)[r] = Chunk(b, WorldSize)[r + 1]
    BY OwnChunks DEF DispatchTo, OwnChunk
  <1>4. Chunk(b, WorldSize)[r + 1] = Block(b, Len(b) \div WorldSize, (r + 1) - 1)
    BY <1>1, <1>2, ChunkIs
  <1> QED
    BY <1>2, <1>3, <1>4 DEF SizeOf

\* The rows of a rank are rows of the batch, none twice.
LEMMA BlockDistinct ==
  ASSUME NEW j \in Jobs, j.call # "validate", NEW b, Lists(b, Len(j.uid), 1..Len(j.uid)), NEW r \in Ranks
  PROVE  LET rows == Block(b, SizeOf(j), r)
         IN  /\ SizeOf(j) \in Nat \ {0} /\ rows \in [1..SizeOf(j) -> 1..Len(j.uid)]
             /\ \A p, q \in 1..SizeOf(j) : rows[p] = rows[q] => p = q
             /\ Lists(rows, SizeOf(j), Members(rows))
  <1> DEFINE n == SizeOf(j)
             u == Len(j.uid)
             rows == Block(b, n, r)
  <1>1. n \in Nat \ {0} /\ \A p \in 1..n : r * n + p \in 1..u
    BY JobSizes, BlockPlaces
  <1>2. b \in [1..u -> 1..u] /\ \A p, q \in 1..u : b[p] = b[q] => p = q
    BY DEF Lists
  <1> HIDE DEF n, u
  <1>3. rows \in [1..n -> 1..u]
    BY <1>1, <1>2 DEF Block
  <1>4. ASSUME NEW p \in 1..n, NEW q \in 1..n, rows[p] = rows[q] PROVE p = q
    <2>1. b[r * n + p] = b[r * n + q]
      BY <1>4 DEF Block
    <2>2. r * n + p = r * n + q
      BY <1>1, <1>2, <2>1
    <2> DEFINE z == r * n
    <2>3. z \in Int
      BY <1>1 DEF Ranks
    <2> HIDE DEF z
    <2>4. z + p = z + q
      BY <2>2 DEF z
    <2> QED
      BY <2>3, <2>4
  <1> HIDE DEF rows
  <1>5. Lists(rows, n, Members(rows))
    <2>1. DOMAIN rows = 1..n /\ rows = [p \in 1..n |-> rows[p]]
      BY <1>3
    <2>2. \A p \in 1..n : rows[p] \in Members(rows)
      BY <2>1 DEF Members
    <2>3. \A x \in Members(rows) : \E p \in 1..n : rows[p] = x
      BY <2>1 DEF Members
    <2>4. rows \in [1..n -> Members(rows)]
      BY <2>1, <2>2
    <2> QED
      BY <1>4, <2>3, <2>4 DEF Lists
  <1> QED
    BY <1>1, <1>3, <1>4, <1>5 DEF n, u, rows

\* Sorting by a number, equal ones by position.
LEMMA KeyOrder ==
  ASSUME NEW n \in Nat, NEW g \in [1..n -> Nat], NEW R,
         \A i, k \in 1..n : <<i, k>> \in R <=> g[i] < g[k] \/ (g[i] = g[k] /\ i < k)
  PROVE  StrictOrder(R, 1..n)
  <1>1. \A i \in 1..n : g[i] \in Nat
    OBVIOUS
  <1>2. \A x \in 1..n : <<x, x>> \notin R
    BY <1>1
  <1>3. ASSUME NEW x \in 1..n, NEW y \in 1..n, NEW z \in 1..n, <<x, y>> \in R, <<y, z>> \in R
        PROVE  <<x, z>> \in R
    <2> DEFINE a == g[x]
               b == g[y]
               c == g[z]
    <2>1. a \in Nat /\ b \in Nat /\ c \in Nat /\ (a < b \/ (a = b /\ x < y)) /\ (b < c \/ (b = c /\ y < z))
      BY <1>1, <1>3
    <2> HIDE DEF a, b, c
    <2>2. a < c \/ (a = c /\ x < z)
      BY <2>1
    <2> QED
      BY <2>2 DEF a, c
  <1>4. ASSUME NEW x \in 1..n, NEW y \in 1..n, x # y
        PROVE  <<x, y>> \in R \/ <<y, x>> \in R
    <2> DEFINE a == g[x]
               b == g[y]
    <2>1. a \in Nat /\ b \in Nat
      BY <1>1
    <2> HIDE DEF a, b
    <2>2. (a < b \/ (a = b /\ x < y)) \/ (b < a \/ (b = a /\ y < x))
      BY <1>4, <2>1
    <2> QED
      BY <2>2 DEF a, b
  <1> QED
    BY <1>2, <1>3, <1>4 DEF StrictOrder

\* The inputs of a rank in a REAL update are its rows, prompt by prompt.
LEMMA PacksLists ==
  ASSUME job \in Jobs, NEW n \in Nat, NEW rows \in [1..n -> 1..Len(job.uid)],
         \A p, q \in 1..n : rows[p] = rows[q] => p = q
  PROVE  Lists(PacksOf(rows), n, Members(rows))
  <1> DEFINE R == {ij \in (1..n) \X (1..n) : \/ job.uid[rows[ij[1]]] < job.uid[rows[ij[2]]]
                                             \/ /\ job.uid[rows[ij[1]]] = job.uid[rows[ij[2]]]
                                                /\ ij[1] < ij[2]}
             f == InOrder(1..n, R)
  <1>1. DOMAIN rows = 1..n /\ ByPrompt(rows) = f
    BY DEF ByPrompt
  <1>2. \A i \in 1..n : job.uid[rows[i]] \in Nat
    <2>1. job.uid \in Seq(Nat)
      BY WorkerCallAssumption
    <2>2. \A x \in 1..Len(job.uid) : job.uid[x] \in Nat
      BY <2>1
    <2> QED
      BY <2>2
  <1>3. \A i, k \in 1..n : <<i, k>> \in R <=> \/ job.uid[rows[i]] < job.uid[rows[k]]
                                              \/ job.uid[rows[i]] = job.uid[rows[k]] /\ i < k
    OBVIOUS
  <1> HIDE DEF R
  <1>4. StrictOrder(R, 1..n)
    <2> DEFINE g == [i \in 1..n |-> job.uid[rows[i]]]
    <2>1. g \in [1..n -> Nat]
      BY <1>2
    <2>2. \A i, k \in 1..n : <<i, k>> \in R <=> g[i] < g[k] \/ (g[i] = g[k] /\ i < k)
      BY <1>3
    <2> HIDE DEF g
    <2> QED
      BY <2>1, <2>2, KeyOrder
  <1>5. IsFiniteSet(1..n) /\ Cardinality(1..n) = n
    BY FS_Interval
  <1>6. Lists(f, n, 1..n)
    BY <1>4, <1>5, InOrderLists
  <1> HIDE DEF f
  <1> DEFINE g == PacksOf(rows)
  <1>7. f \in [1..n -> 1..n] /\ \A x \in 1..n : \E i \in 1..n : f[i] = x
    BY <1>6 DEF Lists
  <1>8. g = [i \in 1..n |-> rows[f[i]]]
    BY <1>1, <1>7 DEF PacksOf, Reorder
  <1>9. \A i \in 1..n : f[i] \in 1..n /\ g[i] = rows[f[i]]
    BY <1>7, <1>8
  <1>10. g \in [1..n -> Members(rows)]
    BY <1>7, <1>8 DEF Members
  <1> HIDE DEF g
  <1>11. \A i, k \in 1..n : g[i] = g[k] => i = k
    <2> SUFFICES ASSUME NEW i \in 1..n, NEW k \in 1..n, g[i] = g[k] PROVE i = k
      OBVIOUS
    <2>1. f[i] = f[k]
      BY <1>9
    <2> QED
      BY <1>6, <2>1 DEF Lists
  <1>12. \A x \in Members(rows) : \E i \in 1..n : g[i] = x
    <2> TAKE x \in Members(rows)
    <2>1. PICK p \in 1..n : rows[p] = x
      BY DEF Members
    <2>2. PICK i \in 1..n : f[i] = p
      BY <1>7
    <2> QED
      BY <1>9, <2>1, <2>2
  <1> QED
    BY <1>10, <1>11, <1>12 DEF Lists, g

LEMMA DataInit == Init => DataInv
  <1> SUFFICES ASSUME Init PROVE DataInv
    OBVIOUS
  <1>1. job \in Jobs /\ batch = Rows(Len(job.uid)) /\ pc = "start"
    BY DEF Init
  <1>2. Lists(batch, Len(job.uid), 1..Len(job.uid))
    <2> DEFINE n == Len(job.uid)
    <2>1. n \in Nat
      BY <1>1, JobRows
    <2>2. batch = [i \in 1..n |-> i]
      BY <1>1 DEF Rows
    <2> HIDE DEF n
    <2> QED
      BY <2>2 DEF Lists, n
  <1> QED
    BY <1>1, <1>2 DEF Init, DataInv, BatchInv, GenerateInv, ReturnedInOrder, PerRank, Same, AllIdle, Working

LEMMA DataCallGenerate == ASSUME LockInv, DataInv, CallGenerate PROVE DataInv'
  <1>1. /\ pc = "start" /\ pc' = "generate" /\ UNCHANGED <<job, batch, results, scores>>
        /\ chunk' = DispatchTo(PadToDivisor(batch, WorldSize), GenerationRank, Ranks)
        /\ \A r \in Ranks : at'[r] = "generate"
    BY DEF CallGenerate, Same, evalVars
  <1> QED
    BY <1>1 DEF DataInv, BatchInv, GenerateInv, ReturnedInOrder, PerRank, Working

\* A rank before its first mini-batch.
LEMMA RankStarts ==
  ASSUME job' \in Jobs, job'.call # "validate", NEW r \in Ranks, RowsInv(r)',
         at'[r] = "plan", stage'[r] \in {"eval", "train"}, results'[r] = <<>>,
         minis'[r] = SlicesOf(pc', job'),
         stage'[r] = "eval" => scores'[r] = <<>>, ~(pc' = "real" /\ stage'[r] = "train")
  PROVE  RankInv(r)'
  <1>1. /\ Left(SlicesOf(pc', job'), minis'[r]) /\ Behind(SlicesOf(pc', job'), minis'[r]) = 0
        /\ EndIn(pc', job', 0) = 0
    BY AllLeft
  <1>2. \A inputs : Prefix(inputs, 0) = <<>>
    <2>1. 1..0 = {}
      OBVIOUS
    <2> QED
      BY <2>1 DEF Prefix
  <1>3. MinisInv(r)' /\ ScoresInv(r)'
    BY <1>1, <1>2 DEF MinisInv, ScoresInv, Turn
  <1>4. CountInv(r)' /\ PlanInv(r)' /\ StageInv(r)' /\ ResultsInv(r)'
    BY DEF CountInv, PlanInv, StageInv, ResultsInv, Counted, Planned
  <1> QED
    BY <1>3, <1>4 DEF RankInv

LEMMA DataCallReal == ASSUME LockInv, DataInv, CallReal PROVE DataInv'
  <1>1. /\ pc = "start" /\ pc' = "real" /\ UNCHANGED <<job, batch, returned, results, scores>>
        /\ job \in Jobs /\ job.call = "real" /\ Len(batch) = Len(job.uid)
        /\ results = Same(<<>>) /\ scores = Same(<<>>) /\ BatchInv
    BY DEF CallReal, evalVars, LockInv, JobInv, DataInv
  <1>2. \A r \in Ranks :
          /\ chunk'[r] = DispatchTo(batch, OwnChunk, Ranks)[r]
          /\ packs'[r] = PacksOf(chunk'[r])
          /\ stage'[r] = "eval" /\ at'[r] = "plan"
          /\ minis'[r] = MiniBatches(chunk'[r])
    BY DEF CallReal, Same, DispatchTo
  <1>3. ASSUME NEW r \in Ranks PROVE RankInv(r)'
    <2> DEFINE rows == Block(batch, SizeOf(job), r)
    <2>1. chunk'[r] = rows
      BY <1>1, <1>2, DispatchedIs
    <2>2. /\ SizeOf(job) \in Nat \ {0} /\ rows \in [1..SizeOf(job) -> 1..Len(job.uid)]
          /\ \A p, q \in 1..SizeOf(job) : rows[p] = rows[q] => p = q
      BY <1>1, BlockDistinct DEF BatchInv
    <2>3. Len(rows) = SizeOf(job)
      BY <1>1, BlockLen
    <2> HIDE DEF rows
    <2>4. Lists(PacksOf(rows), SizeOf(job), Members(rows))
      <3> DEFINE n == SizeOf(job)
      <3>1. /\ n \in Nat /\ rows \in [1..n -> 1..Len(job.uid)]
            /\ \A p, q \in 1..n : rows[p] = rows[q] => p = q
        BY <2>2
      <3> HIDE DEF n
      <3>2. Lists(PacksOf(rows), n, Members(rows))
        BY <1>1, <3>1, PacksLists
      <3> QED
        BY <3>2 DEF n
    <2>5. RowsInv(r)'
      BY <1>1, <1>2, <2>1, <2>4 DEF RowsInv, RowsAre, rows
    <2>6. MiniBatches(rows) = SlicesOf(pc', job)
      BY <1>1, <2>3, EpochBegins
    <2>7. /\ minis'[r] = SlicesOf(pc', job') /\ results'[r] = <<>> /\ scores'[r] = <<>>
          /\ job' \in Jobs /\ job'.call # "validate"
      BY <1>1, <1>2, <2>1, <2>6 DEF Same
    <2> QED
      BY <1>2, <2>5, <2>7, RankStarts
  <1>4. PerRank(results)' /\ PerRank(scores)'
    BY <1>1 DEF PerRank, Same
  <1> QED
    BY <1>1, <1>3, <1>4 DEF DataInv, BatchInv, GenerateInv, ReturnedInOrder, Working

LEMMA DataCallLogProb == ASSUME LockInv, DataInv, CallLogProb PROVE DataInv'
  <1>1. /\ pc = "start" /\ pc' = "log_prob" /\ UNCHANGED <<job, returned, results, scores>>
        /\ job \in Jobs /\ job.call = "grpo" /\ batch = Rows(Len(job.uid)) /\ batch' = Balanced(batch)
        /\ results = Same(<<>>) /\ scores = Same(<<>>)
    BY DEF CallLogProb, evalVars, LockInv, JobInv, DataInv
  <1>2. \A r \in Ranks :
          /\ chunk'[r] = DispatchTo(batch', OwnChunk, Ranks)[r] /\ packs'[r] = chunk'[r]
          /\ stage'[r] = "eval" /\ at'[r] = "plan"
          /\ minis'[r] = <<Rows(Len(chunk'[r]))>>
    BY DEF CallLogProb, Same, DispatchTo
  <1>3. /\ batch' = Concat(PartsOf(job)) /\ Len(batch') = Len(job.uid)
        /\ Lists(batch', Len(job.uid), 1..Len(job.uid))
    BY <1>1, BalancedIs DEF Concat
  <1>4. ASSUME NEW r \in Ranks PROVE RankInv(r)'
    <2> DEFINE rows == Block(batch', SizeOf(job), r)
    <2>1. chunk'[r] = rows
      BY <1>1, <1>2, <1>3, DispatchedIs
    <2>2. Lists(rows, SizeOf(job), Members(rows))
      BY <1>1, <1>3, BlockDistinct
    <2>3. Len(rows) = SizeOf(job)
      BY <1>1, BlockLen
    <2>4. RowsInv(r)'
      BY <1>1, <1>2, <2>1, <2>2 DEF RowsInv, RowsAre
    <2> HIDE DEF rows
    <2>5. SlicesOf(pc', job') = <<Rows(SizeOf(job))>>
      BY <1>1, OneSlice
    <2>6. /\ minis'[r] = SlicesOf(pc', job') /\ results'[r] = <<>> /\ scores'[r] = <<>>
          /\ job' \in Jobs /\ job'.call # "validate" /\ pc' # "real"
      BY <1>1, <1>2, <2>1, <2>3, <2>5 DEF Same
    <2> QED
      BY <1>2, <2>4, <2>6, RankStarts
  <1>5. PerRank(results)' /\ PerRank(scores)'
    BY <1>1 DEF PerRank, Same
  <1> QED
    BY <1>1, <1>3, <1>4, <1>5 DEF DataInv, BatchInv, GenerateInv, ReturnedInOrder, Working

LEMMA DataCallUpdate == ASSUME LockInv, DataInv, CallUpdate PROVE DataInv'
  <1>1. /\ pc = "scored" /\ pc' = "update" /\ UNCHANGED <<job, batch, returned, results, scores>>
        /\ job \in Jobs /\ job.call = "grpo" /\ Len(batch) = Len(job.uid)
        /\ results = Same(<<>>) /\ BatchInv
    BY DEF CallUpdate, evalVars, LockInv, JobInv, DataInv
  <1>2. \A r \in Ranks :
          /\ chunk'[r] = DispatchTo(batch, OwnChunk, Ranks)[r] /\ packs'[r] = chunk'[r]
          /\ stage'[r] = "train" /\ at'[r] = "plan"
          /\ minis'[r] = MiniBatches(chunk'[r])
    BY DEF CallUpdate, Same, DispatchTo
  <1>3. ASSUME NEW r \in Ranks PROVE RankInv(r)'
    <2> DEFINE rows == Block(batch, SizeOf(job), r)
    <2>1. chunk'[r] = rows
      BY <1>1, <1>2, DispatchedIs
    <2>2. Lists(rows, SizeOf(job), Members(rows))
      BY <1>1, BlockDistinct DEF BatchInv
    <2>3. Len(rows) = SizeOf(job)
      BY <1>1, BlockLen
    <2>4. RowsInv(r)'
      BY <1>1, <1>2, <2>1, <2>2 DEF RowsInv, RowsAre
    <2> HIDE DEF rows
    <2>5. MiniBatches(rows) = SlicesOf(pc', job)
      BY <1>1, <2>3, EpochBegins
    <2>6. /\ minis'[r] = SlicesOf(pc', job') /\ results'[r] = <<>>
          /\ job' \in Jobs /\ job'.call # "validate" /\ pc' # "real"
      BY <1>1, <1>2, <2>1, <2>5 DEF Same
    <2> QED
      BY <1>2, <2>4, <2>6, RankStarts
  <1>4. PerRank(results)' /\ PerRank(scores)'
    BY <1>1 DEF PerRank, DataInv
  <1> QED
    BY <1>1, <1>3, <1>4 DEF DataInv, BatchInv, GenerateInv, ReturnedInOrder, Working

LEMMA DataReturn == ASSUME LockInv, DataInv, Return PROVE DataInv'
  <1>1. /\ pc \in {"real", "update"} /\ pc' = "returned" /\ AllIdle
        /\ UNCHANGED <<job, batch, returned, at, results, scores>>
    BY DEF Return, evalVars
  <1>2. (pc = "real" => job.call = "real") /\ AllIdle'
    BY <1>1 DEF LockInv, JobInv, AllIdle
  <1> QED
    BY <1>1, <1>2 DEF DataInv, BatchInv, GenerateInv, ReturnedInOrder, PerRank, Working

LEMMA DataStutter == ASSUME LockInv, DataInv, UNCHANGED vars PROVE DataInv'
  <1>1. UNCHANGED <<pc, job, batch, returned, at, stage, chunk, packs, minis, count, plan, done, results, scores>>
    BY DEF vars, driverVars, dataVars, loopVars, microVars, evalVars
  <1>2. \A r \in Ranks : RankInv(r) => RankInv(r)'
    BY <1>1, RankKept DEF Untouched
  <1> QED
    BY <1>1, <1>2 DEF DataInv, BatchInv, GenerateInv, ReturnedInOrder, PerRank, AllIdle

-----------------------------------------------------------------------------
(* Where the rows are: what the driver collects *)

LEMMA QuotientIs ==
  ASSUME NEW t \in Nat \ {0}, NEW x \in Nat
  PROVE  /\ x \div t \in Nat /\ x % t \in 0..(t - 1) /\ (x \div t) * t \in Nat
         /\ x = (x \div t) * t + (x % t)
  <1>1. x = t * (x \div t) + (x % t) /\ x \div t \in Nat /\ x % t \in 0..(t - 1)
    OBVIOUS
  <1>2. \A a, b \in Nat : a * b = b * a /\ b * a \in Nat
    OBVIOUS
  <1> DEFINE q == x \div t
             m == x % t
  <1>3. q \in Nat /\ m \in 0..(t - 1) /\ x = t * q + m
    BY <1>1
  <1> HIDE DEF q, m
  <1>4. t * q = q * t /\ q * t \in Nat
    BY <1>2, <1>3
  <1>5. q \in Nat /\ m \in 0..(t - 1) /\ q * t \in Nat /\ x = q * t + m
    BY <1>3, <1>4
  <1> QED
    BY <1>5 DEF q, m

\* The quotient is the only number that fits.
LEMMA QuotientOnly ==
  ASSUME NEW t \in Nat \ {0}, NEW x \in Nat, NEW q \in Nat, NEW m \in 0..(t - 1), x = q * t + m
  PROVE  x \div t = q /\ x % t = m
  <1> DEFINE p == x \div t
             l == x % t
             y == p * t
             z == q * t
  <1>1. p \in Nat /\ l \in 0..(t - 1) /\ y \in Nat /\ x = y + l
    BY QuotientIs
  <1>2. z \in Nat /\ x = z + m
    OBVIOUS
  <1>3. p < q => y + t <= z
    <2> HIDE DEF p
    <2> QED
      BY <1>1, BlockEnds
  <1>4. q < p => z + t <= y
    <2> HIDE DEF p
    <2> QED
      BY <1>1, BlockEnds
  <1>5. p = q => y = z
    OBVIOUS
  <1> HIDE DEF p, l, y, z
  <1>6. p = q
    BY <1>1, <1>2, <1>3, <1>4
  <1>7. l = m
    BY <1>1, <1>2, <1>5, <1>6
  <1> QED
    BY <1>6, <1>7 DEF p, l

\* Of t ranks with the same chunk the first answers.
Answers(g, c, m, t) ==
  [i \in 1..(m * t) |-> IF (i - 1) % t = 0 THEN Block(g, c, (i - 1) \div t) ELSE <<>>]

LEMMA AnswersJoin ==
  ASSUME NEW X, NEW t \in Nat \ {0}, NEW m \in Nat, NEW c \in Nat, NEW g \in [1..(m * c) -> X]
  PROVE  FlattenSeq(Answers(g, c, m, t)) = g
  <1> DEFINE k == m * t
             n == m * c
             q(i) == (i - 1) \div t
             b(i) == (i - 1) % t
             s == Answers(g, c, m, t)
             w(h) == h * c
             e == [i \in 0..k |-> IF i = 0 THEN 0 ELSE w(q(i) + 1)]
  <1>1. k \in Nat /\ n \in Nat
    OBVIOUS
  <1>2. ASSUME NEW i \in 1..k
        PROVE  /\ q(i) \in Nat /\ b(i) \in 0..(t - 1) /\ q(i) * t \in Nat /\ i - 1 = q(i) * t + b(i)
               /\ q(i) < m
    <2>1. i - 1 \in Nat
      BY <1>1
    <2>2. /\ q(i) \in Nat /\ b(i) \in 0..(t - 1) /\ q(i) * t \in Nat /\ i - 1 = q(i) * t + b(i)
      BY <2>1, QuotientIs
    <2>3. q(i) < m
      <3> SUFFICES ASSUME m <= q(i) PROVE FALSE
        BY <2>2
      <3> DEFINE a == q(i)
                 y == a * t
      <3>1. a \in Nat /\ m <= a /\ y \in Nat /\ i - 1 = y + b(i) /\ b(i) \in 0..(t - 1)
        BY <2>2
      <3> HIDE DEF a
      <3>2. k <= y
        <4>1. CASE m = a
          BY <1>1, <3>1, <4>1
        <4>2. CASE m < a
          <5>1. k + t <= y
            BY <3>1, <4>2, BlockEnds
          <5> HIDE DEF k, y
          <5> QED
            BY <1>1, <3>1, <5>1
        <4> QED
          BY <3>1, <4>1, <4>2
      <3> HIDE DEF k, y, b
      <3> QED
        BY <1>1, <3>1, <3>2
    <2> QED
      BY <2>2, <2>3
  <1>3. \A h \in Nat : w(h) \in Nat /\ w(h + 1) = w(h) + c
    <2> TAKE h \in Nat
    <2>1. (h + 1) * c = h * c + c /\ h * c \in Nat
      OBVIOUS
    <2> QED
      BY <2>1
  <1>4. \A h \in Nat : h < m => w(h) + c <= n
    BY BlockEnds
  <1>5. w(0) = 0 /\ w(m) = n
    OBVIOUS
  <1>6. \A h : Block(g, c, h) = [a \in 1..c |-> g[w(h) + a]]
    BY DEF Block
  <1>7. s = [i \in 1..k |-> IF b(i) = 0 THEN Block(g, c, q(i)) ELSE <<>>]
    BY DEF Answers
  <1>8. ASSUME NEW i \in 1..k, b(i) = 0 PROVE IF i = 1 THEN q(i) = 0 ELSE q(i - 1) + 1 = q(i)
    <2>1. CASE i = 1
      <3>1. i - 1 = 0 /\ 0 = 0 * t + 0 /\ 0 \in 0..(t - 1)
        BY <2>1
      <3>2. 0 \div t = 0
        BY <3>1, QuotientOnly
      <3> QED
        BY <2>1, <3>1, <3>2
    <2>2. CASE i # 1
      <3> DEFINE a == q(i)
                 y == a * t
      <3>1. a \in Nat /\ y \in Nat /\ i - 1 = y /\ i - 1 # 0 /\ i - 2 \in Nat /\ (i - 1) - 1 = i - 2
        BY <1>1, <1>2, <1>8, <2>2
      <3>2. a # 0
        BY <3>1
      <3> HIDE DEF a
      <3>3. a - 1 \in Nat /\ (a - 1) * t = y - t
        BY <3>1, <3>2
      <3> HIDE DEF y
      <3>4. i - 2 = (a - 1) * t + (t - 1) /\ t - 1 \in 0..(t - 1)
        BY <3>1, <3>3
      <3>5. (i - 2) \div t = a - 1
        <4> DEFINE x == i - 2
                   z == a - 1
                   l == t - 1
        <4>1. x \in Nat /\ z \in Nat /\ l \in 0..(t - 1) /\ x = z * t + l
          BY <3>1, <3>3, <3>4
        <4> HIDE DEF x, z, l
        <4>2. x \div t = z
          BY <4>1, QuotientOnly
        <4> QED
          BY <4>2 DEF x, z
      <3>6. q(i - 1) = a - 1
        BY <3>1, <3>5
      <3>7. q(i - 1) + 1 = a
        BY <3>1, <3>6
      <3> QED
        BY <2>2, <3>7 DEF a
    <2> QED
      BY <2>1, <2>2
  <1>9. ASSUME NEW i \in 1..k, b(i) # 0 PROVE i # 1 /\ q(i - 1) = q(i)
    <2> DEFINE a == q(i)
               y == a * t
               l == b(i)
    <2>1. a \in Nat /\ y \in Nat /\ i - 1 = y + l /\ l \in 1..(t - 1)
      BY <1>2, <1>9
    <2> HIDE DEF l, y, a
    <2>2. i # 1 /\ i - 2 \in Nat /\ i - 2 = y + (l - 1) /\ l - 1 \in 0..(t - 1) /\ (i - 1) - 1 = i - 2
      BY <1>1, <2>1
    <2> DEFINE x == i - 2
               z == l - 1
    <2>3. x \in Nat /\ z \in 0..(t - 1) /\ x = a * t + z
      BY <2>2 DEF y
    <2> HIDE DEF x, z
    <2>4. x \div t = a
      BY <2>1, <2>3, QuotientOnly
    <2> QED
      BY <2>2, <2>4 DEF x, a
  <1>10. e \in [0..k -> Nat] /\ e[0] = 0 /\ e[k] = n
    <2>1. \A i \in 1..k : w(q(i) + 1) \in Nat
      <3> TAKE i \in 1..k
      <3>1. q(i) + 1 \in Nat
        BY <1>2
      <3> HIDE DEF w, q
      <3> QED
        BY <1>3, <3>1
    <2>2. e \in [0..k -> Nat]
      BY <1>1, <2>1
    <2>3. e[0] = 0
      BY <1>1
    <2>4. CASE k = 0
      <3>1. m = 0
        <4> SUFFICES ASSUME m # 0 PROVE FALSE
          OBVIOUS
        <4>1. 0 < m /\ 0 * t = 0
          OBVIOUS
        <4>2. 0 * t + t <= m * t
          BY <4>1, BlockEnds
        <4> QED
          BY <2>4, <4>1, <4>2
      <3>2. n = 0
        BY <3>1
      <3> HIDE DEF e, n, k
      <3> QED
        BY <2>2, <2>3, <2>4, <3>2
    <2>5. CASE k # 0
      <3>1. m # 0 /\ m - 1 \in Nat /\ k - 1 \in Nat /\ k \in 1..k
        BY <1>1, <2>5
      <3>2. (m - 1) * t = k - t
        BY <3>1
      <3>3. k - 1 = (m - 1) * t + (t - 1) /\ t - 1 \in 0..(t - 1)
        BY <1>1, <3>2
      <3> DEFINE x == k - 1
                 z == m - 1
                 l == t - 1
      <3>4. x \in Nat /\ z \in Nat /\ l \in 0..(t - 1) /\ x = z * t + l
        BY <3>1, <3>3
      <3> HIDE DEF x, z, l
      <3>5. x \div t = z
        BY <3>4, QuotientOnly
      <3>6. q(k) + 1 = m
        BY <3>5 DEF x, z
      <3>7. e[k] = w(q(k) + 1)
        BY <2>5, <3>1
      <3> QED
        BY <1>5, <2>2, <2>3, <3>6, <3>7
    <2> QED
      BY <2>2, <2>3, <2>4, <2>5
  <1>11. ASSUME NEW i \in 1..k PROVE e[i] = w(q(i) + 1) /\ e[i - 1] = IF b(i) = 0 THEN w(q(i)) ELSE w(q(i) + 1)
    <2>1. i \in 0..k /\ i # 0 /\ i - 1 \in 0..k /\ (i # 1 => i - 1 # 0) /\ (i = 1 => i - 1 = 0)
      BY <1>1
    <2>2. e[i] = w(q(i) + 1)
      BY <2>1
    <2>3. e[i - 1] = IF i = 1 THEN 0 ELSE w(q(i - 1) + 1)
      BY <2>1
    <2>4. e[i - 1] = IF b(i) = 0 THEN w(q(i)) ELSE w(q(i) + 1)
      <3> HIDE DEF e, w, q, b
      <3> QED
        BY <1>5, <1>8, <1>9, <2>3
    <2> QED
      BY <2>2, <2>4
  <1>12. ASSUME NEW i \in 1..k PROVE e[i - 1] <= e[i] /\ s[i] = Piece(g, e[i - 1], e[i]) /\ s[i] \in Seq(X)
    <2> DEFINE h == q(i)
               y == w(h)
    <2>1. h \in Nat /\ h < m
      BY <1>2
    <2> HIDE DEF h
    <2>2. y \in Nat /\ w(h + 1) = y + c /\ y + c <= n
      BY <1>3, <1>4, <2>1
    <2>3. e[i] = y + c /\ e[i - 1] = IF b(i) = 0 THEN y ELSE y + c
      <3> HIDE DEF e, w, q, b
      <3> QED
        BY <1>11, <2>2 DEF h
    <2>4. s[i] = IF b(i) = 0 THEN [a \in 1..c |-> g[y + a]] ELSE <<>>
      BY <1>6, <1>7 DEF h
    <2> HIDE DEF y, e, s, b
    <2>5. CASE b(i) = 0
      <3>1. e[i - 1] = y /\ e[i] = y + c /\ (y + c) - y = c /\ y <= y + c
        BY <2>2, <2>3, <2>5
      <3>2. s[i] = Piece(g, e[i - 1], e[i])
        BY <2>4, <2>5, <3>1 DEF Piece
      <3>3. \A a \in 1..c : y + a \in 1..n
        <4> HIDE DEF n
        <4> QED
          BY <1>1, <2>2
      <3>4. s[i] \in [1..c -> X]
        BY <2>4, <2>5, <3>3
      <3>5. s[i] \in Seq(X)
        BY <3>4, EvaluatedIs
      <3> QED
        BY <3>1, <3>2, <3>5
    <2>6. CASE b(i) # 0
      <3>1. e[i - 1] = y + c /\ e[i] = y + c /\ (y + c) - (y + c) = 0 /\ y + c <= y + c
        BY <2>2, <2>3, <2>6
      <3>2. 1..0 = {} /\ s[i] = <<>>
        BY <2>4, <2>6
      <3>3. s[i] = Piece(g, e[i - 1], e[i])
        BY <3>1, <3>2 DEF Piece
      <3> QED
        BY <3>1, <3>2, <3>3
    <2> QED
      BY <2>5, <2>6
  <1>13. s \in [1..k -> Seq(X)]
    <2>1. s = [i \in 1..k |-> s[i]]
      BY <1>7
    <2> HIDE DEF s
    <2> QED
      BY <1>12, <2>1
  <1> HIDE DEF e, s, q, b, w, k, n
  <1>14. Pieces(s, g, e, k)
    BY <1>10, <1>12 DEF Pieces
  <1>15. FlattenSeq(s) = Prefix(g, e[k])
    BY <1>1, <1>13, <1>14, FlatCuts
  <1>16. g = [p \in 1..n |-> g[p]]
    BY DEF n
  <1> QED
    BY <1>10, <1>15, <1>16 DEF s, Prefix

LEMMA DataCollectLogProb ==
  ASSUME LockInv, DataInv, Collect, pc = "log_prob"
  PROVE  returned' = batch
  <1>1. /\ AllIdle /\ returned' = CollectFrom(scores, Same(TRUE), WorldSize)
        /\ job \in Jobs /\ job.call = "grpo"
        /\ Lists(batch, Len(job.uid), 1..Len(job.uid))
        /\ \A r \in Ranks : RankInv(r)
    BY DEF Collect, LockInv, JobInv, DataInv, BatchInv, Working
  <1> DEFINE c == SizeOf(job)
             u == Len(job.uid)
             g == batch
  <1>2. c \in Nat /\ u = WorldSize * c /\ g \in [1..u -> 1..u] /\ WorldSize \in Nat \ {0}
    BY <1>1, JobSizes, SizesNat DEF Lists
  <1>3. ASSUME NEW r \in Ranks PROVE scores[r] = Block(g, c, r)
    BY <1>1, <1>3 DEF AllIdle, RankInv, ScoresInv, RowsInv, RowsAre
  <1> HIDE DEF c, u
  <1>4. ASSUME NEW i \in 1..WorldSize PROVE i - 1 \in Ranks /\ (i - 1) % 1 = 0 /\ (i - 1) \div 1 = i - 1
    <2> DEFINE x == i - 1
    <2>1. x \in Nat /\ x \in 0..(WorldSize - 1)
      BY <1>2
    <2> HIDE DEF x
    <2>2. x = x * 1 + 0 /\ 0 \in 0..(1 - 1) /\ 1 \in Nat \ {0}
      BY <2>1
    <2>3. x \div 1 = x /\ x % 1 = 0
      BY <2>1, <2>2, QuotientOnly
    <2> QED
      BY <2>1, <2>3 DEF x, Ranks
  <1>5. [i \in 1..WorldSize |-> IF Same(TRUE)[i - 1] THEN scores[i - 1] ELSE <<>>] = Answers(g, c, WorldSize, 1)
    <2>1. WorldSize * 1 = WorldSize
      BY <1>2
    <2>2. \A i \in 1..WorldSize : Same(TRUE)[i - 1] = TRUE /\ scores[i - 1] = Block(g, c, i - 1)
      BY <1>3, <1>4 DEF Same
    <2>3. \A i \in 1..WorldSize : (IF Same(TRUE)[i - 1] THEN scores[i - 1] ELSE <<>>) = Block(g, c, i - 1)
      BY <2>2
    <2>4. \A i \in 1..WorldSize :
            (IF (i - 1) % 1 = 0 THEN Block(g, c, (i - 1) \div 1) ELSE <<>>) = Block(g, c, i - 1)
      BY <1>4
    <2>5. [i \in 1..WorldSize |-> IF Same(TRUE)[i - 1] THEN scores[i - 1] ELSE <<>>]
            = [i \in 1..WorldSize |-> Block(g, c, i - 1)]
      BY <2>3
    <2>6. Answers(g, c, WorldSize, 1) = [i \in 1..WorldSize |-> Block(g, c, i - 1)]
      BY <2>1, <2>4 DEF Answers
    <2> QED
      BY <2>5, <2>6
  <1>6. FlattenSeq(Answers(g, c, WorldSize, 1)) = g
    <2>1. g \in [1..(WorldSize * c) -> 1..u] /\ 1 \in Nat \ {0} /\ WorldSize \in Nat
      BY <1>2
    <2> QED
      BY <1>2, <2>1, AnswersJoin
  <1> QED
    BY <1>1, <1>5, <1>6 DEF CollectFrom, Concat

\* The padding makes the batch divisible.
LEMMA PadFits ==
  ASSUME NEW n \in Nat, NEW w \in Nat \ {0}
  PROVE  LET p == (w - (n % w)) % w IN p \in Nat /\ \E q \in Nat : n + p = q * w
  <1> DEFINE a == n \div w
             b == n % w
             x == w - b
             p == x % w
             y == a * w
  <1>1. a \in Nat /\ b \in 0..(w - 1) /\ y \in Nat /\ n = y + b
    BY QuotientIs
  <1> HIDE DEF a, b
  <1>2. CASE b = 0
    <2>1. x \in Nat /\ x = 1 * w + 0 /\ 0 \in 0..(w - 1) /\ 1 \in Nat
      BY <1>1, <1>2
    <2> HIDE DEF x
    <2>2. x % w = 0
      BY <2>1, QuotientOnly
    <2>3. a \in Nat /\ p \in Nat /\ n + p = a * w
      BY <1>1, <1>2, <2>2
    <2> QED
      BY <2>3 DEF x, b
  <1>3. CASE b # 0
    <2>1. x \in Nat /\ x = 0 * w + x /\ x \in 0..(w - 1) /\ 0 \in Nat /\ b + x = w
      BY <1>1, <1>3
    <2> HIDE DEF x
    <2>2. x % w = x
      BY <2>1, QuotientOnly
    <2>3. (a + 1) * w = y + w
      BY <1>1
    <2> HIDE DEF y
    <2>4. n + x = (a + 1) * w
      BY <1>1, <2>1, <2>3
    <2>5. a + 1 \in Nat /\ p \in Nat /\ n + p = (a + 1) * w
      BY <1>1, <2>1, <2>2, <2>4
    <2> QED
      BY <2>5 DEF x, b
  <1> QED
    BY <1>2, <1>3

\* Ranks that generate together.
LEMMA GenerationSize ==
         /\ WorldSize \div TensorParallel \in Nat \ {0}
         /\ WorldSize = (WorldSize \div TensorParallel) * TensorParallel
         /\ Cardinality({GenerationRank[r] : r \in Ranks}) = WorldSize \div TensorParallel
         /\ \A r \in Ranks : r \div TensorParallel \in 0..((WorldSize \div TensorParallel) - 1)
  <1> DEFINE t == TensorParallel
             w == WorldSize
             m == w \div t
  <1>1. w \in Nat \ {0} /\ t \in Nat \ {0} /\ w % t = 0
    BY WorkerCallAssumption
  <1> HIDE DEF w, t
  <1>2. m \in Nat /\ w = m * t
    BY <1>1, Divides
  <1> HIDE DEF m
  <1>3. m # 0
    <2> SUFFICES ASSUME m = 0 PROVE FALSE
      OBVIOUS
    <2>1. 0 * t = 0
      BY <1>1
    <2> QED
      BY <1>1, <1>2, <2>1
  <1>4. ASSUME NEW r \in 0..(w - 1) PROVE r \div t \in 0..(m - 1)
    <2> DEFINE q == r \div t
               y == q * t
    <2>1. r \in Nat /\ r < w
      BY <1>1
    <2>2. q \in Nat /\ y \in Nat /\ r % t \in 0..(t - 1) /\ r = y + (r % t)
      BY <1>1, <2>1, QuotientIs
    <2>3. y <= r
      <3> DEFINE l == r % t
      <3>1. l \in Nat /\ r = y + l
        BY <1>1, <2>2
      <3> HIDE DEF l, y
      <3> QED
        BY <2>1, <2>2, <3>1
    <2> HIDE DEF q
    <2>4. q < m
      <3> SUFFICES ASSUME m <= q PROVE FALSE
        BY <1>2, <2>2
      <3>1. CASE m = q
        <4>1. y = w
          BY <1>2, <3>1
        <4> HIDE DEF y
        <4> QED
          BY <1>1, <2>1, <2>3, <4>1
      <3>2. CASE m < q
        <4>1. w + t <= y
          BY <1>1, <1>2, <2>2, <3>2, BlockEnds
        <4> HIDE DEF y
        <4> QED
          BY <1>1, <2>1, <2>2, <2>3, <4>1
      <3> QED
        BY <1>2, <2>2, <3>1, <3>2
    <2> QED
      BY <1>2, <2>2, <2>4 DEF q
  <1>5. ASSUME NEW q \in 0..(m - 1) PROVE \E r \in 0..(w - 1) : r \div t = q
    <2> DEFINE r == q * t
    <2>1. r + t <= w /\ r \in Nat
      BY <1>1, <1>2, BlockEnds
    <2>2. r = q * t + 0 /\ 0 \in 0..(t - 1) /\ q \in Nat
      BY <1>1, <1>2
    <2> HIDE DEF r
    <2>3. r \div t = q
      BY <1>1, <2>1, <2>2, QuotientOnly
    <2>4. r \in 0..(w - 1)
      BY <1>1, <2>1
    <2> QED
      BY <2>3, <2>4
  <1>6. {r \div t : r \in 0..(w - 1)} = 0..(m - 1)
    <2>1. \A q : q \in {r \div t : r \in 0..(w - 1)} <=> q \in 0..(m - 1)
      BY <1>4, <1>5
    <2> QED
      BY <2>1
  <1>7. Cardinality(0..(m - 1)) = m
    <2>1. 0 \in Int /\ m - 1 \in Int /\ 0 <= m - 1 /\ (m - 1) - 0 + 1 = m
      BY <1>2, <1>3
    <2> QED
      BY <2>1, FS_Interval
  <1>8. {GenerationRank[r] : r \in Ranks} = {r \div t : r \in 0..(w - 1)}
    BY DEF GenerationRank, Ranks, t, w
  <1> QED
    BY <1>2, <1>3, <1>4, <1>6, <1>7, <1>8 DEF m, w, t, Ranks

\* In validation a padded row for every place, and its answers in the batch's order.
LEMMA DataCollectGenerate ==
  ASSUME LockInv, DataInv, Collect, pc = "generate"
  PROVE  returned' = batch
  <1> DEFINE n == Len(batch)
             p == PadSize(batch, WorldSize)
             t == [i \in 1..p |-> batch[((i - 1) % n) + 1]]
             g == batch \o t
             m == WorldSize \div TensorParallel
             u == 1..n
  <1>1. /\ AllIdle /\ returned' = Unpad(CollectFrom(scores, GenerationCollects, WorldSize), p)
        /\ job \in Jobs
        /\ \A r \in Ranks : scores[r] = DispatchTo(g, GenerationRank, Ranks)[r]
    BY DEF Collect, LockInv, JobInv, DataInv, GenerateInv, AllIdle, PadToDivisor
  <1>2. n \in Nat \ {0} /\ batch \in Seq(u) /\ \A i \in 1..n : batch[i] \in u
    <2>1. Len(batch) = Len(job.uid) /\ Len(job.uid) \in Nat \ {0} /\ Lists(batch, Len(job.uid), 1..Len(job.uid))
      BY JobRows DEF LockInv, JobInv, DataInv, BatchInv
    <2>2. batch \in [1..n -> 1..n]
      BY <2>1 DEF Lists
    <2> QED
      BY <2>1, <2>2, EvaluatedIs
  <1>3. p \in Nat /\ \E q \in Nat : n + p = q * WorldSize
    BY <1>2, SizesNat, PadFits DEF PadSize
  <1> HIDE DEF p
  <1>4. t \in Seq(u) /\ Len(t) = p
    <2>1. \A i \in 1..p : ((i - 1) % n) + 1 \in 1..n
      <3> TAKE i \in 1..p
      <3>1. i - 1 \in Nat
        BY <1>3
      <3>2. (i - 1) % n \in 0..(n - 1)
        BY <1>2, <3>1, QuotientIs
      <3> DEFINE x == (i - 1) % n
      <3> HIDE DEF x, n
      <3>3. x \in 0..(n - 1)
        BY <3>2 DEF x
      <3>4. x + 1 \in 1..n
        BY <1>2, <3>3
      <3> QED
        BY <3>4 DEF x
    <2>2. t \in [1..p -> u]
      BY <1>2, <2>1
    <2> QED
      BY <1>3, <2>2, EvaluatedIs
  <1>5. g \in Seq(u) /\ Len(g) = n + p
    <2>1. batch \in Seq(u) /\ t \in Seq(u) /\ Len(batch) = n /\ Len(t) = p
      BY <1>2, <1>4
    <2> HIDE DEF t, n, u
    <2> QED
      BY <2>1
  <1>6. /\ m \in Nat \ {0} /\ WorldSize = m * TensorParallel /\ TensorParallel \in Nat \ {0}
        /\ Cardinality({GenerationRank[r] : r \in Ranks}) = m
        /\ \A r \in Ranks : r \div TensorParallel \in 0..(m - 1)
    BY GenerationSize, WorkerCallAssumption
  <1> HIDE DEF t, g, n, u, m
  <1>7. PICK q \in Nat : n + p = q * WorldSize
    BY <1>3
  <1> DEFINE c == q * TensorParallel
  <1>8. c \in Nat /\ Len(g) = m * c /\ Len(g) \in Nat /\ Len(g) \div m = c
    <2>1. c \in Nat /\ c * m = q * WorldSize /\ m * c = c * m
      <3>1. \A x, y, z \in Nat : (x * y) * z = x * (z * y) /\ z * y \in Nat /\ x * y \in Nat /\ z * y = y * z
        OBVIOUS
      <3> QED
        BY <1>6, <1>7, <3>1
    <2> HIDE DEF c
    <2>2. Len(g) = c * m /\ Len(g) \in Nat
      BY <1>2, <1>3, <1>5, <1>7, <2>1
    <2> DEFINE x == Len(g)
    <2>3. x \in Nat /\ x = c * m + 0 /\ 0 \in 0..(m - 1)
      BY <1>6, <2>1, <2>2
    <2> HIDE DEF x
    <2>4. x \div m = c
      BY <1>6, <2>1, <2>3, QuotientOnly
    <2> QED
      BY <2>1, <2>2, <2>4 DEF x
  <1> HIDE DEF c
  <1>9. ASSUME NEW r \in Ranks PROVE scores[r] = Block(g, c, r \div TensorParallel)
    <2> DEFINE h == r \div TensorParallel
    <2>1. DispatchTo(g, GenerationRank, Ranks)[r] = Chunk(g, m)[h + 1]
      BY <1>6 DEF DispatchTo, GenerationRank
    <2>2. h \in 0..(m - 1)
      BY <1>6
    <2> HIDE DEF h
    <2>3. h + 1 \in 1..m /\ (h + 1) - 1 = h
      BY <1>6, <2>2
    <2>4. Chunk(g, m)[h + 1] = Block(g, Len(g) \div m, (h + 1) - 1)
      BY <1>6, <1>8, <2>3, ChunkIs
    <2> QED
      BY <1>1, <1>8, <2>1, <2>3, <2>4 DEF h
  <1> DEFINE answers == [i \in 1..WorldSize |-> IF GenerationCollects[i - 1] THEN scores[i - 1] ELSE <<>>]
  <1>10. answers = Answers(g, c, m, TensorParallel)
    <2>1. \A i \in 1..WorldSize : i - 1 \in Ranks
      BY SizesNat DEF Ranks
    <2>2. \A i \in 1..WorldSize : /\ GenerationCollects[i - 1] = ((i - 1) % TensorParallel = 0)
                                  /\ scores[i - 1] = Block(g, c, (i - 1) \div TensorParallel)
      BY <1>9, <2>1 DEF GenerationCollects
    <2>3. answers = [i \in 1..WorldSize |-> IF (i - 1) % TensorParallel = 0
                                            THEN Block(g, c, (i - 1) \div TensorParallel) ELSE <<>>]
      BY <2>2
    <2> QED
      BY <1>6, <2>3 DEF Answers
  <1>11. FlattenSeq(answers) = g
    <2>1. g \in [1..(m * c) -> u]
      BY <1>5, <1>8
    <2> HIDE DEF answers
    <2>2. FlattenSeq(Answers(g, c, m, TensorParallel)) = g
      BY <1>6, <1>8, <2>1, AnswersJoin
    <2> QED
      BY <1>10, <2>2
  <1>12. returned' = Unpad(g, p)
    BY <1>1, <1>11 DEF CollectFrom, Concat
  <1>13. Unpad(batch \o t, Len(t)) = batch
    BY <1>2, <1>4, UnpadIs
  <1> QED
    BY <1>4, <1>12, <1>13 DEF g

LEMMA DataCollect == ASSUME LockInv, DataInv, Collect PROVE DataInv'
  <1>1. /\ pc \in {"generate", "log_prob"} /\ AllIdle /\ pc' = IF pc = "generate" THEN "returned" ELSE "scored"
        /\ UNCHANGED <<job, batch, at, results, scores>>
    BY DEF Collect, evalVars
  <1>2. returned' = batch
    BY <1>1, DataCollectLogProb, DataCollectGenerate
  <1>3. pc = "log_prob" => results = Same(<<>>)
    <2> SUFFICES ASSUME pc = "log_prob" PROVE results = Same(<<>>)
      OBVIOUS
    <2>1. \A r \in Ranks : results[r] = <<>>
      BY <1>1 DEF DataInv, RankInv, ResultsInv, AllIdle, Working, Planned
    <2> QED
      BY <2>1 DEF DataInv, PerRank, Same
  <1>4. AllIdle'
    BY <1>1 DEF AllIdle
  <1> QED
    BY <1>1, <1>2, <1>3, <1>4 DEF DataInv, BatchInv, GenerateInv, ReturnedInOrder, PerRank, Working

LEMMA DataNext == ASSUME LockInv, DataInv, [Next]_vars PROVE DataInv'
  <1>1. ASSUME NEW r \in Ranks, Generate(r) \/ Plan(r) \/ Arrange(r) \/ Gather(r) \/ ComputeAdvantages(r)
        PROVE  DataInv'
    BY <1>1, DataGenerate, DataPlan, DataArrange, DataGather, DataComputeAdvantages
  <1>2. CASE CallGenerate \/ CallReal \/ CallLogProb \/ CallUpdate \/ Collect \/ Return
    BY <1>2, DataCallGenerate, DataCallReal, DataCallLogProb, DataCallUpdate, DataCollect, DataReturn
  <1>3. CASE ReduceCount \/ CompareCounts \/ Forward \/ Step
    BY <1>3, DataReduceCount, DataCompareCounts, DataForward, DataOptimizerStep
  <1>4. CASE Finished \/ UNCHANGED vars
    BY <1>4, DataStutter DEF Finished
  <1> QED
    BY <1>1, <1>2, <1>3, <1>4 DEF Next

\* Whatever the batch, the padding, the chunks and the lengths of the rows, a call
\* of validation or of the log probabilities answers every row of the driver's
\* batch once and in its order, and the update of GRPO that follows has them so.
THEOREM ReturnedInOrderCorrect == Spec => []ReturnedInOrder
  <1>1. Init => LockInv /\ DataInv
    BY LockInit, DataInit
  <1>2. (LockInv /\ DataInv) /\ [Next]_vars => (LockInv /\ DataInv)'
    BY LockNext, DataNext
  <1>3. DataInv => ReturnedInOrder
    BY DEF DataInv
  <1> QED
    BY <1>1, <1>2, <1>3, PTL DEF Spec

-----------------------------------------------------------------------------
(* Micro-batches and balanced parts *)

\* The longest and the shortest of some rows.
LEMMA LensBounds ==
  ASSUME NEW n \in Nat \ {0}, NEW l \in [1..n -> Nat], NEW m \in Nat, \A i \in 1..n : l[i] <= m
  PROVE  /\ Max(ToSet(l)) \in Nat /\ \A i \in 1..n : l[i] <= Max(ToSet(l))
         /\ Min(ToSet(l)) \in Nat /\ \A i \in 1..n : Min(ToSet(l)) <= l[i]
         /\ Min(ToSet(l)) <= Max(ToSet(l))
  <1> DEFINE T == ToSet(l)
  <1>1. \A i \in 1..n : l[i] \in T
    BY DEF ToSet
  <1>2. T \subseteq 0..m /\ T \subseteq Nat
    BY DEF ToSet
  <1>3. 1 \in 1..n
    OBVIOUS
  <1> HIDE DEF T
  <1>4. T # {}
    BY <1>1, <1>3
  <1>5. Max(T) \in T /\ \A y \in T : y <= Max(T)
    BY <1>2, <1>4, GreatestElement
  <1>6. \E x \in T : \A y \in T : x <= y
    BY <1>2, <1>4, LeastElement
  <1>7. Min(T) \in T /\ \A y \in T : Min(T) <= y
    BY <1>6 DEF Min
  <1> QED
    BY <1>1, <1>2, <1>5, <1>7 DEF T

\* No micro-batch is empty, none is ahead of another by more than the longest row,
\* and together they have room for all tokens.
LEMMA MicroBatchesBalanced ==
  ASSUME LockInv, DataInv, NEW r \in Ranks, at[r] \in {"minmax", "forward"}
  PROVE  /\ Tokens(MiniLens(r), Rows(Len(MiniLens(r)))) <= Len(plan[r]) * MaxTokenLen
         /\ \A m, k \in DOMAIN plan[r] :
              /\ plan[r][m] # <<>>
              /\ Tokens(MiniLens(r), plan[r][m]) - Tokens(MiniLens(r), plan[r][k])
                   <= Max(ToSet(MiniLens(r)))
  <1>1. pc \in Working
    BY InCall DEF Idle
  <1>2. RankInv(r) /\ RankAt(r)
    BY <1>1, JobOfCall DEF Busy
  <1>3. PlanAt(r)
    BY <1>2, PlanFacts DEF Planned
  <1> DEFINE n == Len(Mini(r))
             l == MiniLens(r)
             c == count[r]
             d == Max(ToSet(l))
  <1>4. n \in Nat \ {0} /\ l \in [1..n -> Nat \ {0}] /\ SpreadBound(l, n, FALSE, MaxTokenLen) /\ MaxTokenLen \in Nat
    BY <1>2, WorkerCallAssumption DEF RankAt
  <1>5. plan[r] = MicroBatches(l, c) /\ c \in 1..n /\ Weight(l, 1..n) <= c * MaxTokenLen
    BY <1>2, MiniLensIs DEF RankInv, PlanInv, CountInv, Enough, Planned, Counted
  <1>6. DOMAIN plan[r] = 1..c /\ \A i \in 1..c : plan[r][i] # <<>>
    BY <1>3 DEF PlanAt, Partitions
  <1>9. Len(l) = n /\ Len(plan[r]) = c
    <2>1. plan[r] = [m \in 1..c |-> plan[r][m]]
      BY <1>5 DEF MicroBatches
    <2>2. l = [p \in 1..n |-> l[p]] /\ c \in Nat
      BY <1>4, <1>5
    <2> HIDE DEF n, l, c
    <2> QED
      BY <1>4, <2>1, <2>2, FunctionLength
  <1> HIDE DEF n, l, c
  <1>7. d \in Nat /\ SpreadBound(l, n, FALSE, d)
    <2>1. l \in [1..n -> Nat] /\ \A a \in 1..n : l[a] <= MaxTokenLen
      BY <1>4 DEF SpreadBound
    <2>2. d \in Nat /\ \A a \in 1..n : l[a] <= d
      BY <1>4, <2>1, LensBounds
    <2> QED
      BY <2>2 DEF SpreadBound
  <1> HIDE DEF d
  <1>8. TokensWithin(l, plan[r], c, d)
    BY <1>4, <1>5, <1>7, MicroBatchesCorrect
  <1>10. Tokens(l, Rows(n)) <= c * MaxTokenLen
    BY <1>4, <1>5, AllTokens
  <1>11. ASSUME NEW m \in 1..c, NEW k \in 1..c
         PROVE  Tokens(l, plan[r][m]) - Tokens(l, plan[r][k]) <= d
    <2> DEFINE a == Tokens(l, plan[r][m])
               b == Tokens(l, plan[r][k])
    <2>1. a \in Nat /\ b \in Nat /\ a <= b + d
      BY <1>8 DEF TokensWithin
    <2> HIDE DEF a, b
    <2>2. a - b <= d
      BY <1>7, <2>1
    <2> QED
      BY <2>2 DEF a, b
  <1> QED
    BY <1>6, <1>9, <1>10, <1>11 DEF l, d

\* A rank's chunk is its part of the balanced batch.
LEMMA ChunkIsPart ==
  ASSUME NEW j \in Jobs, j.call = "grpo", NEW b, b = Concat(PartsOf(j)), NEW r \in Ranks
  PROVE  Block(b, SizeOf(j), r) = PartsOf(j)[r + 1]
  <1> DEFINE P == PartsOf(j)
             n == Len(j.uid)
             z == SizeOf(j)
             w == WorldSize
             c == Len(P[1])
  <1>1. Partitions(P, n, w) /\ SameSize(P, w)
    BY RowsWithinAny, BalancedParts
  <1>2. n \in Nat /\ z \in Nat \ {0} /\ n = z * w /\ w \in Nat \ {0}
    BY JobRows, JobSizes, SizesNat
  <1> HIDE DEF P, n, z, w
  <1>3. P \in [1..w -> Seq(1..n)] /\ 1 \in 1..w
    BY <1>1, <1>2 DEF Partitions
  <1>4. c \in Nat /\ \A i \in 1..w : Len(P[i]) = c
    BY <1>1, <1>3 DEF SameSize
  <1> HIDE DEF c
  <1>5. /\ Len(FlattenSeq(P)) = w * c
        /\ \A g \in 0..(w - 1) : \A a \in 1..c : FlattenSeq(P)[g * c + a] = P[g + 1][a]
    <2> DEFINE X == 1..n
    <2>1. w \in Nat /\ P \in [1..w -> Seq(X)] /\ c \in Nat /\ \A i \in 1..w : Len(P[i]) = c
      BY <1>2, <1>3, <1>4
    <2> HIDE DEF X
    <2>2. InTurn(FlattenSeq(P), P, w, c)
      BY <2>1, FlatBlocks
    <2> QED
      BY <2>2 DEF InTurn
  <1>6. Len(FlattenSeq(P)) = n
    BY <1>1, <1>2, PartitionsConcat
  <1>7. z = c
    <2>1. z * w = c * w
      BY <1>2, <1>4, <1>5, <1>6
    <2>2. z < c => z * w + w <= c * w
      BY <1>2, <1>4, BlockEnds
    <2>3. c < z => c * w + w <= z * w
      BY <1>2, <1>4, BlockEnds
    <2> DEFINE x == z * w
               y == c * w
    <2>4. x \in Nat /\ y \in Nat
      BY <1>2, <1>4
    <2>5. x = y /\ (z < c => x + w <= y) /\ (c < z => y + w <= x)
      BY <2>1, <2>2, <2>3
    <2> HIDE DEF x, y
    <2> QED
      BY <1>2, <1>4, <2>4, <2>5
  <1>8. r \in 0..(w - 1) /\ r + 1 \in 1..w
    BY <1>2 DEF Ranks, w
  <1>9. P[r + 1] = [a \in 1..z |-> P[r + 1][a]]
    <2>1. P[r + 1] \in Seq(1..n) /\ Len(P[r + 1]) = z
      BY <1>3, <1>4, <1>7, <1>8
    <2> DEFINE f == P[r + 1]
    <2> HIDE DEF f
    <2>2. f \in Seq(1..n) /\ Len(f) = z
      BY <2>1 DEF f
    <2>3. f = [a \in 1..z |-> f[a]]
      BY <2>2
    <2> QED
      BY <2>3 DEF f
  <1>10. Block(b, z, r) = [a \in 1..z |-> P[r + 1][a]]
    <2>1. \A a \in 1..z : b[r * z + a] = P[r + 1][a]
      BY <1>5, <1>7, <1>8 DEF Concat, P
    <2> QED
      BY <2>1 DEF Block
  <1> QED
    BY <1>9, <1>10 DEF P, z

\* After balancing two ranks' tokens are no further apart than two rows.
LEMMA RanksBalanced ==
  ASSUME LockInv, DataInv, pc = "log_prob", NEW r \in Ranks, NEW s \in Ranks
  PROVE  Tokens(job.len, chunk[r]) - Tokens(job.len, chunk[s]) <= Max(ToSet(job.len)) - Min(ToSet(job.len))
  <1> DEFINE n == Len(job.uid)
             l == job.len
             x == Max(ToSet(l))
             y == Min(ToSet(l))
             P == PartsOf(job)
  <1>1. job \in Jobs /\ job.call = "grpo" /\ batch = Concat(P) /\ RankInv(r) /\ RankInv(s)
    BY DEF LockInv, JobInv, DataInv, BatchInv, Working
  <1>2. chunk[r] = P[r + 1] /\ chunk[s] = P[s + 1]
    BY <1>1, ChunkIsPart DEF RankInv, RowsInv, RowsAre
  <1>3. n \in Nat \ {0} /\ l \in [1..n -> Nat \ {0}] /\ \A i \in 1..n : l[i] <= MaxTokenLen
    <2>1. l \in Seq(1..MaxTokenLen) /\ n = Len(l) /\ MaxTokenLen \in Nat
      BY <1>1, WorkerCallAssumption
    <2>2. \A i \in 1..Len(l) : l[i] \in 1..MaxTokenLen
      BY <2>1
    <2>3. \A i \in 1..n : l[i] <= MaxTokenLen
      BY <2>1, <2>2
    <2> QED
      BY <1>1, <2>3, JobRows
  <1> HIDE DEF n, l
  <1>4. /\ x \in Nat /\ \A i \in 1..n : l[i] <= x
        /\ y \in Nat /\ \A i \in 1..n : y <= l[i]
        /\ y <= x
    <2>1. l \in [1..n -> Nat] /\ MaxTokenLen \in Nat
      BY <1>3, WorkerCallAssumption
    <2> QED
      BY <1>3, <2>1, LensBounds
  <1> HIDE DEF x, y
  <1> DEFINE d == x - y
  <1>5. d \in Nat /\ \A i, k \in 1..n : l[i] <= l[k] + d
    <2>1. d \in Nat
      BY <1>4
    <2>2. ASSUME NEW i \in 1..n, NEW k \in 1..n PROVE l[i] <= l[k] + d
      <3> DEFINE a == l[i]
                 b == l[k]
      <3>1. a \in Nat /\ b \in Nat /\ a <= x /\ y <= b
        BY <1>3, <1>4
      <3> HIDE DEF a, b
      <3>2. a <= b + d
        BY <1>4, <3>1
      <3> QED
        BY <3>2 DEF a, b
    <2> QED
      BY <2>1, <2>2
  <1> HIDE DEF d
  <1>6. RowsWithin(job, d)
    BY <1>5 DEF RowsWithin, SpreadBound, n, l
  <1>7. TokensWithin(job.len, P, WorldSize, d)
    BY <1>1, <1>5, <1>6, BalancedParts
  <1>8. r + 1 \in 1..WorldSize /\ s + 1 \in 1..WorldSize
    BY SizesNat DEF Ranks
  <1> DEFINE a == Tokens(job.len, chunk[r])
             b == Tokens(job.len, chunk[s])
  <1>9. a \in Nat /\ b \in Nat /\ a <= b + d
    BY <1>2, <1>7, <1>8 DEF TokensWithin
  <1> HIDE DEF a, b
  <1>10. a - b <= d
    BY <1>5, <1>9
  <1> QED
    BY <1>10 DEF a, b, d, x, y, l

\* For rows of any lengths, no micro-batch is empty, two of them differ by no more
\* tokens than the longest row of the mini-batch has, and on average they have no
\* more than ppo_max_token_len_per_gpu; and the chunks of the balanced batch differ
\* by no more tokens than its longest row from its shortest.
THEOREM PartsBalancedCorrect == Spec => []PartsBalanced
  <1>1. Init => LockInv /\ DataInv
    BY LockInit, DataInit
  <1>2. (LockInv /\ DataInv) /\ [Next]_vars => (LockInv /\ DataInv)'
    BY LockNext, DataNext
  <1>3. LockInv /\ DataInv => PartsBalanced
    <2> SUFFICES ASSUME LockInv, DataInv PROVE PartsBalanced
      OBVIOUS
    <2> QED
      BY MicroBatchesBalanced, RanksBalanced DEF PartsBalanced
  <1> QED
    BY <1>1, <1>2, <1>3, PTL DEF Spec

-----------------------------------------------------------------------------
(* What is trained: the third invariant *)

\* What a row is trained with.
Pairs(inputs, adv, n) == [a \in 1..n |-> [row |-> inputs[a], advantage |-> adv[a]]]

\* The gradient holds the rows of the micro-batches seen since zero_grad.
GradientInv(r) ==
  gradient[r] = IF at[r] \in Planned /\ stage[r] = "train"
                THEN SeenRows(Pairs(packs[r], advantage[r], SizeOf(job)), Mini(r), plan[r], done[r]) ELSE <<>>

\* How often a row was trained on: once in every epoch before, and once in
\* this one when its place is among the first x.
Trips(e, p, x) == (Epochs - e) + (IF p <= x THEN 1 ELSE 0)

TrainedInv(r) ==
  /\ trained[r] \in Seq(Members(chunk[r]))
  /\ stage[r] = "eval" => trained[r] = <<>>
  /\ stage[r] = "train" /\ at[r] \in Busy =>
       /\ epoch[r] \in 1..Epochs
       /\ \A p \in 1..SizeOf(job) :
            Times(packs[r][p], trained[r]) = Trips(epoch[r], p, EndIn(pc, job, Turn(r)))
  /\ stage[r] = "train" /\ at[r] = "idle" =>
       \A p \in 1..SizeOf(job) : Times(packs[r][p], trained[r]) = Epochs
  /\ at[r] = "idle" /\ pc = "real" => stage[r] = "train"

TrainInv ==
  /\ PerRank(gradient) /\ PerRank(trained)
  /\ pc \notin Working => gradient = Same(<<>>)
  /\ pc \notin Working \cup {"returned"} => trained = Same(<<>>)
  /\ pc \in Working => \A r \in Ranks : GradientInv(r) /\ TrainedInv(r)
  /\ pc = "returned" /\ job.call # "validate" =>
       \A i \in DOMAIN batch :
         Times(batch[i], Concat([w \in 1..WorldSize |-> trained[w - 1]])) = Epochs

-----------------------------------------------------------------------------
(* How often a row occurs *)

Places(x, s) == {i \in DOMAIN s : s[i] = x}

LEMMA TimesIs ==
  ASSUME NEW X, NEW s \in Seq(X), NEW x
  PROVE  /\ Times(x, s) = Cardinality(Places(x, s)) /\ Places(x, s) \subseteq 1..Len(s)
         /\ IsFiniteSet(Places(x, s)) /\ Times(x, s) \in Nat
  <1>1. Places(x, s) \subseteq 1..Len(s) /\ Len(s) \in Nat
    BY DEF Places
  <1>2. IsFiniteSet(1..Len(s))
    BY <1>1, FS_Interval
  <1>3. IsFiniteSet(Places(x, s))
    BY <1>1, <1>2, FS_Subset
  <1>4. Times(x, s) = Cardinality(Places(x, s))
    BY DEF Times, Places
  <1>5. Cardinality(Places(x, s)) \in Nat
    BY <1>3, FS_CardinalityType
  <1> QED
    BY <1>1, <1>3, <1>4, <1>5

LEMMA TimesNone ==
  ASSUME NEW X, NEW s \in Seq(X), NEW x, x \notin X
  PROVE  Times(x, s) = 0
  <1>1. \A i \in DOMAIN s : s[i] \in X
    OBVIOUS
  <1>2. Places(x, s) = {}
    BY <1>1 DEF Places
  <1>3. Cardinality({}) = 0
    BY FS_EmptySet
  <1> QED
    BY <1>2, <1>3, TimesIs

LEMMA TimesEmpty == \A x : Times(x, <<>>) = 0
  <1>1. DOMAIN <<>> = {}
    OBVIOUS
  <1>2. \A x : {i \in {} : <<>>[i] = x} = {}
    OBVIOUS
  <1>3. Cardinality({}) = 0
    BY FS_EmptySet
  <1> QED
    BY <1>1, <1>2, <1>3 DEF Times

LEMMA TimesOne ==
  ASSUME NEW X, NEW s \in Seq(X), NEW x, NEW i \in 1..Len(s), s[i] = x, \A k \in 1..Len(s) : s[k] = x => k = i
  PROVE  Times(x, s) = 1
  <1>1. DOMAIN s = 1..Len(s)
    OBVIOUS
  <1>2. Places(x, s) = {i}
    BY <1>1 DEF Places
  <1>3. Cardinality({i}) = 1
    BY FS_Singleton
  <1> QED
    BY <1>2, <1>3, TimesIs

LEMMA TimesAdd ==
  ASSUME NEW X, NEW a \in Seq(X), NEW b \in Seq(X), NEW x
  PROVE  a \o b \in Seq(X) /\ Times(x, a \o b) = Times(x, a) + Times(x, b)
  <1> DEFINE c == a \o b
             m == Len(a)
             n == Len(b)
             A == Places(x, a)
             B == Places(x, b)
             C == Places(x, c)
             D == {i \in C : i > m}
  <1>1. /\ c \in Seq(X) /\ Len(c) = m + n /\ m \in Nat /\ n \in Nat
        /\ \A i \in 1..m : c[i] = a[i]
        /\ \A i \in 1..n : c[m + i] = b[i]
    OBVIOUS
  <1>2. DOMAIN a = 1..m /\ DOMAIN b = 1..n /\ DOMAIN c = 1..(m + n)
    BY <1>1
  <1> HIDE DEF c, m, n
  <1>3. A \cup D = C /\ A \cap D = {}
    <2>1. \A i : i \in C /\ ~(i > m) <=> i \in A
      BY <1>1, <1>2 DEF Places
    <2>2. \A i \in A : i \in 1..m
      BY <1>2 DEF Places
    <2>3. \A i \in A : ~(i > m)
      BY <1>1, <2>2
    <2> HIDE DEF A, C
    <2> QED
      BY <2>1, <2>3
  <1>4. ExistsBijection(B, D)
    <2> DEFINE f == [i \in B |-> m + i]
    <2>1. \A i \in B : i \in 1..n /\ b[i] = x
      BY <1>2 DEF Places
    <2>2. \A i \in B : m + i \in 1..(m + n) /\ m + i > m /\ c[m + i] = x
      BY <1>1, <2>1
    <2>3. f \in [B -> D]
      BY <1>2, <2>2 DEF Places
    <2>4. \A i, k \in B : f[i] = f[k] => i = k
      BY <1>1, <2>1
    <2>5. \A k \in D : \E i \in B : f[i] = k
      <3> TAKE k \in D
      <3>1. k \in 1..(m + n) /\ k > m /\ c[k] = x
        BY <1>2 DEF Places
      <3>2. k - m \in 1..n /\ m + (k - m) = k
        BY <1>1, <3>1
      <3>3. b[k - m] = x
        BY <1>1, <3>1, <3>2
      <3>4. k - m \in B
        BY <1>2, <3>2, <3>3 DEF Places
      <3> QED
        BY <3>2, <3>4
    <2> HIDE DEF f, B, D
    <2>6. f \in Bijection(B, D)
      BY <2>3, <2>4, <2>5 DEF Bijection, Injection, Surjection, IsInjective
    <2> QED
      BY <2>6 DEF ExistsBijection
  <1>5. /\ IsFiniteSet(A) /\ IsFiniteSet(B) /\ Times(x, a) = Cardinality(A) /\ Times(x, b) = Cardinality(B)
        /\ Times(x, c) = Cardinality(C) /\ Cardinality(A) \in Nat /\ Cardinality(B) \in Nat
    BY <1>1, TimesIs
  <1> HIDE DEF A, B, C, D
  <1>6. IsFiniteSet(D) /\ Cardinality(D) = Cardinality(B)
    BY <1>4, <1>5, FS_Bijection
  <1>7. Cardinality(A \cup D) = Cardinality(A) + Cardinality(D) - Cardinality(A \cap D)
    BY <1>5, <1>6, FS_Union
  <1>8. Cardinality(A \cap D) = 0
    BY <1>3, FS_EmptySet
  <1>9. Times(x, c) = Times(x, a) + Times(x, b)
    <2> DEFINE na == Cardinality(A)
               nd == Cardinality(D)
    <2>1. Cardinality(C) = na + nd - Cardinality(A \cap D)
      BY <1>3, <1>7
    <2>2. na \in Nat /\ nd \in Nat
      BY <1>5, <1>6
    <2>3. Times(x, a) = na /\ Times(x, b) = nd /\ Times(x, c) = Cardinality(C)
      BY <1>5, <1>6
    <2> HIDE DEF na, nd
    <2>4. Cardinality(C) = na + nd
      BY <1>8, <2>1, <2>2
    <2> QED
      BY <2>3, <2>4
  <1> QED
    BY <1>1, <1>9 DEF c

\* A row that occurs in one of k sequences only.
OnlyIn(x, s, k, g, e) == \A i \in 1..k : Times(x, s[i]) = IF i = g THEN e ELSE 0

LEMMA TimesConcat ==
  ASSUME NEW X, NEW k \in Nat, NEW s \in [1..k -> Seq(X)], NEW x, NEW g \in 1..k, NEW e \in Nat,
         OnlyIn(x, s, k, g, e)
  PROVE  Times(x, FlattenSeq(s)) = e
  <1> DEFINE v(d) == IF g <= d THEN e ELSE 0
             T == {d \in Nat : d <= k => Flat(s, d) \in Seq(X) /\ Times(x, Flat(s, d)) = v(d)}
  <1>1. 0 \in T
    <2>1. Flat(s, 0) = <<>>
      BY FlatNone
    <2>2. Times(x, <<>>) = 0
      BY TimesEmpty
    <2>3. <<>> \in Seq(X) /\ ~(g <= 0)
      OBVIOUS
    <2> QED
      BY <2>1, <2>2, <2>3
  <1>2. ASSUME NEW d \in Nat, d \in T PROVE d + 1 \in T
    <2> SUFFICES ASSUME d + 1 <= k
                 PROVE  Flat(s, d + 1) \in Seq(X) /\ Times(x, Flat(s, d + 1)) = v(d + 1)
      OBVIOUS
    <2>1. d \in 0..k /\ d + 1 \in 1..k
      OBVIOUS
    <2>2. Appends(Flat(s, d), s[d + 1], Flat(s, d + 1), X)
      BY <2>1, FlatAppends
    <2>3. /\ Flat(s, d) \in Seq(X) /\ s[d + 1] \in Seq(X) /\ Flat(s, d + 1) \in Seq(X)
          /\ Flat(s, d + 1) = Flat(s, d) \o s[d + 1]
      BY <2>2 DEF Appends
    <2>4. Times(x, Flat(s, d)) = v(d)
      BY <1>2, <2>1
    <2>5. Times(x, Flat(s, d + 1)) = Times(x, Flat(s, d)) + Times(x, s[d + 1])
      <3> DEFINE a == Flat(s, d)
                 b == s[d + 1]
      <3>1. a \in Seq(X) /\ b \in Seq(X)
        BY <2>3
      <3> HIDE DEF a, b
      <3>2. Times(x, a \o b) = Times(x, a) + Times(x, b)
        BY <3>1, TimesAdd
      <3> QED
        BY <2>3, <3>2 DEF a, b
    <2>6. Times(x, s[d + 1]) = IF d + 1 = g THEN e ELSE 0
      BY <2>1 DEF OnlyIn
    <2>7. v(d + 1) = v(d) + (IF d + 1 = g THEN e ELSE 0)
      BY <2>1
    <2> HIDE DEF v
    <2> QED
      BY <2>3, <2>4, <2>5, <2>6, <2>7
  <1> HIDE DEF T
  <1>3. Nat \subseteq T
    BY <1>1, <1>2, Induct
  <1>4. Times(x, Flat(s, k)) = e
    <2>1. k \in T /\ k <= k
      BY <1>3
    <2>2. Times(x, Flat(s, k)) = v(k)
      BY <2>1 DEF T
    <2> QED
      BY <2>2
  <1>5. FlattenSeq(s) = Flat(s, k)
    BY FlatStep
  <1> QED
    BY <1>4, <1>5

-----------------------------------------------------------------------------
(* What is trained: the ranks' steps *)

TrainRank(r) == GradientInv(r) /\ TrainedInv(r)

Unmoved(r) == Untouched(r) /\ UNCHANGED <<epoch[r], advantage[r], gradient[r], trained[r]>>

LEMMA TrainRankKept ==
  ASSUME NEW r, TrainRank(r), Unmoved(r), UNCHANGED <<pc, job>>
  PROVE  TrainRank(r)'
  BY DEF TrainRank, GradientInv, TrainedInv, Turn, Mini, Unmoved, Untouched

LEMMA TrainKept ==
  ASSUME TrainInv, pc \in Working, UNCHANGED driverVars, PerRank(gradient)', PerRank(trained)',
         \A r \in Ranks : TrainRank(r)'
  PROVE  TrainInv'
  BY DEF TrainInv, TrainRank, driverVars, Working

LEMMA TrainOfOne ==
  ASSUME TrainInv, pc \in Working, UNCHANGED driverVars, UNCHANGED <<gradient, trained>>,
         NEW r \in Ranks, TrainRank(r)', \A s \in Ranks \ {r} : Unmoved(s)
  PROVE  TrainInv'
  <1>1. \A s \in Ranks : TrainRank(s)'
    <2> TAKE s \in Ranks
    <2>1. CASE s = r
      BY <2>1
    <2>2. CASE s # r
      BY <2>2, TrainRankKept DEF TrainInv, TrainRank, driverVars
    <2> QED
      BY <2>1, <2>2
  <1>2. PerRank(gradient)' /\ PerRank(trained)'
    BY DEF TrainInv, PerRank
  <1> QED
    BY <1>1, <1>2, TrainKept

LEMMA TrainPlan == ASSUME NEW r \in Ranks, LockInv, DataInv, TrainInv, Plan(r) PROVE TrainInv'
  <1>1. pc \in Working
    BY InCall DEF Plan, Idle
  <1>2. TrainRank(r) /\ at[r] = "plan"
    BY <1>1 DEF TrainInv, TrainRank, Plan
  <1>3. at'[r] = "count" /\ \A s \in Ranks \ {r} : Unmoved(s)
    BY DEF LockInv, ShapeInv, PerRank, Plan, Unmoved, Untouched, dataVars, loopVars, evalVars, trainVars
  <1>4. /\ UNCHANGED driverVars
        /\ UNCHANGED <<pc, job, stage, epoch, chunk, packs, minis, plan, done, advantage, gradient, trained>>
    BY DEF Plan, driverVars, dataVars, loopVars, trainVars
  <1>5. TrainRank(r)'
    BY <1>2, <1>3, <1>4 DEF TrainRank, GradientInv, TrainedInv, Turn, Busy, Planned
  <1> QED
    BY <1>1, <1>3, <1>4, <1>5, TrainOfOne

LEMMA SeenNone == \A pl, inputs, m : SeenRows(inputs, m, pl, 0) = <<>>
  <1> TAKE pl, inputs, m
  <1>1. Flat(pl, 0) = <<>>
    BY FlatNone
  <1>2. 1..Len(<<>>) = {}
    OBVIOUS
  <1> QED
    BY <1>1, <1>2 DEF SeenRows

LEMMA TrainArrange == ASSUME NEW r \in Ranks, LockInv, DataInv, TrainInv, Arrange(r) PROVE TrainInv'
  <1>1. pc \in Working
    BY InCall DEF Arrange, Idle
  <1>2. TrainRank(r) /\ at[r] = "arrange"
    BY <1>1 DEF TrainInv, TrainRank, Arrange
  <1>3. at'[r] \in {"minmax", "forward"} /\ done'[r] = 0 /\ \A s \in Ranks \ {r} : Unmoved(s)
    BY DEF LockInv, ShapeInv, PerRank, Arrange, Unmoved, Untouched, dataVars, loopVars, evalVars, trainVars
  <1>4. /\ UNCHANGED driverVars
        /\ UNCHANGED <<pc, job, stage, epoch, chunk, packs, minis, advantage, gradient, trained>>
    BY DEF Arrange, driverVars, dataVars, loopVars, trainVars
  <1>5. GradientInv(r)'
    BY <1>2, <1>3, <1>4, SeenNone DEF TrainRank, GradientInv, Planned
  <1>6. TrainedInv(r)'
    BY <1>2, <1>3, <1>4 DEF TrainRank, TrainedInv, Turn, Busy
  <1> QED
    BY <1>1, <1>3, <1>4, <1>5, <1>6, TrainOfOne DEF TrainRank

LEMMA TrainGather == ASSUME NEW r \in Ranks, LockInv, DataInv, TrainInv, Gather(r) PROVE TrainInv'
  <1>1. pc \in Working
    BY DEF Gather, LockInv, AllIdling, Idle, Working
  <1>2. TrainRank(r) /\ at[r] = "gather" /\ stage[r] = "eval"
    BY <1>1, JobOfCall DEF TrainInv, TrainRank, Gather, RankInv, StageInv
  <1>3. /\ at'[r] \in {"plan", "advantages", "idle"} /\ (pc = "real" => at'[r] # "idle")
        /\ \A s \in Ranks \ {r} : Unmoved(s)
    BY DEF LockInv, ShapeInv, DataInv, PerRank, Gather, Unmoved, Untouched, dataVars, microVars, trainVars
  <1>4. /\ UNCHANGED driverVars
        /\ UNCHANGED <<pc, job, stage, epoch, chunk, packs, plan, done, advantage, gradient, trained>>
    BY DEF Gather, driverVars, dataVars, microVars, trainVars
  <1>5. TrainRank(r)'
    BY <1>2, <1>3, <1>4 DEF TrainRank, GradientInv, TrainedInv
  <1> QED
    BY <1>1, <1>3, <1>4, <1>5, TrainOfOne

\* Nothing is trained yet when training begins.
LEMMA TrainBegins ==
  ASSUME job' \in Jobs, job'.call # "validate", NEW r \in Ranks, at'[r] = "plan", stage'[r] = "train",
         epoch'[r] = Epochs, minis'[r] = SlicesOf(pc', job'), gradient'[r] = <<>>, trained'[r] = <<>>
  PROVE  TrainRank(r)'
  <1>1. /\ Behind(SlicesOf(pc', job'), minis'[r]) = 0 /\ EndIn(pc', job', 0) = 0
    BY AllLeft
  <1>2. Epochs \in 1..Epochs /\ \A p \in 1..SizeOf(job') : Trips(Epochs, p, 0) = 0
    <2>1. Epochs \in Nat \ {0}
      BY SizesNat
    <2>2. Epochs \in 1..Epochs /\ Epochs - Epochs = 0
      BY <2>1
    <2>3. \A p \in 1..SizeOf(job') : ~(p <= 0)
      BY JobSizes
    <2> QED
      BY <2>2, <2>3 DEF Trips
  <1>3. \A x : Times(x, <<>>) = 0
    BY TimesEmpty
  <1>4. GradientInv(r)'
    BY DEF GradientInv, Planned
  <1>5. TrainedInv(r)'
    <2>1. trained'[r] \in Seq(Members(chunk'[r]))
      OBVIOUS
    <2>2. \A p \in 1..SizeOf(job') :
            Times(packs'[r][p], trained'[r]) = Trips(epoch'[r], p, EndIn(pc', job', Turn(r)'))
      BY <1>1, <1>2, <1>3 DEF Turn
    <2> QED
      BY <1>2, <2>1, <2>2 DEF TrainedInv
  <1> QED
    BY <1>4, <1>5 DEF TrainRank

LEMMA TrainComputeAdvantages ==
  ASSUME NEW r \in Ranks, LockInv, DataInv, TrainInv, ComputeAdvantages(r)
  PROVE  TrainInv'
  <1>1. pc \in Working
    BY InCall DEF ComputeAdvantages, Idle
  <1>2. RankInv(r) /\ TrainRank(r) /\ at[r] = "advantages" /\ job \in Jobs /\ job.call # "validate" /\ stage[r] = "eval"
    BY <1>1, JobOfCall DEF ComputeAdvantages, TrainInv, TrainRank, RankInv, StageInv
  <1>3. pc = "real"
    BY <1>1, <1>2, ChunksAre DEF PlaceInv, Working
  <1>4. /\ at'[r] = "plan" /\ stage'[r] = "train" /\ minis'[r] = MiniBatches(chunk[r]) /\ epoch'[r] = Epochs
        /\ \A s \in Ranks \ {r} : at'[s] = at[s] /\ stage'[s] = stage[s] /\ minis'[s] = minis[s] /\ epoch'[s] = epoch[s]
    BY DEF LockInv, ShapeInv, PerRank, ComputeAdvantages
  <1>5. /\ UNCHANGED driverVars
        /\ UNCHANGED <<pc, job, chunk, packs, count, plan, done, results, scores, gradient, trained>>
        /\ advantage' = [advantage EXCEPT ![r] = [i \in DOMAIN chunk[r] |-> Advantage(r, i)]]
    BY DEF ComputeAdvantages, driverVars, dataVars, microVars, evalVars
  <1>6. \A s \in Ranks \ {r} : Unmoved(s)
    BY <1>4, <1>5 DEF Unmoved, Untouched
  <1>7. minis'[r] = SlicesOf(pc, job)
    <2>1. Len(chunk[r]) = SizeOf(job)
      BY <1>2, BlockLen DEF RankInv, RowsInv, RowsAre
    <2> QED
      BY <1>2, <1>3, <1>4, <2>1, EpochBegins
  <1>8. gradient'[r] = <<>> /\ trained'[r] = <<>>
    BY <1>2, <1>5 DEF TrainRank, GradientInv, TrainedInv, Planned
  <1>9. TrainRank(r)'
    BY <1>2, <1>4, <1>5, <1>7, <1>8, TrainBegins
  <1> QED
    BY <1>1, <1>5, <1>6, <1>9, TrainOfOne

LEMMA TrainReduceCount == ASSUME LockInv, DataInv, TrainInv, ReduceCount PROVE TrainInv'
  <1>1. pc \in Working
    BY InCall, SomeRank DEF ReduceCount, Reached, Idle
  <1>2. \A r \in Ranks : TrainRank(r) /\ at[r] = "count" /\ at'[r] = "arrange"
    BY <1>1 DEF TrainInv, TrainRank, ReduceCount, Reached, Same
  <1>3. /\ UNCHANGED driverVars
        /\ UNCHANGED <<pc, job, stage, epoch, chunk, packs, minis, plan, done, advantage, gradient, trained>>
    BY DEF ReduceCount, driverVars, dataVars, loopVars, trainVars
  <1>4. ASSUME NEW r \in Ranks PROVE TrainRank(r)'
    <2>1. TrainRank(r) /\ at[r] = "count" /\ at'[r] = "arrange"
      BY <1>2
    <2> QED
      BY <1>3, <2>1 DEF TrainRank, GradientInv, TrainedInv, Turn, Busy, Planned
  <1>5. PerRank(gradient)' /\ PerRank(trained)'
    BY <1>3 DEF TrainInv, PerRank
  <1> QED
    BY <1>1, <1>3, <1>4, <1>5, TrainKept

LEMMA TrainCompareCounts == ASSUME LockInv, DataInv, TrainInv, CompareCounts PROVE TrainInv'
  <1>1. pc \in Working /\ AllToForward
    BY InCall, OneAlternative, SomeRank DEF CompareCounts, Reached, Idle, LockInv
  <1>2. \A r \in Ranks : TrainRank(r) /\ at[r] = "minmax"
    BY <1>1 DEF TrainInv, TrainRank, CompareCounts, Reached
  <1>3. PICK c : \A s \in Ranks : DOMAIN plan[s] = 1..c
    BY <1>1, <1>2 DEF AllToForward, ToForward
  <1>4. /\ UNCHANGED driverVars
        /\ UNCHANGED <<pc, job, stage, epoch, chunk, packs, minis, plan, done, advantage, gradient, trained>>
        /\ \A r \in Ranks : at'[r] = "forward"
    BY <1>3 DEF CompareCounts, Same, driverVars, dataVars, loopVars, microVars, trainVars
  <1>5. ASSUME NEW r \in Ranks PROVE TrainRank(r)'
    <2>1. TrainRank(r) /\ at[r] = "minmax" /\ at'[r] = "forward"
      BY <1>2, <1>4
    <2> QED
      BY <1>4, <2>1 DEF TrainRank, GradientInv, TrainedInv, Turn, Busy, Planned, Mini
  <1>6. PerRank(gradient)' /\ PerRank(trained)'
    BY <1>4 DEF TrainInv, PerRank
  <1> QED
    BY <1>1, <1>4, <1>5, <1>6, TrainKept

LEMMA TrainForward == ASSUME LockInv, DataInv, TrainInv, Forward PROVE TrainInv'
  <1>1. pc \in Working
    BY InCall, SomeRank DEF Forward, Reached, Idle
  <1>2. \A r \in Ranks : RankInv(r) /\ RankAt(r) /\ TrainRank(r) /\ at[r] = "forward"
    BY <1>1, JobOfCall DEF Forward, Reached, Busy, TrainInv, TrainRank
  <1>3. /\ UNCHANGED driverVars
        /\ UNCHANGED <<pc, job, stage, epoch, chunk, packs, minis, count, plan, advantage, trained>>
        /\ \A r \in Ranks : done'[r] = done[r] + 1
        /\ \A r \in Ranks : gradient'[r] = IF stage[r] = "train" THEN gradient[r] \o Trained(r) ELSE gradient[r]
        /\ \A r \in Ranks : at'[r] \in {"forward", "gather", "step"}
        /\ PerRank(gradient)' /\ PerRank(trained)'
    BY DEF TrainInv, PerRank, Forward, driverVars, dataVars, loopVars
  <1>4. ASSUME NEW r \in Ranks PROVE TrainRank(r)'
    <2> DEFINE n == Len(Mini(r))
               c == count[r]
               d == done[r]
               s == SizeOf(job)
               inputs == Pairs(packs[r], advantage[r], s)
    <2>1. RankInv(r) /\ RankAt(r) /\ at[r] = "forward" /\ PlanAt(r) /\ TrainRank(r)
      BY <1>2, PlanFacts DEF Planned
    <2>2. c \in 1..n /\ plan[r] \in [1..c -> Seq(1..n)] /\ n \in Nat
      BY <2>1 DEF PlanAt, Partitions, RankAt
    <2>3. d \in 0..(c - 1)
      BY <2>1 DEF RankInv, PlanInv
    <2>4. Mini(r) \in [1..n -> 1..s]
      BY <2>1 DEF RankAt
    <2>5. at'[r] \in Planned /\ at'[r] \in Busy /\ at'[r] # "idle" /\ done'[r] = d + 1
      BY <1>3 DEF Planned, Busy
    <2> HIDE DEF n, c, d, s
    <2>6. c \in Nat /\ d \in 0..c /\ d + 1 \in 1..c
      BY <2>2, <2>3
    <2>7. Trained(r) = Reorder(inputs, Reorder(Mini(r), plan[r][d + 1]))
      <3> DEFINE t == plan[r][d + 1]
                 m == Reorder(Mini(r), t)
      <3>1. Micro(r) = m
        BY DEF Micro, d
      <3>2. t \in Seq(1..n)
        BY <2>2, <2>6
      <3> HIDE DEF t
      <3>9. DOMAIN t = 1..Len(t) /\ \A i \in 1..Len(t) : t[i] \in 1..n
        BY <2>2, <3>2
      <3>3. DOMAIN m = DOMAIN t /\ \A i \in DOMAIN t : t[i] \in 1..n /\ m[i] = Mini(r)[t[i]]
        BY <3>9 DEF Reorder
      <3>4. \A i \in DOMAIN m : m[i] \in 1..s
        BY <2>4, <3>3
      <3> HIDE DEF m
      <3>5. \A i \in DOMAIN m : inputs[m[i]] = [row |-> packs[r][m[i]], advantage |-> advantage[r][m[i]]]
        BY <3>4 DEF Pairs
      <3> HIDE DEF inputs
      <3>6. Reorder(inputs, m) = [i \in DOMAIN m |-> inputs[m[i]]]
        BY DEF Reorder
      <3>7. Trained(r) = [i \in DOMAIN m |-> [row |-> packs[r][m[i]], advantage |-> advantage[r][m[i]]]]
        BY <3>1 DEF Trained
      <3>8. Trained(r) = Reorder(inputs, m)
        BY <3>5, <3>6, <3>7
      <3> QED
        BY <3>8 DEF m, t
    <2> HIDE DEF inputs
    <2>8. SeenRows(inputs, Mini(r), plan[r], d + 1) = SeenRows(inputs, Mini(r), plan[r], d) \o Trained(r)
      <3>1. plan[r] \in [1..c -> Seq(1..n)] /\ DOMAIN Mini(r) = 1..n /\ n \in Nat
        BY <2>2, <2>4
      <3>2. Seeing(n, c, plan[r], d, Mini(r))
        BY <2>6, <3>1 DEF Seeing
      <3>3. SeenRows(inputs, Mini(r), plan[r], d + 1)
              = SeenRows(inputs, Mini(r), plan[r], d) \o Reorder(inputs, Reorder(Mini(r), plan[r][d + 1]))
        BY <3>2, SeenGrows
      <3> QED
        BY <2>7, <3>3
    <2>9. gradient[r] = IF stage[r] = "train" THEN SeenRows(inputs, Mini(r), plan[r], d) ELSE <<>>
      BY <2>1 DEF TrainRank, GradientInv, Planned, inputs, s, d
    <2>10. gradient'[r] = IF stage[r] = "train" THEN SeenRows(inputs, Mini(r), plan[r], d + 1) ELSE <<>>
      BY <1>3, <2>8, <2>9
    <2>11. GradientInv(r)'
      BY <1>3, <2>5, <2>10 DEF GradientInv, Mini, inputs, s
    <2>12. TrainedInv(r)'
      BY <1>3, <2>1, <2>5 DEF TrainRank, TrainedInv, Turn, Busy
    <2> QED
      BY <2>11, <2>12 DEF TrainRank
  <1> QED
    BY <1>1, <1>3, <1>4, TrainKept

\* The rows of a mini-batch m in the order of f, when the mini-batch is k
\* places of the chunk after the first x.
Takes(rows, inputs, n, k, x, m, f) ==
  /\ \A p, q \in 1..n : inputs[p] = inputs[q] => p = q
  /\ \A a \in 1..k : m[a] = x + a
  /\ Lists(f, k, 1..k)
  /\ rows = [a \in 1..k |-> inputs[m[f[a]]]]

\* They are the rows at the places after the first x up to y.
Uses(rows, inputs, n, x, y) ==
  \A p \in 1..n : Times(inputs[p], rows) = IF x < p /\ p <= y THEN 1 ELSE 0

LEMMA RowsOfMini ==
  ASSUME NEW V, NEW n \in Nat, NEW inputs \in [1..n -> V], NEW k \in Nat, NEW x \in Nat, x + k <= n,
         NEW m, NEW f, NEW rows, Takes(rows, inputs, n, k, x, m, f)
  PROVE  rows \in Seq(V) /\ Uses(rows, inputs, n, x, x + k)
  <1> USE DEF Takes
  <1>1. /\ \A a \in 1..k : f[a] \in 1..k
        /\ \A a, b \in 1..k : f[a] = f[b] => a = b
        /\ \A b \in 1..k : \E a \in 1..k : f[a] = b
    BY DEF Lists
  <1>2. \A a \in 1..k : x + f[a] \in 1..n /\ m[f[a]] = x + f[a]
    <2> TAKE a \in 1..k
    <2> DEFINE b == f[a]
    <2>1. b \in 1..k
      BY <1>1
    <2> HIDE DEF b
    <2>2. x + b \in 1..n /\ m[b] = x + b
      BY <2>1
    <2> QED
      BY <2>2 DEF b
  <1>3. \A a \in 1..k : rows[a] = inputs[x + f[a]] /\ rows[a] \in V
    BY <1>2
  <1>4. DOMAIN rows = 1..k /\ rows = [a \in 1..k |-> rows[a]]
    OBVIOUS
  <1>9. \A p, q \in 1..n : inputs[p] = inputs[q] => p = q
    OBVIOUS
  <1> HIDE DEF Takes
  <1>5. rows \in [1..k -> V]
    BY <1>3, <1>4
  <1>6. rows \in Seq(V) /\ Len(rows) = k
    BY <1>5, EvaluatedIs
  <1>7. ASSUME NEW p \in 1..n, x < p /\ p <= x + k PROVE Times(inputs[p], rows) = 1
    <2>1. p - x \in 1..k /\ x + (p - x) = p
      BY <1>7
    <2>2. PICK i \in 1..k : f[i] = p - x
      BY <1>1, <2>1
    <2>3. rows[i] = inputs[p]
      BY <1>3, <2>1, <2>2
    <2>4. ASSUME NEW j \in 1..k, rows[j] = inputs[p] PROVE j = i
      <3>1. x + f[j] = p
        BY <1>2, <1>3, <1>9, <2>4
      <3> DEFINE b == f[j]
      <3>2. b \in 1..k /\ x + b = p
        BY <1>1, <3>1
      <3> HIDE DEF b
      <3>3. b = p - x
        BY <3>2
      <3> QED
        BY <1>1, <2>2, <3>3 DEF b
    <2> QED
      BY <1>6, <2>3, <2>4, TimesOne
  <1>8. ASSUME NEW p \in 1..n, ~(x < p /\ p <= x + k) PROVE Times(inputs[p], rows) = 0
    <2>1. ASSUME NEW a \in 1..k PROVE rows[a] # inputs[p]
      <3> SUFFICES ASSUME rows[a] = inputs[p] PROVE FALSE
        OBVIOUS
      <3>1. x + f[a] = p
        BY <1>2, <1>3, <1>9
      <3> DEFINE b == f[a]
      <3>2. b \in 1..k /\ x + b = p
        BY <1>1, <3>1
      <3> HIDE DEF b
      <3> QED
        BY <1>8, <3>2
    <2>2. rows \in [1..k -> V \ {inputs[p]}]
      BY <1>3, <1>4, <2>1
    <2>3. rows \in Seq(V \ {inputs[p]})
      BY <2>2, EvaluatedIs
    <2> QED
      BY <2>3, TimesNone
  <1> QED
    BY <1>6, <1>7, <1>8 DEF Uses

\* A step uses every row of the mini-batch once and no other.
LEMMA StepRows ==
  ASSUME job \in Jobs, job.call # "validate", BatchInv, NEW r \in Ranks, RankInv(r), TrainRank(r), at[r] = "step"
  PROVE  LET rows == [i \in DOMAIN gradient[r] |-> gradient[r][i].row]
             x == EndIn(pc, job, Turn(r))
             y == EndIn(pc, job, Turn(r) + 1)
         IN  /\ rows \in Seq(Members(chunk[r]))
             /\ \A p \in 1..SizeOf(job) : Times(packs[r][p], rows) = IF x < p /\ p <= y THEN 1 ELSE 0
  <1> DEFINE n == SizeOf(job)
             V == Members(chunk[r])
             m == Mini(r)
             k == Len(m)
             x == EndIn(pc, job, Turn(r))
             y == EndIn(pc, job, Turn(r) + 1)
             inputs == packs[r]
             pairs == Pairs(inputs, advantage[r], n)
             f == FlattenSeq(plan[r])
             g == gradient[r]
  <1>1. RankAt(r) /\ PlanAt(r) /\ stage[r] = "train"
    BY RankFacts, PlanFacts DEF Busy, Planned, RankInv, StageInv
  <1>2. /\ x \in Nat /\ y \in 1..n /\ y - x \in Nat \ {0} /\ k = y - x /\ n \in Nat \ {0}
        /\ m \in Seq(1..n) /\ \A a \in 1..(y - x) : m[a] = x + a
    BY <1>1 DEF RankAt, MiniIs, Mini, Turn
  <1>3. inputs \in [1..n -> V] /\ \A p, q \in 1..n : inputs[p] = inputs[q] => p = q
    BY DEF RankInv, RowsInv, RowsAre, Lists
  <1>4. Partitions(plan[r], k, count[r]) /\ count[r] \in Nat
    BY <1>1, <1>2 DEF PlanAt
  <1>5. g = SeenRows(pairs, m, plan[r], count[r])
    BY <1>1 DEF TrainRank, GradientInv, Planned, RankInv, PlanInv
  <1> HIDE DEF n, V, m, k, x, y, inputs, pairs, f, g
  <1>6. k \in Nat /\ x + k <= n /\ x + k = y
    BY <1>2
  <1>7. f \in Seq(1..k) /\ Len(f) = k /\ Lists(f, k, 1..k)
    BY <1>4, <1>6, PartitionsConcat DEF f
  <1>8. Flat(plan[r], count[r]) = f
    <2>1. plan[r] = [i \in 1..count[r] |-> plan[r][i]]
      BY <1>4 DEF Partitions
    <2> QED
      BY <2>1 DEF Flat, f
  <1>9. g = [p \in 1..k |-> pairs[m[f[p]]]]
    BY <1>5, <1>7, <1>8 DEF SeenRows
  <1>10. \A p \in 1..k : m[f[p]] \in 1..n
    <2>1. \A p \in 1..k : f[p] \in 1..k
      BY <1>7 DEF Lists
    <2>2. \A a \in 1..k : m[a] \in 1..n
      BY <1>2 DEF k
    <2> QED
      BY <2>1, <2>2
  <1>11. [i \in DOMAIN g |-> g[i].row] = [p \in 1..k |-> inputs[m[f[p]]]]
    <2>1. \A a \in 1..n : pairs[a].row = inputs[a]
      BY DEF pairs, Pairs
    <2>2. DOMAIN g = 1..k /\ \A p \in 1..k : g[p].row = inputs[m[f[p]]]
      BY <1>9, <1>10, <2>1
    <2> QED
      BY <2>2
  <1> DEFINE rows == [p \in 1..k |-> inputs[m[f[p]]]]
  <1>12. /\ rows \in Seq(V)
         /\ \A p \in 1..n : Times(inputs[p], rows) = IF x < p /\ p <= x + k THEN 1 ELSE 0
    <2>1. n \in Nat /\ x \in Nat /\ \A a \in 1..k : m[a] = x + a
      BY <1>2
    <2>2. Takes(rows, inputs, n, k, x, m, f)
      BY <1>3, <1>7, <2>1 DEF Takes
    <2>3. inputs \in [1..n -> V] /\ k \in Nat /\ x + k <= n
      BY <1>3, <1>6
    <2> HIDE DEF rows
    <2>4. rows \in Seq(V) /\ Uses(rows, inputs, n, x, x + k)
      BY <2>1, <2>2, <2>3, RowsOfMini
    <2> QED
      BY <2>4 DEF Uses
  <1> QED
    BY <1>6, <1>11, <1>12 DEF n, V, x, y, inputs, g

LEMMA TrainOptimizerStep == ASSUME LockInv, DataInv, TrainInv, Step PROVE TrainInv'
  <1>1. pc \in Working
    BY InCall, SomeRank DEF Step, Reached, Idle
  <1>2. /\ job \in Jobs /\ job.call # "validate" /\ BatchInv
        /\ \A r \in Ranks : RankInv(r) /\ RankAt(r) /\ TrainRank(r) /\ at[r] = "step"
    BY <1>1, JobOfCall DEF Step, Reached, Busy, TrainInv, TrainRank
  <1>3. pc # "log_prob"
    BY <1>1, <1>2, SomeRank, ChunksAre DEF PlaceInv
  <1>4. /\ UNCHANGED driverVars /\ UNCHANGED <<pc, job, stage, chunk, packs>>
        /\ \A r \in Ranks :
             /\ gradient'[r] = <<>>
             /\ trained'[r] = trained[r] \o [i \in DOMAIN gradient[r] |-> gradient[r][i].row]
             /\ minis'[r] = IF Len(minis[r]) > 1 THEN Tail(minis[r]) ELSE MiniBatches(chunk[r])
             /\ epoch'[r] = IF Len(minis[r]) > 1 THEN epoch[r] ELSE epoch[r] - 1
             /\ at'[r] = IF Len(minis[r]) > 1 \/ epoch[r] > 1 THEN "plan" ELSE "idle"
        /\ PerRank(gradient)' /\ PerRank(trained)'
    BY DEF PerRank, Step, ZeroGrad, driverVars, dataVars
  <1>5. ASSUME NEW r \in Ranks PROVE TrainRank(r)'
    <2> DEFINE n == SizeOf(job)
               V == Members(chunk[r])
               parts == SlicesOf(pc, job)
               k == Turn(r)
               x == EndIn(pc, job, k)
               y == EndIn(pc, job, k + 1)
               rows == [i \in DOMAIN gradient[r] |-> gradient[r][i].row]
               e == epoch[r]
    <2>1. RankInv(r) /\ RankAt(r) /\ TrainRank(r) /\ at[r] = "step" /\ stage[r] = "train"
      BY <1>2 DEF RankInv, StageInv
    <2>2. /\ rows \in Seq(V)
          /\ \A p \in 1..n : Times(packs[r][p], rows) = IF x < p /\ p <= y THEN 1 ELSE 0
      BY <1>2, <2>1, StepRows
    <2>3. /\ trained[r] \in Seq(V) /\ e \in 1..Epochs
          /\ \A p \in 1..n : Times(packs[r][p], trained[r]) = Trips(e, p, x)
      BY <2>1 DEF TrainRank, TrainedInv, Busy
    <2>4. /\ x \in Nat /\ y \in 1..n /\ y - x \in Nat \ {0} /\ n \in Nat \ {0}
          /\ ~(Len(minis[r]) > 1) => y = n
          /\ Len(minis[r]) > 1 => Behind(parts, Tail(minis[r])) = k + 1
      BY <2>1 DEF RankAt, MiniIs, Turn
    <2>5. Len(chunk[r]) = n
      BY <1>2, <2>1, BlockLen DEF RankInv, RowsInv, RowsAre
    <2>6. MiniBatches(chunk[r]) = parts /\ Behind(parts, parts) = 0 /\ EndIn(pc, job, 0) = 0
      BY <1>2, <1>3, <2>5, EpochBegins, AllLeft
    <2>7. trained'[r] = trained[r] \o rows
      BY <1>4
    <2> HIDE DEF n, V, parts, k, x, y, rows, e
    <2>8. /\ trained'[r] \in Seq(V)
          /\ \A p \in 1..n : Times(packs[r][p], trained'[r]) = Trips(e, p, x) + (IF x < p /\ p <= y THEN 1 ELSE 0)
      BY <2>2, <2>3, <2>7, TimesAdd
    <2>9. Epochs \in Nat
      BY SizesNat
    <2>10. GradientInv(r)'
      <3>1. at'[r] \notin Planned
        BY <1>4 DEF Planned
      <3> QED
        BY <1>4, <3>1 DEF GradientInv
    <2>11. CASE Len(minis[r]) > 1
      <3>1. at'[r] = "plan" /\ epoch'[r] = e /\ EndIn(pc', job', Turn(r)') = y
        BY <1>4, <2>4, <2>11 DEF Turn, parts, e, y
      <3>2. \A p \in 1..n : Times(packs[r][p], trained'[r]) = Trips(e, p, y)
        <4> TAKE p \in 1..n
        <4>1. p \in Nat
          BY <2>4
        <4>2. Trips(e, p, y) = Trips(e, p, x) + (IF x < p /\ p <= y THEN 1 ELSE 0)
          BY <2>3, <2>4, <2>9, <4>1 DEF Trips
        <4> QED
          BY <2>8, <4>2
      <3>3. TrainedInv(r)'
        BY <1>4, <2>1, <2>3, <2>8, <3>1, <3>2 DEF TrainedInv, n, V, e
      <3> QED
        BY <2>10, <3>3 DEF TrainRank
    <2>12. CASE ~(Len(minis[r]) > 1)
      <3>1. y = n
        BY <2>4, <2>12
      <3>2. ASSUME NEW p \in 1..n PROVE Times(packs[r][p], trained'[r]) = (Epochs - e) + 1
        <4>1. p \in Nat /\ p <= n
          BY <2>4
        <4>2. Trips(e, p, x) + (IF x < p /\ p <= y THEN 1 ELSE 0) = (Epochs - e) + 1
          BY <2>3, <2>4, <2>9, <3>1, <4>1 DEF Trips
        <4> QED
          BY <2>8, <4>2
      <3>3. CASE e > 1
        <4>1. at'[r] = "plan" /\ epoch'[r] = e - 1 /\ EndIn(pc', job', Turn(r)') = 0
          BY <1>4, <2>6, <2>12, <3>3 DEF Turn, parts, e
        <4>2. e - 1 \in 1..Epochs
          BY <2>3, <2>9, <3>3
        <4>3. \A p \in 1..n : Times(packs[r][p], trained'[r]) = Trips(e - 1, p, 0)
          <5> TAKE p \in 1..n
          <5>1. ~(p <= 0)
            BY <2>4
          <5>2. Trips(e - 1, p, 0) = (Epochs - e) + 1
            BY <2>3, <2>9, <5>1 DEF Trips
          <5> QED
            BY <3>2, <5>2
        <4>4. TrainedInv(r)'
          BY <1>4, <2>1, <2>8, <4>1, <4>2, <4>3 DEF TrainedInv, n, V
        <4> QED
          BY <2>10, <4>4 DEF TrainRank
      <3>4. CASE ~(e > 1)
        <4>1. at'[r] = "idle"
          BY <1>4, <2>12, <3>4 DEF e
        <4>2. (Epochs - e) + 1 = Epochs
          BY <2>3, <2>9, <3>4
        <4>3. \A p \in 1..n : Times(packs[r][p], trained'[r]) = Epochs
          BY <3>2, <4>2
        <4>4. TrainedInv(r)'
          BY <1>4, <2>1, <2>8, <4>1, <4>3 DEF TrainedInv, Busy, n, V
        <4> QED
          BY <2>10, <4>4 DEF TrainRank
      <3> QED
        BY <3>3, <3>4
    <2> QED
      BY <2>11, <2>12
  <1> QED
    BY <1>1, <1>4, <1>5, TrainKept

LEMMA TrainGenerate == ASSUME NEW r \in Ranks, LockInv, DataInv, TrainInv, Generate(r) PROVE TrainInv'
  <1>1. pc = "generate"
    BY DEF Generate, LockInv, JobInv, DataInv, GenerateInv, RankInv, StageInv, AllIdle
  <1>2. UNCHANGED <<pc, job, batch, gradient, trained>>
    BY DEF Generate, driverVars, trainVars
  <1> QED
    BY <1>1, <1>2 DEF TrainInv, PerRank, Working

-----------------------------------------------------------------------------
(* What is trained: the driver's steps *)

LEMMA TrainInit == Init => TrainInv
  BY DEF Init, TrainInv, PerRank, Same, Working

LEMMA TrainCallGenerate == ASSUME LockInv, DataInv, TrainInv, CallGenerate PROVE TrainInv'
  <1>1. pc = "start" /\ pc' = "generate" /\ UNCHANGED <<job, batch, gradient, trained>>
    BY DEF CallGenerate, trainVars
  <1> QED
    BY <1>1 DEF TrainInv, PerRank, Working

\* A rank before the evaluation.
LEMMA EvalBegins ==
  ASSUME NEW r \in Ranks, at'[r] = "plan", stage'[r] = "eval", gradient'[r] = <<>>, trained'[r] = <<>>
  PROVE  TrainRank(r)'
  <1>1. trained'[r] \in Seq(Members(chunk'[r]))
    OBVIOUS
  <1> QED
    BY <1>1 DEF TrainRank, GradientInv, TrainedInv, Planned

LEMMA TrainCallEval == ASSUME LockInv, DataInv, TrainInv, CallReal \/ CallLogProb PROVE TrainInv'
  <1>1. /\ pc = "start" /\ pc' \in {"real", "log_prob"} /\ UNCHANGED <<gradient, trained>>
        /\ \A r \in Ranks : at'[r] = "plan" /\ stage'[r] = "eval"
    BY DEF CallReal, CallLogProb, Same, trainVars
  <1>2. gradient = Same(<<>>) /\ trained = Same(<<>>)
    BY <1>1 DEF TrainInv, Working
  <1>3. \A r \in Ranks : TrainRank(r)'
    BY <1>1, <1>2, EvalBegins DEF Same
  <1> QED
    BY <1>1, <1>2, <1>3 DEF TrainInv, TrainRank, PerRank, Same, Working

LEMMA TrainCallUpdate == ASSUME LockInv, DataInv, TrainInv, CallUpdate PROVE TrainInv'
  <1>1. /\ pc = "scored" /\ pc' = "update" /\ UNCHANGED <<job, batch, gradient, trained>>
        /\ job \in Jobs /\ job.call = "grpo" /\ Len(batch) = Len(job.uid)
    BY DEF CallUpdate, LockInv, JobInv
  <1>2. \A r \in Ranks :
          /\ chunk'[r] = DispatchTo(batch, OwnChunk, Ranks)[r]
          /\ stage'[r] = "train" /\ at'[r] = "plan" /\ epoch'[r] = Epochs
          /\ minis'[r] = MiniBatches(chunk'[r])
    BY DEF CallUpdate, Same, DispatchTo
  <1>3. gradient = Same(<<>>) /\ trained = Same(<<>>)
    BY <1>1 DEF TrainInv, Working
  <1>4. ASSUME NEW r \in Ranks PROVE TrainRank(r)'
    <2> DEFINE rows == Block(batch, SizeOf(job), r)
    <2>1. chunk'[r] = rows
      BY <1>1, <1>2, DispatchedIs
    <2>2. Len(rows) = SizeOf(job)
      BY <1>1, BlockLen
    <2> HIDE DEF rows
    <2>3. MiniBatches(rows) = SlicesOf(pc', job)
      BY <1>1, <2>2, EpochBegins
    <2>4. /\ minis'[r] = SlicesOf(pc', job') /\ gradient'[r] = <<>> /\ trained'[r] = <<>>
          /\ job' \in Jobs /\ job'.call # "validate"
      BY <1>1, <1>2, <1>3, <2>1, <2>3 DEF Same
    <2> QED
      BY <1>2, <2>4, TrainBegins
  <1> QED
    BY <1>1, <1>3, <1>4 DEF TrainInv, TrainRank, PerRank, Same, Working

LEMMA NoGradient ==
  ASSUME TrainInv, pc \in Working, AllIdle
  PROVE  gradient = Same(<<>>)
  <1>1. \A r \in Ranks : gradient[r] = <<>>
    BY DEF TrainInv, GradientInv, AllIdle, Planned
  <1> QED
    BY <1>1 DEF TrainInv, PerRank, Same

LEMMA TrainCollect == ASSUME LockInv, DataInv, TrainInv, Collect PROVE TrainInv'
  <1>1. /\ pc \in {"generate", "log_prob"} /\ AllIdle /\ pc' = IF pc = "generate" THEN "returned" ELSE "scored"
        /\ UNCHANGED <<job, batch, gradient, trained>>
        /\ pc = "generate" => job.call = "validate"
    BY DEF Collect, trainVars, LockInv, JobInv
  <1>2. CASE pc = "generate"
    BY <1>1, <1>2 DEF TrainInv, PerRank, Working
  <1>3. CASE pc = "log_prob"
    <2>1. pc \in Working /\ gradient = Same(<<>>)
      BY <1>1, <1>3, NoGradient DEF Working
    <2>2. \A r \in Ranks : trained[r] = <<>>
      <3> TAKE r \in Ranks
      <3>1. stage[r] = "eval"
        BY <1>3, <2>1, ChunksAre DEF PlaceInv
      <3> QED
        BY <2>1, <3>1 DEF TrainInv, TrainedInv
    <2>3. trained = Same(<<>>)
      BY <2>2 DEF TrainInv, PerRank, Same
    <2> QED
      BY <1>1, <1>3, <2>1, <2>3 DEF TrainInv, PerRank, Same, Working
  <1> QED
    BY <1>1, <1>2, <1>3

LEMMA TrainStutter == ASSUME LockInv, DataInv, TrainInv, UNCHANGED vars PROVE TrainInv'
  <1>1. UNCHANGED <<pc, job, batch, returned, at, stage, epoch, chunk, packs, minis, count, plan, done, results,
                    scores, advantage, gradient, trained>>
    BY DEF vars, driverVars, dataVars, loopVars, microVars, evalVars, trainVars
  <1>2. \A r \in Ranks : TrainRank(r) => TrainRank(r)'
    BY <1>1, TrainRankKept DEF Unmoved, Untouched
  <1> QED
    BY <1>1, <1>2 DEF TrainInv, TrainRank, PerRank, Same

\* What one rank has trained when the call is over.
LEMMA RankTrained ==
  ASSUME LockInv, DataInv, TrainInv, pc \in {"real", "update"}, AllIdle, NEW r \in Ranks
  PROVE  /\ trained[r] \in Seq(Members(chunk[r]))
         /\ \A x \in Members(chunk[r]) : Times(x, trained[r]) = Epochs
         /\ chunk[r] = Block(batch, SizeOf(job), r)
  <1>1. pc \in Working /\ at[r] = "idle"
    BY DEF Working, AllIdle
  <1>2. RankInv(r) /\ TrainedInv(r) /\ PlaceInv(r)
    BY <1>1, ChunksAre DEF DataInv, TrainInv
  <1>3. stage[r] = "train"
    BY <1>1, <1>2 DEF TrainedInv, PlaceInv
  <1>4. \A p \in 1..SizeOf(job) : Times(packs[r][p], trained[r]) = Epochs
    BY <1>1, <1>2, <1>3 DEF TrainedInv
  <1>5. \A x \in Members(chunk[r]) : \E p \in 1..SizeOf(job) : packs[r][p] = x
    BY <1>2 DEF RankInv, RowsInv, RowsAre, Lists
  <1>6. \A x \in Members(chunk[r]) : Times(x, trained[r]) = Epochs
    BY <1>4, <1>5
  <1> QED
    BY <1>2, <1>6 DEF RankInv, RowsInv, RowsAre, TrainedInv

\* A row of the batch is a row of one rank.
LEMMA RowOfOneRank ==
  ASSUME NEW j \in Jobs, j.call # "validate", NEW b, Lists(b, Len(j.uid), 1..Len(j.uid)), NEW i \in 1..Len(j.uid)
  PROVE  \E g \in Ranks : \A r \in Ranks : b[i] \in Members(Block(b, SizeOf(j), r)) <=> r = g
  <1> DEFINE n == SizeOf(j)
             u == Len(j.uid)
  <1>1. n \in Nat \ {0} /\ WorldSize \in Nat \ {0} /\ u = WorldSize * n
    BY JobSizes, SizesNat
  <1>2. InBlocks(n, WorldSize, u)
    <2>1. InBlocks(n, WorldSize, WorldSize * n)
      BY <1>1, Blocks
    <2> QED
      BY <1>1, <2>1
  <1>3. \A p, q \in 1..u : b[p] = b[q] => p = q
    BY DEF Lists
  <1>8. i \in 1..u
    OBVIOUS
  <1> HIDE DEF n, u
  <1>4. PICK g \in 0..(WorldSize - 1) : \E p \in 1..n : i = g * n + p
    BY <1>2, <1>8 DEF InBlocks
  <1>5. PICK p \in 1..n : i = g * n + p
    BY <1>4
  <1>6. \A r : Members(Block(b, n, r)) = {b[r * n + q] : q \in 1..n}
    BY DEF Members, Block
  <1>7. ASSUME NEW r \in Ranks PROVE b[i] \in Members(Block(b, n, r)) <=> r = g
    <2>1. ASSUME r = g PROVE b[i] \in Members(Block(b, n, r))
      BY <1>5, <1>6, <2>1
    <2>2. ASSUME b[i] \in Members(Block(b, n, r)) PROVE r = g
      <3>1. PICK q \in 1..n : b[i] = b[r * n + q]
        BY <1>6, <2>2
      <3>2. r \in 0..(WorldSize - 1)
        BY DEF Ranks
      <3>3. r * n + q \in 1..u
        BY <1>2, <3>2 DEF InBlocks
      <3>4. i = r * n + q
        BY <1>3, <1>8, <3>1, <3>3
      <3>5. r * n + q = g * n + p
        BY <1>5, <3>4
      <3> QED
        BY <1>2, <3>2, <3>5 DEF InBlocks
    <2> QED
      BY <2>1, <2>2
  <1> QED
    BY <1>7 DEF Ranks, n

LEMMA TrainReturn == ASSUME LockInv, DataInv, TrainInv, Return PROVE TrainInv'
  <1>1. /\ pc \in {"real", "update"} /\ AllIdle /\ pc' = "returned" /\ UNCHANGED <<job, batch, gradient, trained>>
        /\ pc \in Working
    BY DEF Return, trainVars, Working
  <1>2. job \in Jobs /\ job.call # "validate" /\ Lists(batch, Len(job.uid), 1..Len(job.uid))
    BY <1>1, JobOfCall DEF BatchInv
  <1>3. gradient = Same(<<>>)
    BY <1>1, NoGradient
  <1> DEFINE s == [w \in 1..WorldSize |-> trained[w - 1]]
             u == Len(job.uid)
  <1>4. DOMAIN batch = 1..u
    BY <1>2 DEF Lists
  <1>5. WorldSize \in Nat \ {0} /\ Epochs \in Nat /\ \A w \in 1..WorldSize : w - 1 \in Ranks
    BY SizesNat DEF Ranks
  <1>6. s \in [1..WorldSize -> Seq(1..u)]
    <2>1. ASSUME NEW w \in 1..WorldSize PROVE trained[w - 1] \in Seq(1..u)
      <3> DEFINE r == w - 1
                 t == trained[r]
                 k == Len(t)
      <3>1. r \in Ranks
        BY <1>5
      <3> HIDE DEF r
      <3>2. t \in Seq(Members(chunk[r])) /\ chunk[r] = Block(batch, SizeOf(job), r)
        BY <1>1, <3>1, RankTrained
      <3>3. Block(batch, SizeOf(job), r) \in [1..SizeOf(job) -> 1..Len(job.uid)]
        BY <1>2, <3>1, BlockDistinct
      <3>4. Members(chunk[r]) \subseteq 1..u
        BY <3>2, <3>3 DEF Members
      <3> DEFINE V == Members(chunk[r])
      <3>5. t \in Seq(V) /\ V \subseteq 1..u
        BY <3>2, <3>4
      <3> HIDE DEF t, V, u
      <3>6. k \in Nat /\ t \in [1..k -> V]
        BY <3>5
      <3>7. t \in [1..k -> 1..u]
        BY <3>5, <3>6
      <3> HIDE DEF k
      <3>8. t \in Seq(1..u)
        BY <3>6, <3>7, EvaluatedIs
      <3> QED
        BY <3>8 DEF t, r
    <2> HIDE DEF u
    <2> QED
      BY <2>1
  <1>7. ASSUME NEW i \in 1..u PROVE Times(batch[i], FlattenSeq(s)) = Epochs
    <2>1. PICK g \in Ranks : \A r \in Ranks : batch[i] \in Members(Block(batch, SizeOf(job), r)) <=> r = g
      BY <1>2, RowOfOneRank
    <2>2. \A r \in Ranks : Times(batch[i], trained[r]) = IF r = g THEN Epochs ELSE 0
      <3> TAKE r \in Ranks
      <3>1. /\ trained[r] \in Seq(Members(chunk[r])) /\ chunk[r] = Block(batch, SizeOf(job), r)
            /\ \A x \in Members(chunk[r]) : Times(x, trained[r]) = Epochs
        BY <1>1, RankTrained
      <3>2. CASE r = g
        BY <2>1, <3>1, <3>2
      <3>3. CASE r # g
        <4>1. batch[i] \notin Members(chunk[r])
          BY <2>1, <3>1, <3>3
        <4> DEFINE V == Members(chunk[r])
                   t == trained[r]
                   x == batch[i]
        <4>2. t \in Seq(V) /\ x \notin V
          BY <3>1, <4>1
        <4> HIDE DEF V, t, x
        <4>3. Times(x, t) = 0
          BY <4>2, TimesNone
        <4> QED
          BY <3>3, <4>3 DEF t, x
      <3> QED
        BY <3>2, <3>3
    <2>3. g + 1 \in 1..WorldSize /\ \A w \in 1..WorldSize : w - 1 = g <=> w = g + 1
      BY <1>5 DEF Ranks
    <2>4. \A w \in 1..WorldSize : s[w] = trained[w - 1]
      OBVIOUS
    <2> HIDE DEF s, u
    <2>5. OnlyIn(batch[i], s, WorldSize, g + 1, Epochs)
      BY <1>5, <2>2, <2>3, <2>4 DEF OnlyIn
    <2> DEFINE x == batch[i]
               h == g + 1
               V == 1..u
    <2>6. OnlyIn(x, s, WorldSize, h, Epochs) /\ s \in [1..WorldSize -> Seq(V)] /\ h \in 1..WorldSize /\ WorldSize \in Nat
      BY <1>5, <1>6, <2>3, <2>5
    <2> HIDE DEF x, h, V
    <2>7. Times(x, FlattenSeq(s)) = Epochs
      BY <1>5, <2>6, TimesConcat
    <2> QED
      BY <2>7 DEF x
  <1>8. \A i \in DOMAIN batch : Times(batch[i], Concat([w \in 1..WorldSize |-> trained[w - 1]])) = Epochs
    BY <1>4, <1>7 DEF Concat
  <1> QED
    BY <1>1, <1>3, <1>8 DEF TrainInv, PerRank, Same, Working

LEMMA TrainNext == ASSUME LockInv, DataInv, TrainInv, [Next]_vars PROVE TrainInv'
  <1>1. ASSUME NEW r \in Ranks, Generate(r) \/ Plan(r) \/ Arrange(r) \/ Gather(r) \/ ComputeAdvantages(r)
        PROVE  TrainInv'
    BY <1>1, TrainGenerate, TrainPlan, TrainArrange, TrainGather, TrainComputeAdvantages
  <1>2. CASE CallGenerate \/ CallReal \/ CallLogProb \/ CallUpdate \/ Collect \/ Return
    BY <1>2, TrainCallGenerate, TrainCallEval, TrainCallUpdate, TrainCollect, TrainReturn
  <1>3. CASE ReduceCount \/ CompareCounts \/ Forward \/ Step
    BY <1>3, TrainReduceCount, TrainCompareCounts, TrainForward, TrainOptimizerStep
  <1>4. CASE Finished \/ UNCHANGED vars
    BY <1>4, TrainStutter DEF Finished
  <1> QED
    BY <1>1, <1>2, <1>3, <1>4 DEF Next

LEMMA TrainSafe == ASSUME LockInv, DataInv, TrainInv PROVE TrainsOnItsBatch
  <1>1. ASSUME NEW r \in Ranks, at[r] = "step"
        PROVE  \A p \in DOMAIN chunk[r] :
                 Times(packs[r][p], [i \in DOMAIN gradient[r] |-> gradient[r][i].row])
                   = IF p \in ToSet(Mini(r)) THEN 1 ELSE 0
    <2> DEFINE rows == [i \in DOMAIN gradient[r] |-> gradient[r][i].row]
               m == Mini(r)
               n == SizeOf(job)
               x == EndIn(pc, job, Turn(r))
               y == EndIn(pc, job, Turn(r) + 1)
    <2>1. pc \in Working
      BY <1>1, InCall DEF Idle
    <2>2. /\ job \in Jobs /\ job.call # "validate" /\ BatchInv
          /\ RankInv(r) /\ RankAt(r) /\ TrainRank(r)
      BY <1>1, <2>1, JobOfCall DEF Busy, TrainInv, TrainRank
    <2>3. \A p \in 1..n : Times(packs[r][p], rows) = IF x < p /\ p <= y THEN 1 ELSE 0
      BY <1>1, <2>2, StepRows
    <2>4. DOMAIN chunk[r] = 1..n
      BY <2>2 DEF RankInv, RowsInv, RowsAre, Block
    <2>5. /\ x \in Nat /\ y \in 1..n /\ y - x \in Nat \ {0} /\ Len(m) = y - x /\ n \in Nat \ {0}
          /\ m \in Seq(1..n) /\ \A a \in 1..(y - x) : m[a] = x + a
      BY <2>2 DEF RankAt, MiniIs, Mini, Turn
    <2> HIDE DEF rows, m, n, x, y
    <2>6. ToSet(m) = {m[a] : a \in 1..(y - x)}
      BY <2>5 DEF ToSet
    <2>7. \A p \in 1..n : p \in ToSet(m) <=> x < p /\ p <= y
      <3> TAKE p \in 1..n
      <3>1. ASSUME p \in ToSet(m) PROVE x < p /\ p <= y
        <4>1. PICK a \in 1..(y - x) : m[a] = p
          BY <2>6, <3>1
        <4> QED
          BY <2>5, <4>1
      <3>2. ASSUME x < p, p <= y PROVE p \in ToSet(m)
        <4>1. p - x \in 1..(y - x) /\ x + (p - x) = p
          BY <2>5, <3>2
        <4>2. m[p - x] = p
          BY <2>5, <4>1
        <4> QED
          BY <2>6, <4>1, <4>2
      <3> QED
        BY <3>1, <3>2
    <2> QED
      BY <2>3, <2>4, <2>7 DEF rows, m
  <1> QED
    BY <1>1 DEF TrainInv, TrainsOnItsBatch

\* Whatever the batch, the number of ranks, the size of the mini-batches and
\* the micro-batches the ranks agree on, an optimizer step of update_policy
\* uses every row of the rank's mini-batch once and no other, and an update
\* trains every row of the driver's batch once in each of its epochs.
THEOREM TrainsOnItsBatchCorrect == Spec => []TrainsOnItsBatch
  <1>1. Init => LockInv /\ DataInv /\ TrainInv
    BY LockInit, DataInit, TrainInit
  <1>2. (LockInv /\ DataInv /\ TrainInv) /\ [Next]_vars => (LockInv /\ DataInv /\ TrainInv)'
    BY LockNext, DataNext, TrainNext
  <1>3. LockInv /\ DataInv /\ TrainInv => TrainsOnItsBatch
    BY TrainSafe
  <1> QED
    BY <1>1, <1>2, <1>3, PTL DEF Spec

-----------------------------------------------------------------------------
(* What a row is compared with: sorting rows by their prompt *)

\* The place of a member in the order.
LEMMA InOrderRanks ==
  ASSUME NEW S, IsFiniteSet(S), NEW R, StrictOrder(R, S), NEW i \in 1..Cardinality(S)
  PROVE  InOrder(S, R)[i] \in S /\ Rank(S, R, InOrder(S, R)[i]) = i - 1
  <1> DEFINE n == Cardinality(S)
             f == InOrder(S, R)
             D == {y \in S : <<y, f[i]>> \in R}
             h == [a \in 1..(i - 1) |-> f[a]]
  <1>1. n \in Nat
    BY FS_CardinalityType
  <1>2. Lists(f, n, S) /\ \A a, b \in 1..n : a < b => <<f[a], f[b]>> \in R
    BY InOrderLists
  <1>3. i \in 1..n
    OBVIOUS
  <1> HIDE DEF n, f
  <1>4. /\ \A a \in 1..n : f[a] \in S
        /\ \A a, b \in 1..n : f[a] = f[b] => a = b
        /\ \A y \in S : \E a \in 1..n : f[a] = y
    BY <1>2 DEF Lists
  <1>5. \A a \in 1..(i - 1) : a \in 1..n /\ a < i
    BY <1>1, <1>3
  <1>6. \A a \in 1..(i - 1) : f[a] \in D
    BY <1>2, <1>3, <1>4, <1>5
  <1>7. \A y \in D : \E a \in 1..(i - 1) : f[a] = y
    <2> TAKE y \in D
    <2>1. PICK a \in 1..n : f[a] = y
      BY <1>4
    <2>2. <<f[a], f[i]>> \in R
      BY <2>1
    <2>3. ~(i < a) /\ a # i
      <3>1. <<f[a], f[a]>> \notin R
        BY <1>4 DEF StrictOrder
      <3>2. a # i
        BY <2>2, <3>1
      <3>3. ASSUME i < a PROVE FALSE
        <4>1. <<f[i], f[a]>> \in R
          BY <1>2, <1>3, <3>3
        <4>2. <<f[a], f[a]>> \in R
          BY <1>3, <1>4, <2>2, <4>1 DEF StrictOrder
        <4> QED
          BY <3>1, <4>2
      <3> QED
        BY <3>2, <3>3
    <2>4. a \in 1..(i - 1)
      BY <1>1, <1>3, <2>3
    <2> QED
      BY <2>1, <2>4
  <1>8. Cardinality(D) = i - 1
    <2>1. h \in [1..(i - 1) -> D]
      BY <1>6
    <2>2. \A a, b \in 1..(i - 1) : h[a] = h[b] => a = b
      BY <1>4, <1>5
    <2>3. \A y \in D : \E a \in 1..(i - 1) : h[a] = y
      BY <1>7
    <2> HIDE DEF h, D
    <2>4. h \in Bijection(1..(i - 1), D)
      BY <2>1, <2>2, <2>3 DEF Bijection, Injection, Surjection, IsInjective
    <2>5. ExistsBijection(1..(i - 1), D)
      BY <2>4 DEF ExistsBijection
    <2>6. i - 1 \in Nat
      BY <1>1, <1>3
    <2> QED
      BY <2>5, <2>6, FS_CountingElements
  <1>9. f[i] \in S /\ Rank(S, R, f[i]) = i - 1
    BY <1>3, <1>4, <1>8 DEF Rank
  <1> QED
    BY <1>9 DEF f

\* Sorting by a number, equal ones by position, when equal numbers stand
\* together in blocks of m.
ByKey(R, g, n) == \A i, k \in 1..n : <<i, k>> \in R <=> g[i] < g[k] \/ (g[i] = g[k] /\ i < k)
InGroups(g, n, m, q) ==
  /\ n \in Nat /\ g \in [1..n -> Nat] /\ m \in Nat \ {0} /\ q \in Nat /\ n = q * m
  /\ \A a, b \in 1..n : g[a] = g[b] <=> (a - 1) \div m = (b - 1) \div m

\* The blocks whose number is less than v.
Lower(g, m, q, v) == {b \in 0..(q - 1) : g[b * m + 1] < v}

\* x is a place of one of q blocks of m.
InBlock(x, m, q) ==
  \E b \in 0..(q - 1) : \E c \in 1..m : x = b * m + c /\ (x - 1) \div m = b /\ b * m \in Nat

LEMMA BlockOf ==
  ASSUME NEW m \in Nat \ {0}, NEW q \in Nat, NEW x \in 1..(q * m)
  PROVE  InBlock(x, m, q)
  <1>1. InBlocks(m, q, q * m)
    BY Blocks
  <1>2. PICK b \in 0..(q - 1) : \E c \in 1..m : x = b * m + c
    BY <1>1 DEF InBlocks
  <1>3. PICK c \in 1..m : x = b * m + c
    BY <1>2
  <1>4. b \in Nat /\ b * m \in Nat
    OBVIOUS
  <1> DEFINE y == b * m
  <1>5. x - 1 \in Nat /\ c - 1 \in 0..(m - 1) /\ x - 1 = y + (c - 1)
    <2>1. y \in Nat /\ x = y + c
      BY <1>3, <1>4
    <2> HIDE DEF y
    <2> QED
      BY <2>1
  <1>6. (x - 1) \div m = b
    <2> DEFINE z == x - 1
               d == c - 1
    <2>1. z \in Nat /\ d \in 0..(m - 1) /\ z = b * m + d
      BY <1>5
    <2> HIDE DEF z, d
    <2>2. z \div m = b
      BY <1>4, <2>1, QuotientOnly
    <2> QED
      BY <2>2 DEF z
  <1> QED
    BY <1>3, <1>4, <1>6 DEF InBlock

\* The number of places in a set of blocks.
LEMMA BlocksCount ==
  ASSUME NEW m \in Nat \ {0}, NEW q \in Nat, NEW n \in Nat, n = q * m, NEW L \in SUBSET (0..(q - 1)), NEW A,
         \A x : x \in A <=> \E b \in L : \E c \in 1..m : x = b * m + c
  PROVE  /\ IsFiniteSet(L) /\ Cardinality(L) \in Nat
         /\ IsFiniteSet(A) /\ Cardinality(A) = Cardinality(L) * m
  <1>1. InBlocks(m, q, q * m)
    BY Blocks
  <1>2. IsFiniteSet(0..(q - 1)) /\ IsFiniteSet(1..m) /\ Cardinality(1..m) = m
    BY FS_Interval
  <1>3. IsFiniteSet(L) /\ Cardinality(L) \in Nat
    BY <1>2, FS_Subset, FS_CardinalityType
  <1>4. IsFiniteSet(L \X (1..m)) /\ Cardinality(L \X (1..m)) = Cardinality(L) * m
    BY <1>2, <1>3, FS_Product
  <1> DEFINE T == 1..m
             h == [bc \in L \X T |-> bc[1] * m + bc[2]]
  <1>5. \A b \in L : \A c \in T : <<b, c>> \in L \X T /\ h[<<b, c>>] = b * m + c
    OBVIOUS
  <1>6. \A z \in L \X T : z[1] \in L /\ z[2] \in T /\ z = <<z[1], z[2]>>
    OBVIOUS
  <1>7. \A b, d \in L : \A c, k \in T : b * m + c = d * m + k => b = d /\ c = k
    BY <1>1 DEF InBlocks
  <1>8. \A x : x \in A <=> \E b \in L : \E c \in T : x = b * m + c
    OBVIOUS
  <1>9. h = [z \in L \X T |-> h[z]]
    OBVIOUS
  <1> HIDE DEF T, h
  <1>15. \A z \in L \X T : h[z] = z[1] * m + z[2]
    <2> TAKE z \in L \X T
    <2> QED
      BY <1>5, <1>6
  <1>10. \A z \in L \X T : h[z] \in A
    <2> TAKE z \in L \X T
    <2>1. h[z] = z[1] * m + z[2] /\ z[1] \in L /\ z[2] \in T
      BY <1>6, <1>15
    <2> QED
      BY <1>8, <2>1
  <1>11. \A z, y \in L \X T : h[z] = h[y] => z = y
    <2> SUFFICES ASSUME NEW z \in L \X T, NEW y \in L \X T, h[z] = h[y] PROVE z = y
      OBVIOUS
    <2>1. z[1] * m + z[2] = y[1] * m + y[2]
      BY <1>15
    <2>2. z[1] \in L /\ z[2] \in T /\ z = <<z[1], z[2]>> /\ y[1] \in L /\ y[2] \in T /\ y = <<y[1], y[2]>>
      BY <1>6
    <2> DEFINE b == z[1]
               c == z[2]
               d == y[1]
               k == y[2]
    <2>4. b \in L /\ c \in T /\ d \in L /\ k \in T /\ b * m + c = d * m + k
      BY <2>1, <2>2
    <2> HIDE DEF b, c, d, k
    <2>5. b = d /\ c = k
      BY <1>7, <2>4
    <2>3. z[1] = y[1] /\ z[2] = y[2]
      BY <2>5 DEF b, c, d, k
    <2> QED
      BY <2>2, <2>3
  <1>12. \A x \in A : \E z \in L \X T : h[z] = x
    <2> TAKE x \in A
    <2>1. PICK b \in L : \E c \in T : x = b * m + c
      BY <1>8
    <2>2. PICK c \in T : x = b * m + c
      BY <2>1
    <2>3. <<b, c>> \in L \X T /\ h[<<b, c>>] = x
      BY <1>5, <2>2
    <2> QED
      BY <2>3
  <1>13. ExistsBijection(L \X T, A)
    <2>1. h \in [L \X T -> A]
      BY <1>9, <1>10
    <2>2. h \in Bijection(L \X T, A)
      BY <1>11, <1>12, <2>1 DEF Bijection, Injection, Surjection, IsInjective
    <2> QED
      BY <2>2 DEF ExistsBijection
  <1>14. IsFiniteSet(A) /\ Cardinality(A) = Cardinality(L \X T)
    BY <1>4, <1>13, FS_Bijection DEF T
  <1> QED
    BY <1>3, <1>4, <1>14 DEF T

\* All places of a block have the number of its first place.
OneNumber(g, n, m, q) ==
  \A d \in 0..(q - 1), k \in 1..m :
    d * m + k \in 1..n /\ g[d * m + k] = g[d * m + 1] /\ g[d * m + 1] \in Nat

LEMMA OneGroup ==
  ASSUME NEW n, NEW g, NEW m, NEW q, InGroups(g, n, m, q)
  PROVE  OneNumber(g, n, m, q)
  <1> SUFFICES ASSUME NEW d \in 0..(q - 1), NEW k \in 1..m
               PROVE  d * m + k \in 1..n /\ g[d * m + k] = g[d * m + 1] /\ g[d * m + 1] \in Nat
    BY DEF OneNumber
  <1>12. n \in Nat /\ m \in Nat \ {0} /\ q \in Nat /\ n = q * m /\ \A a \in 1..n : g[a] \in Nat
    BY DEF InGroups
  <1>0. InBlocks(m, q, n)
    BY <1>12, Blocks
  <1>1. 1 \in 1..m
    BY <1>12
  <1>2. d * m + k \in 1..n /\ d * m + 1 \in 1..n /\ d * m \in Nat
    BY <1>0, <1>1 DEF InBlocks
  <1> DEFINE w == d * m
             z == (w + k) - 1
             v == (w + 1) - 1
  <1>3. w \in Nat /\ w = d * m
    BY <1>2
  <1> HIDE DEF w
  <1>4. z \in Nat /\ k - 1 \in 0..(m - 1) /\ z = w + (k - 1) /\ v \in Nat /\ v = w + 0 /\ 0 \in 0..(m - 1)
    BY <1>3, <1>12
  <1> HIDE DEF z, v
  <1>5. d \in Nat /\ m \in Nat \ {0}
    BY <1>12
  <1>6. z = d * m + (k - 1) /\ v = d * m + 0
    BY <1>3, <1>4
  <1>7. z \div m = d
    BY <1>4, <1>5, <1>6, QuotientOnly
  <1>8. v \div m = d
    BY <1>4, <1>5, <1>6, QuotientOnly
  <1>9. ((w + k) - 1) \div m = ((w + 1) - 1) \div m
    BY <1>7, <1>8 DEF z, v
  <1>10. w + k \in 1..n /\ w + 1 \in 1..n
    BY <1>2, <1>3
  <1>11. g[w + k] = g[w + 1] /\ g[w + 1] \in Nat
    BY <1>9, <1>10, <1>12 DEF InGroups
  <1> QED
    BY <1>2, <1>3, <1>11

\* The order of a place: all places of the blocks whose number is less, and
\* some of its own block.
RankIs(g, n, m, q, R, x) ==
  /\ IsFiniteSet(Lower(g, m, q, g[x])) /\ Cardinality(Lower(g, m, q, g[x])) \in Nat
  /\ \E c \in 0..(m - 1) : Rank(1..n, R, x) = Cardinality(Lower(g, m, q, g[x])) * m + c

LEMMA RankOfBlock ==
  ASSUME NEW n, NEW g, NEW m, NEW q, InGroups(g, n, m, q), NEW R, ByKey(R, g, n), NEW x \in 1..n
  PROVE  RankIs(g, n, m, q, R, x)
  <1>14. n \in Nat /\ g \in [1..n -> Nat] /\ m \in Nat \ {0} /\ q \in Nat /\ n = q * m
    BY DEF InGroups
  <1> DEFINE L == Lower(g, m, q, g[x])
             A == {y \in 1..n : g[y] < g[x]}
             C == {y \in 1..n : g[y] = g[x] /\ y < x}
  <1>1. InBlocks(m, q, n)
    BY <1>14, Blocks
  <1>13. InBlock(x, m, q)
    BY <1>14, BlockOf
  <1>2. PICK b \in 0..(q - 1) : \E c \in 1..m : x = b * m + c /\ (x - 1) \div m = b /\ b * m \in Nat
    BY <1>13 DEF InBlock
  <1>3. PICK c \in 1..m : x = b * m + c /\ (x - 1) \div m = b /\ b * m \in Nat
    BY <1>2
  <1>4. \A d \in 0..(q - 1), k \in 1..m : d * m + k \in 1..n /\ g[d * m + k] = g[d * m + 1] /\ g[d * m + 1] \in Nat
    BY OneGroup DEF OneNumber
  <1>5. \A y : y \in A <=> \E d \in L : \E k \in 1..m : y = d * m + k
    <2>1. ASSUME NEW d \in L, NEW k \in 1..m PROVE d * m + k \in A
      <3>1. d \in 0..(q - 1) /\ g[d * m + 1] < g[x]
        BY DEF Lower
      <3> QED
        BY <1>4, <3>1
    <2>2. ASSUME NEW y \in A PROVE \E d \in L : \E k \in 1..m : y = d * m + k
      <3>1. PICK d \in 0..(q - 1) : \E k \in 1..m : y = d * m + k
        BY <1>1 DEF InBlocks
      <3>2. PICK k \in 1..m : y = d * m + k
        BY <3>1
      <3>3. g[d * m + 1] < g[x]
        BY <1>4, <3>2
      <3>4. d \in L
        BY <3>3 DEF Lower
      <3> QED
        BY <3>2, <3>4
    <2> HIDE DEF L, A
    <2>3. ASSUME NEW y, \E d \in L : \E k \in 1..m : y = d * m + k PROVE y \in A
      <3>1. PICK d \in L : \E k \in 1..m : y = d * m + k
        BY <2>3
      <3>2. PICK k \in 1..m : y = d * m + k
        BY <3>1
      <3> QED
        BY <2>1, <3>2
    <2> QED
      BY <2>2, <2>3
  <1>6. L \in SUBSET (0..(q - 1))
    BY DEF Lower
  <1>7. /\ IsFiniteSet(L) /\ Cardinality(L) \in Nat
        /\ IsFiniteSet(A) /\ Cardinality(A) = Cardinality(L) * m
    <2> HIDE DEF L, A
    <2> QED
      BY <1>5, <1>6, <1>14, BlocksCount
  <1>8. IsFiniteSet(C) /\ Cardinality(C) \in 0..(m - 1)
    <2> DEFINE w == b * m
               h == [k \in 1..(c - 1) |-> w + k]
    <2>1. w \in Nat /\ x = w + c /\ c \in 1..m /\ w = b * m /\ m \in Nat
      BY <1>3, <1>14
    <2>2. \A k \in 1..(c - 1) : w + k \in C
      <3> TAKE k \in 1..(c - 1)
      <3>1. k \in 1..m /\ w + k < x
        BY <2>1
      <3>2. g[b * m + k] = g[b * m + 1] /\ b * m + k \in 1..n /\ g[b * m + c] = g[b * m + 1]
        BY <1>4, <3>1
      <3> QED
        BY <1>3, <3>1, <3>2
    <2>3. \A y \in C : \E k \in 1..(c - 1) : w + k = y
      <3> TAKE y \in C
      <3>1. y \in 1..n /\ g[y] = g[x] /\ y < x
        OBVIOUS
      <3>2. (y - 1) \div m = b
        BY <1>3, <3>1 DEF InGroups
      <3>7. InBlock(y, m, q)
        BY <1>14, <3>1, BlockOf
      <3>3. PICK d \in 0..(q - 1) : \E k \in 1..m : y = d * m + k /\ (y - 1) \div m = d /\ d * m \in Nat
        BY <3>7 DEF InBlock
      <3>4. PICK k \in 1..m : y = d * m + k /\ (y - 1) \div m = d
        BY <3>3
      <3>5. y = w + k
        BY <3>2, <3>4
      <3> HIDE DEF w
      <3>6. k \in 1..(c - 1)
        BY <2>1, <3>1, <3>5
      <3> QED
        BY <3>5, <3>6
    <2> HIDE DEF w, C
    <2>4. h \in [1..(c - 1) -> C]
      BY <2>2
    <2>5. \A i, k \in 1..(c - 1) : h[i] = h[k] => i = k
      BY <2>1
    <2>6. \A y \in C : \E k \in 1..(c - 1) : h[k] = y
      BY <2>3
    <2> HIDE DEF h
    <2>7. h \in Bijection(1..(c - 1), C)
      BY <2>4, <2>5, <2>6 DEF Bijection, Injection, Surjection, IsInjective
    <2>8. ExistsBijection(1..(c - 1), C) /\ c - 1 \in Nat /\ c - 1 \in 0..(m - 1)
      BY <1>14, <2>7 DEF ExistsBijection
    <2>9. IsFiniteSet(1..(c - 1)) /\ Cardinality(1..(c - 1)) = c - 1
      BY <2>8, FS_Interval
    <2>10. IsFiniteSet(C) /\ Cardinality(C) = Cardinality(1..(c - 1))
      BY <2>8, <2>9, FS_Bijection
    <2> QED
      BY <2>8, <2>9, <2>10
  <1>9. Rank(1..n, R, x) = Cardinality(A \cup C) /\ A \cap C = {}
    <2>1. \A y \in 1..n : g[y] \in Nat
      BY <1>14
    <2>2. {y \in 1..n : <<y, x>> \in R} = A \cup C
      BY DEF ByKey
    <2>3. A \cap C = {}
      BY <2>1
    <2> QED
      BY <2>2, <2>3 DEF Rank
  <1> HIDE DEF L, A, C
  <1>10. Cardinality(A \cup C) = Cardinality(A) + Cardinality(C) - Cardinality(A \cap C)
    BY <1>7, <1>8, FS_Union
  <1>11. Cardinality(A \cap C) = 0
    BY <1>9, FS_EmptySet
  <1>12. Rank(1..n, R, x) = Cardinality(L) * m + Cardinality(C)
    <2> DEFINE na == Cardinality(A)
               nc == Cardinality(C)
    <2>1. Cardinality(A \cup C) = na + nc - Cardinality(A \cap C) /\ na = Cardinality(L) * m
      BY <1>7, <1>10
    <2>2. na \in Nat /\ nc \in Nat
      BY <1>7, <1>8, FS_CardinalityType
    <2> HIDE DEF na, nc
    <2>3. Cardinality(A \cup C) = na + nc
      BY <1>11, <2>1, <2>2
    <2> QED
      BY <1>9, <2>1, <2>3 DEF nc
  <1> QED
    BY <1>7, <1>8, <1>12 DEF L, RankIs

\* Sorted by the number, equal numbers stand together in blocks of m again.
LEMMA SortedGroups ==
  ASSUME NEW n, NEW g, NEW m, NEW q, InGroups(g, n, m, q),
         NEW R, ByKey(R, g, n), NEW f, f = InOrder(1..n, R)
  PROVE  \A i, k \in 1..n : g[f[i]] = g[f[k]] <=> (i - 1) \div m = (k - 1) \div m
  <1> DEFINE below(v) == Lower(g, m, q, v)
             size(v) == Cardinality(below(v))
  <1>0. n \in Nat /\ g \in [1..n -> Nat] /\ m \in Nat \ {0} /\ q \in Nat /\ n = q * m
    BY DEF InGroups
  <1>1. StrictOrder(R, 1..n)
    BY <1>0, KeyOrder DEF ByKey
  <1>2. IsFiniteSet(1..n) /\ Cardinality(1..n) = n
    <2>1. n \in Nat
      BY <1>0
    <2>2. 1 \in Int /\ n \in Int
      BY <2>1
    <2>3. IsFiniteSet(1..n) /\ Cardinality(1..n) = IF 1 > n THEN 0 ELSE n - 1 + 1
      BY <2>2, FS_Interval
    <2> QED
      BY <2>1, <2>3
  <1>3. \A x \in 1..n : g[x] \in Nat
    BY <1>0
  <1>4. ASSUME NEW x \in 1..n
        PROVE  /\ IsFiniteSet(below(g[x])) /\ size(g[x]) \in Nat
               /\ \E c \in 0..(m - 1) : Rank(1..n, R, x) = size(g[x]) * m + c
    <2>1. RankIs(g, n, m, q, R, x)
      BY RankOfBlock
    <2> QED
      BY <2>1 DEF RankIs
  <1>5. ASSUME NEW x \in 1..n, NEW y \in 1..n, g[x] < g[y] PROVE size(g[x]) < size(g[y])
    <2>1. InBlock(x, m, q)
      BY <1>0, BlockOf
    <2>2. PICK b \in 0..(q - 1) : \E c \in 1..m : x = b * m + c
      BY <2>1 DEF InBlock
    <2>3. PICK c \in 1..m : x = b * m + c
      BY <2>2
    <2>4. g[b * m + 1] = g[x] /\ g[b * m + 1] \in Nat
      BY <2>3, OneGroup DEF OneNumber
    <2>5. b \in below(g[y]) /\ b \notin below(g[x])
      BY <1>3, <1>5, <2>4 DEF Lower
    <2>6. below(g[x]) \subseteq below(g[y])
      <3>1. \A d \in 0..(q - 1) : g[d * m + 1] \in Nat
        <4>1. 1 \in 1..m
          BY <1>0
        <4> QED
          BY <4>1, OneGroup DEF OneNumber
      <3>2. g[x] \in Nat /\ g[y] \in Nat /\ g[x] < g[y]
        BY <1>3, <1>5
      <3>3. \A d \in 0..(q - 1) : g[d * m + 1] < g[x] => g[d * m + 1] < g[y]
        BY <3>1, <3>2
      <3> QED
        BY <3>3 DEF Lower
    <2>7. IsFiniteSet(below(g[y])) /\ size(g[y]) \in Nat /\ size(g[x]) \in Nat
      BY <1>4
    <2> HIDE DEF below
    <2>8. /\ Cardinality(below(g[x])) <= Cardinality(below(g[y]))
          /\ Cardinality(below(g[x])) = Cardinality(below(g[y])) => below(g[x]) = below(g[y])
      BY <2>6, <2>7, FS_Subset
    <2>9. Cardinality(below(g[x])) # Cardinality(below(g[y]))
      BY <2>5, <2>8
    <2> QED
      BY <2>7, <2>8, <2>9
  <1>6. ASSUME NEW i \in 1..n PROVE f[i] \in 1..n /\ (i - 1) \div m = size(g[f[i]])
    <2> DEFINE x == f[i]
    <2>1. x \in 1..n /\ Rank(1..n, R, x) = i - 1
      BY <1>1, <1>2, InOrderRanks
    <2> HIDE DEF x
    <2> DEFINE s == size(g[x])
               z == i - 1
    <2>2. s \in Nat /\ \E c \in 0..(m - 1) : Rank(1..n, R, x) = s * m + c
      BY <1>4, <2>1
    <2>3. PICK c \in 0..(m - 1) : Rank(1..n, R, x) = s * m + c
      BY <2>2
    <2>4. z \in Nat /\ s \in Nat /\ z = s * m + c /\ m \in Nat \ {0}
      BY <1>0, <2>1, <2>2, <2>3
    <2> HIDE DEF s, z
    <2>5. z \div m = s
      BY <2>4, QuotientOnly
    <2> QED
      BY <2>1, <2>5 DEF s, x, z
  <1> HIDE DEF size
  <1>7. ASSUME NEW i \in 1..n, NEW k \in 1..n
        PROVE  g[f[i]] = g[f[k]] <=> (i - 1) \div m = (k - 1) \div m
    <2> DEFINE x == f[i]
               y == f[k]
    <2>1. x \in 1..n /\ y \in 1..n /\ (i - 1) \div m = size(g[x]) /\ (k - 1) \div m = size(g[y])
      BY <1>6
    <2> HIDE DEF x, y
    <2>2. size(g[x]) \in Nat /\ size(g[y]) \in Nat
      BY <1>4, <2>1 DEF size
    <2>3. g[x] < g[y] => size(g[x]) < size(g[y])
      BY <1>5, <2>1
    <2>4. g[y] < g[x] => size(g[y]) < size(g[x])
      BY <1>5, <2>1
    <2>5. g[x] < g[y] \/ g[y] < g[x] \/ g[x] = g[y]
      BY <1>3, <2>1
    <2>6. g[x] = g[y] <=> size(g[x]) = size(g[y])
      <3>1. g[x] # g[y] => size(g[x]) # size(g[y])
        BY <2>2, <2>3, <2>4, <2>5
      <3> QED
        BY <3>1
    <2> QED
      BY <2>1, <2>6 DEF x, y
  <1> QED
    BY <1>7

-----------------------------------------------------------------------------
(* What a row is compared with: the fourth invariant *)

\* A prompt's responses follow each other in the batch, as many for every
\* prompt, and a rank gets all of them.
GroupsOf(j, m) ==
  /\ SizeOf(j) % m = 0
  /\ \A a, b \in 1..Len(j.uid) : j.uid[a] = j.uid[b] <=> (a - 1) \div m = (b - 1) \div m

Together(j) == \E m \in 1..SizeOf(j) : GroupsOf(j, m)

\* The other responses to the prompt of a row.
Siblings(j, rows, x) == {y \in Members(rows) : j.uid[y] = j.uid[x]} \ {x}

\* What a row of a rank is trained with.
JudgedInv(r) ==
  \A p \in 1..SizeOf(job) :
    /\ advantage[r][p].own = packs[r][p]
    /\ pc = "real" => advantage[r][p].others = Siblings(job, chunk[r], packs[r][p])

AdvantageInv ==
  /\ PerRank(advantage)
  /\ pc \in Working => \A r \in Ranks :
       /\ pc = "real" => packs[r] = PacksOf(chunk[r])
       /\ stage[r] = "train" => JudgedInv(r)

\* The prompts of a rank's rows.
PromptsOf(j, rows) == [p \in 1..SizeOf(j) |-> j.uid[rows[p]]]

\* The responses to a prompt stand together in a chunk.
LEMMA ChunkGroups ==
  ASSUME NEW j \in Jobs, j.call # "validate", Together(j), NEW r \in Ranks
  PROVE  \E m, q : InGroups(PromptsOf(j, Block(Rows(Len(j.uid)), SizeOf(j), r)), SizeOf(j), m, q)
  <1> DEFINE n == SizeOf(j)
             u == Len(j.uid)
             g == PromptsOf(j, Block(Rows(u), n, r))
  <1>1. n \in Nat \ {0} /\ \A p \in 1..n : r * n + p \in 1..u
    BY JobSizes, BlockPlaces
  <1>2. PICK m \in 1..n : GroupsOf(j, m)
    BY DEF Together
  <1>3. /\ n % m = 0
        /\ \A a, b \in 1..u : j.uid[a] = j.uid[b] <=> (a - 1) \div m = (b - 1) \div m
    BY <1>2 DEF GroupsOf
  <1>4. \A x \in 1..u : j.uid[x] \in Nat
    <2>1. j.uid \in Seq(Nat)
      BY WorkerCallAssumption
    <2> QED
      BY <2>1
  <1>5. g = [p \in 1..n |-> j.uid[r * n + p]]
    <2>1. \A p \in 1..n : Rows(u)[r * n + p] = r * n + p
      BY <1>1 DEF Rows
    <2>2. \A p \in 1..n : Block(Rows(u), n, r)[p] = r * n + p
      BY <2>1 DEF Block
    <2> QED
      BY <2>2 DEF PromptsOf
  <1> HIDE DEF n, u, g
  <1> DEFINE q == n \div m
  <1>6. m \in Nat \ {0} /\ q \in Nat /\ n = q * m
    <2>1. m \in Nat \ {0} /\ n \in Nat
      BY <1>1
    <2> HIDE DEF q
    <2>2. n \div m \in Nat /\ n = (n \div m) * m
      BY <1>3, <2>1, Divides
    <2> QED
      BY <2>1, <2>2 DEF q
  <1> HIDE DEF q
  <1>7. r \in Nat /\ n \in Nat
    BY <1>1 DEF Ranks
  <1>8. ASSUME NEW p \in 1..n
        PROVE  ((r * n + p) - 1) \div m = r * q + ((p - 1) \div m) /\ r * q \in Nat /\ (p - 1) \div m \in Nat
    <2> DEFINE x == p - 1
               b == x \div m
               c == x % m
    <2>1. x \in Nat
      BY <1>7
    <2>2. b \in Nat /\ c \in 0..(m - 1) /\ b * m \in Nat /\ x = b * m + c
      <3> HIDE DEF x
      <3> QED
        BY <1>6, <2>1, QuotientIs
    <2>6. p = x + 1
      BY <1>7
    <2> HIDE DEF x, b, c
    <2>3. r * q \in Nat /\ (r * q + b) * m = r * n + b * m /\ r * n \in Nat
      <3>1. \A h, k, l \in Nat : (h * k + b) * l = h * (k * l) + b * l /\ h * k \in Nat
        BY <2>2
      <3> QED
        BY <1>6, <1>7, <3>1
    <2> DEFINE z == (r * n + p) - 1
               d == r * q + b
               w == r * n
               v == b * m
    <2>4. z \in Nat /\ d \in Nat /\ z = d * m + c
      <3>1. z = (w + p) - 1 /\ w \in Nat /\ v \in Nat /\ x = v + c /\ d * m = w + v
        BY <2>2, <2>3
      <3>2. d \in Nat
        BY <2>2, <2>3
      <3> HIDE DEF w, v, z, d
      <3>3. z \in Nat /\ z = (w + v) + c
        BY <2>2, <2>6, <3>1
      <3> QED
        BY <3>1, <3>2, <3>3
    <2> HIDE DEF z, d
    <2>5. z \div m = d
      BY <1>6, <2>2, <2>4, QuotientOnly
    <2> QED
      BY <2>2, <2>3, <2>5 DEF z, d, b, x
  <1>9. \A a, b \in 1..n : g[a] = g[b] <=> (a - 1) \div m = (b - 1) \div m
    <2> TAKE a, b \in 1..n
    <2>1. g[a] = j.uid[r * n + a] /\ g[b] = j.uid[r * n + b] /\ r * n + a \in 1..u /\ r * n + b \in 1..u
      BY <1>1, <1>5
    <2>2. g[a] = g[b] <=> ((r * n + a) - 1) \div m = ((r * n + b) - 1) \div m
      BY <1>3, <2>1
    <2> DEFINE x == (a - 1) \div m
               y == (b - 1) \div m
               w == r * q
    <2>3. /\ ((r * n + a) - 1) \div m = w + x /\ ((r * n + b) - 1) \div m = w + y
          /\ w \in Nat /\ x \in Nat /\ y \in Nat
      BY <1>8
    <2> HIDE DEF x, y, w
    <2>4. w + x = w + y <=> x = y
      BY <2>3
    <2> QED
      BY <2>2, <2>3, <2>4 DEF x, y
  <1>10. g \in [1..n -> Nat]
    BY <1>1, <1>4, <1>5
  <1>11. InGroups(g, n, m, q)
    BY <1>6, <1>7, <1>9, <1>10 DEF InGroups
  <1> QED
    BY <1>11 DEF g, n, u

\* Prompts of rows in their order and of the same rows ordered by prompt: the
\* responses to a prompt stand at the same places.
SamePlaces(uid, n, rows, inputs) ==
  \A i, k \in 1..n : uid[inputs[i]] = uid[inputs[k]] <=> uid[rows[i]] = uid[rows[k]]

LEMMA PacksTogether ==
  ASSUME job \in Jobs, NEW n \in Nat, NEW rows \in [1..n -> 1..Len(job.uid)],
         n = SizeOf(job), NEW m, NEW q, InGroups(PromptsOf(job, rows), n, m, q)
  PROVE  SamePlaces(job.uid, n, rows, PacksOf(rows))
  <1> DEFINE R == {ij \in (1..n) \X (1..n) : \/ job.uid[rows[ij[1]]] < job.uid[rows[ij[2]]]
                                             \/ /\ job.uid[rows[ij[1]]] = job.uid[rows[ij[2]]]
                                                /\ ij[1] < ij[2]}
             f == InOrder(1..n, R)
             g == PromptsOf(job, rows)
  <1>1. DOMAIN rows = 1..n /\ ByPrompt(rows) = f
    BY DEF ByPrompt
  <1>2. \A i \in 1..n : g[i] = job.uid[rows[i]]
    BY DEF PromptsOf
  <1>3. \A i, k \in 1..n : <<i, k>> \in R <=> \/ job.uid[rows[i]] < job.uid[rows[k]]
                                              \/ job.uid[rows[i]] = job.uid[rows[k]] /\ i < k
    OBVIOUS
  <1>14. \A x \in R : x \in (1..n) \X (1..n)
    OBVIOUS
  <1> HIDE DEF R, g
  <1>4. ByKey(R, g, n)
    <2>1. \A i, k \in 1..n : <<i, k>> \in R <=> \/ g[i] < g[k]
                                                \/ g[i] = g[k] /\ i < k
      <3> TAKE i, k \in 1..n
      <3> DEFINE a == job.uid[rows[i]]
                 b == job.uid[rows[k]]
      <3>1. g[i] = a /\ g[k] = b
        BY <1>2
      <3>2. <<i, k>> \in R <=> (a < b \/ (a = b /\ i < k))
        BY <1>3
      <3> HIDE DEF a, b
      <3> QED
        BY <3>1, <3>2
    <2> QED
      BY <2>1 DEF ByKey
  <1>5. InGroups(g, n, m, q)
    BY DEF g
  <1>6. StrictOrder(R, 1..n)
    <2>1. g \in [1..n -> Nat]
      BY <1>5 DEF InGroups
    <2> QED
      BY <1>4, <2>1, KeyOrder DEF ByKey
  <1>7. IsFiniteSet(1..n) /\ Cardinality(1..n) = n
    BY FS_Interval
  <1>8. Lists(f, n, 1..n)
    BY <1>6, <1>7, InOrderLists
  <1>9. f = InOrder(1..n, R)
    OBVIOUS
  <1> HIDE DEF f
  <1>10. \A i, k \in 1..n : g[f[i]] = g[f[k]] <=> (i - 1) \div m = (k - 1) \div m
    BY <1>4, <1>5, <1>9, SortedGroups
  <1>11. \A i, k \in 1..n : g[i] = g[k] <=> (i - 1) \div m = (k - 1) \div m
    BY <1>5 DEF InGroups
  <1>12. \A i \in 1..n : f[i] \in 1..n /\ PacksOf(rows)[i] = rows[f[i]]
    <2>1. f \in [1..n -> 1..n]
      BY <1>8 DEF Lists
    <2> QED
      BY <1>1, <2>1 DEF PacksOf, Reorder
  <1>13. \A i \in 1..n : g[f[i]] = job.uid[PacksOf(rows)[i]]
    BY <1>2, <1>12
  <1> QED
    BY <1>2, <1>10, <1>11, <1>13 DEF SamePlaces

\* What the inputs hold where the rows of a prompt are in the chunk.
AtPlaces(j, rows, inputs, i) ==
  {inputs[k] : k \in {k \in DOMAIN rows : j.uid[rows[k]] = j.uid[rows[i]]} \ {i}}

\* The responses REAL compares a row with are the others to its prompt.
LEMMA Compared ==
  ASSUME NEW j, NEW n, NEW rows, DOMAIN rows = 1..n, NEW inputs, Lists(inputs, n, Members(rows)),
         SamePlaces(j.uid, n, rows, inputs), NEW i \in 1..n
  PROVE  AtPlaces(j, rows, inputs, i) = Siblings(j, rows, inputs[i])
  <1> DEFINE G == {k \in 1..n : j.uid[rows[k]] = j.uid[rows[i]]} \ {i}
             A == {inputs[k] : k \in G}
             B == Siblings(j, rows, inputs[i])
  <1>1. /\ \A k \in 1..n : inputs[k] \in Members(rows)
        /\ \A k \in 1..n : inputs[k] = inputs[i] => k = i
        /\ \A y \in Members(rows) : \E k \in 1..n : inputs[k] = y
    BY DEF Lists
  <1>2. \A k \in 1..n : k \in G <=> j.uid[inputs[k]] = j.uid[inputs[i]] /\ k # i
    BY DEF SamePlaces
  <1>3. \A y : y \in B <=> y \in Members(rows) /\ j.uid[y] = j.uid[inputs[i]] /\ y # inputs[i]
    BY DEF Siblings
  <1>4. \A k \in G : k \in 1..n
    OBVIOUS
  <1>5. \A y : y \in A <=> \E k \in G : y = inputs[k]
    OBVIOUS
  <1> HIDE DEF G, A, B
  <1>6. \A y \in A : y \in B
    BY <1>1, <1>2, <1>3, <1>4, <1>5
  <1>7. \A y \in B : y \in A
    <2> TAKE y \in B
    <2>1. PICK k \in 1..n : inputs[k] = y
      BY <1>1, <1>3
    <2>2. k \in G
      BY <1>2, <1>3, <2>1
    <2> QED
      BY <1>5, <2>1, <2>2
  <1>8. A = B
    BY <1>6, <1>7
  <1> QED
    BY <1>8 DEF A, B, G, AtPlaces

\* The batches of all REAL updates are laid out like this.
AllTogether == \A j \in Jobs : j.call = "real" => Together(j)

LEMMA AdvantageInit == Init => AdvantageInv
  BY DEF Init, AdvantageInv, Working, PerRank, Same

LEMMA AdvantageCallReal == ASSUME LockInv, AdvantageInv, CallReal PROVE AdvantageInv'
  <1>1. /\ pc' = "real" /\ \A r \in Ranks : packs'[r] = PacksOf(chunk'[r]) /\ stage'[r] = "eval"
        /\ UNCHANGED <<job, advantage>>
    BY DEF CallReal, Same, DispatchTo, trainVars
  <1>2. \A rows : PacksOf(rows)' = PacksOf(rows)
    BY <1>1 DEF PacksOf, ByPrompt
  <1> QED
    BY <1>1 DEF AdvantageInv, PacksOf, ByPrompt, PerRank

\* A step that leaves the chunks, the inputs and the advantages alone, or
\* ends the call.
LEMMA AdvantageKept ==
  ASSUME AdvantageInv, UNCHANGED advantage,
         pc' \notin Working \/ UNCHANGED <<pc, job, chunk, packs, stage>>
  PROVE  AdvantageInv'
  <1>1. CASE pc' \notin Working
    BY <1>1 DEF AdvantageInv, PerRank
  <1>2. CASE UNCHANGED <<pc, job, chunk, packs, stage>>
    <2>1. \A r \in Ranks : JudgedInv(r) => JudgedInv(r)'
      BY <1>2 DEF JudgedInv, Siblings, SizeOf
    <2>2. \A rows : PacksOf(rows)' = PacksOf(rows)
      BY <1>2 DEF PacksOf, ByPrompt
    <2>3. \A r \in Ranks : PacksOf(chunk[r])' = PacksOf(chunk[r])
      BY <1>2 DEF PacksOf, ByPrompt
    <2>4. PerRank(advantage)'
      BY DEF AdvantageInv, PerRank
    <2>5. ASSUME NEW r \in Ranks, pc' \in Working
          PROVE  (pc' = "real" => packs'[r] = PacksOf(chunk[r])') /\ (stage'[r] = "train" => JudgedInv(r)')
      BY <1>2, <2>1, <2>3, <2>5 DEF AdvantageInv
    <2> QED
      BY <2>4, <2>5 DEF AdvantageInv
  <1> QED
    BY <1>1, <1>2

LEMMA AdvantageOfStep ==
  ASSUME AdvantageInv,
         \/ CallGenerate \/ Collect \/ Return \/ ReduceCount \/ CompareCounts \/ Forward \/ Step
         \/ \E r \in Ranks : Generate(r) \/ Plan(r) \/ Arrange(r) \/ Gather(r)
  PROVE  AdvantageInv'
  <1>1. CASE CallGenerate
    <2>1. UNCHANGED advantage /\ pc' \notin Working
      BY <1>1 DEF CallGenerate, trainVars, Working
    <2> QED
      BY <2>1, AdvantageKept
  <1>2. CASE Collect \/ Return
    <2>1. UNCHANGED advantage /\ pc' \notin Working
      BY <1>2 DEF Collect, Return, trainVars, Working
    <2> QED
      BY <2>1, AdvantageKept
  <1>3. CASE ReduceCount \/ CompareCounts \/ Forward \/ Step
    <2>1. UNCHANGED <<pc, job, chunk, packs, stage, advantage>>
      BY <1>3 DEF ReduceCount, CompareCounts, Forward, Step, driverVars, dataVars, loopVars, trainVars
    <2> QED
      BY <2>1, AdvantageKept
  <1>4. CASE \E r \in Ranks : Generate(r) \/ Plan(r) \/ Arrange(r) \/ Gather(r)
    <2>1. UNCHANGED <<pc, job, chunk, packs, stage, advantage>>
      BY <1>4 DEF Generate, Plan, Arrange, Gather, driverVars, dataVars, loopVars, trainVars
    <2> QED
      BY <2>1, AdvantageKept
  <1> QED
    BY <1>1, <1>2, <1>3, <1>4

LEMMA AdvantageCallLogProb == ASSUME AdvantageInv, CallLogProb PROVE AdvantageInv'
  <1>1. pc' = "log_prob" /\ UNCHANGED advantage /\ \A r \in Ranks : stage'[r] = "eval"
    BY DEF CallLogProb, Same, trainVars
  <1> QED
    BY <1>1 DEF AdvantageInv, PerRank

\* The old log probabilities come back in the order of the batch and go out
\* with it: a rank gets those of its rows.
LEMMA AdvantageCallUpdate == ASSUME LockInv, DataInv, AdvantageInv, CallUpdate PROVE AdvantageInv'
  <1>1. /\ pc = "scored" /\ pc' = "update" /\ UNCHANGED <<job, batch>>
        /\ job \in Jobs /\ job.call = "grpo" /\ Len(batch) = Len(job.uid) /\ returned = batch
    BY DEF CallUpdate, LockInv, JobInv, DataInv, ReturnedInOrder
  <1>2. /\ advantage' = [r \in Ranks |-> advantage'[r]]
        /\ \A r \in Ranks :
             LET old == DispatchTo(returned, OwnChunk, Ranks)[r]
             IN  advantage'[r] = [i \in DOMAIN old |-> [own |-> old[i], others |-> {}]]
    BY DEF CallUpdate
  <1>3. \A r \in Ranks : packs'[r] = DispatchTo(batch, OwnChunk, Ranks)[r]
    BY DEF CallUpdate, DispatchTo
  <1>4. ASSUME NEW r \in Ranks, NEW p \in 1..SizeOf(job)
        PROVE  advantage'[r][p].own = packs'[r][p]
    <2> DEFINE rows == Block(batch, SizeOf(job), r)
    <2>1. DispatchTo(batch, OwnChunk, Ranks)[r] = rows
      BY <1>1, DispatchedIs
    <2>2. p \in DOMAIN rows
      BY <1>4 DEF Block
    <2> HIDE DEF rows
    <2>3. advantage'[r] = [i \in DOMAIN rows |-> [own |-> rows[i], others |-> {}]]
      BY <1>1, <1>2, <2>1
    <2> QED
      BY <1>3, <2>1, <2>2, <2>3
  <1>5. \A r \in Ranks : JudgedInv(r)'
    BY <1>1, <1>4 DEF JudgedInv, SizeOf
  <1> QED
    BY <1>1, <1>2, <1>5 DEF AdvantageInv, PerRank
\* REAL compares its scores: the inputs are the rows of the chunk ordered by
\* prompt, and where a prompt's rows are in the chunk its inputs are, too.
LEMMA AdvantageComputeAdvantages ==
  ASSUME ~UseRloo, AllTogether, LockInv, DataInv, AdvantageInv, NEW r \in Ranks, ComputeAdvantages(r)
  PROVE  AdvantageInv'
  <1> DEFINE n == SizeOf(job)
             rows == chunk[r]
             inputs == packs[r]
  <1>1. pc \in Working
    BY InCall DEF ComputeAdvantages, Idle
  <1>2. /\ RankInv(r) /\ at[r] = "advantages" /\ job \in Jobs /\ job.call # "validate" /\ BatchInv
        /\ PerRank(stage) /\ PerRank(advantage)
    BY <1>1, JobOfCall DEF ComputeAdvantages, AdvantageInv, LockInv, ShapeInv
  <1>3. pc = "real" /\ job.call = "real"
    <2>1. pc = "real"
      BY <1>1, <1>2, ChunksAre DEF PlaceInv, Working
    <2> QED
      BY <2>1 DEF LockInv, JobInv
  <1>4. /\ UNCHANGED <<pc, job, chunk, packs>>
        /\ advantage' = [advantage EXCEPT ![r] = [i \in DOMAIN rows |-> Advantage(r, i)]]
        /\ stage' = [stage EXCEPT ![r] = "train"]
    BY DEF ComputeAdvantages, driverVars, dataVars
  <1>5. scores[r] = inputs
    BY <1>2 DEF RankInv, ScoresInv
  <1>6. /\ Distinct(job, rows, inputs) /\ Lists(inputs, n, Members(rows))
        /\ inputs = PacksOf(rows)
    BY <1>1, <1>2, <1>3, InputsAre DEF RankInv, RowsInv, RowsAre, BatchInv, AdvantageInv
  <1>7. rows = Block(Rows(Len(job.uid)), n, r)
    BY <1>2, <1>3 DEF RankInv, RowsInv, RowsAre, BatchInv
  <1>8. n \in Nat /\ rows \in [1..n -> 1..Len(job.uid)] /\ DOMAIN rows = 1..n
    BY <1>6 DEF Distinct
  <1>9. \E m, q : InGroups(PromptsOf(job, rows), n, m, q)
    BY <1>2, <1>3, <1>7, ChunkGroups DEF AllTogether
  <1>10. PICK m : \E q : InGroups(PromptsOf(job, rows), n, m, q)
    BY <1>9
  <1>11. PICK q : InGroups(PromptsOf(job, rows), n, m, q)
    BY <1>10
  <1>12. SamePlaces(job.uid, n, rows, inputs)
    BY <1>2, <1>6, <1>8, <1>11, PacksTogether
  <1>13. ASSUME NEW i \in 1..n
         PROVE  Advantage(r, i) = [own |-> inputs[i], others |-> Siblings(job, rows, inputs[i])]
    <2>1. AtPlaces(job, rows, inputs, i) = Siblings(job, rows, inputs[i])
      BY <1>6, <1>8, <1>12, <1>13, Compared
    <2> QED
      BY <1>5, <2>1 DEF Advantage, Group, AtPlaces
  <1>14. JudgedInv(r)'
    <2>1. advantage'[r] = [i \in 1..n |-> Advantage(r, i)]
      BY <1>2, <1>4, <1>8 DEF PerRank
    <2>2. \A i \in 1..n : /\ advantage'[r][i].own = inputs[i]
                          /\ advantage'[r][i].others = Siblings(job, rows, inputs[i])
      BY <1>13, <2>1
    <2> QED
      BY <1>4, <2>2 DEF JudgedInv, Siblings, SizeOf
  <1>15. ASSUME NEW s \in Ranks, s # r
         PROVE  /\ stage'[s] = stage[s]
                /\ JudgedInv(s) => JudgedInv(s)'
    <2>1. advantage'[s] = advantage[s] /\ stage'[s] = stage[s]
      BY <1>2, <1>4, <1>15 DEF PerRank
    <2> QED
      BY <1>4, <2>1 DEF JudgedInv, Siblings, SizeOf
  <1>16. \A s \in Ranks : PacksOf(chunk[s])' = PacksOf(chunk[s])
    BY <1>4 DEF PacksOf, ByPrompt
  <1>17. PerRank(advantage)'
    BY <1>2, <1>4 DEF PerRank
  <1>18. ASSUME NEW s \in Ranks
         PROVE  (pc' = "real" => packs'[s] = PacksOf(chunk[s])') /\ (stage'[s] = "train" => JudgedInv(s)')
    <2>1. packs[s] = PacksOf(chunk[s]) /\ (stage[s] = "train" => JudgedInv(s))
      BY <1>1, <1>3 DEF AdvantageInv
    <2> QED
      BY <1>4, <1>14, <1>15, <1>16, <2>1
  <1> QED
    BY <1>17, <1>18 DEF AdvantageInv

LEMMA AdvantageNext ==
  ASSUME ~UseRloo, AllTogether, LockInv, DataInv, AdvantageInv, [Next]_vars
  PROVE  AdvantageInv'
  <1>1. CASE CallReal \/ CallLogProb \/ CallUpdate
    BY <1>1, AdvantageCallReal, AdvantageCallLogProb, AdvantageCallUpdate
  <1>2. CASE \E r \in Ranks : ComputeAdvantages(r)
    BY <1>2, AdvantageComputeAdvantages
  <1>3. CASE \/ CallGenerate \/ Collect \/ Return \/ ReduceCount \/ CompareCounts \/ Forward \/ Step
             \/ \E r \in Ranks : Generate(r) \/ Plan(r) \/ Arrange(r) \/ Gather(r)
    BY <1>3, AdvantageOfStep
  <1>4. CASE Finished \/ UNCHANGED vars
    <2>1. UNCHANGED <<pc, job, chunk, packs, stage, advantage>>
      BY <1>4 DEF Finished, vars, driverVars, dataVars, loopVars, trainVars
    <2> QED
      BY <2>1, AdvantageKept
  <1> QED
    BY <1>1, <1>2, <1>3, <1>4 DEF Next

LEMMA AdvantageSafe == ASSUME LockInv, DataInv, TrainInv, AdvantageInv PROVE ComparedWithinPrompt
  <1>1. ASSUME NEW r \in Ranks, NEW i \in DOMAIN gradient[r]
        PROVE  LET g == gradient[r][i] IN
               /\ g.advantage.own = g.row
               /\ pc = "real" => g.advantage.others =
                    {row \in ToSet(chunk[r]) : job.uid[row] = job.uid[g.row]} \ {g.row}
    <2> DEFINE n == SizeOf(job)
               m == Mini(r)
               f == Flat(plan[r], done[r])
               adv == advantage[r]
               inputs == packs[r]
               pairs == Pairs(inputs, adv, n)
    <2>1. gradient[r] # <<>>
      BY <1>1
    <2>2. pc \in Working
      BY <2>1 DEF TrainInv, Same
    <2>3. at[r] \in Planned /\ stage[r] = "train" /\ gradient[r] = SeenRows(pairs, m, plan[r], done[r])
      BY <2>1, <2>2 DEF TrainInv, GradientInv
    <2>4. job \in Jobs /\ job.call # "validate" /\ BatchInv /\ RankInv(r)
      BY <2>2, JobOfCall
    <2>5. RankAt(r) /\ PlanAt(r)
      BY <2>3, <2>4, RankFacts, PlanFacts DEF Busy, Planned
    <2>6. done[r] \in 0..count[r] /\ count[r] \in Nat /\ Len(m) \in Nat
      BY <2>3, <2>4, <2>5 DEF RankInv, PlanInv, PlanAt, RankAt, Planned
    <2>7. f \in Seq(1..Len(m))
      <3>1. plan[r] \in [1..count[r] -> Seq(1..Len(m))]
        BY <2>5 DEF PlanAt, Partitions
      <3> QED
        BY <2>6, <3>1, FlatStep
    <2>8. m \in Seq(1..n) /\ n \in Nat
      BY <2>5 DEF RankAt
    <2>9. \A p \in 1..n : adv[p].own = inputs[p] /\ (pc = "real" => adv[p].others = Siblings(job, chunk[r], inputs[p]))
      BY <2>2, <2>3 DEF AdvantageInv, JudgedInv
    <2>10. gradient[r] = [p \in 1..Len(f) |-> pairs[m[f[p]]]]
      BY <2>3 DEF SeenRows
    <2> HIDE DEF n, m, f, adv, inputs
    <2>11. i \in 1..Len(f) /\ m[f[i]] \in 1..n
      <3>1. i \in 1..Len(f)
        BY <1>1, <2>10
      <3>2. f[i] \in 1..Len(m)
        BY <2>7, <3>1
      <3>3. Len(m) \in Nat
        BY <2>6
      <3>4. \A k \in 1..Len(m) : m[k] \in 1..n
        BY <2>8, <3>3
      <3> QED
        BY <3>1, <3>2, <3>4
    <2> DEFINE a == m[f[i]]
    <2>12. gradient[r][i] = [row |-> inputs[a], advantage |-> adv[a]] /\ a \in 1..n
      BY <2>10, <2>11 DEF Pairs
    <2> HIDE DEF a
    <2>13. ToSet(chunk[r]) = Members(chunk[r])
      BY DEF ToSet, Members
    <2> QED
      BY <2>9, <2>12, <2>13 DEF Siblings
  <1> QED
    BY <1>1 DEF ComparedWithinPrompt

\* When a prompt's responses follow each other in the batch, as many for every
\* prompt and none cut by a boundary between ranks (the driver repeats each
\* prompt n times, interleaved, before it generates), REAL judges a row by its
\* own score against the scores of exactly the other responses to its prompt,
\* although its inputs are ordered by prompt and the groups are found by the
\* order of the batch; a GRPO update gives a row its own old log probability.
THEOREM ComparedWithinPromptCorrect ==
  ASSUME ~UseRloo, AllTogether
  PROVE  Spec => []ComparedWithinPrompt
  <1>1. Init => LockInv /\ DataInv /\ TrainInv /\ AdvantageInv
    BY LockInit, DataInit, TrainInit, AdvantageInit
  <1>2. (LockInv /\ DataInv /\ TrainInv /\ AdvantageInv) /\ [Next]_vars
          => (LockInv /\ DataInv /\ TrainInv /\ AdvantageInv)'
    BY LockNext, DataNext, TrainNext, AdvantageNext
  <1>3. LockInv /\ DataInv /\ TrainInv /\ AdvantageInv => ComparedWithinPrompt
    BY AdvantageSafe
  <1> QED
    BY <1>1, <1>2, <1>3, PTL DEF Spec

=============================================================================
