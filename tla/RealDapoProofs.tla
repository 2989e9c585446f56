--------------------------- MODULE RealDapoProofs ---------------------------
(***************************************************************************)
(* Proofs about RealDapo: type correctness; that the lineage of the        *)
(* weights uses a prompt once, the accounts of the REAL buffer, the age of *)
(* the responses that are trained on, the number of steps, the last        *)
(* checkpoint and the groups of the GRPO batch.  Each invariant after the  *)
(* first is proved beside TypeInv.                                         *)
(***************************************************************************)
EXTENDS RealDapo, FiniteSetTheorems, TLAPS

USE DEF Prompts

(* Lemmas about the helpers on sequences *)

LEMMA ConfigTypes ==
  /\ GenBatchSize \in Nat \ {0} /\ TrainBatchSize \in Nat \ {0} /\ N \in Nat \ {0}
  /\ BufferSize \in Nat \ {0} /\ RealSteps \in Nat \ {0} /\ DpSize \in Nat \ {0}
  /\ TotalTrainingSteps \in Nat \ {0}
BY ConfigAssumption

\* Division brings an index of a repeated batch back into the batch.
LEMMA IndexInRange ==
  ASSUME NEW n \in Nat \ {0}, NEW len \in Nat, NEW i \in 1..(len * n)
  PROVE  /\ ((i - 1) \div n) + 1 \in 1..len
         /\ ((i - 1) % n) + 1 \in 1..n
<1> DEFINE q == (i - 1) \div n
           r == (i - 1) % n
<1>1. q \in Int /\ r \in 0..(n - 1) /\ i - 1 = n * q + r
  BY SMT
<1> HIDE DEF q, r
<1>2. q >= 0
  <2> SUFFICES ASSUME q <= -1 PROVE FALSE
    BY <1>1
  <2>1. n * q <= n * (-1)
    BY <1>1
  <2> QED BY <1>1, <2>1
<1>3. q < len
  <2> SUFFICES ASSUME q >= len PROVE FALSE
    BY <1>1
  <2>1. n * q >= n * len
    BY <1>1
  <2>2. len * n = n * len
    OBVIOUS
  <2> QED BY <1>1, <2>1, <2>2
<1> QED BY <1>1, <1>2, <1>3 DEF q, r

LEMMA FunctionIsSequence ==
  ASSUME NEW S, NEW n \in Nat, NEW f \in [1..n -> S]
  PROVE  f \in Seq(S) /\ Len(f) = n
OBVIOUS

\* Repeating a batch of prompts yields N responses of each, all of one version.
LEMMA GroupsType ==
  ASSUME NEW ps \in Seq(Nat), NEW gen \in Nat
  PROVE  /\ Groups(ps, gen) \in Seq(Trajectories)
         /\ Len(Groups(ps, gen)) = Len(ps) * N
         /\ \A i \in DOMAIN Groups(ps, gen) :
              /\ Groups(ps, gen)[i].gen = gen
              /\ \E j \in DOMAIN ps : Groups(ps, gen)[i].prompt = ps[j]
<1>1. N \in Nat \ {0} /\ Len(ps) * N \in Nat
  BY ConfigAssumption, SMTT(30)
<1>2. \A i \in 1..(Len(ps) * N) :
        /\ ((i - 1) \div N) + 1 \in 1..Len(ps)
        /\ ((i - 1) % N) + 1 \in 1..N
  BY <1>1, IndexInRange
<1>3. \A i \in 1..(Len(ps) * N) : Groups(ps, gen)[i] \in Trajectories
  BY <1>1, <1>2 DEF Groups, Trajectories
<1>4. DOMAIN Groups(ps, gen) = 1..(Len(ps) * N)
  BY DEF Groups
<1>5. Groups(ps, gen) \in [1..(Len(ps) * N) -> Trajectories]
  BY <1>3 DEF Groups
<1>6. Groups(ps, gen) \in Seq(Trajectories) /\ Len(Groups(ps, gen)) = Len(ps) * N
  BY ONLY <1>1, <1>5, FunctionIsSequence
<1>7. \A i \in DOMAIN Groups(ps, gen) :
        /\ Groups(ps, gen)[i].gen = gen
        /\ Groups(ps, gen)[i].prompt = ps[((i - 1) \div N) + 1]
        /\ ((i - 1) \div N) + 1 \in DOMAIN ps
  BY <1>2 DEF Groups
<1> QED BY <1>6, <1>7

\* A prefix is a sequence of the same elements.
LEMMA PrefixType ==
  ASSUME NEW S, NEW s \in Seq(S), NEW k \in Nat
  PROVE  /\ Prefix(s, k) \in Seq(S)
         /\ Len(Prefix(s, k)) = IF k < Len(s) THEN k ELSE Len(s)
         /\ \A i \in DOMAIN Prefix(s, k) : i \in DOMAIN s /\ Prefix(s, k)[i] = s[i]
BY DEF Prefix

\* Appending under a condition.
LEMMA KeepType ==
  ASSUME NEW ps \in Seq(Nat), NEW p \in Nat, NEW chosen \in BOOLEAN
  PROVE  /\ Keep(ps, p, chosen) \in Seq(Nat)
         /\ \A i \in DOMAIN Keep(ps, p, chosen) :
              Keep(ps, p, chosen)[i] = p \/ (i \in DOMAIN ps /\ Keep(ps, p, chosen)[i] = ps[i])
BY DEF Keep

\* The elements of a concatenation.
LEMMA ConcatType ==
  ASSUME NEW S, NEW s \in Seq(S), NEW t \in Seq(S)
  PROVE  /\ s \o t \in Seq(S)
         /\ Len(s \o t) = Len(s) + Len(t)
         /\ \A i \in DOMAIN (s \o t) :
              \/ i \in DOMAIN s /\ (s \o t)[i] = s[i]
              \/ \E j \in DOMAIN t : (s \o t)[i] = t[j]
<1>1. s \o t \in Seq(S) /\ Len(s \o t) = Len(s) + Len(t)
  OBVIOUS
<1>2. ASSUME NEW i \in DOMAIN (s \o t)
      PROVE  \/ i \in DOMAIN s /\ (s \o t)[i] = s[i]
             \/ i - Len(s) \in DOMAIN t /\ (s \o t)[i] = t[i - Len(s)]
  BY <1>1
<1> QED BY <1>1, <1>2

-----------------------------------------------------------------------------
(* Type correctness *)

\* TypeOK is inductive together with the fact that a batch being classified has
\* been drawn: its prompts get positive numbers.
TypeInv == TypeOK /\ (pc = "classify" => cursor > 0)

\* Concatenated prompts.
LEMMA PromptsConcat ==
  ASSUME NEW s \in Seq(Nat), NEW t \in Seq(Nat)
  PROVE  s \o t \in Seq(Nat) /\ Len(s \o t) = Len(s) + Len(t) /\ Len(s \o t) \in Nat
OBVIOUS

\* The fields of well-formed records, and the updates the actions make to them.
LEMMA LineageFields ==
  ASSUME NEW w \in Lineages
  PROVE  /\ w.version \in Nat /\ w.real \in SUBSET Nat /\ w.grpo \in SUBSET Nat
         /\ w.lastReal \in Nat /\ w.lastGrpo \in Nat
BY DEF Lineages

LEMMA LineageUpdate ==
  ASSUME NEW w \in Lineages, NEW v \in Nat, NEW S \in SUBSET Nat, NEW l \in Nat
  PROVE  /\ [w EXCEPT !.version = v, !.real = S] \in Lineages
         /\ [w EXCEPT !.version = v, !.grpo = S, !.lastGrpo = l] \in Lineages
BY DEF Lineages

LEMMA BatchAppend ==
  ASSUME NEW b \in Batches, NEW p \in Nat
  PROVE  [b EXCEPT !.prompts = Append(@, p)] \in Batches
<1>1. b.prompts \in Seq(Nat)
  BY DEF Batches
<1>2. Append(b.prompts, p) \in Seq(Nat)
  BY <1>1
<1> QED BY <1>2 DEF Batches

LEMMA RecordFields ==
  ASSUME TypeOK
  PROVE  /\ cursor \in Nat
         /\ new_batch.prompts \in Seq(Nat) /\ new_batch.gen \in Nat
         /\ sel.none \in Seq(Nat) /\ sel.partial \in Seq(Nat)
         /\ sel.all \in Seq(Nat) /\ sel.kept \in Seq(Nat)
<1>1. cursor \in Nat
  BY DEF TypeOK, CountersOK
<1>2. new_batch.prompts \in Seq(Nat) /\ new_batch.gen \in Nat
  BY DEF TypeOK, RecordsOK, Batches
<1>3. /\ sel.none \in Seq(Nat) /\ sel.partial \in Seq(Nat)
      /\ sel.all \in Seq(Nat) /\ sel.kept \in Seq(Nat)
  BY DEF TypeOK, RecordsOK, Selections
<1> QED BY <1>1, <1>2, <1>3

LEMMA TypeInit == Init => TypeInv
<1> SUFFICES ASSUME Init PROVE TypeInv
  OBVIOUS
<1>1. InitialWeights \in Lineages
  BY DEF InitialWeights, Lineages
<1>2. NoSelection \in Selections /\ NoBatch \in Batches
  BY DEF NoSelection, NoBatch, Selections, Batches
<1>3. disk \in Checkpoints
  BY <1>1 DEF Init, Checkpoints
<1>4. CountersOK
  BY DEF Init, CountersOK, Terminal
<1>5. RecordsOK
  BY <1>1, <1>2, <1>3 DEF Init, RecordsOK
<1> QED BY <1>4, <1>5 DEF Init, TypeInv, TypeOK

LEMMA TypeStart == TypeInv /\ Start => TypeInv'
<1> SUFFICES ASSUME TypeInv, Start PROVE TypeInv'
  OBVIOUS
<1>1. disk.step \in Nat /\ disk.pos \in Nat /\ disk.cursor \in Nat /\ disk.weights \in Lineages
  BY DEF TypeInv, TypeOK, RecordsOK, Checkpoints
<1>2. disk.weights.version \in Nat
  BY <1>1 DEF Lineages
<1>3. CountersOK'
  BY <1>1, <1>2 DEF TypeInv, TypeOK, CountersOK, Start, genVars
<1>4. RecordsOK'
  BY <1>1 DEF TypeInv, TypeOK, RecordsOK, Start, genVars
<1> QED BY <1>3, <1>4 DEF TypeInv, TypeOK, Start

LEMMA TypeCrash == TypeInv /\ Crash => TypeInv'
<1> SUFFICES ASSUME TypeInv, Crash PROVE TypeInv'
  OBVIOUS
<1>1. CountersOK'
  BY DEF TypeInv, TypeOK, CountersOK, Crash, loopVars, stepVars, bufVars, grpoVars, genVars
<1>2. RecordsOK'
  BY DEF TypeInv, TypeOK, RecordsOK, Crash, bufVars, grpoVars, genVars
<1> QED BY <1>1, <1>2 DEF TypeInv, TypeOK, Crash

LEMMA TypeGenerate == TypeInv /\ Generate => TypeInv'
<1> SUFFICES ASSUME TypeInv, Generate PROVE TypeInv'
  OBVIOUS
<1>1. new_batch' \in Batches /\ sel' \in Selections
  BY DEF TypeInv, TypeOK, RecordsOK, Generate, NoSelection, Batches, Selections, Lineages
<1>2. CountersOK'
  <2>1. LastStep \in BOOLEAN
    BY DEF LastStep
  <2> QED BY <2>1 DEF TypeInv, TypeOK, CountersOK, Generate, stepVars, bufVars
<1>3. RecordsOK'
  BY <1>1 DEF TypeInv, TypeOK, RecordsOK, Generate, bufVars
<1> QED BY <1>2, <1>3 DEF TypeInv, TypeOK, CountersOK, Generate

LEMMA TypeNextEpoch == TypeInv /\ NextEpoch => TypeInv'
<1> SUFFICES ASSUME TypeInv, NextEpoch PROVE TypeInv'
  OBVIOUS
<1>1. CountersOK'
  BY DEF TypeInv, TypeOK, CountersOK, Terminal, NextEpoch, stepVars, bufVars, grpoVars, genVars
<1>2. RecordsOK'
  BY DEF TypeInv, TypeOK, RecordsOK, NextEpoch, bufVars, grpoVars, genVars
<1> QED BY <1>1, <1>2 DEF TypeInv, TypeOK, NextEpoch

LEMMA TypeClassify ==
  ASSUME TypeInv, NEW scores \in [1..N -> Scores], Classify(scores)
  PROVE  TypeInv'
<1> DEFINE p == (cursor - 1) * GenBatchSize + Len(new_batch.prompts) + 1
<1>1. p \in Nat
  <2>1. cursor - 1 \in Nat /\ new_batch.prompts \in Seq(Nat)
    BY RecordFields DEF TypeInv, Classify
  <2>2. \A a, b \in Nat : a * b \in Nat
    OBVIOUS
  <2>3. (cursor - 1) * GenBatchSize \in Nat
    BY <2>1, <2>2, ConfigAssumption
  <2> QED BY <2>1, <2>3
<1> HIDE DEF p
<1>2. /\ Varies(scores) \in BOOLEAN /\ SolvedNone(scores) \in BOOLEAN
      /\ SolvedAll(scores) \in BOOLEAN
  BY DEF Varies, SolvedNone, SolvedAll
<1>3. sel' \in Selections
  <2>1. sel' = [none |-> Keep(sel.none, p, SolvedNone(scores)),
                partial |-> Keep(sel.partial, p, ~SolvedNone(scores) /\ ~SolvedAll(scores)),
                all |-> Keep(sel.all, p, SolvedAll(scores)),
                kept |-> Keep(sel.kept, p, Varies(scores))]
    BY DEF Classify, p
  <2>3. /\ Keep(sel.none, p, SolvedNone(scores)) \in Seq(Nat)
        /\ Keep(sel.partial, p, ~SolvedNone(scores) /\ ~SolvedAll(scores)) \in Seq(Nat)
        /\ Keep(sel.all, p, SolvedAll(scores)) \in Seq(Nat)
        /\ Keep(sel.kept, p, Varies(scores)) \in Seq(Nat)
    BY <1>1, <1>2, RecordFields, KeepType DEF TypeInv
  <2> QED BY <2>1, <2>3 DEF Selections
<1>4. new_batch' \in Batches
  <2>1. new_batch' = [new_batch EXCEPT !.prompts = Append(@, p)]
    BY DEF Classify, p
  <2> QED BY <1>1, <2>1, BatchAppend DEF TypeInv, TypeOK, RecordsOK
<1>5. CountersOK'
  BY SMTT(30) DEF TypeInv, TypeOK, CountersOK, Classify, loopVars, stepVars, bufVars
<1>6. RecordsOK'
  BY <1>3, <1>4 DEF TypeInv, TypeOK, RecordsOK, Classify, bufVars
<1> QED BY <1>5, <1>6 DEF TypeInv, TypeOK, Classify, loopVars

\* The chosen prompts are prompts of the generation batch, counted correctly.
LEMMA ForRealType ==
  ASSUME TypeOK
  PROVE  /\ ForReal \in Seq(Nat) /\ ForRealCount \in Nat
         /\ Len(ForReal) = ForRealCount
<1>1. DataType \in DataTypes
  BY ConfigAssumption
<1>2. CASE DataType = "partial_incorrect"
  <2>1. ForReal = sel.none \o sel.partial /\ ForRealCount = Len(sel.none) + Len(sel.partial)
    BY <1>2 DEF ForReal, ForRealCount
  <2> QED BY <2>1, RecordFields, PromptsConcat
<1>3. CASE DataType = "all"
  BY <1>3, RecordFields DEF ForReal, ForRealCount
<1>4. CASE DataType = "incorrect"
  BY <1>4, RecordFields DEF ForReal, ForRealCount
<1>5. CASE DataType = "partial"
  BY <1>5, RecordFields DEF ForReal, ForRealCount
<1>6. CASE DataType = "partial_correct"
  <2>1. ForReal = sel.partial \o sel.all /\ ForRealCount = Len(sel.partial) + Len(sel.all)
    BY <1>6 DEF ForReal, ForRealCount
  <2> QED BY <2>1, RecordFields, PromptsConcat
<1> QED BY <1>1, <1>2, <1>3, <1>4, <1>5, <1>6 DEF DataTypes

\* Cutting off the remainder leaves a length.
LEMMA Truncated ==
  ASSUME NEW len \in Nat
  PROVE  /\ len - (len % DpSize) \in Nat
         /\ len - (len % DpSize) > len - DpSize
         /\ len - (len % DpSize) <= len
<1>1. DpSize \in Nat \ {0}
  BY ConfigAssumption
<1>2. len % DpSize \in 0..(DpSize - 1) /\ len % DpSize <= len
  BY <1>1, SMT
<1> QED BY <1>1, <1>2

LEMMA TypeCollect == TypeInv /\ Collect => TypeInv'
<1> SUFFICES ASSUME TypeInv, Collect PROVE TypeInv'
  OBVIOUS
<1> DEFINE buffer == all_incorrect_batch \o Groups(ForReal, new_batch.gen)
           cut == Prefix(buffer, Len(buffer) - (Len(buffer) % DpSize))
<1>1. buffer \in Seq(Trajectories)
  <2>1. new_batch.gen \in Nat /\ ForReal \in Seq(Nat)
    BY ForRealType, RecordFields DEF TypeInv
  <2> QED BY <2>1, GroupsType, ConcatType DEF TypeInv, TypeOK, RecordsOK
<1>2. cut \in Seq(Trajectories)
  <2>1. Len(buffer) - (Len(buffer) % DpSize) \in Nat
    BY <1>1, Truncated
  <2> QED BY <1>1, <2>1, PrefixType
<1>3. /\ num_prompt_in_real_buffer' \in
           {num_prompt_in_real_buffer, num_prompt_in_real_buffer + ForRealCount}
      /\ all_incorrect_batch' \in {all_incorrect_batch, buffer, cut}
      /\ pc' \in {"realtrain", "filter"}
  BY DEF Collect, bufVars
<1> HIDE DEF buffer, cut
<1>4. CountersOK'
  BY <1>3, ForRealType
  DEF TypeInv, TypeOK, CountersOK, Collect, loopVars, stepVars, grpoVars, genVars
<1>5. RecordsOK'
  BY <1>1, <1>2, <1>3 DEF TypeInv, TypeOK, RecordsOK, Collect, grpoVars, genVars
<1> QED BY <1>3, <1>4, <1>5 DEF TypeInv, TypeOK

\* The prompts of a sequence of trajectories.
LEMMA PromptsOfType ==
  ASSUME NEW ts \in Seq(Trajectories) PROVE PromptsOf(ts) \subseteq Nat
<1>1. \A i \in DOMAIN ts : ts[i] \in Trajectories
  OBVIOUS
<1>2. \A t \in Trajectories : t.prompt \in Nat
  BY DEF Trajectories
<1> QED BY <1>1, <1>2 DEF PromptsOf

LEMMA RealBatchType ==
  ASSUME TypeOK
  PROVE  /\ RealBatch \in Seq(Trajectories)
         /\ \A i \in DOMAIN RealBatch : i \in DOMAIN all_incorrect_batch
                                        /\ RealBatch[i] = all_incorrect_batch[i]
<1>1. BufferSize * N \in Nat
  BY ConfigAssumption
<1>2. all_incorrect_batch \in Seq(Trajectories)
  BY DEF TypeOK, RecordsOK
<1> QED BY <1>1, <1>2, PrefixType DEF RealBatch

LEMMA TypeRealUpdate == TypeInv /\ RealUpdate => TypeInv'
<1> SUFFICES ASSUME TypeInv, RealUpdate PROVE TypeInv'
  OBVIOUS
<1>1. PromptsOf(RealBatch) \subseteq Nat
  BY RealBatchType, PromptsOfType DEF TypeInv
<1>2. weights' \in Lineages
  <2>1. weights \in Lineages
    BY DEF TypeInv, TypeOK, RecordsOK
  <2>2. weights.version + 1 \in Nat /\ weights.real \cup PromptsOf(RealBatch) \in SUBSET Nat
    BY <1>1, <2>1, LineageFields
  <2> QED BY <2>1, <2>2, LineageUpdate DEF RealUpdate
<1>3. CountersOK'
  BY DEF TypeInv, TypeOK, CountersOK, RealUpdate, loopVars, stepVars, bufVars, grpoVars, genVars
<1>4. RecordsOK'
  BY <1>2 DEF TypeInv, TypeOK, RecordsOK, RealUpdate, bufVars, grpoVars, genVars
<1> QED BY <1>3, <1>4 DEF TypeInv, TypeOK, RealUpdate, loopVars

LEMMA TypeRealUpdateRaises == TypeInv /\ RealUpdateRaises => TypeInv'
<1> SUFFICES ASSUME TypeInv, RealUpdateRaises PROVE TypeInv'
  OBVIOUS
<1>1. CountersOK'
  BY DEF TypeInv, TypeOK, CountersOK, Terminal, RealUpdateRaises, loopVars, stepVars, bufVars,
         grpoVars, genVars
<1>2. RecordsOK'
  BY DEF TypeInv, TypeOK, RecordsOK, RealUpdateRaises, bufVars, grpoVars, genVars
<1> QED BY <1>1, <1>2 DEF TypeInv, TypeOK, RealUpdateRaises

LEMMA TypeRealDone == TypeInv /\ RealDone => TypeInv'
<1> SUFFICES ASSUME TypeInv, RealDone PROVE TypeInv'
  OBVIOUS
<1>1. weights' \in Lineages
  BY DEF TypeInv, TypeOK, RecordsOK, RealDone, Lineages
<1>2. CountersOK'
  BY DEF TypeInv, TypeOK, CountersOK, RealDone, loopVars, stepVars, grpoVars, genVars
<1>3. RecordsOK'
  BY <1>1 DEF TypeInv, TypeOK, RecordsOK, RealDone, grpoVars, genVars
<1> QED BY <1>2, <1>3 DEF TypeInv, TypeOK, RealDone

LEMMA TypeTakeNewBatch == TypeInv /\ TakeNewBatch => TypeInv'
<1> SUFFICES ASSUME TypeInv, TakeNewBatch PROVE TypeInv'
  OBVIOUS
<1>1. batch' \in Seq(Trajectories)
  BY GroupsType, RecordFields DEF TypeInv, TakeNewBatch
<1>2. CountersOK'
  BY DEF TypeInv, TypeOK, CountersOK, TakeNewBatch, loopVars, stepVars, bufVars, genVars
<1>3. RecordsOK'
  BY <1>1 DEF TypeInv, TypeOK, RecordsOK, TakeNewBatch, bufVars, genVars
<1> QED BY <1>2, <1>3 DEF TypeInv, TypeOK, TakeNewBatch

LEMMA TypeFilterNewBatch == TypeInv /\ FilterNewBatch => TypeInv'
<1> SUFFICES ASSUME TypeInv, FilterNewBatch PROVE TypeInv'
  OBVIOUS
<1> DEFINE joined == batch \o Groups(sel.kept, new_batch.gen)
<1>1. joined \in Seq(Trajectories)
  <2>1. sel.kept \in Seq(Nat) /\ new_batch.gen \in Nat
    BY RecordFields DEF TypeInv
  <2> QED BY <2>1, GroupsType, ConcatType DEF TypeInv, TypeOK, RecordsOK
<1>2. Aligned(joined) \in Seq(Trajectories)
  <2>1. TrainBatchSize * N \in Nat
    BY ConfigAssumption
  <2> QED BY <1>1, <2>1, PrefixType DEF Aligned
<1>3. /\ batch' \in {joined, Aligned(joined)}
      /\ pc' \in {"train", "fetch", "raised"}
      /\ gen_steps' \in {gen_steps, gen_steps + 1}
  BY DEF FilterNewBatch
<1> HIDE DEF joined
<1>4. CountersOK'
  BY <1>3 DEF TypeInv, TypeOK, CountersOK, Terminal, FilterNewBatch, loopVars, bufVars, genVars
<1>5. RecordsOK'
  BY <1>1, <1>2, <1>3 DEF TypeInv, TypeOK, RecordsOK, FilterNewBatch, bufVars, genVars
<1> QED BY <1>3, <1>4, <1>5 DEF TypeInv, TypeOK

LEMMA TypeUpdateActor == TypeInv /\ UpdateActor => TypeInv'
<1> SUFFICES ASSUME TypeInv, UpdateActor PROVE TypeInv'
  OBVIOUS
<1>1. PromptsOf(batch) \subseteq Nat
  BY PromptsOfType DEF TypeInv, TypeOK, RecordsOK
<1>2. weights' \in Lineages
  <2>1. weights \in Lineages
    BY DEF TypeInv, TypeOK, RecordsOK
  <2>2. weights.version + 1 \in Nat /\ weights.grpo \cup PromptsOf(batch) \in SUBSET Nat
    BY <1>1, <2>1, LineageFields
  <2>3. [weights EXCEPT !.version = @ + 1, !.grpo = @ \cup PromptsOf(batch),
                        !.lastGrpo = weights.version + 1] \in Lineages
    BY <2>1, <2>2, LineageUpdate
  <2> QED BY <2>1, <2>3 DEF UpdateActor
<1>3. CountersOK'
  BY DEF TypeInv, TypeOK, CountersOK, UpdateActor, loopVars, stepVars, bufVars, grpoVars, genVars
<1>4. RecordsOK'
  BY <1>2 DEF TypeInv, TypeOK, RecordsOK, UpdateActor, bufVars, grpoVars, genVars
<1> QED BY <1>3, <1>4 DEF TypeInv, TypeOK, UpdateActor

LEMMA TypeValidateAndSave == TypeInv /\ ValidateAndSave => TypeInv'
<1> SUFFICES ASSUME TypeInv, ValidateAndSave PROVE TypeInv'
  OBVIOUS
<1>1. disk' \in Checkpoints /\ validated' \in Nat
  BY DEF TypeInv, TypeOK, CountersOK, RecordsOK, ValidateAndSave, Checkpoints, Lineages
<1>2. CountersOK'
  BY <1>1 DEF TypeInv, TypeOK, CountersOK, ValidateAndSave, loopVars, stepVars, bufVars,
              grpoVars, genVars
<1>3. RecordsOK'
  BY <1>1 DEF TypeInv, TypeOK, RecordsOK, ValidateAndSave, bufVars, grpoVars, genVars
<1> QED BY <1>2, <1>3 DEF TypeInv, TypeOK, ValidateAndSave

LEMMA TypeEndIteration == TypeInv /\ EndIteration => TypeInv'
<1> SUFFICES ASSUME TypeInv, EndIteration PROVE TypeInv'
  OBVIOUS
<1>1. CountersOK'
  BY DEF TypeInv, TypeOK, CountersOK, Terminal, EndIteration, loopVars, stepVars, bufVars, genVars
<1>2. RecordsOK'
  BY DEF TypeInv, TypeOK, RecordsOK, EndIteration, bufVars, genVars
<1> QED BY <1>1, <1>2 DEF TypeInv, TypeOK, EndIteration

LEMMA TypeNext == TypeInv /\ [Next]_vars => TypeInv'
<1>1. ASSUME TypeInv, UNCHANGED vars PROVE TypeInv'
  <2>1. CountersOK'
    BY <1>1 DEF TypeInv, TypeOK, CountersOK, vars, loopVars, stepVars, bufVars, grpoVars, genVars
  <2>2. RecordsOK'
    BY <1>1 DEF TypeInv, TypeOK, RecordsOK, vars, bufVars, grpoVars, genVars
  <2> QED BY <1>1, <2>1, <2>2 DEF TypeInv, TypeOK, vars, loopVars
<1> QED
  BY <1>1, TypeStart, TypeCrash, TypeGenerate, TypeNextEpoch, TypeClassify, TypeCollect,
     TypeRealUpdate, TypeRealUpdateRaises, TypeRealDone, TypeTakeNewBatch, TypeFilterNewBatch,
     TypeUpdateActor, TypeValidateAndSave, TypeEndIteration
  DEF Next, Step

\* fit keeps all its counters, lists and batches well formed.
THEOREM TypeCorrect == Spec => []TypeOK
<1>1. TypeInv => TypeOK
  BY DEF TypeInv
<1> QED BY <1>1, TypeInit, TypeNext, PTL DEF Spec
-----------------------------------------------------------------------------
(* A prompt is used at most once *)

\* Every prompt of a generation batch has a number above those of all batches
\* before it.  So it is enough to know, at each place of the loop, up to which
\* batch the buffer, the GRPO batch and the lineage of the weights reach.
Drawn == cursor * GenBatchSize
Before == Drawn - GenBatchSize

Bounded(S, m) == \A p \in S : p <= m
Between(ps, lo, hi) == \A i \in DOMAIN ps : lo < ps[i] /\ ps[i] <= hi
AllUpTo(ts, m) == \A i \in DOMAIN ts : ts[i].prompt <= m
NoneOf(ts, S) == \A i \in DOMAIN ts : ts[i].prompt \notin S

InBatch == {"classify", "realtrain", "filter"}

DiskInv ==
  /\ Bounded(disk.weights.real, disk.cursor * GenBatchSize)
  /\ Bounded(disk.weights.grpo, disk.cursor * GenBatchSize)

WeightsInv ==
  pc # "init" =>
    /\ Bounded(weights.real, IF pc = "classify" THEN Before ELSE Drawn)
    /\ Bounded(weights.grpo, IF pc \in InBatch THEN Before ELSE Drawn)

SelInv ==
  pc \in InBatch =>
    /\ cursor > 0 /\ Len(new_batch.prompts) <= GenBatchSize
    /\ Between(new_batch.prompts, Before, Before + Len(new_batch.prompts))
    /\ Between(sel.none, Before, Drawn) /\ Between(sel.partial, Before, Drawn)
    /\ Between(sel.all, Before, Drawn) /\ Between(sel.kept, Before, Drawn)

BufferInv ==
  Alive =>
    /\ AllUpTo(all_incorrect_batch, Drawn)
    /\ ~(pc = "realtrain" /\ real_step > 0) => NoneOf(all_incorrect_batch, weights.real)

BatchInv ==
  pc \in InBatch \cup {"fetch", "train"} =>
    AllUpTo(batch, Drawn) /\ NoneOf(batch, weights.grpo)

LineageInv == DiskInv /\ WeightsInv /\ SelInv /\ BufferInv /\ BatchInv

LEMMA DrawnType == ASSUME TypeOK PROVE Drawn \in Nat /\ Before \in Int /\ GenBatchSize \in Nat
<1>1. cursor \in Nat /\ GenBatchSize \in Nat
  BY RecordFields, ConfigAssumption
<1> QED BY <1>1 DEF Drawn, Before

LEMMA BoundedMonotonic ==
  ASSUME NEW S \in SUBSET Nat, NEW m \in Int, NEW n \in Int, m <= n, Bounded(S, m)
  PROVE  Bounded(S, n)
BY DEF Bounded

LEMMA UpToMonotonic ==
  ASSUME NEW ts \in Seq(Trajectories), NEW m \in Int, NEW n \in Int, m <= n, AllUpTo(ts, m)
  PROVE  AllUpTo(ts, n)
<1>1. \A i \in DOMAIN ts : ts[i] \in Trajectories
  OBVIOUS
<1>2. \A t \in Trajectories : t.prompt \in Nat
  BY DEF Trajectories
<1> QED BY <1>1, <1>2 DEF AllUpTo

LEMMA UnionBounded ==
  ASSUME NEW S, NEW ts, NEW m, Bounded(S, m), AllUpTo(ts, m)
  PROVE  Bounded(S \cup PromptsOf(ts), m)
BY DEF Bounded, AllUpTo, PromptsOf

LEMMA ConcatTrajectories ==
  ASSUME NEW s \in Seq(Trajectories), NEW t \in Seq(Trajectories)
  PROVE  /\ \A S : NoneOf(s, S) /\ NoneOf(t, S) => NoneOf(s \o t, S)
         /\ \A m : AllUpTo(s, m) /\ AllUpTo(t, m) => AllUpTo(s \o t, m)
<1>1. \A i \in DOMAIN (s \o t) :
        \/ i \in DOMAIN s /\ (s \o t)[i] = s[i]
        \/ \E j \in DOMAIN t : (s \o t)[i] = t[j]
  BY ConcatType
<1> QED BY <1>1 DEF NoneOf, AllUpTo

LEMMA PrefixTrajectories ==
  ASSUME NEW s \in Seq(Trajectories), NEW k \in Nat
  PROVE  /\ \A S : NoneOf(s, S) => NoneOf(Prefix(s, k), S)
         /\ \A m : AllUpTo(s, m) => AllUpTo(Prefix(s, k), m)
<1>1. \A i \in DOMAIN Prefix(s, k) : i \in DOMAIN s /\ Prefix(s, k)[i] = s[i]
  BY PrefixType
<1> QED BY <1>1 DEF NoneOf, AllUpTo

LEMMA GroupsTrajectories ==
  ASSUME NEW ps \in Seq(Nat), NEW gen \in Nat, NEW lo \in Int, NEW hi \in Int,
         Between(ps, lo, hi)
  PROVE  /\ AllUpTo(Groups(ps, gen), hi)
         /\ \A S \in SUBSET Nat : Bounded(S, lo) => NoneOf(Groups(ps, gen), S)
<1>1. \A i \in DOMAIN Groups(ps, gen) :
        \E j \in DOMAIN ps : Groups(ps, gen)[i].prompt = ps[j]
  BY GroupsType
<1>2. AllUpTo(Groups(ps, gen), hi)
  BY <1>1 DEF AllUpTo, Between
<1>3. ASSUME NEW S \in SUBSET Nat, Bounded(S, lo), NEW i \in DOMAIN Groups(ps, gen)
      PROVE  Groups(ps, gen)[i].prompt \notin S
  <2>1. PICK j \in DOMAIN ps : Groups(ps, gen)[i].prompt = ps[j]
    BY <1>1
  <2>2. ps[j] \in Nat /\ ps[j] > lo
    BY DEF Between
  <2>3. ps[j] \notin S
    BY <1>3, <2>2 DEF Bounded
  <2> QED BY <2>1, <2>3
<1> QED BY <1>2, <1>3 DEF NoneOf

LEMMA BetweenConcat ==
  ASSUME NEW ps \in Seq(Nat), NEW qs \in Seq(Nat), NEW lo \in Int, NEW hi \in Int,
         Between(ps, lo, hi), Between(qs, lo, hi)
  PROVE  Between(ps \o qs, lo, hi)
<1>1. \A i \in DOMAIN (ps \o qs) :
        \/ i \in DOMAIN ps /\ (ps \o qs)[i] = ps[i]
        \/ \E j \in DOMAIN qs : (ps \o qs)[i] = qs[j]
  BY ConcatType
<1> QED BY <1>1 DEF Between

LEMMA BetweenKeep ==
  ASSUME NEW ps \in Seq(Nat), NEW p \in Nat, NEW chosen \in BOOLEAN, NEW lo \in Int, NEW hi \in Int,
         Between(ps, lo, hi), lo < p, p <= hi
  PROVE  Between(Keep(ps, p, chosen), lo, hi)
<1>1. \A i \in DOMAIN Keep(ps, p, chosen) :
        Keep(ps, p, chosen)[i] = p \/ (i \in DOMAIN ps /\ Keep(ps, p, chosen)[i] = ps[i])
  BY KeepType
<1> QED BY <1>1 DEF Between

LEMMA ForRealBetween ==
  ASSUME TypeOK, SelInv, pc \in InBatch
  PROVE  Between(ForReal, Before, Drawn)
<1>1. DataType \in DataTypes
  BY ConfigAssumption
<1>2. /\ Between(sel.none, Before, Drawn) /\ Between(sel.partial, Before, Drawn)
      /\ Between(sel.all, Before, Drawn)
  BY DEF SelInv
<1>3. Between(new_batch.prompts, Before, Drawn)
  <2>1. Before + Len(new_batch.prompts) <= Drawn /\ Len(new_batch.prompts) \in Nat
    BY RecordFields, DrawnType DEF SelInv, Before
  <2>2. \A i \in DOMAIN new_batch.prompts : new_batch.prompts[i] \in Nat
    BY RecordFields
  <2> QED BY <2>1, <2>2, DrawnType DEF SelInv, Between
<1>4. CASE DataType = "partial_incorrect"
  BY <1>2, <1>4, RecordFields, DrawnType, BetweenConcat DEF ForReal
<1>5. CASE DataType = "all"
  BY <1>3, <1>5 DEF ForReal
<1>6. CASE DataType = "incorrect"
  BY <1>2, <1>6 DEF ForReal
<1>7. CASE DataType = "partial"
  BY <1>2, <1>7 DEF ForReal
<1>8. CASE DataType = "partial_correct"
  BY <1>2, <1>8, RecordFields, DrawnType, BetweenConcat DEF ForReal
<1> QED BY <1>1, <1>4, <1>5, <1>6, <1>7, <1>8 DEF DataTypes

LEMMA WeightFields ==
  ASSUME TypeOK
  PROVE  /\ weights \in Lineages /\ disk.weights \in Lineages
         /\ weights.real \in SUBSET Nat /\ weights.grpo \in SUBSET Nat
         /\ disk.weights.real \in SUBSET Nat /\ disk.weights.grpo \in SUBSET Nat
         /\ disk.cursor \in Nat
         /\ all_incorrect_batch \in Seq(Trajectories) /\ batch \in Seq(Trajectories)
<1>1. weights \in Lineages /\ disk.weights \in Lineages /\ disk.cursor \in Nat
  BY DEF TypeOK, RecordsOK, Checkpoints
<1> QED BY <1>1, LineageFields DEF TypeOK, RecordsOK

LEMMA LineageInit == Init => LineageInv
BY DEF Init, LineageInv, DiskInv, WeightsInv, SelInv, BufferInv, BatchInv, InitialWeights,
       Bounded, InBatch, Alive

LEMMA LineageStart ==
  ASSUME TypeOK, LineageInv, Start PROVE LineageInv'
<1>1. disk' = disk /\ weights' = disk.weights /\ cursor' = disk.cursor /\ pc' = "fetch"
  BY DEF Start
<1>2. DiskInv'
  BY <1>1 DEF LineageInv, DiskInv
<1>3. WeightsInv'
  BY <1>1 DEF LineageInv, DiskInv, WeightsInv, InBatch, Drawn
<1>4. SelInv'
  BY <1>1 DEF SelInv, InBatch
<1>5. BufferInv' /\ BatchInv'
  BY DEF Start, BufferInv, BatchInv, AllUpTo, NoneOf
<1> QED BY <1>2, <1>3, <1>4, <1>5 DEF LineageInv

LEMMA LineageCrash ==
  ASSUME TypeOK, LineageInv, Crash PROVE LineageInv'
BY DEF Crash, LineageInv, DiskInv, WeightsInv, SelInv, BufferInv, BatchInv, InBatch, Alive

LEMMA LineageGenerate ==
  ASSUME TypeOK, LineageInv, Generate PROVE LineageInv'
<1>1. Drawn' = Drawn + GenBatchSize /\ Before' = Drawn
  <2>1. cursor' = cursor + 1 /\ cursor \in Nat /\ GenBatchSize \in Nat
    BY RecordFields, ConfigAssumption DEF Generate
  <2>2. (cursor + 1) * GenBatchSize = cursor * GenBatchSize + GenBatchSize
    BY <2>1
  <2> QED BY <2>1, <2>2 DEF Drawn, Before
<1>2. /\ pc = "fetch" /\ pc' = "classify" /\ cursor' > 0
      /\ disk' = disk /\ weights' = weights /\ real_step' = real_step
      /\ all_incorrect_batch' = all_incorrect_batch /\ batch' = batch
      /\ sel' = NoSelection /\ new_batch'.prompts = <<>>
  BY RecordFields DEF Generate, bufVars
<1>3. Drawn <= Drawn + GenBatchSize
  BY DrawnType
<1>4. DiskInv'
  BY <1>2 DEF LineageInv, DiskInv
<1>5. WeightsInv'
  BY <1>1, <1>2 DEF LineageInv, WeightsInv, InBatch
<1>6. SelInv'
  BY <1>2, ConfigAssumption DEF SelInv, NoSelection, Between
<1>7. BufferInv'
  BY <1>1, <1>2, <1>3, DrawnType, WeightFields, UpToMonotonic DEF LineageInv, BufferInv, Alive
<1>8. BatchInv'
  BY <1>1, <1>2, <1>3, DrawnType, WeightFields, UpToMonotonic DEF LineageInv, BatchInv, InBatch
<1> QED BY <1>4, <1>5, <1>6, <1>7, <1>8 DEF LineageInv

LEMMA LineageNextEpoch ==
  ASSUME TypeOK, LineageInv, NextEpoch PROVE LineageInv'
BY DEF NextEpoch, bufVars, grpoVars, genVars, LineageInv, DiskInv, WeightsInv, SelInv, BufferInv,
       BatchInv, InBatch, Alive, Drawn, Before

LEMMA LineageClassify ==
  ASSUME TypeInv, LineageInv, NEW scores \in [1..N -> Scores], Classify(scores)
  PROVE  LineageInv'
<1> DEFINE p == (cursor - 1) * GenBatchSize + Len(new_batch.prompts) + 1
<1>1. TypeOK
  BY DEF TypeInv
<1>2. /\ p = Before + Len(new_batch.prompts) + 1 /\ p \in Nat
      /\ Before < p /\ p <= Drawn
  <2>1. cursor \in Nat \ {0} /\ GenBatchSize \in Nat
        /\ Len(new_batch.prompts) \in Nat /\ Len(new_batch.prompts) < GenBatchSize
    <3>1. pc = "classify" /\ Len(new_batch.prompts) < GenBatchSize
      BY DEF Classify
    <3>2. cursor > 0
      BY <3>1 DEF TypeInv
    <3>3. cursor \in Nat /\ new_batch.prompts \in Seq(Nat) /\ GenBatchSize \in Nat
      BY <1>1, RecordFields, ConfigTypes
    <3> QED BY <3>1, <3>2, <3>3
  <2>2. (cursor - 1) * GenBatchSize = cursor * GenBatchSize - GenBatchSize
    BY <2>1
  <2>3. (cursor - 1) * GenBatchSize \in Nat
    BY <2>1
  <2>4. Before = (cursor - 1) * GenBatchSize /\ Drawn = Before + GenBatchSize
    BY <2>1, <2>2 DEF Drawn, Before
  <2>5. Before \in Nat /\ Drawn = Before + GenBatchSize
    BY <2>3, <2>4
  <2>6. p = Before + Len(new_batch.prompts) + 1
    BY <2>4
  <2> HIDE DEF p
  <2>7. Before < p /\ p \in Nat
    BY <2>1, <2>5, <2>6
  <2>8. p <= Drawn
    BY <2>1, <2>5, <2>6
  <2> QED BY <2>6, <2>7, <2>8
<1>3. /\ new_batch' = [new_batch EXCEPT !.prompts = Append(@, p)]
      /\ sel' = [none |-> Keep(sel.none, p, SolvedNone(scores)),
                 partial |-> Keep(sel.partial, p, ~SolvedNone(scores) /\ ~SolvedAll(scores)),
                 all |-> Keep(sel.all, p, SolvedAll(scores)),
                 kept |-> Keep(sel.kept, p, Varies(scores))]
      /\ Len(new_batch.prompts) < GenBatchSize
  BY DEF Classify
<1>4. /\ pc = "classify" /\ pc' = pc /\ cursor' = cursor /\ real_step' = real_step
      /\ disk' = disk /\ weights' = weights
      /\ all_incorrect_batch' = all_incorrect_batch /\ batch' = batch
  BY DEF Classify, loopVars, bufVars
<1>5. Drawn' = Drawn /\ Before' = Before
  BY <1>4 DEF Drawn, Before
<1> HIDE DEF p
<1>6. SelInv'
  <2>1. new_batch'.prompts = Append(new_batch.prompts, p)
    BY <1>1, <1>3, RecordFields DEF TypeOK, RecordsOK, Batches
  <2>2. Len(new_batch'.prompts) = Len(new_batch.prompts) + 1
    BY <1>1, <1>2, <2>1, RecordFields
  <2>3. Between(new_batch.prompts, Before, Before + Len(new_batch.prompts))
    BY <1>4 DEF LineageInv, SelInv, InBatch
  <2>4. Between(new_batch'.prompts, Before, Before + Len(new_batch'.prompts))
    <3>1. \A i \in DOMAIN new_batch'.prompts :
            \/ i \in DOMAIN new_batch.prompts /\ new_batch'.prompts[i] = new_batch.prompts[i]
            \/ new_batch'.prompts[i] = p
      BY <1>1, <1>2, <2>1, RecordFields
    <3>2. \A i \in DOMAIN new_batch.prompts : new_batch.prompts[i] \in Nat
      BY <1>1, RecordFields
    <3>3. Before \in Int /\ Len(new_batch.prompts) \in Nat
      BY <1>1, DrawnType, RecordFields
    <3>4. ASSUME NEW i \in DOMAIN new_batch'.prompts
          PROVE  /\ Before < new_batch'.prompts[i]
                 /\ new_batch'.prompts[i] <= Before + Len(new_batch.prompts) + 1
      <4>1. CASE i \in DOMAIN new_batch.prompts /\ new_batch'.prompts[i] = new_batch.prompts[i]
        BY <2>3, <3>2, <3>3, <4>1 DEF Between
      <4>2. CASE new_batch'.prompts[i] = p
        BY <1>2, <3>3, <4>2
      <4> QED BY <3>1, <4>1, <4>2
    <3> QED BY <2>2, <3>3, <3>4 DEF Between
  <2>5. /\ Between(sel'.none, Before, Drawn) /\ Between(sel'.partial, Before, Drawn)
        /\ Between(sel'.all, Before, Drawn) /\ Between(sel'.kept, Before, Drawn)
    <3>1. /\ Between(sel.none, Before, Drawn) /\ Between(sel.partial, Before, Drawn)
          /\ Between(sel.all, Before, Drawn) /\ Between(sel.kept, Before, Drawn)
      BY <1>4 DEF LineageInv, SelInv, InBatch
    <3>2. /\ Varies(scores) \in BOOLEAN /\ SolvedNone(scores) \in BOOLEAN
          /\ SolvedAll(scores) \in BOOLEAN
      BY DEF Varies, SolvedNone, SolvedAll
    <3>3. /\ sel'.none = Keep(sel.none, p, SolvedNone(scores))
          /\ sel'.partial = Keep(sel.partial, p, ~SolvedNone(scores) /\ ~SolvedAll(scores))
          /\ sel'.all = Keep(sel.all, p, SolvedAll(scores))
          /\ sel'.kept = Keep(sel.kept, p, Varies(scores))
      BY <1>3
    <3>4. Before \in Int /\ Drawn \in Int
      BY <1>1, DrawnType
    <3>5. Between(sel'.none, Before, Drawn)
      BY <1>1, <1>2, <3>1, <3>2, <3>3, <3>4, RecordFields, BetweenKeep
    <3>6. Between(sel'.partial, Before, Drawn)
      BY <1>1, <1>2, <3>1, <3>2, <3>3, <3>4, RecordFields, BetweenKeep
    <3>7. Between(sel'.all, Before, Drawn)
      BY <1>1, <1>2, <3>1, <3>2, <3>3, <3>4, RecordFields, BetweenKeep
    <3>8. Between(sel'.kept, Before, Drawn)
      BY <1>1, <1>2, <3>1, <3>2, <3>3, <3>4, RecordFields, BetweenKeep
    <3> QED BY <3>5, <3>6, <3>7, <3>8
  <2>6. Len(new_batch'.prompts) <= GenBatchSize
    <3>1. Len(new_batch.prompts) \in Nat /\ GenBatchSize \in Nat
      BY <1>1, RecordFields, ConfigTypes
    <3> QED BY <1>3, <2>2, <3>1
  <2>7. cursor' > 0
    BY <1>4 DEF LineageInv, SelInv, InBatch
  <2> QED BY <1>5, <2>4, <2>5, <2>6, <2>7 DEF SelInv
<1>7. (DiskInv /\ WeightsInv /\ BufferInv /\ BatchInv)'
  BY <1>4, <1>5 DEF LineageInv, DiskInv, WeightsInv, BufferInv, BatchInv, Alive
<1> QED BY <1>6, <1>7 DEF LineageInv

LEMMA LineageCollect ==
  ASSUME TypeOK, LineageInv, Collect PROVE LineageInv'
<1> DEFINE groups == Groups(ForReal, new_batch.gen)
           buffer == all_incorrect_batch \o groups
           cut == Prefix(buffer, Len(buffer) - (Len(buffer) % DpSize))
<1>1. /\ pc = "classify" /\ pc' \in {"realtrain", "filter"} /\ real_step' = 0
      /\ cursor' = cursor /\ disk' = disk /\ weights' = weights
      /\ sel' = sel /\ new_batch' = new_batch /\ batch' = batch
  BY DEF Collect, loopVars, grpoVars, genVars
<1>2. all_incorrect_batch' \in {all_incorrect_batch, buffer, cut}
  BY DEF Collect, bufVars
<1>3. Drawn' = Drawn /\ Before' = Before
  BY <1>1 DEF Drawn, Before
<1>4. groups \in Seq(Trajectories) /\ AllUpTo(groups, Drawn) /\ NoneOf(groups, weights.real)
  <2>1. Between(ForReal, Before, Drawn)
    BY <1>1, ForRealBetween DEF LineageInv, InBatch
  <2>2. Bounded(weights.real, Before)
    BY <1>1 DEF LineageInv, WeightsInv
  <2>3. /\ ForReal \in Seq(Nat) /\ new_batch.gen \in Nat /\ Before \in Int /\ Drawn \in Int
        /\ weights.real \in SUBSET Nat
    BY RecordFields, ForRealType, DrawnType, WeightFields
  <2>4. groups \in Seq(Trajectories)
    BY <2>3, GroupsType
  <2>5. AllUpTo(groups, Drawn)
    BY <2>1, <2>3, GroupsTrajectories
  <2>6. NoneOf(groups, weights.real)
    BY <2>1, <2>2, <2>3, GroupsTrajectories
  <2> QED BY <2>4, <2>5, <2>6
<1>5. AllUpTo(all_incorrect_batch, Drawn) /\ NoneOf(all_incorrect_batch, weights.real)
  BY <1>1 DEF LineageInv, BufferInv, Alive
<1> HIDE DEF groups
<1>6. buffer \in Seq(Trajectories) /\ AllUpTo(buffer, Drawn) /\ NoneOf(buffer, weights.real)
  BY <1>4, <1>5, WeightFields, ConcatType, ConcatTrajectories
<1> HIDE DEF buffer
<1>7. AllUpTo(cut, Drawn) /\ NoneOf(cut, weights.real)
  <2>1. Len(buffer) \in Nat
    BY <1>6
  <2>2. Len(buffer) - (Len(buffer) % DpSize) \in Nat
    BY <2>1, Truncated
  <2> QED BY <1>6, <2>2, PrefixTrajectories
<1> HIDE DEF cut
<1>8. BufferInv'
  BY <1>1, <1>2, <1>3, <1>5, <1>6, <1>7 DEF BufferInv
<1>9. WeightsInv'
  <2>1. Before <= Drawn
    BY DrawnType DEF Before
  <2>2. Bounded(weights.real, Drawn)
    BY <1>1, <2>1, DrawnType, WeightFields, BoundedMonotonic DEF LineageInv, WeightsInv
  <2> QED BY <1>1, <1>3, <2>2 DEF LineageInv, WeightsInv, InBatch
<1>10. (DiskInv /\ SelInv /\ BatchInv)'
  BY <1>1, <1>3 DEF LineageInv, DiskInv, SelInv, BatchInv, InBatch
<1> QED BY <1>8, <1>9, <1>10 DEF LineageInv

LEMMA LineageRealUpdate ==
  ASSUME TypeOK, LineageInv, RealUpdate PROVE LineageInv'
<1>1. /\ pc = "realtrain" /\ pc' = pc /\ cursor' = cursor /\ disk' = disk
      /\ sel' = sel /\ new_batch' = new_batch /\ batch' = batch
      /\ all_incorrect_batch' = all_incorrect_batch
      /\ real_step' = real_step + 1 /\ real_step \in Nat
  BY DEF RealUpdate, loopVars, bufVars, grpoVars, genVars, TypeOK, CountersOK
<1>2. /\ weights'.real = weights.real \cup PromptsOf(RealBatch)
      /\ weights'.grpo = weights.grpo
  BY WeightFields DEF RealUpdate, Lineages
<1>3. Drawn' = Drawn /\ Before' = Before
  BY <1>1 DEF Drawn, Before
<1>4. AllUpTo(RealBatch, Drawn)
  BY <1>1, RealBatchType DEF LineageInv, BufferInv, Alive, AllUpTo
<1>5. WeightsInv'
  <2>1. Bounded(weights.real, Drawn)
    BY <1>1 DEF LineageInv, WeightsInv
  <2>2. Bounded(weights.real \cup PromptsOf(RealBatch), Drawn)
    BY <1>4, <2>1, UnionBounded
  <2> QED BY <1>1, <1>2, <1>3, <2>2 DEF LineageInv, WeightsInv, InBatch
<1>6. BufferInv'
  BY <1>1, <1>3 DEF LineageInv, BufferInv, Alive
<1>7. (DiskInv /\ SelInv /\ BatchInv)'
  BY <1>1, <1>2, <1>3 DEF LineageInv, DiskInv, SelInv, BatchInv
<1> QED BY <1>5, <1>6, <1>7 DEF LineageInv

LEMMA LineageRealUpdateRaises ==
  ASSUME TypeOK, LineageInv, RealUpdateRaises PROVE LineageInv'
<1>1. /\ pc = "realtrain" /\ pc' = "raised" /\ cursor' = cursor /\ disk' = disk
      /\ weights' = weights
  BY DEF RealUpdateRaises, loopVars
<1>2. WeightsInv'
  <2>1. Before <= Drawn
    BY DrawnType DEF Before
  <2>2. Bounded(weights.grpo, Drawn)
    BY <1>1, <2>1, DrawnType, WeightFields, BoundedMonotonic DEF LineageInv, WeightsInv, InBatch
  <2> QED BY <1>1, <2>2 DEF LineageInv, WeightsInv, InBatch, Drawn
<1>3. (DiskInv /\ SelInv /\ BufferInv /\ BatchInv)'
  BY <1>1 DEF LineageInv, DiskInv, SelInv, BufferInv, BatchInv, InBatch, Alive
<1> QED BY <1>2, <1>3 DEF LineageInv

LEMMA LineageRealDone ==
  ASSUME TypeOK, LineageInv, RealDone PROVE LineageInv'
<1>1. /\ pc = "realtrain" /\ pc' = "filter" /\ cursor' = cursor /\ disk' = disk
      /\ sel' = sel /\ new_batch' = new_batch /\ batch' = batch
      /\ all_incorrect_batch' = <<>>
      /\ weights'.real = weights.real /\ weights'.grpo = weights.grpo
  BY WeightFields DEF RealDone, loopVars, grpoVars, genVars, Lineages
<1>2. Drawn' = Drawn /\ Before' = Before
  BY <1>1 DEF Drawn, Before
<1>3. BufferInv'
  BY <1>1 DEF BufferInv, AllUpTo, NoneOf
<1>4. (DiskInv /\ WeightsInv /\ SelInv /\ BatchInv)'
  BY <1>1, <1>2 DEF LineageInv, DiskInv, WeightsInv, SelInv, BatchInv, InBatch
<1> QED BY <1>3, <1>4 DEF LineageInv

\* Prompts of the current generation batch are not yet in the lineage.
LEMMA NewGroups ==
  ASSUME TypeOK, LineageInv, pc \in InBatch, NEW ps \in Seq(Nat), Between(ps, Before, Drawn)
  PROVE  /\ Groups(ps, new_batch.gen) \in Seq(Trajectories)
         /\ AllUpTo(Groups(ps, new_batch.gen), Drawn)
         /\ NoneOf(Groups(ps, new_batch.gen), weights.grpo)
<1>1. new_batch.gen \in Nat /\ Before \in Int /\ Drawn \in Int /\ weights.grpo \in SUBSET Nat
  BY RecordFields, DrawnType, WeightFields
<1>2. Bounded(weights.grpo, Before)
  BY DEF LineageInv, WeightsInv, InBatch
<1> QED BY <1>1, <1>2, GroupsType, GroupsTrajectories

LEMMA GrpoBounded ==
  ASSUME TypeOK, LineageInv, pc \in InBatch
  PROVE  Bounded(weights.grpo, Drawn)
<1>1. Before <= Drawn /\ Before \in Int /\ Drawn \in Int
  BY DrawnType DEF Before
<1>2. Bounded(weights.grpo, Before)
  BY DEF LineageInv, WeightsInv, InBatch
<1> QED BY <1>1, <1>2, WeightFields, BoundedMonotonic

LEMMA LineageTakeNewBatch ==
  ASSUME TypeOK, LineageInv, TakeNewBatch PROVE LineageInv'
<1>1. /\ pc = "filter" /\ pc' = "train" /\ cursor' = cursor /\ disk' = disk /\ weights' = weights
      /\ all_incorrect_batch' = all_incorrect_batch /\ real_step' = real_step
      /\ batch' = Groups(new_batch.prompts, new_batch.gen)
  BY DEF TakeNewBatch, loopVars, bufVars
<1>2. Between(new_batch.prompts, Before, Drawn)
  <2>1. /\ Between(new_batch.prompts, Before, Before + Len(new_batch.prompts))
        /\ Len(new_batch.prompts) <= GenBatchSize
    BY <1>1 DEF LineageInv, SelInv, InBatch
  <2>2. Before + Len(new_batch.prompts) <= Drawn /\ Len(new_batch.prompts) \in Nat
    BY <2>1, RecordFields, DrawnType DEF Before
  <2>3. \A i \in DOMAIN new_batch.prompts : new_batch.prompts[i] \in Nat
    BY RecordFields
  <2> QED BY <2>1, <2>2, <2>3, DrawnType DEF Between
<1>3. AllUpTo(batch', Drawn) /\ NoneOf(batch', weights.grpo)
  BY <1>1, <1>2, NewGroups, RecordFields DEF InBatch
<1>4. Drawn' = Drawn
  BY <1>1 DEF Drawn
<1>5. WeightsInv'
  BY <1>1, <1>4, GrpoBounded DEF LineageInv, WeightsInv, InBatch
<1>6. BatchInv'
  BY <1>1, <1>3, <1>4 DEF BatchInv
<1>7. (DiskInv /\ SelInv /\ BufferInv)'
  BY <1>1, <1>4 DEF LineageInv, DiskInv, SelInv, BufferInv, InBatch, Alive
<1> QED BY <1>5, <1>6, <1>7 DEF LineageInv

LEMMA LineageFilterNewBatch ==
  ASSUME TypeOK, LineageInv, FilterNewBatch PROVE LineageInv'
<1> DEFINE groups == Groups(sel.kept, new_batch.gen)
           joined == batch \o groups
<1>1. /\ pc = "filter" /\ pc' \in {"train", "fetch", "raised"}
      /\ cursor' = cursor /\ disk' = disk /\ weights' = weights
      /\ all_incorrect_batch' = all_incorrect_batch /\ real_step' = real_step
      /\ batch' \in {joined, Aligned(joined)}
  BY DEF FilterNewBatch, loopVars, bufVars
<1>2. groups \in Seq(Trajectories) /\ AllUpTo(groups, Drawn) /\ NoneOf(groups, weights.grpo)
  <2>1. Between(sel.kept, Before, Drawn)
    BY <1>1 DEF LineageInv, SelInv, InBatch
  <2> QED BY <1>1, <2>1, NewGroups, RecordFields DEF InBatch
<1>3. AllUpTo(batch, Drawn) /\ NoneOf(batch, weights.grpo)
  BY <1>1 DEF LineageInv, BatchInv, InBatch
<1> HIDE DEF groups
<1>4. joined \in Seq(Trajectories) /\ AllUpTo(joined, Drawn) /\ NoneOf(joined, weights.grpo)
  BY <1>2, <1>3, WeightFields, ConcatType, ConcatTrajectories
<1> HIDE DEF joined
<1>5. AllUpTo(Aligned(joined), Drawn) /\ NoneOf(Aligned(joined), weights.grpo)
  <2>1. TrainBatchSize * N \in Nat
    BY ConfigTypes
  <2> QED BY <1>4, <2>1, PrefixTrajectories DEF Aligned
<1>6. Drawn' = Drawn
  BY <1>1 DEF Drawn
<1>7. WeightsInv'
  BY <1>1, <1>6, GrpoBounded DEF LineageInv, WeightsInv, InBatch
<1>8. BatchInv'
  BY <1>1, <1>4, <1>5, <1>6 DEF BatchInv
<1>9. (DiskInv /\ SelInv /\ BufferInv)'
  BY <1>1, <1>6 DEF LineageInv, DiskInv, SelInv, BufferInv, InBatch, Alive
<1> QED BY <1>7, <1>8, <1>9 DEF LineageInv

LEMMA LineageUpdateActor ==
  ASSUME TypeOK, LineageInv, UpdateActor PROVE LineageInv'
<1>1. /\ pc = "train" /\ pc' = "report" /\ cursor' = cursor /\ disk' = disk
      /\ all_incorrect_batch' = all_incorrect_batch /\ real_step' = real_step
  BY DEF UpdateActor, loopVars, bufVars
<1>2. /\ weights'.real = weights.real
      /\ weights'.grpo \in {weights.grpo, weights.grpo \cup PromptsOf(batch)}
  BY WeightFields DEF UpdateActor, Lineages
<1>3. Drawn' = Drawn
  BY <1>1 DEF Drawn
<1>4. Bounded(weights.grpo, Drawn) /\ Bounded(weights.real, Drawn) /\ AllUpTo(batch, Drawn)
  BY <1>1 DEF LineageInv, WeightsInv, BatchInv, InBatch
<1>5. Bounded(weights.grpo \cup PromptsOf(batch), Drawn)
  BY <1>4, UnionBounded
<1>6. WeightsInv'
  BY <1>1, <1>2, <1>3, <1>4, <1>5 DEF WeightsInv, InBatch
<1>7. (DiskInv /\ SelInv /\ BufferInv /\ BatchInv)'
  BY <1>1, <1>2, <1>3 DEF LineageInv, DiskInv, SelInv, BufferInv, BatchInv, InBatch, Alive
<1> QED BY <1>6, <1>7 DEF LineageInv

LEMMA LineageValidateAndSave ==
  ASSUME TypeOK, LineageInv, ValidateAndSave PROVE LineageInv'
<1>1. /\ pc = "report" /\ pc' = "end" /\ cursor' = cursor /\ weights' = weights
      /\ all_incorrect_batch' = all_incorrect_batch /\ real_step' = real_step
  BY DEF ValidateAndSave, loopVars, bufVars
<1>2. \/ disk' = disk
      \/ disk'.cursor = cursor /\ disk'.weights = weights
  BY DEF ValidateAndSave
<1>3. Bounded(weights.grpo, Drawn) /\ Bounded(weights.real, Drawn)
  BY <1>1 DEF LineageInv, WeightsInv, InBatch
<1>4. DiskInv'
  BY <1>2, <1>3 DEF LineageInv, DiskInv, Drawn
<1>5. (WeightsInv /\ SelInv /\ BufferInv /\ BatchInv)'
  BY <1>1, <1>3 DEF LineageInv, WeightsInv, SelInv, BufferInv, BatchInv, InBatch, Alive, Drawn
<1> QED BY <1>4, <1>5 DEF LineageInv

LEMMA LineageEndIteration ==
  ASSUME TypeOK, LineageInv, EndIteration PROVE LineageInv'
<1>1. /\ pc = "end" /\ pc' \in {"done", "fetch"} /\ cursor' = cursor /\ weights' = weights
      /\ all_incorrect_batch' = all_incorrect_batch /\ real_step' = real_step
      /\ disk' = disk /\ batch' = <<>>
  BY DEF EndIteration, loopVars, bufVars
<1>2. BatchInv'
  BY <1>1 DEF BatchInv, AllUpTo, NoneOf
<1>3. (DiskInv /\ WeightsInv /\ SelInv /\ BufferInv)'
  BY <1>1 DEF LineageInv, DiskInv, WeightsInv, SelInv, BufferInv, InBatch, Alive, Drawn
<1> QED BY <1>2, <1>3 DEF LineageInv

LEMMA LineageNext == TypeInv /\ LineageInv /\ [Next]_vars => LineageInv'
<1> SUFFICES ASSUME TypeInv, LineageInv, [Next]_vars PROVE LineageInv'
  OBVIOUS
<1>1. TypeOK
  BY DEF TypeInv
<1>2. CASE UNCHANGED vars
  BY <1>2 DEF vars, loopVars, bufVars, grpoVars, genVars, LineageInv, DiskInv, WeightsInv, SelInv,
              BufferInv, BatchInv, Alive, Drawn, Before
<1> QED
  BY <1>1, <1>2, LineageStart, LineageCrash, LineageGenerate, LineageNextEpoch, LineageClassify,
     LineageCollect, LineageRealUpdate, LineageRealUpdateRaises, LineageRealDone,
     LineageTakeNewBatch, LineageFilterNewBatch, LineageUpdateActor, LineageValidateAndSave,
     LineageEndIteration
  DEF Next, Step

LEMMA LineageGivesTrainedOnce == TypeOK /\ LineageInv => TrainedOnce
<1> SUFFICES ASSUME TypeOK, LineageInv PROVE TrainedOnce
  OBVIOUS
<1>1. ASSUME pc = "realtrain", real_step = 0
      PROVE  PromptsOf(RealBatch) \cap weights.real = {}
  BY <1>1, RealBatchType DEF LineageInv, BufferInv, Alive, NoneOf, PromptsOf
<1>2. ASSUME pc = "train"
      PROVE  PromptsOf(batch) \cap weights.grpo = {}
  BY <1>2 DEF LineageInv, BatchInv, NoneOf, PromptsOf
<1> QED BY <1>1, <1>2 DEF TrainedOnce

\* However the job is killed and resumed, and whatever the buffer, the filter
\* and the truncations do, no prompt enters the lineage of the weights in two
\* REAL rounds or in two GRPO updates.
THEOREM TrainedOnceCorrect == Spec => []TrainedOnce
<1>1. Init => TypeInv /\ LineageInv
  BY TypeInit, LineageInit
<1>2. TypeInv /\ LineageInv /\ [Next]_vars => (TypeInv /\ LineageInv)'
  BY TypeNext, LineageNext
<1>3. TypeInv /\ LineageInv => TrainedOnce
  BY LineageGivesTrainedOnce DEF TypeInv
<1> QED BY <1>1, <1>2, <1>3, PTL DEF Spec
-----------------------------------------------------------------------------
(* The REAL buffer and its counter *)

\* BufferAccounting with what the truncation leaves for a REAL round.
AccountInv ==
  /\ BufferAccounting
  /\ pc = "realtrain" =>
       /\ Len(all_incorrect_batch) > BufferSize * N - DpSize
       /\ (BufferSize * N) % DpSize = 0 => Len(all_incorrect_batch) >= BufferSize * N

\* Rounding down to a multiple never goes below a multiple.
LEMMA MultipleBelow ==
  ASSUME NEW d \in Nat \ {0}, NEW len \in Nat, NEW m \in Nat, m % d = 0, m <= len
  PROVE  m <= len - (len % d)
<1> DEFINE q == len \div d
           k == m \div d
<1>1. q \in Int /\ len % d \in 0..(d - 1) /\ len = d * q + (len % d)
  BY SMT
<1>2. k \in Int /\ m = d * k
  BY SMT
<1> HIDE DEF q, k
<1>3. k <= q
  <2> SUFFICES ASSUME q + 1 <= k PROVE FALSE
    BY <1>1, <1>2
  <2>1. d * (q + 1) <= d * k /\ d * (q + 1) = d * q + d
    BY <1>1, <1>2
  <2> QED BY <1>1, <1>2, <2>1
<1>4. d * k <= d * q
  BY <1>1, <1>2, <1>3
<1> QED BY <1>1, <1>2, <1>4

\* Steps that neither touch the buffer nor lead into or out of a REAL round.
LEMMA AccountKept ==
  ASSUME AccountInv, all_incorrect_batch' = all_incorrect_batch,
         num_prompt_in_real_buffer' = num_prompt_in_real_buffer,
         Alive' => Alive, pc # "realtrain", pc' # "realtrain"
  PROVE  AccountInv'
BY DEF AccountInv, BufferAccounting

LEMMA AccountCollect ==
  ASSUME TypeOK, AccountInv, Collect PROVE AccountInv'
<1> DEFINE groups == Groups(ForReal, new_batch.gen)
           buffer == all_incorrect_batch \o groups
           count == num_prompt_in_real_buffer + ForRealCount
           rest == Len(buffer) - (Len(buffer) % DpSize)
<1>1. pc = "classify" /\ pc' \in {"realtrain", "filter"}
  BY DEF Collect
<1>2. CASE ~UseReal
  BY <1>1, <1>2, AccountKept DEF Collect, bufVars, Alive
<1>3. CASE UseReal
  <2>1. /\ num_prompt_in_real_buffer \in Nat /\ all_incorrect_batch \in Seq(Trajectories)
        /\ ForReal \in Seq(Nat) /\ ForRealCount \in Nat /\ Len(ForReal) = ForRealCount
        /\ new_batch.gen \in Nat /\ N \in Nat /\ DpSize \in Nat
        /\ BufferSize \in Nat /\ BufferSize * N \in Nat
    BY WeightFields, ForRealType, RecordFields, ConfigTypes DEF TypeOK, CountersOK
  <2>2. /\ Len(all_incorrect_batch) = N * num_prompt_in_real_buffer
        /\ num_prompt_in_real_buffer < BufferSize
    BY <1>1 DEF AccountInv, BufferAccounting, Alive
  <2>3. groups \in Seq(Trajectories) /\ Len(groups) = Len(ForReal) * N
    BY <2>1, GroupsType
  <2> HIDE DEF groups
  <2>4. buffer \in Seq(Trajectories) /\ Len(buffer) = N * count
    <3>1. buffer \in Seq(Trajectories) /\ Len(buffer) = Len(all_incorrect_batch) + Len(groups)
      BY <2>1, <2>3, ConcatType
    <3>2. N * count = N * num_prompt_in_real_buffer + ForRealCount * N
      BY <2>1
    <3> QED BY <2>1, <2>2, <2>3, <3>1, <3>2
  <2>5. CASE count >= BufferSize
    <3>1. pc' = "realtrain" /\ all_incorrect_batch' = Prefix(buffer, rest)
      BY <1>3, <2>5 DEF Collect, groups
    <3>2. N * count >= BufferSize * N
      BY <2>1, <2>5
    <3> HIDE DEF buffer
    <3>3. Len(buffer) \in Nat
      BY <2>4
    <3>4. rest \in Nat /\ rest > Len(buffer) - DpSize /\ rest <= Len(buffer)
      BY <3>3, Truncated
    <3>5. Len(Prefix(buffer, rest)) = rest
      <4> HIDE DEF rest
      <4>1. Len(Prefix(buffer, rest)) = IF rest < Len(buffer) THEN rest ELSE Len(buffer)
        BY <2>4, <3>4, PrefixType
      <4> QED BY <3>3, <3>4, <4>1
    <3>6. Len(buffer) >= BufferSize * N
      BY <2>4, <3>2
    <3>7. (BufferSize * N) % DpSize = 0 => rest >= BufferSize * N
      BY <2>1, <3>3, <3>6, ConfigTypes, MultipleBelow
    <3> HIDE DEF rest
    <3>8. Len(all_incorrect_batch') = rest
      BY <3>1, <3>5
    <3>9. Len(all_incorrect_batch') > BufferSize * N - DpSize
      BY <2>1, <3>3, <3>4, <3>6, <3>8
    <3> QED BY <3>1, <3>7, <3>8, <3>9 DEF AccountInv, BufferAccounting
  <2>6. CASE ~(count >= BufferSize)
    <3>1. /\ pc' = "filter" /\ all_incorrect_batch' = buffer
          /\ num_prompt_in_real_buffer' = count
      BY <1>3, <2>6 DEF Collect, groups
    <3>2. count < BufferSize
      BY <2>1, <2>6
    <3> QED BY <2>4, <3>1, <3>2 DEF AccountInv, BufferAccounting
  <2> QED BY <2>5, <2>6
<1> QED BY <1>2, <1>3

LEMMA AccountNext == TypeOK /\ AccountInv /\ [Next]_vars => AccountInv'
<1> SUFFICES ASSUME TypeOK, AccountInv, [Next]_vars PROVE AccountInv'
  OBVIOUS
<1>1. CASE Start
  BY <1>1, ConfigTypes DEF Start, AccountInv, BufferAccounting
<1>2. CASE Collect
  BY <1>2, AccountCollect
<1>3. CASE RealUpdate
  BY <1>3 DEF RealUpdate, bufVars, AccountInv, BufferAccounting
<1>4. CASE RealUpdateRaises \/ Crash
  BY <1>4 DEF RealUpdateRaises, Crash, AccountInv, BufferAccounting, Alive
<1>5. CASE RealDone
  BY <1>5, ConfigTypes DEF RealDone, AccountInv, BufferAccounting
<1>6. CASE Generate \/ NextEpoch
  BY <1>6, AccountKept DEF Generate, NextEpoch, bufVars, Alive
<1>7. CASE \E scores \in [1..N -> Scores] : Classify(scores)
  BY <1>7, AccountKept DEF Classify, bufVars, Alive
<1>8. CASE TakeNewBatch \/ FilterNewBatch
  BY <1>8, AccountKept DEF TakeNewBatch, FilterNewBatch, bufVars, Alive
<1>9. CASE UpdateActor \/ ValidateAndSave \/ EndIteration
  BY <1>9, AccountKept DEF UpdateActor, ValidateAndSave, EndIteration, bufVars, Alive
<1>10. CASE UNCHANGED vars
  BY <1>10 DEF vars, bufVars, AccountInv, BufferAccounting, Alive
<1> QED BY <1>1, <1>2, <1>3, <1>4, <1>5, <1>6, <1>7, <1>8, <1>9, <1>10 DEF Next, Step

\* The counter of the REAL buffer, kept apart from the buffer and fed from other
\* lists, is always right, and a generation batch never finds the buffer full.
THEOREM BufferAccountingCorrect == Spec => []BufferAccounting
<1>1. Init => AccountInv
  BY DEF Init, AccountInv, BufferAccounting, Alive
<1>2. TypeInv /\ AccountInv /\ [Next]_vars => (TypeInv /\ AccountInv)'
  BY TypeNext, AccountNext DEF TypeInv
<1>3. AccountInv => BufferAccounting
  BY DEF AccountInv
<1> QED BY <1>1, <1>2, <1>3, TypeInit, PTL DEF Spec

\* Every REAL round trains on at most buffer_size prompts' responses and on all
\* but fewer than one per worker of them, on exactly as many as configured when
\* these divide among the workers.
THEOREM RealRoundSizeCorrect == Spec => []RealRoundSize
<1>1. Init => AccountInv
  BY DEF Init, AccountInv, BufferAccounting, Alive
<1>2. TypeInv /\ AccountInv /\ [Next]_vars => (TypeInv /\ AccountInv)'
  BY TypeNext, AccountNext DEF TypeInv
<1>3. TypeInv /\ AccountInv => RealRoundSize
  <2> SUFFICES ASSUME TypeInv, AccountInv, pc = "realtrain"
               PROVE  /\ Len(RealBatch) <= BufferSize * N
                      /\ Len(RealBatch) > BufferSize * N - DpSize
                      /\ (BufferSize * N) % DpSize = 0 => Len(RealBatch) = BufferSize * N
    BY DEF RealRoundSize
  <2>1. BufferSize * N \in Nat /\ DpSize \in Nat \ {0}
    BY ConfigTypes
  <2>2. all_incorrect_batch \in Seq(Trajectories)
    BY WeightFields DEF TypeInv
  <2>3. Len(RealBatch) = IF BufferSize * N < Len(all_incorrect_batch)
                         THEN BufferSize * N ELSE Len(all_incorrect_batch)
    BY <2>1, <2>2, PrefixType DEF RealBatch
  <2>4. Len(all_incorrect_batch) \in Nat
    BY <2>2
  <2> QED BY <2>1, <2>3, <2>4 DEF AccountInv
<1> QED BY <1>1, <1>2, <1>3, TypeInit, PTL DEF Spec
-----------------------------------------------------------------------------
(* The number of steps and the last checkpoint *)

\* The steps a checkpoint can have when the job is started for the next time.
Quota == crashes * TotalTrainingSteps

InIteration == {"classify", "realtrain", "filter", "train", "report", "end"}

\* gen_steps runs ahead of the steps of this start, and is_last_step has not
\* changed since the generation batch was drawn.
StepsInv ==
  /\ disk.step <= Quota + TotalTrainingSteps
  /\ pc = "init" => disk.step <= Quota
  /\ Alive => /\ global_steps <= Quota + gen_steps
              /\ global_steps <= Quota + TotalTrainingSteps
  /\ pc \in InIteration => is_last_step = (gen_steps >= TotalTrainingSteps)

LEMMA QuotaTypes ==
  ASSUME TypeOK
  PROVE  /\ Quota \in Nat /\ TotalTrainingSteps \in Nat \ {0} /\ crashes \in Nat
         /\ global_steps \in Nat /\ gen_steps \in Nat /\ disk.step \in Nat
         /\ (crashes + 1) * TotalTrainingSteps = Quota + TotalTrainingSteps
<1>1. TotalTrainingSteps \in Nat \ {0} /\ crashes \in Nat
  BY ConfigTypes DEF TypeOK, CountersOK
<1>2. Quota \in Nat /\ (crashes + 1) * TotalTrainingSteps = Quota + TotalTrainingSteps
  BY <1>1 DEF Quota
<1> QED BY <1>1, <1>2 DEF TypeOK, CountersOK, RecordsOK, Checkpoints

LEMMA StepsInit == Init => StepsInv
<1> SUFFICES ASSUME Init PROVE StepsInv
  OBVIOUS
<1>1. Quota = 0 /\ TotalTrainingSteps \in Nat
  BY ConfigTypes DEF Init, Quota
<1> QED BY <1>1 DEF Init, StepsInv, Alive, InIteration

\* Steps that count nothing: they may end the iteration's work or the job.
LEMMA StepsKept ==
  ASSUME StepsInv, UNCHANGED <<stepVars, crashes, disk, is_last_step>>,
         pc' # "init" \/ pc = "init", Alive' => Alive, pc' \in InIteration => pc \in InIteration
  PROVE  StepsInv'
BY DEF StepsInv, stepVars, Quota

LEMMA StepsNext == TypeOK /\ StepsInv /\ [Next]_vars => StepsInv'
<1> SUFFICES ASSUME TypeOK, StepsInv, [Next]_vars PROVE StepsInv'
  OBVIOUS
<1>1. CASE Start
  <2>1. /\ disk' = disk /\ Quota' = Quota /\ pc' = "fetch"
        /\ global_steps' = disk.step + 1 /\ gen_steps' = 1 /\ disk.step <= Quota
    BY <1>1 DEF Start, StepsInv, Quota
  <2> QED BY <2>1, QuotaTypes DEF StepsInv, InIteration
<1>2. CASE Crash
  <2>1. /\ disk' = disk /\ pc' = "init" /\ crashes' = crashes + 1
        /\ disk.step <= Quota + TotalTrainingSteps
    BY <1>2 DEF Crash, StepsInv
  <2>2. Quota' = Quota + TotalTrainingSteps
    BY <2>1, QuotaTypes DEF Quota
  <2> QED BY <2>1, <2>2, QuotaTypes DEF StepsInv, Alive, InIteration
<1>3. CASE Generate
  <2>1. /\ disk' = disk /\ Quota' = Quota /\ pc = "fetch" /\ pc' = "classify"
        /\ global_steps' = global_steps /\ gen_steps' = gen_steps
        /\ is_last_step' = (gen_steps >= TotalTrainingSteps)
    BY <1>3 DEF Generate, stepVars, Quota, LastStep
  <2> QED BY <2>1 DEF StepsInv, Alive, InIteration
<1>4. CASE FilterNewBatch
  <2>1. /\ disk' = disk /\ Quota' = Quota /\ pc = "filter" /\ is_last_step' = is_last_step
        /\ global_steps' = global_steps
    BY <1>4 DEF FilterNewBatch, genVars, Quota
  <2>2. \/ pc' \in {"train", "raised"} /\ gen_steps' = gen_steps
        \/ pc' = "fetch" /\ gen_steps' = gen_steps + 1
    BY <1>4 DEF FilterNewBatch
  <2> QED BY <2>1, <2>2, QuotaTypes DEF StepsInv, Alive, InIteration
<1>5. CASE ValidateAndSave
  <2>1. /\ Quota' = Quota /\ pc = "report" /\ pc' = "end" /\ is_last_step' = is_last_step
        /\ global_steps' = global_steps /\ gen_steps' = gen_steps
        /\ disk'.step \in {disk.step, global_steps}
    BY <1>5 DEF ValidateAndSave, stepVars, genVars, Quota
  <2> QED BY <2>1, QuotaTypes DEF StepsInv, Alive, InIteration
<1>6. CASE EndIteration
  <2>1. /\ disk' = disk /\ Quota' = Quota /\ pc = "end"
    BY <1>6 DEF EndIteration, Quota
  <2>2. \/ pc' = "done" /\ gen_steps' = gen_steps /\ global_steps' = global_steps
        \/ /\ ~is_last_step /\ pc' = "fetch"
           /\ gen_steps' = gen_steps + 1 /\ global_steps' = global_steps + 1
    BY <1>6 DEF EndIteration, stepVars
  <2>3. is_last_step = (gen_steps >= TotalTrainingSteps)
    BY <2>1 DEF StepsInv, InIteration
  <2>4. ~is_last_step => gen_steps < TotalTrainingSteps
    <3>1. ~is_last_step => ~(gen_steps >= TotalTrainingSteps)
      BY <2>3, Zenon
    <3> QED BY <3>1, QuotaTypes
  <2>5. /\ global_steps <= Quota + gen_steps /\ global_steps <= Quota + TotalTrainingSteps
        /\ disk.step <= Quota + TotalTrainingSteps
    BY <2>1 DEF StepsInv, Alive
  <2>6. CASE pc' = "done" /\ gen_steps' = gen_steps /\ global_steps' = global_steps
    BY <2>1, <2>5, <2>6 DEF StepsInv, InIteration
  <2>7. CASE /\ ~is_last_step /\ pc' = "fetch"
             /\ gen_steps' = gen_steps + 1 /\ global_steps' = global_steps + 1
    BY <2>1, <2>4, <2>5, <2>7, QuotaTypes DEF StepsInv, InIteration
  <2> QED BY <2>2, <2>6, <2>7
<1>7. CASE \E scores \in [1..N -> Scores] : Classify(scores)
  <2>1. PICK scores \in [1..N -> Scores] : Classify(scores)
    BY <1>7
  <2>2. /\ UNCHANGED <<stepVars, crashes, disk, is_last_step>> /\ pc' = pc
    BY <2>1 DEF Classify
  <2>3. Alive' => Alive
    BY <2>2 DEF Alive
  <2> QED BY <2>2, <2>3, StepsKept
<1>8. CASE NextEpoch \/ Collect
  BY <1>8, StepsKept DEF NextEpoch, Collect, genVars, InIteration, Alive
<1>9. CASE RealUpdate \/ RealUpdateRaises \/ RealDone
  BY <1>9, StepsKept DEF RealUpdate, RealUpdateRaises, RealDone, genVars, InIteration, Alive
<1>10. CASE TakeNewBatch \/ UpdateActor
  BY <1>10, StepsKept DEF TakeNewBatch, UpdateActor, genVars, InIteration, Alive
<1>11. CASE UNCHANGED vars
  BY <1>11, StepsKept DEF vars, genVars, Alive
<1> QED BY <1>1, <1>2, <1>3, <1>4, <1>5, <1>6, <1>7, <1>8, <1>9, <1>10, <1>11 DEF Next, Step

\* However often the job is killed and resumed, each start adds at most
\* total_training_steps to global_steps: gen_steps, which starts anew, bounds it.
THEOREM StepsPerStartCorrect == Spec => []StepsPerStart
<1>1. TypeInv /\ StepsInv /\ [Next]_vars => (TypeInv /\ StepsInv)'
  BY TypeNext, StepsNext DEF TypeInv
<1>2. TypeInv /\ StepsInv => StepsPerStart
  BY QuotaTypes DEF TypeInv, StepsInv, StepsPerStart
<1> QED BY <1>1, <1>2, TypeInit, StepsInit, PTL DEF Spec

\* What ValidateAndSave leaves behind in the last iteration.
FinalSaved ==
  /\ SaveFreq > 0 => disk.weights = weights /\ disk.step = global_steps
  /\ TestFreq > 0 => validated = weights.version

SavedInv == (pc = "end" /\ is_last_step) \/ pc = "done" => FinalSaved

LEMMA SavedNext == TypeOK /\ SavedInv /\ [Next]_vars => SavedInv'
<1> SUFFICES ASSUME TypeOK, SavedInv, [Next]_vars PROVE SavedInv'
  OBVIOUS
<1>1. CASE ValidateAndSave
  <2>1. /\ weights' = weights /\ global_steps' = global_steps /\ is_last_step' = is_last_step
        /\ pc' = "end"
    BY <1>1 DEF ValidateAndSave, stepVars, genVars
  <2>2. is_last_step /\ SaveFreq > 0 => disk'.weights = weights /\ disk'.step = global_steps
    BY <1>1 DEF ValidateAndSave, Due
  <2>3. is_last_step /\ TestFreq > 0 => validated' = weights.version
    BY <1>1 DEF ValidateAndSave, Due
  <2> QED BY <2>1, <2>2, <2>3 DEF SavedInv, FinalSaved
<1>2. CASE EndIteration
  BY <1>2 DEF EndIteration, SavedInv, FinalSaved, stepVars, genVars
<1>3. CASE UNCHANGED vars
  BY <1>3 DEF vars, SavedInv, FinalSaved, stepVars, genVars
<1>4. CASE Start \/ Crash \/ Generate \/ NextEpoch
  BY <1>4 DEF Start, Crash, Generate, NextEpoch, SavedInv
<1>5. CASE \E scores \in [1..N -> Scores] : Classify(scores)
  BY <1>5 DEF Classify, SavedInv
<1>6. CASE Collect \/ RealUpdate \/ RealUpdateRaises \/ RealDone
  BY <1>6 DEF Collect, RealUpdate, RealUpdateRaises, RealDone, SavedInv
<1>7. CASE TakeNewBatch \/ FilterNewBatch \/ UpdateActor
  BY <1>7 DEF TakeNewBatch, FilterNewBatch, UpdateActor, SavedInv
<1> QED BY <1>1, <1>2, <1>3, <1>4, <1>5, <1>6, <1>7 DEF Next, Step

\* A run that finishes has validated and saved exactly its final weights, for
\* every frequency and however the last step was reached.
THEOREM SavedAtEndCorrect == Spec => []SavedAtEnd
<1>1. Init => SavedInv
  BY DEF Init, SavedInv
<1>2. TypeInv /\ SavedInv /\ [Next]_vars => (TypeInv /\ SavedInv)'
  BY TypeNext, SavedNext DEF TypeInv
<1>3. SavedInv => SavedAtEnd
  BY DEF SavedInv, FinalSaved, SavedAtEnd
<1> QED BY <1>1, <1>2, <1>3, TypeInit, PTL DEF Spec
-----------------------------------------------------------------------------
(* What a kill costs *)

\* The steps since the newest checkpoint have passed no multiple of save_freq,
\* and each of them has taken at most BatchesPerStep generation batches.
SinceSave ==
  /\ disk.step < global_steps
  /\ cursor - disk.cursor <= BatchesPerStep * (global_steps - 1 - disk.step) + num_gen_batches
  /\ \A k \in (disk.step + 1)..(global_steps - 1) : k % SaveFreq # 0
  /\ pc = "end" => global_steps % SaveFreq # 0

JustSaved == pc = "end" /\ disk.step = global_steps /\ disk.cursor = cursor

LostInv ==
  SaveFreq > 0 /\ BatchesPerStep > 0 =>
    /\ LostToKill
    /\ pc \in InIteration \cup {"fetch"} =>
         /\ SinceSave \/ JustSaved
         /\ num_gen_batches <= BatchesPerStep
         /\ pc = "fetch" => num_gen_batches < BatchesPerStep

LEMMA LostTypes ==
  ASSUME TypeOK
  PROVE  /\ SaveFreq \in Nat /\ BatchesPerStep \in Nat /\ num_gen_batches \in Nat
         /\ cursor \in Nat /\ disk.cursor \in Nat
         /\ global_steps \in Nat /\ disk.step \in Nat
         /\ SaveFreq * BatchesPerStep \in Nat
<1>1. SaveFreq \in Nat /\ BatchesPerStep \in Nat
  BY ConfigAssumption DEF BatchesPerStep
<1> QED BY <1>1, WeightFields DEF TypeOK, CountersOK, RecordsOK, Checkpoints

\* Quotient and remainder are the only numbers that recompose an index.
LEMMA DivUnique ==
  ASSUME NEW n \in Nat \ {0}, NEW k \in Nat, NEW r \in 0..(n - 1)
  PROVE  (k * n + r) \div n = k /\ (k * n + r) % n = r
<1> DEFINE m == k * n + r
           q == m \div n
           s == m % n
<1>1. k * n \in Nat /\ m \in Nat
  OBVIOUS
<1>2. q \in Int /\ s \in 0..(n - 1) /\ m = n * q + s
  <2> HIDE DEF m
  <2> QED BY <1>1
<1>3. n * q + s = k * n + r
  BY <1>2
<1> HIDE DEF m, q, s
<1>4. q = k
  <2>1. CASE q < k
    <3>1. n * q + n <= k * n
      <4>1. q + 1 <= k /\ n * (q + 1) = n * q + n /\ n * k = k * n
        BY <1>2, <2>1
      <4>2. n * (q + 1) <= n * k
        BY <1>2, <4>1
      <4> QED BY <4>1, <4>2
    <3>2. n * q \in Int
      BY <1>2
    <3> QED BY <1>1, <1>2, <1>3, <3>1, <3>2
  <2>2. CASE k < q
    <3>1. k * n + n <= n * q
      <4>1. k + 1 <= q /\ n * (k + 1) = k * n + n
        BY <1>2, <2>2
      <4>2. n * (k + 1) <= n * q
        BY <1>2, <4>1
      <4> QED BY <4>1, <4>2
    <3>2. n * q \in Int
      BY <1>2
    <3> QED BY <1>1, <1>2, <1>3, <3>1, <3>2
  <2> QED BY <1>2, <2>1, <2>2
<1>5. s = r
  <2>1. n * q = k * n
    BY <1>4
  <2> QED BY <1>1, <1>2, <1>3, <2>1
<1> QED BY <1>4, <1>5 DEF m, q, s

\* An interval without a multiple of f is shorter than f.
LEMMA NoMultiple ==
  ASSUME NEW f \in Nat \ {0}, NEW a \in Nat, NEW b \in Nat,
         \A k \in (a + 1)..(b - 1) : k % f # 0
  PROVE  b - a <= f
<1> SUFFICES ASSUME b - a > f PROVE FALSE
  OBVIOUS
<1> DEFINE q == (a + f) \div f
<1>1. /\ q \in Int /\ (a + f) % f \in 0..(f - 1)
      /\ a + f = f * q + ((a + f) % f)
  BY SMT
<1> HIDE DEF q
<1>2. f * q \in (a + 1)..(b - 1)
  BY <1>1
<1>3. q \in Nat
  <2> SUFFICES ASSUME q <= 0 PROVE q = 0
    BY <1>1
  <2>1. f * q <= 0
    BY <1>1
  <2> QED BY <1>2, <2>1
<1>4. (q * f + 0) % f = 0
  BY <1>3, DivUnique
<1>5. q * f + 0 = f * q
  BY <1>3
<1> QED BY <1>2, <1>4, <1>5

LEMMA StepsSinceSave ==
  ASSUME TypeOK, SaveFreq > 0, SinceSave PROVE global_steps - disk.step <= SaveFreq
<1>1. SaveFreq \in Nat \ {0} /\ disk.step \in Nat /\ global_steps \in Nat
  BY LostTypes
<1>2. \A k \in (disk.step + 1)..(global_steps - 1) : k % SaveFreq # 0
  BY DEF SinceSave
<1> QED BY <1>1, <1>2, NoMultiple

\* What has been drawn since the newest checkpoint.
LEMMA LostBound ==
  ASSUME TypeOK, SaveFreq > 0, SinceSave, num_gen_batches <= BatchesPerStep
  PROVE  cursor - disk.cursor <= SaveFreq * BatchesPerStep
<1> DEFINE steps == global_steps - disk.step
<1>1. steps \in Int /\ steps <= SaveFreq
  BY LostTypes, StepsSinceSave
<1>2. cursor - disk.cursor <= BatchesPerStep * (steps - 1) + BatchesPerStep
  BY LostTypes DEF SinceSave
<1> HIDE DEF steps
<1>3. BatchesPerStep * (steps - 1) + BatchesPerStep = BatchesPerStep * steps
  BY <1>1, LostTypes
<1>4. BatchesPerStep * steps <= BatchesPerStep * SaveFreq
  BY <1>1, LostTypes
<1>5. BatchesPerStep * SaveFreq = SaveFreq * BatchesPerStep
  BY LostTypes
<1> QED BY <1>1, <1>2, <1>3, <1>4, <1>5, LostTypes

\* Steps that neither draw nor save nor count.
LEMMA LostKept ==
  ASSUME LostInv, UNCHANGED <<cursor, disk, global_steps, num_gen_batches>>,
         pc' \in InIteration \cup {"fetch"} =>
           pc \in InIteration \cup {"fetch"} /\ pc # "end" /\ pc' # "end" /\ (pc' # "fetch" \/ pc = "fetch")
  PROVE  LostInv'
BY DEF LostInv, LostToKill, SinceSave, JustSaved, InIteration, BatchesPerStep

LEMMA LostNext == TypeOK /\ LostInv /\ [Next]_vars => LostInv'
<1> SUFFICES ASSUME TypeOK, LostInv, [Next]_vars, SaveFreq > 0, BatchesPerStep > 0
             PROVE  /\ LostToKill'
                    /\ pc' \in InIteration \cup {"fetch"} =>
                         /\ SinceSave' \/ JustSaved'
                         /\ num_gen_batches' <= BatchesPerStep
                         /\ pc' = "fetch" => num_gen_batches' < BatchesPerStep
  BY DEF LostInv, BatchesPerStep
<1>1. CASE Start
  <2>1. /\ pc' = "fetch" /\ disk' = disk /\ cursor' = disk.cursor
        /\ global_steps' = disk.step + 1 /\ num_gen_batches' = 0
    BY <1>1 DEF Start
  <2>2. SinceSave'
    <3>1. BatchesPerStep' = BatchesPerStep
      BY DEF BatchesPerStep
    <3>2. BatchesPerStep * (global_steps' - 1 - disk.step) = 0
      BY <2>1, LostTypes
    <3>3. \A k \in (disk.step + 1)..(global_steps' - 1) : k % SaveFreq # 0
      BY <2>1, LostTypes
    <3>4. disk.step < global_steps' /\ cursor' - disk.cursor = 0
      BY <2>1, LostTypes
    <3> QED BY <2>1, <3>1, <3>2, <3>3, <3>4 DEF SinceSave
  <2>3. LostToKill'
    BY <2>1, LostTypes DEF LostToKill, BatchesPerStep
  <2> QED BY <2>1, <2>2, <2>3, LostTypes
<1>2. CASE Generate
  <2>1. /\ pc = "fetch" /\ pc' = "classify" /\ UNCHANGED <<disk, global_steps>>
        /\ cursor' = cursor + 1 /\ num_gen_batches' = num_gen_batches + 1
    BY <1>2 DEF Generate, stepVars
  <2>2. SinceSave /\ num_gen_batches < BatchesPerStep
    BY <2>1 DEF LostInv, JustSaved
  <2>3. BatchesPerStep' = BatchesPerStep
    BY DEF BatchesPerStep
  <2>4. SinceSave' /\ num_gen_batches' <= BatchesPerStep
    BY <2>1, <2>2, <2>3, LostTypes DEF SinceSave
  <2>5. cursor' - disk'.cursor <= SaveFreq * BatchesPerStep
    <3> DEFINE steps == global_steps - disk.step
    <3>1. steps \in Int /\ steps <= SaveFreq
      BY <2>2, LostTypes, StepsSinceSave
    <3>2. cursor + 1 - disk.cursor <= BatchesPerStep * (steps - 1) + BatchesPerStep
      BY <2>2, LostTypes DEF SinceSave
    <3> HIDE DEF steps
    <3>3. BatchesPerStep * (steps - 1) + BatchesPerStep = BatchesPerStep * steps
      BY <3>1, LostTypes
    <3>4. BatchesPerStep * steps <= BatchesPerStep * SaveFreq
      BY <3>1, LostTypes
    <3>5. BatchesPerStep * SaveFreq = SaveFreq * BatchesPerStep
      BY LostTypes
    <3> QED BY <2>1, <3>1, <3>2, <3>3, <3>4, <3>5, LostTypes
  <2>6. LostToKill'
    BY <2>3, <2>5 DEF LostToKill
  <2> QED BY <2>1, <2>4, <2>6
<1>3. CASE FilterNewBatch
  <2>1. pc = "filter" /\ FilterGroups /\ UNCHANGED <<cursor, disk, global_steps, num_gen_batches>>
    BY <1>3 DEF FilterNewBatch, loopVars
  <2>2. CASE pc' = "fetch"
    <3>1. num_gen_batches < BatchesPerStep
      BY <1>3, <2>1, <2>2 DEF FilterNewBatch, BatchesPerStep
    <3>2. SinceSave /\ LostToKill
      BY <2>1 DEF LostInv, JustSaved, InIteration
    <3> QED BY <2>1, <2>2, <3>1, <3>2 DEF LostInv, LostToKill, SinceSave, BatchesPerStep, InIteration
  <2>3. CASE pc' # "fetch"
    BY <1>3, <2>1, <2>3, LostKept DEF FilterNewBatch, LostInv, InIteration, BatchesPerStep
  <2> QED BY <2>2, <2>3
<1>4. CASE ValidateAndSave
  <2>1. /\ pc = "report" /\ pc' = "end" /\ UNCHANGED <<cursor, global_steps, num_gen_batches>>
    BY <1>4 DEF ValidateAndSave, loopVars, stepVars, grpoVars
  <2>2. SinceSave /\ LostToKill /\ num_gen_batches <= BatchesPerStep
    BY <2>1 DEF LostInv, JustSaved, InIteration
  <2>3. CASE Due(SaveFreq)
    <3>1. disk'.step = global_steps /\ disk'.cursor = cursor
      BY <1>4, <2>3 DEF ValidateAndSave
    <3>2. JustSaved' /\ LostToKill'
      BY <2>1, <3>1, LostTypes DEF JustSaved, LostToKill, BatchesPerStep
    <3> QED BY <2>1, <2>2, <3>2
  <2>4. CASE ~Due(SaveFreq)
    <3>1. disk' = disk /\ global_steps % SaveFreq # 0
      BY <1>4, <2>4 DEF ValidateAndSave, Due
    <3>2. SinceSave' /\ LostToKill'
      BY <2>1, <2>2, <3>1 DEF SinceSave, LostToKill, BatchesPerStep
    <3> QED BY <2>1, <2>2, <3>2
  <2> QED BY <2>3, <2>4
<1>5. CASE EndIteration
  <2>1. pc = "end" /\ UNCHANGED <<cursor, disk>> /\ num_gen_batches' = 0
    BY <1>5 DEF EndIteration, loopVars
  <2>2. LostToKill /\ (SinceSave \/ JustSaved) /\ num_gen_batches <= BatchesPerStep
    BY <2>1 DEF LostInv, InIteration
  <2>3. LostToKill'
    BY <2>1, <2>2 DEF LostToKill, BatchesPerStep
  <2>4. CASE pc' = "done"
    BY <2>3, <2>4 DEF InIteration
  <2>5. CASE pc' = "fetch" /\ global_steps' = global_steps + 1
    <3>1. BatchesPerStep' = BatchesPerStep
      BY DEF BatchesPerStep
    <3>2. CASE JustSaved
      <4>1. BatchesPerStep * (global_steps' - 1 - disk.step) = 0
        BY <2>5, <3>2, LostTypes DEF JustSaved
      <4>2. SinceSave'
        BY <2>1, <2>5, <3>1, <3>2, <4>1, LostTypes DEF SinceSave, JustSaved
      <4> QED BY <2>1, <2>3, <2>5, <4>2, LostTypes
    <3>3. CASE SinceSave
      <4> DEFINE steps == global_steps - 1 - disk.step
      <4>1. steps \in Int /\ global_steps' - 1 - disk.step = steps + 1
        BY <2>5, LostTypes
      <4>2. cursor - disk.cursor <= BatchesPerStep * steps + num_gen_batches
        BY <3>3 DEF SinceSave
      <4> HIDE DEF steps
      <4>3. BatchesPerStep * (steps + 1) = BatchesPerStep * steps + BatchesPerStep
        BY <4>1, LostTypes
      <4>4. cursor - disk.cursor <= BatchesPerStep * (steps + 1) + 0
        BY <2>2, <4>1, <4>2, <4>3, LostTypes
      <4>5. \A k \in (disk.step + 1)..(global_steps' - 1) : k % SaveFreq # 0
        BY <2>1, <2>5, <3>3, LostTypes DEF SinceSave
      <4>6. SinceSave'
        BY <2>1, <2>5, <3>1, <3>3, <4>1, <4>4, <4>5, LostTypes DEF SinceSave
      <4> QED BY <2>1, <2>3, <2>5, <4>6, LostTypes
    <3> QED BY <2>2, <3>2, <3>3
  <2> QED BY <1>5, <2>4, <2>5 DEF EndIteration
<1>6. CASE UNCHANGED vars
  BY <1>6 DEF vars, loopVars, stepVars, grpoVars, LostInv, LostToKill, SinceSave, JustSaved,
              BatchesPerStep
<1>7. CASE \E scores \in [1..N -> Scores] : Classify(scores)
  <2>1. pc = "classify" /\ pc' = pc /\ UNCHANGED <<cursor, disk, global_steps, num_gen_batches>>
    BY <1>7 DEF Classify, loopVars, stepVars
  <2> QED BY <2>1, LostKept DEF LostInv, InIteration, BatchesPerStep
<1>8. CASE NextEpoch \/ Collect \/ Crash
  BY <1>8, LostKept DEF NextEpoch, Collect, Crash, loopVars, stepVars, grpoVars, LostInv,
                        InIteration, BatchesPerStep
<1>9. CASE RealUpdate \/ RealUpdateRaises \/ RealDone
  BY <1>9, LostKept DEF RealUpdate, RealUpdateRaises, RealDone, loopVars, stepVars, grpoVars,
                        LostInv, InIteration, BatchesPerStep
<1>10. CASE TakeNewBatch \/ UpdateActor
  BY <1>10, LostKept DEF TakeNewBatch, UpdateActor, loopVars, stepVars, grpoVars,
                         LostInv, InIteration, BatchesPerStep
<1> QED BY <1>1, <1>2, <1>3, <1>4, <1>5, <1>6, <1>7, <1>8, <1>9, <1>10 DEF Next, Step

\* Wherever a job is killed, and however often, it loses no more generation
\* batches than save_freq steps can take, whatever the numbers of batches that
\* the steps took.
THEOREM LostToKillCorrect == Spec => []LostToKill
<1>1. Init => LostInv
  <2> SUFFICES ASSUME Init, SaveFreq > 0, BatchesPerStep > 0
               PROVE  LostToKill /\ pc \notin InIteration \cup {"fetch"}
    BY DEF LostInv
  <2>1. TypeOK
    BY TypeInit DEF TypeInv
  <2> QED BY <2>1, LostTypes DEF Init, LostToKill, InIteration
<1>2. TypeInv /\ LostInv /\ [Next]_vars => (TypeInv /\ LostInv)'
  BY TypeNext, LostNext DEF TypeInv
<1>3. LostInv => LostToKill
  BY DEF LostInv, LostToKill
<1> QED BY <1>1, <1>2, <1>3, TypeInit, PTL DEF Spec
-----------------------------------------------------------------------------
(* The age of the responses *)

NoneOlder(ts, v) == \A i \in DOMAIN ts : ts[i].gen >= v
AllOf(ts, v) == \A i \in DOMAIN ts : ts[i].gen = v

\* Updates only raise the version, past both marks.
MarksInv ==
  /\ weights.lastReal <= weights.version /\ weights.lastGrpo <= weights.version
  /\ disk.weights.lastReal <= disk.weights.version
  /\ disk.weights.lastGrpo <= disk.weights.version

\* The responses being classified were generated by the present weights; the
\* GRPO update comes last in an iteration.
NewBatchInv ==
  /\ pc = "classify" => new_batch.gen = weights.version
  /\ pc \in InBatch => new_batch.gen >= weights.lastGrpo

\* Without GRPO only the REAL rounds change the weights, and they empty the
\* buffer.
BufferAgeInv ==
  Alive =>
    /\ NoneOlder(all_incorrect_batch, weights.lastReal)
    /\ ~UseGrpo /\ ~(pc = "realtrain" /\ real_step > 0) => AllOf(all_incorrect_batch, weights.version)

BatchAgeInv ==
  Alive /\ pc \notin {"report", "end", "done"} => NoneOlder(batch, weights.lastGrpo)

FreshInv == MarksInv /\ NewBatchInv /\ BufferAgeInv /\ BatchAgeInv

LEMMA ConcatAges ==
  ASSUME NEW s \in Seq(Trajectories), NEW t \in Seq(Trajectories), NEW v
  PROVE  /\ NoneOlder(s, v) /\ NoneOlder(t, v) => NoneOlder(s \o t, v)
         /\ AllOf(s, v) /\ AllOf(t, v) => AllOf(s \o t, v)
<1>1. \A i \in DOMAIN (s \o t) :
        \/ i \in DOMAIN s /\ (s \o t)[i] = s[i]
        \/ \E j \in DOMAIN t : (s \o t)[i] = t[j]
  BY ConcatType
<1> QED BY <1>1 DEF NoneOlder, AllOf

LEMMA PrefixAges ==
  ASSUME NEW s \in Seq(Trajectories), NEW k \in Nat, NEW v
  PROVE  /\ NoneOlder(s, v) => NoneOlder(Prefix(s, k), v)
         /\ AllOf(s, v) => AllOf(Prefix(s, k), v)
<1>1. \A i \in DOMAIN Prefix(s, k) : i \in DOMAIN s /\ Prefix(s, k)[i] = s[i]
  BY PrefixType
<1> QED BY <1>1 DEF NoneOlder, AllOf

LEMMA GroupsAges ==
  ASSUME NEW ps \in Seq(Nat), NEW gen \in Nat, NEW v \in Nat
  PROVE  /\ gen >= v => NoneOlder(Groups(ps, gen), v)
         /\ gen = v => AllOf(Groups(ps, gen), v)
<1>1. \A i \in DOMAIN Groups(ps, gen) : Groups(ps, gen)[i].gen = gen
  BY GroupsType
<1> QED BY <1>1 DEF NoneOlder, AllOf

\* The numbers the ages are about.
LEMMA AgeTypes ==
  ASSUME TypeOK
  PROVE  /\ weights.version \in Nat /\ weights.lastReal \in Nat /\ weights.lastGrpo \in Nat
         /\ disk.weights.version \in Nat /\ disk.weights.lastReal \in Nat
         /\ disk.weights.lastGrpo \in Nat
         /\ new_batch.gen \in Nat
BY WeightFields, LineageFields, RecordFields

LEMMA FreshInit == Init => FreshInv
BY DEF Init, FreshInv, MarksInv, NewBatchInv, BufferAgeInv, BatchAgeInv, InitialWeights,
       InBatch, Alive, NoneOlder, AllOf

LEMMA FreshStart == ASSUME TypeOK, FreshInv, Start PROVE FreshInv'
<1>1. /\ pc' = "fetch" /\ weights' = disk.weights /\ disk' = disk
      /\ all_incorrect_batch' = <<>> /\ batch' = <<>>
  BY DEF Start
<1> QED BY <1>1 DEF FreshInv, MarksInv, NewBatchInv, BufferAgeInv, BatchAgeInv, InBatch,
                    NoneOlder, AllOf

LEMMA FreshGenerate == ASSUME TypeOK, FreshInv, Generate PROVE FreshInv'
<1>1. /\ pc = "fetch" /\ pc' = "classify" /\ new_batch'.gen = weights.version
      /\ weights' = weights /\ disk' = disk
      /\ all_incorrect_batch' = all_incorrect_batch /\ batch' = batch
  BY DEF Generate, bufVars
<1> QED BY <1>1 DEF FreshInv, MarksInv, NewBatchInv, BufferAgeInv, BatchAgeInv, InBatch, Alive

LEMMA FreshClassify ==
  ASSUME TypeOK, FreshInv, NEW scores \in [1..N -> Scores], Classify(scores)
  PROVE  FreshInv'
<1>1. /\ pc = "classify" /\ pc' = pc
      /\ weights' = weights /\ disk' = disk
      /\ all_incorrect_batch' = all_incorrect_batch /\ batch' = batch
  BY DEF Classify, bufVars
<1>2. new_batch'.gen = new_batch.gen
  <2>1. new_batch \in Batches
    BY DEF TypeOK, RecordsOK
  <2> QED BY <2>1 DEF Classify, Batches
<1> QED BY <1>1, <1>2 DEF FreshInv, MarksInv, NewBatchInv, BufferAgeInv, BatchAgeInv, InBatch, Alive

LEMMA FreshCollect == ASSUME TypeOK, FreshInv, Collect PROVE FreshInv'
<1> DEFINE groups == Groups(ForReal, new_batch.gen)
           buffer == all_incorrect_batch \o groups
           rest == Len(buffer) - (Len(buffer) % DpSize)
<1>1. /\ pc = "classify" /\ pc' \in {"realtrain", "filter"} /\ real_step' = 0
      /\ weights' = weights /\ disk' = disk /\ batch' = batch /\ new_batch' = new_batch
      /\ all_incorrect_batch' \in {all_incorrect_batch, buffer, Prefix(buffer, rest)}
  BY DEF Collect, grpoVars, genVars, bufVars
<1>2. /\ new_batch.gen = weights.version /\ new_batch.gen \in Nat /\ ForReal \in Seq(Nat)
      /\ all_incorrect_batch \in Seq(Trajectories) /\ groups \in Seq(Trajectories)
  BY <1>1, RecordFields, WeightFields, ForRealType, GroupsType DEF FreshInv, NewBatchInv
<1>3. /\ NoneOlder(all_incorrect_batch, weights.lastReal)
      /\ ~UseGrpo => AllOf(all_incorrect_batch, weights.version)
  BY <1>1 DEF FreshInv, BufferAgeInv, Alive
<1>4. NoneOlder(groups, weights.lastReal) /\ AllOf(groups, weights.version)
  BY <1>2, GroupsAges, AgeTypes DEF FreshInv, MarksInv
<1> HIDE DEF groups
<1>5. /\ buffer \in Seq(Trajectories) /\ NoneOlder(buffer, weights.lastReal)
      /\ ~UseGrpo => AllOf(buffer, weights.version)
  BY <1>2, <1>3, <1>4, ConcatAges, ConcatType
<1> HIDE DEF buffer
<1>6. rest \in Nat
  BY <1>5, Truncated
<1> HIDE DEF rest
<1>7. /\ NoneOlder(Prefix(buffer, rest), weights.lastReal)
      /\ ~UseGrpo => AllOf(Prefix(buffer, rest), weights.version)
  BY <1>5, <1>6, PrefixAges
<1>8. BufferAgeInv'
  BY <1>1, <1>3, <1>5, <1>7 DEF BufferAgeInv
<1> QED BY <1>1, <1>8 DEF FreshInv, MarksInv, NewBatchInv, BatchAgeInv, InBatch, Alive

LEMMA FreshRealUpdate == ASSUME TypeOK, FreshInv, RealUpdate PROVE FreshInv'
<1>1. /\ pc = "realtrain" /\ pc' = pc /\ disk' = disk /\ batch' = batch /\ new_batch' = new_batch
      /\ all_incorrect_batch' = all_incorrect_batch
      /\ real_step' = real_step + 1 /\ real_step \in Nat
  BY DEF RealUpdate, grpoVars, genVars, bufVars, TypeOK, CountersOK
<1>2. /\ weights'.version = weights.version + 1 /\ weights'.lastReal = weights.lastReal
      /\ weights'.lastGrpo = weights.lastGrpo
  <2>1. weights \in Lineages
    BY WeightFields
  <2> QED BY <2>1 DEF RealUpdate, Lineages
<1>3. MarksInv'
  BY <1>1, <1>2, AgeTypes DEF FreshInv, MarksInv
<1>4. NewBatchInv' /\ BufferAgeInv' /\ BatchAgeInv'
  BY <1>1, <1>2 DEF FreshInv, NewBatchInv, BufferAgeInv, BatchAgeInv, InBatch, Alive
<1> QED BY <1>3, <1>4 DEF FreshInv

LEMMA FreshRealDone == ASSUME TypeOK, FreshInv, RealDone PROVE FreshInv'
<1>1. /\ pc = "realtrain" /\ pc' = "filter" /\ disk' = disk /\ batch' = batch
      /\ new_batch' = new_batch /\ all_incorrect_batch' = <<>>
  BY DEF RealDone, grpoVars, genVars
<1>2. /\ weights'.version = weights.version /\ weights'.lastReal = weights.version
      /\ weights'.lastGrpo = weights.lastGrpo
  <2>1. weights \in Lineages
    BY WeightFields
  <2> QED BY <2>1 DEF RealDone, Lineages
<1>3. MarksInv'
  BY <1>1, <1>2, AgeTypes DEF FreshInv, MarksInv
<1> QED BY <1>1, <1>2, <1>3 DEF FreshInv, NewBatchInv, BufferAgeInv, BatchAgeInv, InBatch, Alive,
                                NoneOlder, AllOf

LEMMA FreshTakeNewBatch == ASSUME TypeOK, FreshInv, TakeNewBatch PROVE FreshInv'
<1>1. /\ pc = "filter" /\ pc' = "train" /\ disk' = disk /\ weights' = weights
      /\ all_incorrect_batch' = all_incorrect_batch
      /\ batch' = Groups(new_batch.prompts, new_batch.gen)
  BY DEF TakeNewBatch, bufVars
<1>2. NoneOlder(batch', weights.lastGrpo)
  BY <1>1, GroupsAges, RecordFields, AgeTypes DEF FreshInv, NewBatchInv, InBatch
<1> QED BY <1>1, <1>2 DEF FreshInv, MarksInv, NewBatchInv, BufferAgeInv, BatchAgeInv, InBatch, Alive

LEMMA FreshFilter == ASSUME TypeOK, FreshInv, FilterNewBatch PROVE FreshInv'
<1> DEFINE groups == Groups(sel.kept, new_batch.gen)
           joined == batch \o groups
<1>1. /\ pc = "filter" /\ pc' \in {"train", "fetch", "raised"} /\ disk' = disk
      /\ weights' = weights /\ all_incorrect_batch' = all_incorrect_batch
      /\ batch' \in {joined, Prefix(joined, TrainBatchSize * N)}
  BY DEF FilterNewBatch, bufVars, Aligned
<1>2. sel.kept \in Seq(Nat) /\ new_batch.gen \in Nat /\ batch \in Seq(Trajectories)
  BY RecordFields, WeightFields
<1>3. groups \in Seq(Trajectories) /\ NoneOlder(groups, weights.lastGrpo)
  BY <1>1, <1>2, GroupsType, GroupsAges, AgeTypes DEF FreshInv, NewBatchInv, InBatch
<1>4. NoneOlder(batch, weights.lastGrpo)
  BY <1>1 DEF FreshInv, BatchAgeInv, Alive
<1> HIDE DEF groups
<1>5. joined \in Seq(Trajectories) /\ NoneOlder(joined, weights.lastGrpo)
  BY <1>2, <1>3, <1>4, ConcatAges, ConcatType
<1> HIDE DEF joined
<1>6. NoneOlder(Prefix(joined, TrainBatchSize * N), weights.lastGrpo)
  <2>1. TrainBatchSize * N \in Nat
    BY ConfigTypes
  <2> QED BY <1>5, <2>1, PrefixAges
<1>7. NoneOlder(batch', weights.lastGrpo)
  BY <1>1, <1>5, <1>6
<1> QED BY <1>1, <1>7 DEF FreshInv, MarksInv, NewBatchInv, BufferAgeInv, BatchAgeInv, InBatch, Alive

LEMMA FreshUpdateActor == ASSUME TypeOK, FreshInv, UpdateActor PROVE FreshInv'
<1>1. /\ pc = "train" /\ pc' = "report" /\ disk' = disk
      /\ all_incorrect_batch' = all_incorrect_batch
  BY DEF UpdateActor, bufVars
<1>2. /\ weights'.lastReal = weights.lastReal
      /\ \/ weights'.version = weights.version /\ weights'.lastGrpo = weights.lastGrpo
         \/ /\ UseGrpo
            /\ weights'.version = weights.version + 1
            /\ weights'.lastGrpo = weights.version + 1
  <2>1. weights \in Lineages
    BY WeightFields
  <2> QED BY <2>1 DEF UpdateActor, Lineages
<1>3. MarksInv'
  BY <1>1, <1>2, AgeTypes DEF FreshInv, MarksInv
<1>4. BufferAgeInv'
  BY <1>1, <1>2 DEF FreshInv, BufferAgeInv, Alive
<1> QED BY <1>1, <1>3, <1>4 DEF FreshInv, NewBatchInv, BatchAgeInv, InBatch

LEMMA FreshValidateAndSave == ASSUME TypeOK, FreshInv, ValidateAndSave PROVE FreshInv'
<1>1. /\ pc = "report" /\ pc' = "end" /\ weights' = weights
      /\ all_incorrect_batch' = all_incorrect_batch
      /\ disk'.weights \in {disk.weights, weights}
  BY DEF ValidateAndSave, bufVars
<1> QED BY <1>1 DEF FreshInv, MarksInv, NewBatchInv, BufferAgeInv, BatchAgeInv, InBatch, Alive

LEMMA FreshEndIteration == ASSUME TypeOK, FreshInv, EndIteration PROVE FreshInv'
<1>1. /\ pc = "end" /\ pc' \in {"done", "fetch"} /\ weights' = weights /\ disk' = disk
      /\ all_incorrect_batch' = all_incorrect_batch /\ batch' = <<>>
  BY DEF EndIteration, bufVars
<1> QED BY <1>1 DEF FreshInv, MarksInv, NewBatchInv, BufferAgeInv, BatchAgeInv, InBatch, Alive,
                    NoneOlder

LEMMA FreshNext == TypeOK /\ FreshInv /\ [Next]_vars => FreshInv'
<1> SUFFICES ASSUME TypeOK, FreshInv, [Next]_vars PROVE FreshInv'
  OBVIOUS
<1>1. CASE RealUpdateRaises \/ Crash \/ NextEpoch
  BY <1>1 DEF RealUpdateRaises, Crash, NextEpoch, bufVars, grpoVars, genVars, FreshInv, MarksInv,
              NewBatchInv, BufferAgeInv, BatchAgeInv, InBatch, Alive
<1>2. CASE UNCHANGED vars
  BY <1>2 DEF vars, bufVars, grpoVars, genVars, FreshInv, MarksInv,
              NewBatchInv, BufferAgeInv, BatchAgeInv, InBatch, Alive
<1> QED BY <1>1, <1>2, FreshStart, FreshGenerate, FreshClassify, FreshCollect, FreshRealUpdate,
           FreshRealDone, FreshTakeNewBatch, FreshFilter, FreshUpdateActor,
           FreshValidateAndSave, FreshEndIteration DEF Next, Step

\* A REAL round never sees a response from before the previous round, and with
\* REAL alone it starts on responses of the very weights it updates.
THEOREM RealFreshCorrect == Spec => []RealFresh
<1>1. TypeInv /\ FreshInv /\ [Next]_vars => (TypeInv /\ FreshInv)'
  BY TypeNext, FreshNext DEF TypeInv
<1>2. TypeInv /\ FreshInv => RealFresh
  <2> SUFFICES ASSUME TypeOK, FreshInv PROVE RealFresh
    BY DEF TypeInv
  <2>1. ~UseGrpo /\ pc = "realtrain" /\ real_step = 0 => AllOf(all_incorrect_batch, weights.version)
    BY DEF FreshInv, BufferAgeInv, Alive
  <2>2. \A i \in DOMAIN RealBatch : i \in DOMAIN all_incorrect_batch
                                    /\ RealBatch[i] = all_incorrect_batch[i]
    BY RealBatchType
  <2> QED BY <2>1, <2>2 DEF RealFresh, FreshInv, BufferAgeInv, NoneOlder, AllOf
<1> QED BY <1>1, <1>2, TypeInit, FreshInit, PTL DEF Spec

\* However many generation batches and REAL rounds go into a GRPO batch, none of
\* its responses is older than the previous GRPO update.
THEOREM GrpoFreshCorrect == Spec => []GrpoFresh
<1>1. TypeInv /\ FreshInv /\ [Next]_vars => (TypeInv /\ FreshInv)'
  BY TypeNext, FreshNext DEF TypeInv
<1>2. FreshInv => GrpoFresh
  BY DEF FreshInv, BatchAgeInv, NoneOlder, GrpoFresh
<1> QED BY <1>1, <1>2, TypeInit, FreshInit, PTL DEF Spec
-----------------------------------------------------------------------------
(* The GRPO batch consists of whole groups *)

Increasing(ps) == \A i, j \in DOMAIN ps : i < j => ps[i] < ps[j]
UpTo(ps, m) == \A i \in DOMAIN ps : ps[i] <= m

\* Response i of ts belongs to prompt number GroupOf(i) of the batch.
GroupOf(i) == ((i - 1) \div N) + 1
PlaceIn(i) == ((i - 1) % N) + 1

\* ts holds the N responses of each of the different prompts ps, in this order.
GroupedBy(ts, ps) ==
  /\ Increasing(ps)
  /\ Len(ts) = Len(ps) * N
  /\ \A i \in DOMAIN ts : ts[i].prompt = ps[GroupOf(i)] /\ ts[i].resp = PlaceIn(i)

LEMMA IntervalSize ==
  ASSUME NEW n \in Nat PROVE IsFiniteSet(1..n) /\ Cardinality(1..n) = n
BY FS_Interval

\* The place of an index behind k whole groups.
LEMMA IndexShift ==
  ASSUME NEW k \in Nat, NEW j \in Nat \ {0}
  PROVE  GroupOf(k * N + j) = k + GroupOf(j) /\ PlaceIn(k * N + j) = PlaceIn(j)
<1>1. N \in Nat \ {0}
  BY ConfigTypes
<1> DEFINE q == (j - 1) \div N
           r == (j - 1) % N
<1>2. q \in Int /\ r \in 0..(N - 1) /\ j - 1 = N * q + r
  BY <1>1
<1> HIDE DEF q, r
<1>3. q \in Nat
  <2> SUFFICES ASSUME q <= -1 PROVE FALSE
    BY <1>2
  <2>1. N * q <= N * (-1)
    BY <1>1, <1>2
  <2> QED BY <1>1, <1>2, <2>1
<1>4. (k * N + j) - 1 = (k + q) * N + r
  BY <1>1, <1>2, <1>3
<1>5. k + q \in Nat
  BY <1>3
<1>6. ((k * N + j) - 1) \div N = k + q /\ ((k * N + j) - 1) % N = r
  BY <1>1, <1>2, <1>4, <1>5, DivUnique
<1>7. q = (j - 1) \div N /\ r = (j - 1) % N
  BY DEF q, r
<1>8. GroupOf(k * N + j) = (k + q) + 1 /\ PlaceIn(k * N + j) = r + 1
  BY <1>6, Zenon DEF GroupOf, PlaceIn
<1>9. GroupOf(j) = q + 1 /\ PlaceIn(j) = r + 1
  BY <1>7 DEF GroupOf, PlaceIn
<1> QED BY <1>2, <1>3, <1>8, <1>9

\* The generated groups of a list of increasing prompts.
LEMMA GroupsGrouped ==
  ASSUME NEW ps \in Seq(Nat), NEW gen \in Nat, Increasing(ps)
  PROVE  GroupedBy(Groups(ps, gen), ps)
<1>1. Len(Groups(ps, gen)) = Len(ps) * N
  BY GroupsType
<1> QED BY <1>1 DEF GroupedBy, Groups, GroupOf, PlaceIn

\* Whole groups of later prompts behind whole groups are whole groups.
LEMMA GroupedConcat ==
  ASSUME NEW s \in Seq(Trajectories), NEW ps \in Seq(Nat), GroupedBy(s, ps),
         NEW t \in Seq(Trajectories), NEW qs \in Seq(Nat), GroupedBy(t, qs),
         \A i \in DOMAIN ps, j \in DOMAIN qs : ps[i] < qs[j]
  PROVE  GroupedBy(s \o t, ps \o qs) /\ ps \o qs \in Seq(Nat) /\ Len(ps \o qs) = Len(ps) + Len(qs)
<1> DEFINE us == ps \o qs
           w == s \o t
<1>1. N \in Nat \ {0} /\ Len(ps) \in Nat /\ Len(qs) \in Nat
  BY ConfigTypes
<1>2. /\ us \in Seq(Nat) /\ Len(us) = Len(ps) + Len(qs)
      /\ \A i \in 1..Len(ps) : us[i] = ps[i]
      /\ \A i \in 1..Len(us) : i > Len(ps) => us[i] = qs[i - Len(ps)]
      /\ DOMAIN ps = 1..Len(ps) /\ DOMAIN qs = 1..Len(qs)
  OBVIOUS
<1>3. /\ w \in Seq(Trajectories) /\ Len(w) = Len(s) + Len(t)
      /\ \A i \in 1..Len(s) : w[i] = s[i]
      /\ \A i \in 1..Len(w) : i > Len(s) => w[i] = t[i - Len(s)]
      /\ DOMAIN s = 1..Len(s) /\ DOMAIN t = 1..Len(t)
  OBVIOUS
<1>4. Len(s) = Len(ps) * N /\ Len(t) = Len(qs) * N
  BY DEF GroupedBy
<1>5. DOMAIN us = 1..(Len(ps) + Len(qs)) /\ DOMAIN w = 1..(Len(s) + Len(t))
  BY <1>2, <1>3
<1> HIDE DEF us, w
<1>6. Len(w) = Len(us) * N
  BY <1>1, <1>2, <1>3, <1>4
<1>7. Increasing(us)
  <2> SUFFICES ASSUME NEW i \in 1..(Len(ps) + Len(qs)), NEW j \in 1..(Len(ps) + Len(qs)), i < j
               PROVE  us[i] < us[j]
    BY <1>5 DEF Increasing
  <2>1. CASE j <= Len(ps)
    <3>1. i \in DOMAIN ps /\ j \in DOMAIN ps /\ us[i] = ps[i] /\ us[j] = ps[j]
      BY <1>1, <1>2, <2>1, SMTT(30)
    <3> QED BY <3>1 DEF GroupedBy, Increasing
  <2>2. CASE i > Len(ps)
    <3>1. i - Len(ps) \in 1..Len(qs) /\ j - Len(ps) \in 1..Len(qs)
      BY <1>1, <2>2
    <3>2. us[i] = qs[i - Len(ps)] /\ us[j] = qs[j - Len(ps)]
      BY <1>1, <1>2, <3>1
    <3>3. i - Len(ps) < j - Len(ps)
      BY <1>1
    <3> QED BY <1>2, <3>1, <3>2, <3>3 DEF GroupedBy, Increasing
  <2>3. CASE i <= Len(ps) /\ j > Len(ps)
    <3>1. i \in 1..Len(ps) /\ j - Len(ps) \in 1..Len(qs)
      BY <1>1, <2>3
    <3>2. us[i] = ps[i] /\ us[j] = qs[j - Len(ps)]
      BY <1>1, <1>2, <3>1
    <3> QED BY <3>1, <3>2
  <2> QED BY <1>1, <2>1, <2>2, <2>3
<1>8. ASSUME NEW i \in 1..(Len(s) + Len(t))
      PROVE  w[i].prompt = us[GroupOf(i)] /\ w[i].resp = PlaceIn(i)
  <2>1. CASE i <= Len(s)
    <3>1. i \in 1..(Len(ps) * N) /\ w[i] = s[i]
      BY <1>3, <1>4, <2>1
    <3>2. GroupOf(i) \in 1..Len(ps)
      BY <1>1, <3>1, IndexInRange DEF GroupOf
    <3>3. s[i].prompt = ps[GroupOf(i)] /\ s[i].resp = PlaceIn(i)
      BY <1>3, <1>4, <3>1 DEF GroupedBy
    <3> QED BY <1>2, <3>1, <3>2, <3>3
  <2>2. CASE i > Len(s)
    <3> DEFINE j == i - Len(s)
    <3>1. j \in 1..Len(t) /\ j \in Nat \ {0} /\ i = Len(s) + j
      BY <2>2
    <3> HIDE DEF j
    <3>2. w[i] = t[j]
      BY <1>3, <2>2 DEF j
    <3>3. GroupOf(i) = Len(ps) + GroupOf(j) /\ PlaceIn(i) = PlaceIn(j)
      BY <1>1, <1>4, <3>1, IndexShift
    <3>4. GroupOf(j) \in 1..Len(qs)
      BY <1>1, <1>4, <3>1, IndexInRange DEF GroupOf
    <3>5. t[j].prompt = qs[GroupOf(j)] /\ t[j].resp = PlaceIn(j)
      BY <1>3, <3>1 DEF GroupedBy
    <3>6. us[GroupOf(i)] = qs[GroupOf(j)]
      <4>1. GroupOf(i) \in 1..Len(us) /\ GroupOf(i) > Len(ps) /\ GroupOf(i) - Len(ps) = GroupOf(j)
        BY <1>1, <1>2, <3>3, <3>4, SMTT(30)
      <4> QED BY <1>2, <4>1
    <3> QED BY <3>2, <3>3, <3>5, <3>6
  <2> QED BY <2>1, <2>2
<1>9. GroupedBy(w, us)
  BY <1>6, <1>7, <1>8, <1>5 DEF GroupedBy
<1> QED BY <1>2, <1>9 DEF us, w

\* Cutting whole groups off leaves whole groups.
LEMMA GroupedPrefix ==
  ASSUME NEW s \in Seq(Trajectories), NEW ps \in Seq(Nat), GroupedBy(s, ps),
         NEW k \in Nat, k <= Len(ps)
  PROVE  /\ GroupedBy(Prefix(s, k * N), SubSeq(ps, 1, k))
         /\ SubSeq(ps, 1, k) \in Seq(Nat) /\ Len(SubSeq(ps, 1, k)) = k
         /\ \A i \in DOMAIN SubSeq(ps, 1, k) : i \in DOMAIN ps /\ SubSeq(ps, 1, k)[i] = ps[i]
<1> DEFINE m == k * N
           qs == SubSeq(ps, 1, k)
           t == Prefix(s, m)
<1>1. N \in Nat \ {0} /\ Len(ps) \in Nat /\ m \in Nat
  BY ConfigTypes
<1>2. /\ qs \in Seq(Nat) /\ Len(qs) = k
      /\ \A i \in 1..k : i \in 1..Len(ps) /\ qs[i] = ps[i]
  BY <1>1
<1>3. Len(s) = Len(ps) * N
  BY DEF GroupedBy
<1>4. m <= Len(ps) * N
  <2> DEFINE d == Len(ps) - k
             rest == d * N
  <2>1. d \in Nat /\ rest \in Nat
    BY <1>1
  <2>2. Len(ps) * N = m + rest
    BY <1>1
  <2> HIDE DEF d, rest, m
  <2> QED BY <1>1, <2>1, <2>2
<1> HIDE DEF m
<1>5. /\ Len(t) = m
      /\ \A i \in DOMAIN t : i \in DOMAIN s /\ t[i] = s[i]
  <2>1. Len(s) \in Nat /\ Len(t) = IF m < Len(s) THEN m ELSE Len(s)
    BY <1>1, PrefixType, SMT
  <2>2. \A i \in DOMAIN t : i \in DOMAIN s /\ t[i] = s[i]
    BY <1>1, PrefixType
  <2> QED BY <1>1, <1>3, <1>4, <2>1, <2>2
<1>6. DOMAIN t = 1..m /\ DOMAIN qs = 1..k
  <2>1. t \in Seq(Trajectories)
    BY <1>1, PrefixType
  <2> QED BY <1>1, <1>2, <1>5, <2>1
<1> HIDE DEF qs, t
<1>7. Increasing(qs)
  <2>1. ASSUME NEW i \in 1..k, NEW j \in 1..k, i < j
        PROVE  qs[i] < qs[j]
    <3>1. i \in DOMAIN ps /\ j \in DOMAIN ps /\ qs[i] = ps[i] /\ qs[j] = ps[j]
      BY <1>1, <1>2
    <3> QED BY <2>1, <3>1 DEF GroupedBy, Increasing
  <2> QED BY <1>6, <2>1 DEF Increasing
<1>8. ASSUME NEW i \in 1..m
      PROVE  /\ t[i].prompt = qs[GroupOf(i)]
             /\ t[i].resp = PlaceIn(i)
  <2>1. GroupOf(i) \in 1..k
    BY <1>1, IndexInRange DEF GroupOf, m
  <2> QED BY <1>2, <1>5, <1>6, <2>1 DEF GroupedBy
<1>9. GroupedBy(t, qs)
  BY <1>2, <1>5, <1>6, <1>7, <1>8 DEF GroupedBy, m
<1> QED BY <1>2, <1>6, <1>9 DEF m, qs, t

\* What whole groups are for compute_advantage.
LEMMA GroupedComplete ==
  ASSUME NEW s \in Seq(Trajectories), NEW ps \in Seq(Nat), GroupedBy(s, ps)
  PROVE  /\ Cardinality(PromptsOf(s)) = Len(ps)
         /\ \A p \in PromptsOf(s) :
              {s[i].resp : i \in {j \in DOMAIN s : s[j].prompt = p}} = 1..N
         /\ Len(s) = N * Len(ps)
         /\ \A i \in DOMAIN s : /\ s[i].resp = ((i - 1) % N) + 1
                               /\ s[i].prompt = s[i - ((i - 1) % N)].prompt
<1>1. N \in Nat \ {0} /\ Len(ps) \in Nat /\ Len(s) = Len(ps) * N
  BY ConfigTypes DEF GroupedBy
<1>2. \A i \in DOMAIN s : /\ GroupOf(i) \in 1..Len(ps) /\ PlaceIn(i) \in 1..N
                          /\ s[i].prompt = ps[GroupOf(i)] /\ s[i].resp = PlaceIn(i)
  <2>1. DOMAIN s = 1..(Len(ps) * N)
    BY <1>1
  <2> QED BY <1>1, <2>1, IndexInRange DEF GroupedBy, GroupOf, PlaceIn
\* Response r of the group k stands at the index (k - 1) * N + r.
<1>3. ASSUME NEW k \in 1..Len(ps), NEW r \in 1..N
      PROVE  /\ (k - 1) * N + r \in DOMAIN s
             /\ s[(k - 1) * N + r].prompt = ps[k] /\ s[(k - 1) * N + r].resp = r
  <2>1. k - 1 \in Nat /\ r - 1 \in 0..(N - 1) /\ (k - 1) * N \in Nat
    BY <1>1
  <2>2. (k - 1) * N + r \in 1..(Len(ps) * N)
    <3>1. k * N <= Len(ps) * N /\ k * N = (k - 1) * N + N
      BY <1>1
    <3> QED BY <1>1, <2>1, <3>1
  <2>3. ((k - 1) * N + (r - 1)) \div N = k - 1 /\ ((k - 1) * N + (r - 1)) % N = r - 1
    BY <1>1, <2>1, DivUnique
  <2>4. (k - 1) * N + r - 1 = (k - 1) * N + (r - 1)
    BY <2>1
  <2>5. GroupOf((k - 1) * N + r) = k /\ PlaceIn((k - 1) * N + r) = r
    BY <1>1, <2>3, <2>4 DEF GroupOf, PlaceIn
  <2>6. (k - 1) * N + r \in DOMAIN s
    BY <1>1, <2>2
  <2> QED BY <1>2, <2>5, <2>6
<1>4. PromptsOf(s) = {ps[k] : k \in 1..Len(ps)}
  <2>1. ASSUME NEW k \in 1..Len(ps) PROVE ps[k] \in PromptsOf(s)
    <3>1. 1 \in 1..N
      BY <1>1
    <3> QED BY <1>3, <3>1 DEF PromptsOf
  <2>2. ASSUME NEW p \in PromptsOf(s) PROVE p \in {ps[k] : k \in 1..Len(ps)}
    <3>1. PICK i \in DOMAIN s : p = s[i].prompt
      BY DEF PromptsOf
    <3> QED BY <1>2, <3>1
  <2> QED BY <2>1, <2>2
<1>5. Cardinality(PromptsOf(s)) = Len(ps)
  <2> DEFINE T == {ps[k] : k \in 1..Len(ps)}
             f == [k \in 1..Len(ps) |-> ps[k]]
  <2>1. \A k, l \in 1..Len(ps) : ps[k] = ps[l] => k = l
    <3> SUFFICES ASSUME NEW k \in 1..Len(ps), NEW l \in 1..Len(ps), k < l
                 PROVE  ps[k] # ps[l]
      BY <1>1
    <3>1. ps[k] \in Nat /\ ps[l] \in Nat /\ ps[k] < ps[l]
      BY DEF GroupedBy, Increasing
    <3> QED BY <3>1
  <2>2. f \in Bijection(1..Len(ps), T)
    BY <2>1 DEF Bijection, Injection, IsInjective, Surjection
  <2>3. ExistsBijection(1..Len(ps), T)
    BY <2>2 DEF ExistsBijection
  <2>4. IsFiniteSet(1..Len(ps)) /\ Cardinality(1..Len(ps)) = Len(ps)
    BY <1>1, IntervalSize
  <2>5. Cardinality(T) = Len(ps)
    BY <2>3, <2>4, FS_Bijection
  <2> QED BY <1>4, <2>5
<1>6. ASSUME NEW p \in PromptsOf(s)
      PROVE  {s[i].resp : i \in {j \in DOMAIN s : s[j].prompt = p}} = 1..N
  <2>1. PICK k \in 1..Len(ps) : p = ps[k]
    BY <1>4
  <2>2. \A r \in 1..N : r \in {s[i].resp : i \in {j \in DOMAIN s : s[j].prompt = p}}
    BY <1>3, <2>1
  <2>3. \A r \in {s[i].resp : i \in {j \in DOMAIN s : s[j].prompt = p}} : r \in 1..N
    BY <1>2
  <2> QED BY <2>2, <2>3
<1>7. Len(s) = N * Len(ps)
  BY <1>1
<1>8. ASSUME NEW i \in DOMAIN s
      PROVE  /\ s[i].resp = ((i - 1) % N) + 1
             /\ s[i].prompt = s[i - ((i - 1) % N)].prompt
  <2>1. GroupOf(i) \in 1..Len(ps) /\ 1 \in 1..N
    BY <1>1, <1>2
  <2>2. s[(GroupOf(i) - 1) * N + 1].prompt = s[i].prompt
    BY <1>2, <1>3, <2>1
  <2>3. i - ((i - 1) % N) = (GroupOf(i) - 1) * N + 1
    <3> DEFINE q == (i - 1) \div N
               r == (i - 1) % N
    <3>1. i \in Int /\ N \in Nat \ {0}
      BY <1>1
    <3>2. q \in Int /\ r \in Int /\ i - 1 = N * q + r
      <4>1. \A m \in Int, n \in Nat \ {0} :
              m \div n \in Int /\ m % n \in Int /\ m = n * (m \div n) + (m % n)
        BY SMT
      <4>2. i - 1 \in Int
        BY <3>1
      <4> QED BY <3>1, <4>1, <4>2
    <3>3. GroupOf(i) = q + 1
      BY DEF GroupOf
    <3> HIDE DEF q, r
    <3>4. (GroupOf(i) - 1) * N = N * q
      BY <3>1, <3>2, <3>3
    <3>5. i - r = N * q + 1
      BY <3>1, <3>2
    <3>6. i - r = (GroupOf(i) - 1) * N + 1
      BY <3>4, <3>5
    <3> QED BY <3>6 DEF r
  <2> QED BY <1>2, <2>2, <2>3 DEF PlaceIn
<1> QED BY <1>5, <1>6, <1>7, <1>8

\* A batch being filled consists of the groups of prompts from before the
\* present generation batch; the counter is the number of prompts it will have
\* when the selected groups have joined.
ShapeOf(ps) ==
  /\ GroupedBy(batch, ps)
  /\ UpTo(ps, IF pc \in InBatch THEN Before ELSE Drawn)
  /\ FilterGroups /\ pc # "train" =>
       num_prompt_in_batch = Len(ps) + IF pc \in InBatch THEN Len(sel.kept) ELSE 0
  /\ pc = "train" => Len(ps) = IF FilterGroups THEN TrainBatchSize ELSE GenBatchSize

BatchShape ==
  pc \in InBatch \cup {"fetch", "train"} => \E ps \in Seq(Nat) : ShapeOf(ps)

\* The lists of the present generation batch are in the order of its prompts.
SelShape ==
  pc \in InBatch =>
    /\ Increasing(new_batch.prompts) /\ Increasing(sel.kept)
    /\ UpTo(sel.kept, Before + Len(new_batch.prompts))
    /\ pc # "classify" => Len(new_batch.prompts) = GenBatchSize

ShapeInv == BatchShape /\ SelShape

\* An emptied batch has the shape.
LEMMA EmptyShape ==
  ASSUME pc' = "fetch", batch' = <<>>, num_prompt_in_batch' = 0
  PROVE  ShapeInv'
<1>1. <<>> \in Seq(Nat) /\ Len(<<>>) = 0
  OBVIOUS
<1>2. ShapeOf(<<>>)'
  BY ConfigTypes DEF ShapeOf, GroupedBy, Increasing, UpTo, InBatch
<1> QED BY <1>1, <1>2 DEF ShapeInv, BatchShape, SelShape, InBatch

\* One more prompt at the end of a list of smaller prompts.
LEMMA KeepIncreasing ==
  ASSUME NEW ps \in Seq(Nat), NEW p \in Nat, NEW chosen \in BOOLEAN, NEW m \in Int,
         Increasing(ps), UpTo(ps, m), m < p
  PROVE  /\ Increasing(Keep(ps, p, chosen)) /\ UpTo(Keep(ps, p, chosen), p)
         /\ chosen => Len(Keep(ps, p, chosen)) = Len(ps) + 1
         /\ ~chosen => Len(Keep(ps, p, chosen)) = Len(ps)
<1>1. \A i \in DOMAIN ps : ps[i] \in Nat /\ ps[i] <= m
  BY DEF UpTo
<1>2. CASE ~chosen
  <2>1. Keep(ps, p, chosen) = ps
    BY <1>2 DEF Keep
  <2> QED BY <1>1, <1>2, <2>1 DEF UpTo
<1>3. CASE chosen
  <2> DEFINE qs == Keep(ps, p, chosen)
  <2>1. /\ Len(qs) = Len(ps) + 1 /\ DOMAIN qs = 1..(Len(ps) + 1) /\ DOMAIN ps = 1..Len(ps)
        /\ \A i \in 1..Len(ps) : qs[i] = ps[i]
        /\ qs[Len(ps) + 1] = p /\ Len(ps) \in Nat
    BY <1>3 DEF Keep
  <2> HIDE DEF qs
  <2>2. UpTo(qs, p)
    BY <1>1, <2>1 DEF UpTo
  <2>3. ASSUME NEW i \in DOMAIN qs, NEW j \in DOMAIN qs, i < j
        PROVE  qs[i] < qs[j]
    <3>1. i \in DOMAIN ps /\ qs[i] = ps[i]
      BY <2>1, <2>3
    <3>2. CASE j \in DOMAIN ps
      BY <2>1, <2>3, <3>1, <3>2 DEF Increasing
    <3>3. CASE j = Len(ps) + 1
      BY <1>1, <2>1, <3>1, <3>3
    <3> QED BY <2>1, <3>2, <3>3
  <2> QED BY <1>3, <2>1, <2>2, <2>3 DEF qs, Increasing
<1> QED BY <1>2, <1>3

LEMMA ShapeGenerate == ASSUME TypeOK, ShapeInv, Generate PROVE ShapeInv'
<1>1. /\ pc = "fetch" /\ pc' = "classify" /\ cursor' = cursor + 1 /\ batch' = batch
      /\ num_prompt_in_batch' = num_prompt_in_batch
      /\ new_batch'.prompts = <<>> /\ sel'.kept = <<>>
  BY DEF Generate, NoSelection
<1>2. Before' = Drawn
  BY <1>1, RecordFields, ConfigTypes DEF Before, Drawn
<1>3. BatchShape'
  <2>1. PICK ps \in Seq(Nat) : ShapeOf(ps)
    BY <1>1 DEF ShapeInv, BatchShape
  <2>2. ShapeOf(ps)'
    BY <1>1, <1>2, <2>1 DEF ShapeOf, GroupedBy, InBatch
  <2> QED BY <2>2 DEF BatchShape
<1>4. SelShape'
  BY <1>1 DEF SelShape, Increasing, UpTo
<1> QED BY <1>3, <1>4 DEF ShapeInv

LEMMA ShapeClassify ==
  ASSUME TypeInv, LineageInv, ShapeInv, NEW scores \in [1..N -> Scores], Classify(scores)
  PROVE  ShapeInv'
<1> DEFINE p == (cursor - 1) * GenBatchSize + Len(new_batch.prompts) + 1
           m == Before + Len(new_batch.prompts)
<1>1. /\ pc = "classify" /\ pc' = pc /\ cursor' = cursor /\ batch' = batch
      /\ sel'.kept = Keep(sel.kept, p, Varies(scores))
      /\ num_prompt_in_batch' = num_prompt_in_batch + IF Varies(scores) THEN 1 ELSE 0
      /\ Varies(scores) \in BOOLEAN
  BY DEF Classify, loopVars, Varies
<1>2. new_batch'.prompts = Append(new_batch.prompts, p)
  <2>1. new_batch \in Batches
    BY DEF TypeInv, TypeOK, RecordsOK
  <2> QED BY <2>1 DEF Classify, Batches
<1>3. /\ new_batch.prompts \in Seq(Nat) /\ sel.kept \in Seq(Nat)
      /\ num_prompt_in_batch \in Nat /\ cursor \in Nat \ {0} /\ Before \in Int
  BY <1>1, RecordFields, DrawnType DEF TypeInv, TypeOK, CountersOK
<1>4. m \in Int /\ p \in Nat /\ p = m + 1 /\ Len(new_batch.prompts) \in Nat
  <2>1. (cursor - 1) * GenBatchSize = Before /\ (cursor - 1) * GenBatchSize \in Nat
    BY <1>3, ConfigTypes DEF Before, Drawn
  <2> QED BY <1>3, <2>1
<1>5. /\ Increasing(new_batch.prompts) /\ Increasing(sel.kept) /\ UpTo(sel.kept, m)
      /\ UpTo(new_batch.prompts, m)
  BY <1>1 DEF ShapeInv, SelShape, LineageInv, SelInv, Between, UpTo, InBatch
<1> HIDE DEF p, m
<1>6. /\ Increasing(sel'.kept) /\ UpTo(sel'.kept, p)
      /\ Varies(scores) => Len(sel'.kept) = Len(sel.kept) + 1
      /\ ~Varies(scores) => Len(sel'.kept) = Len(sel.kept)
  <2>1. /\ Increasing(Keep(sel.kept, p, Varies(scores)))
        /\ UpTo(Keep(sel.kept, p, Varies(scores)), p)
        /\ Varies(scores) => Len(Keep(sel.kept, p, Varies(scores))) = Len(sel.kept) + 1
        /\ ~Varies(scores) => Len(Keep(sel.kept, p, Varies(scores))) = Len(sel.kept)
    <3>1. m < p
      BY <1>4
    <3> QED BY <1>1, <1>3, <1>4, <1>5, <3>1, KeepIncreasing
  <2> QED BY <1>1, <2>1
<1>7. Increasing(new_batch'.prompts)
  <2>1. new_batch'.prompts = Keep(new_batch.prompts, p, TRUE)
    BY <1>2 DEF Keep
  <2>2. m < p
    BY <1>4
  <2> QED BY <1>3, <1>4, <1>5, <2>1, <2>2, KeepIncreasing
<1>8. Before' = Before /\ Drawn' = Drawn
  BY <1>1 DEF Before, Drawn
<1>9. p = (Before + Len(new_batch.prompts))'
  <2>1. Len(new_batch'.prompts) = Len(new_batch.prompts) + 1
    BY <1>2, <1>3, <1>4
  <2> QED BY <1>3, <1>4, <1>8, <2>1 DEF m
<1>10. SelShape'
  BY <1>1, <1>6, <1>7, <1>9 DEF SelShape
<1>11. BatchShape'
  <2>1. PICK ps \in Seq(Nat) : ShapeOf(ps)
    BY <1>1 DEF ShapeInv, BatchShape, InBatch
  <2>2. Len(ps) \in Nat /\ Len(sel.kept) \in Nat
    BY <1>3
  <2>3. ShapeOf(ps)'
    <3>1. GroupedBy(batch, ps) /\ UpTo(ps, Before)
      BY <1>1, <2>1 DEF ShapeOf, InBatch
    <3>2. FilterGroups => num_prompt_in_batch' = Len(ps) + Len(sel'.kept)
      <4>1. FilterGroups => num_prompt_in_batch = Len(ps) + Len(sel.kept)
        BY <1>1, <2>1 DEF ShapeOf, InBatch
      <4>2. CASE Varies(scores)
        <5>1. num_prompt_in_batch' = num_prompt_in_batch + 1
          BY <1>1, <4>2
        <5> QED BY <1>3, <1>6, <2>2, <4>1, <4>2, <5>1
      <4>3. CASE ~Varies(scores)
        <5>1. num_prompt_in_batch' = num_prompt_in_batch
          BY <1>1, <1>3, <4>3
        <5> QED BY <1>3, <1>6, <2>2, <4>1, <4>3, <5>1
      <4> QED BY <4>2, <4>3
    <3> QED BY <1>1, <1>8, <3>1, <3>2 DEF ShapeOf, GroupedBy, UpTo, InBatch
  <2> QED BY <2>3 DEF BatchShape
<1> QED BY <1>10, <1>11 DEF ShapeInv

\* Steps from the classification to the filter.
LEMMA ShapeKept ==
  ASSUME ShapeInv, UNCHANGED <<batch, num_prompt_in_batch, sel, new_batch, cursor>>,
         \/ pc' = pc
         \/ pc \in InBatch /\ pc' \in InBatch \ {"classify"} /\ Len(new_batch.prompts) = GenBatchSize
  PROVE  ShapeInv'
<1>1. Before' = Before /\ Drawn' = Drawn
  BY DEF Before, Drawn
<1>2. BatchShape'
  <2> SUFFICES ASSUME pc' \in InBatch \cup {"fetch", "train"}
               PROVE  \E ps \in Seq(Nat) : ShapeOf(ps)'
    BY DEF BatchShape
  <2>1. PICK ps \in Seq(Nat) : ShapeOf(ps)
    BY DEF ShapeInv, BatchShape
  <2>2. ShapeOf(ps)'
    BY <1>1, <2>1 DEF ShapeOf, GroupedBy, InBatch
  <2> QED BY <2>2
<1>3. SelShape'
  BY <1>1 DEF ShapeInv, SelShape
<1> QED BY <1>2, <1>3 DEF ShapeInv

LEMMA ShapeTakeNewBatch ==
  ASSUME TypeOK, LineageInv, ShapeInv, TakeNewBatch PROVE ShapeInv'
<1>1. PICK ps \in Seq(Nat) : ps = new_batch.prompts
  BY RecordFields
<1>2. /\ pc = "filter" /\ pc' = "train" /\ cursor' = cursor /\ ~FilterGroups
      /\ batch' = Groups(ps, new_batch.gen)
  BY <1>1 DEF TakeNewBatch, loopVars
<1>3. ps \in Seq(Nat) /\ new_batch.gen \in Nat /\ Before \in Int /\ GenBatchSize \in Nat
  BY RecordFields, DrawnType
<1>4. /\ Increasing(ps) /\ Len(ps) = GenBatchSize
      /\ Between(ps, Before, Before + Len(ps))
  BY <1>1, <1>2 DEF ShapeInv, SelShape, LineageInv, SelInv, InBatch
<1>5. GroupedBy(batch', ps)
  BY <1>2, <1>3, <1>4, GroupsGrouped
<1>6. UpTo(ps, Drawn')
  <2>1. Drawn' = Drawn /\ Before + Len(ps) = Drawn
    BY <1>2, <1>3, <1>4, DrawnType DEF Before, Drawn
  <2> QED BY <1>4, <2>1 DEF Between, UpTo
<1>7. ShapeOf(ps)'
  BY <1>2, <1>4, <1>5, <1>6 DEF ShapeOf, GroupedBy, UpTo, InBatch
<1> QED BY <1>2, <1>3, <1>7 DEF ShapeInv, BatchShape, SelShape, InBatch

LEMMA ShapeFilterNewBatch ==
  ASSUME TypeOK, LineageInv, ShapeInv, FilterNewBatch PROVE ShapeInv'
<1> DEFINE groups == Groups(sel.kept, new_batch.gen)
           joined == batch \o groups
<1>1. /\ pc = "filter" /\ cursor' = cursor /\ FilterGroups
      /\ num_prompt_in_batch' = num_prompt_in_batch
      /\ \/ num_prompt_in_batch >= TrainBatchSize /\ pc' = "train" /\ batch' = Aligned(joined)
         \/ pc' \in {"fetch", "raised"} /\ batch' = joined
  BY DEF FilterNewBatch, loopVars
<1>2. /\ sel.kept \in Seq(Nat) /\ new_batch.gen \in Nat /\ batch \in Seq(Trajectories)
      /\ Before \in Int /\ Drawn \in Int /\ Before <= Drawn
      /\ TrainBatchSize \in Nat /\ num_prompt_in_batch \in Nat
  BY RecordFields, WeightFields, DrawnType, ConfigTypes DEF TypeOK, CountersOK, Before
<1>3. /\ Increasing(sel.kept) /\ Between(sel.kept, Before, Drawn)
  BY <1>1 DEF ShapeInv, SelShape, LineageInv, SelInv, InBatch
<1>4. groups \in Seq(Trajectories) /\ GroupedBy(groups, sel.kept)
  BY <1>2, <1>3, GroupsType, GroupsGrouped
<1>5. PICK ps \in Seq(Nat) : ShapeOf(ps)
  BY <1>1 DEF ShapeInv, BatchShape, InBatch
<1>6. /\ GroupedBy(batch, ps) /\ UpTo(ps, Before)
      /\ num_prompt_in_batch = Len(ps) + Len(sel.kept)
  BY <1>1, <1>5 DEF ShapeOf, InBatch
<1> HIDE DEF groups
<1>7. PICK qs \in Seq(Nat) : qs = ps \o sel.kept
  <2>1. ps \o sel.kept \in Seq(Nat)
    BY <1>2, ConcatType
  <2> QED BY <2>1, Zenon
<1>8. /\ GroupedBy(joined, qs) /\ qs \in Seq(Nat) /\ Len(qs) = Len(ps) + Len(sel.kept)
      /\ joined \in Seq(Trajectories)
  <2>1. ASSUME NEW i \in DOMAIN ps, NEW j \in DOMAIN sel.kept PROVE ps[i] < sel.kept[j]
    <3>1. ps[i] \in Nat /\ sel.kept[j] \in Nat
      BY <1>2, SMTT(30)
    <3> QED BY <1>2, <1>3, <1>6, <3>1 DEF UpTo, Between
  <2>2. joined \in Seq(Trajectories)
    BY <1>2, <1>4, ConcatType
  <2> QED BY <1>2, <1>4, <1>6, <1>7, <2>1, <2>2, GroupedConcat
<1>9. UpTo(qs, Drawn)
  <2>1. \A i \in DOMAIN ps : ps[i] \in Nat /\ ps[i] <= Drawn
    BY <1>2, <1>6, SMTT(30) DEF UpTo
  <2>2. \A i \in DOMAIN qs : \/ i \in DOMAIN ps /\ qs[i] = ps[i]
                             \/ \E j \in DOMAIN sel.kept : qs[i] = sel.kept[j]
    BY <1>2, <1>7, ConcatType
  <2> QED BY <1>3, <2>1, <2>2 DEF UpTo, Between
<1>10. Drawn' = Drawn
  BY <1>1 DEF Drawn
<1> HIDE DEF joined
<1>11. CASE pc' = "raised"
  BY <1>11 DEF ShapeInv, BatchShape, SelShape, InBatch
<1>12. CASE pc' = "fetch"
  <2>1. batch' = joined
    BY <1>1, <1>12
  <2>2. ShapeOf(qs)'
    BY <1>1, <1>6, <1>8, <1>9, <1>10, <1>12, <2>1 DEF ShapeOf, GroupedBy, UpTo, InBatch
  <2> QED BY <1>8, <1>12, <2>2 DEF ShapeInv, BatchShape, SelShape, InBatch
<1>13. CASE pc' = "train"
  <2>1. batch' = Prefix(joined, TrainBatchSize * N) /\ TrainBatchSize <= Len(qs)
    BY <1>1, <1>2, <1>6, <1>8, <1>13 DEF Aligned
  <2>2. PICK cut \in Seq(Nat) : cut = SubSeq(qs, 1, TrainBatchSize)
    BY <1>2, <1>8, <2>1, GroupedPrefix
  <2>3. /\ GroupedBy(batch', cut) /\ Len(cut) = TrainBatchSize
        /\ \A i \in DOMAIN cut : i \in DOMAIN qs /\ cut[i] = qs[i]
    BY <1>2, <1>8, <2>1, <2>2, GroupedPrefix
  <2>4. UpTo(cut, Drawn)
    BY <1>9, <2>3 DEF UpTo
  <2>5. ShapeOf(cut)'
    BY <1>1, <1>10, <1>13, <2>3, <2>4 DEF ShapeOf, GroupedBy, UpTo, InBatch
  <2> QED BY <1>13, <2>3, <2>5 DEF ShapeInv, BatchShape, SelShape, InBatch
<1> QED BY <1>1, <1>11, <1>12, <1>13

LEMMA ShapeNext == TypeInv /\ LineageInv /\ ShapeInv /\ [Next]_vars => ShapeInv'
<1> SUFFICES ASSUME TypeInv, LineageInv, ShapeInv, [Next]_vars PROVE ShapeInv'
  OBVIOUS
<1>1. TypeOK
  BY DEF TypeInv
<1>2. CASE Start
  <2>1. (pc = "fetch" /\ batch = <<>> /\ num_prompt_in_batch = 0)'
    BY <1>2 DEF Start
  <2> QED BY <2>1, EmptyShape
<1>3. CASE EndIteration
  <2>1. (pc \in {"fetch", "done"} /\ batch = <<>> /\ num_prompt_in_batch = 0)'
    BY <1>3 DEF EndIteration
  <2>2. CASE pc' = "fetch"
    BY <2>1, <2>2, EmptyShape
  <2>3. CASE pc' = "done"
    BY <2>3 DEF ShapeInv, BatchShape, SelShape, InBatch
  <2> QED BY <2>1, <2>2, <2>3
<1>4. CASE Crash \/ RealUpdateRaises \/ UpdateActor \/ ValidateAndSave
  BY <1>4 DEF Crash, RealUpdateRaises, UpdateActor, ValidateAndSave, ShapeInv, BatchShape,
              SelShape, InBatch
<1>5. CASE NextEpoch
  <2>1. CASE pc' = "exhausted"
    BY <2>1 DEF ShapeInv, BatchShape, SelShape, InBatch
  <2>2. CASE pc' = pc
    BY <1>5, <2>2, ShapeKept DEF NextEpoch, grpoVars, genVars
  <2> QED BY <1>5, <2>1, <2>2 DEF NextEpoch
<1>6. CASE Collect
  BY <1>6, ShapeKept DEF Collect, loopVars, grpoVars, genVars, InBatch
<1>7. CASE RealUpdate
  BY <1>7, ShapeKept DEF RealUpdate, loopVars, grpoVars, genVars
<1>8. CASE RealDone
  <2>1. pc = "realtrain" /\ pc' = "filter" /\ UNCHANGED <<batch, num_prompt_in_batch, sel, new_batch, cursor>>
    BY <1>8 DEF RealDone, loopVars, grpoVars, genVars
  <2>2. Len(new_batch.prompts) = GenBatchSize
    BY <2>1 DEF ShapeInv, SelShape, InBatch
  <2> QED BY <2>1, <2>2, ShapeKept DEF InBatch
<1>9. CASE UNCHANGED vars
  BY <1>9, ShapeKept DEF vars, loopVars, grpoVars, genVars
<1> QED BY <1>1, <1>2, <1>3, <1>4, <1>5, <1>6, <1>7, <1>8, <1>9, ShapeGenerate, ShapeClassify,
           ShapeTakeNewBatch, ShapeFilterNewBatch DEF Next, Step

\* Whatever the filter keeps and however many generation batches it takes, the
\* batch of a GRPO step is as large as configured and holds all N responses of
\* each of its prompts, one after the other, so that advantages are normalised within whole groups.
THEOREM GrpoBatchCompleteCorrect == Spec => []GrpoBatchComplete
<1> DEFINE IInv == TypeInv /\ LineageInv /\ ShapeInv
<1>1. Init => IInv
  <2>1. Init => ShapeInv
    BY DEF Init, ShapeInv, BatchShape, SelShape, InBatch
  <2> QED BY <2>1, TypeInit, LineageInit
<1>2. IInv /\ [Next]_vars => IInv'
  BY TypeNext, LineageNext, ShapeNext
<1>3. IInv => GrpoBatchComplete
  <2> SUFFICES ASSUME TypeOK, ShapeInv, pc = "train"
               PROVE  /\ Cardinality(PromptsOf(batch))
                           = IF FilterGroups THEN TrainBatchSize ELSE GenBatchSize
                      /\ \A p \in PromptsOf(batch) :
                           {batch[i].resp : i \in {j \in DOMAIN batch : batch[j].prompt = p}} = 1..N
                      /\ Len(batch) = N * Cardinality(PromptsOf(batch))
                      /\ \A i \in DOMAIN batch :
                           /\ batch[i].resp = ((i - 1) % N) + 1
                           /\ batch[i].prompt = batch[i - ((i - 1) % N)].prompt
    BY DEF GrpoBatchComplete, TypeInv
  <2>1. PICK ps \in Seq(Nat) : ShapeOf(ps)
    BY DEF ShapeInv, BatchShape
  <2>2. GroupedBy(batch, ps) /\ Len(ps) = IF FilterGroups THEN TrainBatchSize ELSE GenBatchSize
    BY <2>1 DEF ShapeOf
  <2> QED BY <2>1, <2>2, WeightFields, GroupedComplete
<1> HIDE DEF IInv
<1> QED BY <1>1, <1>2, <1>3, PTL DEF Spec
=============================================================================
