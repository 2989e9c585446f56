----------------------------- MODULE WorkerCall -----------------------------
(***************************************************************************)
(* The path of a batch through a call of the worker group: the driver pads *)
(* or balances it, every rank gets its chunk, cuts it into mini-batches    *)
(* and micro-batches, runs the model on them and sends results back.       *)
(*                                                                         *)
(* Driver: _validate and _balance_batch of trainer/ppo/ray_trainer.py,     *)
(* _perform_real_training_step of recipe/dapo/real_dapo_ray_trainer.py.    *)
(* Ranks: compute_log_prob and update_policy of workers/actor/dp_actor.py, *)
(* update_policy and _precompute_adv_w_with_verl of real_actor.py, with    *)
(* recipe/real/real_core_algos.py.                                         *)
(*                                                                         *)
(* A rank computes alone between collective operations.  A forward pass of *)
(* FSDP, a reduction and an optimizer step are collective: no rank leaves  *)
(* one before all have reached it, and ranks that wait at different ones   *)
(* wait forever.                                                           *)
(*                                                                         *)
(* A row is its number in the batch as the trainer assembled it; a result  *)
(* is the number of the row it was computed from.                          *)
(***************************************************************************)
EXTENDS SeqlenBalancing, DataProto

CONSTANTS
  WorldSize,       \* ranks of the worker group
  TensorParallel,  \* ranks that generate together
  MiniBatchSize,   \* rows of one optimizer step on a rank
  MaxTokenLen,     \* ppo_max_token_len_per_gpu
  Epochs,          \* real_config.epochs and ppo_epochs
  UseRloo,         \* real_config.use_rloo
  Jobs             \* calls and batches to check: [call, uid, len]

CallNames == {"validate", "real", "grpo"}

ASSUME WorkerCallAssumption ==
  /\ {WorldSize, TensorParallel, MiniBatchSize, MaxTokenLen, Epochs} \subseteq Nat \ {0}
  /\ WorldSize % TensorParallel = 0
  /\ UseRloo \in BOOLEAN
  /\ \A job \in Jobs :
       /\ job.call \in CallNames
       /\ job.uid \in Seq(Nat) /\ job.len \in Seq(1..MaxTokenLen)
       /\ Len(job.uid) = Len(job.len) /\ job.uid # <<>>
       /\ job.call # "validate" => Len(job.uid) % WorldSize = 0

Ranks == 0..(WorldSize - 1)
Collectives == {"count", "minmax", "forward", "step"}

VARIABLES
  pc,         \* the call the driver is in
  job,        \* what is called and with which batch
  batch,      \* rows on the driver, in their present order
  returned,   \* results the driver collected, in the order of the batch
  at,         \* per rank: what it does next, or the operation it waits at
  stage,      \* per rank: "eval" without gradients, or "train"
  chunk,      \* per rank: its rows, in the order of the batch
  packs,      \* per rank: the rows its input tensors hold
  epoch,      \* per rank: epochs left
  minis,      \* per rank: mini-batches left, as positions in the chunk
  count,      \* per rank: micro-batches in the present mini-batch
  plan,       \* per rank: micro-batches, as positions in the mini-batch
  done,       \* per rank: how many of them the model has seen
  results,    \* per rank: results of this mini-batch in processing order
  scores,     \* per rank: results of the chunk by position
  advantage,  \* per rank, by position: what the row is trained with
  gradient,   \* per rank: what was accumulated since zero_grad
  trained     \* history, per rank: the rows of all its steps

driverVars == <<pc, job, batch, returned>>
dataVars == <<chunk, packs>>
loopVars == <<stage, epoch, minis>>
microVars == <<count, plan, done>>
evalVars == <<results, scores>>
trainVars == <<advantage, gradient, trained>>
vars == <<driverVars, at, dataVars, loopVars, microVars, evalVars, trainVars>>

Same(value) == [r \in Ranks |-> value]

Init ==
  /\ job \in Jobs
  /\ pc = "start" /\ batch = Rows(Len(job.uid)) /\ returned = <<>>
  /\ at = Same("idle") /\ stage = Same("eval")
  /\ chunk = Same(<<>>) /\ packs = Same(<<>>)
  /\ epoch = Same(0) /\ minis = Same(<<>>)
  /\ count = Same(0) /\ plan = Same(<<>>) /\ done = Same(0)
  /\ results = Same(<<>>) /\ scores = Same(<<>>)
  /\ advantage = Same(<<>>) /\ gradient = Same(<<>>) /\ trained = Same(<<>>)
-----------------------------------------------------------------------------
(* The driver *)

\* Every rank trains and evaluates on a chunk of its own.
OwnChunk == [r \in Ranks |-> r]

\* Ranks that generate together get the same chunk.
GenerationRank == [r \in Ranks |-> r \div TensorParallel]
GenerationCollects == [r \in Ranks |-> r % TensorParallel = 0]

Lens(rows) == [i \in DOMAIN rows |-> job.len[rows[i]]]

\* _balance_batch: ranks get the same number of rows and similar tokens.
Balanced(rows) == Reorder(rows, Concat(BalancedPartitions(Lens(rows), WorldSize, TRUE)))

\* _validate: pad to the world size and send out for generation.
CallGenerate ==
  /\ pc = "start" /\ job.call = "validate"
  /\ pc' = "generate"
  /\ chunk' = DispatchTo(PadToDivisor(batch, WorldSize), GenerationRank, Ranks)
  /\ at' = Same("generate")
  /\ UNCHANGED <<job, batch, returned, packs, loopVars, microVars, evalVars, trainVars>>

\* The mini-batches of a chunk, as positions in it.
MiniBatches(rows) == Split(Rows(Len(rows)), MiniBatchSize)

\* The rows of one rank ordered as build_real_batches_by_prompt builds them:
\* prompt by prompt in the order of np.unique(uid).
ByPrompt(rows) ==
  LET places == DOMAIN rows
      uid(i) == job.uid[rows[i]]
      before(i, j) == uid(i) < uid(j) \/ (uid(i) = uid(j) /\ i < j)
  IN  InOrder(places, {ij \in places \X places : before(ij[1], ij[2])})

\* attach_real_adv_to_dataproto: the teacher-forced inputs of the chunk.
PacksOf(rows) == Reorder(rows, ByPrompt(rows))

\* update_real_actor: the inputs are attached, then evaluated without
\* gradients, mini-batch by mini-batch.
CallReal ==
  LET parts == DispatchTo(batch, OwnChunk, Ranks) IN
  /\ pc = "start" /\ job.call = "real"
  /\ pc' = "real"
  /\ chunk' = parts
  /\ packs' = [r \in Ranks |-> PacksOf(parts[r])]
  /\ stage' = Same("eval") /\ epoch' = Same(1)
  /\ minis' = [r \in Ranks |-> MiniBatches(parts[r])]
  /\ at' = Same("plan")
  /\ UNCHANGED <<job, batch, returned, microVars, evalVars, trainVars>>

\* compute_log_prob on the balanced batch: one mini-batch per rank.
CallLogProb ==
  LET rows  == Balanced(batch)
      parts == DispatchTo(rows, OwnChunk, Ranks) IN
  /\ pc = "start" /\ job.call = "grpo"
  /\ pc' = "log_prob"
  /\ batch' = rows
  /\ chunk' = parts /\ packs' = parts
  /\ stage' = Same("eval") /\ epoch' = Same(1)
  /\ minis' = [r \in Ranks |-> <<Rows(Len(parts[r]))>>]
  /\ at' = Same("plan")
  /\ UNCHANGED <<job, returned, microVars, evalVars, trainVars>>

\* update_actor: the old log probabilities travel with their rows.
CallUpdate ==
  LET parts == DispatchTo(batch, OwnChunk, Ranks)
      old   == DispatchTo(returned, OwnChunk, Ranks) IN
  /\ pc = "scored"
  /\ pc' = "update"
  /\ chunk' = parts /\ packs' = parts
  /\ advantage' = [r \in Ranks |-> [i \in DOMAIN old[r] |-> [own |-> old[r][i], others |-> {}]]]
  /\ stage' = Same("train") /\ epoch' = Same(Epochs)
  /\ minis' = [r \in Ranks |-> MiniBatches(parts[r])]
  /\ at' = Same("plan")
  /\ UNCHANGED <<job, batch, returned, microVars, evalVars, gradient, trained>>

AllIdle == \A r \in Ranks : at[r] = "idle"

\* The call returns when all ranks have answered.
Collect ==
  /\ pc \in {"generate", "log_prob"} /\ AllIdle
  /\ pc' = IF pc = "generate" THEN "returned" ELSE "scored"
  /\ returned' = IF pc = "generate"
       THEN Unpad(CollectFrom(scores, GenerationCollects, WorldSize), PadSize(batch, WorldSize))
       ELSE CollectFrom(scores, Same(TRUE), WorldSize)
  /\ UNCHANGED <<job, batch, at, dataVars, loopVars, microVars, evalVars, trainVars>>

Return ==
  /\ pc \in {"real", "update"} /\ AllIdle
  /\ pc' = "returned"
  /\ UNCHANGED <<job, batch, returned, at, dataVars, loopVars, microVars, evalVars, trainVars>>

Finished == pc = "returned" /\ UNCHANGED vars
-----------------------------------------------------------------------------
(* A rank alone *)

\* The engine answers prompts in the order it was given them.
Generate(r) ==
  /\ at[r] = "generate"
  /\ scores' = [scores EXCEPT ![r] = chunk[r]]
  /\ at' = [at EXCEPT ![r] = "idle"]
  /\ UNCHANGED <<driverVars, dataVars, loopVars, microVars, results, trainVars>>

Mini(r) == Head(minis[r])
MiniLens(r) == [i \in DOMAIN Mini(r) |-> job.len[packs[r][Mini(r)[i]]]]

\* rearrange_micro_batches up to the reduction.
Plan(r) ==
  /\ at[r] = "plan"
  /\ count' = [count EXCEPT ![r] = NumMicroBatches(MiniLens(r), MaxTokenLen)]
  /\ at' = [at EXCEPT ![r] = "count"]
  /\ UNCHANGED <<driverVars, dataVars, loopVars, plan, done, evalVars, trainVars>>

\* rearrange_micro_batches after the reduction.  REAL checks the number of
\* micro-batches once more before it trains.
Arrange(r) ==
  /\ at[r] = "arrange"
  /\ plan' = [plan EXCEPT ![r] = MicroBatches(MiniLens(r), count[r])]
  /\ done' = [done EXCEPT ![r] = 0]
  /\ at' = [at EXCEPT ![r] = IF pc = "real" /\ stage[r] = "train" THEN "minmax" ELSE "forward"]
  /\ UNCHANGED <<driverVars, dataVars, loopVars, count, evalVars, trainVars>>

\* Mutant: the results are kept in the order of the micro-batches.
InProcessingOrder(values, order) == values

\* The results of a mini-batch back in its order: restore_dynamic_batch for
\* log probabilities, the scatter through idx_local for REAL.
InBatchOrder(values, order) == RestoreDynamicBatch(values, order)

\* The end of a mini-batch of the evaluation.
Gather(r) ==
  /\ at[r] = "gather"
  /\ scores' = [scores EXCEPT ![r] = @ \o InBatchOrder(results[r], plan[r])]
  /\ results' = [results EXCEPT ![r] = <<>>]
  /\ minis' = [minis EXCEPT ![r] = Tail(@)]
  /\ at' = [at EXCEPT ![r] = IF Len(minis[r]) > 1 THEN "plan"
                             ELSE IF pc = "real" THEN "advantages" ELSE "idle"]
  /\ UNCHANGED <<driverVars, dataVars, stage, epoch, microVars, trainVars>>

\* Positions of the rows of the same prompt, by the uid of the batch.
Group(r, i) == {j \in DOMAIN chunk[r] : job.uid[chunk[r][j]] = job.uid[chunk[r][i]]}

\* Leave-one-out over the prompt: accuracies for RLOO, scores otherwise.
Advantage(r, i) ==
  LET signal == IF UseRloo THEN chunk[r] ELSE scores[r]
  IN  [own |-> signal[i], others |-> {signal[j] : j \in Group(r, i) \ {i}}]

\* The second stage of _precompute_adv_w_with_verl; then training begins.
ComputeAdvantages(r) ==
  /\ at[r] = "advantages"
  /\ advantage' = [advantage EXCEPT ![r] = [i \in DOMAIN chunk[r] |-> Advantage(r, i)]]
  /\ stage' = [stage EXCEPT ![r] = "train"]
  /\ epoch' = [epoch EXCEPT ![r] = Epochs]
  /\ minis' = [minis EXCEPT ![r] = MiniBatches(chunk[r])]
  /\ at' = [at EXCEPT ![r] = "plan"]
  /\ UNCHANGED <<driverVars, dataVars, microVars, evalVars, gradient, trained>>
-----------------------------------------------------------------------------
(* All ranks together *)

Reached(op) == \A r \in Ranks : at[r] = op

\* Mutant: every rank keeps the number it computed.
OwnCount(r) == count[r]

\* all_reduce with MAX over the ranks.
AgreedCount(r) == Max({count[s] : s \in Ranks})

ReduceCount ==
  /\ Reached("count")
  /\ count' = [r \in Ranks |-> AgreedCount(r)]
  /\ at' = Same("arrange")
  /\ UNCHANGED <<driverVars, dataVars, loopVars, plan, done, evalVars, trainVars>>

\* all_reduce with MIN and MAX: REAL raises when the numbers differ.
CompareCounts ==
  /\ Reached("minmax")
  /\ at' = Same(IF \A r, s \in Ranks : DOMAIN plan[r] = DOMAIN plan[s] THEN "forward" ELSE "raised")
  /\ UNCHANGED <<driverVars, dataVars, loopVars, microVars, evalVars, trainVars>>

\* Positions in the chunk of the micro-batch a rank has reached.
Micro(r) == Reorder(Mini(r), plan[r][done[r] + 1])

Trained(r) == [i \in DOMAIN Micro(r) |-> [row |-> packs[r][Micro(r)[i]],
                                          advantage |-> advantage[r][Micro(r)[i]]]]

LastMicro(r) == done[r] + 1 = count[r]

\* The model runs on one micro-batch of every rank.
Forward ==
  /\ Reached("forward")
  /\ done' = [r \in Ranks |-> done[r] + 1]
  /\ results' = [r \in Ranks |-> IF stage[r] = "eval" THEN results[r] \o Reorder(packs[r], Micro(r))
                                 ELSE results[r]]
  /\ gradient' = [r \in Ranks |-> IF stage[r] = "train" THEN gradient[r] \o Trained(r)
                                  ELSE gradient[r]]
  /\ at' = [r \in Ranks |-> IF ~LastMicro(r) THEN "forward"
                            ELSE IF stage[r] = "eval" THEN "gather" ELSE "step"]
  /\ UNCHANGED <<driverVars, dataVars, loopVars, count, plan, scores, advantage, trained>>

\* Mutant: the gradients are not cleared before the next mini-batch.
Accumulated(g) == g

\* zero_grad
ZeroGrad(g) == <<>>

\* The optimizer steps; the next mini-batch, the next epoch or the end.
Step ==
  /\ Reached("step")
  /\ gradient' = [r \in Ranks |-> ZeroGrad(gradient[r])]
  /\ trained' = [r \in Ranks |-> trained[r] \o [i \in DOMAIN gradient[r] |-> gradient[r][i].row]]
  /\ minis' = [r \in Ranks |-> IF Len(minis[r]) > 1 THEN Tail(minis[r]) ELSE MiniBatches(chunk[r])]
  /\ epoch' = [r \in Ranks |-> IF Len(minis[r]) > 1 THEN epoch[r] ELSE epoch[r] - 1]
  /\ at' = [r \in Ranks |-> IF Len(minis[r]) > 1 \/ epoch[r] > 1 THEN "plan" ELSE "idle"]
  /\ UNCHANGED <<driverVars, dataVars, stage, microVars, evalVars, advantage>>

Next ==
  \/ CallGenerate \/ CallReal \/ CallLogProb \/ CallUpdate \/ Collect \/ Return \/ Finished
  \/ ReduceCount \/ CompareCounts \/ Forward \/ Step
  \/ \E r \in Ranks : Generate(r) \/ Plan(r) \/ Arrange(r) \/ Gather(r) \/ ComputeAdvantages(r)

Spec == Init /\ [][Next]_vars
-----------------------------------------------------------------------------
(* Properties *)

\* All ranks that wait wait for the same operation, whatever the lengths of
\* their rows: none waits in a forward pass for ranks that already step, and
\* REAL's check of the number of micro-batches never raises.
RanksInStep ==
  \A r, s \in Ranks :
    /\ at[r] # "raised"
    /\ at[r] \in Collectives /\ at[s] \in Collectives => at[r] = at[s]

\* A call answers in the order of the driver's batch: padding, chunks,
\* balancing and micro-batches leave no trace in what the driver collects.
ReturnedInOrder == pc \in {"scored", "update", "returned"} /\ job.call # "real" => returned = batch

Times(row, rows) == Cardinality({i \in DOMAIN rows : rows[i] = row})

\* An optimizer step uses every row of the rank's mini-batch once and no
\* other, and a call trains every row of its batch once in each epoch.
TrainsOnItsBatch ==
  /\ \A r \in Ranks : at[r] = "step" =>
       \A p \in DOMAIN chunk[r] :
         Times(packs[r][p], [i \in DOMAIN gradient[r] |-> gradient[r][i].row])
           = IF p \in ToSet(Mini(r)) THEN 1 ELSE 0
  /\ pc = "returned" /\ job.call # "validate" =>
       \A i \in DOMAIN batch :
         Times(batch[i], Concat([w \in 1..WorldSize |-> trained[w - 1]])) = Epochs

\* A row trained on is judged by its own score, against the scores of exactly
\* the other responses to its prompt on the rank.  In an update of GRPO it
\* carries its own old log probability.
ComparedWithinPrompt ==
  \A r \in Ranks : \A i \in DOMAIN gradient[r] :
    LET g == gradient[r][i] IN
    /\ g.advantage.own = g.row
    /\ pc = "real" => g.advantage.others =
         {row \in ToSet(chunk[r]) : job.uid[row] = job.uid[g.row]} \ {g.row}

\* No micro-batch is empty.  The token limit only sets their number: they hold
\* as many tokens as that on average, and two of them differ by no more than the
\* longest row of the mini-batch, so a single one may exceed the limit.  After
\* balancing the tokens of two ranks differ by no more than the longest row
\* differs from the shortest.
PartsBalanced ==
  /\ \A r \in Ranks : at[r] \in {"minmax", "forward"} =>
       LET load(m) == Tokens(MiniLens(r), plan[r][m])
           all == Tokens(MiniLens(r), Rows(Len(MiniLens(r))))
       IN  /\ all <= Len(plan[r]) * MaxTokenLen
           /\ \A m, k \in DOMAIN plan[r] :
                plan[r][m] # <<>> /\ load(m) - load(k) <= Max(ToSet(MiniLens(r)))
  /\ pc = "log_prob" => \A r, s \in Ranks :
       LET load(w) == Tokens(job.len, chunk[w])
       IN  load(r) - load(s) <= Max(ToSet(job.len)) - Min(ToSet(job.len))

\* What attach_real_adv_to_dataproto says of its flattened inputs, that the
\* REAL actor may slice them per response, as far as RLOO relies on it: the
\* accuracy that weighs a row is its own.
WeighedByOwnAccuracy ==
  UseRloo => \A r \in Ranks : \A i \in DOMAIN gradient[r] :
    pc = "real" => gradient[r][i].advantage.own = gradient[r][i].row

=============================================================================
