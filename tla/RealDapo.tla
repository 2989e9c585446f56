------------------------------ MODULE RealDapo ------------------------------
(***************************************************************************)
(* The training loop of REAL-DAPO: RayREALDAPOTrainer.fit in               *)
(* recipe/dapo/real_dapo_ray_trainer.py, with the checkpoint calls it      *)
(* inherits from verl/trainer/ppo/ray_trainer.py.                          *)
(*                                                                         *)
(* One driver process draws generation batches from the dataloader, lets   *)
(* the workers generate N responses per prompt, classifies the prompts by  *)
(* the mean of their metric, collects whole groups of responses in the     *)
(* REAL buffer and (with group filtering) in the GRPO batch, and updates   *)
(* the actor from both.  The job may be killed at any point and is then    *)
(* started again from the newest checkpoint.                               *)
(*                                                                         *)
(* A prompt is the number of its occurrence in the stream of the           *)
(* dataloader, so two epochs yield different prompts.  A trajectory is one *)
(* response to a prompt together with the weights version that produced    *)
(* it.  The weights are known by their lineage: how many updates they      *)
(* carry and which prompts those updates used.                             *)
(***************************************************************************)
EXTENDS Integers, Sequences, FiniteSets, Functions

CONSTANTS
  GenBatchSize,        \* data.gen_batch_size: prompts of one dataloader batch
  TrainBatchSize,      \* data.train_batch_size: prompts of one GRPO update
  N,                   \* rollout.n: responses per prompt
  BatchesPerEpoch,     \* len(train_dataloader)
  TotalEpochs,         \* trainer.total_epochs
  TotalTrainingSteps,  \* self.total_training_steps
  UseReal, UseGrpo,    \* algorithm.use_real, algorithm.use_grpo
  DataType,            \* real_config.data_type
  BufferSize,          \* real_config.buffer_size, in prompts
  RealSteps,           \* real_config.real_steps
  DpSize,              \* actor_rollout_wg.world_size
  FilterGroups,        \* algorithm.filter_groups.enable
  MaxNumGenBatches,    \* algorithm.filter_groups.max_num_gen_batches
  CriticWarmup,        \* trainer.critic_warmup
  SaveFreq, TestFreq,  \* trainer.save_freq, trainer.test_freq
  Scores,              \* metric values of one response; 1 stands for 1.0
  MaxCrashes           \* bound of the model: how often the job is killed

DataTypes == {"partial_incorrect", "all", "incorrect", "partial", "partial_correct"}

\* What _validate_config, the dataloader and the dispatch of a generation batch
\* demand: at least one dataloader batch, and batches that divide among the
\* workers.  A buffer smaller than one response per worker is left out.
ASSUME ConfigAssumption ==
  /\ {GenBatchSize, TrainBatchSize, N, BatchesPerEpoch, TotalEpochs,
      TotalTrainingSteps, BufferSize, RealSteps, DpSize} \subseteq Nat \ {0}
  /\ {MaxNumGenBatches, CriticWarmup, SaveFreq, TestFreq, MaxCrashes} \subseteq Nat
  /\ {UseReal, UseGrpo, FilterGroups} \subseteq BOOLEAN
  /\ DataType \in DataTypes
  /\ Scores \subseteq Int
  /\ (GenBatchSize * N) % DpSize = 0
  /\ (TrainBatchSize * N) % DpSize = 0
  /\ DpSize <= BufferSize * N

VARIABLES
  pc,                         \* where the driver is in fit
  epoch, pos,                 \* loop index of the epochs, batches drawn in this pass
  cursor,                     \* batches drawn since the training began
  global_steps, gen_steps, is_last_step,
  num_gen_batches, num_prompt_in_batch, num_prompt_in_real_buffer,
  new_batch,                  \* prompts classified so far and the version that answered
  sel,                        \* the uid lists of the generation batch, by class
  all_incorrect_batch,        \* the REAL buffer; << >> also stands for None
  batch,                      \* the GRPO batch; << >> also stands for None
  real_step,                  \* loop index of _run_real_training
  weights,                    \* lineage of the actor's weights
  disk,                       \* newest complete checkpoint
  validated,                  \* version seen by the last validation
  crashes

loopVars == <<epoch, pos, cursor>>
stepVars == <<global_steps, gen_steps>>
bufVars  == <<all_incorrect_batch, num_prompt_in_real_buffer>>
grpoVars == <<batch, num_prompt_in_batch, num_gen_batches>>
genVars  == <<new_batch, sel, is_last_step>>
vars == <<pc, loopVars, stepVars, bufVars, grpoVars, genVars, real_step,
          weights, disk, validated, crashes>>

Prompts == Nat
Trajectories == [prompt : Prompts, resp : 1..N, gen : Nat]
Batches == [prompts : Seq(Prompts), gen : Nat]
Selections == [none : Seq(Prompts), partial : Seq(Prompts), all : Seq(Prompts),
               kept : Seq(Prompts)]
Lineages == [version : Nat, real : SUBSET Prompts, grpo : SUBSET Prompts,
             lastReal : Nat, lastGrpo : Nat]
Checkpoints == [step : Nat, pos : Nat, cursor : Nat, weights : Lineages]

InitialWeights ==
  [version |-> 0, real |-> {}, grpo |-> {}, lastReal |-> 0, lastGrpo |-> 0]

NoSelection == [none |-> <<>>, partial |-> <<>>, all |-> <<>>, kept |-> <<>>]
NoBatch == [prompts |-> <<>>, gen |-> 0]

Terminal == {"done", "exhausted", "raised"}

-----------------------------------------------------------------------------
(* Helpers *)

\* Mutant: responses numbered from zero.
GroupsFromZero(ps, gen) ==
  [i \in 1..(Len(ps) * N) |->
     [prompt |-> ps[((i - 1) \div N) + 1], resp |-> (i - 1) % N, gen |-> gen]]

\* new_batch[idxs of the prompts ps]: all N responses of each, prompt by prompt
\* (repeat with interleave=True keeps the responses of a prompt together).
Groups(ps, gen) ==
  [i \in 1..(Len(ps) * N) |->
     [prompt |-> ps[((i - 1) \div N) + 1], resp |-> ((i - 1) % N) + 1, gen |-> gen]]

PromptsOf(trajs) == {trajs[i].prompt : i \in DOMAIN trajs}

\* Python's trajs[:k].
Prefix(trajs, k) == SubSeq(trajs, 1, IF k < Len(trajs) THEN k ELSE Len(trajs))

Sum(scores) == FoldFunction(LAMBDA x, y : x + y, 0, scores)
SolvedNone(scores) == Sum(scores) = 0          \* np.isclose(mean, 0.0)
SolvedAll(scores) == Sum(scores) = N           \* np.isclose(mean, 1.0)
Varies(scores) == N = 1 \/ \E i, j \in 1..N : scores[i] # scores[j]

Keep(ps, p, chosen) == IF chosen THEN Append(ps, p) ELSE ps

\* The prompts whose trajectories the configured data type sends to REAL.
ForReal ==
  CASE DataType = "partial_incorrect" -> sel.none \o sel.partial
    [] DataType = "all"               -> new_batch.prompts
    [] DataType = "incorrect"         -> sel.none
    [] DataType = "partial"           -> sel.partial
    [] DataType = "partial_correct"   -> sel.partial \o sel.all

\* Mutant: every data type counts like the default one.
CountLikeDefault == Len(sel.none) + Len(sel.partial)

\* What the same branch adds to num_prompt_in_real_buffer.
ForRealCount ==
  CASE DataType = "partial_incorrect" -> Len(sel.none) + Len(sel.partial)
    [] DataType = "all"               -> Len(new_batch.prompts)
    [] DataType = "incorrect"         -> Len(sel.none)
    [] DataType = "partial"           -> Len(sel.partial)
    [] DataType = "partial_correct"   -> Len(sel.partial) + Len(sel.all)

\* Mutant: the surplus beyond buffer_size prompts is trained on, too.
RealBatchUnsliced == all_incorrect_batch

\* The slice handed to _run_real_training.
RealBatch == Prefix(all_incorrect_batch, BufferSize * N)

\* Mutant: train_batch_size taken for a number of responses.
AlignedToResponses(trajs) == Prefix(trajs, TrainBatchSize)

\* The GRPO batch cut to train_batch_size prompts.
Aligned(trajs) == Prefix(trajs, TrainBatchSize * N)

\* DataProto.chunk: only equal chunks are dispatched to the workers.
Dispatchable(trajs) == Len(trajs) % DpSize = 0

\* Mutant: one step too many.
LastStepLate == gen_steps > TotalTrainingSteps

\* is_last_step.
LastStep == gen_steps >= TotalTrainingSteps

\* Mutant: the last step is treated as any other.
DueOnlyByFreq(freq) == freq > 0 /\ global_steps % freq = 0

\* Mutant: the generation batches are counted instead of the steps.
DueByGenSteps(freq) == freq > 0 /\ (is_last_step \/ gen_steps % freq = 0)

\* The condition of the validation and of the checkpoint.
Due(freq) == freq > 0 /\ (is_last_step \/ global_steps % freq = 0)
-----------------------------------------------------------------------------
(* Start and restart *)

Init ==
  /\ pc = "init" /\ epoch = 0 /\ pos = 0 /\ cursor = 0
  /\ global_steps = 0 /\ gen_steps = 0 /\ is_last_step = FALSE
  /\ num_gen_batches = 0 /\ num_prompt_in_batch = 0 /\ num_prompt_in_real_buffer = 0
  /\ new_batch = NoBatch /\ sel = NoSelection
  /\ all_incorrect_batch = <<>> /\ batch = <<>> /\ real_step = 0
  /\ weights = InitialWeights
  /\ disk = [step |-> 0, pos |-> 0, cursor |-> 0, weights |-> InitialWeights]
  /\ validated = 0 /\ crashes = 0

\* fit up to the loop: _load_checkpoint restores the step, the weights and the
\* dataloader, _validate runs, and the locals are set.  gen_steps is not part
\* of a checkpoint and the epoch loop starts again at 0.
Start ==
  /\ pc = "init"
  /\ pc' = "fetch"
  /\ epoch' = 0 /\ pos' = disk.pos /\ cursor' = disk.cursor
  /\ global_steps' = disk.step + 1 /\ gen_steps' = 1
  /\ weights' = disk.weights
  /\ validated' = disk.weights.version
  /\ num_gen_batches' = 0 /\ num_prompt_in_batch' = 0 /\ num_prompt_in_real_buffer' = 0
  /\ all_incorrect_batch' = <<>> /\ batch' = <<>> /\ real_step' = 0
  /\ UNCHANGED <<genVars, disk, crashes>>

\* The job is killed: what the processes held is gone.
Crash ==
  /\ pc \notin Terminal \cup {"init"}
  /\ crashes < MaxCrashes
  /\ crashes' = crashes + 1
  /\ pc' = "init"
  /\ UNCHANGED <<loopVars, stepVars, bufVars, grpoVars, genVars, real_step,
                 weights, disk, validated>>
-----------------------------------------------------------------------------
(* Generation and classification *)

\* The next batch_dict: is_last_step is decided and the responses generated.
Generate ==
  /\ pc = "fetch" /\ pos < BatchesPerEpoch
  /\ pc' = "classify"
  /\ pos' = pos + 1 /\ cursor' = cursor + 1
  /\ num_gen_batches' = num_gen_batches + 1
  /\ is_last_step' = LastStep
  /\ new_batch' = [prompts |-> <<>>, gen |-> weights.version]
  /\ sel' = NoSelection
  /\ UNCHANGED <<epoch, stepVars, bufVars, batch, num_prompt_in_batch, real_step,
                 weights, disk, validated, crashes>>

\* The dataloader's pass is over: the next epoch, or the loop falls through
\* and fit returns.
NextEpoch ==
  /\ pc = "fetch" /\ pos = BatchesPerEpoch
  /\ \/ /\ epoch + 1 < TotalEpochs
        /\ epoch' = epoch + 1 /\ pos' = 0
        /\ UNCHANGED pc
     \/ /\ epoch + 1 = TotalEpochs
        /\ pc' = "exhausted"
        /\ UNCHANGED <<epoch, pos>>
  /\ UNCHANGED <<cursor, stepVars, bufVars, grpoVars, genVars, real_step,
                 weights, disk, validated, crashes>>

\* One prompt of the generation batch is scored and put into its uid lists.
Classify(scores) ==
  /\ pc = "classify" /\ Len(new_batch.prompts) < GenBatchSize
  /\ LET p == (cursor - 1) * GenBatchSize + Len(new_batch.prompts) + 1
         none == SolvedNone(scores)
         all == SolvedAll(scores)
     IN  /\ new_batch' = [new_batch EXCEPT !.prompts = Append(@, p)]
         /\ sel' = [none |-> Keep(sel.none, p, none),
                    partial |-> Keep(sel.partial, p, ~none /\ ~all),
                    all |-> Keep(sel.all, p, all),
                    kept |-> Keep(sel.kept, p, Varies(scores))]
         /\ num_prompt_in_batch' = num_prompt_in_batch + IF Varies(scores) THEN 1 ELSE 0
  /\ UNCHANGED <<pc, loopVars, stepVars, bufVars, batch, num_gen_batches, is_last_step,
                 real_step, weights, disk, validated, crashes>>
-----------------------------------------------------------------------------
(* The REAL buffer and its updates *)

\* The chosen groups join the buffer; a full buffer is truncated to a multiple
\* of the number of workers and trained on before anything else.
Collect ==
  /\ pc = "classify" /\ Len(new_batch.prompts) = GenBatchSize
  /\ IF UseReal
     THEN LET buffer == all_incorrect_batch \o Groups(ForReal, new_batch.gen)
              count == num_prompt_in_real_buffer + ForRealCount
              full == count >= BufferSize
          IN  /\ num_prompt_in_real_buffer' = count
              /\ all_incorrect_batch' =
                   IF full THEN Prefix(buffer, Len(buffer) - (Len(buffer) % DpSize)) ELSE buffer
              /\ pc' = IF full THEN "realtrain" ELSE "filter"
     ELSE pc' = "filter" /\ UNCHANGED bufVars
  /\ real_step' = 0
  /\ UNCHANGED <<loopVars, stepVars, grpoVars, genVars, weights, disk, validated, crashes>>

\* One iteration of _run_real_training: all workers update the actor.
RealUpdate ==
  /\ pc = "realtrain" /\ real_step < RealSteps
  /\ Dispatchable(RealBatch)
  /\ real_step' = real_step + 1
  /\ weights' = [weights EXCEPT !.version = @ + 1, !.real = @ \cup PromptsOf(RealBatch)]
  /\ UNCHANGED <<pc, loopVars, stepVars, bufVars, grpoVars, genVars, disk, validated, crashes>>

\* The assertion of DataProto.chunk ends the job.
RealUpdateRaises ==
  /\ pc = "realtrain" /\ real_step < RealSteps
  /\ ~Dispatchable(RealBatch)
  /\ pc' = "raised"
  /\ UNCHANGED <<loopVars, stepVars, bufVars, grpoVars, genVars, real_step, weights,
                 disk, validated, crashes>>

\* range(real_steps) is used up.
RoundOver == real_step = RealSteps

\* Mutant: the buffer is not cleared.
RealDoneKeepsBuffer ==
  /\ pc = "realtrain" /\ RoundOver
  /\ pc' = "filter"
  /\ weights' = [weights EXCEPT !.lastReal = weights.version]
  /\ UNCHANGED <<loopVars, stepVars, bufVars, grpoVars, genVars, real_step, disk, validated, crashes>>

\* The buffer is cleared.
RealDone ==
  /\ pc = "realtrain" /\ RoundOver
  /\ pc' = "filter"
  /\ all_incorrect_batch' = <<>> /\ num_prompt_in_real_buffer' = 0
  /\ weights' = [weights EXCEPT !.lastReal = weights.version]
  /\ UNCHANGED <<loopVars, stepVars, grpoVars, genVars, real_step, disk, validated, crashes>>
-----------------------------------------------------------------------------
(* Group filtering and the GRPO update *)

TakeNewBatch ==
  /\ pc = "filter" /\ ~FilterGroups
  /\ batch' = Groups(new_batch.prompts, new_batch.gen)
  /\ pc' = "train"
  /\ UNCHANGED <<loopVars, stepVars, bufVars, num_prompt_in_batch, num_gen_batches, genVars,
                 real_step, weights, disk, validated, crashes>>

\* The groups with varying metric join the batch, which is trained on once it
\* holds train_batch_size prompts; the surplus is dropped.
FilterNewBatch ==
  /\ pc = "filter" /\ FilterGroups
  /\ LET joined == batch \o Groups(sel.kept, new_batch.gen)
     IN  \/ /\ num_prompt_in_batch >= TrainBatchSize
            /\ batch' = Aligned(joined)
            /\ pc' = "train"
            /\ UNCHANGED gen_steps
         \/ /\ num_prompt_in_batch < TrainBatchSize
            /\ MaxNumGenBatches > 0 => num_gen_batches < MaxNumGenBatches
            /\ batch' = joined
            /\ pc' = "fetch"
            /\ gen_steps' = gen_steps + 1
         \/ /\ num_prompt_in_batch < TrainBatchSize
            /\ MaxNumGenBatches > 0 /\ num_gen_batches >= MaxNumGenBatches
            /\ batch' = joined
            /\ pc' = "raised"
            /\ UNCHANGED gen_steps
  /\ UNCHANGED <<loopVars, global_steps, bufVars, num_prompt_in_batch, num_gen_batches, genVars,
                 real_step, weights, disk, validated, crashes>>

\* From the response mask to update_actor.
UpdateActor ==
  /\ pc = "train"
  /\ pc' = "report"
  /\ IF UseGrpo /\ CriticWarmup <= global_steps
     THEN weights' = [weights EXCEPT !.version = @ + 1, !.grpo = @ \cup PromptsOf(batch),
                                     !.lastGrpo = weights.version + 1]
     ELSE UNCHANGED weights
  /\ UNCHANGED <<loopVars, stepVars, bufVars, grpoVars, genVars, real_step, disk,
                 validated, crashes>>

\* Validation, then the checkpoint (as one step here; CkptManager splits it).
ValidateAndSave ==
  /\ pc = "report"
  /\ pc' = "end"
  /\ validated' = IF Due(TestFreq) THEN weights.version ELSE validated
  /\ disk' = IF Due(SaveFreq)
             THEN [step |-> global_steps, pos |-> pos, cursor |-> cursor, weights |-> weights]
             ELSE disk
  /\ UNCHANGED <<loopVars, stepVars, bufVars, grpoVars, genVars, real_step, weights, crashes>>

\* Mutant: the GRPO batch of a finished step is not dropped.
EndIterationKeepsBatch ==
  /\ pc = "end"
  /\ num_prompt_in_batch' = 0 /\ num_gen_batches' = 0
  /\ \/ /\ is_last_step
        /\ pc' = "done"
        /\ UNCHANGED stepVars
     \/ /\ ~is_last_step
        /\ pc' = "fetch"
        /\ global_steps' = global_steps + 1 /\ gen_steps' = gen_steps + 1
  /\ UNCHANGED <<loopVars, bufVars, batch, genVars, real_step, weights, disk, validated, crashes>>

\* The counters of the batch are reset; fit returns after the last step.
EndIteration ==
  /\ pc = "end"
  /\ batch' = <<>> /\ num_prompt_in_batch' = 0 /\ num_gen_batches' = 0
  /\ \/ /\ is_last_step
        /\ pc' = "done"
        /\ UNCHANGED stepVars
     \/ /\ ~is_last_step
        /\ pc' = "fetch"
        /\ global_steps' = global_steps + 1 /\ gen_steps' = gen_steps + 1
  /\ UNCHANGED <<loopVars, bufVars, genVars, real_step, weights, disk, validated, crashes>>

Step ==
  \/ Start \/ Generate \/ NextEpoch
  \/ \E scores \in [1..N -> Scores] : Classify(scores)
  \/ Collect \/ RealUpdate \/ RealUpdateRaises \/ RealDone
  \/ TakeNewBatch \/ FilterNewBatch \/ UpdateActor \/ ValidateAndSave \/ EndIteration

Next == Step \/ Crash

Spec == Init /\ [][Next]_vars
-----------------------------------------------------------------------------
(* Properties *)

CountersOK ==
  /\ pc \in Terminal \cup {"init", "fetch", "classify", "realtrain", "filter", "train",
                            "report", "end"}
  /\ epoch \in Nat /\ pos \in Nat /\ cursor \in Nat
  /\ global_steps \in Nat /\ gen_steps \in Nat
  /\ num_gen_batches \in Nat /\ num_prompt_in_batch \in Nat
  /\ num_prompt_in_real_buffer \in Nat /\ real_step \in Nat
  /\ validated \in Nat /\ crashes \in Nat
  /\ is_last_step \in BOOLEAN

RecordsOK ==
  /\ new_batch \in Batches /\ sel \in Selections
  /\ all_incorrect_batch \in Seq(Trajectories) /\ batch \in Seq(Trajectories)
  /\ weights \in Lineages /\ disk \in Checkpoints

TypeOK == CountersOK /\ RecordsOK

\* The variables of fit mean something from the start of the loop until the
\* job dies; "exhausted" and "done" are its regular ends.
Alive == pc \notin {"init", "raised"}

\* num_prompt_in_real_buffer is kept apart from the buffer it counts: outside a
\* REAL round the buffer holds N responses for each counted prompt, and a new
\* generation batch never finds the threshold already reached.
BufferAccounting ==
  Alive /\ pc # "realtrain" =>
    /\ Len(all_incorrect_batch) = N * num_prompt_in_real_buffer
    /\ num_prompt_in_real_buffer < BufferSize

\* A REAL round trains on at most buffer_size prompts' responses, and the
\* truncation for the workers costs it fewer than DpSize of them; when the
\* configured round divides among the workers it is met exactly, so that the
\* dispatch cannot raise: truncating first and slicing then is the right order.
RealRoundSize ==
  pc = "realtrain" =>
    /\ Len(RealBatch) <= BufferSize * N
    /\ Len(RealBatch) > BufferSize * N - DpSize
    /\ (BufferSize * N) % DpSize = 0 => Len(RealBatch) = BufferSize * N

\* The buffer never carries a response from before the previous REAL round;
\* without GRPO, then, the round starts with responses of the very weights it
\* updates.
RealFresh ==
  /\ Alive => \A i \in DOMAIN all_incorrect_batch :
                 all_incorrect_batch[i].gen >= weights.lastReal
  /\ ~UseGrpo /\ pc = "realtrain" /\ real_step = 0 =>
       \A i \in DOMAIN RealBatch : RealBatch[i].gen = weights.version

\* The batch of a GRPO step is as large as configured and consists of whole
\* groups, the N responses of a prompt one after the other: compute_advantage
\* normalises within the responses of a prompt.
GrpoBatchComplete ==
  pc = "train" =>
    /\ Cardinality(PromptsOf(batch)) = IF FilterGroups THEN TrainBatchSize ELSE GenBatchSize
    /\ \A p \in PromptsOf(batch) :
         {batch[i].resp : i \in {j \in DOMAIN batch : batch[j].prompt = p}} = 1..N
    /\ Len(batch) = N * Cardinality(PromptsOf(batch))
    /\ \A i \in DOMAIN batch :
         /\ batch[i].resp = ((i - 1) % N) + 1
         /\ batch[i].prompt = batch[i - ((i - 1) % N)].prompt

\* No response in the GRPO batch was generated before the previous GRPO update,
\* however many generation batches and REAL rounds went into it.
GrpoFresh ==
  Alive /\ pc \notin {"report", "end", "done"} => \A i \in DOMAIN batch : batch[i].gen >= weights.lastGrpo

\* The lineage of the weights, through crashes and resumes, uses a prompt in at
\* most one REAL round and in at most one GRPO update.
TrainedOnce ==
  /\ pc = "realtrain" /\ real_step = 0 => PromptsOf(RealBatch) \cap weights.real = {}
  /\ pc = "train" => PromptsOf(batch) \cap weights.grpo = {}

\* A run that reaches its last step leaves a checkpoint of exactly the final
\* weights and has validated them.
SavedAtEnd ==
  pc = "done" =>
    /\ SaveFreq > 0 => disk.weights = weights /\ disk.step = global_steps
    /\ TestFreq > 0 => validated = weights.version

\* Each start of the job adds at most total_training_steps steps.
StepsPerStart == Alive => global_steps <= (crashes + 1) * TotalTrainingSteps

\* The generation batches that one step may take; no bound at all when groups
\* are filtered with max_num_gen_batches = 0.
BatchesPerStep == IF FilterGroups THEN MaxNumGenBatches ELSE 1

\* Wherever the job is killed or ends, no more generation batches are lost than
\* save_freq steps can take: the newest checkpoint is counted in steps and the
\* data in batches, and only the reset of num_gen_batches at the end of a step
\* and the save at every multiple of save_freq tie the two together.
LostToKill ==
  SaveFreq > 0 /\ BatchesPerStep > 0 =>
    cursor - disk.cursor <= SaveFreq * BatchesPerStep
=============================================================================
