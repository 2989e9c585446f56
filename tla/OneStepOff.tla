----------------------------- MODULE OneStepOff -----------------------------
(***************************************************************************)
(* The one-step-off-policy trainer: OneStepOffRayTrainer in                *)
(* recipe/one_step_off_policy/ray_trainer.py and its workers in            *)
(* recipe/one_step_off_policy/fsdp_workers.py.                             *)
(*                                                                         *)
(* The actor and the rollout engine run on worker groups of their own.     *)
(* While the driver trains the actor on one batch, the rollout group       *)
(* generates the next one.  Before each generation the actor broadcasts    *)
(* its weights, parameter by parameter, in a collective call that the      *)
(* actor and all rollout ranks must reach.  Every worker executes the      *)
(* calls of the driver in the order they were made; calls declared with    *)
(* blocking=False return to the driver at once.                            *)
(*                                                                         *)
(* The actor group runs in lock step and is one worker here.  A batch is   *)
(* its number in the stream of the dataloader; the weights are known by    *)
(* the number of updates they carry and the batches they were trained on.  *)
(***************************************************************************)
EXTENDS Integers, Sequences, FiniteSets

CONSTANTS
  RolloutRanks,        \* data-parallel ranks of rollout_wg
  Params,              \* len(_weights_info): parameters to broadcast
  BatchesPerEpoch,     \* len(train_dataloader)
  TotalEpochs,         \* trainer.total_epochs
  TotalTrainingSteps,  \* self.total_training_steps
  CriticWarmup,        \* trainer.critic_warmup
  SaveFreq, TestFreq,  \* trainer.save_freq, trainer.test_freq
  LoaderMayFail,       \* whether the dataloader may raise
  Actor,               \* the actor group, as a worker
  MaxCrashes           \* bound of the model: how often the job is killed

ASSUME OneStepOffAssumption ==
  /\ {Params, BatchesPerEpoch, TotalEpochs, TotalTrainingSteps} \subseteq Nat \ {0}
  /\ {CriticWarmup, SaveFreq, TestFreq, MaxCrashes} \subseteq Nat
  /\ LoaderMayFail \in BOOLEAN
  /\ RolloutRanks # {} /\ IsFiniteSet(RolloutRanks)
  /\ Actor \notin RolloutRanks

Workers == RolloutRanks \cup {Actor}
Keys == 1..Params
Calls == {"sync", "generate"}

VARIABLES
  pc,            \* where the driver is
  caller,        \* who called sync_rollout_weights or _async_gen_next_batch
  epoch, pos,    \* of the continuous iterator
  cursor,        \* batches drawn since the training began
  global_steps, is_last_step,
  queue,         \* per worker: calls made and not finished
  progress,      \* per worker: how far the first call of its queue is
  model,         \* per rollout rank: version of each parameter of its engine
  answers,       \* per rollout rank: versions of the parameters it answered with
  future,        \* batch_data_future: number of the batch in flight, 0 for None
  batch,         \* the batch being trained on and the versions that answered
  weights,       \* the actor's weights
  disk,          \* newest checkpoint
  validated,     \* versions seen by the last validation in the loop
  crashes

iterVars == <<epoch, pos, cursor>>
stepVars == <<global_steps, is_last_step>>
workVars == <<queue, progress, model, answers>>
vars == <<pc, caller, iterVars, stepVars, workVars, future, batch, weights, disk,
          validated, crashes>>

NoBatch == [num |-> 0, gen |-> {}]
Untrained == [version |-> 0, used |-> {}]
Terminal == {"done", "exhausted"}
Callers == {"init_workers", "fit", "step"}

Init ==
  /\ pc = "down" /\ caller = "init_workers"
  /\ epoch = 0 /\ pos = 0 /\ cursor = 0
  /\ global_steps = 0 /\ is_last_step = FALSE
  /\ queue = [w \in Workers |-> <<>>] /\ progress = [w \in Workers |-> 0]
  /\ model = [r \in RolloutRanks |-> [k \in Keys |-> 0]]
  /\ answers = [r \in RolloutRanks |-> {}]
  /\ future = 0 /\ batch = NoBatch
  /\ weights = Untrained
  /\ disk = [step |-> 0, pos |-> 0, cursor |-> 0, weights |-> Untrained]
  /\ validated = {} /\ crashes = 0

Running(w, call) == queue[w] # <<>> /\ Head(queue[w]) = call
Idle(ws) == \A w \in ws : queue[w] = <<>>
-----------------------------------------------------------------------------
(* Start and restart *)

\* init_workers: every worker loads the untrained model.
Boot ==
  /\ pc = "down"
  /\ pc' = "sync" /\ caller' = "init_workers"
  /\ queue' = [w \in Workers |-> <<>>] /\ progress' = [w \in Workers |-> 0]
  /\ model' = [r \in RolloutRanks |-> [k \in Keys |-> 0]]
  /\ answers' = [r \in RolloutRanks |-> {}]
  /\ weights' = Untrained
  /\ future' = 0 /\ batch' = NoBatch
  /\ UNCHANGED <<iterVars, stepVars, disk, validated, crashes>>

\* A blocking call on the actor returns after all calls made before it.
ActorReady == Idle({Actor})

\* self.global_steps after _load_checkpoint and the increment that follows it.
RestoredStep == disk.step + 1

Served == UNION {{model[r][k] : k \in Keys} : r \in RolloutRanks}

\* fit up to its loop: _load_checkpoint restores the actor, the step and the
\* dataloader, but not the rollout group, with which the validation before
\* training then runs.
Load ==
  /\ pc = "load" /\ ActorReady /\ Idle(RolloutRanks)
  /\ pc' = "fetch" /\ caller' = "fit"
  /\ weights' = disk.weights
  /\ epoch' = 0 /\ pos' = disk.pos /\ cursor' = disk.cursor
  /\ global_steps' = RestoredStep
  /\ validated' = Served
  /\ UNCHANGED <<is_last_step, workVars, future, batch, disk, crashes>>

\* The job is killed.
Crash ==
  /\ pc \notin Terminal \cup {"down"} /\ crashes < MaxCrashes
  /\ crashes' = crashes + 1
  /\ pc' = "down"
  /\ UNCHANGED <<caller, iterVars, stepVars, workVars, future, batch, weights, disk, validated>>
-----------------------------------------------------------------------------
(* _async_gen_next_batch and sync_rollout_weights *)

AfterFetch == IF caller = "fit" THEN "loop" ELSE "train"

\* next(continuous_iterator), over the epochs.
Fetch ==
  /\ pc = "fetch"
  /\ \/ /\ pos < BatchesPerEpoch
        /\ pos' = pos + 1 /\ cursor' = cursor + 1
        /\ pc' = "sync"
        /\ UNCHANGED epoch
     \/ /\ pos = BatchesPerEpoch /\ epoch + 1 < TotalEpochs
        /\ epoch' = epoch + 1 /\ pos' = 0
        /\ UNCHANGED <<pc, cursor>>
  /\ UNCHANGED <<caller, stepVars, workVars, future, batch, weights, disk, validated, crashes>>

\* The iterator is used up, or raises, which is taken for the same.
FetchNothing ==
  /\ pc = "fetch"
  /\ LoaderMayFail \/ (pos = BatchesPerEpoch /\ epoch + 1 = TotalEpochs)
  /\ pc' = AfterFetch
  /\ future' = 0
  /\ UNCHANGED <<caller, iterVars, stepVars, workVars, batch, weights, disk, validated, crashes>>

\* Mutant: the actor's call is made like any other and waited for.
SyncCallBlocks == ActorReady

\* sync_rollout_weights of the actor has blocking=False.
SyncCallReturns == TRUE

\* Mutant: the rollout group keeps the weights it started with.
SyncOnlyAtStart == IF caller = "step" THEN <<>> ELSE <<"sync">>

\* What sync_rollout_weights asks the workers to do.
SyncCalls == <<"sync">>

CallActor ==
  /\ pc = "sync"
  /\ pc' = "called"
  /\ queue' = [queue EXCEPT ![Actor] = @ \o SyncCalls]
  /\ UNCHANGED <<caller, iterVars, stepVars, progress, model, answers, future, batch, weights,
                 disk, validated, crashes>>

CallRollout ==
  /\ pc = "called" /\ SyncCallReturns
  /\ pc' = "syncing"
  /\ queue' = [w \in Workers |-> IF w \in RolloutRanks THEN queue[w] \o SyncCalls ELSE queue[w]]
  /\ UNCHANGED <<caller, iterVars, stepVars, progress, model, answers, future, batch, weights,
                 disk, validated, crashes>>

\* ray.get on the rollout group's calls; then the generation is started, unless
\* it was init_workers that synchronised.
Synced ==
  /\ pc = "syncing" /\ Idle(RolloutRanks)
  /\ IF caller = "init_workers"
     THEN pc' = "load" /\ UNCHANGED <<queue, future>>
     ELSE /\ pc' = AfterFetch
          /\ queue' = [w \in Workers |->
                         IF w \in RolloutRanks THEN Append(queue[w], "generate") ELSE queue[w]]
          /\ future' = cursor
  /\ UNCHANGED <<caller, iterVars, stepVars, progress, model, answers, batch, weights,
                 disk, validated, crashes>>
-----------------------------------------------------------------------------
(* The workers *)

\* collective.broadcast of the next parameter: all workers must have reached it.
Broadcast(k) ==
  /\ \A w \in Workers : Running(w, "sync") /\ progress[w] = k - 1
  /\ progress' = [w \in Workers |-> k]
  /\ model' = [r \in RolloutRanks |-> [model[r] EXCEPT ![k] = weights.version]]
  /\ UNCHANGED <<pc, caller, iterVars, stepVars, queue, answers, future, batch, weights, disk,
                 validated, crashes>>

\* A worker returns from sync_rollout_weights.
SyncReturns(w) ==
  /\ Running(w, "sync") /\ progress[w] = Params
  /\ queue' = [queue EXCEPT ![w] = Tail(@)] /\ progress' = [progress EXCEPT ![w] = 0]
  /\ UNCHANGED <<pc, caller, iterVars, stepVars, model, answers, future, batch, weights, disk,
                 validated, crashes>>

\* A rank generates its part of the batch.
Generate(r) ==
  /\ Running(r, "generate") /\ progress[r] = 0
  /\ progress' = [progress EXCEPT ![r] = 1]
  /\ answers' = [answers EXCEPT ![r] = {model[r][k] : k \in Keys}]
  /\ UNCHANGED <<pc, caller, iterVars, stepVars, queue, model, future, batch, weights, disk,
                 validated, crashes>>

\* reduce_timing, a collective of the rollout group, ends generate_sequences.
GenerateReturns ==
  /\ \A r \in RolloutRanks : Running(r, "generate") /\ progress[r] = 1
  /\ queue' = [w \in Workers |-> IF w \in RolloutRanks THEN Tail(queue[w]) ELSE queue[w]]
  /\ progress' = [w \in Workers |-> IF w \in RolloutRanks THEN 0 ELSE progress[w]]
  /\ UNCHANGED <<pc, caller, iterVars, stepVars, model, answers, future, batch, weights, disk,
                 validated, crashes>>

Alive == pc \notin {"down"} \cup Terminal

WorkerStep ==
  /\ Alive
  /\ \/ \E k \in Keys : Broadcast(k)
     \/ \E w \in Workers : SyncReturns(w)
     \/ \E r \in RolloutRanks : Generate(r)
     \/ GenerateReturns
-----------------------------------------------------------------------------
(* The loop *)

\* Mutant: one step too many.
LastStepLate == global_steps > TotalTrainingSteps

LastStep == global_steps >= TotalTrainingSteps

\* Mutant: no step starts the next generation.
TrainAtOnce == "train"

\* Before it trains on the batch it has waited for the driver starts the next
\* generation, unless the step is the last.
AfterGet == IF LastStep THEN "train" ELSE "fetch"

\* batch_data_future.get().
GetBatch ==
  /\ pc = "loop" /\ future # 0 /\ Idle(RolloutRanks)
  /\ is_last_step' = LastStep
  /\ batch' = [num |-> future, gen |-> UNION {answers[r] : r \in RolloutRanks}]
  /\ pc' = AfterGet /\ caller' = "step"
  /\ UNCHANGED <<iterVars, global_steps, workVars, future, weights, disk, validated, crashes>>

\* while batch_data_future is not None.
OutOfData ==
  /\ pc = "loop" /\ future = 0
  /\ pc' = "exhausted"
  /\ UNCHANGED <<caller, iterVars, stepVars, workVars, future, batch, weights, disk, validated, crashes>>

\* Log probs, advantage and updates: blocking calls on the actor (and critic).
Train ==
  /\ pc = "train" /\ ActorReady
  /\ pc' = "validate"
  /\ weights' = [version |-> weights.version + (IF CriticWarmup <= global_steps THEN 1 ELSE 0),
                 used |-> weights.used \cup {batch.num}]
  /\ UNCHANGED <<caller, iterVars, stepVars, workVars, future, batch, disk, validated, crashes>>

\* Mutant: the last step is treated as any other.
DueOnlyByFreq(freq) == freq > 0 /\ global_steps % freq = 0

Due(freq) == freq > 0 /\ (is_last_step \/ global_steps % freq = 0)

\* _validate generates with the rollout group, after what it is already doing.
Validate ==
  /\ pc = "validate"
  /\ pc' = "save"
  /\ \/ /\ Due(TestFreq) /\ Idle(RolloutRanks)
        /\ validated' = Served
     \/ ~Due(TestFreq) /\ UNCHANGED validated
  /\ UNCHANGED <<caller, iterVars, stepVars, workVars, future, batch, weights, disk, crashes>>

\* The dataloader is saved with the batch in flight already drawn.
Save ==
  /\ pc = "save" /\ ActorReady
  /\ pc' = "end"
  /\ disk' = IF Due(SaveFreq)
             THEN [step |-> global_steps, pos |-> pos, cursor |-> cursor, weights |-> weights]
             ELSE disk
  /\ UNCHANGED <<caller, iterVars, stepVars, workVars, future, batch, weights, validated, crashes>>

EndStep ==
  /\ pc = "end"
  /\ pc' = IF is_last_step THEN "done" ELSE "loop"
  /\ global_steps' = global_steps + 1
  /\ batch' = NoBatch
  /\ UNCHANGED <<caller, iterVars, is_last_step, workVars, future, weights, disk, validated, crashes>>

DriverStep ==
  \/ Boot \/ Load \/ Fetch \/ FetchNothing \/ CallActor \/ CallRollout \/ Synced
  \/ GetBatch \/ OutOfData \/ Train \/ Validate \/ Save \/ EndStep

Next == DriverStep \/ WorkerStep \/ Crash

Spec == Init /\ [][Next]_vars

\* The driver and the workers go on while the job is alive: each of the calls a
\* worker has received is executed.
FairSpec == Spec /\ WF_vars(DriverStep) /\ WF_vars(WorkerStep)
-----------------------------------------------------------------------------
(* Properties *)

DriverOK ==
  /\ pc \in Terminal \cup {"down", "sync", "called", "syncing", "load", "fetch", "loop", "train",
                            "validate", "save", "end"}
  /\ caller \in Callers
  /\ {epoch, pos, cursor, global_steps, future, crashes} \subseteq Nat
  /\ is_last_step \in BOOLEAN
  /\ batch \in [num : Nat, gen : SUBSET Nat]
  /\ validated \subseteq Nat

WorkersOK ==
  /\ queue \in [Workers -> Seq(Calls)]
  /\ progress \in [Workers -> 0..Params]
  /\ model \in [RolloutRanks -> [Keys -> Nat]]
  /\ answers \in [RolloutRanks -> SUBSET Nat]

LineagesOK ==
  LET Lineages == [version : Nat, used : SUBSET (Nat \ {0})]
  IN  /\ weights \in Lineages
      /\ disk \in [step : Nat, pos : Nat, cursor : Nat, weights : Lineages]

TypeOK == DriverOK /\ WorkersOK /\ LineagesOK

\* The recipe's README: "generation and training parameters maintain a one-step
\* off policy".  All ranks have answered a batch with all parameters of one
\* version, which is at most one update behind the weights it is used to train.
OneStepBehind ==
  pc = "train" =>
    \E v \in {weights.version, weights.version - 1} : batch.gen = {v}

\* A batch is trained on at most once, through crashes and resumes, and a resume
\* skips no more than the batch that was in flight when its checkpoint was
\* written.
LostPerResume ==
  pc = "train" =>
    /\ batch.num \notin weights.used
    /\ Cardinality((1..(batch.num - 1)) \ weights.used) <= crashes

\* total_training_steps counts over all starts of the job; only a job that is
\* resumed from its last step goes one step further.
StepsOverResumes == pc = "train" => global_steps <= TotalTrainingSteps + crashes

\* A validation sees the weights that were sent to the rollout group before the
\* update of its step; in a step that starts no generation, the last one or the
\* one at the end of the data, those before the update of the step before, too.
ValidationLag ==
  pc = "save" /\ Due(TestFreq) =>
    \A v \in validated :
      weights.version - v \in 0..(IF is_last_step \/ future = 0 THEN 2 ELSE 1)

\* A job that reaches its last step has saved exactly its final weights, and no
\* batch it has drawn is left untrained or in flight.
SavedAtEnd ==
  pc = "done" =>
    /\ SaveFreq > 0 => disk.weights = weights /\ disk.cursor = cursor
    /\ cursor \in weights.used
    /\ Idle(RolloutRanks)

\* The driver and the two groups never wait for each other for ever.
Terminates == <>[](pc \in Terminal)
=============================================================================
