--------------------------- MODULE WorkerOffload ---------------------------
(***************************************************************************)
(* The FSDP worker that is actor and rollout at once: ActorRolloutRefWorker *)
(* in verl/workers/fsdp_workers.py with role "actor_rollout", the updates  *)
(* of DataParallelPPOActor and REALActor, and FSDPVLLMShardingManager.     *)
(*                                                                         *)
(* One GPU is shared by the trained module, the states of two optimizers   *)
(* over the same parameters (GRPO's and REAL's) and the rollout engine, so *)
(* every call moves what it needs onto the GPU and away again.  The driver *)
(* issues the calls one at a time and may issue them in any order.  The    *)
(* ranks run each call in lock step, by the collectives of FSDP, so one    *)
(* rank stands for all.  The job may be killed at any point; the next      *)
(* process builds the worker again and loads the checkpoint, if any.       *)
(*                                                                         *)
(* Tensors are known by where they are and by the steps they have seen;    *)
(* train and eval mode and the random streams are left out.                *)
(***************************************************************************)
EXTENDS Integers, Sequences

CONSTANTS
  Configs,       \* the configurations a job may be started with
  MiniBatches,   \* optimizer steps of one update, over all its epochs
  MicroBatches,  \* backward passes of one optimizer step
  MaxSteps,      \* bound of the model: optimizer steps in the weights
  MaxCrashes     \* bound of the model: how often the job is killed

\* actor.fsdp_config.param_offload and optimizer_offload, rollout.free_cache_engine.
Flags == [param : BOOLEAN, optimizer : BOOLEAN, cache : BOOLEAN]

ASSUME WorkerAssumption ==
  /\ Configs \subseteq Flags /\ Configs # {}
  /\ {MiniBatches, MicroBatches} \subseteq Nat \ {0}
  /\ {MaxSteps, MaxCrashes} \subseteq Nat

VARIABLES
  call,     \* what the worker is doing
  config,   \* _is_offload_param, _is_offload_optimizer, free_cache_engine
  mini,     \* mini-batches this update has finished
  micro,    \* backward passes of the current mini-batch
  params,   \* where actor_module_fsdp is
  weights,  \* the steps of each optimizer that the parameters carry
  moments,  \* optimizer.state: where it is and the steps it has seen
  grads,    \* the backward passes accumulated in the gradients
  engine,   \* rollout engine: what is awake and the weights it serves
  disk,     \* newest complete checkpoint
  crashes

vars == <<call, config, mini, micro, params, weights, moments, grads, engine,
          disk, crashes>>

Optimizers == {"actor", "real"}   \* actor_optimizer, real_actor_optimizer
Updating(o) == IF o = "actor" THEN "update_actor" ELSE "real_update_actor"
Updates == {Updating(o) : o \in Optimizers}
Places == {"gpu", "cpu"}
Steps == [Optimizers -> Nat]
NoSteps == [o \in Optimizers |-> 0]
NoState == [o \in Optimizers |-> [place |-> "none", steps |-> 0]]
Dummy == [o \in Optimizers |-> -1]          \* load_format "dummy": random weights
NoCheckpoint == [weights |-> Dummy, moments |-> Dummy]
Tags == {"weights", "kv_cache"}
Passes == Optimizers \X Nat \X Nat          \* optimizer, mini-batch, micro-batch

-----------------------------------------------------------------------------
(* Moves between GPU and CPU, verl/utils/fsdp_utils.py *)

\* An optimizer that has not stepped yet has no state, and nothing moves.
Moved(state, place) ==
  IF state.place = "none" THEN state ELSE [state EXCEPT !.place = place]

\* Optimizer.load_state_dict puts the state where the parameters are.
Restored(steps, place) ==
  [place |-> IF steps = 0 THEN "none" ELSE place, steps |-> steps]

Loaded(place) == IF config.param THEN "gpu" ELSE place
Offloaded(place) == IF config.param THEN "cpu" ELSE place
LoadState(state) == IF config.optimizer THEN Moved(state, "gpu") ELSE state
OffloadState(state) == IF config.optimizer THEN Moved(state, "cpu") ELSE state

Asleep(c) == IF c.cache THEN {} ELSE Tags
Awake(tag) == IF config.cache THEN engine.awake \cup {tag} ELSE Tags

-----------------------------------------------------------------------------
(* Start of the process *)

Init ==
  /\ call = "down" /\ config \in Configs /\ mini = 0 /\ micro = 0
  /\ params = "cpu" /\ weights = NoSteps /\ moments = NoState /\ grads = <<>>
  /\ engine = [awake |-> Asleep(config), weights |-> Dummy]
  /\ disk = NoCheckpoint /\ crashes = 0

\* __init__ and init_model: the module is built on the GPU and moved away before
\* the rollout engine is built, which goes to sleep at once.  The driver then looks
\* for a checkpoint, and trains from scratch when there is none.
InitModel ==
  /\ call = "down"
  /\ call' = IF disk = NoCheckpoint THEN "idle" ELSE "built"
  /\ mini' = 0 /\ micro' = 0
  /\ config' \in Configs
  /\ params' = IF config'.param THEN "cpu" ELSE "gpu"
  /\ weights' = NoSteps
  /\ moments' = NoState
  /\ grads' = <<>>
  /\ engine' = [awake |-> Asleep(config'), weights |-> Dummy]
  /\ UNCHANGED <<disk, crashes>>

\* The main optimizer is restored while the parameters are on the GPU, the REAL
\* optimizer after they have been moved away again.
RestoredAt(o) == IF o = "actor" THEN Loaded(params) ELSE Offloaded(params)

\* Mutant: the state of the REAL optimizer stays where it was restored.
RestoreKeepingReal ==
  [o \in Optimizers |->
     LET state == Restored(disk.moments[o], RestoredAt(o))
     IN  IF o = "actor" THEN OffloadState(state) ELSE state]

RestoredMoments ==
  [o \in Optimizers |-> OffloadState(Restored(disk.moments[o], RestoredAt(o)))]

LoadCheckpoint ==
  /\ call = "built"
  /\ call' = "idle"
  /\ weights' = disk.weights
  /\ moments' = RestoredMoments
  /\ params' = Offloaded(params)
  /\ UNCHANGED <<config, mini, micro, grads, engine, disk, crashes>>

-----------------------------------------------------------------------------
(* update_actor and real_update_actor *)

\* Mutant: both updates load the state of the main optimizer.
LoadedMomentsOfActor(o) == [moments EXCEPT !["actor"] = LoadState(@)]

LoadedMoments(o) == [moments EXCEPT ![o] = LoadState(@)]

\* The parameters and the state of this optimizer are loaded; update_policy begins,
\* REAL's with a zero_grad.
BeginUpdate(o) ==
  /\ call = "idle"
  /\ weights["actor"] + weights["real"] + MiniBatches <= MaxSteps  \* bound
  /\ call' = Updating(o)
  /\ mini' = 0 /\ micro' = 0
  /\ params' = Loaded(params)
  /\ moments' = LoadedMoments(o)
  /\ grads' = IF o = "real" THEN <<>> ELSE grads
  /\ UNCHANGED <<config, weights, engine, disk, crashes>>

\* Mutant: the gradients are cleared once per update.
GradsFromUpdate == IF mini = 0 /\ micro = 0 THEN <<>> ELSE grads

\* Every mini-batch begins with zero_grad, which either optimizer does for the
\* gradients of all parameters.
GradsSoFar == IF micro = 0 THEN <<>> ELSE grads

\* Mutant: one mini-batch too many.
MiniBatchesToCount == mini <= MiniBatches

MoreMiniBatches == mini < MiniBatches

\* The forward and backward pass of one micro-batch.
Backward(o) ==
  /\ call = Updating(o) /\ MoreMiniBatches /\ micro < MicroBatches
  /\ micro' = micro + 1
  /\ grads' = Append(GradsSoFar, <<o, mini + 1, micro + 1>>)
  /\ UNCHANGED <<call, config, mini, params, weights, moments, engine, disk, crashes>>

MiniBatchDone(o) ==
  /\ mini' = mini + 1 /\ micro' = 0
  /\ grads' = IF o = "real" THEN <<>> ELSE grads
  /\ UNCHANGED <<params, engine, disk, crashes>>

\* The first step creates the state of the optimizer where the parameters are.
Together(o) == moments[o].place \in {"none", params}

\* _optimizer_step with a finite norm.
Step(o) ==
  /\ call = Updating(o) /\ micro = MicroBatches
  /\ Together(o)
  /\ weights' = [weights EXCEPT ![o] = @ + 1]
  /\ moments' = [moments EXCEPT ![o] = [place |-> params, steps |-> @.steps + 1]]
  /\ MiniBatchDone(o)
  /\ UNCHANGED <<call, config>>

\* AdamW refuses a parameter and a state on different devices; nothing above the
\* worker catches the error.
StepRaises(o) ==
  /\ call = Updating(o) /\ micro = MicroBatches
  /\ ~Together(o)
  /\ call' = "raised"
  /\ UNCHANGED <<config, mini, micro, params, weights, moments, grads, engine, disk, crashes>>

\* _optimizer_step with an infinite or NaN norm: no step, and a zero_grad.
SkipStep(o) ==
  /\ call = Updating(o) /\ micro = MicroBatches
  /\ mini' = mini + 1 /\ micro' = 0
  /\ grads' = <<>>
  /\ UNCHANGED <<call, config, params, weights, moments, engine, disk, crashes>>

EndUpdate(o) ==
  /\ call = Updating(o) /\ mini = MiniBatches
  /\ call' = "idle"
  /\ grads' = <<>>
  /\ params' = Offloaded(params)
  /\ moments' = [moments EXCEPT ![o] = OffloadState(@)]
  /\ UNCHANGED <<config, mini, micro, weights, engine, disk, crashes>>

-----------------------------------------------------------------------------
(* generate_sequences, inside the sharding manager *)

\* Mutant: after the first synchronisation the engine is taken to be current.
SyncedOnce == IF engine.weights = Dummy THEN weights ELSE engine.weights

Synced == weights

\* __enter__ up to update_params: the engine wakes up with its weights only, and
\* receives those of the actor.
EnterSync ==
  /\ call = "idle"
  /\ call' = "sync"
  /\ params' = Loaded(params)
  /\ engine' = [awake |-> Awake("weights"), weights |-> Synced]
  /\ UNCHANGED <<config, mini, micro, weights, moments, grads, disk, crashes>>

\* Mutant: the parameters stay on the GPU while the engine generates.
ParamsKept == params

ParamsForCache == Offloaded(params)

\* The rest of __enter__: the parameters make room for the KV cache.
EnterCache ==
  /\ call = "sync"
  /\ call' = "generate"
  /\ params' = ParamsForCache
  /\ engine' = [engine EXCEPT !.awake = Awake("kv_cache")]
  /\ UNCHANGED <<config, mini, micro, weights, moments, grads, disk, crashes>>

\* The responses are there; __exit__.
ExitEngine ==
  /\ call = "generate"
  /\ call' = "idle"
  /\ engine' = [engine EXCEPT !.awake = Asleep(config)]
  /\ UNCHANGED <<config, mini, micro, params, weights, moments, grads, disk, crashes>>

-----------------------------------------------------------------------------
(* The other calls *)

\* compute_log_prob and compute_logits_and_log_prob.
BeginLogProb ==
  /\ call = "idle"
  /\ call' = "log_prob"
  /\ params' = Loaded(params)
  /\ UNCHANGED <<config, mini, micro, weights, moments, grads, engine, disk, crashes>>

EndLogProb ==
  /\ call = "log_prob"
  /\ call' = "idle"
  /\ params' = Offloaded(params)
  /\ UNCHANGED <<config, mini, micro, weights, moments, grads, engine, disk, crashes>>

\* Mutant: only the main optimizer is saved.
SavedMainOnly == [NoSteps EXCEPT !["actor"] = moments["actor"].steps]

SavedMoments == [o \in Optimizers |-> moments[o].steps]

\* The state of the REAL optimizer is moved to the CPU whatever optimizer_offload
\* says, and left there.
SaveCheckpoint ==
  /\ call = "idle"
  /\ disk' = [weights |-> weights, moments |-> SavedMoments]
  /\ moments' = [moments EXCEPT !["real"] = Moved(@, "cpu")]
  /\ params' = Offloaded(Loaded(params))
  /\ UNCHANGED <<call, config, mini, micro, weights, grads, engine, crashes>>

\* The job is killed, or the error ended it; what the worker held is lost.
Crash ==
  /\ call # "down" /\ crashes < MaxCrashes
  /\ crashes' = crashes + 1
  /\ call' = "down"
  /\ UNCHANGED <<config, mini, micro, params, weights, moments, grads, engine, disk>>

Update(o) ==
  \/ BeginUpdate(o) \/ Backward(o) \/ Step(o) \/ StepRaises(o) \/ SkipStep(o) \/ EndUpdate(o)

Next ==
  \/ InitModel \/ LoadCheckpoint
  \/ \E o \in Optimizers : Update(o)
  \/ EnterSync \/ EnterCache \/ ExitEngine
  \/ BeginLogProb \/ EndLogProb
  \/ SaveCheckpoint
  \/ Crash

Spec == Init /\ [][Next]_vars

-----------------------------------------------------------------------------
(* Properties *)

Running == call \notin {"down", "raised"}

\* Type invariant.
WorkerTypeOK ==
  /\ call \in {"down", "built", "idle", "sync", "generate", "log_prob", "raised"} \cup Updates
  /\ config \in Configs
  /\ mini \in 0..MiniBatches /\ micro \in 0..MicroBatches
  /\ params \in Places
  /\ weights \in Steps
  /\ moments \in [Optimizers -> [place : Places \cup {"none"}, steps : Nat]]
  /\ grads \in Seq(Passes)
  /\ engine \in [awake : SUBSET Tags, weights : Steps \cup {Dummy}]
  /\ disk \in [weights : Steps, moments : Steps] \cup {NoCheckpoint}
  /\ crashes \in 0..MaxCrashes

\* With optimizer_offload no optimizer steps with its state and the parameters apart:
\* neither the moves around the other optimizer's updates, nor a save that puts the
\* state of the REAL optimizer on the CPU, nor a resume that restores it after the
\* parameters were moved away, leave it where the next step would refuse it.
StepsWithState == call = "raised" => ~config.optimizer

\* "optimizer_offload: false" keeps the states of the optimizers on the GPU, so no
\* step is refused either: what dp_actor.yaml says of the option.
EveryStepAccepted == call # "raised"

\* Between two calls the GPU is free: no parameters and no optimizer state on it
\* where offloading is configured, and the rollout engine asleep, whichever calls,
\* saves and resumes came before.
RestsOffloaded ==
  call = "idle" =>
    /\ config.param => params = "cpu"
    /\ config.optimizer => \A o \in Optimizers : moments[o].place # "gpu"
    /\ config.cache => engine.awake = {}

\* The rollout engine generates with the weights the actor has at that moment, after
\* any number of updates by either optimizer, skipped steps and resumes.
GeneratesWithActorWeights == call = "generate" => engine.weights = weights

\* The KV cache is allocated only while nothing that can be moved away is on the
\* GPU, and never while the actor is being trained.
RoomForCache ==
  config.cache /\ "kv_cache" \in engine.awake =>
    /\ call = "generate" \/ ~Running
    /\ config.param => params = "cpu"
    /\ config.optimizer => \A o \in Optimizers : moments[o].place # "gpu"

\* A step of either optimizer uses the gradients of its own mini-batch, all of them
\* and no others: nothing is left over from the mini-batch before, from a skipped
\* step or from the other optimizer, although both share the gradients.
StepsOwnGradients ==
  [][\A o \in Optimizers :
       weights'[o] = weights[o] + 1 /\ call = Updating(o) =>
         grads = [k \in 1..MicroBatches |-> <<o, mini + 1, k>>]]_vars

\* The moments of each optimizer have seen exactly the steps that the weights carry
\* from it, also after a resume: neither optimizer restarts from nothing, or runs
\* ahead, beside weights that the other one went on training.
MomentsMatchWeights ==
  call \notin {"down", "built"} =>
    \A o \in Optimizers : moments[o].steps = weights[o]
=============================================================================
