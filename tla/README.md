# A verification project for REAL-DAPO

REAL trains a language model with a group-relative policy gradient (DAPO/GRPO) and, beside it or
in its place, with REAL updates on buffered groups of responses.  It is built into a copy of verl:
one driver process runs the training loop and calls groups of worker processes, one per GPU, that
hold the sharded model.  A job runs for days on machines that are taken away; it saves checkpoints
and is started again.  What a test hardly reaches is therefore not the arithmetic but the control:
what is counted, buffered, dropped, saved and restored, in which order, and what a kill leaves.

The modules here state what that control promises.  TLC checks the promises on small instances,
TLAPS proves the ones that matter most for every value of the parameters.

## The system

| Component | Source | State it keeps | Operations | Interacts with | What makes it correct |
| --- | --- | --- | --- | --- | --- |
| REAL-DAPO training loop | `recipe/dapo/real_dapo_ray_trainer.py` | step counters, GRPO batch, REAL buffer and their counters | draw a batch, generate, classify, collect, REAL round, filter, GRPO update, validate, save, end of step | dataloader, worker group, checkpoints | the counters describe the buffers; a round and a batch have the configured size; nothing is trained on twice or when it is stale; the end is saved; a kill loses no more data than the steps between two saves take |
| Checkpoints | `verl/trainer/ppo/ray_trainer.py` (`_save_checkpoint`, `_load_checkpoint`), `verl/workers/fsdp_workers.py`, `verl/utils/checkpoint/*` | files of every rank, `data.pt`, tracker file, list of saved paths | save (rotate, write, barriers, tracker), resume | training loop, worker group, file system | what the tracker names is whole and of one save; a restart continues from the newest; every rank from the same |
| One-step-off-policy trainer | `recipe/one_step_off_policy/` | the future of the next batch, call queues of two worker groups | synchronise weights, start generation, train, validate, save | two worker groups, collective broadcast | a batch is one update old at most; no deadlock between the groups; a resume loses nothing unnoticed |
| FSDP worker | `verl/workers/fsdp_workers.py`, `verl/workers/actor/dp_actor.py`, `verl/workers/sharding_manager/fsdp_vllm.py` | which model and optimizer is on the GPU | update, REAL update, log probs, generate, save, load | driver, FSDP, rollout engine | what an operation uses is on the GPU when it runs; what should be offloaded is afterwards |
| REAL actor | `verl/workers/actor/real_actor.py`, `recipe/real/real_core_algos.py` | gradients, mini and micro batches | teacher-forced log probs, advantages, REAL loss, optimizer steps | worker, the other ranks | a response is judged by its own score against the others to its prompt; every row is trained on once an epoch |
| Data protocol, dispatch | `verl/protocol.py`, `verl/single_controller/base/decorator.py` | none (pure), futures | repeat, select, slice, concat, chunk, pad, union | every call from driver to workers | what is split and joined again is the same batch in the same order |
| Sequence length balancing | `verl/utils/seqlen_balancing.py` | none (pure) | partitions, micro-batches, their inverse | driver, actors, one reduction over the ranks | every row once, parts of similar size, none empty; all ranks run the same number of micro-batches |
| Agent loop, LLM servers | `verl/experimental/agent_loop/*`, `vllm_async_server.py`, `verl/tools/sandbox_fusion_tools.py` | load of the servers, sticky sessions, awake or asleep, turns of every loop, threads and permits of the tools | choose server, generate, call tools, wake up, sleep | driver, servers, tools, rate limiter | answers come from the present weights; a response ends with an answer, and a batch raises for a prompt that is too long only; a conversation stays on its server; tools never block each other for ever |
| Activation offload | `verl/utils/activation_offload.py` | groups of tensors on GPU or CPU, two streams beside the one that computes | push, pop, offload a group, reload it | autograd, memory allocator | a tensor is back before it is used; memory is not reused while it is copied; two groups on the GPU |
| Shared-memory model cache | `verl/utils/fs.py` | files under `/dev/shm` | copy, verify | all ranks of a node | a rank reads a whole copy |
| Sandbox client | `verl/utils/reward_score/sandbox_fusion/utils.py` | semaphore, retries | call with retry | reward function | a slot is given back however a call ends |
| Worker groups on Ray | `verl/single_controller/ray/base.py` | placement, register centre | create, spawn, execute | driver | every rank starts and finds rank 0 |
| Base PPO trainer, DAPO, standalone REAL trainer | `verl/trainer/ppo/ray_trainer.py`, `recipe/dapo/dapo_ray_trainer.py`, `recipe/real/` | as the REAL-DAPO loop | simpler forms of it | | |
| SGLang rollout, tools, Megatron, other recipes, SFT, merger, kernels, rewards, models | the rest of `verl/` and `recipe/` | | | | not reached by a REAL run, or numerical |

Behaviours that are hard: kills and resumes in the middle of an accumulation or a save; a REAL
round that changes the weights between the generation of a batch and the GRPO update on it;
counters kept beside the data they count; barriers and files of many ranks; calls that are queued on
two worker groups and meet in a broadcast; errors that are logged and swallowed; rows that are
padded, reordered, cut and put together again on their way through the ranks; streams of one GPU
that run beside each other; conversations that share servers, threads and permits.

## Modules

### RealDapo: the training loop

`RealDapo` is `RayREALDAPOTrainer.fit`.  `pc` is the place of the driver in the loop body; every
other variable of the driver has the name it has in the code.

| Code | Model |
| --- | --- |
| lines 227-267, `_load_checkpoint` | `Start` (from `disk`); `gen_steps` starts at 1 whatever was restored |
| `for epoch`, `for batch_dict`, generation | `Generate`, `NextEpoch` |
| scoring, `all_incorrect_uids_`, `partial_uids_`, `all_correct_uids`, `kept_prompt_uids` | `Classify(scores)`, one prompt at a time, every combination of scores |
| choice by `data_type`, concatenation, threshold, truncation | `Collect` |
| `_run_real_training` on the slice | `RealUpdate`, one per `real_steps`; `RealUpdateRaises` is the assertion of `DataProto.chunk` |
| the buffer is cleared | `RealDone` |
| group filter, alignment, `continue`, `ValueError` | `TakeNewBatch`, `FilterNewBatch` |
| log probs, advantage, critic warmup, `update_actor` | `UpdateActor` |
| `_validate`, `_save_checkpoint` | `ValidateAndSave` |
| resets, `return`, increments | `EndIteration` |
| the job is killed | `Crash`, then `Start` |

A trajectory is a prompt, the number of the response and the version of the weights that produced
it; the weights are their lineage (`version`, the prompts used by REAL and by GRPO, the version at
the last round and at the last GRPO update).  With that data the model can tell what was trained on
what.  Profiling, metrics, logging, `val_only` and the reward model are left out; so is a buffer
that holds less than one response per worker (`DpSize <= BufferSize * N`).  A job that raises stays
down; raising and being restarted looks like a kill.

### CkptStore and CkptManager: saving and resuming

`CkptManager` splits the one step that is a checkpoint in `RealDapo`.  The driver's phases are the
lines of `_save_checkpoint`; every rank walks through `FSDPCheckpointManager.save_checkpoint`:
rotation (rank 0) and folder (`Prepare`), first barrier, its files (`Write`, in two steps, with a
torn file in between), second barrier, the REAL optimizer (`WriteReal`, which may fail and be
swallowed).  When all ranks have returned the driver goes on to the critic, to `data.pt` and to the
tracker, which is first emptied and then written.  `Crash` may come between any two steps;
`StartFromScratch`, `Resume` and `ResumeRaises` are the outcomes of `_load_checkpoint`.  A file is
known by the start of the job that wrote it, so that a folder can hold files of two starts.

`CkptStore` is the abstract specification: one store that holds the newest finished save, is
withdrawn and published again, and from which a job comes up with exactly what it holds.
`CkptManager` implements it under the mapping at its end (`ImplementsStore`).

Simplified: the model, optimizer and extra files of a rank are one shard, the two files of the REAL
optimizer are one; removing a folder is one step; all ranks load in one step; training between two
saves is one step; the file system is shared.  Left out: the full Hugging Face export, LoRA
adapters, HDFS, the resume modes `disable` and `resume_path`, other checkpoint managers.

### OneStepOff: the overlapped trainer

`OneStepOff` is `OneStepOffRayTrainer` with the workers of its recipe: the driver, the actor group
and one process per rollout rank, each with the `queue` of calls it has received and not finished
and its `progress` in the first of them.

| Code | Model |
| --- | --- |
| `init_workers` | `Boot`, then a first synchronisation (`caller = "init_workers"`) |
| `fit` before its loop | `Load`: `_load_checkpoint`, validation, the increment of `global_steps` |
| `_async_gen_next_batch` | `Fetch` (next batch or next epoch), `FetchNothing` (no batch left, or the loader raised) |
| `sync_rollout_weights` of the driver | `CallActor`, `CallRollout`, `Synced` (`ray.get`, then the generation is started) |
| `sync_rollout_weights` of the workers | `Broadcast(k)`, a collective step of all workers per parameter, and `SyncReturns(w)` |
| `async_generate_sequences` | `Generate(r)`, `GenerateReturns` (the ranks meet in `reduce_timing`) |
| `batch_data_future.get()` | `GetBatch`; `OutOfData` ends the loop |
| log probs, advantage, `update_actor` | `Train`, a blocking call: it waits until the actor is idle |
| `_validate`, `_save_checkpoint`, end of the loop body | `Validate`, `Save`, `EndStep` |
| the job is killed | `Crash`, then `Boot` |

The parameters of every rank's engine carry the version of the weights they were sent with, and a
batch the versions its answers were made of; so a rank that is left out, a broadcast that overtakes
an update, or a generation between two parameters would be seen.  The actor group runs in lock step
and is one worker.  A checkpoint is one step here, `CkptManager` has what is inside.  Profiling,
metrics and the reward computation are left out.

### WorkerOffload: one GPU for training and generation

`WorkerOffload` is `ActorRolloutRefWorker` as REAL starts it (role `actor_rollout`), with the update
loops of the two actors and the vLLM sharding manager.  The parameters, the states of the two
optimizers over them and the rollout engine share the GPU.  The driver issues one call at a time, in
any order; the ranks run each call in lock step, so one rank stands for all.

| Code | Model |
| --- | --- |
| `__init__`, `init_model` | `InitModel`, with any of the configurations in `Configs` |
| `load_checkpoint` | `LoadCheckpoint`: the main optimizer is restored beside the loaded parameters, the REAL one after they were moved away (`RestoredAt`) |
| `update_actor`, `real_update_actor` | `BeginUpdate(o)`, then per mini-batch `Backward(o)` and one of `Step(o)`, `SkipStep(o)` (norm not finite), `StepRaises(o)` (state and parameters apart), then `EndUpdate(o)` |
| sharding manager `__enter__`, `__exit__` | `EnterSync` (parameters loaded, engine awake with weights, weights sent), `EnterCache` (parameters moved away, KV cache awake), `ExitEngine` |
| `compute_log_prob`, `compute_logits_and_log_prob` | `BeginLogProb`, `EndLogProb` |
| `save_checkpoint` | `SaveCheckpoint`, after which the REAL optimizer's state is on the CPU |
| the job is killed | `Crash`, then `InitModel`, perhaps with another configuration |

A tensor is its place; the weights are how many steps of each optimizer they carry, a state how many
it has seen, the gradients the backward passes in them.  A checkpoint is one step and whole
(`CkptManager` has what is inside).  Left out: train and eval mode, random streams, learning rates,
the reference model, LoRA, FSDP2's own offload policy, engines without partial wake-up, and a REAL
actor without an optimizer.

### SeqlenBalancing, DataProto and WorkerCall: a batch on its way through the ranks

`SeqlenBalancing` and `DataProto` are the pure parts: the largest differencing method
(`KarmarkarKarp`, heap, tie-breaking and all), `rearrange_micro_batches` and its inverse; chunks,
splits, padding, dispatch to ranks that share a chunk and collection from them.  Sorting is `InOrder`:
what stands at place `m` is the element with `m - 1` others before it; the sum of the lengths of some
rows is the number of their tokens (`TokensOf`).  `Evaluated` is the identity and makes TLC compute a
list once.  `WorkerCall` puts them to work in the three calls that differ most, with the ranks one by one.

| Code | Model |
| --- | --- |
| `_validate`: pad, generate, unpad | `CallGenerate`, `Generate(r)`, `Collect` |
| `_balance_batch`, `compute_log_prob` | `CallLogProb`, `Collect` |
| `update_actor` on the batch with its old log probabilities | `CallUpdate`, `Return` |
| `real_update_actor` with `attach_real_adv_to_dataproto` | `CallReal` (`PacksOf`: prompt by prompt in the order of the uids), `Return` |
| `rearrange_micro_batches` | `Plan(r)`, `ReduceCount` (all ranks), `Arrange(r)` |
| REAL's comparison of the number of micro-batches | `CompareCounts` (all ranks) |
| the loop over micro-batches | `Forward` (all ranks) |
| results back in the order of the mini-batch | `Gather(r)` |
| the advantages of `_precompute_adv_w_with_verl` | `ComputeAdvantages(r)` |
| optimizer step, next mini-batch, next epoch | `Step` (all ranks) |

A row is its number in the batch, a result the number of the row it was computed from, so every row
that is lost, doubled or swapped shows.  A collective operation happens when all ranks have reached
it.  A driver that would call them with unequal chunks cannot: `chunk` raises, which is
`RealUpdateRaises` of `RealDapo`.  The log probabilities of the reference model, the critic, images
and the branch without token-sized micro-batches are left out, as are the sums over the ranks that count
responses with a delimiter (`real_actor.py:181`), which every rank passes once at the beginning of a
REAL update, and a chunk that splits a prompt
between ranks: `ComparedWithinPrompt` compares with the responses *on the rank*, which is what the
code does.

### ActivationOffload: three streams of a GPU

`ActivationOffload` is `AsyncDoubleBufferGroupOffloadHandler` and the hooks around every layer.  The
host (`ForwardLayer`, `CommitFirst`, `CommitForward`, `BackwardLayer`, `CommitBackward`,
`CommitLast`) only issues work and waits to the compute stream and the two copying streams; a stream
carries out its work in order (`Execute(s)`), when it likes.  Memory comes from a caching allocator:
a block the host has dropped may be given out again at once to the stream that owns it.  A block
knows which layer of which micro-batch was written to it.  Layers are not checkpointed, a backward
pass follows its forward pass, and `groupid_reset` happens as the code does it, at the first commit
of the backward pass of the first layer.

### AgentLoop: conversations over servers and tools

`AgentLoop` is `AgentLoopManager` with its workers, their servers and the sandbox tool.

| Code | Model |
| --- | --- |
| manager's `generate_sequences`, `wake_up`, `sleep` | `NewBatch`, `WakeUp(s)`, `AllAwake`, `Collected`, `GenerateRaises`, `Sleep(s)`, `AllAsleep` |
| padding in `_run_agent_loop`, `torch.cat` in `_postprocess` and `DataProto.concat` | `Width(r)`, `Join(rows)` |
| the trainer between two batches | `UpdateWeights` |
| `_choose_server` and the call | `Ask(r)`: a known request goes to its server, a new one to one of the least loaded |
| the server's `generate`, the turn of `ToolAgentLoop.run` | `Answer(r)`, of any length that fits with any number of tool calls; `Refuse(r)` when nothing fits (`SamplingParams` refuses such a `max_tokens`) |
| tool responses | `Gathered(r)` |
| `_call_tool`, `ExecutionWorker.execute` | `Begin(r, i)`, `TakeThread(r, i)`, `Execute(r, i)`; a call may raise at either end |
| `TokenBucketWorker` | `Acquire`, in the order of the calls, and `Release` |

A prompt may be longer than `prompt_length`: the dataset filters prompts by their length without the
tool schemas that the loop puts into the template.  Nothing cuts it; the padding leaves it as wide as
it is, and rows of different widths cannot be joined.  `MaxModelLen` is `rollout.max_model_len` where
it is set, which may be less than prompt and response together, so a long prompt may leave no room
for a first or a later answer.  What raises in one loop, or in joining the rows, reaches the trainer
through `ray.get` and ends the job; the model stops there (`driver = "raised"`, the servers awake).

All ranks of a server wake up in one step, since waking is collective.  The engine writes one token
at least.  The load of a server counts requests ever sent to it by a worker, as the code's heap
does: it is never reduced.  A worker that handles more rows than the request cache holds may lose the
server of a loop; `StaysOnServer` says so in its condition.  In the run a worker has one row and a
cache of one entry: the row of the second batch pushes out that of the first, and nothing is pushed
out between two turns.  That with several rows the entries of earlier batches leave first is proved
and not checked by the run.

## Runs

| Run | Instance | What it shows |
| --- | --- | --- |
| `MCRealDapo` | 2 prompts of 2 responses per generation batch, buffer of 2, 2 workers, 2 epochs of 2 batches, 3 steps, 1 kill; REAL alone as in `bash_real/run_real.sh` | `TypeOK`, `BufferAccounting`, `RealFresh`, `StepsPerStart` |
| `MCRealDapoGrpo` | group filtering, REAL and GRPO, buffer of 3, 4 workers, warmup of 2 steps, at most 2 generation batches per step, 5 batches, 4 steps, a save every 2, 1 kill | with both kinds of update: `RealRoundSize`, `GrpoBatchComplete`, `GrpoFresh`, `TrainedOnce`, `SavedAtEnd`, `LostToKill`; the paths that raise |
| `MCCkptManager` | 2 ranks, actor and critic, 2 checkpoints kept, 4 saves, 3 starts, 1 failed write | `TrackedIsLoadable`, `LoadedTogether`, `KeptPerStart`, `ResumesNewest`, `ImplementsStore`, `SaveEnds` |
| `MCOneStepOff` | 2 rollout ranks, 2 parameters, 2 epochs of 3 batches, 4 steps, warmup of 2, a save every 2 and a validation every 3 steps, a loader that may raise, 2 kills | `OneStepBehind`, `LostPerResume`, `StepsOverResumes`, `ValidationLag`, `SavedAtEnd`, `Terminates` |
| `MCWorkerOffload` | any of the 8 configurations at each start, updates of 2 mini-batches of 2 micro-batches, 4 steps in the weights, 2 kills | `WorkerTypeOK`, `StepsWithState`, `RestsOffloaded`, `GeneratesWithActorWeights`, `RoomForCache`, `MomentsMatchWeights`, `StepsOwnGradients` |
| `MCWorkerCall` | 2 ranks that generate together and train apart; 8 rows of 4 prompts, each short or long in every combination, mini-batches of 3 and 1 rows, 2 epochs; validation of 1, 2, 3 and 5 rows | `RanksInStep`, `ReturnedInOrder`, `TrainsOnItsBatch`, `ComparedWithinPrompt`, `PartsBalanced`; as an assumption that TLC evaluates, `LimitIsNoMaximum` |
| `MCActivationOffload` | 5 layers, 3 micro-batches | `BackwardReadsOwn`, `AtMostTwoGroups` |
| `MCAgentLoop` | 2 workers of one row, 2 servers, 2 batches, 1 update, one thread per worker and one permit, up to 3 calls in an answer of which 2 are made; `max_model_len` 4 for prompts of 1, 2 (`prompt_length`) and 3 tokens and responses of 3 | `AnswersFromLatestWeights`, `EndsWithAnswer`, `StaysOnServer`, `BatchReturns` |
| `MCWorkerDefault` | the default configuration, nothing offloaded | `EveryStepAccepted` fails |
| `MCCkptKeepOne` | one checkpoint kept | `TrackedIsLoadable` fails |
| `MCWorkerCallRloo` | as `MCWorkerCall`, with `use_rloo` | `WeighedByOwnAccuracy` fails |
| `MCAgentLoopStale` | as `MCAgentLoop`, without `free_cache_engine` | `AnswersFromLatestWeights` fails |

The type invariants of `CkptManager` and `OneStepOff` are proved and no longer checked by a run, nor
is one needed for the pure modules; those of `AgentLoop` and `WorkerCall` are `TypeInv` and
`ShapeInv` of their proofs.  A definition with the comment "Mutant" is the plausible mistake that the
definition after it could hold instead; put in its place, it makes TLC refute the property that
PROJECT.json names with it.

The bounds.  Two responses per prompt give all three classes of prompt (none, partial, all solved);
two prompts per batch reach the threshold of the buffer exactly and with a surplus, and leave a
remainder to carry over; the dataset ends in the middle of an accumulation and the job is killed in
every state.  With filtering, two generation batches per step and a save every two steps let a kill
lose up to four of the five batches, and the last step takes one batch or two.  The buffer of
`MCRealDapoGrpo` cannot be shared evenly by its workers; that one which can is dispatched in full is
the part of `RealRoundSize` that only the proof covers.  Two ranks give every order of one rank ahead of the other; three saves make the
rotation remove a folder within one start, and three starts give a kill during the saves of a
resumed job, which is when a folder is written a second time.  In `MCOneStepOff` two ranks and
two parameters give every order of reaching and leaving a broadcast, four steps have a first, a
middle and a last one and steps with and without a save, and the second kill hits a job that was
resumed already.  In `MCWorkerOffload` two mini-batches and two micro-batches show what one leaves
to the next, and four steps are two updates, one by each optimizer or two by one.  In `MCWorkerCall`
the 256 mixes of lengths make the ranks ask for equal and for different numbers of micro-batches in
both mini-batches, and the orders of the uids leave the rows alone, swap them within a rank, and
would swap them between ranks.  In `MCActivationOffload` the third micro-batch works in memory that
the second has already reused.  In `MCAgentLoop` a response of three tokens has room for a tool turn
that leaves an answer, one that leaves none and one that does not fit; the short prompt has room for
all of it, the long ones for two tokens or one, so that the request after a tool turn may be refused,
and a batch with a prompt longer than `prompt_length` raises when it is joined; the second batch meets the
request cache of the first, and the two workers compete for the permit with two calls each.
Deadlock is not checked where a job may stop for good (`done`, `exhausted`, `raised`, the last start
killed, the last batch answered).

Fairness.  The training loop of `RealDapo` has none: its `for` loops over the data are finite, and
nothing is claimed about its end.  In `CkptManager` each rank, and the barriers and the driver, go on while they are alive.
In `OneStepOff` the driver goes on when what it waits for has come, and some worker goes on when one
can; Ray executes every call it has accepted, in order.
In `AgentLoop` every server, loop, tool call and the limiter go on while they have work: they are
processes, coroutines and threads of their own, the engine stops at `max_tokens` and a tool at its
timeout.  Each tool call is weakly fair: in the instance the thread of a worker is given to one call
at a time and both end after finitely many steps, so no stronger fairness is needed.
No fairness is put on kills, on failing writes or on the start of a new batch.

## Where the code and its words disagree

* Keeping one checkpoint, which the trainer advises, removes it before the next is written
  (`TrackedIsLoadable`, `MCCkptKeepOne`).
* "Flatten teacher-forced fields into top-level batch for per-response slicing in the REAL actor":
  the fields are flattened prompt by prompt in the order of `np.unique(uid)`, the accuracies stay in
  the order of the batch.  With `use_rloo` a response is weighed by the accuracy of another
  (`WeighedByOwnAccuracy`, `MCWorkerCallRloo`).  Without it all signals are computed from the
  flattened fields, and `ComparedWithinPrompt` holds as long as the ranks have whole prompts.
* `free_cache_engine` is "whether to free engine KVCache after generation"; switched off, the agent
  loop never wakes its servers, and waking is what gives them the weights (`AnswersFromLatestWeights`,
  `MCAgentLoopStale`).
* `optimizer_offload` says "whether to offload optimizer state to CPU"; a checkpoint moves the state
  of the REAL optimizer there in any case, and with the default `false` nothing brings it back: the
  next REAL update cannot step (`EveryStepAccepted`, `MCWorkerDefault`).  With `param_offload` alone
  a resume ends in the same way.  With `optimizer_offload`, which REAL's script sets, no step fails
  (`StepsWithState`, proved).

* `max_actor_ckpt_to_keep` is the "maximum number of actor checkpoints to keep"
  (`ppo_trainer.yaml:318`), and `save_checkpoint` "rotates old checkpoints, keeping at most
  `max_ckpt_to_keep`" (`fsdp_checkpoint_manager.py:190`); but the list of saved paths starts empty
  with every process (`checkpoint_manager.py:59`), so the checkpoints of earlier starts stay, and
  after `k` starts there may be `k` times as many.  `KeptPerStart` states what the code does: the
  maximum for the checkpoints of the present start, that none of an earlier start is removed, and
  the product as the bound on all.  `MCCkptManager` reaches more than the maximum as soon as a second
  start saves.
* `max_token_len` is the "max sum of attention_mask per micro-batch" (`seqlen_balancing.py:266`); but
  it only sets the number of micro-batches (line 283), and the rows are then divided evenly (line
  297).  Three rows of 5, 5 and 2 tokens with a limit of 6 become two micro-batches, one of which has
  7 tokens or more (`LimitIsNoMaximum`).  `PartsBalanced` states what holds: the limit on average, and
  how far two micro-batches differ; so a micro-batch exceeds the limit by at most the longest row
  (`MicroBatchesFit`, proved).

The last two are stated by what does hold instead of by a run that fails.

Two more statements of the code hold in part only, and the models say what does hold.  The total number
of steps is compared with `gen_steps`, which starts again at every resume: `StepsPerStart`.  The REAL
batch is cut to a multiple of the number of workers before it is cut to `buffer_size * n`, so the
call raises when the second is no such multiple: `RealRoundSize`, `RealUpdateRaises`.  A kill while
the tracker is written leaves a job that does not come up until the file is removed by hand:
`ResumeRaises`, and in `CkptStore` the time between `Withdraw` and `Publish`.

Reading the code for `AgentLoop` showed one thing that no property can hold or fail of: the sandbox
tool wraps its text in a `ToolResponse` twice, which the type of the field refuses, so the loop ends
at its first tool call (in the model a call may raise or answer, as those of other tools do).  And it
showed that one prompt that is too long for the model, or longer than the others of its batch and
than `prompt_length`, ends the job with the servers awake (`Refuse`, `GenerateRaises`).

What the model of the overlapped trainer shows without any text to the contrary: a resumed job
validates before training with the untrained model, since `_load_checkpoint` reaches the actor group
only (`Load`); each resume skips the batch that was in flight (`LostPerResume` says no more than
that); a job resumed from its last step takes one more (`StepsOverResumes`); the validation of a
step that starts no generation, the last one or the one at the end of the data, sees weights two
updates old (`ValidationLag`); and an exception of the dataloader ends the
job as if the data were used up (`FetchNothing`).

## Proofs

Proved for every value of the constants, from the assumptions named in the modules.

`RealDapoProofs`, from `ConfigAssumption`:

* `TypeCorrect`: `TypeOK`.
* `TrainedOnceCorrect`: the invariant must know that the lineage on disk stays behind the cursor
  saved with it (`DiskInv`), the present one behind the present cursor (`WeightsInv`), that the
  lists of the generation batch hold only its prompts (`SelInv`), and that the buffer and the batch
  are disjoint from what was used (`BufferInv`, `BatchInv`); together `LineageInv`.
* `BufferAccountingCorrect`, `RealRoundSizeCorrect` from `AccountInv`: the lengths of the lists and
  of the buffer in every phase.
* `StepsPerStartCorrect` from `StepsInv`: both `global_steps` and what is on disk lag behind the
  quota of the starts so far by what `gen_steps` has left.
* `SavedAtEndCorrect` from `SavedInv`.
* `LostToKillCorrect` from `LostInv`: within a step the batches drawn since the newest checkpoint are
  within the quota of the steps finished since then plus `num_gen_batches`, and a step that ends
  without a save is not at a multiple of `save_freq` (`SinceSave`, `JustSaved`).
* `GrpoBatchCompleteCorrect` from `ShapeInv`: the batch, and what was selected for it, are runs of
  `N` consecutive responses, each run the group of one prompt (`BatchShape`, `SelShape`); cutting the
  batch at a multiple of `N` leaves whole groups.
* `RealFreshCorrect`, `GrpoFreshCorrect` from `FreshInv`: the marks in the lineage never exceed the
  version, a generation batch carries the version of its generation, and the buffers hold nothing
  older than their mark.

`CkptManagerProofs`, from `CkptAssumption`; the theorems on what is loaded also from `KeepsEnough`,
that no component keeps exactly one checkpoint, without which they are false:

* `CkptTypeCorrect`: `TypeOK`.
* `TrackedIsLoadableCorrect`: the invariant `SafetyInv` says how far the ranks can be apart between
  two barriers (`RanksInv`), what the tracker may be in each phase (`TrackerInv`), that rank 0's
  list of paths increases and ends with what the tracker names, so that the rotation never reaches
  it (`PathsInv`), and what of the present save is on disk (`WrittenInv`).
* `ResumesNewestCorrect` and `ImplementsStoreCorrect` from the same invariant: every step of the
  procedure is a step of the store or leaves it alone.
* `LoadedTogetherCorrect`, also from `RealOptimStays`, that a job with a REAL optimizer does not
  delete what it has loaded (`del_local_ckpt_after_load`, False unless set).  Without it the theorem
  is false: a job that is killed before its next save finds no state for that optimizer when it
  resumes from the same checkpoint again, and starts it afresh beside a trained actor.
* `KeptPerStartCorrect`, without either hypothesis, from `CountInv`: while a job is up,
  what is on disk was left by earlier starts, which is within their bound, is in rank 0's list, or
  is being written; the list is within `MaxToKeep`, and has room for the one being written.  What
  this start has written is in the list or being written (`OwnAccounted`), and nothing in the list
  stems from an earlier start (`AgesInv`), so the rotation never reaches what an earlier start left.

`OneStepOffProofs`, from `OneStepOffAssumption`:

* `OneStepTypeCorrect`: `TypeOK`.
* `OneStepBehindCorrect` and `ValidationLagCorrect`: `WorkersInv` says what can be in the queues in
  every phase.  A synchronisation has three parts: the actor has yet to leave the one before it
  (`Waiting`), all workers have exchanged the same number of parameters (`Exchanging`), they leave
  (`Leaving`); outside of one only the actor may still have a call to finish.  On top of it `AgeInv`
  follows the one version the ranks share, its distance from the weights, and what was answered.
* `LostPerResumeCorrect` from `NumbersInv` (the batch in hand, the batch in flight and the cursor)
  and `LostInv`: the batches lost so far never grow within a start, and a checkpoint misses at most
  one more, which the next kill pays for.
* `StepsOverResumesCorrect` from `StepsInv`; `OneStepSavedAtEndCorrect` from `SavedInv`.

`WorkerOffloadProofs`, from `WorkerAssumption`: all seven properties, from one invariant
`WorkerInv`.  `ParamsInv` says where the parameters are in every call, `StateInv` that under
`optimizer_offload` a state is on the GPU in its own optimizer's updates only, `EngineInv` what is
awake, `GradsInv` that the gradients of a mini-batch that has begun are its passes so far, and
`MomentsInv` that a checkpoint holds moments and weights of the same steps.  Where the parameters
are is needed for the states (a first step and a restore put a state beside them), and where the
states are is needed for the room of the KV cache.

`SeqlenBalancingProofs`, about the pure modules, without an assumption on constants: lengths are at
least 1, and there is a row for every part.

* `BalancedPartitionsCorrect`: every state of the heap holds disjoint sets whose rows it lists once,
  the largest first, with a spread of at most `d` and equal sizes where asked for (`GoodState`);
  merging the largest with the smallest keeps that (`MergedGood`), so does a round of the loop
  (`MergeTwoGood`), and the state that is left holds all rows (`KarmarkarKarpIs`).  `d` is any bound on
  a row, or with equal sizes on the difference of two (`SpreadBound`).  A set of a state is empty only
  when none of the others has more than one row (`Fair`): with all rows in one state there would be
  fewer rows than parts.
* `MicroBatchesCorrect`: the order by workload is a strict one (`WorkNat`), so sorting keeps the parts.
  `restore_dynamic_batch` undoes them (`RestoreIs`).
* Lemmas that other proofs use: what sorting returns (`InOrderLists`) and flattening
  (`FlattenLists`, `FlatBlocks`), what `split`, `chunk` and unpadding cut (`SplitIs`, `ChunkIs`,
  `UnpadIs`).
* `MicroBatchesFit`: when the tokens fit on average, no micro-batch exceeds the limit by more than the
  longest row, or whatever `d` bounds the rows.

`WorkerCallProofs`, from `WorkerCallAssumption`:

* `RanksInStepCorrect` from `LockInv`: at any time all ranks are done, or on their way to one and the
  same operation (`LockStep`), with the same stage, epoch, number of mini-batches left, and from the
  reduction on the same number of micro-batches, whatever each has in its own.  That chunks are of
  equal length is what makes the mini-batches as many everywhere (`ChunkLen`, `SameEpochs`); for GRPO
  it needs that the balanced order has as many rows as the batch (`BalancedIs`).
* `ReturnedInOrderCorrect` and `PartsBalancedCorrect` from `DataInv`, on top of it.  The batch lists
  every row once (`BatchInv`); a rank holds the block of it that is its own (`RowsInv`), has the last
  of the mini-batches left (`MinisInv`), enough micro-batches for its tokens (`CountInv`) which are
  those of its mini-batch (`PlanInv`), the results of the rows it has seen (`ResultsInv`) and the
  scores of the mini-batches behind it, in order again (`ScoresInv`).  Joined in the order of the
  ranks, or of one rank of each group that generates together, the blocks are the batch
  (`AnswersJoin`).
* `TrainsOnItsBatchCorrect` from `TrainInv`, on top of both: the gradient is the rows of the
  micro-batches seen since it was cleared (`GradientInv`), and a row was trained once for each epoch
  behind and once more when its mini-batch is behind in this one (`TrainedInv`).  No two ranks hold
  the same row (`RowOfOneRank`).
* `ComparedWithinPromptCorrect` from `AdvantageInv`, under `~UseRloo`, without which it is false, and
  `AllTogether`: in the batch of a REAL update the responses to a prompt follow each other, as many for
  every prompt, and no prompt is cut by the boundary between two ranks.  The driver repeats every prompt
  `n` times, interleaved, and buffers whole groups, so a batch has the first; the second holds when
  the rows of a rank are a multiple of `n`, and all jobs of `MCWorkerCall` have both.  The scores are in the
  order of the prompts, the groups in that of the batch; the theorem holds because sorting blocks of
  `n` equal uids by uid puts blocks of `n` where there were blocks of `n` (`SortedGroups`).  With
  groups of different sizes it would not, and rows would be compared across prompts.

`AgentLoopProofs`, from `AgentLoopAssumption`:

* `AnswersFromLatestWeightsCorrect`, under `FreeCacheEngine`, without which it is false: `ServersInv`
  follows each server through waking and sleeping, and what its prefix cache may hold.
* `EndsWithAnswerCorrect` from `TurnInv`: a loop that goes on has room in its response, and whenever
  its tools are called, or it is over, the model has had the last word; so a request is refused only
  if prompt and a whole response are longer than the model takes (`TooLong`).  `RaisedInv` keeps the
  prompt at fault when the batch has raised.  Prompts and `max_model_len` are any positive numbers.
* `StaysOnServerCorrect` from `CacheInv` and `SessionInv`: the entries of the batch are a suffix of
  the cache.  A row that enters pushes out the first entry; were this one of the present batch, the
  cache would hold as many rows as the worker has beside the one that enters.

`ActivationOffloadProofs`, from `OffloadAssumption`:

* `BackwardReadsOwnCorrect` and `AtMostTwoGroupsCorrect` from one invariant, which has a part for the
  host, for the blocks, and for each of the streams.  `HostInv` says where each group is by the
  number of groups committed in the forward pass or reached in the backward pass; `HeldInv` which
  groups have a block, and that no two share one; `StreamInv` in which order the work still in the
  streams was issued, and which events it waits for; `DoneInv` what the GPU has carried out of it.
  The last two are needed because the host runs ahead: a block that it gives away may still be read
  by a copy or a kernel, and only the order of the streams keeps the new owner's write behind it.

Every safety property of a passing run is proved.  Only model-checked are the liveness properties
`Terminates` (of `OneStepOff`), `SaveEnds` and `BatchReturns`: fairness and `ENABLED` are out of the
prover's reach.  Induction over a formula is, too; where the proofs need it, for what flattening and the
rounds of the heap compute, it is over a set of natural numbers (`Induct`, from the well-foundedness
of `<`), and the recursion is a recursive function whose existence and uniqueness are proved
(`FlattensExists`, `FlattensUnique`, `RoundsExist`).

## Plan

In this order, the most important first; done are A to G.

* A `RealDapo`: the loop.  B `CkptManager` over `CkptStore`: the checkpoints it relies on.
  C `OneStepOff`: the overlapped trainer.  D `WorkerOffload`: who is on the GPU.
* E `ActivationOffload`: the streams.  F `AgentLoop`: servers, sessions and tools.
  G `SeqlenBalancing`, `DataProto`, `WorkerCall`: what a call does to a batch.
* H exceptions that one rank of a worker meets alone, in `WorkerCall`; the copy of the model to
  `/dev/shm` by several ranks; the sandbox client.
* An abstract `CheckpointedLearner` that both trainers implement: what a lineage may contain.

## Not modelled

* The repository is a copy of verl, and most of its lines are alternatives that a REAL run does not
  reach: SGLang rollout, Megatron workers, the other recipes, SFT, the model merger.  They share the
  dispatch and the checkpoints modelled here, and have loops of their own.
* Kernels, losses, rewards, models and tokenisation: numbers and text, without control to check.
* Ray itself: calls arrive once and in order, and a dead worker ends the job.
* The standalone REAL trainer and the DAPO trainer: `RealDapo` is both in one, with the switches that
  choose between them.
* Copying the model into shared memory, the sandbox client, the start-up of worker groups and of the
  servers: see H.
