----------------------------- MODULE CkptManager -----------------------------
(***************************************************************************)
(* Saving and resuming a checkpoint: the driver's _save_checkpoint and     *)
(* _load_checkpoint (verl/trainer/ppo/ray_trainer.py), the workers'        *)
(* save_checkpoint and load_checkpoint (verl/workers/fsdp_workers.py) and  *)
(* the FSDPCheckpointManager every rank runs (verl/utils/checkpoint).      *)
(*                                                                         *)
(* A save is a distributed procedure: all ranks write their shards, with   *)
(* barriers between the phases, rank 0 rotates old checkpoints, and the    *)
(* driver waits for all ranks before it goes on to the critic, the         *)
(* dataloader state and the tracker file.  The job may be killed between   *)
(* any two steps of any process, and in the middle of a file.              *)
(*                                                                         *)
(* A file is known by the start of the job that wrote it: Absent, Torn     *)
(* (begun, not finished) or the number of that start.  Training between    *)
(* two saves is one step; the number of a save stands for global_steps.    *)
(***************************************************************************)
EXTENDS Integers, Sequences, FiniteSets

CONSTANTS
  WorldSize,      \* ranks of the actor group; the critic group has as many
  UseCritic,      \* self.use_critic
  UseRealOptim,   \* config.real_actor.optim is set
  MaxToKeep,      \* max_actor_ckpt_to_keep, max_critic_ckpt_to_keep; 0 for None
  DelLocal,       \* del_local_ckpt_after_load
  MaxStep, MaxStarts, MaxSaveFailures   \* bounds of the model

Ranks == 0..(WorldSize - 1)
Steps == 1..MaxStep
Components == {"actor", "critic"}

ASSUME CkptAssumption ==
  /\ {WorldSize, MaxStep, MaxStarts} \subseteq Nat \ {0}
  /\ MaxSaveFailures \in Nat
  /\ {UseCritic, UseRealOptim, DelLocal} \subseteq BOOLEAN
  /\ MaxToKeep \in [Components -> Nat]

Absent == 0
Torn == -1
Contents == {Absent, Torn} \cup (1..MaxStarts)

NoTracker == 0      \* latest_checkpointed_iteration.txt does not exist
EmptyTracker == -1  \* it exists and is empty

VARIABLES
  driver,     \* phase of the driver
  component,  \* whose save_checkpoint is running
  rank,       \* phase of every rank within save_checkpoint
  step,       \* global_steps, in saves
  previous,   \* rank 0's previous_saved_paths, by component
  starts,     \* starts of the job so far
  shard,      \* per component, step and rank: its model, optim and extra files
  realOptim,  \* per step and rank: the REAL optimizer's files
  dirs,       \* steps whose global_step folder exists
  data,       \* per step: data.pt
  tracker,
  memory,     \* per rank: the save its weights came from, as <<step, start>>
  realMemory, \* per rank: the save its REAL optimizer came from
  loader,     \* the save the dataloader's position came from
  completed,  \* the newest step whose save has finished
  failures    \* failed writes of a REAL optimizer so far

jobVars == <<driver, component, rank, step, previous, starts>>
diskVars == <<shard, realOptim, dirs, data, tracker>>
memVars == <<memory, realMemory, loader>>
vars == <<jobVars, diskVars, memVars, completed, failures>>

Fresh == <<0, 0>>
Phases == {"idle", "prepare", "barrier1", "write", "writing", "barrier2", "real", "return"}
DriverPhases == {"down", "failed", "train", "saving", "data", "dumping", "truncate", "name"}

Everyone(phase) == [r \in Ranks |-> phase]

Init ==
  /\ driver = "down" /\ component = "actor" /\ rank = Everyone("idle")
  /\ step = 0 /\ starts = 0 /\ previous = [c \in Components |-> <<>>]
  /\ shard = [c \in Components |-> [s \in Steps |-> [r \in Ranks |-> Absent]]]
  /\ realOptim = [s \in Steps |-> [r \in Ranks |-> Absent]]
  /\ dirs = {} /\ data = [s \in Steps |-> Absent] /\ tracker = NoTracker
  /\ memory = Everyone(Fresh) /\ realMemory = Everyone(Fresh)
  /\ loader = Fresh
  /\ completed = 0 /\ failures = 0
-----------------------------------------------------------------------------
(* Start of the job: _load_checkpoint with resume_mode "auto" *)

Boot ==
  /\ driver = "down" /\ starts < MaxStarts
  /\ starts' = starts + 1
  /\ rank' = Everyone("idle") /\ component' = "actor"
  /\ previous' = [c \in Components |-> <<>>]

\* Mutant: an unreadable tracker counts as no checkpoint.
NoCheckpointOrUnreadable == tracker \notin dirs

\* find_latest_ckpt_path returns None: no tracker, or no such folder.
NoCheckpoint == tracker \notin dirs \cup {EmptyTracker}

StartFromScratch ==
  /\ Boot
  /\ NoCheckpoint
  /\ driver' = "train" /\ step' = 0
  /\ memory' = Everyone(Fresh) /\ realMemory' = Everyone(Fresh) /\ loader' = Fresh
  /\ UNCHANGED <<diskVars, completed, failures>>

Whole(file) == file \notin {Absent, Torn}

\* torch.load succeeds on every shard of the actor and of the critic; data.pt
\* may be missing but not partial.
Loadable(s) ==
  /\ \A r \in Ranks : Whole(shard["actor"][s][r])
  /\ UseCritic => \A r \in Ranks : Whole(shard["critic"][s][r])
  /\ data[s] # Torn

HasRealOptim(s, r) == UseRealOptim /\ Whole(realOptim[s][r])

\* Mutant: the REAL optimizer's files are removed whatever the flag says.
RealOptimAlwaysRemoved(s) ==
  [realOptim EXCEPT ![s] = [r \in Ranks |-> IF HasRealOptim(s, r) THEN Absent ELSE @[r]]]

\* With del_local_after_load the workers remove the REAL optimizer's files they
\* have loaded; they are the checkpoint itself, not a copy of it.
RealOptimAfterLoad(s) ==
  [realOptim EXCEPT ![s] =
     [r \in Ranks |-> IF DelLocal /\ HasRealOptim(s, r) THEN Absent ELSE @[r]]]

\* Every rank loads its shard; a REAL optimizer that is missing or cannot be
\* read is left as it was created.
Resume ==
  /\ Boot
  /\ tracker \in dirs /\ Loadable(tracker)
  /\ driver' = "train" /\ step' = tracker
  /\ memory' = [r \in Ranks |-> <<tracker, shard["actor"][tracker][r]>>]
  /\ realMemory' = [r \in Ranks |->
       IF HasRealOptim(tracker, r) THEN <<tracker, realOptim[tracker][r]>> ELSE Fresh]
  /\ loader' = IF data[tracker] = Absent THEN Fresh ELSE <<tracker, data[tracker]>>
  /\ realOptim' = RealOptimAfterLoad(tracker)
  /\ UNCHANGED <<shard, dirs, data, tracker, completed, failures>>

\* int() of an empty tracker, or torch.load of a missing or partial file,
\* raises: the job does not come up, this time or any other.
ResumeRaises ==
  /\ Boot
  /\ tracker \in dirs \cup {EmptyTracker}
  /\ tracker \in dirs => ~Loadable(tracker)
  /\ driver' = "failed"
  /\ UNCHANGED <<step, diskVars, memVars, completed, failures>>

\* The job is killed.
Crash ==
  /\ driver \notin {"down", "failed"} /\ starts < MaxStarts
  /\ driver' = "down"
  /\ UNCHANGED <<component, rank, step, previous, starts, diskVars, memVars, completed, failures>>
-----------------------------------------------------------------------------
(* The ranks within save_checkpoint *)

\* The driver trains up to the next save and calls all ranks of the actor.
BeginSave ==
  /\ driver = "train" /\ step < MaxStep
  /\ step' = step + 1
  /\ driver' = "saving" /\ component' = "actor" /\ rank' = Everyone("prepare")
  /\ UNCHANGED <<previous, starts, diskVars, memVars, completed, failures>>

\* Mutant: one path too many is removed.
RemovedOneMore(c) == Len(previous[c]) - MaxToKeep[c] + 2

\* Mutant: one path too few is removed.
RemovedOneLess(c) == Len(previous[c]) - MaxToKeep[c]

\* keep_start: how many of the remembered paths are removed.
KeepStart(c) == Len(previous[c]) - MaxToKeep[c] + 1

\* Rank 0 first removes the component folders of all but the newest keep - 1 of
\* the paths it remembers.
Rotated(c) ==
  LET paths == previous[c]
  IN  IF MaxToKeep[c] > 0 /\ Len(paths) >= MaxToKeep[c]
      THEN [gone |-> {paths[i] : i \in 1..KeepStart(c)},
            left |-> SubSeq(paths, KeepStart(c) + 1, Len(paths))]
      ELSE [gone |-> {}, left |-> paths]

Prepare(r) ==
  /\ driver = "saving" /\ rank[r] = "prepare"
  /\ rank' = [rank EXCEPT ![r] = "barrier1"]
  /\ dirs' = dirs \cup {step}
  /\ IF r = 0
     THEN LET rotated == Rotated(component)
          IN  /\ previous' = [previous EXCEPT ![component] = rotated.left]
              /\ shard' = [shard EXCEPT ![component] =
                   [s \in Steps |-> IF s \in rotated.gone THEN Everyone(Absent) ELSE @[s]]]
              /\ realOptim' = IF component = "actor"
                   THEN [s \in Steps |->
                           IF s \in rotated.gone THEN Everyone(Absent) ELSE realOptim[s]]
                   ELSE realOptim
     ELSE UNCHANGED <<previous, shard, realOptim>>
  /\ UNCHANGED <<driver, component, step, starts, data, tracker, memVars, completed, failures>>

\* torch.distributed.barrier().
Barrier1 ==
  /\ driver = "saving" /\ rank = Everyone("barrier1")
  /\ rank' = Everyone("write")
  /\ UNCHANGED <<driver, component, step, previous, starts, diskVars, memVars, completed, failures>>

Write(r) ==
  /\ driver = "saving"
  /\ \/ /\ rank[r] = "write"
        /\ rank' = [rank EXCEPT ![r] = "writing"]
        /\ shard' = [shard EXCEPT ![component][step][r] = Torn]
     \/ /\ rank[r] = "writing"
        /\ rank' = [rank EXCEPT ![r] = "barrier2"]
        /\ shard' = [shard EXCEPT ![component][step][r] = starts]
  /\ UNCHANGED <<driver, component, step, previous, starts, realOptim, dirs, data, tracker,
                 memVars, completed, failures>>

\* self.previous_saved_paths.append(local_path).
Remembers(c) == Append(previous[c], step)

\* Mutant: only rank 0 is waited for.
RankZeroDumped == rank[0] = "barrier2"

AllDumped == rank = Everyone("barrier2")

\* "wait for everyone to dump to local"; the path is remembered, and for the
\* actor the workers pass one more barrier before the REAL optimizer.
Barrier2 ==
  /\ driver = "saving" /\ AllDumped
  /\ rank' = Everyone(IF component = "actor" /\ UseRealOptim THEN "real" ELSE "return")
  /\ previous' = [previous EXCEPT ![component] = Remembers(component)]
  /\ UNCHANGED <<driver, component, step, starts, diskVars, memVars, completed, failures>>

\* A failed write of the REAL optimizer is logged and swallowed; it leaves the
\* file as it was or partial.  A write that succeeds is one step: nothing reads
\* the file before the tracker names the save.
WriteReal(r) ==
  /\ driver = "saving" /\ rank[r] = "real"
  /\ rank' = [rank EXCEPT ![r] = "return"]
  /\ \/ /\ realOptim' = [realOptim EXCEPT ![step][r] = starts]
        /\ UNCHANGED failures
     \/ /\ failures < MaxSaveFailures
        /\ failures' = failures + 1
        /\ realOptim' \in {realOptim, [realOptim EXCEPT ![step][r] = Torn]}
  /\ UNCHANGED <<driver, component, step, previous, starts, shard, dirs, data, tracker,
                 memVars, completed>>
-----------------------------------------------------------------------------
(* The driver, once all ranks have returned *)

Returned ==
  /\ driver = "saving" /\ rank = Everyone("return")
  /\ IF component = "actor" /\ UseCritic
     THEN component' = "critic" /\ rank' = Everyone("prepare") /\ UNCHANGED driver
     ELSE driver' = "data" /\ rank' = Everyone("idle") /\ UNCHANGED component
  /\ UNCHANGED <<step, previous, starts, diskVars, memVars, completed, failures>>

SaveData ==
  /\ \/ /\ driver = "data"
        /\ driver' = "dumping"
        /\ data' = [data EXCEPT ![step] = Torn]
     \/ /\ driver = "dumping"
        /\ driver' = "truncate"
        /\ data' = [data EXCEPT ![step] = starts]
  /\ UNCHANGED <<component, rank, step, previous, starts, shard, realOptim, dirs, tracker,
                 memVars, completed, failures>>

\* open(..., "w") empties the tracker, f.write fills it.
TruncateTracker ==
  /\ driver = "truncate"
  /\ driver' = "name"
  /\ tracker' = EmptyTracker
  /\ UNCHANGED <<component, rank, step, previous, starts, shard, realOptim, dirs, data,
                 memVars, completed, failures>>

WriteTracker ==
  /\ driver = "name"
  /\ driver' = "train"
  /\ tracker' = step
  /\ completed' = step
  /\ UNCHANGED <<component, rank, step, previous, starts, shard, realOptim, dirs, data,
                 memVars, failures>>

\* Mutant: only rank 0 saves.
RankZeroStep(r) == r = 0 /\ (Prepare(r) \/ Write(r) \/ WriteReal(r))

RankStep(r) == Prepare(r) \/ Write(r) \/ WriteReal(r)

JobStep ==
  \/ StartFromScratch \/ Resume \/ ResumeRaises
  \/ BeginSave \/ Barrier1 \/ Barrier2 \/ Returned
  \/ SaveData \/ TruncateTracker \/ WriteTracker
  \/ \E r \in Ranks : RankStep(r)

Next == JobStep \/ Crash

Spec == Init /\ [][Next]_vars

\* Every process that is alive goes on: each rank on its own, the barriers and
\* the driver.
FairSpec ==
  /\ Spec
  /\ \A r \in Ranks : WF_vars(RankStep(r))
  /\ WF_vars(Barrier1 \/ Barrier2 \/ Returned \/ SaveData \/ TruncateTracker \/ WriteTracker)
-----------------------------------------------------------------------------
(* Properties *)

JobOK ==
  /\ driver \in DriverPhases /\ component \in Components /\ rank \in [Ranks -> Phases]
  /\ step \in 0..MaxStep /\ starts \in 0..MaxStarts
  /\ previous \in [Components -> Seq(Steps)]
  /\ completed \in 0..MaxStep /\ failures \in 0..MaxSaveFailures

FilesOK ==
  /\ shard \in [Components -> [Steps -> [Ranks -> Contents]]]
  /\ realOptim \in [Steps -> [Ranks -> Contents]]
  /\ dirs \subseteq Steps /\ data \in [Steps -> Contents]
  /\ tracker \in {NoTracker, EmptyTracker} \cup Steps

MemoryOK ==
  /\ memory \in [Ranks -> (0..MaxStep) \X Contents]
  /\ realMemory \in [Ranks -> (0..MaxStep) \X Contents]
  /\ loader \in (0..MaxStep) \X Contents

TypeOK == JobOK /\ FilesOK /\ MemoryOK

\* What the tracker names can be loaded: every rank finds a whole shard, and all
\* of them, the critic's and the dataloader state stem from one save.  This is
\* what resume_mode "auto" relies on after the job was killed at any point.
TrackedIsLoadable ==
  tracker \in Steps =>
    /\ tracker \in dirs
    /\ data[tracker] \in 1..MaxStarts
    /\ \A r \in Ranks :
         /\ shard["actor"][tracker][r] = data[tracker]
         /\ UseCritic => shard["critic"][tracker][r] = data[tracker]

\* All ranks and the dataloader continue from one and the same save, and unless
\* a write has failed the REAL optimizer belongs to it too.
LoadedTogether ==
  driver = "train" =>
    \A r \in Ranks :
      /\ memory[r] = loader
      /\ failures = 0 /\ UseRealOptim => realMemory[r] = loader

\* A restarted job that comes up continues from the newest save that finished,
\* never from an older one and never silently from scratch.
ResumesNewest ==
  [][driver = "down" /\ driver' = "train" => step' = completed]_vars

\* max_ckpt_to_keep bounds what one start keeps, not what is on disk: rank 0
\* remembers only the paths of its own process.  A start never has more than
\* max_ckpt_to_keep checkpoints of a component of its own, its rotation removes
\* none that an earlier start has left, and each start may add as many again.
OnDisk(c) == {s \in Steps : \E r \in Ranks : shard[c][s][r] # Absent}
OwnOnDisk(c) ==
  {s \in Steps : \E r \in Ranks : Whole(shard[c][s][r]) /\ shard[c][s][r] = starts}
EarlierLeft(c) ==
  \A s \in Steps, r \in Ranks : shard[c][s][r] \in 1..(starts - 1) => shard'[c][s][r] # Absent
KeptPerStart ==
  [][\A c \in Components : MaxToKeep[c] > 0 =>
       /\ Cardinality(OwnOnDisk(c))' <= MaxToKeep[c]
       /\ Cardinality(OnDisk(c))' <= starts' * MaxToKeep[c]
       /\ EarlierLeft(c)]_vars

\* Seen from outside, a save is atomic: all the files, ranks and barriers
\* amount to the store of CkptStore, whose content is withdrawn and published
\* by the two writes of the tracker.
Lost == -2
StoreContent ==
  IF tracker \in Steps /\ ~(tracker \in dirs /\ Loadable(tracker)) THEN Lost ELSE tracker
JobState == IF driver \in {"down", "failed"} THEN driver ELSE "up"
Store == INSTANCE CkptStore WITH
           Unreadable <- EmptyTracker, job <- JobState, newest <- StoreContent
ImplementsStore == Store!Spec

\* A save that has begun ends, with the tracker on it, unless the job is killed:
\* no rank waits for ever at a barrier.
SaveEnds ==
  \A s \in Steps : (driver = "saving" /\ step = s) ~> (driver = "down" \/ tracker = s)
=============================================================================
