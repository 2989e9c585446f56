-------------------------- MODULE CkptManagerProofs --------------------------
(***************************************************************************)
(* Proofs about CkptManager, for any number of ranks, saves and starts:    *)
(* type correctness; that what the tracker names is whole and can be       *)
(* loaded (unless only one checkpoint is kept), that a job resumes from    *)
(* the newest finished save, and that CkptManager implements CkptStore;    *)
(* that all ranks, the dataloader and the REAL optimizer continue from one *)
(* save; and how many checkpoints a start of the job leaves behind.        *)
(***************************************************************************)
EXTENDS CkptManager, FiniteSetTheorems, TLAPS

-----------------------------------------------------------------------------
(* Constants and paths *)

LEMMA CkptConfig ==
  /\ WorldSize \in Nat \ {0} /\ MaxStep \in Nat \ {0} /\ MaxStarts \in Nat \ {0}
  /\ MaxSaveFailures \in Nat
  /\ MaxToKeep["actor"] \in Nat /\ MaxToKeep["critic"] \in Nat
  /\ 0 \in Ranks /\ Steps \subseteq Nat /\ Ranks \subseteq Nat
BY CkptAssumption DEF CkptAssumption, Ranks, Steps, Components

\* What is left of a list of paths, and what is gone, are parts of it.
LEMMA RotatedType ==
  ASSUME NEW c \in Components, previous \in [Components -> Seq(Steps)]
  PROVE  Rotated(c).left \in Seq(Steps) /\ Rotated(c).gone \subseteq Steps
<1> DEFINE paths == previous[c]
<1>1. paths \in Seq(Steps) /\ MaxToKeep[c] \in Nat /\ Len(paths) \in Nat
  BY CkptConfig DEF Components
<1>2. CASE MaxToKeep[c] > 0 /\ Len(paths) >= MaxToKeep[c]
  <2>1. KeepStart(c) \in 1..Len(paths)
    BY <1>1, <1>2 DEF KeepStart
  <2>2. /\ Rotated(c).gone = {paths[i] : i \in 1..KeepStart(c)}
        /\ Rotated(c).left = SubSeq(paths, KeepStart(c) + 1, Len(paths))
    BY <1>2 DEF Rotated
  <2>3. \A i \in 1..KeepStart(c) : paths[i] \in Steps
    BY <1>1, <2>1
  <2>4. SubSeq(paths, KeepStart(c) + 1, Len(paths)) \in Seq(Steps)
    BY <1>1, <2>1
  <2> QED BY <2>2, <2>3, <2>4
<1>3. CASE ~(MaxToKeep[c] > 0 /\ Len(paths) >= MaxToKeep[c])
  BY <1>1, <1>3 DEF Rotated
<1> QED BY <1>2, <1>3

-----------------------------------------------------------------------------
(* Type correctness *)

\* Only an up and running driver saves, so a save has a number.
TypeInv ==
  /\ TypeOK
  /\ driver \notin {"down", "failed", "train"} => step \in Steps
  /\ driver \notin {"down"} => starts \in 1..MaxStarts

LEMMA ContentsType ==
  /\ Absent \in Contents /\ Torn \in Contents /\ Fresh \in (0..MaxStep) \X Contents
  /\ \A s \in 1..MaxStarts : s \in Contents
BY CkptConfig DEF Contents, Absent, Torn, Fresh

LEMMA EveryoneType ==
  /\ \A p \in Phases : Everyone(p) \in [Ranks -> Phases]
  /\ Everyone(Absent) \in [Ranks -> Contents]
  /\ Everyone(Fresh) \in [Ranks -> (0..MaxStep) \X Contents]
BY ContentsType DEF Everyone

LEMMA TypeInit == Init => TypeInv
<1> SUFFICES ASSUME Init PROVE TypeInv
  OBVIOUS
<1>1. JobOK
  BY CkptConfig, EveryoneType DEF Init, JobOK, DriverPhases, Components, Phases
<1>2. FilesOK
  BY ContentsType DEF Init, FilesOK, NoTracker
<1>3. MemoryOK
  BY ContentsType, EveryoneType DEF Init, MemoryOK
<1> QED BY <1>1, <1>2, <1>3 DEF TypeInv, TypeOK, Init

LEMMA TypeBoot ==
  ASSUME TypeInv, Boot
  PROVE  /\ starts' \in 1..MaxStarts /\ rank' \in [Ranks -> Phases]
         /\ component' \in Components /\ previous' \in [Components -> Seq(Steps)]
BY EveryoneType, CkptConfig DEF TypeInv, TypeOK, Boot, Phases, Components, JobOK, FilesOK, MemoryOK

LEMMA TypeStartFromScratch == TypeInv /\ StartFromScratch => TypeInv'
<1> SUFFICES ASSUME TypeInv, StartFromScratch PROVE TypeInv'
  OBVIOUS
<1>1. JobOK'
  BY TypeBoot, CkptConfig, SMTT(30) DEF StartFromScratch, TypeInv, TypeOK, JobOK, DriverPhases, FilesOK, MemoryOK
<1>2. FilesOK'
  BY DEF StartFromScratch, TypeInv, TypeOK, FilesOK, diskVars, JobOK, MemoryOK
<1>3. MemoryOK'
  BY ContentsType, EveryoneType DEF StartFromScratch, MemoryOK
<1> QED BY <1>1, <1>2, <1>3, TypeBoot DEF TypeInv, TypeOK, StartFromScratch

LEMMA TypeResume == TypeInv /\ Resume => TypeInv'
<1> SUFFICES ASSUME TypeInv, Resume PROVE TypeInv'
  OBVIOUS
<1>1. tracker \in Steps /\ FilesOK
  BY DEF Resume, TypeInv, TypeOK, FilesOK, JobOK, MemoryOK
<1>2. JobOK'
  BY <1>1, TypeBoot, CkptConfig, SMTT(30) DEF Resume, TypeInv, TypeOK, JobOK, DriverPhases, Steps, FilesOK, MemoryOK
<1>3. FilesOK'
  <2>1. realOptim' \in [Steps -> [Ranks -> Contents]]
    <3>1. \A r \in Ranks :
            (IF DelLocal /\ HasRealOptim(tracker, r) THEN Absent ELSE realOptim[tracker][r])
              \in Contents
      BY <1>1, ContentsType DEF FilesOK
    <3>2. realOptim' = [realOptim EXCEPT ![tracker] =
            [r \in Ranks |->
               IF DelLocal /\ HasRealOptim(tracker, r) THEN Absent ELSE realOptim[tracker][r]]]
      BY DEF Resume, RealOptimAfterLoad
    <3> QED BY <1>1, <3>1, <3>2 DEF FilesOK
  <2> QED BY <1>1, <2>1 DEF Resume, FilesOK
<1>4. MemoryOK'
  <2>1. tracker \in 0..MaxStep
    BY <1>1, CkptConfig DEF Steps
  <2>2. memory' \in [Ranks -> (0..MaxStep) \X Contents]
    <3>1. \A r \in Ranks : shard["actor"][tracker][r] \in Contents
      BY <1>1 DEF FilesOK, Components
    <3>2. \A r \in Ranks : <<tracker, shard["actor"][tracker][r]>> \in (0..MaxStep) \X Contents
      BY <2>1, <3>1
    <3> QED BY <3>2 DEF Resume
  <2>3. realMemory' \in [Ranks -> (0..MaxStep) \X Contents]
    BY <1>1, <2>1, ContentsType DEF Resume, FilesOK
  <2>4. loader' \in (0..MaxStep) \X Contents
    BY <1>1, <2>1, ContentsType DEF Resume, FilesOK
  <2> QED BY <2>2, <2>3, <2>4 DEF MemoryOK
<1> QED BY <1>2, <1>3, <1>4, TypeBoot DEF TypeInv, TypeOK, Resume

LEMMA TypeResumeRaises == TypeInv /\ ResumeRaises => TypeInv'
<1> SUFFICES ASSUME TypeInv, ResumeRaises PROVE TypeInv'
  OBVIOUS
<1>1. JobOK'
  BY TypeBoot, CkptConfig, SMTT(30) DEF ResumeRaises, TypeInv, TypeOK, JobOK, DriverPhases, FilesOK, MemoryOK
<1>2. FilesOK' /\ MemoryOK'
  BY DEF ResumeRaises, TypeInv, TypeOK, FilesOK, MemoryOK, diskVars, memVars, JobOK
<1> QED BY <1>1, <1>2, TypeBoot DEF TypeInv, TypeOK, ResumeRaises

\* The driver's steps that change no file.
LEMMA TypeDriver == TypeInv /\ (Crash \/ BeginSave \/ Barrier1 \/ Returned) => TypeInv'
<1>1. ASSUME TypeInv, Crash PROVE TypeInv'
  BY <1>1 DEF TypeInv, TypeOK, Crash, DriverPhases, diskVars, memVars, JobOK, FilesOK, MemoryOK
<1>2. ASSUME TypeInv, BeginSave PROVE TypeInv'
  <2>1. step' \in Steps /\ rank' \in [Ranks -> Phases] /\ component' \in Components
    BY <1>2, EveryoneType, CkptConfig
    DEF TypeInv, TypeOK, BeginSave, Steps, Phases, Components, JobOK, FilesOK, MemoryOK
  <2>2. JobOK'
    BY <1>2, <2>1 DEF TypeInv, TypeOK, BeginSave, JobOK, DriverPhases, Steps, FilesOK, MemoryOK
  <2>3. FilesOK' /\ MemoryOK'
    BY <1>2 DEF TypeInv, TypeOK, BeginSave, FilesOK, MemoryOK, diskVars, memVars, JobOK
  <2> QED BY <1>2, <2>1, <2>2, <2>3 DEF TypeInv, TypeOK, BeginSave
<1>3. ASSUME TypeInv, Barrier1 PROVE TypeInv'
  <2>1. rank' \in [Ranks -> Phases]
    BY <1>3, EveryoneType DEF Barrier1, Phases
  <2>2. JobOK' /\ FilesOK' /\ MemoryOK'
    BY <1>3, <2>1 DEF TypeInv, TypeOK, Barrier1, JobOK, FilesOK, MemoryOK, diskVars, memVars
  <2> QED BY <1>3, <2>2 DEF TypeInv, TypeOK, Barrier1
<1>4. ASSUME TypeInv, Returned PROVE TypeInv'
  <2>1. rank' \in [Ranks -> Phases] /\ component' \in Components /\ driver' \in {"saving", "data"}
    BY <1>4, EveryoneType DEF Returned, Phases, Components, TypeInv, TypeOK, JobOK, FilesOK, MemoryOK
  <2>2. JobOK'
    BY <1>4, <2>1 DEF TypeInv, TypeOK, Returned, JobOK, DriverPhases, FilesOK, MemoryOK
  <2>3. FilesOK' /\ MemoryOK'
    BY <1>4 DEF TypeInv, TypeOK, Returned, FilesOK, MemoryOK, diskVars, memVars, JobOK
  <2> QED BY <1>4, <2>1, <2>2, <2>3 DEF TypeInv, TypeOK, Returned
<1> QED BY <1>1, <1>2, <1>3, <1>4

\* A save of some kind ends with the rest of the state typed.
LEMMA TypePrepare == ASSUME TypeInv, NEW r \in Ranks, Prepare(r) PROVE TypeInv'
<1>1. step \in Steps /\ driver = "saving" /\ driver' = driver
  BY DEF Prepare, TypeInv
<1>2. /\ rank' \in [Ranks -> Phases] /\ dirs' \subseteq Steps
  BY <1>1 DEF Prepare, TypeInv, TypeOK, Phases, JobOK, FilesOK, MemoryOK
<1>3. /\ previous' \in [Components -> Seq(Steps)]
      /\ shard' \in [Components -> [Steps -> [Ranks -> Contents]]]
      /\ realOptim' \in [Steps -> [Ranks -> Contents]]
  <2>1. CASE r # 0
    BY <2>1 DEF Prepare, TypeInv, TypeOK, JobOK, FilesOK, MemoryOK
  <2>2. CASE r = 0
    <3> DEFINE rotated == Rotated(component)
               cleared == [s \in Steps |-> IF s \in rotated.gone THEN Everyone(Absent)
                                           ELSE shard[component][s]]
               clearedReal == [s \in Steps |-> IF s \in rotated.gone THEN Everyone(Absent)
                                               ELSE realOptim[s]]
    <3>1. component \in Components /\ rotated.left \in Seq(Steps)
      BY RotatedType DEF TypeInv, TypeOK, JobOK, FilesOK, MemoryOK
    <3>2. /\ previous' = [previous EXCEPT ![component] = rotated.left]
          /\ shard' = [shard EXCEPT ![component] = cleared]
          /\ realOptim' \in {realOptim, clearedReal}
      BY <2>2 DEF Prepare
    <3>3. /\ cleared \in [Steps -> [Ranks -> Contents]]
          /\ clearedReal \in [Steps -> [Ranks -> Contents]]
      BY <3>1, EveryoneType DEF TypeInv, TypeOK, JobOK, FilesOK, MemoryOK
    <3> HIDE DEF rotated, cleared, clearedReal
    <3> QED BY <3>1, <3>2, <3>3 DEF TypeInv, TypeOK, JobOK, FilesOK, MemoryOK
  <2> QED BY <2>1, <2>2
<1>4. JobOK' /\ FilesOK' /\ MemoryOK'
  BY <1>1, <1>2, <1>3 DEF Prepare, TypeInv, TypeOK, JobOK, FilesOK, MemoryOK, memVars
<1> QED BY <1>1, <1>4 DEF TypeInv, TypeOK, Prepare

LEMMA TypeWrite == ASSUME TypeInv, NEW r \in Ranks, Write(r) PROVE TypeInv'
<1>1. /\ step \in Steps /\ driver = "saving" /\ starts \in 1..MaxStarts
      /\ component \in Components
  BY DEF Write, TypeInv, TypeOK, JobOK, FilesOK, MemoryOK
<1>2. PICK phase \in Phases, content \in Contents :
        /\ rank' = [rank EXCEPT ![r] = phase]
        /\ shard' = [shard EXCEPT ![component][step][r] = content]
  BY <1>1, ContentsType DEF Write, Phases
<1>3. /\ rank' \in [Ranks -> Phases]
      /\ shard' \in [Components -> [Steps -> [Ranks -> Contents]]]
  BY <1>1, <1>2 DEF TypeInv, TypeOK, JobOK, FilesOK, MemoryOK
<1>4. JobOK' /\ FilesOK' /\ MemoryOK'
  BY <1>3 DEF Write, TypeInv, TypeOK, JobOK, FilesOK, MemoryOK, memVars
<1> QED BY <1>1, <1>4 DEF TypeInv, TypeOK, Write

LEMMA TypeBarrier2 == TypeInv /\ Barrier2 => TypeInv'
<1> SUFFICES ASSUME TypeInv, Barrier2 PROVE TypeInv'
  OBVIOUS
<1>1. step \in Steps /\ component \in Components
  BY DEF Barrier2, TypeInv, TypeOK, JobOK, FilesOK, MemoryOK
<1>2. rank' \in [Ranks -> Phases]
  BY EveryoneType DEF Barrier2, Phases
<1>3. previous' \in [Components -> Seq(Steps)]
  <2>1. Remembers(component) \in Seq(Steps)
    BY <1>1 DEF Remembers, TypeInv, TypeOK, JobOK, FilesOK, MemoryOK
  <2> QED BY <1>1, <2>1 DEF Barrier2, TypeInv, TypeOK, JobOK
<1>4. JobOK' /\ FilesOK' /\ MemoryOK'
  BY <1>2, <1>3 DEF Barrier2, TypeInv, TypeOK, JobOK, FilesOK, MemoryOK, diskVars, memVars
<1> QED BY <1>4 DEF TypeInv, TypeOK, Barrier2

LEMMA TypeWriteReal == ASSUME TypeInv, NEW r \in Ranks, WriteReal(r) PROVE TypeInv'
<1>1. step \in Steps /\ driver = "saving" /\ starts \in 1..MaxStarts
  BY DEF WriteReal, TypeInv, TypeOK, JobOK, FilesOK, MemoryOK
<1>2. rank' \in [Ranks -> Phases]
  BY DEF WriteReal, TypeInv, TypeOK, Phases, JobOK, FilesOK, MemoryOK
<1>3. failures' \in 0..MaxSaveFailures
  BY CkptConfig, SMTT(30) DEF WriteReal, TypeInv, TypeOK, JobOK, FilesOK, MemoryOK
<1>4. realOptim' \in [Steps -> [Ranks -> Contents]]
  <2>1. PICK content \in Contents : realOptim' \in {realOptim, [realOptim EXCEPT ![step][r] = content]}
    BY <1>1, ContentsType DEF WriteReal
  <2>2. realOptim \in [Steps -> [Ranks -> Contents]]
    BY DEF TypeInv, TypeOK, FilesOK
  <2>3. [realOptim EXCEPT ![step][r] = content] \in [Steps -> [Ranks -> Contents]]
    BY <1>1, <2>2
  <2> QED BY <2>1, <2>2, <2>3
<1>5. JobOK' /\ FilesOK' /\ MemoryOK'
  BY <1>2, <1>3, <1>4 DEF WriteReal, TypeInv, TypeOK, JobOK, FilesOK, MemoryOK, memVars
<1> QED BY <1>1, <1>5 DEF TypeInv, TypeOK, WriteReal

LEMMA TypeFinish == TypeInv /\ (SaveData \/ TruncateTracker \/ WriteTracker) => TypeInv'
<1>1. ASSUME TypeInv, SaveData PROVE TypeInv'
  <2>1. /\ step \in Steps /\ starts \in 1..MaxStarts /\ driver' \in {"dumping", "truncate"}
    BY <1>1 DEF SaveData, TypeInv
  <2>2. data' \in [Steps -> Contents]
    BY <1>1, <2>1, ContentsType DEF SaveData, TypeInv, TypeOK, JobOK, FilesOK, MemoryOK
  <2>3. JobOK' /\ FilesOK' /\ MemoryOK'
    BY <1>1, <2>1, <2>2
    DEF SaveData, TypeInv, TypeOK, JobOK, FilesOK, MemoryOK, memVars, DriverPhases
  <2> QED BY <1>1, <2>1, <2>3 DEF TypeInv, TypeOK, SaveData
<1>2. ASSUME TypeInv, TruncateTracker PROVE TypeInv'
  <2>1. JobOK' /\ FilesOK' /\ MemoryOK'
    BY <1>2
    DEF TruncateTracker, TypeInv, TypeOK, JobOK, FilesOK, MemoryOK, memVars, DriverPhases
  <2> QED BY <1>2, <2>1 DEF TypeInv, TypeOK, TruncateTracker
<1>3. ASSUME TypeInv, WriteTracker PROVE TypeInv'
  <2>1. JobOK' /\ FilesOK' /\ MemoryOK'
    BY <1>3
    DEF WriteTracker, TypeInv, TypeOK, JobOK, FilesOK, MemoryOK, memVars, DriverPhases
  <2> QED BY <1>3, <2>1 DEF TypeInv, TypeOK, WriteTracker
<1> QED BY <1>1, <1>2, <1>3

LEMMA TypeNext == TypeInv /\ [Next]_vars => TypeInv'
<1>1. ASSUME TypeInv, UNCHANGED vars PROVE TypeInv'
  BY <1>1 DEF vars, jobVars, diskVars, memVars, TypeInv, TypeOK, JobOK, FilesOK, MemoryOK
<1>2. ASSUME TypeInv, NEW r \in Ranks, RankStep(r) PROVE TypeInv'
  BY <1>2, TypePrepare, TypeWrite, TypeWriteReal DEF RankStep
<1> QED BY <1>1, <1>2, TypeStartFromScratch, TypeResume, TypeResumeRaises, TypeDriver,
           TypeBarrier2, TypeFinish DEF Next, JobStep

\* The state of the job, the files on disk and what was loaded keep their shape,
\* for any number of ranks, saves and starts.
THEOREM CkptTypeCorrect == Spec => []TypeOK
<1>1. TypeInv => TypeOK
  BY DEF TypeInv
<1> QED BY <1>1, TypeInit, TypeNext, PTL DEF Spec
-----------------------------------------------------------------------------
(* Safety: while a save is under way, and wherever it is cut off, the      *)
(* tracker still names the save before, whole.  The rotation cannot remove *)
(* that save if at least two are kept, because the paths a job remembers   *)
(* are in the order in which it wrote them.                                *)

\* max_ckpt_to_keep is not 1; a single kept checkpoint is removed before its
\* successor is written.
KeepsEnough == \A c \in Components : MaxToKeep[c] # 1

First == {"prepare", "barrier1"}
Middle == {"write", "writing", "barrier2"}
Last == {"real", "return"}
AfterRanks == {"data", "dumping", "truncate", "name"}
Saving == {"saving"} \cup AfterRanks

\* The barriers keep the ranks together.
RanksInv ==
  driver = "saving" =>
    \/ \A r \in Ranks : rank[r] \in First
    \/ \A r \in Ranks : rank[r] \in Middle
    \/ \A r \in Ranks : rank[r] \in Last

\* The tracker names the newest finished save: the one the job works from, or
\* the one before the save that is under way.
TrackerInv ==
  /\ tracker # EmptyTracker => tracker = completed
  /\ driver = "train" => tracker = step
  /\ driver \in Saving \ {"name"} => tracker = step - 1
  /\ driver = "name" => tracker = EmptyTracker /\ completed = step - 1

Increasing(paths) == \A i, j \in DOMAIN paths : i < j => paths[i] < paths[j]
Below(paths, s) == \A i \in DOMAIN paths : paths[i] < s

\* Components whose path of the present save has not been remembered yet.
Pending(c) ==
  /\ driver = "saving"
  /\ \/ component = c /\ \E r \in Ranks : rank[r] \notin Last
     \/ component = "actor" /\ c = "critic"

\* The paths a job remembers are those of its own saves, in order.
PathsInv ==
  \A c \in Components :
    /\ Increasing(previous[c]) /\ Below(previous[c], step + 1)
    /\ Pending(c) => Below(previous[c], step)

Dumped(c) == \A r \in Ranks : shard[c][step][r] = starts

\* Files of the present save, as far as it has come.
WrittenInv ==
  /\ driver = "saving" =>
       /\ \A r \in Ranks : rank[r] \in {"barrier2"} \cup Last => shard[component][step][r] = starts
       /\ component = "critic" => Dumped("actor")
       /\ component = "critic" \/ (\E r \in Ranks : rank[r] # "prepare") => step \in dirs
  /\ driver \in AfterRanks =>
       step \in dirs /\ Dumped("actor") /\ (UseCritic => Dumped("critic"))
  /\ driver \in {"truncate", "name"} => data[step] = starts

SafetyInv == RanksInv /\ TrackerInv /\ PathsInv /\ WrittenInv /\ TrackedIsLoadable

-----------------------------------------------------------------------------
(* Facts of use in several steps *)

LEMMA SaveTypes ==
  ASSUME TypeInv
  PROVE  /\ step \in Nat /\ step \in 0..MaxStep /\ MaxStep \in Nat /\ MaxStarts \in Nat
         /\ starts \in 0..MaxStarts
         /\ component \in Components /\ rank \in [Ranks -> Phases]
         /\ previous \in [Components -> Seq(Steps)] /\ Steps \subseteq Nat
         /\ (driver \in Saving => step \in Steps /\ starts \in 1..MaxStarts)
         /\ shard \in [Components -> [Steps -> [Ranks -> Contents]]]
         /\ data \in [Steps -> Contents] /\ dirs \subseteq Steps
         /\ tracker \in {NoTracker, EmptyTracker} \cup Steps
BY CkptConfig DEF TypeInv, TypeOK, JobOK, FilesOK, Saving, AfterRanks

LEMMA StepsNumbers ==
  /\ \A s \in Steps : s \in Nat /\ s > 0 /\ s # EmptyTracker /\ s # NoTracker
  /\ EmptyTracker = -1 /\ NoTracker = 0 /\ 0 \in Ranks
BY CkptConfig DEF Steps, EmptyTracker, NoTracker

\* Steps that leave the tracked save alone.
LEMMA TrackedKept ==
  ASSUME TrackedIsLoadable, tracker' = tracker,
         tracker \in Steps =>
           /\ tracker \in dirs => tracker \in dirs'
           /\ data'[tracker] = data[tracker]
           /\ \A r \in Ranks, c \in Components : shard'[c][tracker][r] = shard[c][tracker][r]
  PROVE  TrackedIsLoadable'
BY DEF TrackedIsLoadable, Components

\* Steps that leave the remembered paths alone.
LEMMA PathsKept ==
  ASSUME PathsInv, previous' = previous, step' = step,
         \A c \in Components : Pending(c)' => Pending(c)
  PROVE  PathsInv'
BY DEF PathsInv

\* Rotation with two or more checkpoints to keep spares the newest path, and the
\* paths it leaves are still in order.
LEMMA RotatedKeeps ==
  ASSUME KeepsEnough, TypeInv, NEW c \in Components, NEW s \in Steps,
         Increasing(previous[c]), Below(previous[c], s)
  PROVE  /\ \A gone \in Rotated(c).gone : gone < s - 1
         /\ Increasing(Rotated(c).left) /\ Below(Rotated(c).left, s)
<1> DEFINE paths == previous[c]
           k == KeepStart(c)
<1>1. /\ paths \in Seq(Steps) /\ MaxToKeep[c] \in Nat /\ MaxToKeep[c] # 1
      /\ Len(paths) \in Nat /\ s \in Nat /\ DOMAIN paths = 1..Len(paths)
      /\ \A i \in DOMAIN paths : paths[i] \in Nat
  <2>1. paths \in Seq(Steps)
    BY SaveTypes
  <2>2. MaxToKeep[c] \in Nat /\ MaxToKeep[c] # 1
    BY CkptConfig DEF KeepsEnough, Components
  <2>3. \A i \in DOMAIN paths : paths[i] \in Steps
    BY <2>1
  <2> HIDE DEF paths
  <2> QED BY <2>1, <2>2, <2>3, StepsNumbers
<1>2. CASE MaxToKeep[c] > 0 /\ Len(paths) >= MaxToKeep[c]
  <2>1. k \in 1..(Len(paths) - 1)
    BY <1>1, <1>2 DEF KeepStart
  <2>2. /\ Rotated(c).gone = {paths[i] : i \in 1..k}
        /\ Rotated(c).left = SubSeq(paths, k + 1, Len(paths))
    BY <1>2 DEF Rotated
  <2> HIDE DEF k
  <2>3. \A i \in 1..k : paths[i] < s - 1
    <3> SUFFICES ASSUME NEW i \in 1..k PROVE paths[i] < s - 1
      OBVIOUS
    <3>1. i \in DOMAIN paths /\ Len(paths) \in DOMAIN paths /\ i < Len(paths)
      BY <1>1, <2>1
    <3>2. paths[i] < paths[Len(paths)] /\ paths[Len(paths)] < s
      BY <3>1 DEF Increasing, Below
    <3> QED BY <1>1, <3>1, <3>2
  <2>4. /\ DOMAIN Rotated(c).left = 1..(Len(paths) - k)
        /\ \A i \in 1..(Len(paths) - k) : /\ i + k \in DOMAIN paths
                                          /\ Rotated(c).left[i] = paths[i + k]
    BY <1>1, <2>1, <2>2
  <2>5. Below(Rotated(c).left, s)
    BY <2>4 DEF Below
  <2>6. Increasing(Rotated(c).left)
    <3> SUFFICES ASSUME NEW i \in 1..(Len(paths) - k), NEW j \in 1..(Len(paths) - k), i < j
                 PROVE  paths[i + k] < paths[j + k]
      BY <2>4 DEF Increasing
    <3>1. i + k < j + k /\ i + k \in DOMAIN paths /\ j + k \in DOMAIN paths
      BY <1>1, <2>1, <2>4
    <3> QED BY <3>1 DEF Increasing
  <2> QED BY <2>2, <2>3, <2>5, <2>6
<1>3. CASE ~(MaxToKeep[c] > 0 /\ Len(paths) >= MaxToKeep[c])
  <2>1. Rotated(c).gone = {} /\ Rotated(c).left = paths
    BY <1>3 DEF Rotated
  <2> QED BY <2>1
<1> QED BY <1>2, <1>3

\* The path of the present save is the newest.
LEMMA RemembersOrdered ==
  ASSUME TypeInv, NEW c \in Components, step \in Steps,
         Increasing(previous[c]), Below(previous[c], step)
  PROVE  Increasing(Remembers(c)) /\ Below(Remembers(c), step + 1)
<1> DEFINE paths == previous[c]
<1>1. /\ paths \in Seq(Steps) /\ step \in Nat /\ Len(paths) \in Nat
      /\ \A i \in DOMAIN paths : paths[i] \in Nat /\ paths[i] < step
  BY SaveTypes, StepsNumbers DEF Below
<1>2. /\ DOMAIN Remembers(c) = 1..(Len(paths) + 1)
      /\ Remembers(c)[Len(paths) + 1] = step
      /\ \A i \in 1..Len(paths) : i \in DOMAIN paths /\ Remembers(c)[i] = paths[i]
  BY <1>1 DEF Remembers
<1>3. Below(Remembers(c), step + 1)
  <2> SUFFICES ASSUME NEW i \in 1..(Len(paths) + 1) PROVE Remembers(c)[i] < step + 1
    BY <1>2 DEF Below
  <2>1. CASE i = Len(paths) + 1
    BY <1>1, <1>2, <2>1
  <2>2. CASE i \in 1..Len(paths)
    BY <1>1, <1>2, <2>2
  <2> QED BY <1>1, <2>1, <2>2
<1>4. Increasing(Remembers(c))
  <2> SUFFICES ASSUME NEW i \in 1..(Len(paths) + 1), NEW j \in 1..(Len(paths) + 1), i < j
               PROVE  Remembers(c)[i] < Remembers(c)[j]
    BY <1>2 DEF Increasing
  <2>1. i \in 1..Len(paths)
    BY <1>1
  <2>2. CASE j = Len(paths) + 1
    BY <1>1, <1>2, <2>1, <2>2
  <2>3. CASE j \in 1..Len(paths)
    BY <1>2, <2>1, <2>3 DEF Increasing
  <2> QED BY <1>1, <2>2, <2>3
<1> QED BY <1>3, <1>4

-----------------------------------------------------------------------------
(* SafetyInv is inductive *)

LEMMA SafetyInit == Init => SafetyInv
BY StepsNumbers DEF Init, SafetyInv, RanksInv, TrackerInv, PathsInv, WrittenInv, TrackedIsLoadable, Saving,
   AfterRanks, Increasing, Below, Pending

LEMMA SafetyBoot ==
  ASSUME TypeInv, SafetyInv, StartFromScratch \/ Resume \/ ResumeRaises PROVE SafetyInv'
<1>1. /\ driver = "down" /\ driver' \in {"train", "failed"}
      /\ previous' = [c \in Components |-> <<>>]
      /\ UNCHANGED <<shard, dirs, data, tracker, completed>>
  BY DEF StartFromScratch, Resume, ResumeRaises, Boot, diskVars
<1>2. RanksInv' /\ WrittenInv'
  BY <1>1 DEF RanksInv, WrittenInv, AfterRanks
<1>3. PathsInv'
  BY <1>1 DEF PathsInv, Increasing, Below, Pending
<1>4. TrackedIsLoadable'
  BY <1>1, TrackedKept DEF SafetyInv
<1>5. TrackerInv'
  <2>1. driver' = "train" => tracker = step'
    <3>1. CASE StartFromScratch
      <4>1. tracker \notin dirs /\ tracker # EmptyTracker /\ step' = 0
        BY <3>1 DEF StartFromScratch, NoCheckpoint
      <4>2. tracker \notin Steps
        BY <4>1 DEF SafetyInv, TrackedIsLoadable
      <4> QED BY <4>1, <4>2, SaveTypes, StepsNumbers
    <3>2. CASE Resume
      BY <3>2 DEF Resume
    <3>3. CASE ResumeRaises
      BY <3>3 DEF ResumeRaises
    <3> QED BY <3>1, <3>2, <3>3
  <2> QED BY <1>1, <2>1 DEF SafetyInv, TrackerInv, Saving, AfterRanks
<1> QED BY <1>2, <1>3, <1>4, <1>5 DEF SafetyInv

LEMMA SafetyCrash == ASSUME TypeInv, SafetyInv, Crash PROVE SafetyInv'
<1>1. /\ driver' = "down"
      /\ UNCHANGED <<shard, dirs, data, tracker, completed, previous, step>>
  BY DEF Crash, diskVars
<1>2. RanksInv' /\ WrittenInv' /\ TrackerInv'
  BY <1>1 DEF SafetyInv, RanksInv, WrittenInv, TrackerInv, AfterRanks, Saving
<1>3. PathsInv'
  BY <1>1, PathsKept DEF SafetyInv, Pending
<1> QED BY <1>1, <1>2, <1>3, TrackedKept DEF SafetyInv

LEMMA SafetyBeginSave == ASSUME TypeInv, SafetyInv, BeginSave PROVE SafetyInv'
<1>1. /\ driver = "train" /\ driver' = "saving" /\ component' = "actor"
      /\ rank' = Everyone("prepare") /\ step' = step + 1
      /\ UNCHANGED <<shard, dirs, data, tracker, completed, previous>>
  BY DEF BeginSave, diskVars
<1>2. RanksInv'
  BY <1>1 DEF RanksInv, Everyone, First
<1>3. TrackerInv'
  BY <1>1, SaveTypes DEF SafetyInv, TrackerInv, Saving, AfterRanks
<1>4. PathsInv'
  <2>1. \A c \in Components : Increasing(previous[c]) /\ Below(previous[c], step + 1)
    BY DEF SafetyInv, PathsInv
  <2>2. \A c \in Components : Below(previous[c], step + 1 + 1)
    <3> SUFFICES ASSUME NEW c \in Components, NEW i \in DOMAIN previous[c]
                 PROVE  previous[c][i] < step + 1 + 1
      BY DEF Below
    <3>1. previous[c][i] < step + 1 /\ previous[c][i] \in Nat /\ step \in Nat
      BY <2>1, SaveTypes, StepsNumbers DEF Below
    <3> QED BY <3>1
  <2> QED BY <1>1, <2>1, <2>2 DEF PathsInv
<1>5. WrittenInv'
  BY <1>1 DEF WrittenInv, Everyone, Last, AfterRanks
<1> QED BY <1>1, <1>2, <1>3, <1>4, <1>5, TrackedKept DEF SafetyInv

LEMMA SafetyPrepare == ASSUME KeepsEnough, TypeInv, SafetyInv, NEW r \in Ranks, Prepare(r) PROVE SafetyInv'
<1>1. /\ driver = "saving" /\ driver' = driver /\ component' = component /\ step' = step
      /\ rank[r] = "prepare" /\ rank' = [rank EXCEPT ![r] = "barrier1"]
      /\ dirs' = dirs \cup {step}
      /\ UNCHANGED <<data, tracker, completed, starts>>
  BY DEF Prepare
<1>2. /\ step \in Steps /\ component \in Components /\ rank \in [Ranks -> Phases]
      /\ tracker = step - 1
  BY <1>1, SaveTypes DEF Saving, AfterRanks, SafetyInv, TrackerInv
<1>3. \A q \in Ranks : rank[q] \in First
  BY <1>1 DEF SafetyInv, RanksInv, First, Middle, Last
<1>4. \A q \in Ranks : rank'[q] \in First
  BY <1>1, <1>2, <1>3 DEF First
<1>5. \A q \in Ranks : rank[q] \notin Last /\ rank[q] # "barrier2" /\ rank'[q] \notin Last /\ rank'[q] # "barrier2"
  BY <1>3, <1>4 DEF First, Last
<1>6. Increasing(previous[component]) /\ Below(previous[component], step)
  BY <1>1, <1>2, <1>5 DEF SafetyInv, PathsInv, Pending
<1>7. \/ r # 0 /\ previous' = previous /\ shard' = shard
      \/ /\ r = 0
         /\ previous' = [previous EXCEPT ![component] = Rotated(component).left]
         /\ shard' = [shard EXCEPT ![component] =
              [s \in Steps |-> IF s \in Rotated(component).gone THEN Everyone(Absent)
                               ELSE shard[component][s]]]
  BY DEF Prepare
<1>8. /\ \A gone \in Rotated(component).gone : gone < step - 1
      /\ Increasing(Rotated(component).left) /\ Below(Rotated(component).left, step)
  BY <1>2, <1>6, RotatedKeeps
<1>9. \A c \in Components, s \in Steps : s >= step - 1 => shard'[c][s] = shard[c][s]
  <2> SUFFICES ASSUME NEW c \in Components, NEW s \in Steps, s >= step - 1
               PROVE  shard'[c][s] = shard[c][s]
    OBVIOUS
  <2>1. s \notin Rotated(component).gone
    <3>1. step \in Nat /\ s \in Nat
      BY <1>2, StepsNumbers
    <3> QED BY <1>8, <3>1
  <2>2. shard \in [Components -> [Steps -> [Ranks -> Contents]]]
    BY SaveTypes
  <2> DEFINE cleared == [t \in Steps |-> IF t \in Rotated(component).gone THEN Everyone(Absent)
                                         ELSE shard[component][t]]
  <2>3. c = component => cleared[s] = shard[c][s]
    BY <2>1
  <2>4. shard' = shard \/ shard' = [shard EXCEPT ![component] = cleared]
    BY <1>7
  <2> HIDE DEF cleared
  <2> QED BY <1>2, <2>2, <2>3, <2>4
<1>10. RanksInv' /\ TrackerInv'
  BY <1>1, <1>4 DEF SafetyInv, RanksInv, TrackerInv
<1>11. PathsInv'
  <2>1. \A c \in Components : Pending(c)' => Pending(c)
    BY <1>1, <1>5 DEF Pending
  <2>2. CASE previous' = previous
    BY <1>1, <2>1, <2>2, PathsKept DEF SafetyInv
  <2>3. CASE previous' = [previous EXCEPT ![component] = Rotated(component).left]
    <3> SUFFICES ASSUME NEW c \in Components
                 PROVE  /\ Increasing(previous'[c]) /\ Below(previous'[c], step + 1)
                        /\ Pending(c)' => Below(previous'[c], step)
      BY <1>1 DEF PathsInv
    <3>1. CASE c # component
      <4>1. previous'[c] = previous[c]
        BY <2>3, <3>1, SaveTypes
      <4> QED BY <2>1, <4>1 DEF SafetyInv, PathsInv
    <3>2. CASE c = component
      <4>1. previous'[c] = Rotated(c).left
        BY <2>3, <3>2, SaveTypes
      <4>2. Below(Rotated(c).left, step + 1)
        <5>1. Rotated(c).left \in Seq(Steps) /\ step \in Nat
          BY RotatedType, SaveTypes
        <5>2. \A i \in DOMAIN Rotated(c).left : Rotated(c).left[i] \in Nat
          BY <5>1, StepsNumbers
        <5> QED BY <1>8, <3>2, <5>1, <5>2 DEF Below
      <4> QED BY <1>8, <3>2, <4>1, <4>2
    <3> QED BY <3>1, <3>2
  <2> QED BY <1>7, <2>2, <2>3
<1>12. WrittenInv'
  <2>1. component = "critic" => Dumped("actor")'
    <3> SUFFICES ASSUME component = "critic" PROVE Dumped("actor")'
      OBVIOUS
    <3>1. Dumped("actor")
      BY <1>1 DEF SafetyInv, WrittenInv
    <3>2. shard'["actor"][step] = shard["actor"][step]
      BY <1>2, <1>9, StepsNumbers DEF Components
    <3> QED BY <1>1, <3>1, <3>2 DEF Dumped
  <2> QED BY <1>1, <1>5, <2>1 DEF WrittenInv, AfterRanks
<1>13. TrackedIsLoadable'
  <2>1. tracker \in Steps => \A q \in Ranks, c \in Components : shard'[c][tracker][q] = shard[c][tracker][q]
    BY <1>2, <1>9, StepsNumbers
  <2> QED BY <1>1, <2>1, TrackedKept DEF SafetyInv
<1> QED BY <1>10, <1>11, <1>12, <1>13 DEF SafetyInv

LEMMA SafetyBarrier1 == ASSUME TypeInv, SafetyInv, Barrier1 PROVE SafetyInv'
<1>1. /\ driver = "saving" /\ driver' = driver /\ component' = component /\ step' = step
      /\ \A r \in Ranks : rank[r] = "barrier1" /\ rank'[r] = "write"
      /\ UNCHANGED <<shard, dirs, data, tracker, completed, previous, starts>>
  BY DEF Barrier1, Everyone, diskVars
<1>2. RanksInv' /\ TrackerInv'
  BY <1>1 DEF SafetyInv, RanksInv, TrackerInv, Middle
<1>3. PathsInv'
  <2>1. \A c \in Components : Pending(c)' => Pending(c)
    BY <1>1 DEF Pending, Last
  <2> QED BY <1>1, <2>1, PathsKept DEF SafetyInv
<1>4. WrittenInv'
  <2>1. step \in dirs
    BY <1>1, StepsNumbers DEF SafetyInv, WrittenInv
  <2> QED BY <1>1, <2>1 DEF SafetyInv, WrittenInv, AfterRanks, Last, Dumped
<1> QED BY <1>1, <1>2, <1>3, <1>4, TrackedKept DEF SafetyInv

LEMMA SafetyWrite == ASSUME TypeInv, SafetyInv, NEW r \in Ranks, Write(r) PROVE SafetyInv'
<1>1. /\ driver = "saving" /\ driver' = driver /\ component' = component /\ step' = step
      /\ UNCHANGED <<dirs, data, tracker, completed, previous, starts>>
  BY DEF Write
<1>2. /\ step \in Steps /\ component \in Components /\ rank \in [Ranks -> Phases]
      /\ shard \in [Components -> [Steps -> [Ranks -> Contents]]]
      /\ tracker = step - 1
  BY <1>1, SaveTypes DEF Saving, AfterRanks, SafetyInv, TrackerInv
<1>3. /\ rank[r] \in {"write", "writing"} /\ rank'[r] \in {"writing", "barrier2"}
      /\ \A q \in Ranks : q # r => rank'[q] = rank[q]
  BY <1>2 DEF Write
<1>4. \A q \in Ranks : rank[q] \in Middle
  BY <1>1, <1>3 DEF SafetyInv, RanksInv, First, Middle, Last
<1>5. \A q \in Ranks : rank'[q] \in Middle
  BY <1>3, <1>4 DEF Middle
<1>6. /\ \A c \in Components, s \in Steps, q \in Ranks :
           c # component \/ s # step \/ q # r => shard'[c][s][q] = shard[c][s][q]
      /\ rank'[r] = "barrier2" => shard'[component][step][r] = starts
  <2>1. CASE rank[r] = "write"
    BY <1>2, <2>1 DEF Write
  <2>2. CASE rank[r] = "writing"
    BY <1>2, <2>2 DEF Write
  <2> QED BY <1>3, <2>1, <2>2
<1>7. RanksInv' /\ TrackerInv'
  BY <1>1, <1>5 DEF SafetyInv, RanksInv, TrackerInv
<1>8. PathsInv'
  <2>1. \A q \in Ranks : rank[q] \notin Last /\ rank'[q] \notin Last
    BY <1>4, <1>5 DEF Middle, Last
  <2>2. \A c \in Components : Pending(c)' => Pending(c)
    BY <1>1, <2>1 DEF Pending
  <2> QED BY <1>1, <2>2, PathsKept DEF SafetyInv
<1>9. WrittenInv'
  <2>1. \A q \in Ranks : rank'[q] \in {"barrier2"} \cup Last => shard'[component][step][q] = starts
    <3> SUFFICES ASSUME NEW q \in Ranks, rank'[q] \in {"barrier2"} \cup Last
                 PROVE  shard'[component][step][q] = starts
      OBVIOUS
    <3>1. CASE q = r
      BY <1>5, <1>6, <3>1 DEF Middle, Last
    <3>2. CASE q # r
      BY <1>1, <1>2, <1>3, <1>6, <3>2 DEF SafetyInv, WrittenInv
    <3> QED BY <3>1, <3>2
  <2>2. component = "critic" => Dumped("actor")'
    BY <1>1, <1>2, <1>6 DEF SafetyInv, WrittenInv, Dumped, Components
  <2>3. step \in dirs
    BY <1>1, <1>3 DEF SafetyInv, WrittenInv
  <2> QED BY <1>1, <2>1, <2>2, <2>3 DEF WrittenInv, AfterRanks
<1>10. TrackedIsLoadable'
  <2>1. tracker \in Steps => tracker # step
    BY <1>2, StepsNumbers
  <2> QED BY <1>1, <1>2, <1>6, <2>1, TrackedKept DEF SafetyInv
<1> QED BY <1>7, <1>8, <1>9, <1>10 DEF SafetyInv

LEMMA SafetyBarrier2 == ASSUME TypeInv, SafetyInv, Barrier2 PROVE SafetyInv'
<1>1. /\ driver = "saving" /\ driver' = driver /\ component' = component /\ step' = step
      /\ \A r \in Ranks : rank[r] = "barrier2" /\ rank'[r] \in Last
      /\ previous' = [previous EXCEPT ![component] = Remembers(component)]
      /\ UNCHANGED <<shard, dirs, data, tracker, completed, starts>>
  BY DEF Barrier2, AllDumped, Everyone, Last, diskVars
<1>2. /\ step \in Steps /\ component \in Components
      /\ previous \in [Components -> Seq(Steps)]
  BY <1>1, SaveTypes DEF Saving
<1>3. RanksInv' /\ TrackerInv'
  BY <1>1 DEF SafetyInv, RanksInv, TrackerInv
<1>4. PathsInv'
  <2>1. Pending(component)
    BY <1>1, StepsNumbers DEF Pending, Last
  <2>2. Increasing(Remembers(component)) /\ Below(Remembers(component), step + 1)
    BY <1>2, <2>1, RemembersOrdered DEF SafetyInv, PathsInv
  <2> SUFFICES ASSUME NEW c \in Components
               PROVE  /\ Increasing(previous'[c]) /\ Below(previous'[c], step + 1)
                      /\ Pending(c)' => Below(previous'[c], step)
    BY <1>1 DEF PathsInv
  <2>3. CASE c = component
    <3>1. previous'[c] = Remembers(component)
      BY <1>1, <1>2, <2>3
    <3>2. ~Pending(c)'
      BY <1>1, <2>3 DEF Pending
    <3> QED BY <2>2, <2>3, <3>1, <3>2
  <2>4. CASE c # component
    <3>1. previous'[c] = previous[c]
      BY <1>1, <1>2, <2>4
    <3>2. Pending(c)' => Pending(c)
      BY <1>1, <2>4 DEF Pending
    <3> QED BY <3>1, <3>2 DEF SafetyInv, PathsInv
  <2> QED BY <2>3, <2>4
<1>5. WrittenInv'
  <2>1. step \in dirs /\ \A r \in Ranks : shard[component][step][r] = starts
    BY <1>1, StepsNumbers DEF SafetyInv, WrittenInv
  <2> QED BY <1>1, <2>1 DEF SafetyInv, WrittenInv, AfterRanks, Dumped
<1> QED BY <1>1, <1>3, <1>4, <1>5, TrackedKept DEF SafetyInv

LEMMA SafetyWriteReal == ASSUME TypeInv, SafetyInv, NEW r \in Ranks, WriteReal(r) PROVE SafetyInv'
<1>1. /\ driver = "saving" /\ driver' = driver /\ component' = component /\ step' = step
      /\ rank[r] = "real" /\ rank' = [rank EXCEPT ![r] = "return"]
      /\ UNCHANGED <<shard, dirs, data, tracker, completed, previous, starts>>
  BY DEF WriteReal
<1>2. \A q \in Ranks : rank[q] \in Last /\ rank'[q] \in Last
  BY <1>1, SaveTypes DEF SafetyInv, RanksInv, First, Middle, Last
<1>3. RanksInv' /\ TrackerInv'
  BY <1>1, <1>2 DEF SafetyInv, RanksInv, TrackerInv
<1>4. PathsInv'
  <2>1. \A c \in Components : Pending(c)' => Pending(c)
    BY <1>1, <1>2 DEF Pending
  <2> QED BY <1>1, <2>1, PathsKept DEF SafetyInv
<1>5. WrittenInv'
  <2>1. step \in dirs /\ \A q \in Ranks : shard[component][step][q] = starts
    BY <1>1, <1>2 DEF SafetyInv, WrittenInv
  <2> QED BY <1>1, <2>1 DEF SafetyInv, WrittenInv, AfterRanks, Dumped
<1> QED BY <1>1, <1>3, <1>4, <1>5, TrackedKept DEF SafetyInv

LEMMA SafetyReturned == ASSUME TypeInv, SafetyInv, Returned PROVE SafetyInv'
<1>1. /\ driver = "saving" /\ step' = step
      /\ \A r \in Ranks : rank[r] = "return"
      /\ UNCHANGED <<shard, dirs, data, tracker, completed, previous, starts>>
      /\ \/ /\ component = "actor" /\ component' = "critic" /\ driver' = "saving"
            /\ rank' = Everyone("prepare")
         \/ /\ component = "critic" \/ ~UseCritic
            /\ component' = component /\ driver' = "data"
  BY SaveTypes DEF Returned, diskVars, Components, Everyone
<1>2. step \in dirs /\ Dumped(component) /\ (component = "critic" => Dumped("actor"))
  <2>1. \E r \in Ranks : rank[r] # "prepare"
    BY <1>1, StepsNumbers
  <2>2. step \in dirs
    BY <1>1, <2>1 DEF SafetyInv, WrittenInv
  <2> QED BY <1>1, <2>2 DEF SafetyInv, WrittenInv, Dumped, Last
<1>3. RanksInv' /\ TrackerInv'
  BY <1>1 DEF SafetyInv, RanksInv, TrackerInv, Everyone, First, Saving, AfterRanks
<1>4. PathsInv'
  <2>1. \A c \in Components : Pending(c)' => Pending(c)
    BY <1>1 DEF Pending, Components
  <2> QED BY <1>1, <2>1, PathsKept DEF SafetyInv
<1>5. WrittenInv'
  <2>1. CASE component = "actor" /\ component' = "critic" /\ driver' = "saving"
             /\ rank' = Everyone("prepare")
    BY <1>1, <1>2, <2>1 DEF WrittenInv, Dumped, Everyone, Last, AfterRanks
  <2>2. CASE (component = "critic" \/ ~UseCritic) /\ component' = component /\ driver' = "data"
    <3>1. component \in {"actor", "critic"}
      BY SaveTypes DEF Components
    <3> QED BY <1>1, <1>2, <2>2, <3>1 DEF WrittenInv, Dumped, AfterRanks
  <2> QED BY <1>1, <2>1, <2>2
<1> QED BY <1>1, <1>3, <1>4, <1>5, TrackedKept DEF SafetyInv

LEMMA SafetyFinish ==
  ASSUME TypeInv, SafetyInv, SaveData \/ TruncateTracker \/ WriteTracker PROVE SafetyInv'
<1>1. /\ driver \in AfterRanks /\ driver' \in {"dumping", "truncate", "name", "train"}
      /\ step \in Steps /\ starts \in 1..MaxStarts
      /\ UNCHANGED <<step, shard, dirs, previous, starts>>
  BY SaveTypes DEF SaveData, TruncateTracker, WriteTracker, Saving, AfterRanks
<1>2. step \in dirs /\ Dumped("actor") /\ (UseCritic => Dumped("critic"))
  BY <1>1 DEF SafetyInv, WrittenInv
<1>3. RanksInv' /\ PathsInv'
  BY <1>1, PathsKept DEF SafetyInv, RanksInv, Pending
<1>4. CASE SaveData
  <2>1. /\ driver \in {"data", "dumping"} /\ driver' \in {"dumping", "truncate"}
        /\ tracker' = tracker /\ completed' = completed /\ tracker = step - 1
    BY <1>4 DEF SaveData, SafetyInv, TrackerInv, Saving, AfterRanks
  <2>2. /\ \A s \in Steps : s # step => data'[s] = data[s]
        /\ driver' = "truncate" => data'[step] = starts
    BY <1>1, <1>4, SaveTypes DEF SaveData
  <2>3. TrackerInv'
    BY <1>1, <2>1 DEF SafetyInv, TrackerInv, Saving, AfterRanks
  <2>4. WrittenInv'
    BY <1>1, <1>2, <2>1, <2>2 DEF WrittenInv, Dumped, AfterRanks
  <2>5. TrackedIsLoadable'
    <3>1. tracker \in Steps => tracker # step
      BY <1>1, <2>1, StepsNumbers
    <3> QED BY <1>1, <2>1, <2>2, <3>1, TrackedKept DEF SafetyInv
  <2> QED BY <1>3, <2>3, <2>4, <2>5 DEF SafetyInv
<1>5. CASE TruncateTracker
  <2>1. /\ driver = "truncate" /\ driver' = "name" /\ tracker' = EmptyTracker
        /\ completed' = completed /\ data' = data /\ tracker = step - 1
    BY <1>5 DEF TruncateTracker, SafetyInv, TrackerInv, Saving, AfterRanks
  <2>2. completed = step - 1
    BY <1>1, <2>1, StepsNumbers DEF SafetyInv, TrackerInv
  <2>3. TrackerInv'
    BY <1>1, <2>1, <2>2 DEF TrackerInv, Saving, AfterRanks
  <2>4. WrittenInv'
    BY <1>1, <1>2, <2>1 DEF SafetyInv, WrittenInv, Dumped, AfterRanks
  <2>5. TrackedIsLoadable'
    BY <2>1, StepsNumbers DEF TrackedIsLoadable
  <2> QED BY <1>3, <2>3, <2>4, <2>5 DEF SafetyInv
<1>6. CASE WriteTracker
  <2>1. /\ driver = "name" /\ driver' = "train" /\ tracker' = step /\ completed' = step
        /\ data' = data
    BY <1>6 DEF WriteTracker
  <2>2. TrackerInv' /\ WrittenInv'
    BY <1>1, <2>1 DEF TrackerInv, WrittenInv, Saving, AfterRanks
  <2>3. TrackedIsLoadable'
    BY <1>1, <1>2, <2>1 DEF SafetyInv, WrittenInv, TrackedIsLoadable, Dumped
  <2> QED BY <1>3, <2>2, <2>3 DEF SafetyInv
<1> QED BY <1>4, <1>5, <1>6

LEMMA SafetyNext ==
  ASSUME KeepsEnough, TypeInv, SafetyInv, [Next]_vars PROVE SafetyInv'
<1>1. CASE UNCHANGED vars
  <2>1. UNCHANGED <<driver, component, rank, step, starts, previous, shard, dirs, data,
                    tracker, completed>>
    BY <1>1 DEF vars, jobVars, diskVars
  <2> QED BY <2>1 DEF SafetyInv, RanksInv, TrackerInv, PathsInv, WrittenInv, TrackedIsLoadable,
                      Pending, Dumped
<1>2. ASSUME NEW r \in Ranks, RankStep(r) PROVE SafetyInv'
  BY <1>2, SafetyPrepare, SafetyWrite, SafetyWriteReal DEF RankStep
<1> QED BY <1>1, <1>2, SafetyBoot, SafetyCrash, SafetyBeginSave, SafetyBarrier1, SafetyBarrier2,
           SafetyReturned, SafetyFinish DEF Next, JobStep

\* However the writes of the ranks interleave, and wherever the job is killed:
\* the save the tracker names is whole, provided that not just one is kept.
THEOREM TrackedIsLoadableCorrect == KeepsEnough => (Spec => []TrackedIsLoadable)
<1> SUFFICES ASSUME KeepsEnough PROVE Spec => []TrackedIsLoadable
  OBVIOUS
<1>1. Init => TypeInv /\ SafetyInv
  BY TypeInit, SafetyInit
<1>2. TypeInv /\ SafetyInv /\ [Next]_vars => (TypeInv /\ SafetyInv)'
  BY TypeNext, SafetyNext
<1>3. SafetyInv => TrackedIsLoadable
  BY DEF SafetyInv
<1> QED BY <1>1, <1>2, <1>3, PTL DEF Spec

\* A job that comes up has the weights of the newest save that finished.
THEOREM ResumesNewestCorrect == KeepsEnough => (Spec => ResumesNewest)
<1> SUFFICES ASSUME KeepsEnough PROVE Spec => ResumesNewest
  OBVIOUS
<1>1. Init => TypeInv /\ SafetyInv
  BY TypeInit, SafetyInit
<1>2. TypeInv /\ SafetyInv /\ [Next]_vars => (TypeInv /\ SafetyInv)'
  BY TypeNext, SafetyNext
<1>3. TypeInv /\ SafetyInv /\ (TypeInv /\ SafetyInv)' /\ [Next]_vars
        => [driver = "down" /\ driver' = "train" => step' = completed]_vars
  <2> SUFFICES ASSUME TypeInv, SafetyInv, SafetyInv', [Next]_vars,
                      driver = "down", driver' = "train"
               PROVE  step' = completed
    OBVIOUS
  <2>1. tracker' = step' /\ (tracker' # EmptyTracker => tracker' = completed')
    BY DEF SafetyInv, TrackerInv
  <2>2. completed' = completed /\ step' # EmptyTracker
    <3>1. StartFromScratch \/ Resume
      BY DEF Next, JobStep, RankStep, Prepare, Write, WriteReal, vars, jobVars, BeginSave,
             Barrier1, Barrier2, Returned, SaveData, TruncateTracker, WriteTracker, Crash,
             ResumeRaises
    <3> QED BY <3>1, SaveTypes, StepsNumbers DEF StartFromScratch, Resume
  <2> QED BY <2>1, <2>2
<1> QED BY <1>1, <1>2, <1>3, PTL DEF Spec, ResumesNewest

-----------------------------------------------------------------------------
(* CkptManager implements CkptStore *)

LEMMA TrackedLoadable ==
  ASSUME TrackedIsLoadable, tracker \in Steps
  PROVE  tracker \in dirs /\ Loadable(tracker)
<1>1. \A n \in 1..MaxStarts : Whole(n) /\ n # Torn
  BY CkptConfig DEF Whole, Absent, Torn
<1> QED BY <1>1 DEF TrackedIsLoadable, Loadable

\* The store's content is what the tracker says.
Matches == StoreContent = tracker

LEMMA ContentIsTracker == TrackedIsLoadable => Matches
BY TrackedLoadable DEF StoreContent, Matches

LEMMA StoreStep ==
  ASSUME TypeInv, SafetyInv, SafetyInv', Matches, Matches', [Next]_vars
  PROVE  [Store!Next]_(Store!vars)
<1>1. StoreContent = tracker
  BY DEF Matches
<1>2. StoreContent' = tracker'
  BY DEF Matches
<1>3. CASE Crash
  <2>1. JobState = "up" /\ JobState' = "down" /\ step' = step /\ tracker' = tracker
    BY <1>3 DEF Crash, JobState, diskVars
  <2> QED BY <1>1, <1>2, <2>1 DEF Store!Next, Store!Die
<1>4. CASE StartFromScratch \/ Resume
  <2>1. /\ driver = "down" /\ driver' = "train" /\ tracker' = tracker /\ tracker # EmptyTracker
    BY <1>4, SaveTypes, StepsNumbers DEF StartFromScratch, Resume, Boot, NoCheckpoint, diskVars
  <2>2. step' = tracker'
    BY <2>1 DEF SafetyInv, TrackerInv
  <2>3. JobState = "down" /\ JobState' = "up"
    BY <2>1 DEF JobState
  <2> QED BY <1>1, <1>2, <2>1, <2>2, <2>3 DEF Store!Next, Store!ComeUp
<1>5. CASE ResumeRaises
  <2>1. /\ driver = "down" /\ driver' = "failed" /\ tracker' = tracker /\ step' = step
    BY <1>5 DEF ResumeRaises, Boot, diskVars
  <2>2. tracker = EmptyTracker
    <3>1. tracker \in dirs => tracker \in Steps /\ ~Loadable(tracker)
      BY <1>5, SaveTypes DEF ResumeRaises
    <3>2. tracker \notin dirs
      BY <3>1, TrackedLoadable DEF SafetyInv
    <3> QED BY <1>5, <3>2 DEF ResumeRaises
  <2>3. JobState = "down" /\ JobState' = "failed"
    BY <2>1 DEF JobState
  <2> QED BY <1>1, <1>2, <2>1, <2>2, <2>3 DEF Store!Next, Store!CannotComeUp
<1>6. CASE BeginSave
  <2>1. JobState = "up" /\ JobState' = "up" /\ step' = step + 1 /\ tracker' = tracker
    BY <1>6 DEF BeginSave, JobState, diskVars
  <2> QED BY <1>1, <1>2, <2>1 DEF Store!Next, Store!Train
<1>7. CASE TruncateTracker
  <2>1. JobState = "up" /\ JobState' = "up" /\ step' = step /\ tracker' = EmptyTracker
    BY <1>7 DEF TruncateTracker, JobState
  <2> QED BY <1>1, <1>2, <2>1 DEF Store!Next, Store!Withdraw
<1>8. CASE WriteTracker
  <2>1. /\ JobState = "up" /\ JobState' = "up" /\ step' = step /\ tracker' = step
        /\ tracker = EmptyTracker
    BY <1>8 DEF WriteTracker, JobState, SafetyInv, TrackerInv
  <2> QED BY <1>1, <1>2, <2>1 DEF Store!Next, Store!Publish
<1>9. CASE Barrier1 \/ Barrier2 \/ Returned \/ SaveData \/ (\E r \in Ranks : RankStep(r))
  <2>1. JobState' = JobState /\ step' = step /\ tracker' = tracker
    BY <1>9 DEF Barrier1, Barrier2, Returned, SaveData, RankStep, Prepare, Write, WriteReal,
                JobState, diskVars
  <2> QED BY <1>1, <1>2, <2>1 DEF Store!vars
<1>10. CASE UNCHANGED vars
  <2>1. JobState' = JobState /\ step' = step /\ tracker' = tracker
    BY <1>10 DEF vars, jobVars, diskVars, JobState
  <2> QED BY <1>1, <1>2, <2>1 DEF Store!vars
<1> QED BY <1>3, <1>4, <1>5, <1>6, <1>7, <1>8, <1>9, <1>10 DEF Next, JobStep

\* For any number of ranks, all the files, barriers and crashes of a save amount
\* to a store that is withdrawn and published again.
THEOREM ImplementsStoreCorrect == KeepsEnough => (Spec => ImplementsStore)
<1> SUFFICES ASSUME KeepsEnough PROVE Spec => ImplementsStore
  OBVIOUS
<1>1. Init => TypeInv /\ SafetyInv
  BY TypeInit, SafetyInit
<1>2. TypeInv /\ SafetyInv /\ [Next]_vars => (TypeInv /\ SafetyInv)'
  BY TypeNext, SafetyNext
<1>3. Init => Store!Init
  <2> SUFFICES ASSUME Init PROVE Store!Init
    OBVIOUS
  <2>1. StoreContent = tracker
    BY <1>1, ContentIsTracker DEF SafetyInv, Matches
  <2> QED BY <2>1 DEF Init, Store!Init, JobState, NoTracker
<1>4. SafetyInv => Matches
  BY ContentIsTracker DEF SafetyInv
<1>5. TypeInv /\ SafetyInv /\ Matches /\ SafetyInv' /\ Matches' /\ [Next]_vars
        => [Store!Next]_(Store!vars)
  BY StoreStep
<1> QED BY <1>1, <1>2, <1>3, <1>4, <1>5, PTL DEF Spec, ImplementsStore, Store!Spec
-----------------------------------------------------------------------------
(* What the ranks and the dataloader continue from *)

\* Resuming leaves the REAL optimizer's files on disk.
RealOptimStays == UseRealOptim => ~DelLocal

\* The REAL optimizer's files, as far as the save has come: unless a write has
\* failed, those of the tracked save stem from it.
RealWritten ==
  failures = 0 /\ UseRealOptim =>
    /\ tracker \in Steps => \A r \in Ranks : realOptim[tracker][r] = data[tracker]
    /\ driver = "saving" =>
         \A r \in Ranks : component = "critic" \/ rank[r] = "return" => realOptim[step][r] = starts
    /\ driver \in AfterRanks => \A r \in Ranks : realOptim[step][r] = starts

\* All ranks and the dataloader work from one save until the job ends.
MemoryInv ==
  driver \notin {"down", "failed"} =>
    \A r \in Ranks :
      /\ memory[r] = loader
      /\ failures = 0 /\ UseRealOptim => realMemory[r] = loader

LEMMA RealBoot ==
  ASSUME RealOptimStays, TypeInv, RealWritten, StartFromScratch \/ Resume \/ ResumeRaises \/ Crash
  PROVE  RealWritten'
<1> SUFFICES ASSUME failures' = 0, UseRealOptim, tracker' \in Steps
             PROVE  \A r \in Ranks : realOptim'[tracker'][r] = data'[tracker']
  BY DEF RealWritten, StartFromScratch, Resume, ResumeRaises, Crash, AfterRanks
<1>1. failures = 0 /\ tracker \in Steps /\ tracker' = tracker /\ data' = data
  BY DEF StartFromScratch, Resume, ResumeRaises, Crash, diskVars
<1>2. \A r \in Ranks : realOptim'[tracker][r] = realOptim[tracker][r]
  <2>1. CASE Resume
    <3>1. ~DelLocal /\ realOptim \in [Steps -> [Ranks -> Contents]]
      BY DEF RealOptimStays, TypeInv, TypeOK, FilesOK
    <3> QED BY <1>1, <2>1, <3>1 DEF Resume, RealOptimAfterLoad
  <2>2. CASE ~Resume
    BY <2>2 DEF StartFromScratch, ResumeRaises, Crash, diskVars
  <2> QED BY <2>1, <2>2
<1> QED BY <1>1, <1>2 DEF RealWritten

LEMMA RealPrepare ==
  ASSUME KeepsEnough, TypeInv, SafetyInv, RealWritten, NEW r \in Ranks, Prepare(r)
  PROVE  RealWritten'
<1>1. /\ driver = "saving" /\ driver' = driver /\ component' = component /\ step' = step
      /\ rank[r] = "prepare" /\ rank' = [rank EXCEPT ![r] = "barrier1"]
      /\ UNCHANGED <<data, tracker, failures, starts>>
  BY DEF Prepare
<1>2. /\ step \in Steps /\ component \in Components /\ rank \in [Ranks -> Phases]
      /\ tracker = step - 1
  BY <1>1, SaveTypes DEF Saving, AfterRanks, SafetyInv, TrackerInv
<1>3. \A q \in Ranks : rank[q] \in First /\ rank'[q] \in First
  BY <1>1, <1>2 DEF SafetyInv, RanksInv, First, Middle, Last
<1>4. component = "critic" => realOptim' = realOptim
  BY DEF Prepare
<1>5. tracker \in Steps => realOptim'[tracker] = realOptim[tracker]
  <2> SUFFICES ASSUME tracker \in Steps PROVE realOptim'[tracker] = realOptim[tracker]
    OBVIOUS
  <2>1. Increasing(previous[component]) /\ Below(previous[component], step)
    <3>1. Pending(component)
      BY <1>1 DEF Pending, Last
    <3> QED BY <1>2, <3>1 DEF SafetyInv, PathsInv
  <2>2. tracker \notin Rotated(component).gone
    BY <1>2, <2>1, RotatedKeeps, StepsNumbers
  <2>3. \/ realOptim' = realOptim
        \/ realOptim' = [s \in Steps |-> IF s \in Rotated(component).gone THEN Everyone(Absent)
                                         ELSE realOptim[s]]
    BY DEF Prepare
  <2> QED BY <2>2, <2>3
<1> QED BY <1>1, <1>3, <1>4, <1>5 DEF RealWritten, First, AfterRanks

LEMMA RealWriteReal ==
  ASSUME TypeInv, SafetyInv, RealWritten, NEW r \in Ranks, WriteReal(r)
  PROVE  RealWritten'
<1> SUFFICES ASSUME failures' = 0, UseRealOptim PROVE RealWritten'
  BY DEF RealWritten
<1>1. /\ driver = "saving" /\ driver' = driver /\ component' = component /\ step' = step
      /\ rank' = [rank EXCEPT ![r] = "return"]
      /\ UNCHANGED <<data, tracker, starts>>
  BY DEF WriteReal
<1>2. /\ step \in Steps /\ rank \in [Ranks -> Phases] /\ tracker = step - 1
      /\ realOptim \in [Steps -> [Ranks -> Contents]] /\ failures \in Nat
  BY <1>1, SaveTypes, CkptConfig
  DEF Saving, AfterRanks, SafetyInv, TrackerInv, TypeInv, TypeOK, FilesOK, JobOK
<1>3. failures = 0 /\ realOptim' = [realOptim EXCEPT ![step][r] = starts]
  BY <1>2 DEF WriteReal
<1>4. tracker \in Steps => tracker # step
  BY <1>2, StepsNumbers
<1> QED BY <1>1, <1>2, <1>3, <1>4 DEF RealWritten, AfterRanks

\* Steps of the driver and of the barriers.
LEMMA RealDriver ==
  ASSUME TypeInv, SafetyInv, RealWritten,
         BeginSave \/ Barrier1 \/ Barrier2 \/ Returned \/ SaveData \/ TruncateTracker \/ WriteTracker
  PROVE  RealWritten'
<1> SUFFICES ASSUME failures' = 0, UseRealOptim PROVE RealWritten'
  BY DEF RealWritten
<1>1. failures = 0 /\ realOptim' = realOptim
  BY DEF BeginSave, Barrier1, Barrier2, Returned, SaveData, TruncateTracker, WriteTracker, diskVars
<1>2. driver \in Saving => step \in Steps
  BY SaveTypes
<1>3. CASE BeginSave
  BY <1>1, <1>3 DEF RealWritten, BeginSave, Everyone, AfterRanks, diskVars
<1>4. CASE Barrier1
  BY <1>1, <1>4 DEF RealWritten, Barrier1, Everyone, AfterRanks, diskVars
<1>5. CASE Barrier2
  <2>1. component \in {"actor", "critic"}
    BY SaveTypes DEF Components
  <2> QED BY <1>1, <1>5, <2>1 DEF RealWritten, Barrier2, Everyone, AfterRanks, diskVars
<1>6. CASE Returned
  <2>1. \A r \in Ranks : realOptim[step][r] = starts
    BY <1>1, <1>6 DEF RealWritten, Returned, Everyone
  <2>2. driver' \in {"saving", "data"} /\ UNCHANGED <<tracker, data, step, starts>>
    BY <1>6 DEF Returned, diskVars
  <2> QED BY <1>1, <1>6, <2>1, <2>2 DEF RealWritten, Returned, AfterRanks
<1>7. CASE SaveData
  <2>1. /\ driver \in AfterRanks /\ driver' \in AfterRanks /\ driver \in Saving \ {"name"}
        /\ UNCHANGED <<tracker, step, starts>>
    BY <1>7 DEF SaveData, AfterRanks, Saving
  <2>2. tracker \in Steps => tracker # step /\ data'[tracker] = data[tracker]
    <3>1. tracker = step - 1 /\ step \in Steps /\ data \in [Steps -> Contents]
      BY <1>2, <2>1, SaveTypes DEF SafetyInv, TrackerInv
    <3> QED BY <1>7, <3>1, StepsNumbers DEF SaveData
  <2> QED BY <1>1, <2>1, <2>2 DEF RealWritten, AfterRanks
<1>8. CASE TruncateTracker
  BY <1>1, <1>8, StepsNumbers DEF RealWritten, TruncateTracker, AfterRanks
<1>9. CASE WriteTracker
  <2>1. driver = "name" /\ driver' = "train" /\ tracker' = step /\ data' = data
    BY <1>9 DEF WriteTracker
  <2>2. data[step] = starts /\ \A r \in Ranks : realOptim[step][r] = starts
    BY <1>1, <2>1 DEF RealWritten, SafetyInv, WrittenInv, AfterRanks
  <2> QED BY <1>1, <2>1, <2>2 DEF RealWritten, AfterRanks
<1> QED BY <1>3, <1>4, <1>5, <1>6, <1>7, <1>8, <1>9

LEMMA RealNext ==
  ASSUME KeepsEnough, RealOptimStays, TypeInv, SafetyInv, RealWritten, [Next]_vars
  PROVE  RealWritten'
<1>1. CASE UNCHANGED vars
  BY <1>1 DEF vars, jobVars, diskVars, RealWritten
<1>2. ASSUME NEW r \in Ranks, Write(r) PROVE RealWritten'
  <2>1. /\ driver = "saving" /\ driver' = driver
        /\ UNCHANGED <<component, step, starts, realOptim, data, tracker, failures>>
        /\ \A q \in Ranks : rank'[q] = "return" => rank[q] = "return"
    BY <1>2, SaveTypes DEF Write
  <2> QED BY <2>1 DEF RealWritten, AfterRanks
<1> QED BY <1>1, <1>2, RealBoot, RealPrepare, RealWriteReal, RealDriver DEF Next, JobStep, RankStep

LEMMA MemoryNext ==
  ASSUME TypeInv, TrackedIsLoadable, RealWritten, MemoryInv, [Next]_vars
  PROVE  MemoryInv'
<1>1. CASE StartFromScratch
  BY <1>1 DEF StartFromScratch, Everyone, MemoryInv
<1>2. CASE Resume
  <2>1. /\ tracker \in Steps /\ data[tracker] \in 1..MaxStarts
        /\ \A r \in Ranks : shard["actor"][tracker][r] = data[tracker]
    BY <1>2 DEF Resume, TrackedIsLoadable, TypeInv, TypeOK, FilesOK
  <2>2. data[tracker] # Absent /\ Whole(data[tracker])
    BY <2>1, CkptConfig DEF Whole, Absent, Torn
  <2>3. loader' = <<tracker, data[tracker]>>
    BY <1>2, <2>2 DEF Resume
  <2>4. \A r \in Ranks : memory'[r] = loader'
    BY <1>2, <2>1, <2>3 DEF Resume
  <2>5. failures' = 0 /\ UseRealOptim => \A r \in Ranks : realMemory'[r] = loader'
    <3> SUFFICES ASSUME failures' = 0, UseRealOptim, NEW r \in Ranks
                 PROVE  realMemory'[r] = loader'
      OBVIOUS
    <3>1. realOptim[tracker][r] = data[tracker]
      BY <1>2, <2>1 DEF Resume, RealWritten
    <3>2. HasRealOptim(tracker, r)
      BY <2>2, <3>1 DEF HasRealOptim
    <3> QED BY <1>2, <2>3, <3>1, <3>2 DEF Resume
  <2> QED BY <2>4, <2>5 DEF MemoryInv
<1>3. CASE ResumeRaises \/ Crash
  BY <1>3 DEF ResumeRaises, Crash, MemoryInv
<1>4. CASE \/ BeginSave \/ Barrier1 \/ Barrier2 \/ Returned \/ SaveData \/ TruncateTracker
           \/ WriteTracker \/ (\E r \in Ranks : RankStep(r))
  <2>1. driver \notin {"down", "failed"} /\ UNCHANGED memVars
    BY <1>4 DEF BeginSave, Barrier1, Barrier2, Returned, SaveData, TruncateTracker, WriteTracker,
                RankStep, Prepare, Write, WriteReal
  <2>2. failures' = 0 => failures = 0
    <3>1. failures \in Nat
      BY CkptConfig DEF TypeInv, TypeOK, JobOK
    <3> QED BY <1>4, <3>1
        DEF BeginSave, Barrier1, Barrier2, Returned, SaveData, TruncateTracker, WriteTracker,
            RankStep, Prepare, Write, WriteReal
  <2> QED BY <2>1, <2>2 DEF memVars, MemoryInv
<1>5. CASE UNCHANGED vars
  BY <1>5 DEF vars, jobVars, memVars, MemoryInv
<1> QED BY <1>1, <1>2, <1>3, <1>4, <1>5 DEF Next, JobStep

\* All ranks and the dataloader continue from one and the same save and, as long
\* as no write of it fails and resuming leaves its files there, so does the REAL
\* optimizer.
THEOREM LoadedTogetherCorrect ==
  KeepsEnough /\ RealOptimStays => (Spec => []LoadedTogether)
<1> SUFFICES ASSUME KeepsEnough, RealOptimStays PROVE Spec => []LoadedTogether
  OBVIOUS
<1> DEFINE Inv == TypeInv /\ SafetyInv /\ RealWritten /\ MemoryInv
<1>1. Init => Inv
  BY TypeInit, SafetyInit, StepsNumbers DEF Init, RealWritten, MemoryInv, AfterRanks
<1>2. Inv /\ [Next]_vars => Inv'
  BY TypeNext, SafetyNext, RealNext, MemoryNext DEF SafetyInv
<1>3. Inv => LoadedTogether
  BY DEF MemoryInv, LoadedTogether
<1> QED BY <1>1, <1>2, <1>3, PTL DEF Spec
-----------------------------------------------------------------------------
(* How many checkpoints a start leaves behind.  This holds whatever number is *)
(* kept, so RanksInv is shown to be inductive on its own.                     *)

LEMMA RanksNext == ASSUME TypeInv, RanksInv, [Next]_vars PROVE RanksInv'
<1>1. CASE driver' # "saving"
  BY <1>1 DEF RanksInv
<1>2. CASE BeginSave \/ Returned \/ Barrier1 \/ Barrier2
  BY <1>2, SaveTypes DEF BeginSave, Returned, Barrier1, Barrier2, Everyone, RanksInv, First, Middle, Last
<1>3. ASSUME NEW r \in Ranks, RankStep(r) PROVE RanksInv'
  <2>1. /\ driver = "saving" /\ rank \in [Ranks -> Phases]
        /\ \/ rank[r] = "prepare" /\ rank' = [rank EXCEPT ![r] = "barrier1"]
           \/ rank[r] = "write" /\ rank' = [rank EXCEPT ![r] = "writing"]
           \/ rank[r] = "writing" /\ rank' = [rank EXCEPT ![r] = "barrier2"]
           \/ rank[r] = "real" /\ rank' = [rank EXCEPT ![r] = "return"]
    BY <1>3, SaveTypes DEF RankStep, Prepare, Write, WriteReal
  <2> QED BY <2>1 DEF RanksInv, First, Middle, Last
<1>4. CASE UNCHANGED vars
  BY <1>4 DEF vars, jobVars, RanksInv
<1> QED BY <1>1, <1>2, <1>3, <1>4
    DEF Next, JobStep, StartFromScratch, Resume, ResumeRaises, Crash, SaveData, TruncateTracker,
        WriteTracker

\* Rank 0 has rotated the paths of c and the path of this save is not among them yet.
Writing(c) == driver = "saving" /\ component = c /\ rank[0] \in {"barrier1"} \cup Middle

Remembered(c) == {previous[c][i] : i \in DOMAIN previous[c]}
Present(c) == IF Writing(c) THEN {step} ELSE {}

\* While a job is up, what is on disk was left by earlier starts, is remembered,
\* or is being written; only the first part is out of its rotation's reach.
Accounted(c) ==
  \E old \in SUBSET Steps :
    /\ Cardinality(old) <= (starts - 1) * MaxToKeep[c]
    /\ OnDisk(c) \subseteq old \cup Remembered(c) \cup Present(c)

OwnAccounted(c) == OwnOnDisk(c) \subseteq Remembered(c) \cup Present(c)

Counted(c) ==
  /\ Len(previous[c]) <= MaxToKeep[c]
  /\ Writing(c) => Len(previous[c]) < MaxToKeep[c]
  /\ IF driver = "down"
     THEN /\ Cardinality(OnDisk(c)) <= starts * MaxToKeep[c]
          /\ Cardinality(OwnOnDisk(c)) <= MaxToKeep[c]
     ELSE Accounted(c) /\ OwnAccounted(c)

CountInv == \A c \in Components : MaxToKeep[c] > 0 => Counted(c)

\* No file is from a later start; what rank 0 remembers, and what a rank has
\* written of this save, is not from an earlier one.
AgesInv ==
  /\ \A c \in Components, s \in Steps, r \in Ranks : shard[c][s][r] <= starts
  /\ \A c \in Components : \A i \in DOMAIN previous[c] : \A r \in Ranks :
       shard[c][previous[c][i]][r] \notin 1..(starts - 1)
  /\ driver = "saving" =>
       \A r \in Ranks : rank[r] = "barrier2" => shard[component][step][r] \notin 1..(starts - 1)

LEMMA AgeTypes ==
  ASSUME TypeInv
  PROVE  /\ starts \in Nat
         /\ \A c \in Components, s \in Steps, r \in Ranks : shard[c][s][r] \in Int
         /\ \A c \in Components : /\ previous[c] \in Seq(Steps)
                                 /\ \A i \in DOMAIN previous[c] : previous[c][i] \in Steps
<1>1. \A x \in Contents : x \in Int
  BY CkptConfig DEF Contents, Absent, Torn
<1> QED BY <1>1, SaveTypes

\* The rotation removes remembered paths only.
LEMMA RotatedRemembered ==
  ASSUME TypeInv, NEW c \in Components
  PROVE  /\ Rotated(c).gone \subseteq Remembered(c)
         /\ \A i \in DOMAIN Rotated(c).left : Rotated(c).left[i] \in Remembered(c)
<1> DEFINE paths == previous[c]
<1>1. paths \in Seq(Steps) /\ MaxToKeep[c] \in Nat /\ Len(paths) \in Nat
  BY SaveTypes, CkptConfig DEF Components
<1>2. CASE MaxToKeep[c] > 0 /\ Len(paths) >= MaxToKeep[c]
  <2>1. KeepStart(c) \in 1..Len(paths)
    BY <1>1, <1>2 DEF KeepStart
  <2>2. /\ Rotated(c).gone = {paths[i] : i \in 1..KeepStart(c)}
        /\ Rotated(c).left = SubSeq(paths, KeepStart(c) + 1, Len(paths))
    BY <1>2 DEF Rotated
  <2>3. \A i \in 1..KeepStart(c) : paths[i] \in Remembered(c)
    BY <1>1, <2>1 DEF Remembered
  <2> HIDE DEF paths
  <2>4. \A i \in DOMAIN Rotated(c).left :
          i + KeepStart(c) \in DOMAIN paths /\ Rotated(c).left[i] = paths[i + KeepStart(c)]
    BY <1>1, <2>1, <2>2
  <2> QED BY <2>2, <2>3, <2>4 DEF Remembered, paths
<1>3. CASE ~(MaxToKeep[c] > 0 /\ Len(paths) >= MaxToKeep[c])
  BY <1>1, <1>3 DEF Rotated, Remembered
<1> QED BY <1>2, <1>3

LEMMA WriteEffect ==
  ASSUME TypeInv, NEW q \in Ranks, Write(q)
  PROVE  /\ \A c \in Components, s \in Steps, r \in Ranks :
              shard'[c][s][r] = shard[c][s][r] \/ shard'[c][s][r] \in {Torn, starts}
         /\ rank'[q] = "barrier2" => shard'[component][step][q] = starts
         /\ \A r \in Ranks : r # q => rank'[r] = rank[r]
<1>1. /\ component \in Components /\ step \in Steps /\ rank \in [Ranks -> Phases]
      /\ shard \in [Components -> [Steps -> [Ranks -> Contents]]]
  BY SaveTypes DEF Write, Saving
<1>2. CASE /\ rank' = [rank EXCEPT ![q] = "writing"]
           /\ shard' = [shard EXCEPT ![component][step][q] = Torn]
  <2>1. ASSUME NEW c \in Components, NEW s \in Steps, NEW r \in Ranks
        PROVE  shard'[c][s][r] = IF c = component /\ s = step /\ r = q THEN Torn ELSE shard[c][s][r]
    BY <1>1, <1>2
  <2> QED BY <1>1, <1>2, <2>1
<1>3. CASE /\ rank' = [rank EXCEPT ![q] = "barrier2"]
           /\ shard' = [shard EXCEPT ![component][step][q] = starts]
  <2>1. ASSUME NEW c \in Components, NEW s \in Steps, NEW r \in Ranks
        PROVE  shard'[c][s][r] = IF c = component /\ s = step /\ r = q THEN starts ELSE shard[c][s][r]
    BY <1>1, <1>3
  <2> QED BY <1>1, <1>3, <2>1
<1> QED BY <1>2, <1>3 DEF Write

LEMMA PrepareEffect ==
  ASSUME TypeInv, NEW q \in Ranks, Prepare(q)
  PROVE  /\ \A c \in Components, s \in Steps, r \in Ranks :
              \/ shard'[c][s][r] = shard[c][s][r]
              \/ shard'[c][s][r] = Absent /\ s \in Rotated(c).gone
         /\ \A c \in Components : previous'[c] = previous[c] \/ previous'[c] = Rotated(c).left
<1>1. /\ component \in Components
      /\ shard \in [Components -> [Steps -> [Ranks -> Contents]]]
      /\ previous \in [Components -> Seq(Steps)]
  BY SaveTypes
<1>2. CASE q # 0
  BY <1>2 DEF Prepare
<1>3. CASE q = 0
  <2>1. /\ previous' = [previous EXCEPT ![component] = Rotated(component).left]
        /\ shard' = [shard EXCEPT ![component] =
             [s \in Steps |-> IF s \in Rotated(component).gone THEN Everyone(Absent) ELSE @[s]]]
    BY <1>3 DEF Prepare
  <2>2. ASSUME NEW c \in Components PROVE previous'[c] = previous[c] \/ previous'[c] = Rotated(c).left
    BY <1>1, <2>1
  <2>3. ASSUME NEW c \in Components, NEW s \in Steps
        PROVE  \/ shard'[c][s] = shard[c][s]
               \/ s \in Rotated(c).gone /\ shard'[c][s] = Everyone(Absent)
    BY <1>1, <2>1
  <2>4. \A r \in Ranks : Everyone(Absent)[r] = Absent
    BY DEF Everyone
  <2> QED BY <2>2, <2>3, <2>4
<1> QED BY <1>2, <1>3

LEMMA AgesInit == Init => AgesInv
BY DEF Init, AgesInv, Absent

LEMMA AgesNext == ASSUME TypeInv, AgesInv, [Next]_vars PROVE AgesInv'
<1>1. CASE StartFromScratch \/ Resume \/ ResumeRaises
  <2>1. /\ starts' = starts + 1 /\ shard' = shard /\ driver' # "saving"
        /\ \A c \in Components : previous'[c] = <<>>
    BY <1>1 DEF StartFromScratch, Resume, ResumeRaises, Boot, diskVars
  <2>2. \A c \in Components, s \in Steps, r \in Ranks : shard'[c][s][r] <= starts'
    BY <2>1, AgeTypes DEF AgesInv
  <2> QED BY <2>1, <2>2 DEF AgesInv
<1>2. CASE BeginSave \/ Barrier1 \/ Returned
  <2>1. /\ UNCHANGED <<starts, previous, shard>>
        /\ driver' = "saving" => \A r \in Ranks : rank'[r] # "barrier2"
    BY <1>2 DEF BeginSave, Barrier1, Returned, Everyone, diskVars
  <2> QED BY <2>1 DEF AgesInv
<1>3. CASE Crash \/ SaveData \/ TruncateTracker \/ WriteTracker
  <2>1. UNCHANGED <<starts, previous, shard>> /\ driver' # "saving"
    BY <1>3 DEF Crash, SaveData, TruncateTracker, WriteTracker, diskVars
  <2> QED BY <2>1 DEF AgesInv
<1>4. ASSUME NEW q \in Ranks, Prepare(q) PROVE AgesInv'
  <2>1. /\ UNCHANGED <<starts, component, step, driver>> /\ component \in Components
        /\ driver = "saving" /\ step \in Steps /\ starts \in Nat
        /\ rank' = [rank EXCEPT ![q] = "barrier1"] /\ rank \in [Ranks -> Phases]
    BY <1>4, SaveTypes DEF Prepare, Saving
  <2>2. \A c \in Components, s \in Steps, r \in Ranks :
          shard'[c][s][r] = shard[c][s][r] \/ shard'[c][s][r] = Absent
    BY <1>4, PrepareEffect
  <2>3. \A c \in Components : \A i \in DOMAIN previous'[c] : previous'[c][i] \in Remembered(c)
    BY <1>4, PrepareEffect, RotatedRemembered DEF Remembered
  <2>4. \A c \in Components, s \in Steps, r \in Ranks :
          s \in Remembered(c) => shard'[c][s][r] \notin 1..(starts - 1)
    BY <2>1, <2>2 DEF AgesInv, Remembered, Absent
  <2>5. \A c \in Components, s \in Steps, r \in Ranks : shard'[c][s][r] <= starts
    BY <2>1, <2>2 DEF AgesInv, Absent
  <2>6. \A r \in Ranks : rank'[r] = "barrier2" => shard'[component][step][r] \notin 1..(starts - 1)
    BY <2>1, <2>2 DEF AgesInv, Absent
  <2>7. \A c \in Components : \A i \in DOMAIN previous'[c] : previous'[c][i] \in Steps
    BY <2>3, AgeTypes DEF Remembered
  <2> QED BY <2>1, <2>3, <2>4, <2>5, <2>6, <2>7 DEF AgesInv
<1>5. ASSUME NEW q \in Ranks, Write(q) PROVE AgesInv'
  <2>1. /\ UNCHANGED <<starts, component, step, driver, previous>> /\ component \in Components
        /\ driver = "saving" /\ step \in Steps /\ starts \in Nat /\ rank \in [Ranks -> Phases]
    BY <1>5, SaveTypes DEF Write, Saving
  <2>2. \A c \in Components, s \in Steps, r \in Ranks :
          shard'[c][s][r] = shard[c][s][r] \/ shard'[c][s][r] \in {Torn, starts}
    BY <1>5, WriteEffect
  <2>3. \A c \in Components, s \in Steps, r \in Ranks : shard'[c][s][r] <= starts
    BY <2>1, <2>2 DEF AgesInv, Torn
  <2>4. \A c \in Components : \A i \in DOMAIN previous[c] : \A r \in Ranks :
          shard'[c][previous[c][i]][r] \notin 1..(starts - 1)
    <3> SUFFICES ASSUME NEW c \in Components, NEW i \in DOMAIN previous[c], NEW r \in Ranks
                 PROVE  shard'[c][previous[c][i]][r] \notin 1..(starts - 1)
      OBVIOUS
    <3>1. previous[c][i] \in Steps
      BY AgeTypes
    <3>2. shard[c][previous[c][i]][r] \notin 1..(starts - 1)
      BY DEF AgesInv
    <3>3. Torn \notin 1..(starts - 1) /\ starts \notin 1..(starts - 1)
      BY <2>1 DEF Torn
    <3> QED BY <2>2, <3>1, <3>2, <3>3
  <2>5. \A r \in Ranks : r # q => rank'[r] = rank[r]
    BY <1>5, WriteEffect
  <2>6. rank'[q] = "barrier2" => shard'[component][step][q] = starts
    BY <1>5, WriteEffect
  <2>7. \A r \in Ranks : rank'[r] = "barrier2" => shard'[component][step][r] \notin 1..(starts - 1)
    BY <2>1, <2>2, <2>5, <2>6 DEF AgesInv, Torn
  <2> QED BY <2>1, <2>3, <2>4, <2>7 DEF AgesInv
<1>6. CASE Barrier2
  <2>1. /\ UNCHANGED <<starts, shard>> /\ component \in Components /\ step \in Steps
        /\ previous' = [previous EXCEPT ![component] = Append(previous[component], step)]
        /\ driver = "saving" /\ \A r \in Ranks : rank[r] = "barrier2"
        /\ \A r \in Ranks : rank'[r] # "barrier2"
    BY <1>6, SaveTypes DEF Barrier2, AllDumped, Everyone, Remembers, Saving, diskVars
  <2>2. \A r \in Ranks : shard[component][step][r] \notin 1..(starts - 1)
    BY <2>1 DEF AgesInv
  <2>5. \A c \in Components : \A j \in DOMAIN previous[c] : previous[c][j] \in Remembered(c)
    BY DEF Remembered
  <2>3. ASSUME NEW c \in Components, NEW i \in DOMAIN previous'[c]
        PROVE  previous'[c][i] \in Remembered(c) \/ (c = component /\ previous'[c][i] = step)
    <3>1. CASE c # component
      <4>1. previous'[c] = previous[c]
        BY <2>1, <3>1, SaveTypes
      <4>2. i \in DOMAIN previous[c]
        BY <4>1
      <4> QED BY <2>5, <4>1, <4>2
    <3>2. CASE c = component
      <4>1. PICK paths \in Seq(Steps) : paths = previous[c]
        BY SaveTypes
      <4>2. previous'[c] = Append(paths, step)
        BY <2>1, <3>2, <4>1, SaveTypes
      <4>3. /\ DOMAIN Append(paths, step) = 1..(Len(paths) + 1) /\ DOMAIN paths = 1..Len(paths)
            /\ Len(paths) \in Nat /\ Append(paths, step)[Len(paths) + 1] = step
            /\ \A j \in 1..Len(paths) : Append(paths, step)[j] = paths[j]
        BY <2>1
      <4>4. i \in 1..Len(paths) \/ i = Len(paths) + 1
        BY <4>2, <4>3
      <4>5. CASE i = Len(paths) + 1
        BY <3>2, <4>2, <4>3, <4>5
      <4>6. CASE i \in 1..Len(paths)
        <5>1. previous'[c][i] = previous[c][i] /\ i \in DOMAIN previous[c]
          BY <4>1, <4>2, <4>3, <4>6
        <5> QED BY <5>1, <2>5
      <4> QED BY <4>4, <4>5, <4>6
    <3> QED BY <3>1, <3>2
  <2>4. \A c \in Components : \A s \in Remembered(c), r \in Ranks : shard[c][s][r] \notin 1..(starts - 1)
    BY DEF AgesInv, Remembered
  <2> QED BY <2>1, <2>2, <2>3, <2>4 DEF AgesInv
<1>7. ASSUME NEW q \in Ranks, WriteReal(q) PROVE AgesInv'
  <2>1. /\ UNCHANGED <<starts, component, step, driver, previous, shard>>
        /\ rank \in [Ranks -> Phases] /\ rank' = [rank EXCEPT ![q] = "return"]
    BY <1>7, SaveTypes DEF WriteReal
  <2>2. \A r \in Ranks : rank'[r] = "barrier2" => rank[r] = "barrier2"
    BY <2>1
  <2> QED BY <2>1, <2>2 DEF AgesInv
<1>8. CASE UNCHANGED vars
  BY <1>8 DEF vars, jobVars, diskVars, AgesInv
<1> QED BY <1>1, <1>2, <1>3, <1>4, <1>5, <1>6, <1>7, <1>8 DEF Next, JobStep, RankStep

\* No step removes a shard that an earlier start has written.
LEMMA EarlierStays ==
  ASSUME TypeInv, AgesInv, [Next]_vars, NEW c \in Components PROVE EarlierLeft(c)
<1> SUFFICES ASSUME NEW s \in Steps, NEW r \in Ranks, shard[c][s][r] \in 1..(starts - 1),
                    shard'[c][s][r] = Absent
             PROVE  FALSE
  BY DEF EarlierLeft
<1>1. shard[c][s][r] # Absent /\ starts # Absent /\ Torn # Absent
  BY AgeTypes DEF Absent, Torn
<1>2. CASE shard' = shard
  BY <1>1, <1>2
<1>3. ASSUME NEW q \in Ranks, Write(q) PROVE FALSE
  BY <1>1, <1>3, WriteEffect
<1>4. ASSUME NEW q \in Ranks, Prepare(q) PROVE FALSE
  <2>1. s \in Rotated(c).gone
    BY <1>1, <1>4, PrepareEffect
  <2>2. s \in Remembered(c)
    BY <2>1, RotatedRemembered
  <2> QED BY <2>2 DEF AgesInv, Remembered
<1> QED BY <1>2, <1>3, <1>4
    DEF Next, JobStep, RankStep, vars, jobVars, diskVars, StartFromScratch, Resume, ResumeRaises,
        Crash, BeginSave, Barrier1, Barrier2, Returned, SaveData, TruncateTracker, WriteTracker,
        WriteReal

\* A list has at most as many different members as it is long.
LEMMA RememberedSize ==
  ASSUME TypeInv, NEW c \in Components
  PROVE  IsFiniteSet(Remembered(c)) /\ Cardinality(Remembered(c)) <= Len(previous[c])
<1> DEFINE paths == previous[c]
<1>1. paths \in Seq(Steps) /\ Len(paths) \in Nat /\ DOMAIN paths = 1..Len(paths)
  BY SaveTypes
<1>2. Remembered(c) = {paths[i] : i \in 1..Len(paths)}
  BY <1>1 DEF Remembered
<1> HIDE DEF paths
<1>3. ExistsSurjection(1..Len(paths), {paths[i] : i \in 1..Len(paths)})
  <2>1. [i \in 1..Len(paths) |-> paths[i]]
          \in Surjection(1..Len(paths), {paths[i] : i \in 1..Len(paths)})
    BY DEF Surjection
  <2> QED BY <2>1 DEF ExistsSurjection
<1>4. Remembered(c) \subseteq Steps
  BY <1>1, <1>2
<1>5. IsFiniteSet(Steps)
  BY FS_Interval, CkptConfig DEF Steps
<1> QED BY <1>1, <1>2, <1>3, <1>4, <1>5, FS_SurjCardinalityBound, FS_Subset DEF paths

LEMMA OneMore ==
  ASSUME NEW n \in Nat, NEW k \in Nat
  PROVE  (n - 1) * k + k = n * k
OBVIOUS

LEMMA CountedSize ==
  ASSUME TypeInv, NEW c \in Components, MaxToKeep[c] > 0, Counted(c)
  PROVE  /\ Cardinality(OnDisk(c)) <= starts * MaxToKeep[c]
         /\ Cardinality(OwnOnDisk(c)) <= MaxToKeep[c]
<1>1. MaxToKeep[c] \in Nat /\ starts \in Nat /\ IsFiniteSet(Steps)
  <2>1. MaxToKeep[c] \in Nat
    BY CkptConfig DEF Components
  <2>2. starts \in Nat
    BY CkptConfig DEF TypeInv, TypeOK, JobOK
  <2>3. 1 \in Int /\ MaxStep \in Int
    BY CkptConfig
  <2>4. IsFiniteSet(1..MaxStep)
    BY <2>3, FS_Interval
  <2> QED BY <2>1, <2>2, <2>4 DEF Steps
<1>2. CASE driver = "down"
  BY <1>2 DEF Counted
<1>3. CASE driver # "down"
  <2>1. PICK old \in SUBSET Steps :
          /\ Cardinality(old) <= (starts - 1) * MaxToKeep[c]
          /\ OnDisk(c) \subseteq old \cup Remembered(c) \cup Present(c)
    BY <1>3 DEF Counted, Accounted
  <2>2. IsFiniteSet(old) /\ Cardinality(old) \in Nat
    BY <1>1, FS_Subset, FS_CardinalityType
  <2>3. /\ IsFiniteSet(Remembered(c)) /\ Cardinality(Remembered(c)) \in Nat
        /\ Cardinality(Remembered(c)) <= Len(previous[c]) /\ Len(previous[c]) \in Nat
    BY RememberedSize, FS_CardinalityType, SaveTypes
  <2>4. /\ IsFiniteSet(Present(c)) /\ Cardinality(Present(c)) \in Nat
        /\ Cardinality(Present(c)) = IF Writing(c) THEN 1 ELSE 0
    <3>1. CASE Writing(c)
      <4>1. Present(c) = {step}
        BY <3>1 DEF Present
      <4>2. IsFiniteSet({step}) /\ Cardinality({step}) = 1
        BY FS_Singleton
      <4> QED BY <3>1, <4>1, <4>2
    <3>2. CASE ~Writing(c)
      <4>1. Present(c) = {}
        BY <3>2 DEF Present
      <4> QED BY <3>2, <4>1, FS_EmptySet
    <3> QED BY <3>1, <3>2
  <2>5. Cardinality(Remembered(c)) + Cardinality(Present(c)) <= MaxToKeep[c]
    BY <1>1, <2>3, <2>4 DEF Counted
  <2>10. Cardinality(OwnOnDisk(c)) <= MaxToKeep[c]
    <3>1. OwnOnDisk(c) \subseteq Remembered(c) \cup Present(c)
      BY <1>3 DEF Counted, OwnAccounted
    <3>2. /\ IsFiniteSet(Remembered(c) \cup Present(c))
          /\ Cardinality(Remembered(c) \cup Present(c))
               = Cardinality(Remembered(c)) + Cardinality(Present(c))
                   - Cardinality(Remembered(c) \cap Present(c))
      BY <2>3, <2>4, FS_Union
    <3>3. IsFiniteSet(Remembered(c) \cap Present(c))
      BY <2>3, FS_Subset
    <3>4. IsFiniteSet(OwnOnDisk(c)) /\ Cardinality(OwnOnDisk(c)) <= Cardinality(Remembered(c) \cup Present(c))
      BY <3>1, <3>2, FS_Subset
    <3>5. /\ Cardinality(OwnOnDisk(c)) \in Nat /\ Cardinality(Remembered(c) \cup Present(c)) \in Nat
          /\ Cardinality(Remembered(c) \cap Present(c)) \in Nat
      BY <3>2, <3>3, <3>4, FS_CardinalityType
    <3> QED BY <1>1, <2>3, <2>4, <2>5, <3>2, <3>4, <3>5
  <2>6. /\ IsFiniteSet(old \cup Remembered(c) \cup Present(c))
        /\ Cardinality(old \cup Remembered(c) \cup Present(c))
             <= Cardinality(old) + Cardinality(Remembered(c)) + Cardinality(Present(c))
    <3>1. ASSUME NEW S, IsFiniteSet(S), NEW T, IsFiniteSet(T)
          PROVE  /\ IsFiniteSet(S \cup T) /\ Cardinality(S \cup T) \in Nat
                 /\ Cardinality(S) \in Nat /\ Cardinality(T) \in Nat
                 /\ Cardinality(S \cup T) <= Cardinality(S) + Cardinality(T)
      <4>1. /\ IsFiniteSet(S \cup T)
            /\ Cardinality(S \cup T) = Cardinality(S) + Cardinality(T) - Cardinality(S \cap T)
        BY <3>1, FS_Union
      <4>2. IsFiniteSet(S \cap T)
        BY <3>1, FS_Subset
      <4>3. /\ Cardinality(S \cap T) \in Nat /\ Cardinality(S \cup T) \in Nat
            /\ Cardinality(S) \in Nat /\ Cardinality(T) \in Nat
        BY <3>1, <4>1, <4>2, FS_CardinalityType
      <4> QED BY <4>1, <4>3
    <3>2. /\ IsFiniteSet(old \cup Remembered(c)) /\ Cardinality(old \cup Remembered(c)) \in Nat
          /\ Cardinality(old \cup Remembered(c)) <= Cardinality(old) + Cardinality(Remembered(c))
      BY <2>2, <2>3, <3>1
    <3>3. /\ IsFiniteSet(old \cup Remembered(c) \cup Present(c))
          /\ Cardinality(old \cup Remembered(c) \cup Present(c)) \in Nat
          /\ Cardinality(old \cup Remembered(c) \cup Present(c))
               <= Cardinality(old \cup Remembered(c)) + Cardinality(Present(c))
      BY <2>4, <3>1, <3>2
    <3> QED BY <2>2, <2>3, <2>4, <3>2, <3>3
  <2>7. /\ Cardinality(OnDisk(c)) \in Nat
        /\ Cardinality(old \cup Remembered(c) \cup Present(c)) \in Nat
        /\ Cardinality(OnDisk(c)) <= Cardinality(old \cup Remembered(c) \cup Present(c))
    BY <2>1, <2>6, FS_Subset, FS_CardinalityType
  <2>8. (starts - 1) * MaxToKeep[c] + MaxToKeep[c] = starts * MaxToKeep[c]
    BY <1>1, OneMore
  <2>9. (starts - 1) * MaxToKeep[c] \in Int /\ starts * MaxToKeep[c] \in Int
    BY <1>1
  <2> QED BY <1>1, <2>1, <2>2, <2>3, <2>4, <2>5, <2>6, <2>7, <2>8, <2>9, <2>10, SMTT(30)
<1> QED BY <1>2, <1>3

\* Steps that add nothing to the disk but the save under way.
LEMMA CountKept ==
  ASSUME TypeInv, NEW c \in Components, MaxToKeep[c] > 0, Counted(c),
         OnDisk(c)' \subseteq OnDisk(c) \cup Present(c)',
         OwnOnDisk(c)' \subseteq OwnOnDisk(c) \cup Present(c)', driver # "down", driver' # "down",
         previous'[c] = previous[c], starts' = starts,
         Present(c) \subseteq Present(c)', Writing(c)' => Len(previous[c]) < MaxToKeep[c]
  PROVE  Counted(c)'
<1>1. PICK old \in SUBSET Steps :
        /\ Cardinality(old) <= (starts - 1) * MaxToKeep[c]
        /\ OnDisk(c) \subseteq old \cup Remembered(c) \cup Present(c)
  BY DEF Counted, Accounted
<1>2. Remembered(c)' = Remembered(c)
  BY DEF Remembered
<1>3. OnDisk(c)' \subseteq old \cup Remembered(c)' \cup Present(c)'
  BY <1>1, <1>2
<1>4. Accounted(c)'
  BY <1>1, <1>3 DEF Accounted
<1>5. OwnAccounted(c)'
  BY <1>2 DEF Counted, OwnAccounted
<1> QED BY <1>4, <1>5 DEF Counted

LEMMA CountInit == Init => CountInv
<1> SUFFICES ASSUME Init, NEW c \in Components, MaxToKeep[c] > 0 PROVE Counted(c)
  BY DEF CountInv
<1>1. MaxToKeep[c] \in Nat
  BY CkptConfig DEF Components
<1>2. /\ OnDisk(c) = {} /\ OwnOnDisk(c) = {}
      /\ Len(previous[c]) = 0 /\ driver = "down" /\ starts = 0
  BY DEF Init, OnDisk, OwnOnDisk, Whole
<1> QED BY <1>1, <1>2, FS_EmptySet DEF Counted, Writing

\* What a new start finds on disk is old.
LEMMA CountBoot ==
  ASSUME TypeInv, AgesInv, CountInv, StartFromScratch \/ Resume \/ ResumeRaises PROVE CountInv'
<1> SUFFICES ASSUME NEW c \in Components, MaxToKeep[c] > 0 PROVE Counted(c)'
  BY DEF CountInv
<1>1. /\ driver = "down" /\ driver' \in {"train", "failed"} /\ starts' = starts + 1
      /\ previous'[c] = <<>> /\ shard' = shard
  BY DEF StartFromScratch, Resume, ResumeRaises, Boot, diskVars
<1>2. OnDisk(c)' = OnDisk(c) /\ OnDisk(c) \in SUBSET Steps
  BY <1>1 DEF OnDisk
<1>3. Cardinality(OnDisk(c)) <= starts * MaxToKeep[c]
  BY <1>1 DEF CountInv, Counted
<1>4. starts = starts' - 1 /\ MaxToKeep[c] \in Nat
  <2>1. starts \in Nat
    BY CkptConfig DEF TypeInv, TypeOK, JobOK
  <2>2. MaxToKeep[c] \in Nat
    BY CkptConfig DEF Components
  <2> QED BY <1>1, <2>1, <2>2
<1>5. Accounted(c)'
  BY <1>2, <1>3, <1>4 DEF Accounted
<1>6. ~Writing(c)' /\ Len(previous'[c]) = 0
  BY <1>1 DEF Writing
<1>7. OwnOnDisk(c)' = {}
  <2>1. starts \in Nat
    BY SaveTypes
  <2>2. \A s \in Steps, r \in Ranks : shard[c][s][r] <= starts /\ shard[c][s][r] \in Int
    BY AgeTypes DEF AgesInv
  <2> QED BY <1>1, <2>1, <2>2 DEF OwnOnDisk
<1> QED BY <1>1, <1>4, <1>5, <1>6, <1>7 DEF Counted, OwnAccounted

LEMMA CountCrash == ASSUME TypeInv, CountInv, Crash PROVE CountInv'
<1> SUFFICES ASSUME NEW c \in Components, MaxToKeep[c] > 0 PROVE Counted(c)'
  BY DEF CountInv
<1>1. driver' = "down" /\ UNCHANGED <<previous, shard, starts>>
  BY DEF Crash, diskVars
<1>2. OnDisk(c)' = OnDisk(c) /\ OwnOnDisk(c)' = OwnOnDisk(c) /\ ~Writing(c)'
  BY <1>1 DEF OnDisk, OwnOnDisk, Whole, Writing
<1>3. Counted(c)
  BY DEF CountInv
<1> QED BY <1>1, <1>2, <1>3, CountedSize DEF Counted

\* Steps of the driver, the barriers and the REAL optimizer, which leave the
\* shards and the remembered paths alone.
LEMMA CountDriver ==
  ASSUME TypeInv, CountInv,
         \/ BeginSave \/ Barrier1 \/ Returned \/ SaveData \/ TruncateTracker \/ WriteTracker
         \/ \E r \in Ranks : WriteReal(r)
  PROVE  CountInv'
<1> SUFFICES ASSUME NEW c \in Components, MaxToKeep[c] > 0 PROVE Counted(c)'
  BY DEF CountInv
<1>1. /\ driver # "down" /\ driver' # "down" /\ UNCHANGED <<previous, shard, starts>>
  BY DEF BeginSave, Barrier1, Returned, SaveData, TruncateTracker, WriteTracker, WriteReal, diskVars
<1>2. OnDisk(c)' = OnDisk(c) /\ OwnOnDisk(c)' = OwnOnDisk(c)
  BY <1>1 DEF OnDisk, OwnOnDisk, Whole
<1>3. /\ Writing(c) <=> Writing(c)'
      /\ Writing(c) => step' = step
  <2>1. CASE BeginSave \/ SaveData \/ TruncateTracker \/ WriteTracker
    BY <2>1, StepsNumbers DEF BeginSave, SaveData, TruncateTracker, WriteTracker, Writing, Everyone, Middle
  <2>2. CASE Barrier1
    BY <2>2, StepsNumbers DEF Barrier1, Writing, Everyone, Middle
  <2>3. CASE Returned
    BY <2>3, StepsNumbers DEF Returned, Writing, Everyone, Middle
  <2>4. ASSUME NEW r \in Ranks, WriteReal(r) PROVE Writing(c)' = Writing(c) /\ step' = step
    <3>1. rank[0] \in {"real", "return"} \/ rank'[0] = rank[0]
      BY <2>4, SaveTypes, StepsNumbers DEF WriteReal
    <3>2. rank[0] \in {"real", "return"} => rank'[0] \in {"real", "return"}
      BY <2>4, SaveTypes, StepsNumbers DEF WriteReal
    <3> QED BY <2>4, <3>1, <3>2 DEF WriteReal, Writing, Middle
  <2> QED BY <2>1, <2>2, <2>3, <2>4
<1>4. Counted(c)
  BY DEF CountInv
<1> QED BY <1>1, <1>2, <1>3, <1>4, CountKept DEF Present, Counted

\* Rank 0 makes room for the save before it is written.
LEMMA CountPrepare == ASSUME TypeInv, RanksInv, CountInv, NEW r \in Ranks, Prepare(r) PROVE CountInv'
<1> SUFFICES ASSUME NEW c \in Components, MaxToKeep[c] > 0 PROVE Counted(c)'
  BY DEF CountInv
<1>1. /\ driver = "saving" /\ driver' = driver /\ component' = component /\ step' = step
      /\ starts' = starts /\ rank[r] = "prepare" /\ rank' = [rank EXCEPT ![r] = "barrier1"]
  BY DEF Prepare
<1>2. Counted(c) /\ MaxToKeep[c] \in Nat /\ rank \in [Ranks -> Phases] /\ component \in Components
  BY SaveTypes, CkptConfig DEF CountInv, Components
<1>3. CASE r # 0
  <2>1. previous' = previous /\ shard' = shard /\ rank'[0] = rank[0]
    BY <1>1, <1>2, <1>3, StepsNumbers DEF Prepare
  <2>2. /\ OnDisk(c)' = OnDisk(c) /\ OwnOnDisk(c)' = OwnOnDisk(c)
        /\ (Writing(c)' <=> Writing(c)) /\ Present(c)' = Present(c)
    BY <1>1, <2>1 DEF OnDisk, OwnOnDisk, Whole, Writing, Present
  <2> QED BY <1>1, <1>2, <2>1, <2>2, CountKept DEF Counted
<1>4. CASE r = 0 /\ c # component
  <2>1. previous'[c] = previous[c] /\ shard'[c] = shard[c] /\ ~Writing(c) /\ ~Writing(c)'
    BY <1>1, <1>2, <1>4, SaveTypes DEF Prepare, Writing
  <2>2. /\ OnDisk(c)' = OnDisk(c) /\ OwnOnDisk(c)' = OwnOnDisk(c)
        /\ Present(c)' = {} /\ Present(c) = {}
    BY <1>1, <2>1 DEF OnDisk, OwnOnDisk, Whole, Present
  <2> QED BY <1>1, <1>2, <2>1, <2>2, CountKept
<1>5. CASE r = 0 /\ c = component
  <2> DEFINE paths == previous[c]
             rotated == Rotated(c)
  <2>1. /\ previous'[c] = rotated.left
        /\ \A s \in Steps : shard'[c][s] = IF s \in rotated.gone THEN Everyone(Absent) ELSE shard[c][s]
    BY <1>1, <1>2, <1>5, SaveTypes DEF Prepare
  <2>2. ~Writing(c) /\ Writing(c)'
    BY <1>1, <1>2, <1>5, StepsNumbers DEF Writing, Middle
  <2>3. paths \in Seq(Steps) /\ Len(paths) \in Nat /\ DOMAIN paths = 1..Len(paths)
        /\ Len(paths) <= MaxToKeep[c]
    BY <1>2, SaveTypes DEF Counted
  <2>4. /\ Len(rotated.left) < MaxToKeep[c]
        /\ \A i \in DOMAIN paths :
             paths[i] \in rotated.gone \/ \E j \in DOMAIN rotated.left : rotated.left[j] = paths[i]
    <3>1. CASE Len(paths) < MaxToKeep[c]
      <4>1. rotated.left = paths
        BY <1>2, <2>3, <3>1 DEF Rotated
      <4> QED BY <3>1, <4>1
    <3>2. CASE Len(paths) >= MaxToKeep[c]
      <4>1. /\ rotated.gone = {paths[i] : i \in 1..KeepStart(c)}
            /\ rotated.left = SubSeq(paths, KeepStart(c) + 1, Len(paths))
        BY <1>2, <3>2 DEF Rotated
      <4>2. KeepStart(c) = 1
        BY <1>2, <2>3, <3>2 DEF KeepStart
      <4> HIDE DEF paths, rotated
      <4>3. /\ Len(rotated.left) = Len(paths) - 1
            /\ DOMAIN rotated.left = 1..(Len(paths) - 1)
            /\ \A i \in 1..(Len(paths) - 1) : rotated.left[i] = paths[i + 1]
        BY <1>2, <2>3, <3>2, <4>1, <4>2
      <4>4. ASSUME NEW i \in DOMAIN paths
            PROVE  paths[i] \in rotated.gone \/ \E j \in DOMAIN rotated.left : rotated.left[j] = paths[i]
        <5>1. CASE i = 1
          BY <2>3, <4>1, <4>2, <5>1
        <5>2. CASE i # 1
          <6>1. i - 1 \in 1..(Len(paths) - 1) /\ (i - 1) + 1 = i
            BY <2>3, <5>2
          <6> QED BY <4>3, <6>1
        <5> QED BY <5>1, <5>2
      <4>5. Len(rotated.left) < MaxToKeep[c]
        <5>1. /\ Len(rotated.left) = Len(paths) - 1 /\ Len(paths) <= MaxToKeep[c]
              /\ Len(paths) \in Nat /\ MaxToKeep[c] \in Nat
          BY <1>2, <2>3, <4>3
        <5> QED BY <5>1
      <4> QED BY <4>4, <4>5
    <3> QED BY <1>2, <2>3, <3>1, <3>2
  <2>5. PICK old \in SUBSET Steps :
          /\ Cardinality(old) <= (starts - 1) * MaxToKeep[c]
          /\ OnDisk(c) \subseteq old \cup Remembered(c)
    BY <1>1, <1>2, <2>2 DEF Counted, Accounted, Present
  <2>6. OnDisk(c)' \subseteq old \cup Remembered(c)'
    <3> SUFFICES ASSUME NEW s \in Steps, s \in OnDisk(c)', s \notin old PROVE s \in Remembered(c)'
      BY DEF OnDisk
    <3>1. PICK q \in Ranks : shard'[c][s][q] # Absent
      BY DEF OnDisk
    <3>2. s \notin rotated.gone /\ shard[c][s][q] # Absent
      BY <2>1, <3>1 DEF Everyone
    <3>3. s \in Remembered(c)
      BY <2>5, <3>2 DEF OnDisk
    <3>4. PICK j \in DOMAIN rotated.left : rotated.left[j] = s
      BY <2>4, <3>2, <3>3 DEF Remembered
    <3> QED BY <2>1, <3>4 DEF Remembered
  <2>7. Accounted(c)'
    BY <1>1, <2>5, <2>6 DEF Accounted
  <2>8. Len(rotated.left) \in Nat
    BY RotatedType, SaveTypes
  <2>9. OwnAccounted(c)'
    <3> SUFFICES ASSUME NEW s \in Steps, s \in OwnOnDisk(c)' PROVE s \in Remembered(c)'
      BY DEF OwnAccounted, OwnOnDisk
    <3>1. PICK q \in Ranks : Whole(shard'[c][s][q]) /\ shard'[c][s][q] = starts
      BY <1>1 DEF OwnOnDisk, Whole
    <3>2. s \notin rotated.gone /\ Whole(shard[c][s][q]) /\ shard[c][s][q] = starts
      BY <2>1, <3>1 DEF Everyone, Whole
    <3>3. s \in Remembered(c)
      BY <1>1, <1>2, <2>2, <3>2 DEF OwnOnDisk, Counted, OwnAccounted, Present
    <3>4. PICK j \in DOMAIN rotated.left : rotated.left[j] = s
      BY <2>4, <3>2, <3>3 DEF Remembered
    <3> QED BY <2>1, <3>4 DEF Remembered
  <2> QED BY <1>1, <1>2, <2>1, <2>4, <2>7, <2>8, <2>9 DEF Counted
<1> QED BY <1>3, <1>4, <1>5

LEMMA CountWrite == ASSUME TypeInv, RanksInv, CountInv, NEW r \in Ranks, Write(r) PROVE CountInv'
<1> SUFFICES ASSUME NEW c \in Components, MaxToKeep[c] > 0 PROVE Counted(c)'
  BY DEF CountInv
<1>1. /\ driver = "saving" /\ driver' = driver /\ UNCHANGED <<component, step, starts, previous>>
      /\ rank[r] \in Middle /\ component \in Components /\ rank \in [Ranks -> Phases] /\ step \in Steps
      /\ shard \in [Components -> [Steps -> [Ranks -> Contents]]] /\ Counted(c)
  BY SaveTypes DEF Write, Middle, Saving, CountInv
<1>2. \A q \in Ranks : rank[q] \in Middle
  BY <1>1 DEF RanksInv, First, Middle, Last
<1>3. \A q \in Ranks : rank'[q] \in Middle
  BY <1>1, <1>2 DEF Write, Middle
<1>4. (Writing(c) <=> c = component) /\ (Writing(c)' <=> c = component)
  BY <1>1, <1>2, <1>3, StepsNumbers DEF Writing
<1>5. \A s \in Steps, q \in Ranks : c # component \/ s # step => shard'[c][s][q] = shard[c][s][q]
  BY <1>1 DEF Write
<1>6. OnDisk(c)' \subseteq OnDisk(c) \cup Present(c)'
  BY <1>1, <1>4, <1>5 DEF OnDisk, Present
<1>7. OwnOnDisk(c)' \subseteq OwnOnDisk(c) \cup Present(c)'
  BY <1>1, <1>4, <1>5 DEF OwnOnDisk, Whole, Present
<1> QED BY <1>1, <1>4, <1>6, <1>7, CountKept DEF Present, Counted

\* The path of this save is remembered, in the room made for it.
LEMMA CountBarrier2 == ASSUME TypeInv, RanksInv, CountInv, Barrier2 PROVE CountInv'
<1> SUFFICES ASSUME NEW c \in Components, MaxToKeep[c] > 0 PROVE Counted(c)'
  BY DEF CountInv
<1>1. /\ driver = "saving" /\ driver' = driver /\ UNCHANGED <<component, step, starts, shard>>
      /\ rank[0] = "barrier2" /\ rank'[0] \in Last
      /\ previous' = [previous EXCEPT ![component] = Remembers(component)]
  BY StepsNumbers DEF Barrier2, AllDumped, Everyone, Last, diskVars
<1>2. /\ Counted(c) /\ component \in Components /\ MaxToKeep[c] \in Nat
      /\ previous \in [Components -> Seq(Steps)] /\ step \in Steps
  BY <1>1, SaveTypes, CkptConfig DEF CountInv, Components, Saving
<1>3. /\ OnDisk(c)' = OnDisk(c) /\ OwnOnDisk(c)' = OwnOnDisk(c)
      /\ ~Writing(c)' /\ Present(c)' = {}
  BY <1>1 DEF OnDisk, OwnOnDisk, Whole, Writing, Middle, Last, Present
<1>4. CASE c # component
  <2>1. previous'[c] = previous[c] /\ Present(c) = {}
    BY <1>1, <1>2, <1>4 DEF Present, Writing
  <2> QED BY <1>1, <1>2, <1>3, <2>1, CountKept
<1>5. CASE c = component
  <2>1. Writing(c) /\ previous'[c] = Append(previous[c], step) /\ Present(c) = {step}
    BY <1>1, <1>2, <1>5 DEF Writing, Middle, Present, Remembers
  <2>2. PICK paths \in Seq(Steps) : paths = previous[c]
    BY <1>2
  <2>3. /\ Len(paths) < MaxToKeep[c] /\ Len(paths) \in Nat
        /\ Len(Append(paths, step)) = Len(paths) + 1
        /\ DOMAIN Append(paths, step) = 1..(Len(paths) + 1) /\ DOMAIN paths = 1..Len(paths)
        /\ Append(paths, step)[Len(paths) + 1] = step
        /\ \A i \in 1..Len(paths) : Append(paths, step)[i] = paths[i]
    BY <1>2, <2>1, <2>2 DEF Counted
  <2>4. Remembered(c) \cup {step} \subseteq Remembered(c)'
    BY <2>1, <2>2, <2>3 DEF Remembered
  <2>5. PICK old \in SUBSET Steps :
          /\ Cardinality(old) <= (starts - 1) * MaxToKeep[c]
          /\ OnDisk(c) \subseteq old \cup Remembered(c) \cup {step}
    BY <1>1, <1>2, <2>1 DEF Counted, Accounted
  <2>6. OnDisk(c)' \subseteq old \cup Remembered(c)' \cup Present(c)'
    BY <1>3, <2>4, <2>5
  <2>7. Accounted(c)'
    BY <1>1, <2>5, <2>6 DEF Accounted
  <2>8. Len(previous'[c]) <= MaxToKeep[c]
    BY <1>2, <2>1, <2>2, <2>3
  <2>9. OwnAccounted(c)'
    BY <1>1, <1>2, <1>3, <2>1, <2>4 DEF Counted, OwnAccounted
  <2> QED BY <1>1, <1>3, <2>7, <2>8, <2>9 DEF Counted
<1> QED BY <1>4, <1>5

LEMMA CountNext == ASSUME TypeInv, RanksInv, AgesInv, CountInv, [Next]_vars PROVE CountInv'
<1>1. CASE UNCHANGED vars
  <2>1. UNCHANGED <<driver, component, rank, step, starts, previous, shard>>
    BY <1>1 DEF vars, jobVars, diskVars
  <2> SUFFICES ASSUME NEW c \in Components, MaxToKeep[c] > 0 PROVE Counted(c)'
    BY DEF CountInv
  <2>2. /\ OnDisk(c)' = OnDisk(c) /\ Remembered(c)' = Remembered(c)
        /\ OwnOnDisk(c)' = OwnOnDisk(c) /\ Writing(c)' = Writing(c)
    BY <2>1 DEF OnDisk, OwnOnDisk, Whole, Remembered, Writing
  <2>3. /\ Present(c)' = Present(c) /\ (Accounted(c) => Accounted(c)')
        /\ (OwnAccounted(c) => OwnAccounted(c)')
    BY <2>1, <2>2 DEF Present, Accounted, OwnAccounted
  <2> QED BY <2>1, <2>2, <2>3 DEF CountInv, Counted
<1> QED BY <1>1, CountBoot, CountCrash, CountDriver, CountPrepare, CountWrite, CountBarrier2
    DEF Next, JobStep, RankStep

\* Whatever number of checkpoints is to be kept, and wherever saves are cut off:
\* a start of the job has at most that many of a component of its own, leaves
\* at most that many behind, and removes none that an earlier start has left.
THEOREM KeptPerStartCorrect == Spec => KeptPerStart
<1> DEFINE Inv == TypeInv /\ RanksInv /\ AgesInv /\ CountInv
           Bounded == \A c \in Components : MaxToKeep[c] > 0 =>
                        /\ Cardinality(OwnOnDisk(c)) <= MaxToKeep[c]
                        /\ Cardinality(OnDisk(c)) <= starts * MaxToKeep[c]
           Kept == \A c \in Components : MaxToKeep[c] > 0 =>
                     /\ Cardinality(OwnOnDisk(c))' <= MaxToKeep[c]
                     /\ Cardinality(OnDisk(c))' <= starts' * MaxToKeep[c]
                     /\ EarlierLeft(c)
<1>1. Init => Inv
  BY TypeInit, AgesInit, CountInit DEF Init, RanksInv
<1>2. Inv /\ [Next]_vars => Inv'
  BY TypeNext, RanksNext, AgesNext, CountNext
<1>3. Inv => Bounded
  BY CountedSize DEF CountInv
<1>4. Inv /\ Bounded' /\ [Next]_vars => [Kept]_vars
  BY EarlierStays
<1> HIDE DEF Inv, Bounded, Kept
<1>5. Spec => [][Kept]_vars
  BY <1>1, <1>2, <1>3, <1>4, PTL DEF Spec
<1> QED BY <1>5 DEF KeptPerStart, Kept
=============================================================================
