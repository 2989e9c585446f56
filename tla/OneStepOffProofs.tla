-------------------------- MODULE OneStepOffProofs --------------------------
(***************************************************************************)
(* Proofs about OneStepOff, for any number of rollout ranks, parameters,   *)
(* batches and kills: type correctness, that a batch is one update old at  *)
(* most, what a validation sees, how many steps and batches the resumes    *)
(* cost, and what a finished job has saved.                                *)
(***************************************************************************)
EXTENDS OneStepOff, TLAPS, FiniteSetTheorems, SequenceTheorems

-----------------------------------------------------------------------------
(* The inductive invariants *)

Training == {"train", "validate", "save", "end"}

\* The driver has a batch in hand.
Overlapping == caller = "step" /\ pc \in {"fetch", "sync", "called", "syncing"}
InStep == pc \in Training \/ Overlapping

\* A batch that is trained on, or waits for it, is a batch of the dataloader.
TypeInv ==
  /\ TypeOK
  /\ pc \in {"fetch", "loop"} => caller # "init_workers"
  /\ pc \in Training => caller = "step"
  /\ pc = "load" => caller = "init_workers"
  /\ InStep => batch.num # 0

\* What the workers may be doing.
ActorIdle == queue[Actor] = <<>> /\ progress[Actor] = 0
ActorLeaving == queue[Actor] = <<"sync">> /\ progress[Actor] = Params
ActorCalled == queue[Actor] = <<"sync">> /\ progress[Actor] = 0
ActorCalledTwice == queue[Actor] = <<"sync", "sync">> /\ progress[Actor] = Params

RanksIdle == \A r \in RolloutRanks : queue[r] = <<>> /\ progress[r] = 0
RanksCalled == \A r \in RolloutRanks : queue[r] = <<"sync">> /\ progress[r] = 0
RanksGenerate == \A r \in RolloutRanks : queue[r] = <<"generate">> /\ progress[r] \in 0..1

\* Parameters 1..k of every rank are the present weights.
SentUpTo(k) == \A r \in RolloutRanks, j \in Keys : j <= k => model[r][j] = weights.version

\* The three parts of a synchronisation: the actor has yet to leave the one
\* before; all workers have exchanged the same number of parameters; they leave.
Waiting == ActorCalledTwice /\ RanksCalled
Exchanging ==
  \E k \in 0..(Params - 1) :
    /\ \A w \in Workers : queue[w] = <<"sync">> /\ progress[w] = k
    /\ SentUpTo(k)
Leaving ==
  /\ \A w \in Workers : \/ queue[w] = <<"sync">> /\ progress[w] = Params
                        \/ queue[w] = <<>> /\ progress[w] = 0
  /\ SentUpTo(Params)

ActorInv ==
  /\ pc \in {"load", "fetch", "sync", "loop", "train"} => ActorIdle \/ ActorLeaving
  /\ pc \in {"validate", "save", "end", "done"} => ActorIdle
  /\ pc = "called" => ActorCalled \/ ActorCalledTwice

RanksInv ==
  /\ pc \in {"load", "fetch", "sync", "called"} => RanksIdle
  /\ pc \in Training \cup {"loop"} => RanksIdle \/ RanksGenerate

SyncInv == pc = "syncing" => Waiting \/ Exchanging \/ Leaving

WorkersInv == ActorInv /\ RanksInv /\ SyncInv

\* The version in the engine of the rollout ranks, when it is one.
AnyRank == CHOOSE r \in RolloutRanks : TRUE
Sent == model[AnyRank][1]
Uniform == \A r \in RolloutRanks, k \in Keys : model[r][k] = Sent
Lag == weights.version - Sent

\* The ranks that have finished the generation in flight used that version.
Answered ==
  future # 0 => \A r \in RolloutRanks :
                  queue[r] = <<>> \/ progress[r] = 1 => answers[r] = {Sent}

\* No generation was started in this step.
NothingStarted == is_last_step \/ future = 0

BatchAge == batch.gen \in {{weights.version}, {weights.version - 1}}

AgeInv ==
  /\ pc = "loop" /\ future # 0 => Uniform /\ Answered /\ Lag \in 0..1
  /\ pc = "fetch" /\ caller = "step" => Uniform /\ Lag \in 0..1
  /\ Overlapping => BatchAge
  /\ pc = "train" => /\ BatchAge /\ Uniform /\ Answered
                     /\ Lag \in 0..(IF NothingStarted THEN 1 ELSE 0)
  /\ pc \in Training \ {"train"} => /\ Uniform /\ Answered
                                    /\ Lag \in 0..(IF NothingStarted THEN 2 ELSE 1)
  /\ ValidationLag

\* The numbers of the batches that are trained on, in flight and to be trained on.
\* Before the loop there is none; the next one drawn is newer than all.
BeforeLoop == caller \in {"init_workers", "fit"} /\ pc \in {"load", "fetch", "sync", "called", "syncing"}
JustDrawn == pc \in {"sync", "called", "syncing"} /\ caller # "init_workers"
InFlight == future = cursor /\ future \notin weights.used
InHand == batch.num \in 1..cursor /\ batch.num \notin weights.used

UsedInv ==
  /\ \A n \in disk.weights.used : n <= disk.cursor
  /\ pc # "down" /\ caller # "init_workers" => \A n \in weights.used : n <= cursor

NumbersInv ==
  /\ BeforeLoop => future = 0 /\ batch.num = 0
  /\ JustDrawn => /\ cursor \notin {0, future, batch.num}
                  /\ cursor \notin weights.used
  /\ pc = "loop" => batch.num = 0 /\ (future # 0 => InFlight)
  /\ Overlapping => /\ batch.num = future /\ InHand /\ ~is_last_step
                    /\ pc = "fetch" => batch.num = cursor
  /\ pc \in Training => future \in {0, cursor}
  /\ pc = "train" => InHand
  /\ pc \in Training \ {"train"} => batch.num \in weights.used
  /\ pc \in Training /\ NothingStarted => batch.num = cursor
  /\ pc \in Training /\ ~NothingStarted => InFlight /\ (pc = "train" => batch.num # cursor)

\* The batches that were drawn and will never be trained on.
Lost == ((1..cursor) \ weights.used) \ ({future, batch.num} \cup (IF JustDrawn THEN {cursor} ELSE {}))
LostOnDisk == (1..disk.cursor) \ disk.weights.used

LostInv ==
  /\ Cardinality(LostOnDisk) <= crashes + 1
  /\ pc = "down" \/ caller = "init_workers" => Cardinality(LostOnDisk) <= crashes
  /\ pc \notin {"down"} \cup Terminal /\ caller # "init_workers" => Cardinality(Lost) <= crashes

\* How far the steps are.
StepsInv ==
  /\ disk.step <= TotalTrainingSteps + crashes
  /\ pc = "down" \/ caller = "init_workers" => disk.step + 1 <= TotalTrainingSteps + crashes
  /\ pc \notin {"down"} \cup Terminal /\ caller # "init_workers" =>
       global_steps <= TotalTrainingSteps + crashes
  /\ InStep => (is_last_step <=> LastStep)

\* What the last step has saved.
SavedInv ==
  /\ pc \in Training /\ is_last_step => RanksIdle
  /\ pc = "end" /\ is_last_step /\ SaveFreq > 0 => disk.weights = weights /\ disk.cursor = cursor
  /\ SavedAtEnd
-----------------------------------------------------------------------------
(* Constants and calls *)

LEMMA Config ==
  /\ Params \in Nat \ {0} /\ BatchesPerEpoch \in Nat \ {0} /\ TotalTrainingSteps \in Nat \ {0}
  /\ TotalEpochs \in Nat /\ CriticWarmup \in Nat /\ SaveFreq \in Nat /\ TestFreq \in Nat
  /\ MaxCrashes \in Nat
  /\ RolloutRanks # {} /\ Actor \notin RolloutRanks
  /\ Actor \in Workers /\ RolloutRanks \subseteq Workers
  /\ Keys \subseteq Nat /\ 1 \in Keys
BY OneStepOffAssumption DEF OneStepOffAssumption, Workers, Keys

LEMMA CallSequences ==
  /\ <<>> \in Seq(Calls) /\ SyncCalls \in Seq(Calls) /\ "generate" \in Calls
  /\ Head(<<"sync">>) = "sync" /\ Head(<<"generate">>) = "generate"
  /\ Head(<<"sync", "sync">>) = "sync"
  /\ Tail(<<"sync">>) = <<>> /\ Tail(<<"generate">>) = <<>>
  /\ Tail(<<"sync", "sync">>) = <<"sync">>
  /\ <<>> \o SyncCalls = <<"sync">> /\ Append(<<>>, "generate") = <<"generate">>
  /\ <<"sync">> # <<>> /\ <<"generate">> # <<>> /\ <<"sync", "sync">> # <<>>
  /\ <<"sync", "sync">> # <<"sync">> /\ <<"generate">> # <<"sync">>
BY DEF SyncCalls, Calls

LEMMA CalledTwice == <<"sync">> \o SyncCalls = <<"sync", "sync">>
<1> DEFINE once == <<"sync">>
           twice == <<"sync", "sync">>
           both == once \o once
<1>1. once \in Seq(Calls) /\ Len(once) = 1 /\ once[1] = "sync"
  BY DEF Calls
<1>2. twice \in Seq(Calls) /\ Len(twice) = 2 /\ twice[1] = "sync" /\ twice[2] = "sync"
  BY DEF Calls
<1>3. both \in Seq(Calls) /\ Len(both) = 2 /\ both[1] = "sync" /\ both[2] = "sync"
  BY <1>1
<1> HIDE DEF both, twice
<1>4. \A i \in 1..2 : both[i] = twice[i]
  BY <1>2, <1>3
<1>5. both = twice
  BY <1>2, <1>3, <1>4, SeqEqual
<1> QED BY <1>5 DEF both, twice, SyncCalls

-----------------------------------------------------------------------------
(* Type correctness *)

LEMMA TypeInit == Init => TypeInv
<1> SUFFICES ASSUME Init PROVE TypeInv
  OBVIOUS
<1>1. DriverOK
  <2>1. batch \in [num : Nat, gen : SUBSET Nat]
    BY DEF Init, NoBatch
  <2>2. pc = "down" /\ caller \in Callers /\ is_last_step \in BOOLEAN /\ validated \subseteq Nat
    BY DEF Init, Callers
  <2>3. {epoch, pos, cursor, global_steps, future, crashes} \subseteq Nat
    BY DEF Init
  <2> QED BY <2>1, <2>2, <2>3 DEF DriverOK
<1>2. WorkersOK
  BY Config, CallSequences DEF Init, WorkersOK
<1>3. LineagesOK
  BY Config DEF Init, LineagesOK, Untrained
<1> QED BY <1>1, <1>2, <1>3 DEF Init, TypeInv, InStep, Overlapping, Training, TypeOK

LEMMA ServedType == TypeInv => Served \subseteq Nat
BY DEF Served, TypeInv, TypeOK, WorkersOK

LEMMA TypeBoot == TypeInv /\ Boot => TypeInv'
<1> SUFFICES ASSUME TypeInv, Boot PROVE TypeInv'
  OBVIOUS
<1>1. DriverOK'
  BY Config DEF Boot, Callers, NoBatch, iterVars, stepVars, TypeInv, TypeOK, DriverOK
<1>2. WorkersOK'
  BY Config, CallSequences DEF Boot, TypeInv, TypeOK, WorkersOK
<1>3. LineagesOK'
  BY Config DEF Boot, Untrained, TypeInv, TypeOK, LineagesOK
<1> QED BY <1>1, <1>2, <1>3 DEF Boot, TypeInv, InStep, Overlapping, Training, TypeOK

LEMMA TypeLoad == TypeInv /\ Load => TypeInv'
<1> SUFFICES ASSUME TypeInv, Load PROVE TypeInv'
  OBVIOUS
<1>1. DriverOK'
  BY Config, ServedType
  DEF Load, RestoredStep, Callers, stepVars, TypeInv, TypeOK, DriverOK, LineagesOK
<1>2. WorkersOK'
  BY Config, CallSequences DEF Load, workVars, TypeInv, TypeOK, WorkersOK
<1>3. LineagesOK'
  BY Config DEF Load, TypeInv, TypeOK, LineagesOK
<1> QED BY <1>1, <1>2, <1>3 DEF Load, TypeInv, InStep, Overlapping, Training, TypeOK

LEMMA TypeFetch == TypeInv /\ Fetch => TypeInv'
<1> SUFFICES ASSUME TypeInv, Fetch PROVE TypeInv'
  OBVIOUS
<1>1. DriverOK'
  BY Config DEF Fetch, stepVars, TypeInv, TypeOK, DriverOK
<1>2. WorkersOK'
  BY Config, CallSequences DEF Fetch, workVars, TypeInv, TypeOK, WorkersOK
<1>3. LineagesOK'
  BY Config DEF Fetch, TypeInv, TypeOK, LineagesOK
<1> QED BY <1>1, <1>2, <1>3 DEF Fetch, TypeInv, InStep, Overlapping, Training, TypeOK

LEMMA TypeFetchNothing == TypeInv /\ FetchNothing => TypeInv'
<1> SUFFICES ASSUME TypeInv, FetchNothing PROVE TypeInv'
  OBVIOUS
<1>1. DriverOK'
  BY Config DEF FetchNothing, AfterFetch, stepVars, iterVars, TypeInv, TypeOK, DriverOK
<1>2. WorkersOK'
  BY Config, CallSequences DEF FetchNothing, AfterFetch, workVars, TypeInv, TypeOK, WorkersOK
<1>3. LineagesOK'
  BY Config DEF FetchNothing, AfterFetch, TypeInv, TypeOK, LineagesOK
<1> QED BY <1>1, <1>2, <1>3 DEF FetchNothing, AfterFetch, TypeInv, InStep, Overlapping, Training,
                                TypeOK, DriverOK,
           Callers

LEMMA TypeCallActor == TypeInv /\ CallActor => TypeInv'
<1> SUFFICES ASSUME TypeInv, CallActor PROVE TypeInv'
  OBVIOUS
<1>1. DriverOK'
  BY Config DEF CallActor, stepVars, iterVars, TypeInv, TypeOK, DriverOK
<1>2. WorkersOK'
  BY Config, CallSequences DEF CallActor, TypeInv, TypeOK, WorkersOK
<1>3. LineagesOK'
  BY Config DEF CallActor, TypeInv, TypeOK, LineagesOK
<1> QED BY <1>1, <1>2, <1>3 DEF CallActor, TypeInv, InStep, Overlapping, Training, TypeOK

LEMMA TypeCallRollout == TypeInv /\ CallRollout => TypeInv'
<1> SUFFICES ASSUME TypeInv, CallRollout PROVE TypeInv'
  OBVIOUS
<1>1. DriverOK'
  BY Config DEF CallRollout, stepVars, iterVars, TypeInv, TypeOK, DriverOK
<1>2. WorkersOK'
  BY Config, CallSequences DEF CallRollout, TypeInv, TypeOK, WorkersOK
<1>3. LineagesOK'
  BY Config DEF CallRollout, TypeInv, TypeOK, LineagesOK
<1> QED BY <1>1, <1>2, <1>3 DEF CallRollout, TypeInv, InStep, Overlapping, Training, TypeOK

LEMMA TypeSynced == TypeInv /\ Synced => TypeInv'
<1> SUFFICES ASSUME TypeInv, Synced PROVE TypeInv'
  OBVIOUS
<1>1. DriverOK'
  BY Config DEF Synced, AfterFetch, Callers, stepVars, iterVars, TypeInv, TypeOK, DriverOK
<1>2. WorkersOK'
  <2>1. queue' \in [Workers -> Seq(Calls)]
    <3>1. \A w \in Workers : queue[w] \in Seq(Calls) /\ Append(queue[w], "generate") \in Seq(Calls)
      BY CallSequences DEF TypeInv, TypeOK, WorkersOK
    <3> QED BY <3>1 DEF Synced, TypeInv, TypeOK, WorkersOK
  <2> QED BY <2>1 DEF Synced, TypeInv, TypeOK, WorkersOK
<1>3. LineagesOK'
  BY Config DEF Synced, AfterFetch, TypeInv, TypeOK, LineagesOK
<1> QED BY <1>1, <1>2, <1>3 DEF Synced, AfterFetch, TypeInv, InStep, Overlapping, Training, TypeOK,
                                DriverOK,
           Callers

LEMMA TypeWorkerStep == TypeInv /\ WorkerStep => TypeInv'
<1> SUFFICES ASSUME TypeInv, WorkerStep PROVE TypeInv'
  OBVIOUS
<1>1. UNCHANGED <<pc, caller, iterVars, stepVars, future, batch, weights, disk, validated, crashes>>
  BY DEF WorkerStep, Broadcast, SyncReturns, Generate, GenerateReturns
<1>2. DriverOK'
  BY <1>1 DEF iterVars, stepVars, TypeInv, TypeOK, DriverOK
<1>3. LineagesOK'
  BY <1>1 DEF TypeInv, TypeOK, LineagesOK
<1>4. WorkersOK'
  <2>1. ASSUME NEW k \in Keys, Broadcast(k) PROVE WorkersOK'
    <3>1. progress' \in [Workers -> 0..Params]
      BY <2>1, Config DEF Broadcast, Keys
    <3>2. ASSUME NEW r \in RolloutRanks
          PROVE  [model[r] EXCEPT ![k] = weights.version] \in [Keys -> Nat]
      BY DEF TypeInv, TypeOK, WorkersOK, LineagesOK
    <3>3. model' \in [RolloutRanks -> [Keys -> Nat]]
      BY <2>1, <3>2 DEF Broadcast
    <3> QED BY <2>1, <3>1, <3>3 DEF Broadcast, TypeInv, TypeOK, WorkersOK
  <2>2. ASSUME NEW w \in Workers, SyncReturns(w) PROVE WorkersOK'
    BY <2>2, Config DEF SyncReturns, Running, TypeInv, TypeOK, WorkersOK
  <2>3. ASSUME NEW r \in RolloutRanks, Generate(r) PROVE WorkersOK'
    BY <2>3, Config, SMTT(30) DEF Generate, TypeInv, TypeOK, WorkersOK
  <2>4. CASE GenerateReturns
    BY <2>4, Config DEF GenerateReturns, Running, TypeInv, TypeOK, WorkersOK
  <2> QED BY <2>1, <2>2, <2>3, <2>4 DEF WorkerStep
<1> QED BY <1>1, <1>2, <1>3, <1>4 DEF TypeInv, InStep, Overlapping, Training, TypeOK

LEMMA TypeGetBatch == TypeInv /\ GetBatch => TypeInv'
<1> SUFFICES ASSUME TypeInv, GetBatch PROVE TypeInv'
  OBVIOUS
<1>1. DriverOK'
  BY Config DEF GetBatch, AfterGet, LastStep, Callers, WorkersOK, iterVars, TypeInv, TypeOK, DriverOK
<1>2. WorkersOK'
  BY Config, CallSequences DEF GetBatch, AfterGet, workVars, TypeInv, TypeOK, WorkersOK
<1>3. LineagesOK'
  BY Config DEF GetBatch, AfterGet, TypeInv, TypeOK, LineagesOK
<1> QED BY <1>1, <1>2, <1>3 DEF GetBatch, AfterGet, TypeInv, InStep, Overlapping, Training, TypeOK

LEMMA TypeTrain == TypeInv /\ Train => TypeInv'
<1> SUFFICES ASSUME TypeInv, Train PROVE TypeInv'
  OBVIOUS
<1>1. DriverOK'
  BY Config DEF Train, stepVars, iterVars, TypeInv, TypeOK, DriverOK
<1>2. WorkersOK'
  BY Config, CallSequences DEF Train, workVars, TypeInv, TypeOK, WorkersOK
<1>3. LineagesOK'
  BY Config DEF Train, DriverOK, TypeInv, InStep, Training, TypeOK, LineagesOK
<1> QED BY <1>1, <1>2, <1>3 DEF Train, TypeInv, InStep, Overlapping, Training, TypeOK

LEMMA TypeValidate == TypeInv /\ Validate => TypeInv'
<1> SUFFICES ASSUME TypeInv, Validate PROVE TypeInv'
  OBVIOUS
<1>1. DriverOK'
  BY Config, ServedType DEF Validate, stepVars, iterVars, TypeInv, TypeOK, DriverOK
<1>2. WorkersOK'
  BY Config, CallSequences DEF Validate, workVars, TypeInv, TypeOK, WorkersOK
<1>3. LineagesOK'
  BY Config DEF Validate, TypeInv, TypeOK, LineagesOK
<1> QED BY <1>1, <1>2, <1>3 DEF Validate, TypeInv, InStep, Overlapping, Training, TypeOK

LEMMA TypeSave == TypeInv /\ Save => TypeInv'
<1> SUFFICES ASSUME TypeInv, Save PROVE TypeInv'
  OBVIOUS
<1>1. DriverOK'
  BY Config DEF Save, stepVars, iterVars, TypeInv, TypeOK, DriverOK
<1>2. WorkersOK'
  BY Config, CallSequences DEF Save, workVars, TypeInv, TypeOK, WorkersOK
<1>3. LineagesOK'
  BY Config DEF Save, DriverOK, TypeInv, TypeOK, LineagesOK
<1> QED BY <1>1, <1>2, <1>3 DEF Save, TypeInv, InStep, Overlapping, Training, TypeOK

LEMMA TypeEndStep == TypeInv /\ EndStep => TypeInv'
<1> SUFFICES ASSUME TypeInv, EndStep PROVE TypeInv'
  OBVIOUS
<1>1. DriverOK'
  BY Config DEF EndStep, Terminal, NoBatch, iterVars, TypeInv, TypeOK, DriverOK
<1>2. WorkersOK'
  BY Config, CallSequences DEF EndStep, workVars, TypeInv, TypeOK, WorkersOK
<1>3. LineagesOK'
  BY Config DEF EndStep, TypeInv, TypeOK, LineagesOK
<1> QED BY <1>1, <1>2, <1>3 DEF EndStep, TypeInv, InStep, Overlapping, Training, TypeOK

LEMMA TypeOutOfData == TypeInv /\ OutOfData => TypeInv'
<1> SUFFICES ASSUME TypeInv, OutOfData PROVE TypeInv'
  OBVIOUS
<1>1. DriverOK'
  BY Config DEF OutOfData, Terminal, stepVars, iterVars, TypeInv, TypeOK, DriverOK
<1>2. WorkersOK'
  BY Config, CallSequences DEF OutOfData, workVars, TypeInv, TypeOK, WorkersOK
<1>3. LineagesOK'
  BY Config DEF OutOfData, TypeInv, TypeOK, LineagesOK
<1> QED BY <1>1, <1>2, <1>3 DEF OutOfData, TypeInv, InStep, Overlapping, Training, TypeOK

LEMMA TypeCrash == TypeInv /\ Crash => TypeInv'
<1> SUFFICES ASSUME TypeInv, Crash PROVE TypeInv'
  OBVIOUS
<1>1. DriverOK'
  BY Config DEF Crash, stepVars, iterVars, TypeInv, TypeOK, DriverOK
<1>2. WorkersOK'
  BY Config, CallSequences DEF Crash, workVars, TypeInv, TypeOK, WorkersOK
<1>3. LineagesOK'
  BY Config DEF Crash, TypeInv, TypeOK, LineagesOK
<1> QED BY <1>1, <1>2, <1>3 DEF Crash, TypeInv, InStep, Overlapping, Training, TypeOK

LEMMA TypeStutter == TypeInv /\ UNCHANGED vars => TypeInv'
BY DEF TypeInv, InStep, Overlapping, Training, TypeOK, DriverOK, WorkersOK, LineagesOK, vars,
       iterVars, stepVars, workVars

LEMMA TypeStep == TypeInv /\ [Next]_vars => TypeInv'
BY TypeBoot, TypeLoad, TypeFetch, TypeFetchNothing, TypeCallActor, TypeCallRollout, TypeSynced,
   TypeWorkerStep, TypeGetBatch, TypeTrain, TypeValidate, TypeSave, TypeEndStep, TypeOutOfData,
   TypeCrash, TypeStutter
DEF Next, DriverStep

\* The types of the overlapped trainer, among them that only batches of the
\* dataloader are trained on.
THEOREM OneStepTypeCorrect == Spec => []TypeOK
<1>1. TypeInv => TypeOK
  BY DEF TypeInv
<1> QED BY <1>1, TypeInit, TypeStep, PTL DEF Spec
-----------------------------------------------------------------------------
(* The workers *)

LEMMA WorkersInit == Init => WorkersInv
BY DEF Init, WorkersInv, ActorInv, RanksInv, SyncInv, Training

LEMMA WorkersBoot == Boot => WorkersInv'
BY Config
DEF Boot, WorkersInv, ActorInv, RanksInv, SyncInv, Training, ActorIdle, RanksIdle

\* Steps of the driver that call nobody.
LEMMA WorkersSilent ==
  ASSUME TypeInv, WorkersInv,
         Load \/ Fetch \/ FetchNothing \/ GetBatch \/ OutOfData \/ Train \/ Validate \/ Save \/ EndStep
  PROVE  WorkersInv'
<1>1. UNCHANGED <<queue, progress>>
  BY DEF Load, Fetch, FetchNothing, GetBatch, OutOfData, Train, Validate, Save, EndStep, workVars
<1>2. (ActorIdle' <=> ActorIdle) /\ (ActorLeaving' <=> ActorLeaving) /\ (RanksIdle' <=> RanksIdle)
      /\ (RanksGenerate' <=> RanksGenerate)
  BY <1>1 DEF ActorIdle, ActorLeaving, RanksIdle, RanksGenerate
<1>3. ActorReady <=> queue[Actor] = <<>>
  BY DEF ActorReady, Idle
<1>4. Idle(RolloutRanks) => ~RanksGenerate
  BY CallSequences, Config DEF Idle, RanksGenerate
<1>5. ActorLeaving => queue[Actor] # <<>>
  BY CallSequences DEF ActorLeaving
<1>6. ActorInv'
  BY <1>2, <1>3, <1>5
  DEF WorkersInv, ActorInv, Load, Fetch, FetchNothing, AfterFetch, GetBatch, AfterGet, OutOfData,
      Train, Validate, Save, EndStep
<1>7. RanksInv'
  BY <1>2, <1>4
  DEF WorkersInv, RanksInv, Training, Load, Fetch, FetchNothing, AfterFetch, GetBatch, AfterGet,
      OutOfData, Train, Validate, Save, EndStep
<1>8. SyncInv'
  BY DEF SyncInv, Load, Fetch, FetchNothing, AfterFetch, GetBatch, AfterGet, OutOfData, Train,
         Validate, Save, EndStep
<1> QED BY <1>6, <1>7, <1>8 DEF WorkersInv

LEMMA WorkersCallActor == TypeInv /\ WorkersInv /\ CallActor => WorkersInv'
<1> SUFFICES ASSUME TypeInv, WorkersInv, CallActor PROVE WorkersInv'
  OBVIOUS
<1>1. queue'[Actor] = queue[Actor] \o SyncCalls /\ progress' = progress
  BY Config DEF CallActor, TypeInv, TypeOK, WorkersOK
<1>2. ActorCalled' \/ ActorCalledTwice'
  BY <1>1, CallSequences, CalledTwice
  DEF CallActor, WorkersInv, ActorInv, ActorIdle, ActorLeaving, ActorCalled, ActorCalledTwice
<1>3. RanksIdle'
  BY <1>1, Config DEF CallActor, WorkersInv, RanksInv, RanksIdle, TypeInv, TypeOK, WorkersOK
<1> QED BY <1>2, <1>3 DEF CallActor, WorkersInv, ActorInv, RanksInv, SyncInv, Training

LEMMA WorkersCallRollout == TypeInv /\ WorkersInv /\ CallRollout => WorkersInv'
<1> SUFFICES ASSUME TypeInv, WorkersInv, CallRollout PROVE WorkersInv'
  OBVIOUS
<1>1. RanksIdle /\ pc' = "syncing" /\ progress' = progress /\ model' = model /\ weights' = weights
  BY DEF CallRollout, WorkersInv, RanksInv
<1>2. queue'[Actor] = queue[Actor] /\ \A r \in RolloutRanks : queue'[r] = queue[r] \o SyncCalls
  BY Config DEF CallRollout
<1>3. RanksCalled'
  BY <1>1, <1>2, CallSequences DEF RanksIdle, RanksCalled
<1>4. CASE ActorCalledTwice
  BY <1>1, <1>2, <1>3, <1>4 DEF WorkersInv, ActorInv, RanksInv, SyncInv, Waiting, ActorCalledTwice,
                                Training
<1>5. CASE ActorCalled
  <2>1. \A w \in Workers : queue'[w] = <<"sync">> /\ progress'[w] = 0
    BY <1>1, <1>2, <1>3, <1>5 DEF RanksCalled, ActorCalled, Workers
  <2>2. SentUpTo(0)'
    BY Config DEF SentUpTo, Keys
  <2>3. Exchanging'
    BY <2>1, <2>2, Config DEF Exchanging
  <2> QED BY <2>3, <1>1 DEF WorkersInv, ActorInv, RanksInv, SyncInv, Training
<1> QED BY <1>4, <1>5 DEF CallRollout, WorkersInv, ActorInv

\* When the ranks have left the synchronisation, all have all parameters.
LEMMA AllSent ==
  ASSUME TypeInv, WorkersInv, pc = "syncing", Idle(RolloutRanks)
  PROVE  Leaving /\ RanksIdle /\ (ActorIdle \/ ActorLeaving)
<1>1. PICK r \in RolloutRanks : queue[r] = <<>>
  BY Config DEF Idle
<1>2. Leaving
  BY <1>1, CallSequences, Config DEF WorkersInv, SyncInv, Waiting, RanksCalled, Exchanging
<1>3. RanksIdle
  BY <1>2, CallSequences, Config DEF Leaving, Idle, RanksIdle
<1> QED BY <1>2, <1>3, Config DEF Leaving, ActorIdle, ActorLeaving

LEMMA WorkersSynced == TypeInv /\ WorkersInv /\ Synced => WorkersInv'
<1> SUFFICES ASSUME TypeInv, WorkersInv, Synced PROVE WorkersInv'
  OBVIOUS
<1>1. RanksIdle /\ (ActorIdle \/ ActorLeaving)
  BY AllSent DEF Synced
<1>2. CASE caller = "init_workers"
  BY <1>1, <1>2
  DEF Synced, WorkersInv, ActorInv, RanksInv, SyncInv, Training, RanksIdle, ActorIdle, ActorLeaving
<1>3. CASE caller # "init_workers"
  <2>1. queue'[Actor] = queue[Actor] /\ progress' = progress
        /\ \A r \in RolloutRanks : queue'[r] = Append(queue[r], "generate")
    BY <1>3, Config DEF Synced
  <2>2. RanksGenerate'
    BY <1>1, <2>1, CallSequences DEF RanksIdle, RanksGenerate
  <2>3. ActorIdle' \/ ActorLeaving'
    BY <1>1, <2>1 DEF ActorIdle, ActorLeaving
  <2>4. pc' \in {"loop", "train"}
    BY <1>3 DEF Synced, AfterFetch
  <2> QED BY <2>2, <2>3, <2>4 DEF WorkersInv, ActorInv, RanksInv, SyncInv, Training
<1> QED BY <1>2, <1>3

\* Only a synchronisation broadcasts, and it does so while no worker has left it.
LEMMA BroadcastInSync ==
  ASSUME TypeInv, WorkersInv, NEW k \in Keys, Broadcast(k), Alive
  PROVE  pc = "syncing" /\ k - 1 \in 0..(Params - 1) /\ SentUpTo(k - 1)
         /\ \A w \in Workers : queue[w] = <<"sync">>
<1>1. PICK r \in RolloutRanks : Running(r, "sync")
  BY Config DEF Broadcast
<1>2. queue[r] # <<>> /\ queue[r] # <<"generate">>
  BY <1>1, CallSequences DEF Running
<1>3. pc = "syncing"
  BY <1>2 DEF WorkersInv, RanksInv, RanksIdle, RanksGenerate, Training, Alive, TypeInv, TypeOK,
              DriverOK
<1>4. k - 1 \in 0..(Params - 1)
  BY Config DEF Keys
<1>5. \A w \in Workers : progress[w] = k - 1 /\ queue[w] # <<>>
  BY DEF Broadcast, Running
<1>6. ~Waiting
  BY <1>4, <1>5, Config DEF Waiting, ActorCalledTwice
<1>7. ~Leaving
  BY <1>4, <1>5, Config DEF Leaving
<1>8. Exchanging
  BY <1>3, <1>6, <1>7 DEF WorkersInv, SyncInv
<1> QED BY <1>3, <1>4, <1>5, <1>8, Config DEF Exchanging

LEMMA WorkersBroadcast ==
  ASSUME TypeInv, WorkersInv, NEW k \in Keys, Broadcast(k), Alive
  PROVE  WorkersInv'
<1>1. pc' = "syncing" /\ queue' = queue /\ weights' = weights
  BY BroadcastInSync DEF Broadcast
<1>2. \A w \in Workers : queue'[w] = <<"sync">> /\ progress'[w] = k
  BY <1>1, BroadcastInSync DEF Broadcast
<1>3. SentUpTo(k)'
  <2> SUFFICES ASSUME NEW r \in RolloutRanks, NEW j \in Keys, j <= k
               PROVE  model'[r][j] = weights.version
    BY <1>1 DEF SentUpTo
  <2>1. model[r] \in [Keys -> Nat] /\ model'[r] = [model[r] EXCEPT ![k] = weights.version]
    BY DEF Broadcast, TypeInv, TypeOK, WorkersOK
  <2>2. CASE j = k
    BY <2>1, <2>2
  <2>3. CASE j # k
    BY <2>1, <2>3, BroadcastInSync, Config DEF SentUpTo
  <2> QED BY <2>2, <2>3
<1>4. CASE k = Params
  BY <1>1, <1>2, <1>3, <1>4 DEF Leaving, WorkersInv, ActorInv, RanksInv, SyncInv, Training
<1>5. CASE k # Params
  <2>1. k \in 0..(Params - 1)
    BY <1>5, Config DEF Keys
  <2>2. Exchanging'
    BY <2>1, <1>2, <1>3 DEF Exchanging
  <2> QED BY <1>1, <2>2 DEF WorkersInv, ActorInv, RanksInv, SyncInv, Training
<1> QED BY <1>4, <1>5

\* Outside a synchronisation only the actor may still have one to leave.
LEMMA LateReturn ==
  ASSUME TypeInv, WorkersInv, NEW w \in Workers, SyncReturns(w), Alive, pc # "syncing"
  PROVE  w = Actor
<1>1. queue[w] # <<>> /\ queue[w] # <<"generate">>
  BY CallSequences DEF SyncReturns, Running
<1> QED BY <1>1, Config
        DEF WorkersInv, RanksInv, RanksIdle, RanksGenerate, Training, Alive, TypeInv, TypeOK,
            DriverOK,
            Workers

LEMMA WorkersSyncReturns ==
  ASSUME TypeInv, WorkersInv, NEW w \in Workers, SyncReturns(w), Alive
  PROVE  WorkersInv'
<1>1. queue'[w] = Tail(queue[w]) /\ progress'[w] = 0 /\ pc' = pc
      /\ \A v \in Workers \ {w} : queue'[v] = queue[v] /\ progress'[v] = progress[v]
  BY DEF SyncReturns, TypeInv, TypeOK, WorkersOK
<1>2. \A k : SentUpTo(k)' <=> SentUpTo(k)
  BY DEF SyncReturns, SentUpTo
<1>3. queue[w] # <<>> /\ queue[w] # <<"generate">> /\ progress[w] = Params
  BY CallSequences DEF SyncReturns, Running
<1>4. CASE pc = "syncing"
  <2>1. CASE Waiting
    <3>1. w = Actor
      BY <2>1, <1>3, Config DEF Waiting, RanksCalled, Workers
    <3>2. \A v \in Workers : queue'[v] = <<"sync">> /\ progress'[v] = 0
      BY <2>1, <3>1, <1>1, CallSequences, Config DEF Waiting, RanksCalled, ActorCalledTwice, Workers
    <3>3. SentUpTo(0)'
      BY Config DEF SentUpTo, Keys
    <3>4. Exchanging'
      BY <3>2, <3>3, Config DEF Exchanging
    <3> QED BY <3>4, <1>1, <1>4 DEF WorkersInv, ActorInv, RanksInv, SyncInv, Training
  <2>2. ~Exchanging
    BY <1>3, Config DEF Exchanging
  <2>3. CASE Leaving
    <3>1. Leaving'
      BY <2>3, <1>1, <1>2, <1>3, CallSequences DEF Leaving
    <3> QED BY <3>1, <1>1, <1>4 DEF WorkersInv, ActorInv, RanksInv, SyncInv, Training
  <2> QED BY <2>1, <2>2, <2>3, <1>4 DEF WorkersInv, SyncInv
<1>5. CASE pc # "syncing"
  <2>1. w = Actor
    BY <1>5, LateReturn
  <2>2. (RanksIdle' <=> RanksIdle) /\ (RanksGenerate' <=> RanksGenerate)
    BY <1>1, <2>1, Config DEF RanksIdle, RanksGenerate
  <2>3. /\ ActorLeaving => ActorIdle'
        /\ ActorCalledTwice => ActorCalled'
        /\ ~ActorIdle /\ ~ActorCalled
    BY <1>1, <1>3, <2>1, CallSequences, Config
    DEF ActorIdle, ActorLeaving, ActorCalled, ActorCalledTwice
  <2> QED BY <1>1, <1>5, <2>2, <2>3 DEF WorkersInv, ActorInv, RanksInv, SyncInv
<1> QED BY <1>4, <1>5

\* A generation runs beside the training, on every rank.
LEMMA GeneratesInTraining ==
  ASSUME TypeInv, WorkersInv, Alive, NEW r \in RolloutRanks, Running(r, "generate")
  PROVE  pc \in Training \cup {"loop"} /\ RanksGenerate
<1>1. queue[r] # <<>> /\ queue[r] # <<"sync">>
  BY CallSequences DEF Running
<1>2. ~RanksIdle /\ ~RanksCalled
  BY <1>1 DEF RanksIdle, RanksCalled
<1>3. ~Exchanging /\ ~Leaving
  BY <1>1, Config DEF Exchanging, Leaving
<1> QED BY <1>2, <1>3
        DEF Waiting, WorkersInv, RanksInv, SyncInv, Training, Alive, TypeInv, TypeOK, DriverOK

LEMMA WorkersGenerate ==
  ASSUME TypeInv, WorkersInv, NEW r \in RolloutRanks, Generate(r), Alive
  PROVE  WorkersInv'
<1>1. pc' = pc /\ queue' = queue /\ \A w \in Workers \ {r} : progress'[w] = progress[w]
      /\ progress'[r] = 1
  BY Config DEF Generate, TypeInv, TypeOK, WorkersOK
<1>2. pc \in Training \cup {"loop"} /\ RanksGenerate
  BY GeneratesInTraining DEF Generate
<1>3. RanksGenerate'
  BY <1>1, <1>2, Config DEF RanksGenerate
<1>4. (ActorIdle' <=> ActorIdle) /\ (ActorLeaving' <=> ActorLeaving)
  BY <1>1, Config DEF ActorIdle, ActorLeaving
<1> QED BY <1>1, <1>2, <1>3, <1>4 DEF WorkersInv, ActorInv, RanksInv, SyncInv, Training

LEMMA WorkersGenerateReturns ==
  ASSUME TypeInv, WorkersInv, GenerateReturns, Alive
  PROVE  WorkersInv'
<1>1. pc \in Training \cup {"loop"} /\ RanksGenerate
  BY GeneratesInTraining, Config DEF GenerateReturns
<1>2. \A r \in RolloutRanks : queue'[r] = Tail(queue[r]) /\ progress'[r] = 0
  BY Config DEF GenerateReturns
<1>3. RanksIdle'
  BY <1>1, <1>2, CallSequences DEF RanksIdle, RanksGenerate
<1>4. queue'[Actor] = queue[Actor] /\ progress'[Actor] = progress[Actor] /\ pc' = pc
  BY Config DEF GenerateReturns
<1> QED BY <1>1, <1>3, <1>4
        DEF WorkersInv, ActorInv, RanksInv, SyncInv, Training, ActorIdle, ActorLeaving

LEMMA WorkersStep == TypeInv /\ WorkersInv /\ [Next]_vars => WorkersInv'
<1> SUFFICES ASSUME TypeInv, WorkersInv, [Next]_vars PROVE WorkersInv'
  OBVIOUS
<1>1. CASE DriverStep
  BY <1>1, WorkersBoot, WorkersSilent, WorkersCallActor, WorkersCallRollout, WorkersSynced
    DEF DriverStep
<1>2. CASE WorkerStep
  BY <1>2, WorkersBroadcast, WorkersSyncReturns, WorkersGenerate, WorkersGenerateReturns
    DEF WorkerStep
<1>3. CASE Crash
  BY <1>3 DEF Crash, WorkersInv, ActorInv, RanksInv, SyncInv, Training
<1>4. CASE UNCHANGED vars
  <2>1. UNCHANGED <<pc, queue, progress, model, weights>>
    BY <1>4 DEF vars, workVars
  <2> QED BY <2>1
          DEF WorkersInv, ActorInv, RanksInv, SyncInv, ActorIdle, ActorLeaving, ActorCalled,
              ActorCalledTwice, RanksIdle, RanksGenerate, RanksCalled, Waiting, Exchanging, Leaving,
              SentUpTo
<1> QED BY <1>1, <1>2, <1>3, <1>4 DEF Next
-----------------------------------------------------------------------------
(* The number of steps *)

LEMMA StepsInit == Init => StepsInv
BY Config DEF Init, StepsInv, InStep, Overlapping, Training

\* Steps between the decision that a step is not the last and its training.
LEMMA StepsOverlap ==
  ASSUME TypeInv, StepsInv, FetchNothing \/ Fetch \/ CallActor \/ CallRollout \/ Synced
  PROVE  StepsInv'
BY Config
DEF StepsInv, FetchNothing, Fetch, AfterFetch, CallActor, CallRollout, Synced, LastStep, InStep,
    Overlapping, Training, Terminal, TypeInv, TypeOK, DriverOK, Callers, stepVars

LEMMA StepsStarts ==
  ASSUME TypeInv, StepsInv, Boot \/ Load \/ Crash
  PROVE  StepsInv'
<1>1. CASE Boot
  BY <1>1, Config
  DEF Boot, StepsInv, LastStep, InStep, Overlapping, Training, Terminal, TypeInv, TypeOK, DriverOK,
      LineagesOK, Callers, stepVars
<1>2. CASE Load
  BY <1>2, Config
  DEF Load, RestoredStep, StepsInv, LastStep, InStep, Overlapping, Training, Terminal, TypeInv,
      TypeOK, DriverOK,
      LineagesOK, Callers, stepVars
<1>3. CASE Crash
  BY <1>3, Config
  DEF Crash, StepsInv, LastStep, InStep, Overlapping, Training, Terminal, TypeInv, TypeOK, DriverOK,
      LineagesOK, Callers, stepVars
<1> QED BY <1>1, <1>2, <1>3

LEMMA StepsLoop ==
  ASSUME TypeInv, StepsInv, GetBatch \/ OutOfData \/ Train \/ Validate \/ Save \/ EndStep
  PROVE  StepsInv'
<1>1. CASE GetBatch
  BY <1>1, Config
  DEF GetBatch, AfterGet, StepsInv, LastStep, InStep, Overlapping, Training, Terminal, TypeInv,
      TypeOK, DriverOK,
      LineagesOK, Callers, stepVars
<1>2. CASE OutOfData
  BY <1>2, Config
  DEF OutOfData, StepsInv, LastStep, InStep, Overlapping, Training, Terminal, TypeInv, TypeOK,
      DriverOK,
      LineagesOK, Callers, stepVars
<1>3. CASE Train
  BY <1>3, Config
  DEF Train, StepsInv, LastStep, InStep, Overlapping, Training, Terminal, TypeInv, TypeOK, DriverOK,
      LineagesOK, Callers, stepVars
<1>4. CASE Validate
  BY <1>4, Config
  DEF Validate, StepsInv, LastStep, InStep, Overlapping, Training, Terminal, TypeInv, TypeOK,
      DriverOK,
      LineagesOK, Callers, stepVars
<1>5. CASE Save
  BY <1>5, Config
  DEF Save, StepsInv, LastStep, InStep, Overlapping, Training, Terminal, TypeInv, TypeOK, DriverOK,
      LineagesOK, Callers, stepVars
<1>6. CASE EndStep
  BY <1>6, Config
  DEF EndStep, StepsInv, LastStep, InStep, Overlapping, Training, Terminal, TypeInv, TypeOK, DriverOK,
      LineagesOK, Callers, stepVars
<1> QED BY <1>1, <1>2, <1>3, <1>4, <1>5, <1>6

\* What the workers leave alone.
LEMMA WorkersKeep ==
  ASSUME WorkerStep
  PROVE  UNCHANGED <<pc, caller, iterVars, stepVars, future, batch, weights, disk, validated, crashes>>
BY DEF WorkerStep, Broadcast, SyncReturns, Generate, GenerateReturns

LEMMA StepsStep == TypeInv /\ StepsInv /\ [Next]_vars => StepsInv'
<1> SUFFICES ASSUME TypeInv, StepsInv, [Next]_vars PROVE StepsInv'
  OBVIOUS
<1>1. CASE UNCHANGED <<pc, caller, stepVars, disk, crashes>>
  BY <1>1 DEF StepsInv, InStep, Overlapping, LastStep, stepVars
<1> QED BY <1>1, WorkersKeep, StepsOverlap, StepsStarts, StepsLoop DEF Next, DriverStep, vars

\* Only a job resumed from its last step goes beyond the configured number of
\* steps: each kill costs at most one step more.
THEOREM StepsOverResumesCorrect == Spec => []StepsOverResumes
<1>1. TypeInv /\ StepsInv => StepsOverResumes
  BY DEF StepsInv, StepsOverResumes, TypeInv, TypeOK, DriverOK, Terminal, Training
<1> QED BY <1>1, TypeInit, TypeStep, StepsInit, StepsStep, PTL DEF Spec
-----------------------------------------------------------------------------
(* The numbers of the batches *)

LEMMA NumbersType ==
  ASSUME TypeInv
  PROVE  /\ cursor \in Nat /\ future \in Nat /\ batch.num \in Nat /\ disk.cursor \in Nat
         /\ weights.used \subseteq Nat \ {0} /\ disk.weights.used \subseteq Nat \ {0}
         /\ caller \in Callers /\ is_last_step \in BOOLEAN
BY DEF TypeInv, TypeOK, DriverOK, LineagesOK

\* What TypeInv says of the place of the driver.
LEMMA PlaceType ==
  ASSUME TypeInv
  PROVE  /\ InStep => batch.num # 0
         /\ pc \in {"fetch", "loop"} => caller # "init_workers"
         /\ pc \in Training => caller = "step"
         /\ pc = "load" => caller = "init_workers"
BY DEF TypeInv

LEMMA NumbersInit == Init => UsedInv /\ NumbersInv
BY DEF Init, UsedInv, NumbersInv, BeforeLoop, JustDrawn, InFlight, InHand, NothingStarted, Training,
       Overlapping, Untrained, NoBatch

LEMMA NumbersStep == TypeInv /\ UsedInv /\ NumbersInv /\ [Next]_vars => UsedInv' /\ NumbersInv'
<1> SUFFICES ASSUME TypeInv, UsedInv, NumbersInv, [Next]_vars PROVE UsedInv' /\ NumbersInv'
  OBVIOUS
<1>1. CASE UNCHANGED <<pc, caller, cursor, is_last_step, future, batch, weights, disk>>
  BY <1>1 DEF UsedInv, NumbersInv, BeforeLoop, JustDrawn, InFlight, InHand, NothingStarted,
              Overlapping
<1>2. CASE Boot
  BY <1>2, NumbersType, PlaceType
  DEF Boot, Untrained, NoBatch, UsedInv, NumbersInv, BeforeLoop, JustDrawn, InFlight, InHand,
      NothingStarted,
      Training, InStep, Overlapping, Callers, Terminal, iterVars, stepVars
<1>3. CASE Load
  BY <1>3, NumbersType, PlaceType
  DEF Load, UsedInv, NumbersInv, BeforeLoop, JustDrawn, InFlight, InHand, NothingStarted,
      Training, InStep, Overlapping, Callers, Terminal, iterVars, stepVars
<1>4. CASE Fetch
  BY <1>4, NumbersType, PlaceType
  DEF Fetch, UsedInv, NumbersInv, BeforeLoop, JustDrawn, InFlight, InHand, NothingStarted,
      Training, InStep, Overlapping, Callers, Terminal, iterVars, stepVars
<1>5. CASE FetchNothing
  BY <1>5, NumbersType, PlaceType
  DEF FetchNothing, AfterFetch, UsedInv, NumbersInv, BeforeLoop, JustDrawn, InFlight, InHand,
      NothingStarted,
      Training, InStep, Overlapping, Callers, Terminal, iterVars, stepVars
<1>6. CASE CallActor
  BY <1>6, NumbersType, PlaceType
  DEF CallActor, UsedInv, NumbersInv, BeforeLoop, JustDrawn, InFlight, InHand, NothingStarted,
      Training, InStep, Overlapping, Callers, Terminal, iterVars, stepVars
<1>7. CASE CallRollout
  BY <1>7, NumbersType, PlaceType
  DEF CallRollout, UsedInv, NumbersInv, BeforeLoop, JustDrawn, InFlight, InHand, NothingStarted,
      Training, InStep, Overlapping, Callers, Terminal, iterVars, stepVars
<1>8. CASE Synced
  BY <1>8, NumbersType, PlaceType
  DEF Synced, AfterFetch, UsedInv, NumbersInv, BeforeLoop, JustDrawn, InFlight, InHand,
      NothingStarted,
      Training, InStep, Overlapping, Callers, Terminal, iterVars, stepVars
<1>9. CASE GetBatch
  BY <1>9, NumbersType, PlaceType
  DEF GetBatch, AfterGet, UsedInv, NumbersInv, BeforeLoop, JustDrawn, InFlight, InHand,
      NothingStarted,
      Training, InStep, Overlapping, Callers, Terminal, iterVars, stepVars
<1>10. CASE OutOfData
  BY <1>10, NumbersType, PlaceType
  DEF OutOfData, UsedInv, NumbersInv, BeforeLoop, JustDrawn, InFlight, InHand, NothingStarted,
      Training, InStep, Overlapping, Callers, Terminal, iterVars, stepVars
<1>11. CASE Train
  BY <1>11, NumbersType, PlaceType
  DEF Train, UsedInv, NumbersInv, BeforeLoop, JustDrawn, InFlight, InHand, NothingStarted,
      Training, InStep, Overlapping, Callers, Terminal, iterVars, stepVars
<1>12. CASE Validate
  BY <1>12, NumbersType, PlaceType
  DEF Validate, UsedInv, NumbersInv, BeforeLoop, JustDrawn, InFlight, InHand, NothingStarted,
      Training, InStep, Overlapping, Callers, Terminal, iterVars, stepVars
<1>13. CASE Save
  BY <1>13, NumbersType, PlaceType
  DEF Save, UsedInv, NumbersInv, BeforeLoop, JustDrawn, InFlight, InHand, NothingStarted,
      Training, InStep, Overlapping, Callers, Terminal, iterVars, stepVars
<1>14. CASE EndStep
  BY <1>14, NumbersType, PlaceType
  DEF EndStep, NoBatch, UsedInv, NumbersInv, BeforeLoop, JustDrawn, InFlight, InHand, NothingStarted,
      Training, InStep, Overlapping, Callers, Terminal, iterVars, stepVars
<1>15. CASE Crash
  BY <1>15, NumbersType, PlaceType
  DEF Crash, UsedInv, NumbersInv, BeforeLoop, JustDrawn, InFlight, InHand, NothingStarted,
      Training, InStep, Overlapping, Callers, Terminal, iterVars, stepVars
<1> QED BY WorkersKeep, <1>1, <1>2, <1>3, <1>4, <1>5, <1>6, <1>7, <1>8, <1>9, <1>10, <1>11, <1>12,
           <1>13, <1>14, <1>15
        DEF Next, DriverStep, vars, iterVars, stepVars
-----------------------------------------------------------------------------
(* Lost batches *)

LEMMA Smaller ==
  ASSUME NEW S, NEW T, NEW n \in Nat, S \subseteq T, IsFiniteSet(T), Cardinality(T) <= n
  PROVE  Cardinality(S) \in Nat /\ Cardinality(S) <= n
<1>1. IsFiniteSet(S) /\ Cardinality(S) <= Cardinality(T)
  BY FS_Subset
<1>2. Cardinality(S) \in Nat /\ Cardinality(T) \in Nat
  BY <1>1, FS_CardinalityType
<1> QED BY <1>1, <1>2

LEMMA Finite ==
  ASSUME TypeInv
  PROVE  /\ IsFiniteSet(Lost) /\ Cardinality(Lost) \in Nat
         /\ IsFiniteSet(LostOnDisk) /\ Cardinality(LostOnDisk) \in Nat
<1>1. IsFiniteSet(1..cursor) /\ IsFiniteSet(1..disk.cursor)
  <2>1. 1 \in Int /\ cursor \in Int /\ disk.cursor \in Int
    BY NumbersType
  <2> QED BY <2>1, FS_Interval
<1>2. Lost \subseteq 1..cursor /\ LostOnDisk \subseteq 1..disk.cursor
  BY DEF Lost, LostOnDisk
<1>3. IsFiniteSet(Lost) /\ IsFiniteSet(LostOnDisk)
  BY <1>1, <1>2, FS_Subset
<1> QED BY <1>3, FS_CardinalityType

LEMMA LostInit == Init => LostInv
<1> SUFFICES ASSUME Init PROVE LostInv
  OBVIOUS
<1>1. LostOnDisk = {}
  BY DEF Init, LostOnDisk
<1> QED BY <1>1, FS_EmptySet DEF Init, LostInv

\* Only a finished save, and only the start of the loop, change what is lost.
LEMMA LostStays ==
  ASSUME TypeInv, UsedInv, NumbersInv, pc \notin {"down"} \cup Terminal, caller # "init_workers",
         Fetch \/ FetchNothing \/ CallActor \/ CallRollout \/ Synced \/ GetBatch \/ OutOfData
         \/ Train \/ Validate \/ Save \/ EndStep
  PROVE  Lost' \subseteq Lost
<1> SUFFICES ASSUME NEW n \in 1..cursor', n \notin weights'.used, n \notin {future', batch'.num},
                    JustDrawn' => n # cursor'
             PROVE  n \in 1..cursor /\ n \notin weights.used /\ n \notin {future, batch.num}
                    /\ (JustDrawn => n # cursor)
  BY DEF Lost
<1>1. CASE Fetch
  BY <1>1, NumbersType, PlaceType
  DEF Fetch, NumbersInv, BeforeLoop, JustDrawn, InFlight, InHand,
      NothingStarted, Training, InStep, Overlapping, Callers, iterVars, stepVars
<1>2. CASE FetchNothing
  BY <1>2, NumbersType, PlaceType
  DEF FetchNothing, AfterFetch, NumbersInv, BeforeLoop, JustDrawn, InFlight, InHand,
      NothingStarted, Training, InStep, Overlapping, Callers, iterVars, stepVars
<1>3. CASE CallActor
  BY <1>3, NumbersType, PlaceType
  DEF CallActor, NumbersInv, BeforeLoop, JustDrawn, InFlight, InHand,
      NothingStarted, Training, InStep, Overlapping, Callers, iterVars, stepVars
<1>4. CASE CallRollout
  BY <1>4, NumbersType, PlaceType
  DEF CallRollout, NumbersInv, BeforeLoop, JustDrawn, InFlight, InHand,
      NothingStarted, Training, InStep, Overlapping, Callers, iterVars, stepVars
<1>5. CASE Synced
  BY <1>5, NumbersType, PlaceType
  DEF Synced, AfterFetch, NumbersInv, BeforeLoop, JustDrawn, InFlight, InHand,
      NothingStarted, Training, InStep, Overlapping, Callers, iterVars, stepVars
<1>6. CASE GetBatch
  BY <1>6, NumbersType, PlaceType
  DEF GetBatch, AfterGet, NumbersInv, BeforeLoop, JustDrawn, InFlight, InHand,
      NothingStarted, Training, InStep, Overlapping, Callers, iterVars, stepVars
<1>7. CASE OutOfData
  BY <1>7, NumbersType, PlaceType
  DEF OutOfData, NumbersInv, BeforeLoop, JustDrawn, InFlight, InHand,
      NothingStarted, Training, InStep, Overlapping, Callers, iterVars, stepVars
<1>8. CASE Train
  BY <1>8, NumbersType, PlaceType
  DEF Train, NumbersInv, BeforeLoop, JustDrawn, InFlight, InHand,
      NothingStarted, Training, InStep, Overlapping, Callers, iterVars, stepVars
<1>9. CASE Validate
  BY <1>9, NumbersType, PlaceType
  DEF Validate, NumbersInv, BeforeLoop, JustDrawn, InFlight, InHand,
      NothingStarted, Training, InStep, Overlapping, Callers, iterVars, stepVars
<1>10. CASE Save
  BY <1>10, NumbersType, PlaceType
  DEF Save, NumbersInv, BeforeLoop, JustDrawn, InFlight, InHand,
      NothingStarted, Training, InStep, Overlapping, Callers, iterVars, stepVars
<1>11. CASE EndStep
  BY <1>11, NumbersType, PlaceType
  DEF EndStep, NoBatch, NumbersInv, BeforeLoop, JustDrawn, InFlight, InHand,
      NothingStarted, Training, InStep, Overlapping, Callers, iterVars, stepVars
<1> QED BY <1>1, <1>2, <1>3, <1>4, <1>5, <1>6, <1>7, <1>8, <1>9, <1>10, <1>11

\* The checkpoint misses the batch in flight.
LEMMA LostBySave ==
  ASSUME TypeInv, NumbersInv, Save, caller # "init_workers"
  PROVE  LostOnDisk' \subseteq LostOnDisk \/ LostOnDisk' \subseteq Lost \cup {future}
<1>1. CASE Due(SaveFreq)
  <2>1. LostOnDisk' = (1..cursor) \ weights.used
    BY <1>1 DEF Save, LostOnDisk
  <2>2. batch.num \in weights.used /\ ~JustDrawn
    BY DEF Save, NumbersInv, Training, JustDrawn
  <2> QED BY <2>1, <2>2 DEF Lost
<1>2. CASE ~Due(SaveFreq)
  BY <1>2 DEF Save, LostOnDisk
<1> QED BY <1>1, <1>2

LEMMA LostStep ==
  TypeInv /\ UsedInv /\ NumbersInv /\ LostInv /\ [Next]_vars => LostInv'
<1> SUFFICES ASSUME TypeInv, UsedInv, NumbersInv, LostInv, [Next]_vars PROVE LostInv'
  OBVIOUS
<1>1. crashes \in Nat /\ caller \in Callers
  BY DEF TypeInv, TypeOK, DriverOK
<1>2. TypeInv'
  BY TypeStep
<1>3. CASE UNCHANGED <<pc, caller, cursor, future, batch, weights, disk, crashes>>
  <2>1. Lost' = Lost /\ LostOnDisk' = LostOnDisk
    BY <1>3 DEF Lost, LostOnDisk, JustDrawn
  <2> QED BY <1>3, <2>1 DEF LostInv
<1>4. ASSUME UNCHANGED <<disk, crashes>>, pc # "down", pc' # "down",
             caller' = "init_workers" <=> caller = "init_workers", pc \notin Terminal, caller # "init_workers" => Lost' \subseteq Lost
      PROVE  LostInv'
  <2>1. LostOnDisk' = LostOnDisk
    BY <1>4 DEF LostOnDisk
  <2>2. caller # "init_workers" => Cardinality(Lost') <= crashes
    <3> SUFFICES ASSUME caller # "init_workers" PROVE Cardinality(Lost') <= crashes
      OBVIOUS
    <3>1. Cardinality(Lost) <= crashes
      BY <1>4 DEF LostInv
    <3> QED BY <3>1, <1>1, <1>4, Finite, Smaller
  <2> QED BY <1>4, <2>1, <2>2 DEF LostInv
<1>5. CASE Fetch \/ FetchNothing \/ CallActor \/ CallRollout \/ Synced \/ GetBatch \/ OutOfData
           \/ Train \/ Validate \/ EndStep
  <2>1. UNCHANGED <<disk, crashes>> /\ pc \notin {"down"} \cup Terminal /\ pc' # "down"
    BY <1>5 DEF Fetch, FetchNothing, AfterFetch, CallActor, CallRollout, Synced, GetBatch, AfterGet,
                OutOfData, Train, Validate, EndStep, Terminal
  <2>2. caller' = "init_workers" <=> caller = "init_workers"
    BY <1>5, PlaceType DEF Fetch, FetchNothing, CallActor, CallRollout, Synced, GetBatch,
                OutOfData, Train, Validate, EndStep
  <2>3. caller # "init_workers" => Lost' \subseteq Lost
    BY <1>5, <2>1, LostStays
  <2> QED BY <1>4, <2>1, <2>2, <2>3
<1>6. CASE Save
  <2>1. caller # "init_workers" /\ pc = "save" /\ pc' = "end" /\ UNCHANGED <<caller, crashes>>
    BY <1>6, PlaceType DEF Save, Training
  <2>2. Cardinality(Lost) <= crashes
    BY <2>1 DEF LostInv, Terminal
  <2>3. Lost' \subseteq Lost
    BY <1>6, <2>1, LostStays DEF Terminal
  <2>4. Cardinality(Lost') <= crashes
    BY <2>2, <2>3, Finite, Smaller, <1>1
  <2>5. IsFiniteSet(Lost \cup {future}) /\ Cardinality(Lost \cup {future}) <= crashes + 1
    <3>1. /\ IsFiniteSet(Lost \cup {future})
          /\ Cardinality(Lost \cup {future}) \in {Cardinality(Lost), Cardinality(Lost) + 1}
      BY Finite, FS_AddElement
    <3> QED BY <3>1, <2>2, Finite, <1>1
  <2>6. Cardinality(LostOnDisk') <= crashes + 1
    <3>0. crashes + 1 \in Nat
      BY <1>1
    <3>1. CASE LostOnDisk' \subseteq LostOnDisk
      BY <3>0, <3>1, Finite, Smaller DEF LostInv
    <3>2. CASE LostOnDisk' \subseteq Lost \cup {future}
      BY <3>0, <3>2, <2>5, Smaller
    <3> QED BY <1>6, <2>1, <3>1, <3>2, LostBySave
  <2> QED BY <2>1, <2>4, <2>6 DEF LostInv
<1>7. CASE Boot
  <2>1. LostOnDisk' = LostOnDisk /\ UNCHANGED crashes /\ caller' = "init_workers" /\ pc = "down"
    BY <1>7 DEF Boot, LostOnDisk
  <2> QED BY <2>1, <1>1, Finite DEF LostInv
<1>8. CASE Load
  <2>1. /\ LostOnDisk' = LostOnDisk /\ UNCHANGED crashes
        /\ caller = "init_workers" /\ caller' = "fit" /\ pc' = "fetch"
    BY <1>8, PlaceType DEF Load, LostOnDisk
  <2>2. Lost' \subseteq LostOnDisk
    BY <1>8 DEF Load, Lost, LostOnDisk
  <2>3. Cardinality(LostOnDisk) <= crashes
    BY <2>1 DEF LostInv
  <2>4. Cardinality(Lost') <= crashes
    BY <2>2, <2>3, <1>1, Finite, Smaller
  <2> QED BY <2>1, <2>3, <2>4, <1>1, Finite DEF LostInv
<1>9. CASE Crash
  <2>1. LostOnDisk' = LostOnDisk /\ crashes' = crashes + 1 /\ pc' = "down"
    BY <1>9 DEF Crash, LostOnDisk
  <2> QED BY <2>1, <1>1, Finite DEF LostInv
<1> QED BY <1>3, <1>5, <1>6, <1>7, <1>8, <1>9, WorkersKeep DEF Next, DriverStep, vars, iterVars

\* A batch is trained on at most once, and a kill costs at most one batch: the
\* one that was in flight when the checkpoint was written.
THEOREM LostPerResumeCorrect == Spec => []LostPerResume
<1>1. TypeInv /\ NumbersInv /\ LostInv => LostPerResume
  <2> SUFFICES ASSUME TypeInv, NumbersInv, LostInv, pc = "train" PROVE
                 /\ batch.num \notin weights.used
                 /\ Cardinality((1..(batch.num - 1)) \ weights.used) <= crashes
    BY DEF LostPerResume
  <2> DEFINE Before == (1..(batch.num - 1)) \ weights.used
  <2>1. batch.num \notin weights.used /\ batch.num \in 1..cursor /\ caller = "step"
        /\ future \notin 1..(batch.num - 1) /\ ~JustDrawn
    <3>1. InHand /\ caller = "step" /\ ~JustDrawn /\ future \in {0, cursor}
      BY PlaceType DEF NumbersInv, Training, JustDrawn
    <3> QED BY <3>1, NumbersType DEF InHand
  <2>2. Before \subseteq Lost
    BY <2>1, NumbersType DEF Lost
  <2>3. Cardinality(Before) <= Cardinality(Lost) /\ IsFiniteSet(Before)
    BY <2>2, Finite, FS_Subset
  <2>4. Cardinality(Lost) <= crashes
    BY <2>1 DEF LostInv, Terminal
  <2>5. Cardinality(Before) \in Nat /\ crashes \in Nat
    BY <2>3, FS_CardinalityType DEF TypeInv, TypeOK, DriverOK
  <2> QED BY <2>1, <2>3, <2>4, <2>5, Finite
<1> QED BY <1>1, TypeInit, TypeStep, NumbersInit, NumbersStep, LostInit, LostStep, PTL DEF Spec
-----------------------------------------------------------------------------
(* The age of a batch *)

LEMMA AnyRankType == AnyRank \in RolloutRanks
BY Config DEF AnyRank

LEMMA VersionsType ==
  ASSUME TypeInv
  PROVE  weights.version \in Nat /\ Sent \in Nat
BY AnyRankType, Config DEF Sent, TypeInv, TypeOK, WorkersOK, LineagesOK

LEMMA ServedSent == Uniform => Served = {Sent}
<1> SUFFICES ASSUME Uniform PROVE Served = {Sent}
  OBVIOUS
<1>1. \A r \in RolloutRanks : {model[r][k] : k \in Keys} = {Sent}
  BY Config DEF Uniform
<1>2. Served = UNION {{Sent} : r \in RolloutRanks}
  BY <1>1, SMTT(30) DEF Served
<1> QED BY <1>2, Config

\* At the end of a synchronisation the ranks have the present weights.
LEMMA SentAll ==
  ASSUME SentUpTo(Params)
  PROVE  Uniform /\ Sent = weights.version
<1>1. \A r \in RolloutRanks, k \in Keys : model[r][k] = weights.version
  BY Config DEF SentUpTo, Keys
<1>2. Sent = weights.version
  BY <1>1, AnyRankType, Config DEF Sent
<1> QED BY <1>1, <1>2 DEF Uniform

LEMMA AgeInit == Init => AgeInv
BY DEF Init, AgeInv, Overlapping, Training, ValidationLag

\* Steps of the driver before the training.
LEMMA AgeBefore ==
  ASSUME TypeInv, WorkersInv, NumbersInv, AgeInv,
         Boot \/ Load \/ Fetch \/ FetchNothing \/ CallActor \/ CallRollout
  PROVE  AgeInv'
<1>1. CASE Boot \/ Load
  BY <1>1 DEF Boot, Load, AgeInv, Overlapping, Training, ValidationLag
<1>2. CASE Fetch
  BY <1>2 DEF Fetch, AgeInv, Overlapping, Training, ValidationLag, BatchAge, Uniform, Sent, Lag,
              workVars
<1>3. CASE FetchNothing
  <2>1. future' = 0 /\ UNCHANGED <<batch, weights, model, is_last_step, caller>> /\ pc' = AfterFetch
        /\ pc = "fetch" /\ caller \in {"fit", "step"}
    BY <1>3, NumbersType, PlaceType DEF FetchNothing, workVars, stepVars, Callers
  <2>2. Answered' /\ NothingStarted'
    BY <2>1 DEF Answered, NothingStarted
  <2> QED BY <2>1, <2>2
          DEF AfterFetch, AgeInv, Overlapping, Training, ValidationLag, BatchAge, Uniform, Sent, Lag
<1>4. CASE CallActor \/ CallRollout
  BY <1>4 DEF CallActor, CallRollout, AgeInv, Overlapping, Training, ValidationLag, BatchAge
<1> QED BY <1>1, <1>2, <1>3, <1>4

LEMMA AgeSynced ==
  ASSUME TypeInv, WorkersInv, NumbersInv, AgeInv, Synced
  PROVE  AgeInv'
<1>1. Leaving /\ RanksIdle
  BY AllSent DEF Synced
<1>2. Uniform' /\ Lag' = 0 /\ UNCHANGED <<weights, model, batch, caller>>
  BY <1>1, SentAll, VersionsType DEF Leaving, Synced, Uniform, Sent, Lag
<1>3. CASE caller = "init_workers"
  BY <1>3, <1>2 DEF Synced, AgeInv, Overlapping, Training, ValidationLag
<1>4. CASE caller # "init_workers"
  <2>1. \A r \in RolloutRanks : queue'[r] = <<"generate">> /\ progress'[r] = 0
    BY <1>1, <1>4, CallSequences, Config DEF Synced, RanksIdle
  <2>2. Answered'
    BY <2>1, CallSequences DEF Answered
  <2>3. pc' = AfterFetch /\ pc = "syncing"
    BY <1>4 DEF Synced
  <2>4. caller = "step" => BatchAge /\ BatchAge'
    BY <1>2, <2>3 DEF AgeInv, Overlapping, BatchAge
  <2>5. caller \in {"fit", "step"}
    BY <1>4, NumbersType DEF Callers
  <2> QED BY <1>2, <2>2, <2>3, <2>4, <2>5
          DEF AfterFetch, AgeInv, Overlapping, Training, ValidationLag
<1> QED BY <1>3, <1>4

LEMMA AgeGetBatch ==
  ASSUME TypeInv, WorkersInv, AgeInv, GetBatch
  PROVE  AgeInv'
<1>1. Uniform /\ Answered /\ Lag \in 0..1 /\ future # 0 /\ Idle(RolloutRanks)
  BY DEF GetBatch, AgeInv
<1>2. \A r \in RolloutRanks : answers[r] = {Sent}
  BY <1>1 DEF Answered, Idle
<1>3. UNION {answers[r] : r \in RolloutRanks} = {Sent}
  <2>1. UNION {answers[r] : r \in RolloutRanks} = UNION {{Sent} : r \in RolloutRanks}
    BY <1>2
  <2> QED BY <2>1, Config
<1>4. batch'.gen = {Sent}
  BY <1>3 DEF GetBatch
<1>5. Sent \in {weights.version, weights.version - 1}
  BY <1>1, VersionsType DEF Lag
<1>6. BatchAge'
  BY <1>4, <1>5 DEF BatchAge, GetBatch
<1>7. UNCHANGED <<queue, progress, model, answers, future, weights>>
  BY DEF GetBatch, workVars
<1>8. Uniform' /\ Answered' /\ Lag' \in 0..1
  BY <1>1, <1>7 DEF Uniform, Answered, Lag, Sent
<1>9. pc' = "fetch" \/ (pc' = "train" /\ NothingStarted')
  BY DEF GetBatch, AfterGet, NothingStarted
<1> QED BY <1>6, <1>8, <1>9 DEF AgeInv, Overlapping, Training, ValidationLag

LEMMA AgeTraining ==
  ASSUME TypeInv, WorkersInv, AgeInv, Train \/ Validate \/ Save \/ EndStep \/ OutOfData \/ Crash
  PROVE  AgeInv'
<1>1. UNCHANGED <<queue, progress, model, answers, future, is_last_step>>
  BY DEF Train, Validate, Save, EndStep, OutOfData, Crash, workVars, stepVars
<1>2. (Uniform' <=> Uniform) /\ (Answered' <=> Answered) /\ (NothingStarted' <=> NothingStarted)
      /\ Sent' = Sent
  BY <1>1 DEF Uniform, Answered, NothingStarted, Sent
<1>3. CASE Train
  <2>1. weights'.version \in {weights.version, weights.version + 1} /\ pc = "train" /\ pc' = "validate"
    BY <1>3, VersionsType DEF Train
  <2>2. Lag' \in 0..(IF NothingStarted THEN 2 ELSE 1)
    BY <1>2, <2>1, VersionsType DEF AgeInv, Lag
  <2> QED BY <1>2, <2>1, <2>2 DEF AgeInv, Overlapping, Training, ValidationLag
<1>4. CASE Validate
  <2>1. pc = "validate" /\ pc' = "save" /\ Lag' = Lag /\ UNCHANGED <<weights, global_steps>>
    BY <1>2, <1>4 DEF Validate, Lag, stepVars
  <2>2. Uniform /\ Lag \in 0..(IF NothingStarted THEN 2 ELSE 1)
    BY <2>1 DEF AgeInv, Training
  <2>3. Due(TestFreq)' <=> Due(TestFreq)
    BY <1>1, <2>1 DEF Due
  <2>4. Due(TestFreq) => validated' = {Sent}
    BY <1>4, <2>2, ServedSent DEF Validate
  <2>5. ValidationLag'
    BY <2>1, <2>2, <2>3, <2>4, <1>1 DEF ValidationLag, Lag, NothingStarted
  <2> QED BY <1>2, <2>1, <2>5 DEF AgeInv, Overlapping, Training
<1>5. CASE Save
  BY <1>2, <1>5 DEF Save, AgeInv, Overlapping, Training, ValidationLag, Lag
<1>6. CASE EndStep
  BY <1>1, <1>2, <1>6
  DEF EndStep, AgeInv, Overlapping, Training, ValidationLag, Lag, NothingStarted
<1>7. CASE OutOfData \/ Crash
  BY <1>7 DEF OutOfData, Crash, AgeInv, Overlapping, Training, ValidationLag
<1> QED BY <1>3, <1>4, <1>5, <1>6, <1>7

\* A generation uses what the ranks were sent, and its return loses nothing.
LEMMA AgeWorkerStep ==
  ASSUME TypeInv, WorkersInv, AgeInv, WorkerStep
  PROVE  AgeInv'
<1>1. UNCHANGED <<pc, caller, future, batch, weights, is_last_step, global_steps, validated>>
  BY WorkersKeep DEF stepVars
<1>2. (BatchAge' <=> BatchAge) /\ (NothingStarted' <=> NothingStarted)
      /\ (Overlapping' <=> Overlapping) /\ (ValidationLag' <=> ValidationLag)
  BY <1>1 DEF BatchAge, NothingStarted, Overlapping, ValidationLag, Due
<1>3. CASE pc = "syncing"
  BY <1>1, <1>2, <1>3 DEF AgeInv, Training
<1>4. CASE pc # "syncing"
  <2>1. ASSUME NEW k \in Keys, Broadcast(k) PROVE FALSE
    BY <2>1, <1>4, BroadcastInSync DEF WorkerStep
  <2>2. UNCHANGED model
    BY <2>1 DEF WorkerStep, SyncReturns, Generate, GenerateReturns
  <2>3. (Uniform' <=> Uniform) /\ Sent' = Sent /\ Lag' = Lag
    BY <1>1, <2>2 DEF Uniform, Sent, Lag
  <2>4. Uniform /\ Answered => Answered'
    <3> SUFFICES ASSUME Uniform, Answered, future # 0, NEW r \in RolloutRanks,
                        queue'[r] = <<>> \/ progress'[r] = 1
                 PROVE  answers'[r] = {Sent}
      BY <1>1, <2>3 DEF Answered
    <3>1. ASSUME NEW w \in Workers, SyncReturns(w) PROVE answers'[r] = {Sent}
      <4>1. w = Actor
        BY <3>1, <1>4, LateReturn DEF WorkerStep
      <4> QED BY <3>1, <4>1, Config DEF SyncReturns, Answered
    <3>2. ASSUME NEW q \in RolloutRanks, Generate(q) PROVE answers'[r] = {Sent}
      <4>1. CASE q = r
        <5>1. {model[r][k] : k \in Keys} = {Sent}
          BY Config DEF Uniform
        <5> QED BY <3>2, <4>1, <5>1 DEF Generate, TypeInv, TypeOK, WorkersOK
      <4>2. CASE q # r
        BY <3>2, <4>2, Config DEF Generate, Answered
      <4> QED BY <4>1, <4>2
    <3>3. CASE GenerateReturns
      BY <3>3 DEF GenerateReturns, Answered
    <3> QED BY <2>1, <3>1, <3>2, <3>3 DEF WorkerStep
  <2> QED BY <1>1, <1>2, <1>4, <2>3, <2>4 DEF AgeInv
<1> QED BY <1>3, <1>4

LEMMA AgeStep == TypeInv /\ WorkersInv /\ NumbersInv /\ AgeInv /\ [Next]_vars => AgeInv'
<1> SUFFICES ASSUME TypeInv, WorkersInv, NumbersInv, AgeInv, [Next]_vars PROVE AgeInv'
  OBVIOUS
<1>1. CASE UNCHANGED vars
  BY <1>1
  DEF AgeInv, Overlapping, BatchAge, Uniform, Answered, Sent, Lag, NothingStarted, ValidationLag, Due,
      vars, workVars, stepVars
<1> QED BY <1>1, AgeBefore, AgeSynced, AgeGetBatch, AgeTraining, AgeWorkerStep DEF Next, DriverStep

\* What is trained on is one update old at most, and all ranks and parameters
\* agree in it, whatever the order in which the workers come and go.
THEOREM OneStepBehindCorrect == Spec => []OneStepBehind
<1>1. AgeInv => OneStepBehind
  BY DEF AgeInv, OneStepBehind, BatchAge
<1> QED BY <1>1, TypeInit, TypeStep, WorkersInit, WorkersStep, NumbersInit, NumbersStep, AgeInit,
           AgeStep, PTL DEF Spec

\* What a validation sees is one update old, or two where no generation was started.
THEOREM ValidationLagCorrect == Spec => []ValidationLag
<1>1. AgeInv => ValidationLag
  BY DEF AgeInv
<1> QED BY <1>1, TypeInit, TypeStep, WorkersInit, WorkersStep, NumbersInit, NumbersStep, AgeInit,
           AgeStep, PTL DEF Spec

-----------------------------------------------------------------------------
(* The last step *)

LEMMA SavedInit == Init => SavedInv
BY DEF Init, SavedInv, SavedAtEnd, Training

LEMMA SavedDriver ==
  ASSUME TypeInv, WorkersInv, NumbersInv, SavedInv, DriverStep \/ Crash
  PROVE  SavedInv'
<1>1. CASE Boot \/ Load \/ Fetch \/ CallActor \/ CallRollout \/ OutOfData \/ Crash
  BY <1>1
  DEF Boot, Load, Fetch, CallActor, CallRollout, OutOfData, Crash, SavedInv, SavedAtEnd, Training
<1>2. CASE FetchNothing \/ Synced
  <2>1. pc' = "train" => ~is_last_step'
    <3>1. CASE FetchNothing
      BY <3>1, NumbersType, PlaceType
      DEF FetchNothing, AfterFetch, NumbersInv, Overlapping, Callers, stepVars
    <3>2. CASE Synced
      BY <3>2, NumbersType DEF Synced, AfterFetch, NumbersInv, Overlapping, Callers, stepVars
    <3> QED BY <1>2, <3>1, <3>2
  <2>2. pc' \in {"train", "loop", "load"}
    BY <1>2 DEF FetchNothing, Synced, AfterFetch
  <2> QED BY <2>1, <2>2 DEF SavedInv, SavedAtEnd, Training
<1>3. CASE GetBatch
  <2>1. RanksIdle /\ UNCHANGED <<queue, progress>>
    BY <1>3, CallSequences, Config DEF GetBatch, Idle, WorkersInv, RanksInv, RanksGenerate, workVars
  <2>2. RanksIdle' /\ pc' \in {"train", "fetch"}
    BY <1>3, <2>1 DEF GetBatch, AfterGet, RanksIdle
  <2> QED BY <2>2 DEF SavedInv, SavedAtEnd
<1>4. CASE Train \/ Validate \/ Save
  <2>1. UNCHANGED <<queue, progress, is_last_step>> /\ pc \in Training /\ pc' \in Training
    BY <1>4 DEF Train, Validate, Save, workVars, stepVars, Training
  <2>2. RanksIdle' <=> RanksIdle
    BY <2>1 DEF RanksIdle
  <2>3. pc' = "end" => Save
    BY <1>4 DEF Train, Validate
  <2>4. Save /\ is_last_step /\ SaveFreq > 0 => disk'.weights = weights' /\ disk'.cursor = cursor'
    BY DEF Save, Due, iterVars
  <2> QED BY <2>1, <2>2, <2>3, <2>4 DEF SavedInv, SavedAtEnd, Training
<1>5. CASE EndStep
  <2>1. pc' = "done" => is_last_step /\ pc = "end" /\ cursor \in weights.used
    BY <1>5 DEF EndStep, NumbersInv, Training, NothingStarted
  <2>2. UNCHANGED <<queue, progress, weights, disk, cursor>> /\ pc' \in {"done", "loop"}
    BY <1>5 DEF EndStep, workVars, iterVars
  <2>3. RanksIdle => Idle(RolloutRanks)'
    BY <2>2 DEF RanksIdle, Idle
  <2> QED BY <2>1, <2>2, <2>3 DEF SavedInv, SavedAtEnd, Training
<1> QED BY <1>1, <1>2, <1>3, <1>4, <1>5 DEF DriverStep

LEMMA SavedWorkerStep ==
  ASSUME TypeInv, WorkersInv, SavedInv, WorkerStep
  PROVE  SavedInv'
<1>1. UNCHANGED <<pc, is_last_step, disk, weights, cursor>> /\ pc # "done"
  BY WorkersKeep DEF stepVars, iterVars, WorkerStep, Alive, Terminal
<1>2. pc \in Training /\ is_last_step => RanksIdle'
  <2> SUFFICES ASSUME pc \in Training, is_last_step PROVE RanksIdle'
    OBVIOUS
  <2>1. RanksIdle /\ pc # "syncing"
    BY DEF SavedInv, Training
  <2>2. \A r \in RolloutRanks : ~Running(r, "sync") /\ ~Running(r, "generate")
    BY <2>1 DEF RanksIdle, Running
  <2>3. PICK w \in Workers : SyncReturns(w)
    BY <2>2, Config DEF WorkerStep, Broadcast, Generate, GenerateReturns
  <2>4. w = Actor
    BY <2>1, <2>3, LateReturn DEF WorkerStep
  <2> QED BY <2>1, <2>3, <2>4, Config DEF SyncReturns, RanksIdle, TypeInv, TypeOK, WorkersOK
<1> QED BY <1>1, <1>2 DEF SavedInv, SavedAtEnd

LEMMA SavedStep == TypeInv /\ WorkersInv /\ NumbersInv /\ SavedInv /\ [Next]_vars => SavedInv'
<1>1. SavedInv /\ UNCHANGED vars => SavedInv'
  BY DEF SavedInv, SavedAtEnd, RanksIdle, Idle, vars, workVars, stepVars, iterVars
<1> QED BY <1>1, SavedDriver, SavedWorkerStep DEF Next

\* The last step leaves a checkpoint of the final weights, no batch untrained
\* and no generation running.
THEOREM OneStepSavedAtEndCorrect == Spec => []SavedAtEnd
<1>1. SavedInv => SavedAtEnd
  BY DEF SavedInv
<1> QED BY <1>1, TypeInit, TypeStep, WorkersInit, WorkersStep, NumbersInit, NumbersStep, SavedInit,
           SavedStep, PTL DEF Spec

=============================================================================
