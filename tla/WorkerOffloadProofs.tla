------------------------ MODULE WorkerOffloadProofs ------------------------
(***************************************************************************)
(* Proofs about WorkerOffload, for every set of configurations, any number *)
(* of mini-batches, micro-batches, steps and kills: where everything is    *)
(* between the calls and during them, that the engine serves the actor's   *)
(* weights, that a step uses its own gradients and that the moments match  *)
(* the weights.                                                            *)
(***************************************************************************)
EXTENDS WorkerOffload, TLAPS, SequenceTheorems

-----------------------------------------------------------------------------
(* The inductive invariant *)

\* The parameters are on the GPU during the calls that use them.
ParamsInv ==
  /\ call \in {"built", "idle", "generate"} =>
       params = IF config.param THEN "cpu" ELSE "gpu"
  /\ call \in {"sync", "log_prob"} \cup Updates => params = "gpu"

\* With optimizer_offload, the state of an optimizer is on the GPU during its own
\* updates only.
StateInv ==
  config.optimizer =>
    /\ call # "raised"
    /\ Running => \A o \in Optimizers :
                    moments[o].place # (IF call = Updating(o) THEN "cpu" ELSE "gpu")

EngineInv ==
  /\ config.cache => /\ call \notin {"down", "sync", "generate"} => engine.awake = {}
                     /\ call = "sync" => engine.awake = {"weights"}
  /\ call \in {"sync", "generate"} => engine.weights = weights
  /\ RoomForCache

\* A mini-batch that has begun is one of the update, and its gradients are the
\* backward passes so far.
GradsInv ==
  call \in Updates /\ micro > 0 =>
    /\ mini < MiniBatches
    /\ \A o \in Optimizers :
         call = Updating(o) => grads = [k \in 1..micro |-> <<o, mini + 1, k>>]

MomentsInv ==
  /\ disk.moments = disk.weights
  /\ call = "built" => disk # NoCheckpoint /\ moments = NoState
  /\ MomentsMatchWeights

WorkerInv ==
  /\ WorkerTypeOK /\ ParamsInv /\ StateInv /\ EngineInv /\ GradsInv /\ MomentsInv

-----------------------------------------------------------------------------
(* Types *)

USE DEF Optimizers, Updating, Updates, Places, Steps, Tags, Running

\* The state of an optimizer.
States == [place : Places \cup {"none"}, steps : Nat]

\* A move keeps the steps that a state has seen, and puts it at the place, if
\* there is a state.
LEMMA MovedState ==
  ASSUME NEW s \in States, NEW p \in Places
  PROVE  /\ Moved(s, p) \in States
         /\ Moved(s, p).steps = s.steps
         /\ Moved(s, p).place \in {"none", p}
  BY DEF Moved, States

\* The moves of an update are such moves, or none.
LEMMA LoadedState ==
  ASSUME NEW s \in States
  PROVE  /\ LoadState(s) \in States /\ OffloadState(s) \in States
         /\ LoadState(s).steps = s.steps /\ OffloadState(s).steps = s.steps
         /\ config.optimizer => /\ LoadState(s).place # "cpu"
                                /\ OffloadState(s).place # "gpu"
  BY MovedState DEF LoadState, OffloadState

\* A restored state has seen the steps that were saved.
LEMMA RestoredState ==
  ASSUME NEW n \in Nat, NEW p \in Places
  PROVE  Restored(n, p) \in States /\ Restored(n, p).steps = n
  BY DEF Restored, States

\* The places of the parameters.
LEMMA PlaceOfParams ==
  ASSUME NEW p \in Places
  PROVE  Loaded(p) \in Places /\ Offloaded(p) \in Places
  BY DEF Loaded, Offloaded

THEOREM InitWorker == Init => WorkerInv
<1> SUFFICES ASSUME Init PROVE WorkerInv
  OBVIOUS
<1> USE WorkerAssumption DEF Init
<1>1. WorkerTypeOK
  BY DEF WorkerTypeOK, NoSteps, NoState, Dummy, Asleep, NoCheckpoint, Passes
<1>2. ParamsInv /\ StateInv /\ GradsInv
  BY DEF ParamsInv, StateInv, GradsInv
<1>3. EngineInv
  BY DEF EngineInv, RoomForCache, Asleep, NoState
<1>4. MomentsInv
  BY DEF MomentsInv, MomentsMatchWeights, NoCheckpoint
<1> QED
  BY <1>1, <1>2, <1>3, <1>4 DEF WorkerInv

LEMMA NextWorkerType == WorkerInv /\ [Next]_vars => WorkerTypeOK'
<1> SUFFICES ASSUME WorkerInv, [Next]_vars PROVE WorkerTypeOK'
  OBVIOUS
<1> USE WorkerAssumption DEF WorkerTypeOK
<1>0. WorkerTypeOK /\ GradsInv /\ (call = "built" => disk # NoCheckpoint)
  BY DEF WorkerInv, MomentsInv
<1>a. \A o \in Optimizers : moments[o] \in States
  BY <1>0 DEF States
<1>b. <<>> \in Seq(Passes)
  OBVIOUS
<1>1. CASE InitModel
  BY <1>0, <1>1, <1>b DEF InitModel, NoSteps, NoState, Asleep
<1>2. CASE LoadCheckpoint
  <2>1. disk.weights \in Steps /\ disk.moments \in Steps
    BY <1>0, <1>2 DEF LoadCheckpoint
  <2>2. RestoredMoments \in [Optimizers -> States]
    BY <1>0, <2>1, RestoredState, LoadedState, PlaceOfParams DEF RestoredMoments, RestoredAt
  <2> QED
    BY <1>0, <1>2, <2>1, <2>2, PlaceOfParams DEF LoadCheckpoint, States
<1>3. ASSUME NEW o \in Optimizers, BeginUpdate(o)
      PROVE  WorkerTypeOK'
  <2>1. LoadedMoments(o) \in [Optimizers -> States]
    BY <1>0, <1>a, LoadedState DEF LoadedMoments, States
  <2>2. grads' \in Seq(Passes)
    BY <1>0, <1>3, <1>b DEF BeginUpdate
  <2> QED
    BY <1>0, <1>3, <2>1, <2>2, PlaceOfParams, SMTT(30) DEF BeginUpdate, States
<1>4. ASSUME NEW o \in Optimizers, Backward(o)
      PROVE  WorkerTypeOK'
  <2>1. <<o, mini + 1, micro + 1>> \in Passes /\ GradsSoFar \in Seq(Passes)
    BY <1>0, SMTT(30) DEF Passes, GradsSoFar
  <2>2. Append(GradsSoFar, <<o, mini + 1, micro + 1>>) \in Seq(Passes)
    BY <2>1, AppendProperties
  <2> QED
    BY <1>0, <1>4, <2>2, SMTT(30) DEF Backward
<1>5. ASSUME NEW o \in Optimizers, Step(o) \/ SkipStep(o)
      PROVE  WorkerTypeOK'
  <2>1. mini < MiniBatches
    BY <1>0, <1>5 DEF Step, SkipStep, GradsInv
  <2>2. grads' \in Seq(Passes)
    BY <1>0, <1>5, <1>b DEF Step, SkipStep, MiniBatchDone
  <2>3. weights[o] + 1 \in Nat /\ moments[o].steps + 1 \in Nat
    <3>1. weights[o] \in Nat /\ moments[o].steps \in Nat
      BY <1>0
    <3> QED
      BY <3>1
  <2>4. weights' \in Steps
    BY <1>0, <1>5, <2>3 DEF Step, SkipStep
  <2>5. moments' \in [Optimizers -> States]
    <3>1. [place |-> params, steps |-> moments[o].steps + 1] \in States
      BY <1>0, <2>3 DEF States
    <3>2. CASE Step(o)
      BY <1>0, <1>a, <3>1, <3>2 DEF Step, States
    <3>3. CASE SkipStep(o)
      BY <1>0, <3>3 DEF SkipStep, States
    <3> QED
      BY <1>5, <3>2, <3>3
  <2>6. mini' \in 0..MiniBatches /\ micro' \in 0..MicroBatches
    BY <1>0, <1>5, <2>1 DEF Step, SkipStep, MiniBatchDone
  <2>7. UNCHANGED <<call, config, params, engine, disk, crashes>>
    BY <1>5 DEF Step, SkipStep, MiniBatchDone
  <2> QED
    BY <1>0, <2>2, <2>4, <2>5, <2>6, <2>7 DEF States
<1>6. ASSUME NEW o \in Optimizers, StepRaises(o)
      PROVE  WorkerTypeOK'
  BY <1>0, <1>6 DEF StepRaises
<1>7. ASSUME NEW o \in Optimizers, EndUpdate(o)
      PROVE  WorkerTypeOK'
  <2>1. [moments EXCEPT ![o] = OffloadState(@)] \in [Optimizers -> States]
    BY <1>0, <1>a, LoadedState DEF States
  <2> QED
    BY <1>0, <1>7, <2>1, PlaceOfParams DEF EndUpdate, States
<1>8. CASE EnterSync \/ EnterCache \/ ExitEngine
  <2>1. Awake("weights") \in SUBSET Tags /\ Awake("kv_cache") \in SUBSET Tags
    BY <1>0 DEF Awake
  <2>2. Asleep(config) \in SUBSET Tags
    BY DEF Asleep
  <2>3. engine' \in [awake : SUBSET Tags, weights : Steps \cup {Dummy}]
    BY <1>0, <1>8, <2>1, <2>2 DEF EnterSync, EnterCache, ExitEngine, Synced
  <2> QED
    BY <1>0, <1>8, <2>3, PlaceOfParams
       DEF EnterSync, EnterCache, ExitEngine, ParamsForCache
<1>9. CASE BeginLogProb \/ EndLogProb
  BY <1>0, <1>9, PlaceOfParams DEF BeginLogProb, EndLogProb
<1>10. CASE SaveCheckpoint
  <2>1. [moments EXCEPT !["real"] = Moved(@, "cpu")] \in [Optimizers -> States]
    BY <1>0, <1>a, MovedState DEF States
  <2>2. SavedMoments \in Steps
    BY <1>0 DEF SavedMoments
  <2> QED
    BY <1>0, <1>10, <2>1, <2>2, PlaceOfParams DEF SaveCheckpoint, States
<1>11. CASE Crash
  BY <1>0, <1>11 DEF Crash
<1>12. CASE UNCHANGED vars
  BY <1>0, <1>12 DEF vars
<1> QED
  BY <1>1, <1>2, <1>3, <1>4, <1>5, <1>6, <1>7, <1>8, <1>9, <1>10, <1>11, <1>12 DEF Next, Update

-----------------------------------------------------------------------------
(* The other parts of the invariant *)

LEMMA NextParams == WorkerInv /\ [Next]_vars => ParamsInv'
<1> SUFFICES ASSUME WorkerInv, [Next]_vars PROVE ParamsInv'
  OBVIOUS
<1>0. ParamsInv /\ params \in Places
  BY DEF WorkerInv, WorkerTypeOK
<1> USE <1>0 DEF ParamsInv, Loaded, Offloaded
<1>1. CASE InitModel \/ LoadCheckpoint \/ SaveCheckpoint \/ Crash
  BY <1>1 DEF InitModel, LoadCheckpoint, SaveCheckpoint, Crash
<1>2. ASSUME NEW o \in Optimizers, Update(o)
      PROVE  ParamsInv'
  BY <1>2 DEF Update, BeginUpdate, Backward, Step, StepRaises, SkipStep, EndUpdate, MiniBatchDone
<1>3. CASE EnterSync \/ EnterCache \/ ExitEngine \/ BeginLogProb \/ EndLogProb
  BY <1>3 DEF EnterSync, EnterCache, ExitEngine, BeginLogProb, EndLogProb, ParamsForCache
<1>4. CASE UNCHANGED vars
  BY <1>4 DEF vars
<1> QED
  BY <1>1, <1>2, <1>3, <1>4 DEF Next

LEMMA NextState == WorkerInv /\ [Next]_vars => StateInv'
<1> SUFFICES ASSUME WorkerInv, [Next]_vars, config'.optimizer
             PROVE  /\ call' # "raised"
                    /\ Running' => \A o \in Optimizers :
                         moments'[o].place # (IF call' = Updating(o) THEN "cpu" ELSE "gpu")
  BY DEF StateInv
<1>0. /\ ParamsInv /\ StateInv /\ params \in Places /\ moments \in [Optimizers -> States]
      /\ call = "built" => disk.moments \in Steps
  BY DEF WorkerInv, WorkerTypeOK, States, MomentsInv
<1>1. CASE InitModel
  BY <1>1 DEF InitModel, NoState
<1>2. CASE LoadCheckpoint
  <2>1. \A o \in Optimizers : Restored(disk.moments[o], RestoredAt(o)) \in States
    BY <1>0, <1>2, RestoredState, PlaceOfParams DEF LoadCheckpoint, RestoredAt
  <2> QED
    BY <1>2, <2>1, LoadedState DEF LoadCheckpoint, RestoredMoments
<1>3. ASSUME NEW o \in Optimizers, Update(o)
      PROVE  /\ call' # "raised"
             /\ Running' => \A q \in Optimizers :
                  moments'[q].place # (IF call' = Updating(q) THEN "cpu" ELSE "gpu")
  <2>0. config.optimizer
    BY <1>3 DEF Update, BeginUpdate, Backward, Step, StepRaises, SkipStep, EndUpdate
  <2>1. CASE BeginUpdate(o)
    BY <1>0, <2>0, <2>1, LoadedState DEF BeginUpdate, LoadedMoments, StateInv
  <2>2. CASE Backward(o) \/ SkipStep(o)
    BY <1>0, <2>0, <2>2 DEF Backward, SkipStep, StateInv
  <2>3. call = Updating(o) => params = "gpu" /\ Together(o)
    BY <1>0, <2>0 DEF ParamsInv, StateInv, Together, States
  <2>4. CASE Step(o)
    BY <1>0, <2>0, <2>3, <2>4 DEF Step, StateInv
  <2>5. CASE StepRaises(o)
    BY <2>3, <2>5 DEF StepRaises
  <2>6. CASE EndUpdate(o)
    BY <1>0, <2>0, <2>6, LoadedState DEF EndUpdate, StateInv
  <2> QED
    BY <1>3, <2>1, <2>2, <2>4, <2>5, <2>6 DEF Update
<1>4. CASE EnterSync \/ EnterCache \/ ExitEngine \/ BeginLogProb \/ EndLogProb
  BY <1>0, <1>4 DEF EnterSync, EnterCache, ExitEngine, BeginLogProb, EndLogProb, StateInv
<1>5. CASE SaveCheckpoint
  BY <1>0, <1>5, MovedState DEF SaveCheckpoint, StateInv
<1>6. CASE Crash
  BY <1>0, <1>6 DEF Crash, StateInv
<1>7. CASE UNCHANGED vars
  BY <1>0, <1>7 DEF vars, StateInv
<1> QED
  BY <1>1, <1>2, <1>3, <1>4, <1>5, <1>6, <1>7 DEF Next

LEMMA NextEngine == WorkerInv /\ [Next]_vars => EngineInv'
<1> SUFFICES ASSUME WorkerInv, [Next]_vars PROVE EngineInv'
  OBVIOUS
<1>0. /\ EngineInv /\ ParamsInv /\ StateInv /\ params \in Places
      /\ engine \in [awake : SUBSET Tags, weights : Steps \cup {Dummy}]
  BY DEF WorkerInv, WorkerTypeOK
<1> USE <1>0 DEF EngineInv, RoomForCache
<1>1. CASE InitModel \/ LoadCheckpoint \/ BeginLogProb \/ EndLogProb \/ SaveCheckpoint
  BY <1>1 DEF InitModel, Asleep, LoadCheckpoint, BeginLogProb, EndLogProb, SaveCheckpoint
<1>2. ASSUME NEW o \in Optimizers, Update(o)
      PROVE  EngineInv'
  BY <1>2 DEF Update, BeginUpdate, Backward, Step, StepRaises, SkipStep, EndUpdate, MiniBatchDone
<1>3. CASE EnterSync
  BY <1>3 DEF EnterSync, Synced, Awake
<1>4. CASE EnterCache
  BY <1>4 DEF EnterCache, Awake, ParamsForCache, Offloaded, StateInv
<1>5. CASE ExitEngine
  BY <1>5 DEF ExitEngine, Asleep
<1>6. CASE Crash
  BY <1>6 DEF Crash
<1>7. CASE UNCHANGED vars
  BY <1>7 DEF vars
<1> QED
  BY <1>1, <1>2, <1>3, <1>4, <1>5, <1>6, <1>7 DEF Next

LEMMA NextGrads == WorkerInv /\ [Next]_vars => GradsInv'
<1> SUFFICES ASSUME WorkerInv, [Next]_vars PROVE GradsInv'
  OBVIOUS
<1>0. GradsInv /\ WorkerTypeOK
  BY DEF WorkerInv
<1> USE <1>0 DEF GradsInv
<1>1. CASE InitModel \/ LoadCheckpoint \/ SaveCheckpoint \/ Crash
  BY <1>1 DEF InitModel, LoadCheckpoint, SaveCheckpoint, Crash
<1>2. ASSUME NEW o \in Optimizers, Backward(o)
      PROVE  GradsInv'
  <2>1. micro \in Nat /\ mini \in Nat
    BY WorkerAssumption DEF WorkerTypeOK
  <2>2. GradsSoFar = [k \in 1..micro |-> <<o, mini + 1, k>>]
    <3>1. CASE micro = 0
      BY <3>1 DEF GradsSoFar
    <3>2. CASE micro > 0
      <4>1. call = Updating(o) /\ call \in Updates /\ micro # 0
        BY <1>2, <3>2 DEF Backward
      <4>2. grads = [k \in 1..micro |-> <<o, mini + 1, k>>]
        BY <3>2, <4>1
      <4> QED
        BY <4>1, <4>2 DEF GradsSoFar
    <3> QED
      BY <2>1, <3>1, <3>2
  <2>3. grads' = [k \in 1..micro' |-> <<o, mini' + 1, k>>]
    BY <1>2, <2>1, <2>2 DEF Backward
  <2> QED
    BY <1>2, <2>1, <2>3 DEF Backward, MoreMiniBatches
<1>3. ASSUME NEW o \in Optimizers,
             BeginUpdate(o) \/ Step(o) \/ StepRaises(o) \/ SkipStep(o) \/ EndUpdate(o)
      PROVE  GradsInv'
  BY <1>3 DEF BeginUpdate, Step, StepRaises, SkipStep, EndUpdate, MiniBatchDone
<1>4. CASE EnterSync \/ EnterCache \/ ExitEngine \/ BeginLogProb \/ EndLogProb
  BY <1>4 DEF EnterSync, EnterCache, ExitEngine, BeginLogProb, EndLogProb
<1>5. CASE UNCHANGED vars
  BY <1>5 DEF vars
<1> QED
  BY <1>1, <1>2, <1>3, <1>4, <1>5 DEF Next, Update

LEMMA NextMoments == WorkerInv /\ [Next]_vars => MomentsInv'
<1> SUFFICES ASSUME WorkerInv, [Next]_vars PROVE MomentsInv'
  OBVIOUS
<1>0. /\ MomentsInv /\ weights \in Steps /\ moments \in [Optimizers -> States]
      /\ disk \in [weights : Steps, moments : Steps] \cup {NoCheckpoint}
      /\ params \in Places
  BY DEF WorkerInv, WorkerTypeOK, States
<1> USE <1>0 DEF MomentsInv, MomentsMatchWeights
<1>1. CASE InitModel
  BY <1>1 DEF InitModel, NoSteps, NoState
<1>2. CASE LoadCheckpoint
  <2>1. disk.moments \in Steps /\ disk.moments = disk.weights
    BY <1>2 DEF LoadCheckpoint
  <2>2. \A o \in Optimizers :
          /\ Restored(disk.moments[o], RestoredAt(o)) \in States
          /\ Restored(disk.moments[o], RestoredAt(o)).steps = disk.moments[o]
    BY <2>1, RestoredState, PlaceOfParams DEF RestoredAt
  <2>3. \A o \in Optimizers : RestoredMoments[o].steps = disk.weights[o]
    BY <2>1, <2>2, LoadedState DEF RestoredMoments
  <2> QED
    BY <1>2, <2>1, <2>3 DEF LoadCheckpoint
<1>3. ASSUME NEW o \in Optimizers, Update(o)
      PROVE  MomentsInv'
  <2>1. CASE BeginUpdate(o)
    BY <2>1, LoadedState DEF BeginUpdate, LoadedMoments
  <2>2. CASE Backward(o) \/ SkipStep(o) \/ StepRaises(o)
    BY <2>2 DEF Backward, SkipStep, StepRaises
  <2>3. CASE Step(o)
    BY <2>3 DEF Step, MiniBatchDone
  <2>4. CASE EndUpdate(o)
    BY <2>4, LoadedState DEF EndUpdate
  <2> QED
    BY <1>3, <2>1, <2>2, <2>3, <2>4 DEF Update
<1>4. CASE EnterSync \/ EnterCache \/ ExitEngine \/ BeginLogProb \/ EndLogProb
  BY <1>4 DEF EnterSync, EnterCache, ExitEngine, BeginLogProb, EndLogProb
<1>5. CASE SaveCheckpoint
  <2>1. SavedMoments = weights
    BY <1>5 DEF SaveCheckpoint, SavedMoments
  <2> QED
    BY <1>5, <2>1, MovedState DEF SaveCheckpoint
<1>6. CASE Crash
  BY <1>6 DEF Crash
<1>7. CASE UNCHANGED vars
  BY <1>7 DEF vars
<1> QED
  BY <1>1, <1>2, <1>3, <1>4, <1>5, <1>6, <1>7 DEF Next

THEOREM WorkerInvariant == Spec => []WorkerInv
<1>1. WorkerInv /\ [Next]_vars => WorkerInv'
  BY NextWorkerType, NextParams, NextState, NextEngine, NextGrads, NextMoments DEF WorkerInv
<1> QED
  BY InitWorker, <1>1, PTL DEF Spec

-----------------------------------------------------------------------------
(* The properties *)

\* Type correctness.
THEOREM WorkerTypeCorrect == Spec => []WorkerTypeOK
<1>1. WorkerInv => WorkerTypeOK
  BY DEF WorkerInv
<1> QED
  BY WorkerInvariant, <1>1, PTL

\* With optimizer_offload, no step of either optimizer finds its state apart from
\* the parameters, in any order of updates, saves and resumes.
THEOREM StepsWithStateCorrect == Spec => []StepsWithState
<1>1. WorkerInv => StepsWithState
  BY DEF WorkerInv, WorkerTypeOK, StateInv, StepsWithState, Flags
<1> QED
  BY WorkerInvariant, <1>1, PTL

\* Between two calls all that can be moved away is off the GPU.
THEOREM RestsOffloadedCorrect == Spec => []RestsOffloaded
<1>1. WorkerInv => RestsOffloaded
  BY DEF WorkerInv, ParamsInv, StateInv, EngineInv, RestsOffloaded
<1> QED
  BY WorkerInvariant, <1>1, PTL

\* The engine generates with the weights of the actor.
THEOREM GeneratesWithActorWeightsCorrect == Spec => []GeneratesWithActorWeights
<1>1. WorkerInv => GeneratesWithActorWeights
  BY DEF WorkerInv, EngineInv, GeneratesWithActorWeights
<1> QED
  BY WorkerInvariant, <1>1, PTL

\* The KV cache has the GPU to itself.
THEOREM RoomForCacheCorrect == Spec => []RoomForCache
<1>1. WorkerInv => RoomForCache
  BY DEF WorkerInv, EngineInv
<1> QED
  BY WorkerInvariant, <1>1, PTL

\* Through any resumes the moments of both optimizers match the weights.
THEOREM MomentsMatchWeightsCorrect == Spec => []MomentsMatchWeights
<1>1. WorkerInv => MomentsMatchWeights
  BY DEF WorkerInv, MomentsInv
<1> QED
  BY WorkerInvariant, <1>1, PTL

\* A step uses the gradients of its own mini-batch, for any number of mini-batches
\* and micro-batches and any interleaving of the two optimizers' updates.
THEOREM StepsOwnGradientsCorrect == Spec => StepsOwnGradients
<1>1. ASSUME WorkerInv, [Next]_vars, NEW o \in Optimizers,
             weights'[o] = weights[o] + 1, call = Updating(o)
      PROVE  grads = [k \in 1..MicroBatches |-> <<o, mini + 1, k>>]
  <2>0. WorkerTypeOK /\ GradsInv
    BY <1>1 DEF WorkerInv
  <2>1. weights' # weights
    BY <1>1, <2>0 DEF WorkerTypeOK
  <2>2. PICK q \in Optimizers : Step(q)
    BY <1>1, <2>1 DEF Next, Update, InitModel, LoadCheckpoint, BeginUpdate, Backward,
       StepRaises, SkipStep, EndUpdate, EnterSync, EnterCache, ExitEngine, BeginLogProb,
       EndLogProb, SaveCheckpoint, Crash, vars
  <2>3. micro = MicroBatches /\ micro > 0
    BY <2>2, WorkerAssumption DEF Step
  <2> QED
    BY <1>1, <2>0, <2>3 DEF GradsInv
<1>2. WorkerInv /\ [Next]_vars =>
        [\A o \in Optimizers :
           weights'[o] = weights[o] + 1 /\ call = Updating(o) =>
             grads = [k \in 1..MicroBatches |-> <<o, mini + 1, k>>]]_vars
  BY <1>1
<1> QED
  BY WorkerInvariant, <1>2, PTL DEF Spec, StepsOwnGradients
=============================================================================
