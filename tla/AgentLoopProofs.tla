-------------------------- MODULE AgentLoopProofs --------------------------
(***************************************************************************)
(* Proofs about AgentLoop, for any number of workers, servers, rows, turns *)
(* and threads: with free_cache_engine every answer comes from the latest  *)
(* weights, and every response that is kept ends with a token of the model.*)
(***************************************************************************)
EXTENDS AgentLoop, TLAPS, SequenceTheorems, FiniteSetTheorems

-----------------------------------------------------------------------------
(* The inductive invariants *)

Masks == Seq({0, 1})
Entry == (Nat \X Row) \X Servers

TypeInv ==
  /\ driver \in {"sleeping", "training", "waking", "generating", "raised"}
  /\ round \in Nat /\ weights \in Nat
  /\ awake \in [Servers -> BOOLEAN] /\ served \in [Servers -> Nat]
  /\ prefix \in [Servers -> SUBSET Nat]
  /\ at \in [Row -> Servers]
  /\ pc \in [Row -> {"ready", "asked", "refused", "calling", "done"}]
  /\ prompt \in [Row -> Nat]
  /\ mask \in [Row -> Masks] /\ user_turns \in [Row -> Nat]
  /\ cache \in [Workers -> Seq(Entry)]

\* A loop is on its way only while its batch is.
PhaseInv ==
  /\ driver \in {"sleeping", "training", "raised"} => \A r \in Row : pc[r] = "done"
  /\ driver = "waking" => \A r \in Row : pc[r] = "ready"
  /\ driver # "generating" => \A r \in Row : mask[r] = <<>> /\ user_turns[r] = 0

\* What is left of the weights before: nothing in a prefix cache that has been
\* to sleep, and no server that woke up with them.
ServersInv ==
  /\ driver = "training" => \A s \in Servers : ~awake[s]
  /\ driver \in {"training", "waking"} => \A s \in Servers : prefix[s] = {}
  /\ driver = "sleeping" => \A s \in Servers : ~awake[s] => prefix[s] = {}
  /\ driver = "waking" => \A s \in Servers : awake[s] => served[s] = weights
  /\ driver = "generating" =>
       \A s \in Servers : awake[s] /\ served[s] = weights /\ prefix[s] \subseteq {weights}

WeightsInv == TypeInv /\ PhaseInv /\ (FreeCacheEngine => ServersInv)

\* A loop that goes on has room in its response, and whenever its tools are
\* called the model has had the last word.  A refusal or a failure to join the
\* rows is therefore the prompt's.
ModelSpokeLast(m) == m # <<>> /\ m[Len(m)] = 1

TurnInv ==
  \A r \in Row :
    /\ pc[r] \in {"ready", "asked", "calling"} => Len(mask[r]) < ResponseLength
    /\ pc[r] = "calling" => ModelSpokeLast(mask[r])
    /\ pc[r] = "refused" => prompt[r] + ResponseLength > MaxModelLen
    /\ driver = "generating" /\ pc[r] = "done" => ModelSpokeLast(Kept(r))

TooLong(r) == prompt[r] > PromptLength \/ prompt[r] + ResponseLength > MaxModelLen
RaisedInv == driver = "raised" => \E r \in Row : TooLong(r)

LoopInv == TypeInv /\ PhaseInv /\ TurnInv /\ RaisedInv
-----------------------------------------------------------------------------
(* Types *)

LEMMA TokensType ==
  ASSUME NEW n \in Nat, NEW who \in {0, 1}
  PROVE  /\ Tokens(n, who) \in Masks
         /\ Len(Tokens(n, who)) = n
         /\ \A i \in 1..n : Tokens(n, who)[i] = who
  BY DEF Tokens, Masks

LEMMA AppendTokens ==
  ASSUME NEW m \in Masks, NEW n \in Nat, NEW who \in {0, 1}
  PROVE  /\ m \o Tokens(n, who) \in Masks
         /\ Len(m \o Tokens(n, who)) = Len(m) + n
         /\ \A i \in 1..Len(m) : (m \o Tokens(n, who))[i] = m[i]
         /\ \A i \in (Len(m) + 1)..(Len(m) + n) : (m \o Tokens(n, who))[i] = who
  <1> DEFINE t == Tokens(n, who)
  <1>1. t \in Masks /\ Len(t) = n /\ \A i \in 1..n : t[i] = who
    BY TokensType
  <1> HIDE DEF t
  <1>2. m \o t \in Masks /\ Len(m \o t) = Len(m) + n
    BY <1>1 DEF Masks
  <1>3. \A i \in 1..Len(m) : (m \o t)[i] = m[i]
    BY <1>1 DEF Masks
  <1>4. ASSUME NEW i \in (Len(m) + 1)..(Len(m) + n)
        PROVE  (m \o t)[i] = who
    <2>1. (m \o t)[i] = t[i - Len(m)] /\ i - Len(m) \in 1..n
      BY <1>1 DEF Masks
    <2> QED
      BY <1>1, <2>1
  <1> QED
    BY <1>2, <1>3, <1>4 DEF t

LEMMA NoServerType == NoServer \in Servers
  BY AgentLoopAssumption DEF NoServer

LEMMA InitTypes == Init => TypeInv /\ PhaseInv
  BY NoServerType, AgentLoopAssumption DEF Init, TypeInv, PhaseInv, AllRows, Masks

\* The room left for an answer is a number.
LEMMA RoomType ==
  ASSUME TypeInv, NEW r \in Row
  PROVE  /\ Room(r) \in Int /\ MaxModelLen \in Nat
         /\ Room(r) = MaxModelLen - prompt[r] - Len(mask[r])
  <1>1. mask[r] \in Masks /\ prompt[r] \in Nat
    BY DEF TypeInv
  <1>2. Len(mask[r]) \in Nat
    BY <1>1 DEF Masks
  <1> QED
    BY <1>1, <1>2, AgentLoopAssumption DEF Room, MaxModelLen

\* What is touched goes to the end, what comes after it moves up.
LEMMA TouchedEntries ==
  ASSUME NEW E, NEW lru \in Seq(E), NEW i \in DOMAIN lru
  PROVE  /\ Touched(lru, i) \in Seq(E)
         /\ Len(Touched(lru, i)) = Len(lru)
         /\ \A j \in 1..(i - 1) : Touched(lru, i)[j] = lru[j]
         /\ \A j \in i..(Len(lru) - 1) : Touched(lru, i)[j] = lru[j + 1]
         /\ Touched(lru, i)[Len(lru)] = lru[i]
  <1> DEFINE a == SubSeq(lru, 1, i - 1)
             b == SubSeq(lru, i + 1, Len(lru))
  <1>1. i \in 1..Len(lru) /\ Len(lru) \in Nat /\ lru[i] \in E
    OBVIOUS
  <1>2. /\ a \in Seq(E) /\ Len(a) = i - 1
        /\ \A j \in 1..(i - 1) : a[j] = lru[j]
    BY <1>1, SubSeqProperties
  <1>3. /\ b \in Seq(E) /\ Len(b) = Len(lru) - i
        /\ \A j \in 1..(Len(lru) - i) : b[j] = lru[i + j]
    BY <1>1, SubSeqProperties
  <1>4. Touched(lru, i) = Append(a \o b, lru[i])
    BY DEF Touched, RemoveAt
  <1> HIDE DEF a, b
  <1>5. /\ a \o b \in Seq(E) /\ Len(a \o b) = Len(lru) - 1
        /\ \A j \in 1..(i - 1) : (a \o b)[j] = lru[j]
        /\ \A j \in i..(Len(lru) - 1) : (a \o b)[j] = lru[j + 1]
    <2>1. a \o b \in Seq(E) /\ Len(a \o b) = Len(lru) - 1
      BY <1>1, <1>2, <1>3
    <2>2. \A j \in 1..(i - 1) : (a \o b)[j] = lru[j]
      BY <1>1, <1>2, <1>3
    <2>3. ASSUME NEW j \in i..(Len(lru) - 1)
          PROVE  (a \o b)[j] = lru[j + 1]
      <3>1. (a \o b)[j] = b[j - Len(a)] /\ j - Len(a) \in 1..(Len(lru) - i)
        BY <1>1, <1>2, <1>3
      <3>2. j - Len(a) = j + 1 - i
        BY <1>1, <1>2
      <3> QED
        BY <1>1, <1>3, <3>1, <3>2, SMTT(30)
    <2> QED
      BY <2>1, <2>2, <2>3
  <1> QED
    BY <1>1, <1>4, <1>5

LEMMA EnteredType ==
  ASSUME NEW E, NEW lru \in Seq(E), NEW e \in E
  PROVE  Entered(lru, e) \in Seq(E)
  <1>1. CASE Len(lru) = CacheSize
    BY <1>1, AgentLoopAssumption, HeadTailProperties DEF Entered
  <1>2. CASE Len(lru) # CacheSize
    BY <1>2 DEF Entered
  <1> QED
    BY <1>1, <1>2

LEMMA EnteredEntries ==
  ASSUME NEW E, NEW lru \in Seq(E), NEW e \in E, Len(lru) <= CacheSize
  PROVE  /\ Len(lru) < CacheSize => Entered(lru, e) = Append(lru, e)
         /\ Len(lru) = CacheSize =>
              /\ Len(Entered(lru, e)) = Len(lru)
              /\ \A j \in 1..(Len(lru) - 1) : Entered(lru, e)[j] = lru[j + 1]
              /\ Entered(lru, e)[Len(lru)] = e
  <1>1. CacheSize \in Nat \ {0} /\ Len(lru) \in Nat
    BY AgentLoopAssumption
  <1>2. CASE Len(lru) < CacheSize
    <2>1. Entered(lru, e) = Append(lru, e)
      BY <1>1, <1>2 DEF Entered
    <2> QED
      BY <1>1, <1>2, <2>1
  <1>3. CASE Len(lru) = CacheSize
    <2>1. Entered(lru, e) = Append(Tail(lru), e)
      BY <1>3 DEF Entered
    <2>2. /\ Tail(lru) \in Seq(E) /\ Len(Tail(lru)) = Len(lru) - 1
          /\ \A j \in 1..(Len(lru) - 1) : Tail(lru)[j] = lru[j + 1]
      BY <1>1, <1>3, HeadTailProperties
    <2> QED
      BY <1>1, <1>3, <2>1, <2>2
  <1> QED
    BY <1>1, <1>2, <1>3

LEMMA TypesInductive == TypeInv /\ PhaseInv /\ [Next]_vars => TypeInv' /\ PhaseInv'
  <1> SUFFICES ASSUME TypeInv, PhaseInv, [Next]_vars
               PROVE  TypeInv' /\ PhaseInv'
    OBVIOUS
  <1> USE DEF TypeInv, PhaseInv, vars, driverVars, serverVars, rowVars, limiterVars
  <1>1. CASE UpdateWeights
    BY <1>1 DEF UpdateWeights
  <1>2. CASE NewBatch
    BY <1>2, AgentLoopAssumption DEF NewBatch, AllRows
  <1>3. CASE AllAwake
    BY <1>3 DEF AllAwake
  <1>4. CASE Collected
    BY <1>4, NoServerType, AgentLoopAssumption DEF Collected, AllRows, Masks
  <1>5. CASE AllAsleep
    BY <1>5 DEF AllAsleep
  <1>6. ASSUME NEW s \in Servers, WakeUp(s)
        PROVE  TypeInv' /\ PhaseInv'
    BY <1>6 DEF WakeUp
  <1>7. ASSUME NEW s \in Servers, Sleep(s)
        PROVE  TypeInv' /\ PhaseInv'
    BY <1>7, AgentLoopAssumption DEF Sleep, PrefixAfterSleep
  <1>8. ASSUME NEW r \in Row, Ask(r)
        PROVE  TypeInv' /\ PhaseInv'
    <2> DEFINE w == r[1]
    <2>1. w \in Workers /\ RequestId(r) \in Nat \X Row /\ cache[w] \in Seq(Entry)
      BY DEF Row, RequestId
    <2>2. \E s \in Servers, lru \in Seq(Entry) :
            at' = [at EXCEPT ![r] = s] /\ cache' = [cache EXCEPT ![w] = lru]
      <3>1. CASE \E i \in Known(w, RequestId(r)) :
                   /\ cache' = [cache EXCEPT ![w] = Touched(@, i)]
                   /\ at' = [at EXCEPT ![r] = cache[w][i][2]]
        <4>1. PICK i \in Known(w, RequestId(r)) :
                   /\ cache' = [cache EXCEPT ![w] = Touched(@, i)]
                   /\ at' = [at EXCEPT ![r] = cache[w][i][2]]
          BY <3>1
        <4>2. i \in DOMAIN cache[w] /\ cache[w][i] \in Entry
          BY <2>1 DEF Known
        <4>3. Touched(cache[w], i) \in Seq(Entry) /\ cache[w][i][2] \in Servers
          BY <2>1, <4>2, TouchedEntries DEF Entry
        <4> QED
          BY <4>1, <4>3
      <3>2. CASE \E s \in LeastLoaded(w) :
                   /\ cache' = [cache EXCEPT ![w] = Entered(@, <<RequestId(r), s>>)]
                   /\ at' = [at EXCEPT ![r] = s]
        <4>1. PICK s \in LeastLoaded(w) :
                   /\ cache' = [cache EXCEPT ![w] = Entered(@, <<RequestId(r), s>>)]
                   /\ at' = [at EXCEPT ![r] = s]
          BY <3>2
        <4>2. s \in Servers /\ <<RequestId(r), s>> \in Entry
          BY <2>1 DEF LeastLoaded, Entry
        <4>3. Entered(cache[w], <<RequestId(r), s>>) \in Seq(Entry)
          BY <2>1, <4>2, EnteredType
        <4> QED
          BY <4>1, <4>2, <4>3
      <3> QED
        BY <1>8, <3>1, <3>2 DEF Ask
    <2> HIDE DEF w
    <2> QED
      BY <1>8, <2>1, <2>2, SMTT(30) DEF Ask
  <1>9. ASSUME NEW r \in Row, Answer(r)
        PROVE  TypeInv' /\ PhaseInv'
    <2>1. PICK n \in 1..Room(r) : mask' = [mask EXCEPT ![r] = @ \o Tokens(n, 1)]
      BY <1>9 DEF Answer
    <2>2. n \in Nat /\ mask[r] \in Masks
      BY <2>1, RoomType
    <2>3. mask[r] \o Tokens(n, 1) \in Masks
      BY <2>2, AppendTokens
    <2>4. driver = "generating" /\ at[r] \in Servers /\ served[at[r]] \in Nat
      BY <1>9 DEF Answer
    <2>5. pc' = [pc EXCEPT ![r] = "done"] \/ pc' = [pc EXCEPT ![r] = "calling"]
      BY <1>9 DEF Answer
    <2>6. /\ prefix' = [prefix EXCEPT ![at[r]] = @ \cup {served[at[r]]}]
          /\ UNCHANGED <<driver, round, weights, awake, served, cache, at, prompt, user_turns>>
      BY <1>9 DEF Answer
    <2> QED
      BY <1>9, <2>1, <2>3, <2>4, <2>5, <2>6, ZenonT(30)
  <1>10. ASSUME NEW r \in Row, Gathered(r)
         PROVE  TypeInv' /\ PhaseInv'
    <2>1. PICK n \in 1..MaxToolTokens :
            \/ /\ mask' = [mask EXCEPT ![r] = @ \o Tokens(n, 0)]
               /\ user_turns' = [user_turns EXCEPT ![r] = @ + 1]
               /\ pc' = [pc EXCEPT ![r] = "ready"]
            \/ UNCHANGED <<mask, user_turns>> /\ pc' = [pc EXCEPT ![r] = "done"]
      BY <1>10 DEF Gathered
    <2>2. mask[r] \o Tokens(n, 0) \in Masks
      <3>1. n \in Nat /\ mask[r] \in Masks
        OBVIOUS
      <3> QED
        BY <3>1, AppendTokens
    <2>3. /\ driver = "generating"
          /\ UNCHANGED <<driver, round, weights, awake, served, prefix, cache, at, prompt>>
      BY <1>10 DEF Gathered
    <2>4. CASE /\ mask' = [mask EXCEPT ![r] = @ \o Tokens(n, 0)]
               /\ user_turns' = [user_turns EXCEPT ![r] = @ + 1]
               /\ pc' = [pc EXCEPT ![r] = "ready"]
      BY <2>2, <2>3, <2>4
    <2>5. CASE UNCHANGED <<mask, user_turns>> /\ pc' = [pc EXCEPT ![r] = "done"]
      BY <2>3, <2>5
    <2> QED
      BY <2>1, <2>4, <2>5
  <1>11. ASSUME NEW r \in Row, NEW i \in 1..MaxParallelCalls, Call(r, i)
         PROVE  TypeInv' /\ PhaseInv'
    BY <1>11 DEF Call, Begin, TakeThread, Execute
  <1>12. CASE Acquire
    BY <1>12 DEF Acquire
  <1>13. CASE Release
    BY <1>13 DEF Release
  <1>14. CASE GenerateRaises
    BY <1>14, NoServerType, AgentLoopAssumption DEF GenerateRaises, AllRows, Masks
  <1>15. ASSUME NEW r \in Row, Refuse(r)
         PROVE  TypeInv' /\ PhaseInv'
    BY <1>15 DEF Refuse
  <1>16. CASE UNCHANGED vars
    BY <1>16
  <1> QED
    BY <1>1, <1>2, <1>3, <1>4, <1>5, <1>6, <1>7, <1>8, <1>9, <1>10, <1>11, <1>12, <1>13, <1>14,
       <1>15, <1>16 DEF Next, Turn
-----------------------------------------------------------------------------
(* Answers come from the latest weights *)

LEMMA InitServers == Init => ServersInv
  BY DEF Init, ServersInv

LEMMA ServersInductive ==
  FreeCacheEngine /\ WeightsInv /\ [Next]_vars => ServersInv'
  <1> SUFFICES ASSUME FreeCacheEngine, TypeInv, PhaseInv, ServersInv, [Next]_vars
               PROVE  ServersInv'
    BY DEF WeightsInv
  <1> USE DEF ServersInv, vars, driverVars, serverVars, rowVars, limiterVars
  <1>1. CASE UpdateWeights
    BY <1>1 DEF UpdateWeights
  <1>2. CASE NewBatch
    BY <1>2 DEF NewBatch
  <1>3. CASE AllAwake
    BY <1>3 DEF AllAwake
  <1>4. CASE Collected
    BY <1>4 DEF Collected
  <1>5. CASE AllAsleep
    BY <1>5 DEF AllAsleep
  <1>6. ASSUME NEW s \in Servers, WakeUp(s)
        PROVE  ServersInv'
    BY <1>6 DEF WakeUp, TypeInv
  <1>7. ASSUME NEW s \in Servers, Sleep(s)
        PROVE  ServersInv'
    BY <1>7 DEF Sleep, PrefixAfterSleep, TypeInv
  <1>8. ASSUME NEW r \in Row, Ask(r)
        PROVE  ServersInv'
    BY <1>8 DEF Ask
  <1>9. ASSUME NEW r \in Row, Answer(r)
        PROVE  ServersInv'
    <2>1. driver = "generating" /\ at[r] \in Servers
      BY <1>9 DEF Answer, TypeInv, PhaseInv
    <2>2. /\ prefix' = [prefix EXCEPT ![at[r]] = @ \cup {served[at[r]]}]
          /\ UNCHANGED <<driver, weights, awake, served>>
      BY <1>9 DEF Answer
    <2> QED
      BY <2>1, <2>2 DEF TypeInv
  <1>10. ASSUME NEW r \in Row, Gathered(r)
         PROVE  ServersInv'
    BY <1>10 DEF Gathered
  <1>11. ASSUME NEW r \in Row, NEW i \in 1..MaxParallelCalls, Call(r, i)
         PROVE  ServersInv'
    BY <1>11 DEF Call, Begin, TakeThread, Execute
  <1>12. CASE Acquire
    BY <1>12 DEF Acquire
  <1>13. CASE Release
    BY <1>13 DEF Release
  <1>14. CASE GenerateRaises
    BY <1>14 DEF GenerateRaises
  <1>15. ASSUME NEW r \in Row, Refuse(r)
         PROVE  ServersInv'
    BY <1>15 DEF Refuse
  <1>16. CASE UNCHANGED vars
    BY <1>16
  <1> QED
    BY <1>1, <1>2, <1>3, <1>4, <1>5, <1>6, <1>7, <1>8, <1>9, <1>10, <1>11, <1>12, <1>13, <1>14,
       <1>15, <1>16 DEF Next, Turn

LEMMA WeightsInvCorrect == Spec => []WeightsInv
  <1>1. Init => WeightsInv
    BY InitTypes, InitServers DEF WeightsInv
  <1>2. WeightsInv /\ [Next]_vars => WeightsInv'
    BY TypesInductive, ServersInductive DEF WeightsInv
  <1> QED
    BY <1>1, <1>2, PTL DEF Spec

\* With free_cache_engine, whatever updates, validations and batches came
\* before, a server that is asked is awake, has the weights of the actor and
\* keeps no prefix computed with others (generate_sequences, wake_up, sleep).
THEOREM AnswersFromLatestWeightsCorrect ==
  FreeCacheEngine => (Spec => []AnswersFromLatestWeights)
  <1>1. FreeCacheEngine /\ WeightsInv => AnswersFromLatestWeights
    <2> SUFFICES ASSUME FreeCacheEngine, WeightsInv, NEW r \in Row, pc[r] = "asked"
                 PROVE  awake[at[r]] /\ served[at[r]] = weights /\ prefix[at[r]] \subseteq {weights}
      BY DEF AnswersFromLatestWeights
    <2>1. at[r] \in Servers /\ driver = "generating"
      BY DEF WeightsInv, TypeInv, PhaseInv
    <2> QED
      BY <2>1 DEF WeightsInv, ServersInv
  <1>2. CASE FreeCacheEngine
    <2>1. WeightsInv => AnswersFromLatestWeights
      BY <1>1, <1>2
    <2>2. Spec => []AnswersFromLatestWeights
      BY <2>1, WeightsInvCorrect, PTL
    <2> QED
      BY <2>2
  <1> QED
    BY <1>2
-----------------------------------------------------------------------------
(* Responses end with a token of the model *)

\* A cut to the first ResponseLength tokens keeps what is shorter.
KeptOf(m) == SubSeq(m, 1, IF Len(m) <= ResponseLength THEN Len(m) ELSE ResponseLength)

LEMMA KeptLast ==
  ASSUME NEW m \in Masks, m # <<>>,
         Len(m) < ResponseLength => m[Len(m)] = 1,
         Len(m) >= ResponseLength => m[ResponseLength] = 1
  PROVE  ModelSpokeLast(KeptOf(m))
  <1> DEFINE n == IF Len(m) <= ResponseLength THEN Len(m) ELSE ResponseLength
  <1>1. Len(m) \in Nat /\ Len(m) >= 1
    BY DEF Masks
  <1>2. n \in 1..Len(m) /\ m[n] = 1
    BY <1>1, AgentLoopAssumption
  <1>3. KeptOf(m) = SubSeq(m, 1, n)
    BY DEF KeptOf
  <1> HIDE DEF n
  <1>4. Len(SubSeq(m, 1, n)) = n /\ SubSeq(m, 1, n)[n] = m[n]
    BY <1>1, <1>2 DEF Masks
  <1> QED
    BY <1>2, <1>3, <1>4 DEF ModelSpokeLast

LEMMA InitTurns == Init => TurnInv
  BY DEF Init, TurnInv, AllRows

\* An answer either fills the response or leaves the model the last word.
LEMMA AnswerKeepsTurns ==
  ASSUME TypeInv, TypeInv', PhaseInv, TurnInv, NEW r \in Row, Answer(r)
  PROVE  TurnInv'
  <1>1. PICK n \in 1..Room(r), k \in 0..MaxCalls :
          /\ mask' = [mask EXCEPT ![r] = @ \o Tokens(n, 1)]
          /\ IF NoFurtherTurn(r, Len(mask[r]) + n) \/ k = 0
             THEN pc' = [pc EXCEPT ![r] = "done"]
             ELSE pc' = [pc EXCEPT ![r] = "calling"]
    BY DEF Answer
  <1>2. n \in Nat \ {0} /\ mask[r] \in Masks /\ Len(mask[r]) \in Nat
    BY <1>1, RoomType, SMTT(30) DEF TypeInv, Masks
  <1> DEFINE m == mask[r] \o Tokens(n, 1)
  <1>3. /\ m \in Masks /\ Len(m) = Len(mask[r]) + n
        /\ \A i \in (Len(mask[r]) + 1)..Len(m) : m[i] = 1
    <2>1. /\ m \in Masks /\ Len(m) = Len(mask[r]) + n
          /\ \A i \in (Len(mask[r]) + 1)..(Len(mask[r]) + n) : m[i] = 1
      BY <1>2, AppendTokens
    <2> QED
      BY <2>1
  <1>4. mask'[r] = m /\ \A q \in Row \ {r} : mask'[q] = mask[q] /\ pc'[q] = pc[q]
    BY <1>1 DEF TypeInv
  <1>5. /\ Len(mask[r]) < ResponseLength
        /\ driver = "generating" /\ driver' = driver /\ prompt' = prompt
    BY DEF Answer, TurnInv, PhaseInv, TypeInv, driverVars
  <1> HIDE DEF m
  <1>6. m # <<>> /\ m[Len(m)] = 1 /\ (Len(m) >= ResponseLength => m[ResponseLength] = 1)
    BY <1>2, <1>3, <1>5, AgentLoopAssumption DEF Masks
  <1>7. ModelSpokeLast(Kept(r))'
    <2>1. ModelSpokeLast(KeptOf(m))
      BY <1>3, <1>6, KeptLast
    <2> QED
      BY <1>4, <2>1 DEF Kept, KeptOf, ModelSpokeLast
  <1>8. pc'[r] = "done" \/ (pc'[r] = "calling" /\ Len(m) < ResponseLength)
    BY <1>1, <1>2, <1>3, AgentLoopAssumption DEF TypeInv, NoFurtherTurn
  <1>9. \A q \in Row \ {r} : Kept(q)' = Kept(q)
    BY <1>4 DEF Kept
  <1> QED
    BY <1>4, <1>5, <1>6, <1>7, <1>8, <1>9 DEF TurnInv, ModelSpokeLast

\* A tool turn is appended only with room behind it; a loop that ends after
\* its tools keeps what the model said last.
LEMMA GatheredKeepsTurns ==
  ASSUME TypeInv, PhaseInv, TurnInv, NEW r \in Row, Gathered(r)
  PROVE  TurnInv'
  <1>1. PICK n \in 1..MaxToolTokens :
          \/ /\ ToolTurnFits(r, n)
             /\ mask' = [mask EXCEPT ![r] = @ \o Tokens(n, 0)]
             /\ pc' = [pc EXCEPT ![r] = "ready"]
          \/ mask' = mask /\ pc' = [pc EXCEPT ![r] = "done"]
    BY DEF Gathered
  <1>2. /\ mask[r] \in Masks /\ Len(mask[r]) \in Nat /\ Len(mask[r]) < ResponseLength
        /\ ModelSpokeLast(mask[r])
        /\ driver = "generating" /\ driver' = driver /\ prompt' = prompt
    BY DEF Gathered, TypeInv, PhaseInv, TurnInv, Masks, driverVars
  <1>3. \A q \in Row \ {r} : mask'[q] = mask[q] /\ pc'[q] = pc[q] /\ Kept(q)' = Kept(q)
    BY <1>1 DEF TypeInv, Kept
  <1>4. CASE /\ ToolTurnFits(r, n)
             /\ mask' = [mask EXCEPT ![r] = @ \o Tokens(n, 0)]
             /\ pc' = [pc EXCEPT ![r] = "ready"]
    <2>1. Len(mask[r] \o Tokens(n, 0)) = Len(mask[r]) + n
      <3>1. n \in Nat /\ mask[r] \in Masks
        BY <1>2
      <3> QED
        BY <3>1, AppendTokens
    <2>2. mask'[r] = mask[r] \o Tokens(n, 0) /\ pc'[r] = "ready"
      BY <1>4 DEF TypeInv
    <2>3. Len(mask'[r]) < ResponseLength
      BY <1>4, <2>1, <2>2 DEF ToolTurnFits
    <2> QED
      BY <1>2, <1>3, <2>2, <2>3 DEF TurnInv
  <1>5. CASE mask' = mask /\ pc' = [pc EXCEPT ![r] = "done"]
    <2>1. ModelSpokeLast(KeptOf(mask[r]))
      <3>1. mask[r] # <<>> /\ mask[r][Len(mask[r])] = 1 /\ ~(Len(mask[r]) >= ResponseLength)
        BY <1>2, AgentLoopAssumption DEF ModelSpokeLast
      <3> QED
        BY <1>2, <3>1, KeptLast
    <2>2. ModelSpokeLast(Kept(r))'
      BY <1>5, <2>1 DEF Kept, KeptOf, ModelSpokeLast
    <2>3. pc'[r] = "done" /\ mask'[r] = mask[r]
      BY <1>5 DEF TypeInv
    <2> QED
      BY <1>2, <1>3, <2>2, <2>3 DEF TurnInv
  <1> QED
    BY <1>1, <1>4, <1>5

LEMMA TurnsInductive == LoopInv /\ TypeInv' /\ [Next]_vars => TurnInv'
  <1> SUFFICES ASSUME TypeInv, PhaseInv, TurnInv, TypeInv', [Next]_vars
               PROVE  TurnInv'
    BY DEF LoopInv
  <1> USE DEF TurnInv, Kept, vars, driverVars, serverVars, rowVars, limiterVars
  <1>1. CASE UpdateWeights
    BY <1>1 DEF UpdateWeights
  <1>2. CASE NewBatch
    BY <1>2, AgentLoopAssumption DEF NewBatch, AllRows, PhaseInv
  <1>3. CASE AllAwake
    BY <1>3 DEF AllAwake, PhaseInv
  <1>4. CASE Collected
    BY <1>4, AgentLoopAssumption DEF Collected, AllRows
  <1>5. CASE AllAsleep
    BY <1>5 DEF AllAsleep
  <1>6. ASSUME NEW s \in Servers, WakeUp(s)
        PROVE  TurnInv'
    BY <1>6 DEF WakeUp
  <1>7. ASSUME NEW s \in Servers, Sleep(s)
        PROVE  TurnInv'
    BY <1>7 DEF Sleep
  <1>8. ASSUME NEW r \in Row, Ask(r)
        PROVE  TurnInv'
    <2>1. pc[r] = "ready" /\ pc' = [pc EXCEPT ![r] = "asked"] /\ UNCHANGED <<driver, mask, prompt>>
      BY <1>8 DEF Ask
    <2> QED
      BY <2>1 DEF TypeInv
  <1>9. ASSUME NEW r \in Row, Answer(r)
        PROVE  TurnInv'
    BY <1>9, AnswerKeepsTurns
  <1>10. ASSUME NEW r \in Row, Gathered(r)
         PROVE  TurnInv'
    BY <1>10, GatheredKeepsTurns
  <1>11. ASSUME NEW r \in Row, NEW i \in 1..MaxParallelCalls, Call(r, i)
         PROVE  TurnInv'
    BY <1>11 DEF Call, Begin, TakeThread, Execute
  <1>12. CASE Acquire
    BY <1>12 DEF Acquire
  <1>13. CASE Release
    BY <1>13 DEF Release
  <1>14. CASE GenerateRaises
    BY <1>14, AgentLoopAssumption DEF GenerateRaises, AllRows
  <1>15. ASSUME NEW r \in Row, Refuse(r)
         PROVE  TurnInv'
    <2>1. pc[r] = "asked" /\ pc' = [pc EXCEPT ![r] = "refused"] /\ UNCHANGED <<driver, mask, prompt>>
      BY <1>15 DEF Refuse
    <2>2. prompt[r] \in Nat /\ Len(mask[r]) \in Nat /\ Len(mask[r]) < ResponseLength
      BY <2>1 DEF TypeInv, Masks
    <2>3. prompt[r] + ResponseLength > MaxModelLen
      BY <1>15, <2>2, RoomType, AgentLoopAssumption DEF Refuse
    <2> QED
      BY <2>1, <2>3 DEF TypeInv
  <1>16. CASE UNCHANGED vars
    BY <1>16
  <1> QED
    BY <1>1, <1>2, <1>3, <1>4, <1>5, <1>6, <1>7, <1>8, <1>9, <1>10, <1>11, <1>12, <1>13, <1>14,
       <1>15, <1>16 DEF Next, Turn

\* Rows that cannot be joined are not all as wide as was configured.
LEMMA NotJoined ==
  ASSUME TypeInv, NEW rows \in SUBSET Row, ~Join(rows)
  PROVE  \E r \in Row : prompt[r] > PromptLength
  <1>1. PICK r \in rows, q \in rows : Width(r) # Width(q)
    BY DEF Join
  <1> QED
    BY <1>1, AgentLoopAssumption DEF Width, TypeInv

LEMMA RaisedInductive == LoopInv /\ [Next]_vars => RaisedInv'
  <1> SUFFICES ASSUME LoopInv, [Next]_vars, driver' = "raised"
               PROVE  \E r \in Row : TooLong(r)'
    BY DEF RaisedInv
  <1> USE DEF vars, driverVars, serverVars, rowVars, limiterVars, TooLong
  <1>1. CASE driver = "raised" /\ prompt' = prompt
    BY <1>1 DEF LoopInv, RaisedInv
  <1>2. CASE GenerateRaises
    <2>1. \E r \in Row : TooLong(r)
      <3>1. CASE \E r \in Row : pc[r] = "refused"
        BY <3>1 DEF LoopInv, TurnInv
      <3>2. CASE \E rows \in {{w} \X (1..RowsPerWorker) : w \in Workers} \cup {Row} : ~Join(rows)
        <4>1. PICK rows \in {{w} \X (1..RowsPerWorker) : w \in Workers} \cup {Row} : ~Join(rows)
          BY <3>2
        <4>2. rows \in SUBSET Row
          BY DEF Row
        <4> QED
          BY <4>1, <4>2, NotJoined DEF LoopInv
      <3> QED
        BY <1>2, <3>1, <3>2 DEF GenerateRaises
    <2> QED
      BY <1>2, <2>1 DEF GenerateRaises
  <1>3. CASE UpdateWeights \/ NewBatch \/ AllAwake \/ Collected \/ AllAsleep \/ Acquire \/ Release
    BY <1>1, <1>3 DEF UpdateWeights, NewBatch, AllAwake, Collected, AllAsleep, Acquire, Release
  <1>4. CASE \E s \in Servers : WakeUp(s) \/ Sleep(s)
    BY <1>1, <1>4 DEF WakeUp, Sleep
  <1>5. ASSUME NEW r \in Row, Turn(r)
        PROVE  driver' = driver /\ prompt' = prompt
    BY <1>5 DEF Turn, Ask, Answer, Refuse, Gathered
  <1>6. ASSUME NEW r \in Row, NEW i \in 1..MaxParallelCalls, Call(r, i)
        PROVE  driver' = driver /\ prompt' = prompt
    BY <1>6 DEF Call, Begin, TakeThread, Execute
  <1>7. CASE UNCHANGED vars
    BY <1>1, <1>7
  <1> QED
    BY <1>1, <1>2, <1>3, <1>4, <1>5, <1>6, <1>7 DEF Next

\* Whatever the answers, the tools and the limits: a response that is kept ends
\* with the model, and only a prompt that leaves too little room for a whole
\* response, or is longer than configured, makes a loop or a batch raise
\* (ToolAgentLoop.run, AsyncvLLMServer.generate).
THEOREM EndsWithAnswerCorrect == Spec => []EndsWithAnswer
  <1>1. Init => LoopInv
    BY InitTypes, InitTurns DEF LoopInv, RaisedInv, Init
  <1>2. LoopInv /\ [Next]_vars => LoopInv'
    BY TypesInductive, TurnsInductive, RaisedInductive DEF LoopInv
  <1>3. LoopInv => EndsWithAnswer
    BY DEF LoopInv, TurnInv, RaisedInv, TooLong, ModelSpokeLast, EndsWithAnswer
  <1> QED
    BY <1>1, <1>2, <1>3, PTL DEF Spec
-----------------------------------------------------------------------------
(* A loop stays on its server *)

\* The cache of a worker in round rd: requests of its own rows, each once,
\* and those of the present round after all others.
LruOK(lru, w, rd) ==
  /\ Len(lru) <= CacheSize
  /\ \A i \in DOMAIN lru : lru[i][1][1] <= rd /\ lru[i][1][2][1] = w
  /\ \A i, j \in DOMAIN lru : lru[i][1] = lru[j][1] => i = j
  /\ \A i, j \in DOMAIN lru : i < j /\ lru[i][1][1] = rd => lru[j][1][1] = rd

CacheInv == \A w \in Workers : LruOK(cache[w], w, round)

\* A loop that has asked before is known at the server it asked.
Recorded(r) == \E i \in DOMAIN cache[r[1]] : cache[r[1]][i] = <<RequestId(r), at[r]>>
UnderWay(r) == pc[r] \in {"asked", "calling"} \/ (pc[r] = "ready" /\ user_turns[r] > 0)

SessionInv == \A r \in Row : UnderWay(r) => Recorded(r)

StickyInv ==
  /\ TypeInv /\ PhaseInv /\ CacheInv
  /\ RowsPerWorker <= CacheSize => SessionInv

\* Where the entry at k was before the one at i went to the end of n.
From(k, i, n) == IF k < i THEN k ELSE IF k < n THEN k + 1 ELSE i

LEMMA FromFacts ==
  ASSUME NEW n \in Nat, NEW i \in 1..n
  PROVE  /\ \A k \in 1..n : From(k, i, n) \in 1..n
         /\ \A k, l \in 1..n : From(k, i, n) = From(l, i, n) => k = l
         /\ \A k, l \in 1..n : k < l => From(k, i, n) < From(l, i, n) \/ From(l, i, n) = i
         /\ \A j \in 1..n : \E k \in 1..n : From(k, i, n) = j
  <1>1. \A k \in 1..n : From(k, i, n) \in 1..n
    BY DEF From
  <1>2. \A k, l \in 1..n : From(k, i, n) = From(l, i, n) => k = l
    BY DEF From
  <1>3. \A k, l \in 1..n : k < l => From(k, i, n) < From(l, i, n) \/ From(l, i, n) = i
    BY DEF From
  <1>4. ASSUME NEW j \in 1..n
        PROVE  \E k \in 1..n : From(k, i, n) = j
    <2>1. CASE j < i
      BY <2>1 DEF From
    <2>2. CASE j = i
      <3>1. n \in 1..n /\ From(n, i, n) = j
        BY <2>2 DEF From
      <3> QED
        BY <3>1
    <2>3. CASE j > i
      <3>1. j - 1 \in 1..n /\ From(j - 1, i, n) = j
        BY <2>3 DEF From
      <3> QED
        BY <3>1
    <2> QED
      BY <2>1, <2>2, <2>3
  <1> QED
    BY <1>1, <1>2, <1>3, <1>4

LEMMA TouchedKeeps ==
  ASSUME NEW w \in Workers, NEW rd \in Nat, NEW lru \in Seq(Entry), LruOK(lru, w, rd),
         NEW i \in DOMAIN lru, lru[i][1][1] = rd
  PROVE  /\ LruOK(Touched(lru, i), w, rd)
         /\ \A j \in DOMAIN lru : \E k \in DOMAIN Touched(lru, i) : Touched(lru, i)[k] = lru[j]
  <1> DEFINE new == Touched(lru, i)
             n == Len(lru)
             from(k) == From(k, i, n)
  <1>1. /\ new \in Seq(Entry) /\ Len(new) = n
        /\ \A j \in 1..(i - 1) : new[j] = lru[j]
        /\ \A j \in i..(n - 1) : new[j] = lru[j + 1]
        /\ new[n] = lru[i]
    BY TouchedEntries
  <1>2. n \in Nat /\ i \in 1..n /\ DOMAIN lru = 1..n
    OBVIOUS
  <1>3. DOMAIN new = 1..n
    BY <1>1
  <1> HIDE DEF new, n
  <1>4. \A k \in 1..n : from(k) \in 1..n /\ new[k] = lru[from(k)]
    BY <1>1, <1>2 DEF From
  <1>5. /\ \A k, l \in 1..n : from(k) = from(l) => k = l
        /\ \A k, l \in 1..n : k < l => from(k) < from(l) \/ from(l) = i
        /\ \A j \in 1..n : \E k \in 1..n : from(k) = j
    BY <1>2, FromFacts
  <1> HIDE DEF from
  <1>6. /\ n <= CacheSize
        /\ \A k \in 1..n : lru[k][1][1] <= rd /\ lru[k][1][2][1] = w
        /\ \A k, l \in 1..n : lru[k][1] = lru[l][1] => k = l
        /\ \A k, l \in 1..n : k < l /\ lru[k][1][1] = rd => lru[l][1][1] = rd
    BY <1>2 DEF LruOK, n
  <1>7. LruOK(new, w, rd)
    <2>1. \A k \in 1..n : new[k][1][1] <= rd /\ new[k][1][2][1] = w
      BY <1>4, <1>6
    <2>2. ASSUME NEW k \in 1..n, NEW l \in 1..n, new[k][1] = new[l][1]
          PROVE  k = l
      <3>1. from(k) \in 1..n /\ from(l) \in 1..n /\ lru[from(k)][1] = lru[from(l)][1]
        BY <1>4, <2>2
      <3>2. from(k) = from(l)
        BY <1>6, <3>1
      <3> QED
        BY <1>5, <3>2
    <2>3. ASSUME NEW k \in 1..n, NEW l \in 1..n, k < l, new[k][1][1] = rd
          PROVE  new[l][1][1] = rd
      <3>1. /\ from(k) \in 1..n /\ from(l) \in 1..n
            /\ new[l] = lru[from(l)] /\ lru[from(k)][1][1] = rd
        BY <1>4, <2>3
      <3>2. from(k) < from(l) \/ from(l) = i
        BY <1>5, <2>3
      <3>3. lru[from(l)][1][1] = rd
        BY <1>6, <3>1, <3>2
      <3> QED
        BY <3>1, <3>3
    <2> QED
      BY <1>1, <1>3, <1>6, <2>1, <2>2, <2>3 DEF LruOK
  <1>8. \A j \in DOMAIN lru : \E k \in DOMAIN new : new[k] = lru[j]
    BY <1>2, <1>3, <1>4, <1>5
  <1> QED
    BY <1>7, <1>8 DEF new

\* A new request of the present round pushes out no other of this round when a
\* chunk is no larger than the cache: CacheSize of them and the new one would
\* be more rows than the worker has.
LEMMA OldestIsOfEarlierRound ==
  ASSUME RowsPerWorker <= CacheSize, NEW r \in Row, NEW rd \in Nat, NEW lru \in Seq(Entry),
         LruOK(lru, r[1], rd), Len(lru) = CacheSize,
         \A i \in DOMAIN lru : lru[i][1] # <<rd, r>>
  PROVE  lru[1][1][1] # rd
  <1> SUFFICES ASSUME lru[1][1][1] = rd
               PROVE  FALSE
    OBVIOUS
  <1>1. CacheSize \in Nat \ {0} /\ RowsPerWorker \in Nat \ {0} /\ DOMAIN lru = 1..CacheSize
    BY AgentLoopAssumption
  <1>2. \A i \in 1..CacheSize : lru[i][1][1] = rd
    BY <1>1 DEF LruOK
  <1>3. \A i \in 1..CacheSize : lru[i] \in Entry /\ lru[i][1][2][1] = r[1]
    BY <1>1 DEF LruOK
  <1> DEFINE row(i) == IF i <= CacheSize THEN lru[i][1][2][2] ELSE r[2]
             f == [i \in 1..(CacheSize + 1) |-> row(i)]
  <1>4. \A i \in 1..CacheSize : lru[i][1] = <<rd, <<r[1], row(i)>>>> /\ row(i) \in 1..RowsPerWorker
    <2> SUFFICES ASSUME NEW i \in 1..CacheSize
                 PROVE  lru[i][1] = <<rd, <<r[1], row(i)>>>> /\ row(i) \in 1..RowsPerWorker
      OBVIOUS
    <2>1. lru[i][1] \in Nat \X Row
      BY <1>3 DEF Entry
    <2>2. lru[i][1] = <<lru[i][1][1], lru[i][1][2]>> /\ lru[i][1][2] \in Row
      BY <2>1
    <2>3. lru[i][1][2] = <<lru[i][1][2][1], lru[i][1][2][2]>> /\ lru[i][1][2][2] \in 1..RowsPerWorker
      BY <2>2 DEF Row
    <2>4. row(i) = lru[i][1][2][2]
      BY <1>1
    <2> HIDE DEF row
    <2> QED
      BY <1>2, <1>3, <2>2, <2>3, <2>4
  <1>5. r = <<r[1], row(CacheSize + 1)>> /\ row(CacheSize + 1) \in 1..RowsPerWorker
    BY <1>1 DEF Row
  <1>6. f \in [1..(CacheSize + 1) -> 1..RowsPerWorker]
    BY <1>1, <1>4, <1>5
  <1>7. /\ IsFiniteSet(1..(CacheSize + 1)) /\ Cardinality(1..(CacheSize + 1)) = CacheSize + 1
        /\ IsFiniteSet(1..RowsPerWorker) /\ Cardinality(1..RowsPerWorker) = RowsPerWorker
    BY <1>1, FS_Interval
  <1>8. PICK x, y \in 1..(CacheSize + 1) : x # y /\ f[x] = f[y]
    <2> DEFINE S == 1..(CacheSize + 1)
               T == 1..RowsPerWorker
    <2>1. Cardinality(T) < Cardinality(S) /\ IsFiniteSet(T) /\ IsFiniteSet(S)
      BY <1>1, <1>7
    <2>2. f \in [S -> T]
      BY <1>6
    <2> HIDE DEF f, S, T
    <2>3. \E x, y \in S : x # y /\ f[x] = f[y]
      BY <2>1, <2>2, FS_PigeonHole, Zenon
    <2> QED
      BY <2>3 DEF S
  <1>9. row(x) = row(y)
    BY <1>8
  <1> HIDE DEF row, f
  <1>10. CASE x \in 1..CacheSize /\ y \in 1..CacheSize
    <2>1. lru[x][1] = lru[y][1]
      BY <1>4, <1>9, <1>10
    <2>2. x = y
      BY <1>1, <1>10, <2>1 DEF LruOK
    <2> QED
      BY <1>8, <2>2
  <1>11. CASE x = CacheSize + 1 /\ y \in 1..CacheSize
    BY <1>1, <1>4, <1>5, <1>9, <1>11
  <1>12. CASE y = CacheSize + 1 /\ x \in 1..CacheSize
    BY <1>1, <1>4, <1>5, <1>9, <1>12
  <1> QED
    BY <1>1, <1>8, <1>10, <1>11, <1>12

LEMMA EnteredWithRoom ==
  ASSUME NEW w \in Workers, NEW rd \in Nat, NEW lru \in Seq(Entry), LruOK(lru, w, rd),
         NEW e \in Entry, e[1][1] = rd, e[1][2][1] = w,
         \A i \in DOMAIN lru : lru[i][1] # e[1], Len(lru) < CacheSize
  PROVE  /\ LruOK(Entered(lru, e), w, rd)
         /\ \E k \in DOMAIN Entered(lru, e) : Entered(lru, e)[k] = e
         /\ \A j \in DOMAIN lru : \E k \in DOMAIN Entered(lru, e) : Entered(lru, e)[k] = lru[j]
  <1>1. /\ Len(lru) \in Nat /\ DOMAIN lru = 1..Len(lru) /\ CacheSize \in Nat \ {0}
        /\ Len(lru) <= CacheSize
    BY AgentLoopAssumption DEF LruOK
  <1>2. PICK new \in Seq(Entry) : new = Entered(lru, e) /\ new = Append(lru, e)
    BY <1>1, EnteredEntries, EnteredType, ZenonT(30)
  <1>3. PICK n \in Nat : n = Len(lru)
    BY <1>1
  <1>4. /\ Len(new) = n + 1 /\ DOMAIN new = 1..(n + 1) /\ new[n + 1] = e
        /\ \A k \in 1..n : new[k] = lru[k]
    BY <1>2, <1>3
  <1>5. /\ \A k \in 1..n : lru[k][1][1] <= rd /\ lru[k][1][2][1] = w /\ lru[k][1] # e[1]
        /\ \A k, l \in 1..n : lru[k][1] = lru[l][1] => k = l
        /\ \A k, l \in 1..n : k < l /\ lru[k][1][1] = rd => lru[l][1][1] = rd
    BY <1>1, <1>3 DEF LruOK
  <1>6. \A k \in 1..(n + 1) : new[k][1][1] <= rd /\ new[k][1][2][1] = w
    BY <1>4, <1>5
  <1>7. \A k, l \in 1..(n + 1) : new[k][1] = new[l][1] => k = l
    BY <1>4, <1>5
  <1>8. \A k, l \in 1..(n + 1) : k < l /\ new[k][1][1] = rd => new[l][1][1] = rd
    <2> SUFFICES ASSUME NEW k \in 1..n, NEW l \in 1..(n + 1), k < l, new[k][1][1] = rd
                 PROVE  new[l][1][1] = rd
      BY <1>3
    <2>1. CASE l = n + 1
      BY <1>4, <2>1
    <2>2. CASE l # n + 1
      <3>1. l \in 1..n
        BY <1>1, <1>3, <2>2
      <3> QED
        BY <1>4, <1>5, <3>1
    <2> QED
      BY <2>1, <2>2
  <1>9. LruOK(new, w, rd)
    BY <1>1, <1>3, <1>4, <1>6, <1>7, <1>8 DEF LruOK
  <1>10. \A j \in DOMAIN lru : \E k \in DOMAIN new : new[k] = lru[j]
    BY <1>1, <1>3, <1>4
  <1>11. \E k \in DOMAIN new : new[k] = e
    BY <1>4
  <1> QED
    BY <1>2, <1>9, <1>10, <1>11

LEMMA EnteredWhenFull ==
  ASSUME NEW w \in Workers, NEW rd \in Nat, NEW lru \in Seq(Entry), LruOK(lru, w, rd),
         NEW e \in Entry, e[1][1] = rd, e[1][2][1] = w,
         \A i \in DOMAIN lru : lru[i][1] # e[1], Len(lru) = CacheSize
  PROVE  /\ LruOK(Entered(lru, e), w, rd)
         /\ \E k \in DOMAIN Entered(lru, e) : Entered(lru, e)[k] = e
         /\ \A j \in DOMAIN lru :
              j # 1 => \E k \in DOMAIN Entered(lru, e) : Entered(lru, e)[k] = lru[j]
  <1>1. /\ Len(lru) \in Nat /\ DOMAIN lru = 1..Len(lru) /\ CacheSize \in Nat \ {0}
        /\ Len(lru) <= CacheSize
    BY AgentLoopAssumption DEF LruOK
  <1>2. PICK n \in Nat \ {0} : n = Len(lru)
    BY <1>1
  <1>3. PICK new \in Seq(Entry) :
          /\ new = Entered(lru, e) /\ Len(new) = n /\ new[n] = e
          /\ \A k \in 1..(n - 1) : new[k] = lru[k + 1]
    <2>1. Entered(lru, e) \in Seq(Entry)
      BY EnteredType
    <2>2. /\ Len(Entered(lru, e)) = Len(lru) /\ Entered(lru, e)[Len(lru)] = e
          /\ \A k \in 1..(Len(lru) - 1) : Entered(lru, e)[k] = lru[k + 1]
      BY <1>1, EnteredEntries
    <2> QED
      BY <1>2, <2>1, <2>2
  <1>4. DOMAIN new = 1..n
    BY <1>3
  <1>5. /\ \A k \in 1..n : lru[k][1][1] <= rd /\ lru[k][1][2][1] = w /\ lru[k][1] # e[1]
        /\ \A k, l \in 1..n : lru[k][1] = lru[l][1] => k = l
        /\ \A k, l \in 1..n : k < l /\ lru[k][1][1] = rd => lru[l][1][1] = rd
    BY <1>1, <1>2 DEF LruOK
  <1>6. \A k \in 1..n : new[k][1][1] <= rd /\ new[k][1][2][1] = w
    BY <1>3, <1>5
  <1>7. \A k, l \in 1..n : new[k][1] = new[l][1] => k = l
    BY <1>3, <1>5, SMTT(30)
  <1>8. \A k, l \in 1..n : k < l /\ new[k][1][1] = rd => new[l][1][1] = rd
    BY <1>3, <1>5, SMTT(30)
  <1>9. LruOK(new, w, rd)
    BY <1>1, <1>2, <1>3, <1>4, <1>6, <1>7, <1>8 DEF LruOK
  <1>10. ASSUME NEW j \in DOMAIN lru, j # 1
         PROVE  \E k \in DOMAIN new : new[k] = lru[j]
    <2>1. j - 1 \in 1..(n - 1) /\ new[j - 1] = lru[j]
      BY <1>1, <1>2, <1>3, <1>10
    <2> QED
      BY <1>4, <2>1
  <1>11. \E k \in DOMAIN new : new[k] = e
    BY <1>3, <1>4
  <1> QED
    BY <1>3, <1>9, <1>10, <1>11

\* A new request of row r is recorded, and with a chunk no larger than the
\* cache no request of the present round is forgotten for it.
LEMMA EnteredKeeps ==
  ASSUME NEW r \in Row, NEW rd \in Nat, NEW lru \in Seq(Entry), LruOK(lru, r[1], rd),
         NEW e \in Entry, e[1] = <<rd, r>>, \A i \in DOMAIN lru : lru[i][1] # e[1]
  PROVE  /\ LruOK(Entered(lru, e), r[1], rd)
         /\ \E k \in DOMAIN Entered(lru, e) : Entered(lru, e)[k] = e
         /\ RowsPerWorker <= CacheSize =>
              \A j \in DOMAIN lru : lru[j][1][1] = rd =>
                \E k \in DOMAIN Entered(lru, e) : Entered(lru, e)[k] = lru[j]
  <1>1. r[1] \in Workers /\ e[1][1] = rd /\ e[1][2][1] = r[1]
    BY DEF Row
  <1>2. Len(lru) \in Nat /\ Len(lru) <= CacheSize /\ CacheSize \in Nat
    BY AgentLoopAssumption DEF LruOK
  <1>3. CASE Len(lru) < CacheSize
    BY <1>1, <1>3, EnteredWithRoom
  <1>4. CASE Len(lru) = CacheSize
    <2>1. RowsPerWorker <= CacheSize => lru[1][1][1] # rd
      BY <1>4, OldestIsOfEarlierRound
    <2> QED
      BY <1>1, <1>4, <2>1, EnteredWhenFull
  <1> QED
    BY <1>2, <1>3, <1>4

LEMMA InitSticky == Init => CacheInv /\ SessionInv
  BY AgentLoopAssumption DEF Init, CacheInv, SessionInv, LruOK, UnderWay, AllRows

\* What a loop knows of its server survives what the other loops ask.
LEMMA AskKeepsSessions ==
  ASSUME TypeInv, TypeInv', CacheInv, RowsPerWorker <= CacheSize => SessionInv,
         NEW r \in Row, Ask(r)
  PROVE  /\ CacheInv'
         /\ RowsPerWorker <= CacheSize => SessionInv'
         /\ RowsPerWorker <= CacheSize /\ user_turns[r] > 0 => at'[r] = at[r]
  <1> DEFINE w == r[1]
             lru == cache[w]
             new == cache'[w]
  <1>1. /\ w \in Workers /\ lru \in Seq(Entry) /\ LruOK(lru, w, round) /\ round \in Nat
        /\ RequestId(r) = <<round, r>> /\ RequestId(r) \in Nat \X Row
    BY DEF TypeInv, CacheInv, Row, RequestId
  <1>2. /\ UNCHANGED <<round, user_turns>>
        /\ pc' = [pc EXCEPT ![r] = "asked"]
        /\ \A q \in Row \ {r} : at'[q] = at[q]
        /\ \A v \in Workers \ {w} : cache'[v] = cache[v]
    BY <1>1, ZenonT(30) DEF Ask, driverVars, TypeInv
  <1>3. /\ LruOK(new, w, round)
        /\ \E k \in DOMAIN new : new[k] = <<RequestId(r), at'[r]>>
        /\ RowsPerWorker <= CacheSize =>
             \A j \in DOMAIN lru : lru[j][1][1] = round => \E k \in DOMAIN new : new[k] = lru[j]
        /\ \A i \in DOMAIN lru : lru[i][1] = RequestId(r) => at'[r] = lru[i][2]
    <2>1. CASE \E i \in Known(w, RequestId(r)) :
                 /\ cache' = [cache EXCEPT ![w] = Touched(@, i)]
                 /\ at' = [at EXCEPT ![r] = cache[w][i][2]]
      <3>1. PICK i \in DOMAIN lru : /\ lru[i][1] = RequestId(r)
                                   /\ new = Touched(lru, i)
                                   /\ at'[r] = lru[i][2]
        BY <1>1, <2>1 DEF Known, TypeInv
      <3>2. lru[i] \in Entry /\ lru[i][1][1] = round
        BY <1>1, <3>1
      <3>3. lru[i] = <<RequestId(r), at'[r]>>
        BY <3>1, <3>2 DEF Entry
      <3>4. \A j \in DOMAIN lru : lru[j][1] = RequestId(r) => j = i
        BY <1>1, <3>1 DEF LruOK
      <3> HIDE DEF new, lru
      <3>5. /\ LruOK(Touched(lru, i), w, round)
            /\ \A j \in DOMAIN lru :
                 \E k \in DOMAIN Touched(lru, i) : Touched(lru, i)[k] = lru[j]
        BY <1>1, <3>2, TouchedKeeps
      <3> QED
        BY <3>1, <3>3, <3>4, <3>5
    <2>2. CASE /\ Known(w, RequestId(r)) = {}
               /\ \E s \in LeastLoaded(w) :
                    /\ cache' = [cache EXCEPT ![w] = Entered(@, <<RequestId(r), s>>)]
                    /\ at' = [at EXCEPT ![r] = s]
      <3>1. PICK s \in Servers : new = Entered(lru, <<RequestId(r), s>>) /\ at'[r] = s
        BY <1>1, <2>2 DEF LeastLoaded, TypeInv
      <3>2. \A i \in DOMAIN lru : lru[i][1] # RequestId(r)
        BY <2>2 DEF Known
      <3>3. PICK e \in Entry : e = <<RequestId(r), s>> /\ e[1] = <<round, r>>
        <4>1. <<RequestId(r), s>> \in Entry
          BY <1>1 DEF Entry
        <4>2. <<RequestId(r), s>>[1] = <<round, r>>
          BY <1>1
        <4> QED
          BY <4>1, <4>2
      <3> HIDE DEF new, lru
      <3>4. \A i \in DOMAIN lru : lru[i][1] # e[1]
        BY <1>1, <3>2, <3>3
      <3>5. /\ LruOK(Entered(lru, e), w, round)
            /\ \E k \in DOMAIN Entered(lru, e) : Entered(lru, e)[k] = e
            /\ RowsPerWorker <= CacheSize =>
                 \A j \in DOMAIN lru : lru[j][1][1] = round =>
                   \E k \in DOMAIN Entered(lru, e) : Entered(lru, e)[k] = lru[j]
        BY <1>1, <3>3, <3>4, EnteredKeeps, ZenonT(30)
      <3> QED
        BY <3>1, <3>2, <3>3, <3>5
    <2> QED
      BY <2>1, <2>2 DEF Ask
  <1>4. CacheInv'
    BY <1>1, <1>2, <1>3 DEF CacheInv
  <1>5. ASSUME RowsPerWorker <= CacheSize, NEW q \in Row, UnderWay(q)'
        PROVE  Recorded(q)'
    <2>1. CASE q = r
      BY <1>2, <1>3, <2>1 DEF Recorded, RequestId
    <2>2. CASE q # r
      <3>1. UnderWay(q) /\ at'[q] = at[q] /\ RequestId(q)' = RequestId(q)
        BY <1>2, <1>5, <2>2 DEF UnderWay, TypeInv, RequestId
      <3>2. PICK j \in DOMAIN cache[q[1]] : cache[q[1]][j] = <<RequestId(q), at[q]>>
        BY <1>5, <3>1 DEF SessionInv, Recorded
      <3>3. q[1] \in Workers /\ cache[q[1]][j][1][1] = round
        BY <3>2 DEF Row, RequestId
      <3>4. CASE q[1] # w
        BY <1>2, <3>1, <3>2, <3>3, <3>4 DEF Recorded
      <3>5. CASE q[1] = w
        <4>1. \E k \in DOMAIN new : new[k] = lru[j]
          BY <1>3, <1>5, <3>2, <3>3, <3>5
        <4> QED
          BY <3>1, <3>2, <3>5, <4>1 DEF Recorded
      <3> QED
        BY <3>4, <3>5
    <2> QED
      BY <2>1, <2>2
  <1>6. ASSUME RowsPerWorker <= CacheSize, user_turns[r] > 0
        PROVE  at'[r] = at[r]
    <2>1. UnderWay(r)
      BY <1>6 DEF Ask, UnderWay
    <2>2. PICK j \in DOMAIN lru : lru[j] = <<RequestId(r), at[r]>>
      BY <1>6, <2>1 DEF SessionInv, Recorded
    <2> QED
      BY <1>3, <2>2
  <1> QED
    BY <1>4, <1>5, <1>6 DEF SessionInv

LEMMA StickyInductive ==
  StickyInv /\ TypeInv' /\ [Next]_vars =>
    CacheInv' /\ (RowsPerWorker <= CacheSize => SessionInv')
  <1> SUFFICES ASSUME StickyInv, TypeInv', [Next]_vars
               PROVE  CacheInv' /\ (RowsPerWorker <= CacheSize => SessionInv')
    OBVIOUS
  <1> USE DEF StickyInv, vars, driverVars, serverVars, rowVars, limiterVars
  <1> DEFINE Quiet == UNCHANGED <<round, cache, at, pc, user_turns>>
  <1>0. ASSUME Quiet
        PROVE  CacheInv' /\ (RowsPerWorker <= CacheSize => SessionInv')
    BY <1>0 DEF CacheInv, SessionInv, UnderWay, Recorded, RequestId
  <1>1. CASE UpdateWeights
    BY <1>0, <1>1 DEF UpdateWeights
  <1>2. CASE NewBatch
    <2>1. CacheInv'
      <3> SUFFICES ASSUME NEW w \in Workers
                   PROVE  LruOK(cache[w], w, round + 1)
        BY <1>2 DEF CacheInv, NewBatch
      <3>1. LruOK(cache[w], w, round) /\ round \in Nat /\ cache[w] \in Seq(Entry)
        BY DEF CacheInv, TypeInv
      <3>2. \A i \in DOMAIN cache[w] : cache[w][i][1][1] \in Nat
        BY <3>1 DEF Entry
      <3> QED
        BY <3>1, <3>2 DEF LruOK
    <2>2. SessionInv'
      BY <1>2 DEF NewBatch, SessionInv, UnderWay, AllRows, PhaseInv, TypeInv
    <2> QED
      BY <2>1, <2>2
  <1>3. CASE AllAwake
    BY <1>0, <1>3 DEF AllAwake
  <1>4. CASE Collected
    BY <1>4 DEF Collected, CacheInv, SessionInv, UnderWay
  <1>5. CASE AllAsleep
    BY <1>0, <1>5 DEF AllAsleep
  <1>6. ASSUME NEW s \in Servers, WakeUp(s)
        PROVE  Quiet
    BY <1>6 DEF WakeUp
  <1>7. ASSUME NEW s \in Servers, Sleep(s)
        PROVE  Quiet
    BY <1>7 DEF Sleep
  <1>8. ASSUME NEW r \in Row, Ask(r)
        PROVE  CacheInv' /\ (RowsPerWorker <= CacheSize => SessionInv')
    BY <1>8, AskKeepsSessions
  <1>9. ASSUME NEW r \in Row, Answer(r)
        PROVE  CacheInv' /\ (RowsPerWorker <= CacheSize => SessionInv')
    <2>1. pc[r] = "asked" /\ UNCHANGED <<round, cache, at, user_turns>>
      BY <1>9 DEF Answer
    <2>2. pc' = [pc EXCEPT ![r] = "done"] \/ pc' = [pc EXCEPT ![r] = "calling"]
      BY <1>9 DEF Answer
    <2>3. \A q \in Row : UnderWay(q)' => UnderWay(q)
      BY <2>1, <2>2 DEF UnderWay, TypeInv
    <2> QED
      BY <2>1, <2>3 DEF CacheInv, SessionInv, Recorded, RequestId
  <1>10. ASSUME NEW r \in Row, Gathered(r)
         PROVE  CacheInv' /\ (RowsPerWorker <= CacheSize => SessionInv')
    <2>1. pc[r] = "calling" /\ UNCHANGED <<round, cache, at>>
      BY <1>10 DEF Gathered
    <2>2. \A q \in Row \ {r} : pc'[q] = pc[q] /\ user_turns'[q] = user_turns[q]
      BY <1>10 DEF Gathered, TypeInv
    <2>3. \A q \in Row : UnderWay(q)' => UnderWay(q)
      BY <2>1, <2>2 DEF UnderWay, TypeInv
    <2> QED
      BY <2>1, <2>3 DEF CacheInv, SessionInv, Recorded, RequestId
  <1>11. ASSUME NEW r \in Row, NEW i \in 1..MaxParallelCalls, Call(r, i)
         PROVE  Quiet
    BY <1>11 DEF Call, Begin, TakeThread, Execute
  <1>12. CASE Acquire
    BY <1>0, <1>12 DEF Acquire
  <1>13. CASE Release
    BY <1>0, <1>13 DEF Release
  <1>14. CASE GenerateRaises
    BY <1>14, NoServerType DEF GenerateRaises, CacheInv, SessionInv, UnderWay, AllRows
  <1>15. ASSUME NEW r \in Row, Refuse(r)
         PROVE  CacheInv' /\ (RowsPerWorker <= CacheSize => SessionInv')
    BY <1>15 DEF Refuse, CacheInv, SessionInv, UnderWay, Recorded, RequestId, TypeInv
  <1>16. CASE UNCHANGED vars
    BY <1>0, <1>16
  <1> QED
    BY <1>0, <1>1, <1>2, <1>3, <1>4, <1>5, <1>6, <1>7, <1>8, <1>9, <1>10, <1>11, <1>12, <1>13,
       <1>14, <1>15, <1>16 DEF Next, Turn

LEMMA OnlyAskAsks ==
  ASSUME TypeInv, Next, NEW r \in Row, pc[r] = "ready", pc'[r] = "asked"
  PROVE  Ask(r)
  <1> USE DEF rowVars
  <1>1. ASSUME NEW q \in Row, Turn(q)
        PROVE  Ask(r)
    <2>1. CASE Ask(q)
      BY <2>1 DEF Ask, TypeInv
    <2>2. CASE Answer(q)
      <3>1. pc' = [pc EXCEPT ![q] = "done"] \/ pc' = [pc EXCEPT ![q] = "calling"]
        BY <2>2 DEF Answer
      <3> QED
        BY <3>1 DEF TypeInv
    <2>3. CASE Gathered(q)
      <3>1. pc' = [pc EXCEPT ![q] = "done"] \/ pc' = [pc EXCEPT ![q] = "ready"]
        BY <2>3 DEF Gathered
      <3> QED
        BY <3>1 DEF TypeInv
    <2>4. CASE Refuse(q)
      BY <2>4 DEF Refuse, TypeInv
    <2> QED
      BY <1>1, <2>1, <2>2, <2>3, <2>4 DEF Turn
  <1>2. ASSUME NEW q \in Row, NEW i \in 1..MaxParallelCalls, Call(q, i)
        PROVE  FALSE
    BY <1>2 DEF Call, Begin, TakeThread, Execute
  <1>3. CASE \E s \in Servers : WakeUp(s) \/ Sleep(s)
    BY <1>3 DEF WakeUp, Sleep
  <1>4. CASE UpdateWeights \/ AllAwake \/ Collected \/ AllAsleep \/ Acquire \/ Release
    BY <1>4 DEF UpdateWeights, AllAwake, Collected, AllAsleep, Acquire, Release
  <1>5. CASE NewBatch \/ GenerateRaises
    BY <1>5 DEF NewBatch, GenerateRaises, AllRows
  <1> QED
    BY <1>1, <1>2, <1>3, <1>4, <1>5 DEF Next

\* While a batch is generated every turn of a loop is answered by the server
\* of its first turn, however many loops of its worker ask in between, as
\* long as the chunk of a worker is no larger than the cache (_choose_server).
THEOREM StaysOnServerCorrect == Spec => StaysOnServer
  <1>0. StickyInv => TypeInv
    BY DEF StickyInv
  <1> DEFINE Stays == \A r \in Row :
               RowsPerWorker <= CacheSize /\ pc[r] = "ready" /\ pc'[r] = "asked" /\ user_turns[r] > 0
                 => at'[r] = at[r]
  <1>1. Init => StickyInv
    BY InitTypes, InitSticky DEF StickyInv
  <1>2. StickyInv /\ [Next]_vars => StickyInv'
    BY TypesInductive, StickyInductive DEF StickyInv
  <1>3. StickyInv /\ TypeInv' /\ [Next]_vars => [Stays]_vars
    <2> SUFFICES ASSUME StickyInv, TypeInv', Next, NEW r \in Row, RowsPerWorker <= CacheSize,
                        pc[r] = "ready", pc'[r] = "asked", user_turns[r] > 0
                 PROVE  at'[r] = at[r]
      OBVIOUS
    <2>1. Ask(r)
      BY OnlyAskAsks DEF StickyInv
    <2> QED
      BY <2>1, AskKeepsSessions DEF StickyInv
  <1> QED
    BY <1>0, <1>1, <1>2, <1>3, PTL DEF Spec, StaysOnServer
=============================================================================
