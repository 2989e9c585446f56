----------------------------- MODULE AgentLoop -----------------------------
(***************************************************************************)
(* Generation by agent loops: AgentLoopManager, its AgentLoopWorkers, the  *)
(* LLM servers they ask and the tools they call.                           *)
(*                                                                         *)
(* A worker runs one loop per row of its chunk: ask a server, append the   *)
(* answer, call the tools the answer names, append what they say, ask      *)
(* again.  The tools of a worker share a pool of threads, and the tools of *)
(* all workers one rate limiter.  Between two batches the weights of the   *)
(* actor change, which the servers only learn when they wake up.           *)
(***************************************************************************)
EXTENDS Integers, Sequences, FiniteSets, SequencesExt

CONSTANTS
  Workers, Servers,     \* agent.num_workers, the LLM servers
  RowsPerWorker,        \* rows of the chunk of a worker
  Batches, MaxUpdates,  \* bounds: batches generated, changes of the weights
  PromptLength, ResponseLength,
  ConfigMaxModelLen,    \* rollout.max_model_len, 0 for null
  Prompts,              \* lengths the prompts of a batch may have, by row
  MaxAssistantTurns, MaxUserTurns,  \* 0 for no limit
  MaxParallelCalls,
  MaxCalls, MaxToolTokens,  \* bounds: calls in an answer, tokens of a tool turn
  CacheSize,            \* max_cache_size of the request cache
  NumThreads,           \* num_workers of the execution pool of a tool
  RateLimit,            \* rate_limit of the rate limiter
  FreeCacheEngine       \* rollout.free_cache_engine

Row == Workers \X (1..RowsPerWorker)

\* self.max_model_len of a server.
MaxModelLen == IF ConfigMaxModelLen # 0 THEN ConfigMaxModelLen ELSE PromptLength + ResponseLength

\* Prompts may be longer than PromptLength: the dataset filters them by their
\* length without the tool schemas that the loop puts into the template.
ASSUME AgentLoopAssumption ==
  /\ Servers # {}
  /\ RowsPerWorker \in Nat \ {0} /\ CacheSize \in Nat \ {0}
  /\ PromptLength \in Nat \ {0} /\ ResponseLength \in Nat \ {0}
  /\ NumThreads \in Nat \ {0} /\ RateLimit \in Nat \ {0} /\ MaxParallelCalls \in Nat \ {0}
  /\ ConfigMaxModelLen \in Nat
  /\ Prompts \subseteq [Row -> Nat \ {0}]
  /\ FreeCacheEngine \in BOOLEAN

VARIABLES
  driver,      \* "sleeping", "training", "waking", "generating" or "raised"
  round,       \* batches begun
  weights,     \* version of the weights of the actor
  awake, served, prefix,  \* per server: engine up, its weights, versions in its prefix cache
  load, cache, \* per worker: weighted_serveres, request_id_to_server in LRU order
  at,          \* per row: the server asked last
  pc,          \* per row: "ready", "asked", "refused", "calling", "done"
  prompt,      \* per row: tokens of the prompt
  mask,        \* per row: response_mask, 1 for a token of the model, 0 for one of a tool
  user_turns,
  calls,       \* per row: the tool calls being made
  acquiring, permits, releasing  \* rate limiter: calls of acquire, permits, calls of release

serverVars == <<awake, served, prefix>>
rowVars == <<at, pc, prompt, mask, user_turns, calls>>
limiterVars == <<acquiring, permits, releasing>>
driverVars == <<driver, round, weights>>
vars == <<driverVars, serverVars, load, cache, rowVars, limiterVars>>

AllRows(value) == [r \in Row |-> value]
NoServer == CHOOSE s \in Servers : TRUE   \* where a loop that has not asked is taken to be

\* The manager starts the servers on the weights of the model path and
\* begins by sending them to sleep.
Init ==
  /\ driver = "sleeping" /\ round = 0 /\ weights = 0
  /\ awake = [s \in Servers |-> TRUE] /\ served = [s \in Servers |-> 0]
  /\ prefix = [s \in Servers |-> {}]
  /\ load = [w \in Workers |-> [s \in Servers |-> 0]]
  /\ cache = [w \in Workers |-> <<>>]
  /\ at = AllRows(NoServer) /\ pc = AllRows("done") /\ prompt = AllRows(0)
  /\ mask = AllRows(<<>>) /\ user_turns = AllRows(0) /\ calls = AllRows(<<>>)
  /\ acquiring = <<>> /\ permits = RateLimit /\ releasing = 0
-----------------------------------------------------------------------------
(* The driver and the servers *)

\* Between two batches an update, or before the first a checkpoint, changes
\* the weights of the actor.
UpdateWeights ==
  /\ driver = "training" /\ weights < MaxUpdates
  /\ weights' = weights + 1
  /\ UNCHANGED <<driver, round, serverVars, load, cache, rowVars, limiterVars>>

\* AgentLoopManager.generate_sequences: the servers are woken first, if they
\* were sent to sleep at all.
NewBatch ==
  /\ driver = "training" /\ round < Batches
  /\ round' = round + 1
  /\ driver' = IF FreeCacheEngine THEN "waking" ELSE "generating"
  /\ prompt' \in Prompts
  /\ pc' = AllRows("ready")
  /\ UNCHANGED <<weights, serverVars, load, cache, at, mask, user_turns, calls, limiterVars>>

\* The sharding manager of every rank of the server gives the engine the
\* weights of the actor.
WakeUp(s) ==
  /\ driver = "waking" /\ ~awake[s]
  /\ awake' = [awake EXCEPT ![s] = TRUE]
  /\ served' = [served EXCEPT ![s] = weights]
  /\ UNCHANGED <<driverVars, prefix, load, cache, rowVars, limiterVars>>

AllAwake ==
  /\ driver = "waking" /\ \A s \in Servers : awake[s]
  /\ driver' = "generating"
  /\ UNCHANGED <<round, weights, serverVars, load, cache, rowVars, limiterVars>>

\* The prompt of a row is padded to PromptLength and never cut, and the tensors
\* of several rows are joined only when they are equally wide.
Width(r) == IF prompt[r] > PromptLength THEN prompt[r] ELSE PromptLength
Join(rows) == \A r, q \in rows : Width(r) = Width(q)

\* ray.get on all workers, each of which gathers all its rows; the loops end.
Collected ==
  /\ driver = "generating" /\ \A r \in Row : pc[r] = "done"
  /\ Join(Row)
  /\ driver' = IF FreeCacheEngine THEN "sleeping" ELSE "training"
  /\ at' = AllRows(NoServer) /\ prompt' = AllRows(0)
  /\ mask' = AllRows(<<>>) /\ user_turns' = AllRows(0)
  /\ UNCHANGED <<round, weights, serverVars, load, cache, pc, calls, limiterVars>>

\* What one loop raises, or torch.cat in a worker or over all of them, reaches
\* the trainer through ray.get: the job ends, and with it loops and tools.
GenerateRaises ==
  /\ driver = "generating"
  /\ \/ \E r \in Row : pc[r] = "refused"
     \/ \E rows \in {{w} \X (1..RowsPerWorker) : w \in Workers} \cup {Row} :
          (\A r \in rows : pc[r] = "done") /\ ~Join(rows)
  /\ driver' = "raised"
  /\ at' = AllRows(NoServer) /\ pc' = AllRows("done")
  /\ mask' = AllRows(<<>>) /\ user_turns' = AllRows(0) /\ calls' = AllRows(<<>>)
  /\ acquiring' = <<>> /\ permits' = RateLimit /\ releasing' = 0
  /\ UNCHANGED <<round, weights, serverVars, load, cache, prompt>>

PrefixKeptAsleep(s) == prefix[s]   \* mutant
PrefixAfterSleep(s) == {}

Sleep(s) ==
  /\ driver = "sleeping" /\ awake[s]
  /\ prefix' = [prefix EXCEPT ![s] = PrefixAfterSleep(s)]
  /\ awake' = [awake EXCEPT ![s] = ~FreeCacheEngine]
  /\ UNCHANGED <<driverVars, served, load, cache, rowVars, limiterVars>>

AllAsleep ==
  /\ driver = "sleeping" /\ \A s \in Servers : awake[s] = ~FreeCacheEngine
  /\ driver' = "training"
  /\ UNCHANGED <<round, weights, serverVars, load, cache, rowVars, limiterVars>>
-----------------------------------------------------------------------------
(* AsyncLLMServerManager *)

RequestId(r) == <<round, r>>

KnownForOneTurn(w, request) == {}   \* mutant: an id of its own for every turn

\* Where in the cache the server of a request is.
Known(w, request) == {i \in DOMAIN cache[w] : cache[w][i][1] = request}

LeastLoaded(w) == {s \in Servers : \A t \in Servers : load[w][s] <= load[w][t]}

\* LRUCache: what was used last comes last; a new entry of a full cache takes
\* the room of the one used longest ago.
Touched(lru, i) == Append(RemoveAt(lru, i), lru[i])
Entered(lru, entry) == Append(IF Len(lru) = CacheSize THEN Tail(lru) ELSE lru, entry)

\* _choose_server, and the call of generate on its server.  Among equally
\* loaded servers the hash of the handle decides.
Ask(r) ==
  LET w == r[1]
      known == Known(w, RequestId(r))
  IN  /\ driver = "generating" /\ pc[r] = "ready"
      /\ \/ \E i \in known :
              /\ cache' = [cache EXCEPT ![w] = Touched(@, i)]
              /\ at' = [at EXCEPT ![r] = cache[w][i][2]]
              /\ UNCHANGED load
         \/ /\ known = {}
            /\ \E s \in LeastLoaded(w) :
                 /\ cache' = [cache EXCEPT ![w] = Entered(@, <<RequestId(r), s>>)]
                 /\ at' = [at EXCEPT ![r] = s]
                 /\ load' = [load EXCEPT ![w][s] = @ + 1]
      /\ pc' = [pc EXCEPT ![r] = "asked"]
      /\ UNCHANGED <<driverVars, serverVars, prompt, mask, user_turns, calls, limiterVars>>
-----------------------------------------------------------------------------
(* ToolAgentLoop.run *)

Tokens(n, who) == [i \in 1..n |-> who]

\* What the engine may still write: max_tokens of AsyncvLLMServer.generate.
Room(r) == MaxModelLen - prompt[r] - Len(mask[r])

NoFurtherTurn(r, length) ==
  \/ length >= ResponseLength
  \/ MaxAssistantTurns # 0 /\ user_turns[r] + 1 >= MaxAssistantTurns
  \/ MaxUserTurns # 0 /\ user_turns[r] >= MaxUserTurns

\* The server answers with n tokens that hold k tool calls.  The engine
\* writes a token at least and leaves the blocks of the row in its cache.
Answer(r) ==
  /\ pc[r] = "asked"
  /\ \E n \in 1..Room(r), k \in 0..MaxCalls :
       /\ mask' = [mask EXCEPT ![r] = @ \o Tokens(n, 1)]
       /\ IF NoFurtherTurn(r, Len(mask[r]) + n) \/ k = 0
          THEN /\ pc' = [pc EXCEPT ![r] = "done"]
               /\ UNCHANGED calls
          ELSE /\ pc' = [pc EXCEPT ![r] = "calling"]
               /\ calls' = [calls EXCEPT ![r] =
                    Tokens(IF k <= MaxParallelCalls THEN k ELSE MaxParallelCalls, "made")]
  /\ prefix' = [prefix EXCEPT ![at[r]] = @ \cup {served[at[r]]}]
  /\ UNCHANGED <<driverVars, awake, served, load, cache, at, prompt, user_turns, limiterVars>>

\* SamplingParams refuses a max_tokens below 1.
Refuse(r) ==
  /\ pc[r] = "asked" /\ Room(r) < 1
  /\ pc' = [pc EXCEPT ![r] = "refused"]
  /\ UNCHANGED <<driverVars, serverVars, load, cache, at, prompt, mask, user_turns, calls, limiterVars>>

ToolTurnFillsUp(r, n) == Len(mask[r]) + n <= ResponseLength   \* mutant
ToolTurnFits(r, n) == Len(mask[r]) + n < ResponseLength

\* All calls have come back: one that raised ends the loop, and so does a
\* tool turn that would leave no room for an answer.
Gathered(r) ==
  /\ pc[r] = "calling" /\ \A i \in DOMAIN calls[r] : calls[r][i] \in {"answered", "raised"}
  /\ calls' = [calls EXCEPT ![r] = <<>>]
  /\ \E n \in 1..MaxToolTokens :
       IF ToolTurnFits(r, n) /\ \A i \in DOMAIN calls[r] : calls[r][i] = "answered"
       THEN /\ mask' = [mask EXCEPT ![r] = @ \o Tokens(n, 0)]
            /\ user_turns' = [user_turns EXCEPT ![r] = @ + 1]
            /\ pc' = [pc EXCEPT ![r] = "ready"]
       ELSE /\ pc' = [pc EXCEPT ![r] = "done"]
            /\ UNCHANGED <<mask, user_turns>>
  /\ UNCHANGED <<driverVars, serverVars, load, cache, at, prompt, limiterVars>>

\* The response that is kept.
Kept(r) == SubSeq(mask[r], 1, IF Len(mask[r]) <= ResponseLength THEN Len(mask[r]) ELSE ResponseLength)
-----------------------------------------------------------------------------
(* _call_tool, the execution pool of a tool and the rate limiter *)

Becomes(r, i, status) == calls' = [calls EXCEPT ![r][i] = status]

\* A call that cannot be read raises; another gets an instance of the tool
\* and is handed to the pool.
Begin(r, i) ==
  /\ pc[r] = "calling" /\ calls[r][i] = "made"
  /\ \E status \in {"raised", "submitted"} : Becomes(r, i, status)
  /\ UNCHANGED <<driverVars, serverVars, load, cache, at, pc, prompt, mask, user_turns, limiterVars>>

\* Threads of the pool of worker w that wait for a permit or run a tool.
Busy(w) == {c \in ({w} \X (1..RowsPerWorker)) \X (1..MaxParallelCalls) :
              c[2] \in DOMAIN calls[c[1]] /\ calls[c[1]][c[2]] \in {"acquiring", "running"}}

\* ExecutionWorker.execute asks the limiter for a permit.
TakeThread(r, i) ==
  /\ pc[r] = "calling" /\ calls[r][i] = "submitted"
  /\ Cardinality(Busy(r[1])) < NumThreads
  /\ Becomes(r, i, "acquiring")
  /\ acquiring' = Append(acquiring, <<r, i>>)
  /\ UNCHANGED <<driverVars, serverVars, load, cache, at, pc, prompt, mask, user_turns, permits, releasing>>

\* TokenBucketWorker.acquire: the one thread of its concurrency group blocks
\* on the semaphore, the calls behind it wait in order.
Acquire ==
  /\ acquiring # <<>> /\ permits > 0
  /\ Becomes(Head(acquiring)[1], Head(acquiring)[2], "running")
  /\ acquiring' = Tail(acquiring) /\ permits' = permits - 1
  /\ UNCHANGED <<driverVars, serverVars, load, cache, at, pc, prompt, mask, user_turns, releasing>>

\* The tool returns or raises.  The thread sends its release as it leaves and
\* waits for nothing, and the loop drops the instance.
Execute(r, i) ==
  /\ pc[r] = "calling" /\ calls[r][i] = "running"
  /\ \E status \in {"answered", "raised"} : Becomes(r, i, status)
  /\ releasing' = releasing + 1
  /\ UNCHANGED <<driverVars, serverVars, load, cache, at, pc, prompt, mask, user_turns, acquiring, permits>>

ReleaseInTurn == acquiring = <<>>   \* mutant: one group for both methods

\* TokenBucketWorker.release runs in a concurrency group of its own.
ReleaseRuns == TRUE

Release ==
  /\ releasing > 0 /\ ReleaseRuns
  /\ releasing' = releasing - 1 /\ permits' = permits + 1
  /\ UNCHANGED <<driverVars, serverVars, load, cache, rowVars, acquiring>>
-----------------------------------------------------------------------------
Call(r, i) == i \in DOMAIN calls[r] /\ (Begin(r, i) \/ TakeThread(r, i) \/ Execute(r, i))
Turn(r) == Ask(r) \/ Answer(r) \/ Refuse(r) \/ Gathered(r)

Next ==
  \/ UpdateWeights \/ NewBatch \/ AllAwake \/ Collected \/ GenerateRaises \/ AllAsleep
  \/ \E s \in Servers : WakeUp(s) \/ Sleep(s)
  \/ \E r \in Row : Turn(r) \/ \E i \in 1..MaxParallelCalls : Call(r, i)
  \/ Acquire \/ Release

Spec == Init /\ [][Next]_vars

\* Driver, servers, loops, threads and limiter go on while they have work.
\* The engine stops at max_tokens at the latest, a tool at its timeout.
FairSpec ==
  /\ Spec
  /\ WF_vars(AllAwake) /\ WF_vars(Collected \/ GenerateRaises) /\ WF_vars(AllAsleep)
  /\ \A s \in Servers : WF_vars(WakeUp(s)) /\ WF_vars(Sleep(s))
  /\ \A r \in Row : WF_vars(Turn(r)) /\ \A i \in 1..MaxParallelCalls : WF_vars(Call(r, i))
  /\ WF_vars(Acquire) /\ WF_vars(Release)
-----------------------------------------------------------------------------
\* What a server answers comes from the weights the actor has now, the
\* prefixes it takes from its cache included: across updates, validations in
\* between and a checkpoint loaded after the servers came up (generate_sequences,
\* wake_up and sleep of manager and server).
AnswersFromLatestWeights ==
  \A r \in Row : pc[r] = "asked" =>
    awake[at[r]] /\ served[at[r]] = weights /\ prefix[at[r]] \subseteq {weights}

\* A response that is kept ends with a token of the model, whatever is cut off:
\* "last turn should not be user turn" (ToolAgentLoop.run).  However many turns
\* there were, a request is refused for want of room, and the job ends, only if
\* the prompt itself was too long: for a whole response beside it, or to be
\* joined with the other prompts (AsyncvLLMServer.generate, _postprocess).
EndsWithAnswer ==
  /\ \A r \in Row :
       /\ pc[r] = "done" /\ driver = "generating" => Kept(r) # <<>> /\ Kept(r)[Len(Kept(r))] = 1
       /\ pc[r] = "refused" => prompt[r] + ResponseLength > MaxModelLen
  /\ driver = "raised" =>
       \E r \in Row : prompt[r] > PromptLength \/ prompt[r] + ResponseLength > MaxModelLen

\* All turns of a loop are answered by the same server, whose prefix cache
\* knows the turns before, as long as a chunk is no larger than the cache: the
\* requests of earlier batches make room first (_choose_server).
StaysOnServer ==
  [][\A r \in Row :
       RowsPerWorker <= CacheSize /\ pc[r] = "ready" /\ pc'[r] = "asked" /\ user_turns[r] > 0
         => at'[r] = at[r]]_vars

\* Every batch comes back or raises, though the threads that hold permits and
\* those that wait for one share a pool and a limiter (execute, acquire, release).
BatchReturns == (driver \in {"waking", "generating"}) ~> (driver \in {"training", "raised"})
=============================================================================
