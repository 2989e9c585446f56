------------------------- MODULE ActivationOffload -------------------------
(***************************************************************************)
(* Activation offload: AsyncDoubleBufferGroupOffloadHandler in             *)
(* utils/activation_offload.py, as enable_activation_offloading sets it    *)
(* up: one group of activations per layer, all but the last offloaded.     *)
(*                                                                         *)
(* The host only issues work; three streams of the GPU carry it out, each  *)
(* in order, unordered among each other but for wait_stream.  Memory is    *)
(* handed out when the host asks for it and may be reused as soon as the   *)
(* host has dropped it, by work issued later to the stream it belongs to.  *)
(*                                                                         *)
(* The activations of a layer are one block; what a block holds is known   *)
(* by the micro-batch and the group that were written to it.               *)
(***************************************************************************)
EXTENDS Integers, Sequences, FiniteSets

CONSTANTS
  NumLayers,    \* wrapped layers of the model
  MicroBatches  \* forward and backward passes, one after the other

\* enable_activation_offloading leaves smaller models alone.
ASSUME OffloadAssumption == NumLayers \in Nat /\ NumLayers >= 3 /\ MicroBatches \in Nat \ {0}

NumOffloadGroup == NumLayers - 1
Groups == 0..(NumLayers - 1)
Streams == {"compute", "d2h", "h2d"}

\* layer_window_map: the commit at which group i has left the GPU, with the
\* remainder of the division spread over the first groups.
LayerWindowMap ==
  LET rest == NumLayers % NumOffloadGroup IN
  [i \in 0..(NumOffloadGroup - 1) |->
     (NumLayers \div NumOffloadGroup) * (i + 1) - 1 + (IF i < rest THEN i + 1 ELSE rest)]

VARIABLES
  micro,          \* micro-batch the host is at
  pass,           \* "forward", "backward", "over", or "raised" by an assertion
  layer,          \* layer the host issues next
  at,             \* "layer" or "commit": what it issues next
  current_group, offloaded_group_count,
  state,          \* tensor_tag_to_state: group -> block, 0 for a copy on the CPU
  buf,            \* tensor_tag_to_buf: group -> block kept until it is copied
  saved,          \* groups in group_offload_mapping
  stream,         \* per stream: the work issued to it
  done,           \* per stream: how much of it the GPU has carried out
  block,          \* GPU memory: owner stream and content of each block
  free,           \* blocks nothing refers to
  cpu             \* content of the copies on the CPU

hostVars == <<micro, pass, layer, at, current_group, offloaded_group_count>>
handlerVars == <<state, buf, saved>>
vars == <<hostVars, handlerVars, stream, done, block, free, cpu>>

Empty == <<0, 0>>   \* content nobody computed
Copied == 0         \* a group of which only the CPU copy is left

Init ==
  /\ micro = 1 /\ pass = "forward" /\ layer = 0 /\ at = "layer"
  /\ current_group = 0 /\ offloaded_group_count = 0
  /\ state = <<>> /\ buf = <<>> /\ saved = {}
  /\ stream = [s \in Streams |-> <<>>] /\ done = [s \in Streams |-> 0]
  /\ block = <<>> /\ free = {}
  /\ cpu = [c \in (1..MicroBatches) \X Groups |-> Empty]
-----------------------------------------------------------------------------
(* Memory and streams *)

\* The blocks an allocation on stream s may return: the caching allocator
\* reuses what the stream has dropped and takes fresh memory otherwise.
Allocatable(s) ==
  LET reusable == {b \in free : block[b].owner = s}
  IN  IF reusable # {} THEN reusable ELSE {Len(block) + 1}

Allocated(b, s) ==
  IF b <= Len(block) THEN block ELSE Append(block, [owner |-> s, content |-> Empty])

Without(f, g) == [h \in DOMAIN f \ {g} |-> f[h]]
With(f, g, b) == [h \in DOMAIN f \cup {g} |-> IF h = g THEN b ELSE f[h]]

Work(kind, group, b) == [kind |-> kind, what |-> <<micro, group>>, block |-> b]
Wait(s, upto) == [kind |-> "wait", on |-> s, upto |-> upto]

Issue(streams, s, op) == [streams EXCEPT ![s] = Append(@, op)]

\* s.wait_stream(t): later work of s starts after all work issued to t so far.
WaitStream(streams, s, t) == Issue(streams, s, Wait(t, Len(streams[t])))

\* Mutant: computation goes on while the copies run.
OnlySideWaits(streams, side) == WaitStream(streams, side, "compute")

\* "Stream synchronization both ways"
SyncBothWays(streams, side) == WaitStream(WaitStream(streams, side, "compute"), "compute", side)

\* The GPU carries out the next work of a stream.
Ready(s) ==
  /\ done[s] < Len(stream[s])
  /\ LET op == stream[s][done[s] + 1]
     IN  op.kind = "wait" => done[op.on] >= op.upto

Execute(s) ==
  LET op == stream[s][done[s] + 1] IN
  /\ Ready(s)
  /\ done' = [done EXCEPT ![s] = @ + 1]
  /\ block' = IF op.kind = "forward" THEN [block EXCEPT ![op.block].content = op.what]
              ELSE IF op.kind = "reload" THEN [block EXCEPT ![op.block].content = cpu[op.what]]
              ELSE block
  /\ cpu' = IF op.kind = "offload" THEN [cpu EXCEPT ![op.what] = block[op.block].content] ELSE cpu
  /\ UNCHANGED <<hostVars, handlerVars, stream, free>>
-----------------------------------------------------------------------------
(* The forward pass *)

\* A layer runs and tensor_push keeps its activations.
ForwardLayer ==
  /\ pass = "forward" /\ at = "layer"
  /\ \E b \in Allocatable("compute") :
       /\ block' = Allocated(b, "compute")
       /\ free' = free \ {b}
       /\ stream' = Issue(stream, "compute", Work("forward", current_group, b))
       /\ state' = With(state, current_group, b)
       /\ buf' = IF current_group < NumOffloadGroup THEN With(buf, current_group, b) ELSE buf
  /\ at' = "commit"
  /\ UNCHANGED <<micro, pass, layer, current_group, offloaded_group_count, saved, done, cpu>>

\* After the last layer of the forward pass the backward pass begins with it.
NextForward ==
  /\ current_group' = current_group + 1
  /\ IF layer < NumLayers - 1
     THEN layer' = layer + 1 /\ at' = "layer" /\ UNCHANGED pass
     ELSE pass' = "backward" /\ UNCHANGED <<layer, at>>
  /\ UNCHANGED <<micro, done, block, cpu>>

\* bulk_offload_group
Offload(streams, g) ==
  /\ stream' = Issue(streams, "d2h", Work("offload", g, state[g]))
  /\ state' = [state EXCEPT ![g] = Copied]
  /\ saved' = saved \cup {g}

\* The first group is sent off as soon as it is computed.
CommitFirst ==
  /\ pass = "forward" /\ at = "commit" /\ current_group = 0
  /\ Offload(WaitStream(stream, "d2h", "compute"), 0)
  /\ NextForward
  /\ UNCHANGED <<offloaded_group_count, buf, free>>

\* Mutant: the activations stay referenced after the copy.
KeptAfterCopy(g) == {}

\* Of the groups in the buffer, the one whose copy is complete.
DroppedAfterCopy(g) == {g} \cap DOMAIN buf

\* The group before has been copied: its activations are dropped and the
\* present group is sent off, unless it is the last.
CommitForward ==
  LET count == offloaded_group_count
      synced == SyncBothWays(stream, "d2h") IN
  /\ pass = "forward" /\ at = "commit" /\ current_group > 0
  /\ LayerWindowMap[count] = current_group
  /\ buf' = [g \in DOMAIN buf \ DroppedAfterCopy(count) |-> buf[g]]
  /\ free' = free \cup {buf[g] : g \in DroppedAfterCopy(count)}
  /\ IF count < NumOffloadGroup - 1 THEN Offload(synced, count + 1)
     ELSE stream' = synced /\ UNCHANGED <<state, saved>>
  /\ offloaded_group_count' = count + 1
  /\ NextForward
-----------------------------------------------------------------------------
(* The backward pass *)

\* bulk_reload_group into memory of the copying stream.
Reload(streams, g, b) ==
  /\ block' = Allocated(b, "h2d")
  /\ free' = free \ {b}
  /\ stream' = Issue(streams, "h2d", Work("reload", g, b))
  /\ state' = [state EXCEPT ![g] = b]
  /\ saved' = saved \ {g}

\* on_group_commit_backward of a layer at whose commit a group is due: the
\* group before the layer is fetched while the layer runs.
CommitBackward ==
  LET group == offloaded_group_count - 1 IN
  /\ pass = "backward" /\ at = "commit" /\ current_group > 1
  /\ LayerWindowMap[group] = current_group - 1
  /\ group \in saved
  /\ \E b \in Allocatable("h2d") : Reload(SyncBothWays(stream, "h2d"), group, b)
  /\ current_group' = current_group - 1
  /\ offloaded_group_count' = IF offloaded_group_count > 1 THEN offloaded_group_count - 1
                              ELSE offloaded_group_count
  /\ at' = "layer"
  /\ UNCHANGED <<micro, pass, layer, buf, done, cpu>>

\* on_group_commit_backward of the first layer waits for all reloads.
CommitLast ==
  /\ pass = "backward" /\ at = "commit" /\ current_group = 1
  /\ stream' = WaitStream(stream, "compute", "h2d")
  /\ current_group' = 0
  /\ offloaded_group_count' = 0
  /\ at' = "layer"
  /\ UNCHANGED <<micro, pass, layer, handlerVars, done, block, free, cpu>>

\* The backward pass of a layer takes its activations with tensor_pop; then
\* the layer before, the next micro-batch or the end.
BackwardLayer ==
  /\ pass = "backward" /\ at = "layer"
  /\ IF state[layer] = Copied
     THEN pass' = "raised" /\ UNCHANGED <<micro, layer, at, stream, state, buf, free>>
     ELSE /\ stream' = Issue(stream, "compute", Work("backward", layer, state[layer]))
          /\ state' = Without(state, layer)
          /\ buf' = Without(buf, layer)
          /\ free' = free \cup {state[layer]}
          /\ IF layer > 0 THEN layer' = layer - 1 /\ at' = "commit" /\ UNCHANGED <<micro, pass>>
             ELSE IF micro < MicroBatches
             THEN micro' = micro + 1 /\ pass' = "forward" /\ UNCHANGED <<layer, at>>
             ELSE pass' = "over" /\ UNCHANGED <<micro, layer, at>>
  /\ UNCHANGED <<current_group, offloaded_group_count, saved, done, block, cpu>>
-----------------------------------------------------------------------------
Finished ==
  /\ pass = "over" /\ \A s \in Streams : done[s] = Len(stream[s])
  /\ UNCHANGED vars

Next ==
  \/ ForwardLayer \/ CommitFirst \/ CommitForward
  \/ CommitBackward \/ CommitLast \/ BackwardLayer \/ Finished
  \/ \E s \in Streams : Execute(s)

Spec == Init /\ [][Next]_vars
-----------------------------------------------------------------------------
(* Properties *)

\* The backward pass of a layer reads what the forward pass of this layer in
\* this micro-batch wrote: no copy is overtaken by the computation that
\* reuses its memory, no reload comes late, and the handler never hands out a
\* copy or a group of another micro-batch.
BackwardReadsOwn ==
  /\ pass # "raised"
  /\ Ready("compute") =>
       LET op == stream["compute"][done["compute"] + 1]
       IN  op.kind = "backward" => block[op.block].content = op.what

\* enable_activation_offloading: "there are at most two activation groups in
\* GPU memory".
AtMostTwoGroups == Cardinality((1..Len(block)) \ free) <= 2

=============================================================================
