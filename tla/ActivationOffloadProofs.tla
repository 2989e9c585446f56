----------------------- MODULE ActivationOffloadProofs -----------------------
(***************************************************************************)
(* For any number of layers and micro-batches: a backward pass reads what  *)
(* its forward pass wrote, and two groups at most are on the GPU.          *)
(*                                                                         *)
(* The invariant has four parts.  HostInv and HeldInv say where the host   *)
(* is and which group keeps which block.  StreamInv is about the order of  *)
(* the work issued, whatever the GPU has done of it: each copy to the CPU  *)
(* waits for the computation it copies and is waited for before its block  *)
(* is written again, each copy back waits, by way of the computation, for  *)
(* the copy it reads.  DoneInv is about the GPU: by that order, what it    *)
(* has carried out left the right contents behind.                         *)
(***************************************************************************)
EXTENDS ActivationOffload, FiniteSetTheorems, TLAPS

-----------------------------------------------------------------------------
(* Types *)

Whats == (1..MicroBatches) \X Groups
Contents == Nat \X Nat
Blocks == [owner : Streams, content : Contents]
Works == [kind : {"forward", "backward", "offload", "reload"}, what : Whats, block : Nat]
Waitings == [kind : {"wait"}, on : Streams, upto : Nat]
Ops == Works \cup Waitings
Streamed == [Streams -> Seq(Ops)]

GpuOK ==
  /\ stream \in Streamed /\ done \in [Streams -> Nat]
  /\ \A s \in Streams : done[s] <= Len(stream[s])
  /\ block \in Seq(Blocks) /\ free \subseteq 1..Len(block)
  /\ cpu \in [Whats -> Contents]
  /\ \A s \in Streams : \A p \in 1..Len(stream[s]) :
       stream[s][p].kind # "wait" => stream[s][p].block \in 1..Len(block)

LEMMA OffloadConfig ==
  /\ NumLayers \in Nat /\ NumLayers >= 3 /\ MicroBatches \in Nat \ {0}
  /\ Groups = 0..(NumLayers - 1) /\ Groups \subseteq Nat /\ 0 \in Groups
  /\ NumOffloadGroup = NumLayers - 1
BY OffloadAssumption DEF OffloadAssumption, Groups, NumOffloadGroup

LEMMA WhatsTyped ==
  /\ Whats \subseteq Contents /\ Empty \in Contents
  /\ \A m \in 1..MicroBatches, g \in Groups : <<m, g>> \in Whats
BY OffloadConfig DEF Whats, Contents, Empty

-----------------------------------------------------------------------------
(* The handler and its blocks *)

LastGroup == NumLayers - 1

CopiedUpTo(n) == \A g \in 0..(n - 1) : state[g] = Copied

ForwardCount == IF layer = 0 THEN 0 ELSE layer - 1

\* What the handler knows between its calls, in the forward and in the backward pass.
HostInv ==
  /\ micro \in 1..MicroBatches /\ layer \in Groups
  /\ at \in {"layer", "commit"} /\ pass \in {"forward", "backward", "over"}
  /\ pass = "forward" =>
       /\ current_group = layer /\ offloaded_group_count = ForwardCount
       /\ saved = 0..(layer - 1) /\ CopiedUpTo(layer)
  /\ pass = "forward" /\ at = "layer" =>
       /\ DOMAIN state = 0..(layer - 1)
       /\ DOMAIN buf = {layer - 1} \cap Groups
  /\ pass = "forward" /\ at = "commit" =>
       /\ DOMAIN state = 0..layer /\ state[layer] # Copied
       /\ DOMAIN buf = {layer - 1, layer} \cap (0..(LastGroup - 1))
       /\ layer < LastGroup => buf[layer] = state[layer]
  /\ pass = "backward" => DOMAIN state = 0..layer /\ state[layer] # Copied
  /\ pass # "forward" => DOMAIN buf = {}
  /\ pass = "backward" /\ at = "commit" =>
       /\ current_group = layer + 1 /\ (layer > 0 => offloaded_group_count = layer)
       /\ saved = 0..(layer - 1) /\ CopiedUpTo(layer)
  /\ pass = "backward" /\ at = "layer" =>
       /\ current_group = layer /\ (layer > 1 => offloaded_group_count = layer - 1)
       /\ layer = 1 => offloaded_group_count = 1
       /\ layer = 0 => offloaded_group_count = 0
       /\ saved = 0..(layer - 2) /\ CopiedUpTo(layer - 1)
       /\ layer > 0 => state[layer - 1] # Copied
  /\ pass = "over" => DOMAIN state = {}

\* A block that is not free belongs to exactly one group, which keeps it in the
\* state, in the buffer or in both.
HeldInv ==
  /\ \A b \in (1..Len(block)) \ free :
       \/ \E g \in DOMAIN buf : buf[g] = b
       \/ \E g \in DOMAIN state : state[g] = b
  /\ \A g \in DOMAIN buf : buf[g] \in (1..Len(block)) \ free
  /\ \A g \in DOMAIN state : state[g] = Copied \/ state[g] \in (1..Len(block)) \ free
  /\ \A g \in DOMAIN buf, h \in DOMAIN buf : buf[g] = buf[h] => g = h
  /\ \A g \in DOMAIN state, h \in DOMAIN state : state[g] # Copied /\ state[g] = state[h] => g = h
  /\ \A g \in DOMAIN buf, h \in DOMAIN state : buf[g] = state[h] => g = h

LEMMA AllocatedFacts ==
  ASSUME block \in Seq(Blocks), free \subseteq 1..Len(block), NEW s \in Streams, NEW b \in Allocatable(s)
  PROVE  /\ Allocated(b, s) \in Seq(Blocks) /\ b \in Nat /\ b # Copied
         /\ 1..Len(Allocated(b, s)) = (1..Len(block)) \cup {b}
         /\ b \in free \/ b \notin 1..Len(block)
         /\ \A x \in 1..Len(block) : Allocated(b, s)[x] = block[x]
         /\ Allocated(b, s)[b].owner = s
<1> DEFINE new == [owner |-> s, content |-> Empty]
<1>1. new \in Blocks /\ new.owner = s
  BY WhatsTyped DEF Blocks
<1>2. Len(block) \in Nat
  OBVIOUS
<1>3. CASE b \in free /\ block[b].owner = s
  <2>1. b <= Len(block) /\ Allocated(b, s) = block
    BY <1>2, <1>3 DEF Allocated
  <2> QED BY <1>2, <1>3, <2>1 DEF Copied
<1>4. CASE b = Len(block) + 1
  <2>1. Allocated(b, s) = Append(block, new)
    BY <1>2, <1>4 DEF Allocated
  <2> HIDE DEF new
  <2>2. /\ Append(block, new) \in Seq(Blocks) /\ Len(Append(block, new)) = Len(block) + 1
        /\ \A x \in 1..Len(block) : Append(block, new)[x] = block[x]
        /\ Append(block, new)[Len(block) + 1] = new
    BY <1>1
  <2> QED BY <1>1, <1>2, <1>4, <2>1, <2>2 DEF Copied
<1> QED BY <1>3, <1>4 DEF Allocatable

LEMMA HostForwardLayer ==
  ASSUME GpuOK, HostInv, HeldInv, ForwardLayer
  PROVE  HostInv' /\ HeldInv'
<1>1. PICK b \in Allocatable("compute") :
        /\ block' = Allocated(b, "compute") /\ free' = free \ {b}
        /\ state' = With(state, current_group, b)
        /\ buf' = IF current_group < NumOffloadGroup THEN With(buf, current_group, b) ELSE buf
  BY DEF ForwardLayer
<1>2. /\ pass = "forward" /\ at = "layer" /\ at' = "commit"
      /\ UNCHANGED <<micro, pass, layer, current_group, offloaded_group_count, saved>>
  BY DEF ForwardLayer
<1>3. /\ b \in Nat /\ b # Copied /\ 1..Len(block') = (1..Len(block)) \cup {b}
      /\ b \in free \/ b \notin 1..Len(block)
  BY <1>1, AllocatedFacts DEF GpuOK, Streams
<1>4. /\ current_group = layer /\ layer \in 0..LastGroup /\ LastGroup \in Nat
      /\ DOMAIN state = 0..(layer - 1) /\ DOMAIN buf = {layer - 1} \cap Groups
  BY <1>2, OffloadConfig DEF HostInv, LastGroup
<1>5. /\ DOMAIN state' = 0..layer /\ state'[layer] = b
      /\ \A g \in DOMAIN state : g # layer /\ state'[g] = state[g]
  <2>1. (0..(layer - 1)) \cup {layer} = 0..layer /\ \A g \in 0..(layer - 1) : g # layer
    BY <1>4
  <2>2. state' = With(state, layer, b)
    BY <1>1, <1>4
  <2>3. /\ DOMAIN With(state, layer, b) = DOMAIN state \cup {layer}
        /\ With(state, layer, b)[layer] = b
        /\ \A h \in DOMAIN state : h # layer => With(state, layer, b)[h] = state[h]
    BY DEF With
  <2>4. DOMAIN state' = 0..layer /\ state'[layer] = b
    BY <1>4, <2>1, <2>2, <2>3
  <2>5. \A g \in DOMAIN state : g # layer
    BY <1>4, <2>1
  <2> QED BY <2>2, <2>3, <2>4, <2>5
<1>6. /\ layer < LastGroup => DOMAIN buf' = DOMAIN buf \cup {layer} /\ buf'[layer] = b
      /\ layer = LastGroup => buf' = buf
      /\ \A g \in DOMAIN buf : g # layer /\ buf'[g] = buf[g]
  <2>1. \A g \in DOMAIN buf : g # layer
    BY <1>4
  <2>2. NumOffloadGroup = LastGroup
    BY OffloadConfig DEF LastGroup
  <2>3. buf' = IF layer < LastGroup THEN With(buf, layer, b) ELSE buf
    BY <1>1, <1>4, <2>2
  <2>4. /\ DOMAIN With(buf, layer, b) = DOMAIN buf \cup {layer}
        /\ With(buf, layer, b)[layer] = b
        /\ \A h \in DOMAIN buf : h # layer => With(buf, layer, b)[h] = buf[h]
    BY DEF With
  <2>5. CASE layer < LastGroup
    BY <1>4, <2>1, <2>3, <2>4, <2>5
  <2>6. CASE layer = LastGroup
    BY <1>4, <2>1, <2>3, <2>6
  <2> QED BY <1>4, <2>5, <2>6
<1>7. HostInv'
  <2>1. DOMAIN buf' = {layer - 1, layer} \cap (0..(LastGroup - 1))
    <3>1. CASE layer < LastGroup
      BY <1>4, <1>6, <3>1, OffloadConfig DEF LastGroup
    <3>2. CASE layer = LastGroup
      BY <1>4, <1>6, <3>2, OffloadConfig DEF LastGroup
    <3> QED BY <1>4, <3>1, <3>2
  <2>2. CopiedUpTo(layer)'
    BY <1>2, <1>4, <1>5 DEF HostInv, CopiedUpTo
  <2> QED BY <1>2, <1>3, <1>4, <1>5, <1>6, <2>1, <2>2 DEF HostInv, ForwardCount
<1>8. HeldInv'
  <2>1. \A g \in DOMAIN state' : g \in DOMAIN state \/ g = layer
    BY <1>4, <1>5
  <2>2. \A g \in DOMAIN buf' : g \in DOMAIN buf \/ (g = layer /\ buf'[g] = b)
    BY <1>4, <1>6
  <2>3. free' = free \ {b} /\ (1..Len(block')) \ free' = ((1..Len(block)) \ free) \cup {b}
    BY <1>1, <1>3
  <2>4. DOMAIN state \subseteq DOMAIN state' /\ layer \in DOMAIN state' /\ DOMAIN buf \subseteq DOMAIN buf'
    BY <1>4, <1>5, <1>6
  <2> QED BY <1>3, <1>5, <1>6, <2>1, <2>2, <2>3, <2>4, SMTT(30) DEF HeldInv
<1> QED BY <1>7, <1>8

LEMMA HostCommitFirst ==
  ASSUME GpuOK, HostInv, HeldInv, CommitFirst
  PROVE  HostInv' /\ HeldInv'
<1>1. /\ pass = "forward" /\ at = "commit" /\ current_group = 0
      /\ state' = [state EXCEPT ![0] = Copied] /\ saved' = saved \cup {0}
      /\ current_group' = current_group + 1
      /\ UNCHANGED <<micro, offloaded_group_count, buf, free, block>>
  BY DEF CommitFirst, Offload, NextForward
<1>2. layer = 0 /\ DOMAIN state = {0} /\ DOMAIN buf = {0} /\ buf[0] = state[0] /\ saved = {}
  BY <1>1, OffloadConfig DEF HostInv, LastGroup
<1>3. pass' = "forward" /\ at' = "layer" /\ layer' = 1
  BY <1>1, <1>2, OffloadConfig DEF CommitFirst, NextForward
<1>4. DOMAIN state' = {0} /\ state'[0] = Copied
  BY <1>1, <1>2
<1>5. HostInv'
  <2>1. offloaded_group_count = 0 /\ ForwardCount' = 0
    BY <1>1, <1>2, <1>3 DEF HostInv, ForwardCount
  <2>2. CopiedUpTo(layer)' /\ 1 \in Groups
    BY <1>3, <1>4, OffloadConfig DEF CopiedUpTo
  <2> QED BY <1>1, <1>2, <1>3, <1>4, <2>1, <2>2, OffloadConfig DEF HostInv
<1>6. HeldInv'
  BY <1>1, <1>2, <1>4 DEF HeldInv
<1> QED BY <1>5, <1>6

LEMMA HostCommitForward ==
  ASSUME GpuOK, HostInv, HeldInv, CommitForward
  PROVE  HostInv' /\ HeldInv'
<1>1. /\ pass = "forward" /\ at = "commit" /\ current_group > 0
      /\ current_group' = current_group + 1
      /\ offloaded_group_count' = offloaded_group_count + 1
      /\ UNCHANGED <<micro, block>>
  BY DEF CommitForward, NextForward
<1>2. /\ layer = current_group /\ layer \in 1..LastGroup /\ LastGroup \in Nat /\ LastGroup > 1
      /\ offloaded_group_count = layer - 1 /\ DOMAIN state = 0..layer
      /\ DOMAIN buf = {layer - 1, layer} \cap (0..(LastGroup - 1)) /\ saved = 0..(layer - 1)
      /\ state[layer] # Copied /\ (layer < LastGroup => buf[layer] = state[layer]) /\ CopiedUpTo(layer)
  BY <1>1, OffloadConfig DEF HostInv, LastGroup, ForwardCount
<1>3. DroppedAfterCopy(layer - 1) = {layer - 1} /\ layer - 1 \in DOMAIN buf
  BY <1>2 DEF DroppedAfterCopy
<1>4. /\ buf' = [g \in DOMAIN buf \ {layer - 1} |-> buf[g]]
      /\ free' = free \cup {buf[layer - 1]}
  BY <1>2, <1>3 DEF CommitForward
<1>5. /\ DOMAIN buf' = {layer} \cap (0..(LastGroup - 1))
      /\ layer < LastGroup => buf'[layer] = state[layer]
  BY <1>2, <1>4
<1>6. CASE layer < LastGroup
  <2>1. /\ state' = [state EXCEPT ![layer] = Copied] /\ saved' = saved \cup {layer}
        /\ layer' = layer + 1 /\ at' = "layer" /\ pass' = pass
    <3>1. offloaded_group_count < NumOffloadGroup - 1 /\ offloaded_group_count + 1 = layer /\ layer < NumLayers - 1
      BY <1>2, <1>6, OffloadConfig DEF LastGroup
    <3> QED BY <3>1 DEF CommitForward, Offload, NextForward
  <2>2. DOMAIN state' = 0..layer /\ state'[layer] = Copied /\ \A g \in 0..(layer - 1) : state'[g] = Copied
    BY <1>2, <2>1 DEF CopiedUpTo
  <2>3. HostInv'
    <3>1. layer' \in Groups /\ DOMAIN state' = 0..(layer' - 1) /\ saved' = 0..(layer' - 1)
      BY <1>2, <1>6, <2>1, <2>2, OffloadConfig DEF LastGroup
    <3>2. DOMAIN buf' = {layer' - 1} \cap Groups
      BY <1>2, <1>5, <1>6, <2>1, OffloadConfig DEF LastGroup
    <3>3. CopiedUpTo(layer)'
      BY <1>2, <2>1, <2>2 DEF CopiedUpTo
    <3>4. offloaded_group_count' = ForwardCount' /\ current_group' = layer'
      BY <1>1, <1>2, <2>1 DEF ForwardCount
    <3> QED BY <1>1, <2>1, <3>1, <3>2, <3>3, <3>4 DEF HostInv
  <2>4. HeldInv'
    <3>1. \A b \in (1..Len(block)) \ free : b = buf[layer - 1] \/ b = buf[layer]
      <4> SUFFICES ASSUME NEW b \in (1..Len(block)) \ free PROVE b = buf[layer - 1] \/ b = buf[layer]
        OBVIOUS
      <4>1. b # Copied
        BY DEF Copied
      <4>2. (\E g \in DOMAIN buf : buf[g] = b) \/ (\E g \in DOMAIN state : state[g] = b)
        BY DEF HeldInv
      <4>3. \A g \in DOMAIN buf : g \in {layer - 1, layer}
        BY <1>2
      <4>4. \A g \in DOMAIN state : g = layer \/ state[g] = Copied
        BY <1>2 DEF CopiedUpTo
      <4> QED BY <1>2, <1>6, <4>1, <4>2, <4>3, <4>4
    <3>2. layer \in DOMAIN buf /\ layer - 1 # layer
      BY <1>2, <1>6
    <3>3. /\ buf[layer] # buf[layer - 1] /\ buf[layer] \in (1..Len(block)) \ free
      BY <1>3, <3>2 DEF HeldInv
    <3>4. DOMAIN buf' = {layer} /\ buf'[layer] = buf[layer] /\ (1..Len(block')) \ free' = {buf[layer]}
      BY <1>1, <1>2, <1>4, <1>5, <1>6, <3>1, <3>3
    <3>5. \A g \in DOMAIN state' : state'[g] = Copied
      BY <1>2, <2>2
    <3>6. buf[layer] # Copied
      BY <1>2, <1>6
    <3> QED BY <3>4, <3>5, <3>6 DEF HeldInv
  <2> QED BY <2>3, <2>4
<1>7. CASE layer = LastGroup
  <2>1. /\ state' = state /\ saved' = saved /\ pass' = "backward" /\ UNCHANGED <<layer, at>>
    <3>1. ~(offloaded_group_count < NumOffloadGroup - 1) /\ ~(layer < NumLayers - 1)
      BY <1>2, <1>7, OffloadConfig DEF LastGroup
    <3> QED BY <3>1 DEF CommitForward, NextForward
  <2>2. DOMAIN buf' = {}
    BY <1>2, <1>5, <1>7
  <2>3. HostInv'
    <3>1. CopiedUpTo(layer)'
      BY <1>2, <2>1 DEF CopiedUpTo
    <3> QED BY <1>1, <1>2, <2>1, <2>2, <3>1 DEF HostInv
  <2>4. HeldInv'
    <3>1. \A b \in (1..Len(block)) \ free : b = buf[layer - 1] \/ b = state[layer]
      <4> SUFFICES ASSUME NEW b \in (1..Len(block)) \ free PROVE b = buf[layer - 1] \/ b = state[layer]
        OBVIOUS
      <4>1. b # Copied
        BY DEF Copied
      <4>2. (\E g \in DOMAIN buf : buf[g] = b) \/ (\E g \in DOMAIN state : state[g] = b)
        BY DEF HeldInv
      <4>3. \A g \in DOMAIN buf : g = layer - 1
        BY <1>2, <1>7
      <4>4. \A g \in DOMAIN state : g = layer \/ state[g] = Copied
        BY <1>2 DEF CopiedUpTo
      <4> QED BY <4>1, <4>2, <4>3, <4>4
    <3>2. layer \in DOMAIN state /\ layer # layer - 1
      BY <1>2
    <3>3. state[layer] # buf[layer - 1] /\ state[layer] \in (1..Len(block)) \ free
      BY <1>2, <1>3, <3>2 DEF HeldInv
    <3>4. (1..Len(block')) \ free' = {state'[layer]} /\ \A g \in DOMAIN state' : g = layer \/ state'[g] = Copied
      BY <1>1, <1>2, <1>4, <2>1, <3>1, <3>3 DEF CopiedUpTo
    <3> QED BY <1>2, <2>1, <2>2, <3>2, <3>4 DEF HeldInv
  <2> QED BY <2>3, <2>4
<1> QED BY <1>2, <1>6, <1>7

LEMMA HostCommitBackward ==
  ASSUME GpuOK, HostInv, HeldInv, CommitBackward
  PROVE  HostInv' /\ HeldInv'
<1>1. /\ pass = "backward" /\ at = "commit" /\ current_group > 1 /\ at' = "layer"
      /\ current_group' = current_group - 1
      /\ UNCHANGED <<micro, pass, layer, buf>>
  BY DEF CommitBackward
<1>2. /\ layer \in Nat /\ layer > 0 /\ layer \in Groups /\ current_group = layer + 1
      /\ offloaded_group_count = layer /\ saved = 0..(layer - 1) /\ CopiedUpTo(layer)
      /\ DOMAIN state = 0..layer /\ state[layer] # Copied /\ DOMAIN buf = {}
  BY <1>1, OffloadConfig DEF HostInv
<1>3. PICK b \in Allocatable("h2d") :
        /\ block' = Allocated(b, "h2d") /\ free' = free \ {b}
        /\ state' = [state EXCEPT ![layer - 1] = b] /\ saved' = saved \ {layer - 1}
  BY <1>2 DEF CommitBackward, Reload
<1>4. /\ b \in Nat /\ b # Copied /\ 1..Len(block') = (1..Len(block)) \cup {b}
      /\ b \in free \/ b \notin 1..Len(block)
  BY <1>3, AllocatedFacts DEF GpuOK, Streams
<1>5. /\ DOMAIN state' = 0..layer /\ state'[layer - 1] = b /\ state'[layer] = state[layer]
      /\ layer - 1 \in 0..layer
      /\ \A g \in 0..(layer - 2) : state'[g] = Copied
  BY <1>2, <1>3 DEF CopiedUpTo
<1>6. HostInv'
  <2>1. offloaded_group_count' = IF layer > 1 THEN layer - 1 ELSE layer
    BY <1>2 DEF CommitBackward
  <2>2. saved' = 0..(layer - 2)
    BY <1>2, <1>3
  <2>3. CopiedUpTo(layer - 1)'
    BY <1>1, <1>2, <1>5 DEF CopiedUpTo
  <2> QED BY <1>1, <1>2, <1>4, <1>5, <2>1, <2>2, <2>3 DEF HostInv
<1>7. HeldInv'
  <2>1. \A g \in DOMAIN state : g = layer \/ state[g] = Copied
    BY <1>2 DEF CopiedUpTo
  <2>2. /\ \A x \in (1..Len(block)) \ free : x = state[layer]
        /\ state[layer] \in (1..Len(block)) \ free
    <3>1. \A x \in (1..Len(block)) \ free : x # Copied
      BY DEF Copied
    <3> QED BY <1>2, <2>1, <3>1 DEF HeldInv
  <2>3. (1..Len(block')) \ free' = {state[layer], b} /\ state[layer] # b
    BY <1>3, <1>4, <2>2
  <2>4. \A g \in DOMAIN state' : \/ g = layer /\ state'[g] = state[layer]
                                 \/ g = layer - 1 /\ state'[g] = b
                                 \/ state'[g] = Copied
    BY <1>2, <1>5
  <2>5. layer \in DOMAIN state' /\ layer - 1 \in DOMAIN state'
    BY <1>2, <1>5
  <2> HIDE DEF Copied
  <2> QED BY <1>1, <1>2, <1>4, <1>5, <2>3, <2>4, <2>5 DEF HeldInv
<1> QED BY <1>6, <1>7

LEMMA HostCommitLast ==
  ASSUME GpuOK, HostInv, HeldInv, CommitLast
  PROVE  HostInv' /\ HeldInv'
<1>1. /\ pass = "backward" /\ at = "commit" /\ current_group = 1 /\ at' = "layer"
      /\ current_group' = 0 /\ offloaded_group_count' = 0
      /\ UNCHANGED <<micro, pass, layer, state, buf, saved, block, free>>
  BY DEF CommitLast, handlerVars
<1>2. layer = 0
  BY <1>1, OffloadConfig DEF HostInv
<1>3. HostInv'
  BY <1>1, <1>2 DEF HostInv, CopiedUpTo
<1>4. HeldInv'
  BY <1>1 DEF HeldInv
<1> QED BY <1>3, <1>4

LEMMA HostBackwardLayer ==
  ASSUME GpuOK, HostInv, HeldInv, BackwardLayer
  PROVE  HostInv' /\ HeldInv'
<1>1. /\ pass = "backward" /\ at = "layer" /\ layer \in Groups /\ layer \in Nat
      /\ state[layer] # Copied /\ DOMAIN state = 0..layer /\ DOMAIN buf = {}
      /\ current_group = layer /\ saved = 0..(layer - 2) /\ CopiedUpTo(layer - 1)
      /\ micro \in 1..MicroBatches
  BY OffloadConfig DEF BackwardLayer, HostInv
<1>2. /\ state' = Without(state, layer) /\ buf' = Without(buf, layer)
      /\ free' = free \cup {state[layer]}
      /\ UNCHANGED <<current_group, offloaded_group_count, saved, block>>
      /\ \/ layer > 0 /\ layer' = layer - 1 /\ at' = "commit" /\ UNCHANGED <<micro, pass>>
         \/ /\ layer = 0 /\ micro < MicroBatches
            /\ micro' = micro + 1 /\ pass' = "forward" /\ UNCHANGED <<layer, at>>
         \/ layer = 0 /\ pass' = "over" /\ UNCHANGED <<micro, layer, at>>
  BY <1>1 DEF BackwardLayer
<1>3. /\ DOMAIN state' = 0..(layer - 1) /\ \A g \in 0..(layer - 1) : state'[g] = state[g]
      /\ DOMAIN buf' = {}
  <2>1. DOMAIN Without(state, layer) = (0..layer) \ {layer} /\ DOMAIN Without(buf, layer) = {}
    BY <1>1 DEF Without
  <2>2. (0..layer) \ {layer} = 0..(layer - 1)
    BY <1>1
  <2>3. \A g \in (0..layer) \ {layer} : Without(state, layer)[g] = state[g]
    BY <1>1 DEF Without
  <2> QED BY <1>2, <2>1, <2>2, <2>3
<1>4. CASE layer > 0
  <2>1. layer' = layer - 1 /\ at' = "commit" /\ UNCHANGED <<micro, pass>>
    BY <1>2, <1>4
  <2>2. /\ state'[layer - 1] # Copied /\ layer - 1 \in Groups
        /\ (layer > 1 => offloaded_group_count = layer - 1)
    <3>1. state[layer - 1] # Copied /\ (layer > 1 => offloaded_group_count = layer - 1)
      BY <1>1, <1>4 DEF HostInv
    <3> QED BY <1>1, <1>3, <1>4, <3>1, OffloadConfig
  <2>3. \A g \in 0..(layer - 2) : state'[g] = Copied
    BY <1>1, <1>3, <1>4 DEF CopiedUpTo
  <2>4. HostInv'
    <3>1. CopiedUpTo(layer)'
      BY <1>1, <2>1, <2>3 DEF CopiedUpTo
    <3> QED BY <1>1, <1>2, <1>3, <1>4, <2>1, <2>2, <3>1 DEF HostInv
  <2>5. HeldInv'
    <3>1. /\ layer - 1 \in DOMAIN state /\ layer \in DOMAIN state /\ layer - 1 # layer
          /\ state[layer - 1] = state'[layer - 1]
      BY <1>1, <1>3, <1>4
    <3>2. /\ state[layer - 1] \in (1..Len(block)) \ free
          /\ state[layer - 1] # state[layer]
      BY <2>2, <3>1 DEF HeldInv
    <3>3. \A g \in DOMAIN state : g \in {layer, layer - 1} \/ state[g] = Copied
      BY <1>1 DEF CopiedUpTo
    <3>4. \A x \in (1..Len(block)) \ free : x # Copied
      BY DEF Copied
    <3>5. (1..Len(block')) \ free' = {state'[layer - 1]}
      BY <1>1, <1>2, <3>1, <3>2, <3>3, <3>4 DEF HeldInv
    <3>6. \A g \in DOMAIN state' : g = layer - 1 \/ state'[g] = Copied
      BY <1>1, <1>3, <2>3
    <3>7. layer - 1 \in DOMAIN state' /\ state'[layer - 1] # Copied
      BY <1>1, <1>3, <1>4, <2>2
    <3> QED BY <1>3, <3>5, <3>6, <3>7 DEF HeldInv
  <2> QED BY <2>4, <2>5
<1>5. CASE layer = 0
  <2>1. DOMAIN state' = {} /\ saved = {} /\ offloaded_group_count = 0
    BY <1>1, <1>3, <1>5 DEF HostInv
  <2>2. HeldInv'
    <3>1. \A x \in (1..Len(block)) \ free : x = state[layer]
      <4>1. \A x \in (1..Len(block)) \ free : x # Copied
        BY DEF Copied
      <4>2. \A g \in DOMAIN state : g = layer
        BY <1>1, <1>5
      <4> QED BY <1>1, <4>1, <4>2 DEF HeldInv
    <3>2. (1..Len(block')) \ free' = {}
      BY <1>2, <3>1
    <3> QED BY <1>3, <2>1, <3>2 DEF HeldInv
  <2>3. CASE pass' = "forward" /\ layer' = 0 /\ at' = "layer" /\ micro' = micro + 1 /\ micro < MicroBatches
    <3>1. /\ saved = 0..(0 - 1) /\ {} = 0..(0 - 1) /\ {} = {0 - 1} \cap Groups
          /\ micro' \in 1..MicroBatches /\ CopiedUpTo(layer)'
      BY <1>1, <2>1, <2>3, OffloadConfig DEF CopiedUpTo
    <3> QED BY <1>1, <1>2, <1>3, <1>5, <2>1, <2>2, <2>3, <3>1 DEF HostInv, ForwardCount
  <2>4. CASE pass' = "over" /\ UNCHANGED <<micro, layer, at>>
    BY <1>1, <1>2, <1>3, <1>5, <2>1, <2>2, <2>4 DEF HostInv
  <2> QED BY <1>1, <1>2, <1>5, <2>3, <2>4
<1> QED BY <1>1, <1>4, <1>5

\* The GPU changes what blocks hold, not whose they are.
LEMMA ExecuteBlocks ==
  ASSUME GpuOK, NEW s \in Streams, Execute(s)
  PROVE  /\ block' \in Seq(Blocks) /\ Len(block') = Len(block) /\ cpu' \in [Whats -> Contents]
         /\ \A b \in 1..Len(block) : block'[b].owner = block[b].owner
         /\ done' = [done EXCEPT ![s] = @ + 1] /\ done[s] < Len(stream[s])
         /\ UNCHANGED <<hostVars, handlerVars, stream, free>>
<1> DEFINE op == stream[s][done[s] + 1]
<1>1. done[s] + 1 \in 1..Len(stream[s]) /\ stream[s] \in Seq(Ops) /\ done[s] < Len(stream[s])
  BY DEF Execute, Ready, GpuOK, Streamed
<1>2. op \in Ops
  BY <1>1
<1>3. op.kind # "wait" => op \in Works
  BY <1>2 DEF Ops, Waitings
<1>4. \/ op.kind = "forward" /\ block' = [block EXCEPT ![op.block].content = op.what] /\ cpu' = cpu
      \/ op.kind = "reload" /\ block' = [block EXCEPT ![op.block].content = cpu[op.what]] /\ cpu' = cpu
      \/ op.kind = "offload" /\ block' = block
         /\ cpu' = [cpu EXCEPT ![op.what] = block[op.block].content]
      \/ block' = block /\ cpu' = cpu
  BY DEF Execute
<1>5. op.kind # "wait" => op.what \in Whats /\ op.what \in Contents /\ op.block \in 1..Len(block)
  BY <1>1, <1>3, WhatsTyped DEF Works, GpuOK
<1>6. ASSUME NEW b \in 1..Len(block), NEW x \in Contents
      PROVE  /\ [block EXCEPT ![b].content = x] \in Seq(Blocks)
             /\ Len([block EXCEPT ![b].content = x]) = Len(block)
             /\ \A c \in 1..Len(block) :
                  [block EXCEPT ![b].content = x][c].owner = block[c].owner
  <2> DEFINE new == [block[b] EXCEPT !.content = x]
             changed == [block EXCEPT ![b] = new]
  <2>1. block \in Seq(Blocks) /\ block[b] \in Blocks
    BY DEF GpuOK
  <2>2. new \in Blocks /\ new.owner = block[b].owner
    BY <2>1 DEF Blocks
  <2> HIDE DEF new
  <2>3. /\ changed \in Seq(Blocks) /\ Len(changed) = Len(block)
        /\ \A c \in 1..Len(block) : changed[c] = IF c = b THEN new ELSE block[c]
    BY <2>1, <2>2
  <2>4. [block EXCEPT ![b].content = x] = changed
    BY DEF new
  <2> QED BY <2>2, <2>3, <2>4
<1>7. block \in Seq(Blocks) /\ cpu \in [Whats -> Contents]
  BY DEF GpuOK
<1>8. block' \in Seq(Blocks) /\ Len(block') = Len(block) /\ cpu' \in [Whats -> Contents]
      /\ \A b \in 1..Len(block) : block'[b].owner = block[b].owner
  <2>1. CASE op.kind = "forward" /\ block' = [block EXCEPT ![op.block].content = op.what] /\ cpu' = cpu
    <3> DEFINE b == op.block
               x == op.what
               changed == [block EXCEPT ![b].content = x]
    <3>1. b \in 1..Len(block) /\ x \in Contents /\ block' = changed
      BY <1>5, <2>1
    <3> HIDE DEF b, x, changed
    <3>2. /\ changed \in Seq(Blocks) /\ Len(changed) = Len(block)
          /\ \A c \in 1..Len(block) : changed[c].owner = block[c].owner
      BY <1>6, <3>1 DEF changed
    <3> QED BY <1>7, <2>1, <3>1, <3>2
  <2>2. CASE op.kind = "reload" /\ block' = [block EXCEPT ![op.block].content = cpu[op.what]] /\ cpu' = cpu
    <3>1. cpu[op.what] \in Contents
      BY <1>5, <1>7, <2>2
    <3> DEFINE b == op.block
               x == cpu[op.what]
               changed == [block EXCEPT ![b].content = x]
    <3>2. b \in 1..Len(block) /\ x \in Contents /\ block' = changed
      BY <1>5, <2>2, <3>1
    <3> HIDE DEF b, x, changed
    <3>3. /\ changed \in Seq(Blocks) /\ Len(changed) = Len(block)
          /\ \A c \in 1..Len(block) : changed[c].owner = block[c].owner
      BY <1>6, <3>2 DEF changed
    <3> QED BY <1>7, <2>2, <3>2, <3>3
  <2>3. CASE op.kind = "offload" /\ block' = block
             /\ cpu' = [cpu EXCEPT ![op.what] = block[op.block].content]
    <3>1. block[op.block].content \in Contents
      <4>1. op.block \in 1..Len(block)
        BY <1>5, <2>3
      <4> HIDE DEF op
      <4>2. block[op.block] \in Blocks
        BY <1>7, <4>1
      <4> QED BY <4>2 DEF Blocks
    <3> HIDE DEF op
    <3> QED BY <1>5, <1>7, <2>3, <3>1
  <2>4. CASE block' = block /\ cpu' = cpu
    BY <1>7, <2>4
  <2> QED BY <1>4, <2>1, <2>2, <2>3, <2>4
<1> QED BY <1>1, <1>8 DEF Execute

-----------------------------------------------------------------------------
(* Work in the streams *)

Does(op, kind, w, b) == op.kind = kind /\ op.what = w /\ op.block = b
Writes(op, kind, b) == op.kind = kind /\ op.block = b
Waits(op, s, n) == op.kind = "wait" /\ op.on = s /\ op.upto >= n

\* Before its position p, stream s waits for stream t to have done its position n.
WaitBefore(st, s, p, t, n) == \E x \in 1..(p - 1) : Waits(st[s][x], t, n)

KindsOK(st) ==
  /\ \A p \in 1..Len(st["compute"]) : st["compute"][p].kind \in {"forward", "backward", "wait"}
  /\ \A p \in 1..Len(st["d2h"]) : st["d2h"][p].kind \in {"offload", "wait"}
  /\ \A p \in 1..Len(st["h2d"]) : st["h2d"][p].kind \in {"reload", "wait"}

\* A copy to the CPU comes after the computation of what it copies, and before
\* any other computation that writes to the same block.
Offloads(st, v, f) ==
  /\ Does(st["compute"][f], "forward", st["d2h"][v].what, st["d2h"][v].block)
  /\ WaitBefore(st, "d2h", v, "compute", f)
  /\ \A f2 \in (f + 1)..Len(st["compute"]) :
       Writes(st["compute"][f2], "forward", st["d2h"][v].block)
         => WaitBefore(st, "compute", f2, "d2h", v)

OffloadOK(st) ==
  \A v \in 1..Len(st["d2h"]) : st["d2h"][v].kind = "offload" =>
    \E f \in 1..Len(st["compute"]) : Offloads(st, v, f)

\* A copy from the CPU comes after the copy to it, by way of a wait of the
\* computation for that copy, at y.
Reloads(st, q, v, y) ==
  /\ st["d2h"][v].kind = "offload" /\ st["d2h"][v].what = st["h2d"][q].what
  /\ Waits(st["compute"][y], "d2h", v)
  /\ WaitBefore(st, "h2d", q, "compute", y)

ReloadOK(st) ==
  \A q \in 1..Len(st["h2d"]) : st["h2d"][q].kind = "reload" =>
    \E v \in 1..Len(st["d2h"]), y \in 1..Len(st["compute"]) : Reloads(st, q, v, y)

\* At position p of the computation, block b was last written by the forward
\* pass of w,
FromForward(st, p, w, b) ==
  \E f \in 1..(p - 1) :
    /\ Does(st["compute"][f], "forward", w, b)
    /\ \A f2 \in (f + 1)..(p - 1) : ~Writes(st["compute"][f2], "forward", b)

\* or holds the copy of w that was waited for, and that no other copy replaces
\* before p is done.
FromReload(st, p, w, b) ==
  \E q \in 1..Len(st["h2d"]) :
    /\ Does(st["h2d"][q], "reload", w, b)
    /\ WaitBefore(st, "compute", p, "h2d", q)
    /\ \A q2 \in (q + 1)..Len(st["h2d"]) :
         Writes(st["h2d"][q2], "reload", b) => WaitBefore(st, "h2d", q2, "compute", p)

BackwardOK(st) ==
  \A p \in 1..Len(st["compute"]) : st["compute"][p].kind = "backward" =>
    \/ FromForward(st, p, st["compute"][p].what, st["compute"][p].block)
    \/ FromReload(st, p, st["compute"][p].what, st["compute"][p].block)

Ordered(st) == st \in Streamed /\ KindsOK(st) /\ OffloadOK(st) /\ ReloadOK(st) /\ BackwardOK(st)

Grows(st, st2) ==
  \A s \in Streams :
    /\ Len(st[s]) <= Len(st2[s])
    /\ \A p \in 1..Len(st[s]) : st2[s][p] = st[s][p]

LEMMA Lengths ==
  ASSUME NEW st \in Streamed
  PROVE  /\ \A s \in Streams : Len(st[s]) \in Nat
         /\ \A s \in Streams : \A p \in 1..Len(st[s]) : st[s][p] \in Ops
         /\ "compute" \in Streams /\ "d2h" \in Streams /\ "h2d" \in Streams
BY DEF Streamed, Streams

LEMMA IssueFacts ==
  ASSUME NEW st \in Streamed, NEW s \in Streams, NEW op \in Ops
  PROVE  /\ Issue(st, s, op) \in Streamed
         /\ Len(Issue(st, s, op)[s]) = Len(st[s]) + 1
         /\ Issue(st, s, op)[s][Len(st[s]) + 1] = op
         /\ \A t \in Streams : t # s => Issue(st, s, op)[t] = st[t]
         /\ \A p \in 1..Len(st[s]) : Issue(st, s, op)[s][p] = st[s][p]
         /\ Grows(st, Issue(st, s, op))
<1> DEFINE more == Append(st[s], op)
<1>1. st[s] \in Seq(Ops) /\ Len(st[s]) \in Nat
  BY DEF Streamed
<1>2. /\ more \in Seq(Ops) /\ Len(more) = Len(st[s]) + 1 /\ more[Len(st[s]) + 1] = op
      /\ \A p \in 1..Len(st[s]) : more[p] = st[s][p]
  BY <1>1
<1>3. Issue(st, s, op) = [st EXCEPT ![s] = more]
  BY DEF Issue
<1> HIDE DEF more
<1>4. /\ Issue(st, s, op) \in Streamed /\ Issue(st, s, op)[s] = more
      /\ \A t \in Streams : t # s => Issue(st, s, op)[t] = st[t]
  BY <1>2, <1>3 DEF Streamed
<1>5. Grows(st, Issue(st, s, op))
  <2> SUFFICES ASSUME NEW t \in Streams
               PROVE  /\ Len(st[t]) <= Len(Issue(st, s, op)[t])
                      /\ \A p \in 1..Len(st[t]) : Issue(st, s, op)[t][p] = st[t][p]
    BY DEF Grows
  <2>1. Len(st[t]) \in Nat
    BY Lengths
  <2> QED BY <1>2, <1>4, <2>1
<1> QED BY <1>2, <1>4, <1>5

LEMMA WaitIssued ==
  ASSUME NEW st \in Streamed, NEW s \in Streams, NEW t \in Streams
  PROVE  /\ Wait(t, Len(st[t])) \in Ops
         /\ Wait(t, Len(st[t])).kind = "wait"
         /\ WaitStream(st, s, t) = Issue(st, s, Wait(t, Len(st[t])))
         /\ \A n \in 1..Len(st[t]) : Waits(Wait(t, Len(st[t])), t, n)
<1>1. Len(st[t]) \in Nat
  BY Lengths
<1> QED BY <1>1 DEF Wait, Ops, Waitings, WaitStream, Waits

LEMMA WaitBeforeGrows ==
  ASSUME NEW st \in Streamed, NEW st2, Grows(st, st2), NEW s \in Streams, NEW t, NEW n,
         NEW p \in Nat, p <= Len(st[s]) + 1, WaitBefore(st, s, p, t, n)
  PROVE  WaitBefore(st2, s, p, t, n)
<1>1. PICK x \in 1..(p - 1) : Waits(st[s][x], t, n)
  BY DEF WaitBefore
<1>2. x \in 1..Len(st[s])
  BY Lengths
<1> QED BY <1>1, <1>2 DEF WaitBefore, Grows

\* What holds at a position still holds when work of another kind is added.
LEMMA OffloadsGrows ==
  ASSUME NEW st \in Streamed, NEW st2 \in Streamed, Grows(st, st2),
         NEW v \in 1..Len(st["d2h"]), NEW f \in 1..Len(st["compute"]), Offloads(st, v, f),
         \A p \in 1..Len(st2["compute"]) : p > Len(st["compute"]) =>
           ~Writes(st2["compute"][p], "forward", st["d2h"][v].block)
             \/ WaitBefore(st, "compute", Len(st["compute"]) + 1, "d2h", v)
  PROVE  Offloads(st2, v, f)
<1>1. /\ Len(st["compute"]) \in Nat /\ Len(st2["compute"]) \in Nat /\ Len(st["d2h"]) \in Nat
      /\ st2["d2h"][v] = st["d2h"][v] /\ st2["compute"][f] = st["compute"][f]
      /\ Len(st["compute"]) <= Len(st2["compute"])
      /\ "compute" \in Streams /\ "d2h" \in Streams
  BY Lengths DEF Grows
<1>2. WaitBefore(st2, "d2h", v, "compute", f)
  BY <1>1, WaitBeforeGrows DEF Offloads
<1>3. ASSUME NEW f2 \in (f + 1)..Len(st2["compute"]),
             Writes(st2["compute"][f2], "forward", st["d2h"][v].block)
      PROVE  WaitBefore(st2, "compute", f2, "d2h", v)
  <2>1. CASE f2 <= Len(st["compute"])
    <3>1. st2["compute"][f2] = st["compute"][f2] /\ f2 \in (f + 1)..Len(st["compute"]) /\ f2 \in Nat
      BY <1>1, <2>1 DEF Grows
    <3>2. WaitBefore(st, "compute", f2, "d2h", v)
      BY <1>3, <3>1 DEF Offloads
    <3> QED BY <1>1, <2>1, <3>1, <3>2, WaitBeforeGrows
  <2>2. CASE f2 > Len(st["compute"])
    <3>1. f2 \in 1..Len(st2["compute"])
      BY <1>1
    <3>2. WaitBefore(st, "compute", Len(st["compute"]) + 1, "d2h", v)
      BY <1>3, <2>2, <3>1
    <3>3. PICK x \in 1..(Len(st["compute"]) + 1 - 1) : Waits(st["compute"][x], "d2h", v)
      BY <3>2 DEF WaitBefore
    <3>4. x \in 1..(f2 - 1) /\ st2["compute"][x] = st["compute"][x]
      BY <1>1, <2>2 DEF Grows
    <3> QED BY <3>3, <3>4 DEF WaitBefore
  <2> QED BY <1>1, <2>1, <2>2
<1> QED BY <1>1, <1>2, <1>3 DEF Offloads

LEMMA ReloadsGrows ==
  ASSUME NEW st \in Streamed, NEW st2 \in Streamed, Grows(st, st2), NEW q \in 1..Len(st["h2d"]),
         NEW v \in 1..Len(st["d2h"]), NEW y \in 1..Len(st["compute"]), Reloads(st, q, v, y)
  PROVE  Reloads(st2, q, v, y)
<1>1. /\ Len(st["h2d"]) \in Nat /\ st2["h2d"][q] = st["h2d"][q] /\ st2["d2h"][v] = st["d2h"][v]
      /\ st2["compute"][y] = st["compute"][y] /\ "h2d" \in Streams
  BY Lengths DEF Grows
<1>2. WaitBefore(st2, "h2d", q, "compute", y)
  BY <1>1, WaitBeforeGrows DEF Reloads
<1> QED BY <1>1, <1>2 DEF Reloads

LEMMA FromForwardGrows ==
  ASSUME NEW st \in Streamed, NEW st2, Grows(st, st2), NEW p \in 1..(Len(st["compute"]) + 1),
         NEW w, NEW b, FromForward(st, p, w, b)
  PROVE  FromForward(st2, p, w, b)
<1>1. Len(st["compute"]) \in Nat /\ \A f \in 1..(p - 1) : st2["compute"][f] = st["compute"][f]
  BY Lengths DEF Grows
<1>2. PICK f \in 1..(p - 1) :
        /\ Does(st["compute"][f], "forward", w, b)
        /\ \A f2 \in (f + 1)..(p - 1) : ~Writes(st["compute"][f2], "forward", b)
  BY DEF FromForward
<1>3. \A f2 \in (f + 1)..(p - 1) : f2 \in 1..(p - 1)
  BY <1>1
<1> QED BY <1>1, <1>2, <1>3 DEF FromForward

LEMMA FromReloadGrows ==
  ASSUME NEW st \in Streamed, NEW st2 \in Streamed, Grows(st, st2),
         NEW p \in 1..(Len(st["compute"]) + 1), NEW w, NEW b, FromReload(st, p, w, b),
         \A q \in 1..Len(st2["h2d"]) : q > Len(st["h2d"]) =>
           ~Writes(st2["h2d"][q], "reload", b)
             \/ WaitBefore(st, "h2d", Len(st["h2d"]) + 1, "compute", p)
  PROVE  FromReload(st2, p, w, b)
<1>1. /\ Len(st["compute"]) \in Nat /\ Len(st2["h2d"]) \in Nat /\ Len(st["h2d"]) \in Nat
      /\ Len(st["h2d"]) <= Len(st2["h2d"]) /\ "compute" \in Streams /\ "h2d" \in Streams
      /\ \A q \in 1..Len(st["h2d"]) : st2["h2d"][q] = st["h2d"][q]
  BY Lengths DEF Grows
<1>2. PICK q \in 1..Len(st["h2d"]) :
        /\ Does(st["h2d"][q], "reload", w, b)
        /\ WaitBefore(st, "compute", p, "h2d", q)
        /\ \A q2 \in (q + 1)..Len(st["h2d"]) :
             Writes(st["h2d"][q2], "reload", b) => WaitBefore(st, "h2d", q2, "compute", p)
  BY DEF FromReload
<1>3. WaitBefore(st2, "compute", p, "h2d", q)
  BY <1>1, <1>2, WaitBeforeGrows
<1>4. ASSUME NEW q2 \in (q + 1)..Len(st2["h2d"]), Writes(st2["h2d"][q2], "reload", b)
      PROVE  WaitBefore(st2, "h2d", q2, "compute", p)
  <2>1. CASE q2 <= Len(st["h2d"])
    <3>1. q2 \in (q + 1)..Len(st["h2d"]) /\ q2 \in 1..Len(st["h2d"]) /\ q2 \in Nat
      BY <1>1, <2>1
    <3>2. WaitBefore(st, "h2d", q2, "compute", p)
      BY <1>1, <1>2, <1>4, <3>1
    <3> QED BY <1>1, <2>1, <3>1, <3>2, WaitBeforeGrows
  <2>2. CASE q2 > Len(st["h2d"])
    <3>1. q2 \in 1..Len(st2["h2d"])
      BY <1>1
    <3>2. WaitBefore(st, "h2d", Len(st["h2d"]) + 1, "compute", p)
      BY <1>4, <2>2, <3>1
    <3>3. PICK x \in 1..(Len(st["h2d"]) + 1 - 1) : Waits(st["h2d"][x], "compute", p)
      BY <3>2 DEF WaitBefore
    <3>4. x \in 1..(q2 - 1) /\ st2["h2d"][x] = st["h2d"][x]
      BY <1>1, <2>2
    <3> QED BY <3>3, <3>4 DEF WaitBefore
  <2> QED BY <1>1, <2>1, <2>2
<1>5. q \in 1..Len(st2["h2d"])
  BY <1>1
<1> QED BY <1>1, <1>2, <1>3, <1>4, <1>5 DEF FromReload

\* When new work keeps the streams in order.
LEMMA OrderedIssue ==
  ASSUME NEW st, Ordered(st), NEW s \in Streams, NEW op \in Ops,
         s = "compute" => op.kind \in {"forward", "backward", "wait"},
         s = "d2h" => op.kind \in {"offload", "wait"},
         s = "h2d" => op.kind \in {"reload", "wait"},
         op.kind = "forward" =>
           \A v \in 1..Len(st["d2h"]) : Writes(st["d2h"][v], "offload", op.block) =>
             WaitBefore(st, "compute", Len(st["compute"]) + 1, "d2h", v),
         op.kind = "reload" =>
           \A p \in 1..Len(st["compute"]) : Writes(st["compute"][p], "backward", op.block) =>
             WaitBefore(st, "h2d", Len(st["h2d"]) + 1, "compute", p),
         op.kind = "offload" =>
           \E f \in 1..Len(st["compute"]) :
             /\ Does(st["compute"][f], "forward", op.what, op.block)
             /\ WaitBefore(st, "d2h", Len(st["d2h"]) + 1, "compute", f)
             /\ \A f2 \in (f + 1)..Len(st["compute"]) :
                  ~Writes(st["compute"][f2], "forward", op.block),
         op.kind = "reload" =>
           \E v \in 1..Len(st["d2h"]), y \in 1..Len(st["compute"]) :
             /\ st["d2h"][v].kind = "offload" /\ st["d2h"][v].what = op.what
             /\ Waits(st["compute"][y], "d2h", v)
             /\ WaitBefore(st, "h2d", Len(st["h2d"]) + 1, "compute", y),
         op.kind = "backward" =>
           \/ FromForward(st, Len(st["compute"]) + 1, op.what, op.block)
           \/ FromReload(st, Len(st["compute"]) + 1, op.what, op.block)
  PROVE  Ordered(Issue(st, s, op))
<1> DEFINE st2 == Issue(st, s, op)
<1>1. /\ st \in Streamed /\ st2 \in Streamed /\ Grows(st, st2)
      /\ Len(st2[s]) = Len(st[s]) + 1 /\ st2[s][Len(st[s]) + 1] = op
      /\ \A t \in Streams : t # s => st2[t] = st[t]
      /\ \A p \in 1..Len(st[s]) : st2[s][p] = st[s][p]
  BY IssueFacts DEF Ordered
<1> HIDE DEF st2
<1>2. /\ \A t \in Streams : Len(st[t]) \in Nat /\ Len(st2[t]) \in Nat
      /\ "compute" \in Streams /\ "d2h" \in Streams /\ "h2d" \in Streams
  BY <1>1, Lengths
<1>3. \A t \in Streams : \A p \in 1..Len(st2[t]) :
        \/ p \in 1..Len(st[t]) /\ st2[t][p] = st[t][p]
        \/ t = s /\ p = Len(st[t]) + 1 /\ st2[t][p] = op
  <2> SUFFICES ASSUME NEW t \in Streams, NEW p \in 1..Len(st2[t])
               PROVE  \/ p \in 1..Len(st[t]) /\ st2[t][p] = st[t][p]
                      \/ t = s /\ p = Len(st[t]) + 1 /\ st2[t][p] = op
    OBVIOUS
  <2>1. CASE t = s
    BY <1>1, <1>2, <2>1
  <2>2. CASE t # s
    BY <1>1, <2>2
  <2> QED BY <2>1, <2>2
<1>4. KindsOK(st2)
  BY <1>2, <1>3 DEF Ordered, KindsOK
<1>5. OffloadOK(st2)
  <2> SUFFICES ASSUME NEW v \in 1..Len(st2["d2h"]), st2["d2h"][v].kind = "offload"
               PROVE  \E f \in 1..Len(st2["compute"]) : Offloads(st2, v, f)
    BY DEF OffloadOK
  <2>1. CASE v \in 1..Len(st["d2h"]) /\ st2["d2h"][v] = st["d2h"][v]
    <3>1. PICK f \in 1..Len(st["compute"]) : Offloads(st, v, f)
      BY <2>1 DEF Ordered, OffloadOK
    <3>2. \A p \in 1..Len(st2["compute"]) : p > Len(st["compute"]) =>
            ~Writes(st2["compute"][p], "forward", st["d2h"][v].block)
              \/ WaitBefore(st, "compute", Len(st["compute"]) + 1, "d2h", v)
      <4> SUFFICES ASSUME NEW p \in 1..Len(st2["compute"]), p > Len(st["compute"]),
                          Writes(st2["compute"][p], "forward", st["d2h"][v].block)
                   PROVE  WaitBefore(st, "compute", Len(st["compute"]) + 1, "d2h", v)
        OBVIOUS
      <4>1. st2["compute"][p] = op
        BY <1>2, <1>3
      <4> QED BY <2>1, <4>1 DEF Writes
    <3>3. Offloads(st2, v, f)
      BY <1>1, <2>1, <3>1, <3>2, OffloadsGrows
    <3>4. f \in 1..Len(st2["compute"])
      BY <1>1, <1>2 DEF Grows
    <3> QED BY <3>3, <3>4
  <2>2. CASE s = "d2h" /\ v = Len(st["d2h"]) + 1 /\ st2["d2h"][v] = op
    <3>1. PICK f \in 1..Len(st["compute"]) :
             /\ Does(st["compute"][f], "forward", op.what, op.block)
             /\ WaitBefore(st, "d2h", v, "compute", f)
             /\ \A f2 \in (f + 1)..Len(st["compute"]) :
                  ~Writes(st["compute"][f2], "forward", op.block)
      BY <2>2
    <3>2. st2["compute"] = st["compute"]
      BY <1>1, <1>2, <2>2
    <3>3. WaitBefore(st2, "d2h", v, "compute", f)
      BY <1>1, <1>2, <2>2, <3>1, WaitBeforeGrows
    <3> QED BY <2>2, <3>1, <3>2, <3>3 DEF Offloads
  <2> QED BY <1>2, <1>3, <2>1, <2>2
<1>6. ReloadOK(st2)
  <2> SUFFICES ASSUME NEW q \in 1..Len(st2["h2d"]), st2["h2d"][q].kind = "reload"
               PROVE  \E v \in 1..Len(st2["d2h"]), y \in 1..Len(st2["compute"]) : Reloads(st2, q, v, y)
    BY DEF ReloadOK
  <2>1. Len(st["d2h"]) <= Len(st2["d2h"]) /\ Len(st["compute"]) <= Len(st2["compute"])
    BY <1>1, <1>2 DEF Grows
  <2>2. CASE q \in 1..Len(st["h2d"]) /\ st2["h2d"][q] = st["h2d"][q]
    <3>1. PICK v \in 1..Len(st["d2h"]), y \in 1..Len(st["compute"]) : Reloads(st, q, v, y)
      BY <2>2 DEF Ordered, ReloadOK
    <3>2. Reloads(st2, q, v, y)
      BY <1>1, <2>2, <3>1, ReloadsGrows
    <3> QED BY <1>2, <2>1, <3>2
  <2>3. CASE s = "h2d" /\ q = Len(st["h2d"]) + 1 /\ st2["h2d"][q] = op
    <3>1. PICK v \in 1..Len(st["d2h"]), y \in 1..Len(st["compute"]) :
             /\ st["d2h"][v].kind = "offload" /\ st["d2h"][v].what = op.what
             /\ Waits(st["compute"][y], "d2h", v)
             /\ WaitBefore(st, "h2d", q, "compute", y)
      BY <2>3
    <3>2. st2["compute"] = st["compute"] /\ st2["d2h"] = st["d2h"]
      BY <1>1, <1>2, <2>3
    <3>3. WaitBefore(st2, "h2d", q, "compute", y)
      BY <1>1, <1>2, <2>3, <3>1, WaitBeforeGrows
    <3> QED BY <2>3, <3>1, <3>2, <3>3 DEF Reloads
  <2> QED BY <1>2, <1>3, <2>2, <2>3
<1>7. BackwardOK(st2)
  <2> SUFFICES ASSUME NEW p \in 1..Len(st2["compute"]), st2["compute"][p].kind = "backward"
               PROVE  \/ FromForward(st2, p, st2["compute"][p].what, st2["compute"][p].block)
                      \/ FromReload(st2, p, st2["compute"][p].what, st2["compute"][p].block)
    BY DEF BackwardOK
  <2>1. CASE p \in 1..Len(st["compute"]) /\ st2["compute"][p] = st["compute"][p]
    <3>1. p \in 1..(Len(st["compute"]) + 1)
      BY <1>2, <2>1
    <3>2. \A q \in 1..Len(st2["h2d"]) : q > Len(st["h2d"]) =>
            ~Writes(st2["h2d"][q], "reload", st["compute"][p].block)
              \/ WaitBefore(st, "h2d", Len(st["h2d"]) + 1, "compute", p)
      <4> SUFFICES ASSUME NEW q \in 1..Len(st2["h2d"]), q > Len(st["h2d"]),
                          Writes(st2["h2d"][q], "reload", st["compute"][p].block)
                   PROVE  WaitBefore(st, "h2d", Len(st["h2d"]) + 1, "compute", p)
        OBVIOUS
      <4>1. st2["h2d"][q] = op
        BY <1>2, <1>3
      <4> QED BY <2>1, <4>1 DEF Writes
    <3>3. CASE FromForward(st, p, st["compute"][p].what, st["compute"][p].block)
      BY <1>1, <2>1, <3>1, <3>3, FromForwardGrows
    <3>4. CASE FromReload(st, p, st["compute"][p].what, st["compute"][p].block)
      BY <1>1, <2>1, <3>1, <3>2, <3>4, FromReloadGrows
    <3> QED BY <2>1, <3>3, <3>4 DEF Ordered, BackwardOK
  <2>2. CASE s = "compute" /\ p = Len(st["compute"]) + 1 /\ st2["compute"][p] = op
    <3>1. st2["h2d"] = st["h2d"] /\ p \in 1..(Len(st["compute"]) + 1)
      BY <1>1, <1>2, <2>2
    <3>2. \A q \in 1..Len(st2["h2d"]) : ~(q > Len(st["h2d"]))
      BY <1>2, <3>1
    <3>3. CASE FromForward(st, p, op.what, op.block)
      BY <1>1, <2>2, <3>1, <3>3, FromForwardGrows
    <3>4. CASE FromReload(st, p, op.what, op.block)
      BY <1>1, <2>2, <3>1, <3>2, <3>4, FromReloadGrows
    <3> QED BY <2>2, <3>3, <3>4
  <2> QED BY <1>2, <1>3, <2>1, <2>2
<1> QED BY <1>1, <1>4, <1>5, <1>6, <1>7 DEF Ordered, st2

\* A wait keeps them in order.
LEMMA OrderedWait ==
  ASSUME NEW st, Ordered(st), NEW s \in Streams, NEW t \in Streams
  PROVE  /\ Ordered(WaitStream(st, s, t)) /\ Grows(st, WaitStream(st, s, t))
         /\ Len(WaitStream(st, s, t)[s]) = Len(st[s]) + 1
         /\ \A u \in Streams : u # s => WaitStream(st, s, t)[u] = st[u]
         /\ WaitStream(st, s, t)[s][Len(st[s]) + 1].kind = "wait"
         /\ \A n \in 1..Len(st[t]) :
              WaitBefore(WaitStream(st, s, t), s, Len(WaitStream(st, s, t)[s]) + 1, t, n)
<1>1. st \in Streamed
  BY DEF Ordered
<1> DEFINE op == Wait(t, Len(st[t]))
<1>2. /\ op \in Ops /\ op.kind = "wait" /\ WaitStream(st, s, t) = Issue(st, s, op)
      /\ \A n \in 1..Len(st[t]) : Waits(op, t, n)
  BY <1>1, WaitIssued
<1> HIDE DEF op
<1>3. Ordered(Issue(st, s, op))
  BY <1>2, OrderedIssue
<1>4. /\ Len(Issue(st, s, op)[s]) = Len(st[s]) + 1 /\ Issue(st, s, op)[s][Len(st[s]) + 1] = op
      /\ \A u \in Streams : u # s => Issue(st, s, op)[u] = st[u]
      /\ Grows(st, Issue(st, s, op)) /\ Len(st[s]) \in Nat
  BY <1>1, <1>2, IssueFacts, Lengths
<1>5. ASSUME NEW n \in 1..Len(st[t])
      PROVE  WaitBefore(Issue(st, s, op), s, Len(Issue(st, s, op)[s]) + 1, t, n)
  <2>1. Len(st[s]) + 1 \in 1..(Len(Issue(st, s, op)[s]) + 1 - 1)
    BY <1>4
  <2> QED BY <1>2, <1>4, <2>1 DEF WaitBefore
<1> QED BY <1>2, <1>3, <1>4, <1>5

\* st2 adds nothing but waits to st.
OnlyWaits(st, st2) ==
  /\ Grows(st, st2)
  /\ \A s \in Streams : \A p \in 1..Len(st2[s]) : p > Len(st[s]) => st2[s][p].kind = "wait"

\* It adds op, as the last work of stream s, and waits.
Adds(st, st2, s, op) ==
  /\ Grows(st, st2)
  /\ \A t \in Streams : \A p \in 1..Len(st2[t]) : p > Len(st[t]) =>
       st2[t][p].kind = "wait" \/ (t = s /\ p = Len(st2[s]) /\ st2[t][p] = op)
  /\ Len(st2[s]) \in Nat /\ Len(st2[s]) > Len(st[s]) /\ st2[s][Len(st2[s])] = op

LEMMA WaitAdds ==
  ASSUME NEW st, Ordered(st), NEW s \in Streams, NEW t \in Streams
  PROVE  OnlyWaits(st, WaitStream(st, s, t))
<1> DEFINE st2 == WaitStream(st, s, t)
<1>1. /\ Grows(st, st2) /\ Len(st2[s]) = Len(st[s]) + 1 /\ st2[s][Len(st[s]) + 1].kind = "wait"
      /\ \A u \in Streams : u # s => st2[u] = st[u]
  BY OrderedWait
<1>2. \A u \in Streams : Len(st[u]) \in Nat
  BY Lengths DEF Ordered
<1> HIDE DEF st2
<1>3. ASSUME NEW u \in Streams, NEW p \in 1..Len(st2[u]), p > Len(st[u])
      PROVE  st2[u][p].kind = "wait"
  <2>1. u = s
    BY <1>1, <1>2, <1>3
  <2>2. p = Len(st[s]) + 1
    BY <1>1, <1>2, <1>3, <2>1
  <2> QED BY <1>1, <2>1, <2>2
<1> QED BY <1>1, <1>3 DEF OnlyWaits, st2

LEMMA IssueAdds ==
  ASSUME NEW st \in Streamed, NEW st2 \in Streamed, OnlyWaits(st, st2), NEW s \in Streams, NEW op \in Ops
  PROVE  Adds(st, Issue(st2, s, op), s, op)
<1> DEFINE st3 == Issue(st2, s, op)
<1>1. /\ Grows(st2, st3) /\ Len(st3[s]) = Len(st2[s]) + 1 /\ st3[s][Len(st2[s]) + 1] = op
      /\ \A u \in Streams : u # s => st3[u] = st2[u]
      /\ \A p \in 1..Len(st2[s]) : st3[s][p] = st2[s][p]
      /\ \A u \in Streams : Len(st[u]) \in Nat /\ Len(st2[u]) \in Nat
      /\ \A u \in Streams : Len(st[u]) <= Len(st2[u])
  <2>1. /\ Grows(st2, st3) /\ Len(st3[s]) = Len(st2[s]) + 1 /\ st3[s][Len(st2[s]) + 1] = op
        /\ \A u \in Streams : u # s => st3[u] = st2[u]
        /\ \A p \in 1..Len(st2[s]) : st3[s][p] = st2[s][p]
    BY IssueFacts
  <2>2. \A u \in Streams : Len(st[u]) \in Nat /\ Len(st2[u]) \in Nat
    BY Lengths
  <2>3. \A u \in Streams : Len(st[u]) <= Len(st2[u])
    BY DEF OnlyWaits, Grows
  <2> QED BY <2>1, <2>2, <2>3
<1> HIDE DEF st3
<1>2. ASSUME NEW u \in Streams, NEW p \in 1..Len(st3[u]), p > Len(st[u])
      PROVE  st3[u][p].kind = "wait" \/ (u = s /\ p = Len(st3[s]) /\ st3[u][p] = op)
  <2>1. CASE u # s
    BY <1>1, <1>2, <2>1 DEF OnlyWaits
  <2>2. CASE u = s /\ p = Len(st2[s]) + 1
    BY <1>1, <2>2
  <2>3. CASE u = s /\ p # Len(st2[s]) + 1
    <3>1. p \in 1..Len(st2[s])
      BY <1>1, <2>3
    <3> QED BY <1>1, <1>2, <2>3, <3>1 DEF OnlyWaits
  <2> QED BY <2>1, <2>2, <2>3
<1>3. Grows(st, st3)
  <2> SUFFICES ASSUME NEW u \in Streams
               PROVE  /\ Len(st[u]) <= Len(st3[u]) /\ \A p \in 1..Len(st[u]) : st3[u][p] = st[u][p]
    BY DEF Grows
  <2>1. Len(st[u]) <= Len(st2[u]) /\ Len(st2[u]) <= Len(st3[u])
    BY <1>1 DEF Grows
  <2>2. \A p \in 1..Len(st[u]) : p \in 1..Len(st2[u])
    BY <1>1, <2>1
  <2>3. Len(st[u]) \in Nat /\ Len(st2[u]) \in Nat /\ Len(st3[u]) \in Nat
    BY <1>1
  <2> QED BY <1>1, <2>1, <2>2, <2>3 DEF Grows, OnlyWaits
<1> QED BY <1>1, <1>2, <1>3 DEF Adds, st3

LEMMA SyncFacts ==
  ASSUME NEW st, Ordered(st), NEW side \in {"d2h", "h2d"}
  PROVE  /\ Ordered(SyncBothWays(st, side)) /\ OnlyWaits(st, SyncBothWays(st, side))
         /\ \A n \in 1..Len(st["compute"]) :
              WaitBefore(SyncBothWays(st, side), side, Len(SyncBothWays(st, side)[side]) + 1, "compute", n)
         /\ \A n \in 1..Len(st[side]) :
              WaitBefore(SyncBothWays(st, side), "compute",
                         Len(SyncBothWays(st, side)["compute"]) + 1, side, n)
<1> DEFINE st1 == WaitStream(st, side, "compute")
           st2 == WaitStream(st1, "compute", side)
<1>1. side \in Streams /\ "compute" \in Streams /\ side # "compute"
  BY DEF Streams
<1>2. SyncBothWays(st, side) = st2
  BY DEF SyncBothWays
<1>3. /\ Ordered(st1) /\ OnlyWaits(st, st1) /\ Grows(st, st1)
      /\ Len(st1[side]) = Len(st[side]) + 1
      /\ \A n \in 1..Len(st["compute"]) : WaitBefore(st1, side, Len(st1[side]) + 1, "compute", n)
  BY <1>1, OrderedWait, WaitAdds
<1> HIDE DEF st1
<1>4. /\ Ordered(st2) /\ OnlyWaits(st1, st2) /\ Grows(st1, st2)
      /\ st2[side] = st1[side]
      /\ \A n \in 1..Len(st1[side]) : WaitBefore(st2, "compute", Len(st2["compute"]) + 1, side, n)
  BY <1>1, <1>3, OrderedWait, WaitAdds
<1> HIDE DEF st2
<1>5. \A u \in Streams : Len(st[u]) \in Nat /\ Len(st1[u]) \in Nat /\ Len(st2[u]) \in Nat
  BY <1>3, <1>4, Lengths DEF Ordered
<1>6. OnlyWaits(st, st2)
  <2>1. ASSUME NEW u \in Streams
        PROVE  /\ Len(st[u]) <= Len(st2[u]) /\ \A p \in 1..Len(st[u]) : st2[u][p] = st[u][p]
               /\ \A p \in 1..Len(st2[u]) : p > Len(st[u]) => st2[u][p].kind = "wait"
    <3>1. Len(st[u]) <= Len(st1[u]) /\ Len(st1[u]) <= Len(st2[u])
      BY <1>3, <1>4 DEF Grows
    <3>2. \A p \in 1..Len(st[u]) : p \in 1..Len(st1[u])
      BY <1>5, <3>1
    <3>3. \A p \in 1..Len(st[u]) : st2[u][p] = st[u][p]
      BY <1>3, <1>4, <3>2 DEF Grows
    <3>4. ASSUME NEW p \in 1..Len(st2[u]), p > Len(st[u]) PROVE st2[u][p].kind = "wait"
      <4>1. CASE p > Len(st1[u])
        BY <1>4, <4>1 DEF OnlyWaits
      <4>2. CASE p \in 1..Len(st1[u])
        BY <1>3, <1>4, <3>4, <4>2 DEF OnlyWaits, Grows
      <4> QED BY <1>5, <4>1, <4>2
    <3> QED BY <1>5, <3>1, <3>3, <3>4
  <2> QED BY <2>1 DEF OnlyWaits, Grows
<1>7. \A n \in 1..Len(st["compute"]) : WaitBefore(st2, side, Len(st2[side]) + 1, "compute", n)
  BY <1>3, <1>4 DEF WaitBefore
<1>8. \A n \in 1..Len(st[side]) : n \in 1..Len(st1[side])
  BY <1>1, <1>3, <1>5
<1> QED BY <1>2, <1>4, <1>6, <1>7, <1>8

-----------------------------------------------------------------------------
(* What the handler knows of the streams *)

Covered(st, v) == WaitBefore(st, "compute", Len(st["compute"]) + 1, "d2h", v)
LastForward(st, w, b) == FromForward(st, Len(st["compute"]) + 1, w, b)
LastReload(st, w, b) ==
  \E q \in 1..Len(st["h2d"]) :
    /\ Does(st["h2d"][q], "reload", w, b)
    /\ \A q2 \in (q + 1)..Len(st["h2d"]) : ~Writes(st["h2d"][q2], "reload", b)
Fetched(st, w, b) == FromReload(st, Len(st["compute"]) + 1, w, b)

\* Computation writes to blocks of its own stream only, and so do reloads.
OwnerInv ==
  /\ \A p \in 1..Len(stream["compute"]) :
       stream["compute"][p].kind = "forward" => block[stream["compute"][p].block].owner = "compute"
  /\ \A p \in 1..Len(stream["h2d"]) :
       stream["h2d"][p].kind = "reload" => block[stream["h2d"][p].block].owner = "h2d"

\* The computation already waits for the copies to the CPU of all blocks that
\* may be reused, and of all groups that may be fetched.
CoveredInv ==
  /\ \A v \in 1..Len(stream["d2h"]) : stream["d2h"][v].kind = "offload" =>
       (\E g \in DOMAIN buf : buf[g] = stream["d2h"][v].block) \/ Covered(stream, v)
  /\ \A g \in saved : \E v \in 1..Len(stream["d2h"]) :
       /\ stream["d2h"][v].kind = "offload" /\ stream["d2h"][v].what = <<micro, g>>
       /\ g \in DOMAIN buf \/ Covered(stream, v)

\* The block of a group was last written with the activations of this group in
\* this micro-batch.
SourceInv ==
  /\ \A g \in DOMAIN state : state[g] # Copied =>
       \/ LastForward(stream, <<micro, g>>, state[g])
       \/ pass = "backward" /\ LastReload(stream, <<micro, g>>, state[g])
  /\ pass = "backward" /\ at = "layer" =>
       \/ LastForward(stream, <<micro, layer>>, state[layer])
       \/ Fetched(stream, <<micro, layer>>, state[layer])

StreamInv == Ordered(stream) /\ OwnerInv /\ CoveredInv /\ SourceInv

LEMMA CoveredGrows ==
  ASSUME NEW st \in Streamed, NEW st2 \in Streamed, Grows(st, st2), NEW v, Covered(st, v)
  PROVE  Covered(st2, v)
<1>1. /\ Len(st["compute"]) \in Nat /\ Len(st2["compute"]) \in Nat
      /\ Len(st["compute"]) <= Len(st2["compute"])
      /\ \A x \in 1..Len(st["compute"]) : st2["compute"][x] = st["compute"][x]
  BY Lengths DEF Grows
<1>2. PICK x \in 1..(Len(st["compute"]) + 1 - 1) : Waits(st["compute"][x], "d2h", v)
  BY DEF Covered, WaitBefore
<1>3. x \in 1..(Len(st2["compute"]) + 1 - 1) /\ x \in 1..Len(st["compute"])
  BY <1>1
<1> QED BY <1>1, <1>2, <1>3 DEF Covered, WaitBefore

LEMMA LastForwardGrows ==
  ASSUME NEW st \in Streamed, NEW st2 \in Streamed, Grows(st, st2), NEW w, NEW b, LastForward(st, w, b),
         \A p \in 1..Len(st2["compute"]) : p > Len(st["compute"]) => ~Writes(st2["compute"][p], "forward", b)
  PROVE  LastForward(st2, w, b)
<1>1. /\ Len(st["compute"]) \in Nat /\ Len(st2["compute"]) \in Nat
      /\ Len(st["compute"]) <= Len(st2["compute"])
      /\ \A x \in 1..Len(st["compute"]) : st2["compute"][x] = st["compute"][x]
  BY Lengths DEF Grows
<1>2. PICK f \in 1..(Len(st["compute"]) + 1 - 1) :
        /\ Does(st["compute"][f], "forward", w, b)
        /\ \A f2 \in (f + 1)..(Len(st["compute"]) + 1 - 1) : ~Writes(st["compute"][f2], "forward", b)
  BY DEF LastForward, FromForward
<1>3. f \in 1..Len(st["compute"]) /\ f \in 1..(Len(st2["compute"]) + 1 - 1)
  BY <1>1
<1>4. ASSUME NEW f2 \in (f + 1)..(Len(st2["compute"]) + 1 - 1)
      PROVE  ~Writes(st2["compute"][f2], "forward", b)
  <2>1. CASE f2 > Len(st["compute"])
    <3>1. f2 \in 1..Len(st2["compute"])
      BY <1>1, <1>3
    <3> QED BY <2>1, <3>1
  <2>2. CASE f2 <= Len(st["compute"])
    <3>1. f2 \in 1..Len(st["compute"]) /\ f2 \in (f + 1)..(Len(st["compute"]) + 1 - 1)
      BY <1>1, <1>3, <2>2
    <3> QED BY <1>1, <1>2, <3>1
  <2> QED BY <1>1, <1>3, <2>1, <2>2
<1> QED BY <1>1, <1>2, <1>3, <1>4 DEF LastForward, FromForward

LEMMA LastReloadGrows ==
  ASSUME NEW st \in Streamed, NEW st2 \in Streamed, Grows(st, st2), NEW w, NEW b, LastReload(st, w, b),
         \A p \in 1..Len(st2["h2d"]) : p > Len(st["h2d"]) => ~Writes(st2["h2d"][p], "reload", b)
  PROVE  LastReload(st2, w, b)
<1>1. /\ Len(st["h2d"]) \in Nat /\ Len(st2["h2d"]) \in Nat /\ Len(st["h2d"]) <= Len(st2["h2d"])
      /\ \A x \in 1..Len(st["h2d"]) : st2["h2d"][x] = st["h2d"][x]
  BY Lengths DEF Grows
<1>2. PICK q \in 1..Len(st["h2d"]) :
        /\ Does(st["h2d"][q], "reload", w, b)
        /\ \A q2 \in (q + 1)..Len(st["h2d"]) : ~Writes(st["h2d"][q2], "reload", b)
  BY DEF LastReload
<1>3. q \in 1..Len(st2["h2d"])
  BY <1>1
<1>4. ASSUME NEW q2 \in (q + 1)..Len(st2["h2d"]) PROVE ~Writes(st2["h2d"][q2], "reload", b)
  <2>1. CASE q2 > Len(st["h2d"])
    <3>1. q2 \in 1..Len(st2["h2d"])
      BY <1>1
    <3> QED BY <2>1, <3>1
  <2>2. CASE q2 <= Len(st["h2d"])
    <3>1. q2 \in 1..Len(st["h2d"]) /\ q2 \in (q + 1)..Len(st["h2d"])
      BY <1>1, <2>2
    <3> QED BY <1>1, <1>2, <3>1
  <2> QED BY <1>1, <2>1, <2>2
<1> QED BY <1>1, <1>2, <1>3, <1>4 DEF LastReload

\* What was read back last and is waited for can be read.
LEMMA FetchedFacts ==
  ASSUME NEW st \in Streamed, NEW st2 \in Streamed, Grows(st, st2), NEW w, NEW b, LastReload(st, w, b),
         \A p \in 1..Len(st2["h2d"]) : p > Len(st["h2d"]) => ~Writes(st2["h2d"][p], "reload", b),
         \A n \in 1..Len(st["h2d"]) : WaitBefore(st2, "compute", Len(st2["compute"]) + 1, "h2d", n)
  PROVE  Fetched(st2, w, b)
<1>1. /\ Len(st["h2d"]) \in Nat /\ Len(st2["h2d"]) \in Nat /\ Len(st["h2d"]) <= Len(st2["h2d"])
      /\ \A x \in 1..Len(st["h2d"]) : st2["h2d"][x] = st["h2d"][x]
  BY Lengths DEF Grows
<1>2. PICK q \in 1..Len(st["h2d"]) :
        /\ Does(st["h2d"][q], "reload", w, b)
        /\ \A q2 \in (q + 1)..Len(st["h2d"]) : ~Writes(st["h2d"][q2], "reload", b)
  BY DEF LastReload
<1>3. q \in 1..Len(st2["h2d"])
  BY <1>1
<1>4. ASSUME NEW q2 \in (q + 1)..Len(st2["h2d"]) PROVE ~Writes(st2["h2d"][q2], "reload", b)
  <2>1. CASE q2 > Len(st["h2d"])
    <3>1. q2 \in 1..Len(st2["h2d"])
      BY <1>1
    <3> QED BY <2>1, <3>1
  <2>2. CASE q2 <= Len(st["h2d"])
    <3>1. q2 \in 1..Len(st["h2d"]) /\ q2 \in (q + 1)..Len(st["h2d"])
      BY <1>1, <2>2
    <3> QED BY <1>1, <1>2, <3>1
  <2> QED BY <1>1, <2>1, <2>2
<1> QED BY <1>1, <1>2, <1>3, <1>4 DEF Fetched, FromReload

-----------------------------------------------------------------------------
(* Each call of the host keeps the streams in order *)

LEMMA GpuKept ==
  ASSUME GpuOK, Ordered(stream'), Grows(stream, stream'), done' = done, cpu' = cpu,
         block' \in Seq(Blocks), 1..Len(block) \subseteq 1..Len(block'), free' \subseteq 1..Len(block'),
         \A s \in Streams : \A p \in 1..Len(stream'[s]) : p > Len(stream[s]) =>
           stream'[s][p].kind = "wait" \/ stream'[s][p].block \in 1..Len(block')
  PROVE  GpuOK'
<1>1. stream \in Streamed /\ stream' \in Streamed
  BY DEF GpuOK, Ordered
<1>2. \A s \in Streams : Len(stream[s]) \in Nat /\ Len(stream'[s]) \in Nat /\ Len(stream[s]) <= Len(stream'[s])
  BY <1>1, Lengths DEF Grows
<1>3. \A s \in Streams : done'[s] <= Len(stream'[s]) /\ done' \in [Streams -> Nat]
  BY <1>2 DEF GpuOK
<1>4. ASSUME NEW s \in Streams, NEW p \in 1..Len(stream'[s]), stream'[s][p].kind # "wait"
      PROVE  stream'[s][p].block \in 1..Len(block')
  <2>1. CASE p > Len(stream[s])
    BY <1>4, <2>1
  <2>2. CASE p \in 1..Len(stream[s])
    <3>1. stream'[s][p] = stream[s][p]
      BY <2>2 DEF Grows
    <3> QED BY <1>4, <2>2, <3>1 DEF GpuOK
  <2> QED BY <1>2, <2>1, <2>2
<1> QED BY <1>1, <1>3, <1>4 DEF GpuOK

LEMMA OwnerKept ==
  ASSUME GpuOK, OwnerInv, stream' \in Streamed, Grows(stream, stream'),
         \A b \in 1..Len(block) : block'[b].owner = block[b].owner,
         \A p \in 1..Len(stream'["compute"]) :
           p > Len(stream["compute"]) /\ stream'["compute"][p].kind = "forward"
             => block'[stream'["compute"][p].block].owner = "compute",
         \A p \in 1..Len(stream'["h2d"]) :
           p > Len(stream["h2d"]) /\ stream'["h2d"][p].kind = "reload"
             => block'[stream'["h2d"][p].block].owner = "h2d"
  PROVE  OwnerInv'
<1>1. \A s \in Streams : Len(stream[s]) \in Nat /\ Len(stream'[s]) \in Nat
  BY Lengths DEF GpuOK
<1>2. ASSUME NEW p \in 1..Len(stream'["compute"]), stream'["compute"][p].kind = "forward"
      PROVE  block'[stream'["compute"][p].block].owner = "compute"
  <2>1. CASE p > Len(stream["compute"])
    BY <1>2, <2>1
  <2>2. CASE p \in 1..Len(stream["compute"])
    <3>1. stream'["compute"][p] = stream["compute"][p] /\ "compute" \in Streams
      BY <2>2 DEF Grows, Streams
    <3> QED BY <1>2, <2>2, <3>1, SMTT(30) DEF GpuOK, OwnerInv
  <2> QED BY <1>1, <2>1, <2>2 DEF Streams
<1>3. ASSUME NEW p \in 1..Len(stream'["h2d"]), stream'["h2d"][p].kind = "reload"
      PROVE  block'[stream'["h2d"][p].block].owner = "h2d"
  <2>1. CASE p > Len(stream["h2d"])
    BY <1>3, <2>1
  <2>2. CASE p \in 1..Len(stream["h2d"])
    <3>1. stream'["h2d"][p] = stream["h2d"][p] /\ "h2d" \in Streams
      BY <2>2 DEF Grows, Streams
    <3> QED BY <1>3, <2>2, <3>1, SMTT(30) DEF GpuOK, OwnerInv
  <2> QED BY <1>1, <2>1, <2>2 DEF Streams
<1> QED BY <1>2, <1>3 DEF OwnerInv

\* Work that is no copy to the CPU, while buffer and mapping lose nothing.
LEMMA CoveredKept ==
  ASSUME GpuOK, CoveredInv, stream' \in Streamed, Grows(stream, stream'),
         \A v \in 1..Len(stream'["d2h"]) : v > Len(stream["d2h"]) => stream'["d2h"][v].kind = "wait",
         \A g \in DOMAIN buf : g \in DOMAIN buf' /\ buf'[g] = buf[g],
         saved' \subseteq saved, micro' = micro \/ saved' = {}
  PROVE  CoveredInv'
<1>1. /\ stream \in Streamed /\ Len(stream["d2h"]) \in Nat /\ Len(stream'["d2h"]) \in Nat
      /\ Len(stream["d2h"]) <= Len(stream'["d2h"])
      /\ \A v \in 1..Len(stream["d2h"]) : stream'["d2h"][v] = stream["d2h"][v]
  BY Lengths DEF GpuOK, Grows
<1>2. \A v \in 1..Len(stream["d2h"]) : Covered(stream, v) => Covered(stream', v)
  BY <1>1, CoveredGrows
<1>3. ASSUME NEW v \in 1..Len(stream'["d2h"]), stream'["d2h"][v].kind = "offload"
      PROVE  (\E g \in DOMAIN buf' : buf'[g] = stream'["d2h"][v].block) \/ Covered(stream', v)
  <2>1. v \in 1..Len(stream["d2h"])
    BY <1>1, <1>3
  <2> QED BY <1>1, <1>2, <1>3, <2>1 DEF CoveredInv
<1>4. ASSUME NEW g \in saved'
      PROVE  \E v \in 1..Len(stream'["d2h"]) :
               /\ stream'["d2h"][v].kind = "offload" /\ stream'["d2h"][v].what = <<micro', g>>
               /\ g \in DOMAIN buf' \/ Covered(stream', v)
  <2>1. g \in saved /\ micro' = micro
    BY <1>4
  <2>2. PICK v \in 1..Len(stream["d2h"]) :
          /\ stream["d2h"][v].kind = "offload" /\ stream["d2h"][v].what = <<micro, g>>
          /\ g \in DOMAIN buf \/ Covered(stream, v)
    BY <2>1 DEF CoveredInv
  <2>3. v \in 1..Len(stream'["d2h"])
    BY <1>1
  <2> QED BY <1>1, <1>2, <2>1, <2>2, <2>3
<1> QED BY <1>3, <1>4 DEF CoveredInv

LEMMA Workings ==
  ASSUME GpuOK, NEW g \in Groups, NEW b \in Nat, micro \in 1..MicroBatches,
         NEW kind \in {"forward", "backward", "offload", "reload"}
  PROVE  /\ Work(kind, g, b) \in Ops /\ Work(kind, g, b).kind = kind
         /\ Work(kind, g, b).what = <<micro, g>> /\ Work(kind, g, b).block = b
BY WhatsTyped DEF Work, Ops, Works

LEMMA StreamForwardLayer ==
  ASSUME GpuOK, HostInv, HeldInv, StreamInv, ForwardLayer
  PROVE  GpuOK' /\ StreamInv' /\ Grows(stream, stream')
<1>1. PICK b \in Allocatable("compute") :
        /\ block' = Allocated(b, "compute") /\ free' = free \ {b}
        /\ stream' = Issue(stream, "compute", Work("forward", current_group, b))
        /\ state' = With(state, current_group, b)
        /\ buf' = IF current_group < NumOffloadGroup THEN With(buf, current_group, b) ELSE buf
  BY DEF ForwardLayer
<1>2. /\ pass = "forward" /\ at = "layer" /\ pass' = "forward" /\ current_group = layer /\ layer \in Groups
      /\ UNCHANGED <<micro, saved, done, cpu>> /\ micro \in 1..MicroBatches
      /\ DOMAIN state = 0..(layer - 1) /\ DOMAIN buf = {layer - 1} \cap Groups /\ CopiedUpTo(layer)
  BY DEF ForwardLayer, HostInv
<1>3. /\ b \in Nat /\ b # Copied /\ 1..Len(block') = (1..Len(block)) \cup {b}
      /\ b \in free \/ b \notin 1..Len(block)
      /\ block' \in Seq(Blocks) /\ (\A x \in 1..Len(block) : block'[x] = block[x])
      /\ block'[b].owner = "compute"
  BY <1>1, AllocatedFacts DEF GpuOK, Streams
<1> DEFINE op == Work("forward", layer, b)
<1>4. op \in Ops /\ op.kind = "forward" /\ op.what = <<micro, layer>> /\ op.block = b
  BY <1>2, <1>3, Workings
<1>5. stream' = Issue(stream, "compute", op) /\ stream \in Streamed /\ Ordered(stream)
  BY <1>1, <1>2 DEF StreamInv, Ordered
<1> HIDE DEF op
<1>6. Adds(stream, stream', "compute", op)
  <2>1. OnlyWaits(stream, stream)
    BY <1>5, Lengths DEF OnlyWaits, Grows
  <2> QED BY <1>4, <1>5, <2>1, IssueAdds, Lengths
<1>7. Ordered(stream')
  <2>1. \A v \in 1..Len(stream["d2h"]) : Writes(stream["d2h"][v], "offload", b) => Covered(stream, v)
    BY <1>3 DEF StreamInv, CoveredInv, Writes, HeldInv
  <2> QED BY <1>4, <1>5, <2>1, OrderedIssue, Lengths DEF Covered
<1>8. stream' \in Streamed /\ Grows(stream, stream')
  BY <1>6, <1>7 DEF Ordered, Adds
<1>9. GpuOK'
  <2>1. \A s \in Streams : \A p \in 1..Len(stream'[s]) : p > Len(stream[s]) =>
          stream'[s][p].kind = "wait" \/ stream'[s][p].block \in 1..Len(block')
    BY <1>3, <1>4, <1>6 DEF Adds
  <2>2. free' \subseteq 1..Len(block') /\ 1..Len(block) \subseteq 1..Len(block')
    BY <1>1, <1>3 DEF GpuOK
  <2> QED BY <1>2, <1>3, <1>7, <1>8, <2>1, <2>2, GpuKept
<1>10. OwnerInv'
  <2>1. \A s \in Streams : \A p \in 1..Len(stream'[s]) : p > Len(stream[s]) =>
          stream'[s][p].kind = "wait" \/ (s = "compute" /\ stream'[s][p] = op)
    BY <1>6 DEF Adds
  <2> QED BY <1>3, <1>4, <1>8, <2>1, OwnerKept DEF StreamInv, Streams
<1>11. CoveredInv'
  <2>1. \A v \in 1..Len(stream'["d2h"]) : v > Len(stream["d2h"]) => stream'["d2h"][v].kind = "wait"
    BY <1>6 DEF Adds, Streams
  <2>2. \A g \in DOMAIN buf : g # layer
    BY <1>2, OffloadConfig
  <2>3. \A g \in DOMAIN buf : g \in DOMAIN buf' /\ buf'[g] = buf[g]
    <3>1. buf' = With(buf, layer, b) \/ buf' = buf
      BY <1>1, <1>2
    <3>2. /\ DOMAIN With(buf, layer, b) = DOMAIN buf \cup {layer}
          /\ \A h \in DOMAIN buf : h # layer => With(buf, layer, b)[h] = buf[h]
      BY DEF With
    <3> QED BY <2>2, <3>1, <3>2
  <2> QED BY <1>2, <1>8, <2>1, <2>3, CoveredKept DEF StreamInv
<1>12. SourceInv'
  <2>1. /\ DOMAIN state' = DOMAIN state \cup {layer} /\ state'[layer] = b
        /\ \A g \in DOMAIN state : g # layer /\ state'[g] = Copied
    <3>1. state' = With(state, layer, b)
      BY <1>1, <1>2
    <3>2. /\ DOMAIN With(state, layer, b) = DOMAIN state \cup {layer}
          /\ With(state, layer, b)[layer] = b
          /\ \A h \in DOMAIN state : h # layer => With(state, layer, b)[h] = state[h]
      BY DEF With
    <3>3. \A g \in DOMAIN state : g # layer /\ state[g] = Copied
      BY <1>2, OffloadConfig DEF CopiedUpTo
    <3> QED BY <3>1, <3>2, <3>3
  <2>2. LastForward(stream', <<micro, layer>>, b)
    <3>1. /\ Len(stream'["compute"]) \in 1..(Len(stream'["compute"]) + 1 - 1)
          /\ stream'["compute"][Len(stream'["compute"])] = op
      <4>1. Len(stream'["compute"]) \in Nat /\ Len(stream["compute"]) \in Nat
        BY <1>5, <1>8, Lengths
      <4> QED BY <1>6, <4>1 DEF Adds
    <3>2. \A f2 \in (Len(stream'["compute"]) + 1)..(Len(stream'["compute"]) + 1 - 1) :
            ~Writes(stream'["compute"][f2], "forward", b)
      BY <3>1
    <3> QED BY <1>4, <3>1, <3>2 DEF LastForward, FromForward, Does
  <2> QED BY <1>2, <2>1, <2>2 DEF SourceInv
<1> QED BY <1>7, <1>8, <1>9, <1>10, <1>11, <1>12 DEF StreamInv

\* Waits alone leave what was written last as it was.
LEMMA LastKept ==
  ASSUME NEW st \in Streamed, NEW st2 \in Streamed, OnlyWaits(st, st2)
  PROVE  /\ \A w, b : LastForward(st, w, b) => LastForward(st2, w, b)
         /\ \A w, b : LastReload(st, w, b) => LastReload(st2, w, b)
<1>1. Grows(st, st2) /\ "compute" \in Streams /\ "h2d" \in Streams
  BY DEF OnlyWaits, Streams
<1>2. ASSUME NEW w, NEW b, LastForward(st, w, b) PROVE LastForward(st2, w, b)
  <2>1. \A p \in 1..Len(st2["compute"]) : p > Len(st["compute"]) => ~Writes(st2["compute"][p], "forward", b)
    BY <1>1 DEF OnlyWaits, Writes
  <2> QED BY <1>1, <1>2, <2>1, LastForwardGrows
<1>3. ASSUME NEW w, NEW b, LastReload(st, w, b) PROVE LastReload(st2, w, b)
  <2>1. \A p \in 1..Len(st2["h2d"]) : p > Len(st["h2d"]) => ~Writes(st2["h2d"][p], "reload", b)
    BY <1>1 DEF OnlyWaits, Writes
  <2> QED BY <1>1, <1>3, <2>1, LastReloadGrows
<1> QED BY <1>2, <1>3

\* The copy of a block written last by its group, once the copying stream waits.
LEMMA OrderedOffload ==
  ASSUME NEW st, Ordered(st), NEW op \in Ops, op.kind = "offload", LastForward(st, op.what, op.block),
         \A n \in 1..Len(st["compute"]) : st["compute"][n].kind = "forward" =>
           WaitBefore(st, "d2h", Len(st["d2h"]) + 1, "compute", n)
  PROVE  Ordered(Issue(st, "d2h", op))
<1>1. PICK f \in 1..(Len(st["compute"]) + 1 - 1) :
        /\ Does(st["compute"][f], "forward", op.what, op.block)
        /\ \A f2 \in (f + 1)..(Len(st["compute"]) + 1 - 1) : ~Writes(st["compute"][f2], "forward", op.block)
  BY DEF LastForward, FromForward
<1>2. Len(st["compute"]) \in Nat /\ "d2h" \in Streams
  BY Lengths DEF Ordered
<1>3. /\ f \in 1..Len(st["compute"])
      /\ WaitBefore(st, "d2h", Len(st["d2h"]) + 1, "compute", f)
      /\ \A f2 \in (f + 1)..Len(st["compute"]) : ~Writes(st["compute"][f2], "forward", op.block)
  BY <1>1, <1>2 DEF Does
<1> QED BY <1>1, <1>2, <1>3, OrderedIssue

LEMMA CoveredOffload ==
  ASSUME GpuOK, CoveredInv, stream' \in Streamed, NEW op, NEW g, Adds(stream, stream', "d2h", op),
         op.kind = "offload", op.what = <<micro, g>>, g \in DOMAIN buf', buf'[g] = op.block,
         saved' = saved \cup {g}, micro' = micro,
         buf' = buf \/ \A v \in 1..Len(stream["d2h"]) : Covered(stream', v)
  PROVE  CoveredInv'
<1>1. /\ stream \in Streamed /\ Len(stream["d2h"]) \in Nat /\ Len(stream'["d2h"]) \in Nat
      /\ Len(stream["d2h"]) <= Len(stream'["d2h"]) /\ Grows(stream, stream')
      /\ \A v \in 1..Len(stream["d2h"]) : stream'["d2h"][v] = stream["d2h"][v]
  BY Lengths DEF GpuOK, Adds, Grows
<1>2. \A v \in 1..Len(stream["d2h"]) : Covered(stream, v) => Covered(stream', v)
  BY <1>1, CoveredGrows
<1>3. ASSUME NEW v \in 1..Len(stream'["d2h"]), stream'["d2h"][v].kind = "offload"
      PROVE  (\E h \in DOMAIN buf' : buf'[h] = stream'["d2h"][v].block) \/ Covered(stream', v)
  <2>1. CASE v \in 1..Len(stream["d2h"])
    BY <1>1, <1>2, <1>3, <2>1 DEF CoveredInv
  <2>2. CASE v > Len(stream["d2h"])
    <3>1. stream'["d2h"][v] = op
      BY <1>3, <2>2 DEF Adds, Streams
    <3> QED BY <3>1
  <2> QED BY <1>1, <2>1, <2>2
<1>4. ASSUME NEW h \in saved'
      PROVE  \E v \in 1..Len(stream'["d2h"]) :
               /\ stream'["d2h"][v].kind = "offload" /\ stream'["d2h"][v].what = <<micro', h>>
               /\ h \in DOMAIN buf' \/ Covered(stream', v)
  <2>1. CASE h = g
    <3>1. Len(stream'["d2h"]) \in 1..Len(stream'["d2h"]) /\ stream'["d2h"][Len(stream'["d2h"])] = op
      BY <1>1 DEF Adds
    <3> QED BY <2>1, <3>1
  <2>2. CASE h \in saved
    <3>1. PICK v \in 1..Len(stream["d2h"]) :
            /\ stream["d2h"][v].kind = "offload" /\ stream["d2h"][v].what = <<micro, h>>
            /\ h \in DOMAIN buf \/ Covered(stream, v)
      BY <2>2 DEF CoveredInv
    <3>2. v \in 1..Len(stream'["d2h"])
      BY <1>1
    <3> QED BY <1>1, <1>2, <3>1, <3>2
  <2> QED BY <2>1, <2>2
<1> QED BY <1>3, <1>4 DEF CoveredInv

LEMMA StreamCommitFirst ==
  ASSUME GpuOK, HostInv, HeldInv, StreamInv, CommitFirst
  PROVE  GpuOK' /\ StreamInv' /\ Grows(stream, stream')
<1> DEFINE st1 == WaitStream(stream, "d2h", "compute")
           op == Work("offload", 0, state[0])
<1>1. /\ pass = "forward" /\ at = "commit" /\ current_group = 0
      /\ stream' = Issue(st1, "d2h", op)
      /\ state' = [state EXCEPT ![0] = Copied] /\ saved' = saved \cup {0}
      /\ UNCHANGED <<micro, buf, free, done, block, cpu>>
  BY DEF CommitFirst, Offload, NextForward
<1>2. /\ layer = 0 /\ DOMAIN state = {0} /\ DOMAIN buf = {0} /\ buf[0] = state[0] /\ micro \in 1..MicroBatches
      /\ state[0] # Copied
  BY <1>1, OffloadConfig DEF HostInv, LastGroup
<1>3. pass' = "forward"
  BY <1>1, <1>2, OffloadConfig DEF CommitFirst, NextForward
<1>4. /\ state[0] \in 1..Len(block) /\ state[0] \in Nat /\ LastForward(stream, <<micro, 0>>, state[0])
  BY <1>1, <1>2 DEF HeldInv, StreamInv, SourceInv
<1>5. op \in Ops /\ op.kind = "offload" /\ op.what = <<micro, 0>> /\ op.block = state[0]
  <2>1. 0 \in Groups /\ state[0] \in Nat /\ micro \in 1..MicroBatches
    BY <1>2, <1>4, OffloadConfig
  <2> QED BY <2>1, Workings
<1>6. /\ Ordered(st1) /\ OnlyWaits(stream, st1) /\ stream \in Streamed /\ st1 \in Streamed
      /\ \A n \in 1..Len(st1["compute"]) : WaitBefore(st1, "d2h", Len(st1["d2h"]) + 1, "compute", n)
  BY OrderedWait, WaitAdds DEF StreamInv, Ordered, Streams
<1> HIDE DEF st1, op
<1>7. Adds(stream, stream', "d2h", op)
  BY <1>1, <1>5, <1>6, IssueAdds DEF Streams
<1>8. Ordered(stream')
  <2>1. LastForward(st1, op.what, op.block)
    BY <1>4, <1>5, <1>6, LastKept
  <2> QED BY <1>1, <1>5, <1>6, <2>1, OrderedOffload
<1>9. stream' \in Streamed /\ Grows(stream, stream')
  BY <1>7, <1>8 DEF Ordered, Adds
<1>10. \A s \in Streams : \A p \in 1..Len(stream'[s]) : p > Len(stream[s]) =>
          stream'[s][p].kind = "wait" \/ (s = "d2h" /\ stream'[s][p] = op)
  BY <1>7 DEF Adds
<1>11. GpuOK'
  <2>1. \A s \in Streams : \A p \in 1..Len(stream'[s]) : p > Len(stream[s]) =>
          stream'[s][p].kind = "wait" \/ stream'[s][p].block \in 1..Len(block')
    BY <1>1, <1>4, <1>5, <1>10
  <2>2. free' \subseteq 1..Len(block') /\ 1..Len(block) \subseteq 1..Len(block') /\ block' \in Seq(Blocks)
    BY <1>1 DEF GpuOK
  <2> QED BY <1>1, <1>8, <1>9, <2>1, <2>2, GpuKept
<1>12. OwnerInv'
  BY <1>1, <1>5, <1>9, <1>10, OwnerKept DEF StreamInv, Streams
<1>13. CoveredInv'
  BY <1>1, <1>2, <1>5, <1>7, <1>9, CoveredOffload DEF StreamInv
<1>14. SourceInv'
  BY <1>1, <1>2, <1>3 DEF SourceInv
<1> QED BY <1>8, <1>9, <1>11, <1>12, <1>13, <1>14 DEF StreamInv

LEMMA StreamCommitForward ==
  ASSUME GpuOK, HostInv, HeldInv, StreamInv, CommitForward
  PROVE  GpuOK' /\ StreamInv' /\ Grows(stream, stream')
<1> DEFINE st2 == SyncBothWays(stream, "d2h")
           op == Work("offload", layer, state[layer])
<1>1. /\ pass = "forward" /\ at = "commit" /\ current_group > 0 /\ UNCHANGED <<micro, block, done, cpu>>
  BY DEF CommitForward, NextForward
<1>2. /\ layer = current_group /\ layer \in 1..LastGroup /\ LastGroup \in Nat /\ LastGroup > 1
      /\ offloaded_group_count = layer - 1 /\ DOMAIN state = 0..layer
      /\ DOMAIN buf = {layer - 1, layer} \cap (0..(LastGroup - 1)) /\ micro \in 1..MicroBatches
      /\ state[layer] # Copied /\ (layer < LastGroup => buf[layer] = state[layer]) /\ CopiedUpTo(layer)
      /\ layer \in Groups /\ layer \in DOMAIN state
  BY <1>1, OffloadConfig DEF HostInv, LastGroup, ForwardCount
<1>3. DroppedAfterCopy(layer - 1) = {layer - 1} /\ layer - 1 \in DOMAIN buf
  BY <1>2 DEF DroppedAfterCopy
<1>4. /\ buf' = [g \in DOMAIN buf \ {layer - 1} |-> buf[g]]
      /\ free' = free \cup {buf[layer - 1]}
  BY <1>2, <1>3 DEF CommitForward
<1>5. /\ state[layer] \in 1..Len(block) /\ state[layer] \in Nat
      /\ LastForward(stream, <<micro, layer>>, state[layer])
      /\ free' \subseteq 1..Len(block')
  <2>1. buf[layer - 1] \in 1..Len(block)
    BY <1>3 DEF HeldInv
  <2>2. state[layer] \in 1..Len(block) /\ state[layer] \in Nat
    BY <1>2 DEF HeldInv
  <2>3. LastForward(stream, <<micro, layer>>, state[layer])
    BY <1>1, <1>2 DEF StreamInv, SourceInv
  <2> QED BY <1>1, <1>4, <2>1, <2>2, <2>3 DEF GpuOK
<1>6. op \in Ops /\ op.kind = "offload" /\ op.what = <<micro, layer>> /\ op.block = state[layer]
  BY <1>2, <1>5, Workings
<1>7. /\ Ordered(st2) /\ OnlyWaits(stream, st2) /\ stream \in Streamed /\ st2 \in Streamed
      /\ \A n \in 1..Len(stream["compute"]) : WaitBefore(st2, "d2h", Len(st2["d2h"]) + 1, "compute", n)
      /\ \A n \in 1..Len(stream["d2h"]) : Covered(st2, n)
  BY SyncFacts DEF StreamInv, Ordered, Covered
<1>8. LastForward(st2, op.what, op.block) /\ LastForward(st2, <<micro, layer>>, state[layer])
  BY <1>5, <1>6, <1>7, LastKept
<1>9. \A g \in DOMAIN state : g = layer \/ state[g] = Copied
  BY <1>2 DEF CopiedUpTo
<1>10. CASE layer < LastGroup
  <2>1. /\ state' = [state EXCEPT ![layer] = Copied] /\ saved' = saved \cup {layer}
        /\ pass' = pass /\ stream' = Issue(st2, "d2h", op)
    <3>1. offloaded_group_count < NumOffloadGroup - 1 /\ offloaded_group_count + 1 = layer /\ layer < NumLayers - 1
      BY <1>2, <1>10, OffloadConfig DEF LastGroup
    <3> QED BY <3>1 DEF CommitForward, Offload, NextForward
  <2> HIDE DEF st2, op
  <2>2. Adds(stream, stream', "d2h", op)
    BY <1>6, <1>7, <2>1, IssueAdds DEF Streams
  <2>3. Ordered(stream') /\ Grows(st2, stream')
    <3>1. \A n \in 1..Len(st2["compute"]) : st2["compute"][n].kind = "forward" =>
            WaitBefore(st2, "d2h", Len(st2["d2h"]) + 1, "compute", n)
      <4>1. Len(st2["compute"]) \in Nat /\ Len(stream["compute"]) \in Nat /\ "compute" \in Streams
        BY <1>7, Lengths
      <4> QED BY <1>7, <4>1 DEF OnlyWaits
    <3>2. Ordered(stream')
      BY <1>6, <1>7, <1>8, <2>1, <3>1, OrderedOffload
    <3>3. "d2h" \in Streams
      BY DEF Streams
    <3> QED BY <1>6, <1>7, <2>1, <3>2, <3>3, IssueFacts
  <2>4. stream' \in Streamed /\ Grows(stream, stream')
    BY <2>2, <2>3 DEF Ordered, Adds
  <2>5. \A s \in Streams : \A p \in 1..Len(stream'[s]) : p > Len(stream[s]) =>
          stream'[s][p].kind = "wait" \/ (s = "d2h" /\ stream'[s][p] = op)
    BY <2>2 DEF Adds
  <2>6. GpuOK'
    <3>1. \A s \in Streams : \A p \in 1..Len(stream'[s]) : p > Len(stream[s]) =>
            stream'[s][p].kind = "wait" \/ stream'[s][p].block \in 1..Len(block')
      BY <1>1, <1>5, <1>6, <2>5
    <3>2. 1..Len(block) \subseteq 1..Len(block') /\ block' \in Seq(Blocks)
      BY <1>1 DEF GpuOK
    <3> QED BY <1>1, <1>5, <2>3, <2>4, <3>1, <3>2, GpuKept
  <2>7. OwnerInv'
    BY <1>1, <1>6, <2>4, <2>5, OwnerKept DEF StreamInv, Streams
  <2>8. CoveredInv'
    <3>1. layer \in DOMAIN buf' /\ buf'[layer] = op.block
      BY <1>2, <1>4, <1>6, <1>10
    <3>2. \A v \in 1..Len(stream["d2h"]) : Covered(stream', v)
      BY <1>7, <2>3, <2>4, CoveredGrows
    <3> QED BY <1>1, <1>6, <2>1, <2>2, <2>4, <3>1, <3>2, CoveredOffload DEF StreamInv
  <2>9. SourceInv'
    BY <1>1, <1>2, <1>9, <2>1 DEF SourceInv
  <2> QED BY <2>3, <2>4, <2>6, <2>7, <2>8, <2>9 DEF StreamInv
<1>11. CASE layer = LastGroup
  <2>1. /\ state' = state /\ saved' = saved /\ pass' = "backward" /\ at' = at /\ stream' = st2
    <3>1. ~(offloaded_group_count < NumOffloadGroup - 1) /\ ~(layer < NumLayers - 1)
      BY <1>2, <1>11, OffloadConfig DEF LastGroup
    <3> QED BY <3>1 DEF CommitForward, NextForward
  <2> HIDE DEF st2, op
  <2>2. stream' \in Streamed /\ Grows(stream, stream') /\ Ordered(stream')
    BY <1>7, <2>1 DEF OnlyWaits
  <2>3. \A s \in Streams : \A p \in 1..Len(stream'[s]) : p > Len(stream[s]) => stream'[s][p].kind = "wait"
    BY <1>7, <2>1 DEF OnlyWaits
  <2>4. GpuOK'
    <3>1. 1..Len(block) \subseteq 1..Len(block') /\ block' \in Seq(Blocks)
      BY <1>1 DEF GpuOK
    <3> QED BY <1>1, <1>5, <2>2, <2>3, <3>1, GpuKept
  <2>5. OwnerInv'
    BY <1>1, <2>2, <2>3, OwnerKept DEF StreamInv, Streams
  <2>6. CoveredInv'
    <3>1. \A v \in 1..Len(stream'["d2h"]) : stream'["d2h"][v].kind = "offload" =>
             v \in 1..Len(stream["d2h"])
      <4>1. Len(stream'["d2h"]) \in Nat /\ Len(stream["d2h"]) \in Nat /\ "d2h" \in Streams
        BY <1>7, <2>2, Lengths
      <4> QED BY <2>3, <4>1
    <3>2. \A v \in 1..Len(stream["d2h"]) :
            Covered(stream', v) /\ v \in 1..Len(stream'["d2h"]) /\ stream'["d2h"][v] = stream["d2h"][v]
      <4>1. Len(stream'["d2h"]) \in Nat /\ Len(stream["d2h"]) \in Nat /\ "d2h" \in Streams
        BY <1>7, <2>2, Lengths
      <4> QED BY <1>7, <2>1, <2>2, <4>1 DEF Grows
    <3> QED BY <1>1, <2>1, <3>1, <3>2 DEF StreamInv, CoveredInv
  <2>7. SourceInv'
    BY <1>1, <1>8, <1>9, <2>1 DEF SourceInv
  <2> QED BY <2>2, <2>4, <2>5, <2>6, <2>7 DEF StreamInv
<1> QED BY <1>2, <1>10, <1>11

LEMMA StreamCommitBackward ==
  ASSUME GpuOK, HostInv, HeldInv, StreamInv, CommitBackward
  PROVE  GpuOK' /\ StreamInv' /\ Grows(stream, stream')
<1>1. /\ pass = "backward" /\ at = "commit" /\ current_group > 1 /\ at' = "layer"
      /\ UNCHANGED <<micro, pass, layer, buf, done, cpu>>
  BY DEF CommitBackward
<1>2. /\ layer \in Nat /\ layer > 0 /\ layer - 1 \in Groups /\ current_group = layer + 1
      /\ offloaded_group_count = layer /\ saved = 0..(layer - 1) /\ CopiedUpTo(layer)
      /\ DOMAIN state = 0..layer /\ state[layer] # Copied /\ DOMAIN buf = {} /\ micro \in 1..MicroBatches
  BY <1>1, OffloadConfig DEF HostInv
<1>3. PICK b \in Allocatable("h2d") :
        /\ block' = Allocated(b, "h2d") /\ free' = free \ {b}
        /\ stream' = Issue(SyncBothWays(stream, "h2d"), "h2d", Work("reload", layer - 1, b))
        /\ state' = [state EXCEPT ![layer - 1] = b] /\ saved' = saved \ {layer - 1}
  BY <1>2 DEF CommitBackward, Reload
<1>4. /\ b \in Nat /\ b # Copied /\ 1..Len(block') = (1..Len(block)) \cup {b}
      /\ b \in free \/ b \notin 1..Len(block)
      /\ block' \in Seq(Blocks) /\ (\A x \in 1..Len(block) : block'[x] = block[x])
      /\ block'[b].owner = "h2d"
  BY <1>3, AllocatedFacts DEF GpuOK, Streams
<1> DEFINE st2 == SyncBothWays(stream, "h2d")
           op == Work("reload", layer - 1, b)
<1>5. op \in Ops /\ op.kind = "reload" /\ op.what = <<micro, layer - 1>> /\ op.block = b
  BY <1>2, <1>4, Workings
<1>6. /\ Ordered(st2) /\ OnlyWaits(stream, st2) /\ stream \in Streamed /\ st2 \in Streamed
      /\ \A n \in 1..Len(stream["compute"]) : WaitBefore(st2, "h2d", Len(st2["h2d"]) + 1, "compute", n)
      /\ \A n \in 1..Len(stream["h2d"]) : WaitBefore(st2, "compute", Len(st2["compute"]) + 1, "h2d", n)
  BY SyncFacts DEF StreamInv, Ordered
<1>7. stream' = Issue(st2, "h2d", op)
  BY <1>3
<1> HIDE DEF st2, op
<1>8. /\ \A s \in Streams : Len(stream[s]) \in Nat /\ Len(st2[s]) \in Nat /\ Len(stream[s]) <= Len(st2[s])
      /\ \A s \in Streams : \A p \in 1..Len(stream[s]) : st2[s][p] = stream[s][p]
      /\ "compute" \in Streams /\ "d2h" \in Streams /\ "h2d" \in Streams
  BY <1>6, Lengths DEF OnlyWaits, Grows
<1>9. Adds(stream, stream', "h2d", op)
  BY <1>5, <1>6, <1>7, <1>8, IssueAdds
<1>10. Ordered(stream')
  <2>1. ASSUME NEW p \in 1..Len(st2["compute"]), Writes(st2["compute"][p], "backward", b)
        PROVE  WaitBefore(st2, "h2d", Len(st2["h2d"]) + 1, "compute", p)
    <3>1. p \in 1..Len(stream["compute"])
      BY <1>6, <1>8, <2>1 DEF OnlyWaits, Writes
    <3> QED BY <1>6, <3>1
  <2>2. \E v \in 1..Len(st2["d2h"]), y \in 1..Len(st2["compute"]) :
             /\ st2["d2h"][v].kind = "offload" /\ st2["d2h"][v].what = <<micro, layer - 1>>
             /\ Waits(st2["compute"][y], "d2h", v)
             /\ WaitBefore(st2, "h2d", Len(st2["h2d"]) + 1, "compute", y)
    <3>1. PICK v \in 1..Len(stream["d2h"]) :
            /\ stream["d2h"][v].kind = "offload" /\ stream["d2h"][v].what = <<micro, layer - 1>>
            /\ Covered(stream, v)
      <4>1. layer - 1 \in saved
        BY <1>2
      <4> QED BY <1>2, <4>1 DEF StreamInv, CoveredInv
    <3>2. PICK y \in 1..(Len(stream["compute"]) + 1 - 1) : Waits(stream["compute"][y], "d2h", v)
      BY <3>1 DEF Covered, WaitBefore
    <3>3. y \in 1..Len(stream["compute"]) /\ y \in 1..Len(st2["compute"]) /\ v \in 1..Len(st2["d2h"])
      BY <1>8
    <3> QED BY <1>6, <1>8, <3>1, <3>2, <3>3
  <2> QED BY <1>5, <1>6, <1>7, <1>8, <2>1, <2>2, OrderedIssue
<1>11. /\ stream' \in Streamed /\ Grows(stream, stream')
       /\ stream'["compute"] = st2["compute"]
  BY <1>5, <1>6, <1>7, <1>8, <1>9, <1>10, IssueFacts, SMTT(30) DEF Ordered, Adds
<1>12. \A s \in Streams : \A p \in 1..Len(stream'[s]) : p > Len(stream[s]) =>
          stream'[s][p].kind = "wait" \/ (s = "h2d" /\ stream'[s][p] = op)
  BY <1>9 DEF Adds
<1>13. GpuOK'
  <2>1. \A s \in Streams : \A p \in 1..Len(stream'[s]) : p > Len(stream[s]) =>
          stream'[s][p].kind = "wait" \/ stream'[s][p].block \in 1..Len(block')
    BY <1>4, <1>5, <1>12
  <2>2. free' \subseteq 1..Len(block') /\ 1..Len(block) \subseteq 1..Len(block')
    BY <1>3, <1>4 DEF GpuOK
  <2> QED BY <1>1, <1>4, <1>10, <1>11, <2>1, <2>2, GpuKept
<1>14. OwnerInv'
  BY <1>4, <1>5, <1>11, <1>12, OwnerKept DEF StreamInv, Streams
<1>15. CoveredInv'
  <2>1. \A v \in 1..Len(stream'["d2h"]) : v > Len(stream["d2h"]) => stream'["d2h"][v].kind = "wait"
    BY <1>8, <1>12
  <2>2. saved' \subseteq saved
    BY <1>3
  <2> QED BY <1>1, <1>2, <1>11, <2>1, <2>2, CoveredKept DEF StreamInv
<1>16. SourceInv'
  <2>1. /\ DOMAIN state' = 0..layer /\ state'[layer - 1] = b /\ state'[layer] = state[layer]
        /\ \A g \in 0..layer : g = layer \/ g = layer - 1 \/ state'[g] = Copied
    BY <1>2, <1>3 DEF CopiedUpTo
  <2>2. state[layer] # b
    <3>1. layer \in DOMAIN state
      BY <1>2
    <3>2. state[layer] \in (1..Len(block)) \ free
      BY <1>2, <3>1 DEF HeldInv
    <3> QED BY <1>4, <3>2
  <2>3. LastReload(stream', <<micro, layer - 1>>, b)
    <3>1. /\ Len(stream'["h2d"]) \in 1..Len(stream'["h2d"])
          /\ stream'["h2d"][Len(stream'["h2d"])] = op
      BY <1>8, <1>9 DEF Adds
    <3>2. \A q2 \in (Len(stream'["h2d"]) + 1)..Len(stream'["h2d"]) : ~Writes(stream'["h2d"][q2], "reload", b)
      BY <3>1
    <3> QED BY <1>5, <3>1, <3>2 DEF LastReload, Does
  <2>4. LastForward(stream, <<micro, layer>>, state[layer])
          => LastForward(stream', <<micro, layer>>, state[layer])
    <3>1. \A p \in 1..Len(stream'["compute"]) : p > Len(stream["compute"]) =>
            ~Writes(stream'["compute"][p], "forward", state[layer])
      BY <1>8, <1>12 DEF Writes
    <3> QED BY <1>6, <1>11, <3>1, LastForwardGrows
  <2>5. LastReload(stream, <<micro, layer>>, state[layer])
          => /\ LastReload(stream', <<micro, layer>>, state[layer])
             /\ Fetched(stream', <<micro, layer>>, state[layer])
    <3>1. \A p \in 1..Len(stream'["h2d"]) : p > Len(stream["h2d"]) =>
            ~Writes(stream'["h2d"][p], "reload", state[layer])
      BY <1>5, <1>8, <1>12, <2>2 DEF Writes
    <3>2. \A n \in 1..Len(stream["h2d"]) :
            WaitBefore(stream', "compute", Len(stream'["compute"]) + 1, "h2d", n)
      BY <1>6, <1>11 DEF WaitBefore
    <3> QED BY <1>6, <1>11, <3>1, <3>2, LastReloadGrows, FetchedFacts
  <2>6. \/ LastForward(stream, <<micro, layer>>, state[layer])
        \/ LastReload(stream, <<micro, layer>>, state[layer])
    BY <1>2 DEF StreamInv, SourceInv
  <2>7. ASSUME NEW g \in DOMAIN state', state'[g] # Copied
        PROVE  \/ LastForward(stream', <<micro', g>>, state'[g])
               \/ pass' = "backward" /\ LastReload(stream', <<micro', g>>, state'[g])
    <3>1. CASE g = layer
      BY <1>1, <2>1, <2>4, <2>5, <2>6, <3>1
    <3>2. CASE g = layer - 1
      BY <1>1, <2>1, <2>3, <3>2
    <3> QED BY <2>1, <2>7, <3>1, <3>2
  <2>8. \/ LastForward(stream', <<micro', layer'>>, state'[layer'])
        \/ Fetched(stream', <<micro', layer'>>, state'[layer'])
    BY <1>1, <2>1, <2>4, <2>5, <2>6
  <2> QED BY <2>7, <2>8 DEF SourceInv
<1> QED BY <1>10, <1>11, <1>13, <1>14, <1>15, <1>16 DEF StreamInv

LEMMA StreamCommitLast ==
  ASSUME GpuOK, HostInv, HeldInv, StreamInv, CommitLast
  PROVE  GpuOK' /\ StreamInv' /\ Grows(stream, stream')
<1>1. /\ pass = "backward" /\ at = "commit" /\ current_group = 1 /\ at' = "layer"
      /\ stream' = WaitStream(stream, "compute", "h2d")
      /\ UNCHANGED <<micro, pass, layer, state, buf, saved, done, block, free, cpu>>
  BY DEF CommitLast, handlerVars
<1>2. layer = 0 /\ DOMAIN state = 0..layer /\ state[layer] # Copied
  BY <1>1, OffloadConfig DEF HostInv
<1>3. /\ Ordered(stream') /\ OnlyWaits(stream, stream') /\ stream \in Streamed /\ stream' \in Streamed
      /\ Grows(stream, stream')
      /\ \A n \in 1..Len(stream["h2d"]) : WaitBefore(stream', "compute", Len(stream'["compute"]) + 1, "h2d", n)
  BY <1>1, OrderedWait, WaitAdds DEF StreamInv, Ordered, Streams
<1>4. \A s \in Streams : \A p \in 1..Len(stream'[s]) : p > Len(stream[s]) => stream'[s][p].kind = "wait"
  BY <1>3 DEF OnlyWaits
<1>5. GpuOK'
  <2>1. free' \subseteq 1..Len(block') /\ 1..Len(block) \subseteq 1..Len(block') /\ block' \in Seq(Blocks)
    BY <1>1 DEF GpuOK
  <2> QED BY <1>1, <1>3, <1>4, <2>1, GpuKept
<1>6. OwnerInv'
  BY <1>1, <1>3, <1>4, OwnerKept DEF StreamInv, Streams
<1>7. CoveredInv'
  BY <1>1, <1>3, <1>4, CoveredKept DEF StreamInv, Streams
<1>8. SourceInv'
  <2>1. 0 \in DOMAIN state /\ \A g \in DOMAIN state : g = 0
    BY <1>2
  <2>2. \/ LastForward(stream, <<micro, 0>>, state[0])
        \/ LastReload(stream, <<micro, 0>>, state[0])
    BY <1>2, <2>1 DEF StreamInv, SourceInv
  <2>3. LastForward(stream, <<micro, 0>>, state[0]) => LastForward(stream', <<micro, 0>>, state[0])
    BY <1>3, LastKept
  <2>4. LastReload(stream, <<micro, 0>>, state[0])
          => LastReload(stream', <<micro, 0>>, state[0]) /\ Fetched(stream', <<micro, 0>>, state[0])
    <3>1. \A p \in 1..Len(stream'["h2d"]) : p > Len(stream["h2d"]) =>
            ~Writes(stream'["h2d"][p], "reload", state[0])
      BY <1>4 DEF Writes, Streams
    <3> QED BY <1>3, <3>1, LastReloadGrows, FetchedFacts
  <2> QED BY <1>1, <1>2, <2>1, <2>2, <2>3, <2>4 DEF SourceInv
<1> QED BY <1>3, <1>5, <1>6, <1>7, <1>8 DEF StreamInv

LEMMA StreamBackwardLayer ==
  ASSUME GpuOK, HostInv, HeldInv, StreamInv, BackwardLayer
  PROVE  GpuOK' /\ StreamInv' /\ Grows(stream, stream')
<1>1. /\ pass = "backward" /\ at = "layer" /\ layer \in Groups /\ layer \in Nat
      /\ state[layer] # Copied /\ DOMAIN state = 0..layer /\ DOMAIN buf = {}
      /\ saved = 0..(layer - 2) /\ micro \in 1..MicroBatches
  BY OffloadConfig DEF BackwardLayer, HostInv
<1>2. /\ state' = Without(state, layer) /\ buf' = Without(buf, layer)
      /\ stream' = Issue(stream, "compute", Work("backward", layer, state[layer]))
      /\ free' = free \cup {state[layer]}
      /\ UNCHANGED <<saved, done, block, cpu>>
      /\ \/ layer > 0 /\ layer' = layer - 1 /\ at' = "commit" /\ UNCHANGED <<micro, pass>>
         \/ layer = 0 /\ pass' # "backward"
  BY <1>1 DEF BackwardLayer
<1>3. layer \in DOMAIN state /\ state[layer] \in 1..Len(block) /\ state[layer] \in Nat
  <2>1. layer \in DOMAIN state
    BY <1>1
  <2> QED BY <1>1, <2>1 DEF HeldInv
<1> DEFINE op == Work("backward", layer, state[layer])
<1>4. op \in Ops /\ op.kind = "backward" /\ op.what = <<micro, layer>> /\ op.block = state[layer]
  BY <1>1, <1>3, Workings
<1>5. stream' = Issue(stream, "compute", op) /\ stream \in Streamed /\ Ordered(stream)
  BY <1>2 DEF StreamInv, Ordered
<1> HIDE DEF op
<1>6. Adds(stream, stream', "compute", op)
  <2>1. OnlyWaits(stream, stream)
    BY <1>5, Lengths DEF OnlyWaits, Grows
  <2> QED BY <1>4, <1>5, <2>1, IssueAdds, Lengths
<1>7. Ordered(stream')
  <2>1. \/ FromForward(stream, Len(stream["compute"]) + 1, op.what, op.block)
        \/ FromReload(stream, Len(stream["compute"]) + 1, op.what, op.block)
    BY <1>1, <1>4 DEF StreamInv, SourceInv, LastForward, Fetched
  <2> QED BY <1>4, <1>5, <2>1, OrderedIssue, Lengths
<1>8. stream' \in Streamed /\ Grows(stream, stream')
  BY <1>6, <1>7 DEF Ordered, Adds
<1>9. \A s \in Streams : \A p \in 1..Len(stream'[s]) : p > Len(stream[s]) =>
        stream'[s][p].kind = "wait" \/ (s = "compute" /\ stream'[s][p] = op)
  BY <1>6 DEF Adds
<1>10. GpuOK'
  <2>1. \A s \in Streams : \A p \in 1..Len(stream'[s]) : p > Len(stream[s]) =>
          stream'[s][p].kind = "wait" \/ stream'[s][p].block \in 1..Len(block')
    BY <1>2, <1>3, <1>4, <1>9
  <2>2. free' \subseteq 1..Len(block') /\ 1..Len(block) \subseteq 1..Len(block') /\ block' \in Seq(Blocks)
    BY <1>2, <1>3 DEF GpuOK
  <2> QED BY <1>2, <1>7, <1>8, <2>1, <2>2, GpuKept
<1>11. OwnerInv'
  BY <1>2, <1>4, <1>8, <1>9, OwnerKept DEF StreamInv, Streams
<1>12. CoveredInv'
  <2>1. \A v \in 1..Len(stream'["d2h"]) : v > Len(stream["d2h"]) => stream'["d2h"][v].kind = "wait"
    BY <1>9 DEF Streams
  <2>2. micro' = micro \/ saved' = {}
    BY <1>1, <1>2
  <2> QED BY <1>1, <1>2, <1>8, <2>1, <2>2, CoveredKept DEF StreamInv
<1>13. SourceInv'
  <2>1. /\ DOMAIN state' = (0..layer) \ {layer}
        /\ \A g \in DOMAIN state' : state'[g] = state[g] /\ g \in DOMAIN state
    BY <1>1, <1>2 DEF Without
  <2>2. \A w, b : LastForward(stream, w, b) => LastForward(stream', w, b)
    <3>1. \A b : \A p \in 1..Len(stream'["compute"]) : p > Len(stream["compute"]) =>
            ~Writes(stream'["compute"][p], "forward", b)
      BY <1>4, <1>9 DEF Writes, Streams
    <3> QED BY <1>5, <1>8, <3>1, LastForwardGrows
  <2>3. \A w, b : LastReload(stream, w, b) => LastReload(stream', w, b)
    <3>1. \A b : \A p \in 1..Len(stream'["h2d"]) : p > Len(stream["h2d"]) =>
            ~Writes(stream'["h2d"][p], "reload", b)
      BY <1>9 DEF Writes, Streams
    <3> QED BY <1>5, <1>8, <3>1, LastReloadGrows
  <2>4. CASE layer = 0
    <3>1. DOMAIN state' = {}
      BY <2>1, <2>4
    <3> QED BY <1>1, <1>2, <2>4, <3>1 DEF SourceInv
  <2>5. CASE layer > 0
    <3>1. at' = "commit" /\ micro' = micro /\ pass' = "backward"
      BY <1>1, <1>2, <2>5
    <3>2. \A g \in DOMAIN state' : state'[g] # Copied =>
            \/ LastForward(stream, <<micro, g>>, state[g]) /\ state'[g] = state[g]
            \/ LastReload(stream, <<micro, g>>, state[g]) /\ state'[g] = state[g]
      BY <2>1 DEF StreamInv, SourceInv
    <3> QED BY <2>2, <2>3, <3>1, <3>2 DEF SourceInv
  <2> QED BY <1>1, <2>4, <2>5
<1> QED BY <1>7, <1>8, <1>10, <1>11, <1>12, <1>13 DEF StreamInv

-----------------------------------------------------------------------------
(* What the GPU has carried out *)

WaitsHeld ==
  \A s \in Streams : \A p \in 1..done[s] :
    stream[s][p].kind = "wait" => done[stream[s][p].on] >= stream[s][p].upto

\* The last carried-out forward work on a block is what the block holds;
ForwardDone ==
  \A f \in 1..done["compute"] :
    /\ stream["compute"][f].kind = "forward"
    /\ \A f2 \in (f + 1)..done["compute"] :
         ~Writes(stream["compute"][f2], "forward", stream["compute"][f].block)
    => block[stream["compute"][f].block].content = stream["compute"][f].what

\* so is the last reload,
ReloadDone ==
  \A q \in 1..done["h2d"] :
    /\ stream["h2d"][q].kind = "reload"
    /\ \A q2 \in (q + 1)..done["h2d"] :
         ~Writes(stream["h2d"][q2], "reload", stream["h2d"][q].block)
    => block[stream["h2d"][q].block].content = stream["h2d"][q].what

\* and a copy on the CPU is that of its group and micro-batch.
OffloadDone ==
  \A v \in 1..done["d2h"] :
    stream["d2h"][v].kind = "offload" => cpu[stream["d2h"][v].what] = stream["d2h"][v].what

DoneInv == WaitsHeld /\ ForwardDone /\ ReloadDone /\ OffloadDone

\* Issuing work and handing out blocks changes nothing of it.
LEMMA DoneKept ==
  ASSUME GpuOK, DoneInv, Grows(stream, stream'), done' = done, cpu' = cpu,
         \A b \in 1..Len(block) : block'[b] = block[b]
  PROVE  DoneInv'
<1>1. \A s \in Streams : done[s] \in Nat /\ Len(stream[s]) \in Nat /\ done[s] <= Len(stream[s])
  BY Lengths DEF GpuOK
<1>2. \A s \in Streams : \A p \in 1..done[s] : stream'[s][p] = stream[s][p] /\ p \in 1..Len(stream[s])
  BY <1>1 DEF Grows
<1>3. "compute" \in Streams /\ "d2h" \in Streams /\ "h2d" \in Streams
  BY DEF Streams
<1>4. WaitsHeld'
  BY <1>2 DEF DoneInv, WaitsHeld
<1>5. ForwardDone'
  <2> SUFFICES ASSUME NEW f \in 1..done["compute"], stream["compute"][f].kind = "forward",
                      \A f2 \in (f + 1)..done["compute"] :
                        ~Writes(stream'["compute"][f2], "forward", stream["compute"][f].block)
               PROVE  block'[stream["compute"][f].block].content = stream["compute"][f].what
    BY <1>2, <1>3 DEF ForwardDone
  <2>1. \A f2 \in (f + 1)..done["compute"] : stream'["compute"][f2] = stream["compute"][f2]
    <3>1. \A f2 \in (f + 1)..done["compute"] : f2 \in 1..done["compute"]
      BY <1>1, <1>3
    <3> QED BY <1>2, <1>3, <3>1
  <2>2. block[stream["compute"][f].block].content = stream["compute"][f].what
    BY <2>1 DEF DoneInv, ForwardDone
  <2>3. stream["compute"][f].block \in 1..Len(block)
    BY <1>2, <1>3 DEF GpuOK
  <2> QED BY <2>2, <2>3
<1>6. ReloadDone'
  <2> SUFFICES ASSUME NEW q \in 1..done["h2d"], stream["h2d"][q].kind = "reload",
                      \A q2 \in (q + 1)..done["h2d"] :
                        ~Writes(stream'["h2d"][q2], "reload", stream["h2d"][q].block)
               PROVE  block'[stream["h2d"][q].block].content = stream["h2d"][q].what
    BY <1>2, <1>3 DEF ReloadDone
  <2>1. \A q2 \in (q + 1)..done["h2d"] : stream'["h2d"][q2] = stream["h2d"][q2]
    <3>1. \A q2 \in (q + 1)..done["h2d"] : q2 \in 1..done["h2d"]
      BY <1>1, <1>3
    <3> QED BY <1>2, <1>3, <3>1
  <2>2. block[stream["h2d"][q].block].content = stream["h2d"][q].what
    BY <2>1 DEF DoneInv, ReloadDone
  <2>3. stream["h2d"][q].block \in 1..Len(block)
    BY <1>2, <1>3 DEF GpuOK
  <2> QED BY <2>2, <2>3
<1>7. OffloadDone'
  BY <1>2, <1>3 DEF DoneInv, OffloadDone
<1> QED BY <1>4, <1>5, <1>6, <1>7 DEF DoneInv

\* What a stream waits for has been carried out when it gets there.
LEMMA WaitOver ==
  ASSUME GpuOK, WaitsHeld, NEW s \in Streams, NEW t \in Streams, NEW p \in Nat, p <= done[s] + 1,
         NEW n \in Nat, WaitBefore(stream, s, p, t, n)
  PROVE  done[t] >= n
<1>1. PICK x \in 1..(p - 1) : Waits(stream[s][x], t, n)
  BY DEF WaitBefore
<1>2. x \in 1..done[s] /\ x \in 1..Len(stream[s]) /\ stream[s][x] \in Ops
  BY Lengths DEF GpuOK
<1>3. stream[s][x].kind = "wait" /\ stream[s][x].on = t /\ stream[s][x].upto >= n /\ stream[s][x].upto \in Nat
  BY <1>1, <1>2 DEF Waits, Ops, Works, Waitings
<1>4. done[t] >= stream[s][x].upto /\ done[t] \in Nat
  BY <1>2, <1>3 DEF WaitsHeld, GpuOK
<1> QED BY <1>3, <1>4

LEMMA Written ==
  ASSUME NEW bs \in Seq(Blocks), NEW b \in 1..Len(bs), NEW x
  PROVE  /\ [bs EXCEPT ![b].content = x][b].content = x
         /\ \A c \in 1..Len(bs) : c # b => [bs EXCEPT ![b].content = x][c] = bs[c]
<1>1. bs[b] \in Blocks /\ DOMAIN bs = 1..Len(bs)
  OBVIOUS
<1>2. [bs[b] EXCEPT !.content = x].content = x
  BY <1>1 DEF Blocks
<1> QED BY <1>1, <1>2

\* The work a stream carries out next.
LEMMA ExecuteFacts ==
  ASSUME GpuOK, NEW s \in Streams, Execute(s)
  PROVE  LET p == done[s] + 1 IN
         /\ p \in 1..Len(stream[s]) /\ p \in Nat /\ done[s] \in Nat /\ stream[s][p] \in Ops
         /\ done'[s] = p /\ (\A t \in Streams : t # s => done'[t] = done[t])
         /\ done' \in [Streams -> Nat] /\ done'[s] <= Len(stream[s])
         /\ (\A t \in Streams : done'[t] >= done[t] /\ done[t] \in Nat /\ done'[t] \in Nat)
         /\ stream[s][p].kind = "wait" => done[stream[s][p].on] >= stream[s][p].upto
         /\ stream[s][p].kind # "wait" =>
              /\ stream[s][p].what \in Whats /\ stream[s][p].block \in 1..Len(block)
         /\ stream[s][p].kind = "forward" =>
              /\ block' = [block EXCEPT ![stream[s][p].block].content = stream[s][p].what]
              /\ cpu' = cpu
         /\ stream[s][p].kind = "reload" =>
              /\ block' = [block EXCEPT ![stream[s][p].block].content = cpu[stream[s][p].what]]
              /\ cpu' = cpu
         /\ stream[s][p].kind = "offload" =>
              /\ block' = block
              /\ cpu' = [cpu EXCEPT ![stream[s][p].what] = block[stream[s][p].block].content]
         /\ stream[s][p].kind \notin {"forward", "reload", "offload"} => block' = block /\ cpu' = cpu
<1> DEFINE p == done[s] + 1
           op == stream[s][p]
<1>1. /\ p \in 1..Len(stream[s]) /\ p \in Nat /\ done[s] \in Nat /\ op \in Ops
      /\ \A t \in Streams : done[t] \in Nat
  <2>1. done[s] < Len(stream[s]) /\ \A t \in Streams : done[t] \in Nat
    BY DEF Execute, Ready, GpuOK
  <2>2. Len(stream[s]) \in Nat
    BY Lengths DEF GpuOK
  <2>3. p \in 1..Len(stream[s])
    BY <2>1, <2>2
  <2> QED BY <2>1, <2>2, <2>3, Lengths DEF GpuOK
<1>2. /\ done' = [done EXCEPT ![s] = @ + 1] /\ done \in [Streams -> Nat]
      /\ op.kind = "wait" => done[op.on] >= op.upto
  BY DEF Execute, Ready, GpuOK
<1>3. /\ done'[s] = p /\ (\A t \in Streams : t # s => done'[t] = done[t])
      /\ done' \in [Streams -> Nat] /\ done'[s] <= Len(stream[s])
  BY <1>1, <1>2
<1>4. \A t \in Streams : done'[t] >= done[t] /\ done[t] \in Nat /\ done'[t] \in Nat
  BY <1>1, <1>3
<1>5. op.kind # "wait" => op.what \in Whats /\ op.block \in 1..Len(block)
  <2>1. op.kind # "wait" => op \in Works
    BY <1>1 DEF Ops, Waitings
  <2> QED BY <1>1, <2>1 DEF Works, GpuOK
<1>6. /\ op.kind = "forward" => block' = [block EXCEPT ![op.block].content = op.what] /\ cpu' = cpu
      /\ op.kind = "reload" => block' = [block EXCEPT ![op.block].content = cpu[op.what]] /\ cpu' = cpu
      /\ op.kind = "offload" =>
           block' = block /\ cpu' = [cpu EXCEPT ![op.what] = block[op.block].content]
      /\ op.kind \notin {"forward", "reload", "offload"} => block' = block /\ cpu' = cpu
  BY DEF Execute
<1> QED BY <1>1, <1>2, <1>3, <1>4, <1>5, <1>6

LEMMA ExecuteWaits ==
  ASSUME GpuOK, DoneInv, NEW s \in Streams, Execute(s)
  PROVE  WaitsHeld'
<1> DEFINE p == done[s] + 1
<1>1. /\ p \in 1..Len(stream[s]) /\ stream[s][p] \in Ops /\ done[s] \in Nat
      /\ done'[s] = p /\ (\A t \in Streams : t # s => done'[t] = done[t])
      /\ (\A t \in Streams : done'[t] >= done[t] /\ done[t] \in Nat /\ done'[t] \in Nat)
      /\ stream[s][p].kind = "wait" => done[stream[s][p].on] >= stream[s][p].upto
      /\ stream' = stream
  BY ExecuteFacts, ExecuteBlocks
<1> HIDE DEF p
<1>2. \A t \in Streams : \A x \in 1..Len(stream[t]) : stream[t][x].kind = "wait" =>
        stream[t][x].on \in Streams /\ stream[t][x].upto \in Nat
  BY Lengths DEF GpuOK, Ops, Works, Waitings
<1>3. ASSUME NEW t \in Streams, NEW x \in 1..done'[t], stream[t][x].kind = "wait"
      PROVE  done'[stream[t][x].on] >= stream[t][x].upto
  <2>1. CASE x \in 1..done[t]
    <3>1. x \in 1..Len(stream[t])
      BY <2>1, Lengths DEF GpuOK
    <3>2. done[stream[t][x].on] >= stream[t][x].upto
      BY <1>3, <2>1 DEF DoneInv, WaitsHeld
    <3>3. stream[t][x].on \in Streams /\ stream[t][x].upto \in Nat
      BY <1>2, <1>3, <3>1
    <3> QED BY <1>1, <3>2, <3>3
  <2>2. CASE t = s /\ x = p
    <3>1. stream[t][x].on \in Streams /\ stream[t][x].upto \in Nat
      BY <1>1, <1>2, <1>3, <2>2
    <3> QED BY <1>1, <1>3, <2>2, <3>1
  <2>3. x \in 1..done[t] \/ (t = s /\ x = p)
    BY <1>1 DEF p
  <2> QED BY <2>1, <2>2, <2>3
<1> QED BY <1>1, <1>3 DEF WaitsHeld

\* Neither a reload nor a copy to the CPU touches what the computation wrote.
LEMMA ExecuteForward ==
  ASSUME GpuOK, DoneInv, OwnerInv, KindsOK(stream), NEW s \in Streams, Execute(s)
  PROVE  ForwardDone'
<1> DEFINE p == done[s] + 1
           op == stream[s][p]
<1>1. /\ p \in 1..Len(stream[s]) /\ op \in Ops /\ done[s] \in Nat /\ p \in Nat
      /\ done'[s] = p /\ (\A t \in Streams : t # s => done'[t] = done[t])
      /\ op.kind # "wait" => op.what \in Whats /\ op.block \in 1..Len(block)
      /\ op.kind = "forward" => block' = [block EXCEPT ![op.block].content = op.what]
      /\ op.kind = "reload" => block' = [block EXCEPT ![op.block].content = cpu[op.what]]
      /\ op.kind \notin {"forward", "reload"} => block' = block
      /\ stream' = stream /\ block \in Seq(Blocks)
  BY ExecuteFacts, ExecuteBlocks DEF GpuOK
<1>2. s = "compute" => p = done["compute"] + 1 /\ op = stream["compute"][p]
  OBVIOUS
<1>3. s = "compute" => op.kind \in {"forward", "backward", "wait"}
  BY <1>1 DEF KindsOK
<1>4. s # "compute" => op.kind # "forward"
  BY <1>1 DEF KindsOK, Streams
<1>5. op.kind = "reload" => s = "h2d" /\ block[op.block].owner = "h2d"
  <2>1. ASSUME op.kind = "reload" PROVE s = "h2d"
    BY <1>1, <2>1 DEF KindsOK, Streams
  <2> QED BY <1>1, <2>1 DEF OwnerInv
<1> HIDE DEF p, op
<1>6. \A b \in 1..Len(block) : op.kind \in {"forward", "reload"} /\ b # op.block => block'[b] = block[b]
  BY <1>1, Written
<1>7. ASSUME op.kind = "forward" PROVE block'[op.block].content = op.what
  <2>1. op.block \in 1..Len(block) /\ block' = [block EXCEPT ![op.block].content = op.what] /\ block \in Seq(Blocks)
    BY <1>1, <1>7
  <2> QED BY <2>1, Written
<1>8. done["compute"] \in Nat /\ done["compute"] <= Len(stream["compute"]) /\ Len(stream["compute"]) \in Nat
      /\ "compute" \in Streams
  BY Lengths DEF GpuOK
<1>9. SUFFICES ASSUME NEW f \in 1..done'["compute"], stream["compute"][f].kind = "forward",
                      \A f2 \in (f + 1)..done'["compute"] :
                        ~Writes(stream["compute"][f2], "forward", stream["compute"][f].block)
               PROVE  block'[stream["compute"][f].block].content = stream["compute"][f].what
  BY <1>1 DEF ForwardDone
<1>10. CASE s = "compute" /\ f = p
  BY <1>2, <1>7, <1>9, <1>10
<1>11. CASE f \in 1..done["compute"]
  <2>1. done'["compute"] >= done["compute"] /\ done'["compute"] \in Nat
    BY <1>1, <1>2, <1>8
  <2>2. \A f2 \in (f + 1)..done["compute"] :
          ~Writes(stream["compute"][f2], "forward", stream["compute"][f].block)
    BY <1>8, <1>9, <1>11, <2>1
  <2>3. block[stream["compute"][f].block].content = stream["compute"][f].what
    BY <1>9, <1>11, <2>2 DEF DoneInv, ForwardDone
  <2>4. f \in 1..Len(stream["compute"]) /\ stream["compute"][f].block \in 1..Len(block)
    BY <1>8, <1>9, <1>11 DEF GpuOK
  <2>5. block'[stream["compute"][f].block] = block[stream["compute"][f].block]
    <3>1. CASE op.kind = "forward"
      <4>1. s = "compute"
        BY <1>4, <3>1
      <4>2. p \in (f + 1)..done'["compute"]
        BY <1>1, <1>2, <1>8, <1>11, <4>1
      <4>3. op.block # stream["compute"][f].block
        BY <1>2, <1>9, <3>1, <4>1, <4>2 DEF Writes
      <4> QED BY <1>6, <2>4, <3>1, <4>3
    <3>2. CASE op.kind = "reload"
      <4>1. block[stream["compute"][f].block].owner = "compute"
        BY <1>9, <2>4 DEF OwnerInv
      <4> QED BY <1>5, <1>6, <2>4, <3>2, <4>1
    <3>3. CASE op.kind \notin {"forward", "reload"}
      BY <1>1, <3>3
    <3> QED BY <3>1, <3>2, <3>3
  <2> QED BY <2>3, <2>5
<1>12. f \in 1..done["compute"] \/ (s = "compute" /\ f = p)
  BY <1>1, <1>2, <1>8
<1> QED BY <1>10, <1>11, <1>12

\* A copy to the CPU takes what the computation wrote last.
LEMMA ExecuteOffload ==
  ASSUME GpuOK, DoneInv, Ordered(stream), NEW s \in Streams, Execute(s)
  PROVE  OffloadDone'
<1> DEFINE p == done[s] + 1
           op == stream[s][p]
<1>1. /\ p \in 1..Len(stream[s]) /\ op \in Ops /\ done[s] \in Nat /\ p \in Nat
      /\ done'[s] = p /\ (\A t \in Streams : t # s => done'[t] = done[t])
      /\ op.kind # "wait" => op.what \in Whats /\ op.block \in 1..Len(block)
      /\ op.kind = "offload" => cpu' = [cpu EXCEPT ![op.what] = block[op.block].content]
      /\ op.kind # "offload" => cpu' = cpu
      /\ stream' = stream /\ cpu \in [Whats -> Contents]
  BY ExecuteFacts, ExecuteBlocks DEF GpuOK
<1>2. /\ s = "d2h" => p = done["d2h"] + 1 /\ op = stream["d2h"][p]
      /\ op.kind = "offload" => s = "d2h"
  BY <1>1 DEF Ordered, KindsOK, Streams
<1>3. /\ \A t \in Streams : done[t] \in Nat /\ Len(stream[t]) \in Nat /\ done[t] <= Len(stream[t])
      /\ "compute" \in Streams /\ "d2h" \in Streams
  BY Lengths DEF GpuOK
<1> HIDE DEF p, op
<1>4. ASSUME op.kind = "offload" PROVE block[op.block].content = op.what
  <2>1. s = "d2h" /\ p = done["d2h"] + 1 /\ op = stream["d2h"][p] /\ p \in 1..Len(stream["d2h"])
    BY <1>1, <1>2, <1>4
  <2>2. PICK f \in 1..Len(stream["compute"]) : Offloads(stream, p, f)
    BY <1>4, <2>1 DEF Ordered, OffloadOK
  <2>3. f \in Nat /\ f <= done["compute"]
    <3>1. f \in Nat
      OBVIOUS
    <3>2. WaitBefore(stream, "d2h", p, "compute", f)
      BY <2>2 DEF Offloads
    <3>3. done["compute"] >= f
      BY <1>1, <1>3, <2>1, <3>1, <3>2, WaitOver DEF DoneInv
    <3> QED BY <1>3, <3>1, <3>3
  <2>4. ASSUME NEW f2 \in (f + 1)..done["compute"], Writes(stream["compute"][f2], "forward", op.block)
        PROVE  FALSE
    <3>1. f2 \in (f + 1)..Len(stream["compute"]) /\ f2 \in Nat /\ f2 <= done["compute"] + 1
      BY <1>3, <2>3
    <3>2. WaitBefore(stream, "compute", f2, "d2h", p)
      BY <2>1, <2>2, <2>4, <3>1 DEF Offloads
    <3>3. done["d2h"] >= p
      BY <1>1, <1>3, <3>1, <3>2, WaitOver DEF DoneInv
    <3> QED BY <1>3, <2>1, <3>3
  <2>5. f \in 1..done["compute"] /\ Does(stream["compute"][f], "forward", op.what, op.block)
    BY <1>3, <2>1, <2>2, <2>3 DEF Offloads
  <2> QED BY <2>4, <2>5 DEF Does, DoneInv, ForwardDone
<1>5. SUFFICES ASSUME NEW v \in 1..done'["d2h"], stream["d2h"][v].kind = "offload"
               PROVE  cpu'[stream["d2h"][v].what] = stream["d2h"][v].what
  BY <1>1 DEF OffloadDone
<1>6. CASE s = "d2h" /\ v = p
  <2>1. op.kind = "offload" /\ op = stream["d2h"][v]
    BY <1>2, <1>5, <1>6
  <2>2. cpu'[op.what] = block[op.block].content
    BY <1>1, <2>1
  <2> QED BY <1>4, <2>1, <2>2
<1>7. CASE v \in 1..done["d2h"]
  <2>1. cpu[stream["d2h"][v].what] = stream["d2h"][v].what
    BY <1>5, <1>7 DEF DoneInv, OffloadDone
  <2>2. CASE op.kind = "offload"
    <3>1. cpu' = [cpu EXCEPT ![op.what] = op.what] /\ op.what \in Whats
      BY <1>1, <1>4, <2>2
    <3>2. stream["d2h"][v] \in Works
      <4>1. v \in 1..Len(stream["d2h"])
        BY <1>3, <1>7
      <4>2. stream["d2h"][v] \in Ops
        BY <1>3, <4>1, Lengths DEF GpuOK
      <4> QED BY <1>5, <4>2 DEF Ops, Waitings
    <3>3. stream["d2h"][v].what \in Whats
      BY <3>2 DEF Works
    <3> QED BY <1>1, <2>1, <3>1, <3>3
  <2>3. CASE op.kind # "offload"
    BY <1>1, <2>1, <2>3
  <2> QED BY <2>2, <2>3
<1>8. v \in 1..done["d2h"] \/ (s = "d2h" /\ v = p)
  BY <1>1, <1>2, <1>3
<1> QED BY <1>6, <1>7, <1>8

\* A copy from the CPU finds there what was copied to it.
LEMMA ExecuteReload ==
  ASSUME GpuOK, DoneInv, OwnerInv, Ordered(stream), NEW s \in Streams, Execute(s)
  PROVE  ReloadDone'
<1> DEFINE p == done[s] + 1
           op == stream[s][p]
<1>1. /\ p \in 1..Len(stream[s]) /\ op \in Ops /\ done[s] \in Nat /\ p \in Nat
      /\ done'[s] = p /\ (\A t \in Streams : t # s => done'[t] = done[t])
      /\ op.kind # "wait" => op.what \in Whats /\ op.block \in 1..Len(block)
      /\ op.kind = "forward" => block' = [block EXCEPT ![op.block].content = op.what]
      /\ op.kind = "reload" => block' = [block EXCEPT ![op.block].content = cpu[op.what]]
      /\ op.kind \notin {"forward", "reload"} => block' = block
      /\ stream' = stream /\ block \in Seq(Blocks)
  BY ExecuteFacts, ExecuteBlocks DEF GpuOK
<1>2. /\ s = "h2d" => p = done["h2d"] + 1 /\ op = stream["h2d"][p]
      /\ op.kind = "reload" => s = "h2d"
  BY <1>1 DEF Ordered, KindsOK, Streams
<1>3. op.kind = "forward" => s = "compute" /\ block[op.block].owner = "compute"
  <2>1. ASSUME op.kind = "forward" PROVE s = "compute"
    BY <1>1, <2>1 DEF Ordered, KindsOK, Streams
  <2> QED BY <1>1, <2>1 DEF OwnerInv
<1>4. /\ \A t \in Streams : done[t] \in Nat /\ Len(stream[t]) \in Nat /\ done[t] <= Len(stream[t])
      /\ "compute" \in Streams /\ "d2h" \in Streams /\ "h2d" \in Streams
  BY Lengths DEF GpuOK
<1> HIDE DEF p, op
<1>5. ASSUME op.kind = "reload" PROVE cpu[op.what] = op.what
  <2>1. s = "h2d" /\ p = done["h2d"] + 1 /\ op = stream["h2d"][p] /\ p \in 1..Len(stream["h2d"])
    BY <1>1, <1>2, <1>5
  <2>2. PICK v \in 1..Len(stream["d2h"]), y \in 1..Len(stream["compute"]) : Reloads(stream, p, v, y)
    BY <1>5, <2>1 DEF Ordered, ReloadOK
  <2>3. y \in Nat /\ v \in Nat
    OBVIOUS
  <2>4. done["compute"] >= y
    <3>1. WaitBefore(stream, "h2d", p, "compute", y)
      BY <2>2 DEF Reloads
    <3>2. WaitsHeld /\ p <= done["h2d"] + 1
      <4>1. done["h2d"] \in Nat /\ p = done["h2d"] + 1
        BY <1>4, <2>1
      <4> QED BY <4>1 DEF DoneInv
    <3> QED BY <1>1, <1>4, <2>3, <3>1, <3>2, WaitOver
  <2>5. done["d2h"] >= v
    <3>1. Waits(stream["compute"][y], "d2h", v)
      BY <2>2 DEF Reloads
    <3>2. WaitBefore(stream, "compute", y + 1, "d2h", v)
      <4>1. y \in 1..(y + 1 - 1)
        BY <2>3
      <4> QED BY <3>1, <4>1 DEF WaitBefore
    <3>3. y + 1 \in Nat /\ y + 1 <= done["compute"] + 1
      BY <1>4, <2>3, <2>4
    <3> QED BY <1>4, <2>3, <3>2, <3>3, WaitOver DEF DoneInv
  <2>6. v \in 1..done["d2h"]
    BY <1>4, <2>3, <2>5
  <2> QED BY <2>1, <2>2, <2>6 DEF Reloads, DoneInv, OffloadDone
<1>6. \A b \in 1..Len(block) : op.kind \in {"forward", "reload"} /\ b # op.block => block'[b] = block[b]
  BY <1>1, Written
<1>7. ASSUME op.kind = "reload" PROVE block'[op.block].content = op.what
  <2>1. /\ op.block \in 1..Len(block) /\ block' = [block EXCEPT ![op.block].content = op.what]
        /\ block \in Seq(Blocks)
    BY <1>1, <1>5, <1>7
  <2> QED BY <2>1, Written
<1>8. SUFFICES ASSUME NEW q \in 1..done'["h2d"], stream["h2d"][q].kind = "reload",
                      \A q2 \in (q + 1)..done'["h2d"] :
                        ~Writes(stream["h2d"][q2], "reload", stream["h2d"][q].block)
               PROVE  block'[stream["h2d"][q].block].content = stream["h2d"][q].what
  BY <1>1 DEF ReloadDone
<1>9. CASE s = "h2d" /\ q = p
  BY <1>2, <1>7, <1>8, <1>9
<1>10. CASE q \in 1..done["h2d"]
  <2>1. done'["h2d"] >= done["h2d"] /\ done'["h2d"] \in Nat
    BY <1>1, <1>2, <1>4
  <2>2. \A q2 \in (q + 1)..done["h2d"] :
          ~Writes(stream["h2d"][q2], "reload", stream["h2d"][q].block)
    BY <1>4, <1>8, <1>10, <2>1
  <2>3. block[stream["h2d"][q].block].content = stream["h2d"][q].what
    BY <1>8, <1>10, <2>2 DEF DoneInv, ReloadDone
  <2>4. q \in 1..Len(stream["h2d"]) /\ stream["h2d"][q].block \in 1..Len(block)
    BY <1>4, <1>8, <1>10 DEF GpuOK
  <2>5. block'[stream["h2d"][q].block] = block[stream["h2d"][q].block]
    <3>1. CASE op.kind = "reload"
      <4>1. s = "h2d"
        BY <1>2, <3>1
      <4>2. p \in (q + 1)..done'["h2d"]
        BY <1>1, <1>2, <1>4, <1>10, <4>1
      <4>3. op.block # stream["h2d"][q].block
        BY <1>2, <1>8, <3>1, <4>1, <4>2 DEF Writes
      <4> QED BY <1>6, <2>4, <3>1, <4>3
    <3>2. CASE op.kind = "forward"
      <4>1. block[stream["h2d"][q].block].owner = "h2d"
        BY <1>8, <2>4 DEF OwnerInv
      <4> QED BY <1>3, <1>6, <2>4, <3>2, <4>1
    <3>3. CASE op.kind \notin {"forward", "reload"}
      BY <1>1, <3>3
    <3> QED BY <3>1, <3>2, <3>3
  <2> QED BY <2>3, <2>5
<1>11. q \in 1..done["h2d"] \/ (s = "h2d" /\ q = p)
  BY <1>1, <1>2, <1>4
<1> QED BY <1>9, <1>10, <1>11

-----------------------------------------------------------------------------
(* The invariant *)

IInv == GpuOK /\ HostInv /\ HeldInv /\ StreamInv /\ DoneInv

LEMMA IInvInit == Init => IInv
<1> SUFFICES ASSUME Init PROVE IInv
  OBVIOUS
<1>1. /\ stream = [s \in Streams |-> <<>>] /\ done = [s \in Streams |-> 0]
      /\ block = <<>> /\ free = {} /\ state = <<>> /\ buf = <<>> /\ saved = {}
      /\ micro = 1 /\ pass = "forward" /\ layer = 0 /\ at = "layer"
      /\ current_group = 0 /\ offloaded_group_count = 0
      /\ cpu = [c \in (1..MicroBatches) \X Groups |-> Empty]
  BY DEF Init
<1>2. /\ \A s \in Streams : stream[s] = <<>> /\ Len(stream[s]) = 0 /\ done[s] = 0
      /\ stream \in Streamed /\ "compute" \in Streams /\ "d2h" \in Streams /\ "h2d" \in Streams
  BY <1>1 DEF Streamed, Streams
<1>3. GpuOK
  <2>1. cpu \in [Whats -> Contents]
    BY <1>1, WhatsTyped DEF Whats
  <2>2. block \in Seq(Blocks) /\ free \subseteq 1..Len(block) /\ done \in [Streams -> Nat]
    BY <1>1
  <2> QED BY <1>2, <2>1, <2>2 DEF GpuOK
<1>4. HostInv
  <2>1. 1 \in 1..MicroBatches /\ {} = 0..(0 - 1) /\ {} = {0 - 1} \cap Groups
    BY OffloadConfig
  <2>2. DOMAIN state = {} /\ DOMAIN buf = {}
    BY <1>1
  <2>3. CopiedUpTo(layer)
    BY <1>1, <2>1 DEF CopiedUpTo
  <2> QED BY <1>1, <2>1, <2>2, <2>3, OffloadConfig DEF HostInv, ForwardCount
<1>5. HeldInv
  <2>1. DOMAIN state = {} /\ DOMAIN buf = {} /\ 1..Len(block) = {}
    BY <1>1
  <2> QED BY <2>1 DEF HeldInv
<1>6. StreamInv
  <2>1. Ordered(stream)
    BY <1>2 DEF Ordered, KindsOK, OffloadOK, ReloadOK, BackwardOK
  <2>2. OwnerInv
    BY <1>2 DEF OwnerInv
  <2>3. CoveredInv
    BY <1>1, <1>2 DEF CoveredInv
  <2>4. SourceInv
    <3>1. DOMAIN state = {}
      BY <1>1
    <3> QED BY <1>1, <3>1 DEF SourceInv
  <2> QED BY <2>1, <2>2, <2>3, <2>4 DEF StreamInv
<1>7. DoneInv
  BY <1>2 DEF DoneInv, WaitsHeld, ForwardDone, ReloadDone, OffloadDone
<1> QED BY <1>3, <1>4, <1>5, <1>6, <1>7 DEF IInv

LEMMA ExecuteKeeps ==
  ASSUME IInv, NEW s \in Streams, Execute(s)
  PROVE  IInv'
<1>1. /\ block' \in Seq(Blocks) /\ Len(block') = Len(block) /\ cpu' \in [Whats -> Contents]
      /\ \A b \in 1..Len(block) : block'[b].owner = block[b].owner
      /\ UNCHANGED <<hostVars, handlerVars, stream, free>>
  BY ExecuteBlocks DEF IInv
<1>2. UNCHANGED <<micro, pass, layer, at, current_group, offloaded_group_count, state, buf, saved>>
  BY <1>1 DEF hostVars, handlerVars
<1>3. GpuOK'
  <2>1. /\ done' \in [Streams -> Nat] /\ done'[s] <= Len(stream[s])
        /\ \A t \in Streams : t # s => done'[t] = done[t]
    BY ExecuteFacts DEF IInv
  <2>2. \A t \in Streams : done'[t] <= Len(stream[t])
    BY <2>1 DEF IInv, GpuOK
  <2> QED BY <1>1, <2>1, <2>2 DEF IInv, GpuOK
<1>4. HostInv'
  <2>1. \A n : CopiedUpTo(n)' <=> CopiedUpTo(n)
    BY <1>2 DEF CopiedUpTo
  <2> QED BY <1>2, <2>1 DEF IInv, HostInv, ForwardCount, CopiedUpTo
<1>5. HeldInv'
  BY <1>1, <1>2 DEF IInv, HeldInv
<1>6. StreamInv'
  <2>1. stream' = stream /\ Ordered(stream')
    BY <1>1 DEF IInv, StreamInv
  <2>2. OwnerInv'
    <3>1. \A t \in Streams : \A p \in 1..Len(stream[t]) :
            stream[t][p].kind # "wait" => stream[t][p].block \in 1..Len(block)
      BY DEF IInv, GpuOK
    <3> QED BY <1>1, <3>1 DEF IInv, StreamInv, OwnerInv, Streams
  <2>3. CoveredInv'
    BY <1>2, <2>1 DEF IInv, StreamInv, CoveredInv
  <2>4. SourceInv'
    BY <1>2, <2>1 DEF IInv, StreamInv, SourceInv
  <2> QED BY <2>1, <2>2, <2>3, <2>4 DEF StreamInv
<1>7. DoneInv'
  BY ExecuteWaits, ExecuteForward, ExecuteOffload, ExecuteReload DEF IInv, StreamInv, Ordered, DoneInv
<1> QED BY <1>3, <1>4, <1>5, <1>6, <1>7 DEF IInv

\* A call of the host leaves what the GPU has done, and what its blocks hold.
LEMMA HostKeepsDone ==
  ASSUME IInv, Grows(stream, stream'),
         ForwardLayer \/ CommitFirst \/ CommitForward \/ CommitBackward \/ CommitLast \/ BackwardLayer
  PROVE  DoneInv'
<1>1. done' = done /\ cpu' = cpu
  BY DEF ForwardLayer, CommitFirst, CommitForward, CommitBackward, CommitLast, BackwardLayer, NextForward
<1>2. \A b \in 1..Len(block) : block'[b] = block[b]
  <2>1. \/ block' = block
        \/ \E b \in Allocatable("compute") : block' = Allocated(b, "compute")
        \/ \E b \in Allocatable("h2d") : block' = Allocated(b, "h2d")
    BY DEF ForwardLayer, CommitFirst, CommitForward, CommitBackward, CommitLast, BackwardLayer,
           NextForward, Reload
  <2> QED BY <2>1, AllocatedFacts DEF IInv, GpuOK, Streams
<1> QED BY <1>1, <1>2, DoneKept DEF IInv

LEMMA IInvNext == IInv /\ [Next]_vars => IInv'
<1> SUFFICES ASSUME IInv, [Next]_vars PROVE IInv'
  OBVIOUS
<1> USE DEF IInv
<1>1. CASE ForwardLayer
  BY <1>1, HostForwardLayer, StreamForwardLayer, HostKeepsDone
<1>2. CASE CommitFirst
  BY <1>2, HostCommitFirst, StreamCommitFirst, HostKeepsDone
<1>3. CASE CommitForward
  BY <1>3, HostCommitForward, StreamCommitForward, HostKeepsDone
<1>4. CASE CommitBackward
  BY <1>4, HostCommitBackward, StreamCommitBackward, HostKeepsDone
<1>5. CASE CommitLast
  BY <1>5, HostCommitLast, StreamCommitLast, HostKeepsDone
<1>6. CASE BackwardLayer
  BY <1>6, HostBackwardLayer, StreamBackwardLayer, HostKeepsDone
<1>7. ASSUME NEW s \in Streams, Execute(s) PROVE IInv'
  BY <1>7, ExecuteKeeps
<1>8. CASE UNCHANGED vars
  <2>1. UNCHANGED <<micro, pass, layer, at, current_group, offloaded_group_count, state, buf, saved,
                    stream, done, block, free, cpu>>
    BY <1>8 DEF vars, hostVars, handlerVars
  <2>2. GpuOK' /\ HeldInv'
    BY <2>1 DEF GpuOK, HeldInv
  <2>3. HostInv'
    <3>1. \A n : CopiedUpTo(n)' <=> CopiedUpTo(n)
      BY <2>1 DEF CopiedUpTo
    <3> QED BY <2>1, <3>1 DEF HostInv, ForwardCount, CopiedUpTo
  <2>4. StreamInv'
    BY <2>1 DEF StreamInv, OwnerInv, CoveredInv, SourceInv
  <2>5. DoneInv'
    BY <2>1 DEF DoneInv, WaitsHeld, ForwardDone, ReloadDone, OffloadDone
  <2> QED BY <2>2, <2>3, <2>4, <2>5
<1> QED BY <1>1, <1>2, <1>3, <1>4, <1>5, <1>6, <1>7, <1>8 DEF Next, Finished

-----------------------------------------------------------------------------
(* The properties *)

LEMMA IInvReads == IInv => BackwardReadsOwn
<1> SUFFICES ASSUME IInv PROVE BackwardReadsOwn
  OBVIOUS
<1>1. pass # "raised"
  BY DEF IInv, HostInv
<1> DEFINE p == done["compute"] + 1
           op == stream["compute"][p]
<1>2. SUFFICES ASSUME Ready("compute"), op.kind = "backward"
               PROVE  block[op.block].content = op.what
  BY <1>1 DEF BackwardReadsOwn
<1>3. /\ "compute" \in Streams /\ "h2d" \in Streams /\ p \in Nat /\ p - 1 = done["compute"]
      /\ p \in 1..Len(stream["compute"]) /\ done["h2d"] \in Nat /\ done["h2d"] <= Len(stream["h2d"])
      /\ Len(stream["h2d"]) \in Nat /\ p <= done["compute"] + 1 /\ done["compute"] \in Nat
  <2>1. "compute" \in Streams /\ "h2d" \in Streams
    BY DEF Streams
  <2>2. done["compute"] < Len(stream["compute"])
    BY <1>2 DEF Ready
  <2>3. /\ done["compute"] \in Nat /\ Len(stream["compute"]) \in Nat
        /\ done["h2d"] \in Nat /\ done["h2d"] <= Len(stream["h2d"]) /\ Len(stream["h2d"]) \in Nat
    BY <2>1, Lengths DEF IInv, GpuOK
  <2> QED BY <2>1, <2>2, <2>3
<1>4. op = stream["compute"][p]
  OBVIOUS
<1> HIDE DEF p, op
<1>5. \/ FromForward(stream, p, op.what, op.block)
      \/ FromReload(stream, p, op.what, op.block)
  BY <1>2, <1>3, <1>4 DEF IInv, StreamInv, Ordered, BackwardOK
<1>6. CASE FromForward(stream, p, op.what, op.block)
  BY <1>3, <1>6 DEF FromForward, Does, IInv, DoneInv, ForwardDone
<1>7. CASE FromReload(stream, p, op.what, op.block)
  <2>1. PICK q \in 1..Len(stream["h2d"]) :
          /\ Does(stream["h2d"][q], "reload", op.what, op.block)
          /\ WaitBefore(stream, "compute", p, "h2d", q)
          /\ \A q2 \in (q + 1)..Len(stream["h2d"]) :
               Writes(stream["h2d"][q2], "reload", op.block) => WaitBefore(stream, "h2d", q2, "compute", p)
    BY <1>7 DEF FromReload
  <2>2. q \in 1..done["h2d"]
    <3>1. done["h2d"] >= q
      BY <1>3, <2>1, WaitOver DEF IInv, DoneInv
    <3> QED BY <1>3, <3>1
  <2>3. ASSUME NEW q2 \in (q + 1)..done["h2d"], Writes(stream["h2d"][q2], "reload", op.block)
        PROVE  FALSE
    <3>1. q2 \in (q + 1)..Len(stream["h2d"]) /\ q2 \in Nat /\ q2 <= done["h2d"] + 1
      BY <1>3
    <3>2. WaitBefore(stream, "h2d", q2, "compute", p)
      BY <2>1, <2>3, <3>1
    <3>3. done["compute"] >= p
      BY <1>3, <3>1, <3>2, WaitOver DEF IInv, DoneInv
    <3> QED BY <1>3, <3>3
  <2> QED BY <2>1, <2>2, <2>3 DEF Does, IInv, DoneInv, ReloadDone
<1> QED BY <1>5, <1>6, <1>7

LEMMA PairSize ==
  ASSUME NEW x, NEW y, NEW S \in SUBSET {x, y}
  PROVE  Cardinality(S) <= 2
<1>1. IsFiniteSet({x}) /\ Cardinality({x}) = 1
  BY FS_Singleton
<1>2. /\ IsFiniteSet({x} \cup {y})
      /\ Cardinality({x} \cup {y}) = IF y \in {x} THEN Cardinality({x}) ELSE Cardinality({x}) + 1
  BY <1>1, FS_AddElement
<1>3. {x, y} = {x} \cup {y} /\ Cardinality({x} \cup {y}) <= 2
  BY <1>1, <1>2
<1>4. IsFiniteSet(S) /\ Cardinality(S) <= Cardinality({x} \cup {y})
  BY <1>2, <1>3, FS_Subset
<1>5. Cardinality(S) \in Nat /\ Cardinality({x} \cup {y}) \in Nat
  BY <1>2, <1>4, FS_CardinalityType
<1> QED BY <1>3, <1>4, <1>5

LEMMA IInvTwo == IInv => AtMostTwoGroups
<1> SUFFICES ASSUME IInv PROVE AtMostTwoGroups
  OBVIOUS
<1> DEFINE held == (1..Len(block)) \ free
<1>1. \A b \in held : b # Copied /\ ((\E g \in DOMAIN buf : buf[g] = b) \/ (\E g \in DOMAIN state : state[g] = b))
  BY DEF IInv, HeldInv, Copied
<1> HIDE DEF held
<1>2. layer \in Nat /\ layer \in 0..LastGroup /\ LastGroup \in Nat
  BY OffloadConfig DEF IInv, HostInv, LastGroup
<1>3. \E x, y : held \subseteq {x, y}
  <2>1. CASE pass = "forward" /\ at = "layer"
    <3>1. /\ \A g \in DOMAIN state : state[g] = Copied
          /\ \A g \in DOMAIN buf : g = layer - 1
      BY <1>2, <2>1 DEF IInv, HostInv, CopiedUpTo
    <3>2. held \subseteq {buf[layer - 1], buf[layer - 1]}
      BY <1>1, <3>1
    <3> QED BY <3>2
  <2>2. CASE pass = "forward" /\ at = "commit"
    <3>1. /\ \A g \in DOMAIN state : g = layer \/ state[g] = Copied
          /\ \A g \in DOMAIN buf : g = layer - 1 \/ (g = layer /\ buf[g] = state[layer])
      BY <1>2, <2>2 DEF IInv, HostInv, CopiedUpTo
    <3>2. held \subseteq {buf[layer - 1], state[layer]}
      BY <1>1, <3>1
    <3> QED BY <3>2
  <2>3. CASE pass = "backward"
    <3>1. /\ \A g \in DOMAIN state : g = layer \/ g = layer - 1 \/ state[g] = Copied
          /\ DOMAIN buf = {}
      BY <1>2, <2>3 DEF IInv, HostInv, CopiedUpTo
    <3>2. held \subseteq {state[layer], state[layer - 1]}
      BY <1>1, <3>1
    <3> QED BY <3>2
  <2>4. CASE pass = "over"
    <3>1. DOMAIN state = {} /\ DOMAIN buf = {}
      BY <2>4 DEF IInv, HostInv
    <3> QED BY <1>1, <3>1
  <2> QED BY <2>1, <2>2, <2>3, <2>4 DEF IInv, HostInv
<1>4. Cardinality(held) <= 2
  BY <1>3, PairSize
<1> QED BY <1>4 DEF AtMostTwoGroups, held

\* No copy is overtaken by the computation that reuses its memory and no reload
\* comes late: wait_stream both ways orders the copies of each commit, and
\* tensor_pop never meets a group of which only the copy on the CPU is left.
THEOREM BackwardReadsOwnCorrect == Spec => []BackwardReadsOwn
<1>1. Init => IInv
  BY IInvInit
<1>2. IInv /\ [Next]_vars => IInv'
  BY IInvNext
<1>3. IInv => BackwardReadsOwn
  BY IInvReads
<1> QED BY <1>1, <1>2, <1>3, PTL DEF Spec

\* "there are at most two activation groups in GPU memory", in
\* enable_activation_offloading: of blocks that are not free.
THEOREM AtMostTwoGroupsCorrect == Spec => []AtMostTwoGroups
<1>1. Init => IInv
  BY IInvInit
<1>2. IInv /\ [Next]_vars => IInv'
  BY IInvNext
<1>3. IInv => AtMostTwoGroups
  BY IInvTwo
<1> QED BY <1>1, <1>2, <1>3, PTL DEF Spec
=============================================================================
