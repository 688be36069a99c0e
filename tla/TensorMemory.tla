------------------------------ MODULE TensorMemory ------------------------------
(***************************************************************************)
(* The memory of the tensors of an asynchronous network (src/armnn:        *)
(* CreateMemoryProfileAsync of LoadedNetwork.cpp, and what                 *)
(* CreateWorkingMemHandle and WorkingMemHandle::Allocate make of it;       *)
(* SingleAxisPriorityList.cpp, StrategyValidator.cpp).                     *)
(*                                                                         *)
(* A tensor's block lasts from the step of the layer that writes it to the *)
(* step of the last layer that reads it.  The strategy puts blocks into    *)
(* bins; the blocks of a bin start at offset 0, so they share memory.      *)
(***************************************************************************)
EXTENDS Integers, Sequences, FiniteSets, FiniteSetsExt

CONSTANTS
  Inputs,    \* LayerBindingIds of the network's inputs
  Outputs,   \* and of its outputs
  Workloads, \* 1..n, in topological order; each has one output tensor
  Reads,     \* per workload: the tensors its input slots are connected to
  OutputOf,  \* per output: the tensor it is connected to
  Size,      \* per tensor: its size in bytes, aligned
  WordSize   \* the bits of a size_t

Tensors == Inputs \cup Workloads
Layers == Tensors \cup Outputs

(* Which of m_InputSource and m_OutputSource are not Undefined. *)
Sources == {[inputs |-> i, outputs |-> o] : i, o \in BOOLEAN}

ASSUME TensorMemoryAssumption ==
  /\ Inputs \subseteq Int /\ Outputs \subseteq Int
  /\ IsFiniteSet(Inputs) /\ IsFiniteSet(Outputs) /\ IsFiniteSet(Workloads)
  /\ Workloads = 1..Cardinality(Workloads)
  /\ Reads \in [Workloads -> Seq(Tensors)]
  /\ \A w \in Workloads : \A k \in DOMAIN Reads[w] : Reads[w][k] \in Workloads => Reads[w][k] < w
  /\ OutputOf \in [Outputs -> Workloads]
  /\ Size \in [Tensors -> Nat]
  /\ Inputs \cap Workloads = {} /\ Inputs \cap Outputs = {} /\ Outputs \cap Workloads = {}
  /\ WordSize \in Nat \ {0}

(* The elements of S as a sequence: each comes after those that rank below it. *)
Ranked(S, below) == [i \in 1..Cardinality(S) |-> CHOOSE x \in S : Cardinality(below[x]) = i - 1]

-----------------------------------------------------------------------------
(* CreateMemoryProfileAsync *)

(* The input slots connected to a tensor; an Output layer has one. *)
ReadSlots == {s \in Workloads \X (1..3) : s[2] \in DOMAIN Reads[s[1]]}
Connections(x) ==
  {s \in ReadSlots : Reads[s[1]][s[2]] = x} \cup {<<o, 1>> : o \in {p \in Outputs : OutputOf[p] = x}}

(* The caller owns the memory of an imported input, and of an exported tensor
   that only one Output layer reads. *)
SkippedInputs(l, src) == src.inputs /\ l \in Inputs
Skipped(l, src) ==
  \/ src.inputs /\ l \in Inputs
  \/ src.outputs /\ l \in Outputs /\ Cardinality(Connections(OutputOf[l])) = 1

(* TopologicalSort: the priority of an Input layer is the least, and that of an
   Output layer the greatest. *)
Precedes(l, m) ==
  \/ l \in Inputs /\ m \notin Inputs
  \/ l \notin Outputs /\ m \in Outputs
  \/ l < m /\ \E S \in {Inputs, Workloads, Outputs} : l \in S /\ m \in S
InOrder(S) == Ranked(S, [x \in S |-> {y \in S : Precedes(y, x)}])

\* timestep counts the layers before l that are not skipped.
Kept(src) == {l \in Layers : ~Skipped(l, src)}
Timestep(l, src) == Cardinality({m \in Kept(src) : Precedes(m, l)})
Readers(x) == {s[1] : s \in Connections(x)}

(* The reader that brings m_Lifetime to zero ends the block; nobody does when
   a reader is skipped, and then there is no block. *)
ReadInTime(x, src) == \A l \in Readers(x) : ~Skipped(l, src)
EndOfLife(x, src) ==
  Max({Timestep(l, src) : l \in Readers(x)} \cup {Timestep(x, src)})

(* Its slot: the blocks that one layer ends are listed in the order of its
   slots, after that of its own tensor when nobody reads it. *)
EndSlot(x, src) ==
  Max({s[2] : s \in {c \in Connections(x) :
                       Timestep(c[1], src) = EndOfLife(x, src)}} \cup {0})
BlockOf(x, src) ==
  [index |-> x, start |-> Timestep(x, src), end |-> EndOfLife(x, src),
   slot |-> EndSlot(x, src), size |-> Size[x]]
Blocks ==
  [src \in Sources |->
     {BlockOf(x, src) :
        x \in {y \in Tensors : ~Skipped(y, src) /\ ReadInTime(y, src)}}]

-----------------------------------------------------------------------------
(* SingleAxisPriorityList::Optimize: the larger block first; list::sort leaves
   equal ones in the order in which they were listed. *)

Before(b, c) ==
  \/ b.size > c.size
  \/ b.size = c.size /\ b.end < c.end
  \/ b.size = c.size /\ b.end = c.end /\ b.slot < c.slot
PriorityList(blocks) == Ranked(blocks, [b \in blocks |-> {c \in blocks : Before(c, b)}])

(* The time steps a block occupies, as bits of words.  Every word between the
   first and the last is full. *)
Bits == 0..WordSize - 1
MaskOfEnds(b) ==
  LET first == b.start \div WordSize
      final == b.end \div WordSize
      Ends(w) == {i \in Bits : /\ w = first => i >= b.start % WordSize
                               /\ w = final => i <= b.end % WordSize}
  IN [w \in first..final |-> IF w \in {first, final} THEN Ends(w) ELSE {}]
Mask(b) ==
  LET first == b.start \div WordSize
      final == b.end \div WordSize
  IN [w \in first..final |->
        {i \in Bits : /\ w = first => i >= b.start % WordSize
                      /\ w = final => i <= b.end % WordSize}]

Fits(bin, b) == \A w \in DOMAIN Mask(b) : bin.occupied[w] \cap Mask(b)[w] = {}
AddBlock(bin, b) ==
  [occupied |-> [w \in DOMAIN bin.occupied |->
                   bin.occupied[w] \cup (IF w \in DOMAIN Mask(b) THEN Mask(b)[w] ELSE {})],
   blocks |-> bin.blocks \cup {b},
   size |-> Max({bin.size, b.size})]
EmptyBin(words) == [occupied |-> [w \in 0..words |-> {}], blocks |-> {}, size |-> 0]

\* The first bin the block fits into, or else a new one.
PlaceBlock(bins, b, words) ==
  LET free == {k \in DOMAIN bins : Fits(bins[k], b)}
  IN IF free = {} THEN Append(bins, AddBlock(EmptyBin(words), b))
     ELSE [bins EXCEPT ![Min(free)] = AddBlock(@, b)]

(* What is in the bins when k blocks of the list have been placed. *)
PlaceBlocks(list, words) ==
  LET placed[k \in 0..Len(list)] ==
        IF k = 0 THEN <<>> ELSE PlaceBlock(placed[k - 1], list[k], words)
  IN placed
Optimize(blocks) ==
  LET maxLifetime == Max({b.end : b \in blocks} \cup {0}) + 1
  IN PlaceBlocks(PriorityList(blocks), maxLifetime \div WordSize)[Cardinality(blocks)]

(* What StrategyValidator demands of any strategy, and a bin's size. *)
Overlap(b, c) == b.start <= c.end /\ c.start <= b.end
ValidBins(blocks, bins) ==
  /\ \A b \in blocks : Cardinality({k \in DOMAIN bins : b \in bins[k].blocks}) = 1
  /\ \A k \in DOMAIN bins :
       /\ bins[k].blocks \subseteq blocks
       /\ \A b, c \in bins[k].blocks : b # c => ~Overlap(b, c)
       /\ \A b \in bins[k].blocks : b.size <= bins[k].size

-----------------------------------------------------------------------------
(* CreateWorkingMemHandle and Allocate *)

(* A tensor handle the working memory manages: all but those of imported inputs
   and of exported outputs; an output with two Output layers is managed. *)
OutputsOf(x) == {o \in Outputs : OutputOf[o] = x}
Managed(src) ==
  (IF src.inputs THEN {} ELSE Inputs)
  \cup {x \in Workloads : src.outputs => Cardinality(OutputsOf(x)) # 1}

\* Both are in the order of the output slots.
ManagedHandles == [src \in Sources |-> InOrder(Managed(src))]
TensorMemoryOf == [src \in Sources |-> InOrder({b.index : b \in Blocks[src]})]

(* The bins are made once; the i-th managed handle imports the i-th memory.  A
   handle that is not managed has no memory until a buffer is imported onto it. *)
Bins == [src \in Sources |-> Optimize(Blocks[src])]
NoMemory == <<"none", 0>>
BinOf(x, src) ==
  LET i == CHOOSE k \in DOMAIN ManagedHandles[src] : ManagedHandles[src][k] = x
      index == TensorMemoryOf[src][i]
  IN CHOOSE k \in DOMAIN Bins[src] : \E b \in Bins[src][k].blocks : b.index = index
MemoryOf(x, src) ==
  IF x \in Managed(src) THEN <<"bin", BinOf(x, src)>> ELSE NoMemory
=============================================================================
