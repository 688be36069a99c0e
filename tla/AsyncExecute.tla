------------------------------ MODULE AsyncExecute ------------------------------
(***************************************************************************)
(* Execution of one loaded network with working memory handles             *)
(* (src/armnn: Execute, ImportInputs, ImportOutputs, ClearImportedInputs,  *)
(* ClearImportedOutputs and CreateWorkingMemHandle of LoadedNetwork.cpp,   *)
(* and WorkingMemHandle.cpp).                                              *)
(*                                                                         *)
(* Each thread executes with a handle of its own.  A handle has a tensor   *)
(* handle per tensor and, per workload, a descriptor of pointers to them.  *)
(* A caller may import buffers once and pass their ids instead of tensors: *)
(* Execute swaps the pointers of the imported tensors for the run.  With a *)
(* memory source, Execute imports the buffer of a tensor that is passed    *)
(* onto the tensor's handle, where it stays after the run.  What a piece   *)
(* of memory holds is a tensor of a run, or Wrong.  Constants and          *)
(* decorated handles are left out.                                         *)
(***************************************************************************)
EXTENDS TensorMemory

CONSTANTS
  Callers,   \* the threads that call Execute
  Imports,   \* the memory sources the network may be loaded with
  MaxRuns,   \* bound: calls of Execute
  MaxPins    \* bound: buffers imported

ASSUME AsyncExecuteAssumption ==
  /\ Workloads # {}
  /\ \A w \in Workloads : Len(Reads[w]) \in 1..3
  /\ Imports \subseteq Sources
  /\ MaxRuns \in Nat /\ MaxPins \in Nat

Wrong == <<0, 0>>
Own == [kind |-> "own"]

(* The pointers of a descriptor: what a workload reads, what it writes, and
   what the descriptor of an Output layer, which nothing executes, reads. *)
Positions ==
  {<<"read", s[1], s[2]>> : s \in ReadSlots}
  \cup {<<"write", w, 1>> : w \in Workloads}
  \cup {<<"output", o, 1>> : o \in Outputs}

TensorAt(p) ==
  CASE p[1] = "read" -> Reads[p[2]][p[3]]
    [] p[1] = "write" -> p[2]
    [] p[1] = "output" -> OutputOf[p[2]]

VARIABLES
  import,  \* m_InputSource and m_OutputSource
  inPins,  \* m_PreImportedInputHandles: the binding, and whether it is alive
  outPins, \* m_PreImportedOutputHandles
  outData, \* per output pin: the contents of the caller's buffer
  ptr,     \* per thread: where each position of its handle points
  mem,     \* per thread and tensor: where the memory of its own handle is
  data,    \* per thread: what its memory and its caller's buffers hold
  step,    \* per thread: where it is in Execute
  call,    \* per thread: the arguments of Execute
  runs     \* per thread: the number of the run

pinVars == <<inPins, outPins>>
memVars == <<mem, data>>
executeVars == <<import, pinVars, outData, ptr, memVars, step, call, runs>>

NoCall == [inputs |-> {}, preIn |-> {}, outputs |-> {}, preOut |-> {},
           next |-> 1, ok |-> TRUE]
Handle == [p \in Positions |-> Own]

(* Where the memory of the handles is: at first where Allocate puts it, and then
   in the caller's buffer, the last one passed for a binding, that was imported
   last onto the handle. *)
Place == [src \in Sources |-> [x \in Tensors |-> MemoryOf(x, src)]]
Buffer(b) == <<"buffer", b>>
Places ==
  ({Place[src][x] : x \in Tensors, src \in Imports} \ {NoMemory})
  \cup {Buffer(b) : b \in Inputs \cup Outputs}
Contents == [m \in Places |-> Wrong]
Holds(t, x) == data[t][mem[t][x]] = <<x, runs[t]>>

ExecuteInit ==
  /\ import \in Imports
  /\ inPins = <<>> /\ outPins = <<>> /\ outData = <<>>
  /\ ptr = [t \in Callers |-> Handle]
  /\ mem = [t \in Callers |-> Place[import]]
  /\ data = [t \in Callers |-> Contents]
  /\ step = [t \in Callers |-> "idle"]
  /\ call = [t \in Callers |-> NoCall]
  /\ runs = [t \in Callers |-> 0]

-----------------------------------------------------------------------------
(* Import and clear: "must not be used while other threads are calling
   Execute()". *)

Quiet == \A t \in Callers : step[t] \in {"idle", "threw"}

(* A tensor that cannot be imported leaves no pin and throws; those before it
   in the same call keep their pins. *)
ImportInput(i) ==
  /\ Quiet /\ Len(inPins) + Len(outPins) < MaxPins
  /\ inPins' = Append(inPins, [binding |-> i, live |-> TRUE])
  /\ UNCHANGED <<import, outPins, outData, ptr, memVars, step, call, runs>>

ImportOutput(o) ==
  /\ Quiet /\ Len(inPins) + Len(outPins) < MaxPins
  /\ outPins' = Append(outPins, [binding |-> o, live |-> TRUE])
  /\ outData' = Append(outData, Wrong)
  /\ UNCHANGED <<import, inPins, ptr, memVars, step, call, runs>>

ClearImportedInput(id) ==
  /\ Quiet /\ inPins[id].live
  /\ inPins' = [inPins EXCEPT ![id].live = FALSE]
  /\ UNCHANGED <<import, outPins, outData, ptr, memVars, step, call, runs>>

ClearImportedOutput(id) ==
  /\ Quiet /\ outPins[id].live
  /\ outPins' = [outPins EXCEPT ![id].live = FALSE]
  /\ UNCHANGED <<import, inPins, outData, ptr, memVars, step, call, runs>>

-----------------------------------------------------------------------------
(* WorkingMemHandle *)

InputConnections(i) ==
  {p \in Positions : p[1] # "write" /\ TensorAt(p) = i}

(* Outputs that share a tensor cannot be imported: they have no entry in
   m_OutputConnectionMap.  An entry has the slots that read the tensor. *)
Shared(o) == \E q \in Outputs \ {o} : OutputOf[q] = OutputOf[o]
OutputConnections(o) ==
  {p \in Positions : p[1] # "write" /\ TensorAt(p) = OutputOf[o]}

(* Distinct ids of live pins, and every binding exactly once. *)
LiveInput(id) == id \in DOMAIN inPins /\ inPins[id].live
LiveInputUnchecked(id) == id \in DOMAIN inPins
ValidateImportedInputID(id) == LiveInput(id)
ValidateImportedOutputID(id) == id \in DOMAIN outPins /\ outPins[id].live
ValidateBindingIds(c) ==
  LET inIds == {inPins[id].binding : id \in c.preIn}
      outIds == {outPins[id].binding : id \in c.preOut}
  IN /\ Cardinality(c.inputs) + Cardinality(c.preIn) = Cardinality(Inputs)
     /\ Cardinality(c.outputs) + Cardinality(c.preOut) = Cardinality(Outputs)
     /\ c.inputs \cup inIds = Inputs
     /\ c.outputs \cup outIds = Outputs

\* The connections of the imported tensors point to their own handles again.
SwappedPositions(c) ==
  (UNION {InputConnections(inPins[id].binding) : id \in c.preIn})
  \cup (UNION {OutputConnections(outPins[id].binding) : id \in c.preOut})
ResetInputsOnly(h, c) ==
  [p \in Positions |->
     IF p \in UNION {InputConnections(inPins[id].binding) : id \in c.preIn}
     THEN Own ELSE h[p]]
ResetMemHandle(h, c) ==
  [p \in Positions |-> IF p \in SwappedPositions(c) THEN Own ELSE h[p]]

-----------------------------------------------------------------------------
(* Execute *)

(* What the caller may pass: tensors, and ids of buffers imported before. *)
Arguments ==
  [inputs : SUBSET Inputs, preIn : SUBSET DOMAIN inPins, outputs : SUBSET Outputs,
   preOut : SUBSET DOMAIN outPins, next : {1}, ok : {TRUE}]

(* A call that does not validate throws before it changes anything.  Two
   calls under way do not write to the same imported buffer. *)
Begin(t) ==
  /\ step[t] = "idle" /\ FoldFunction(+, 0, runs) < MaxRuns
  /\ step' = [step EXCEPT ![t] = "inputs"]
  /\ \E c \in Arguments :
       /\ \A id \in c.preIn : ValidateImportedInputID(id)
       /\ \A id \in c.preOut : ValidateImportedOutputID(id)
       /\ ValidateBindingIds(c)
       /\ \A u \in Callers \ {t} : step[u] \notin {"idle", "threw"} => call[u].preOut \cap c.preOut = {}
       /\ call' = [call EXCEPT ![t] = c]
  /\ runs' = [runs EXCEPT ![t] = @ + 1]
  /\ UNCHANGED <<import, pinVars, outData, ptr, memVars>>

\* Import: the handle of x has its memory in the buffer of buffers[x] now.
Imported(h, buffers) ==
  [x \in Tensors |-> IF x \in DOMAIN buffers THEN Buffer(buffers[x]) ELSE h[x]]
Unimported(h, x) == [h EXCEPT ![x] = NoMemory]
InputBuffers(ids) == [i \in ids |-> i]

\* EnqueueInput for the tensors, then the pointers of the imported inputs.
PinsAt(c, p) == {id \in c.preIn : p \in InputConnections(inPins[id].binding)}
Swapped(h, c, places) ==
  [p \in Positions |->
     IF p \in places /\ PinsAt(c, p) # {}
     THEN [kind |-> "in", id |-> CHOOSE id \in PinsAt(c, p) : TRUE]
     ELSE h[p]]
SwapFirstSlots(h, c) == Swapped(h, c, {p \in Positions : p[3] = 1})
SwapInputs(h, c) == Swapped(h, c, Positions)

PrepareInputs(t) ==
  LET inputs == call[t].inputs
      at == Imported(mem[t], InputBuffers(IF import.inputs THEN inputs ELSE {}))
  IN /\ step[t] = "inputs"
     /\ mem' = [mem EXCEPT ![t] = at]
     /\ data' = [data EXCEPT ![t] =
          [m \in Places |-> IF \E x \in inputs : at[x] = m
                            THEN <<CHOOSE x \in inputs : at[x] = m, runs[t]>> ELSE @[m]]]
     /\ ptr' = [ptr EXCEPT ![t] = SwapInputs(@, call[t])]
     /\ step' = [step EXCEPT ![t] = "outputs"]
     /\ UNCHANGED <<import, pinVars, outData, call, runs>>

\* EnqueueInput throws when a tensor cannot be imported, with some done before.
PrepareInputsThrows(t) ==
  /\ step[t] = "inputs" /\ import.inputs
  /\ \E i \in call[t].inputs : \E done \in SUBSET (call[t].inputs \ {i}) :
       mem' = [mem EXCEPT ![t] = Unimported(Imported(@, InputBuffers(done)), i)]
  /\ step' = [step EXCEPT ![t] = "threw"]
  /\ UNCHANGED <<import, pinVars, outData, ptr, data, call, runs>>

SwapOutputs(h, ids) ==
  [p \in Positions |->
     LET hits == {id \in ids : p \in OutputConnections(outPins[id].binding)}
     IN IF hits = {} THEN h[p] ELSE [kind |-> "out", id |-> CHOOSE id \in hits : TRUE]]

(* ImportOutputTensor for each output in ids, in the caller's order: of those
   that share a tensor, and so a handle, the last one keeps it. *)
OutputBuffers(ids) ==
  {last \in [{OutputOf[o] : o \in ids} -> ids] : \A x \in DOMAIN last : OutputOf[last[x]] = x}
ImportOutputTensors(t) ==
  \E last \in OutputBuffers(IF import.outputs THEN call[t].outputs ELSE {}) :
    mem' = [mem EXCEPT ![t] = Imported(@, last)]

PrepareOutputs(t) ==
  /\ step[t] = "outputs"
  /\ \A id \in call[t].preOut : ~Shared(outPins[id].binding)
  /\ ImportOutputTensors(t)
  /\ ptr' = [ptr EXCEPT ![t] = SwapOutputs(@, call[t].preOut)]
  /\ step' = [step EXCEPT ![t] = "workloads"]
  /\ UNCHANGED <<import, pinVars, outData, data, call, runs>>

(* ImportOutputTensor throws when the caller's memory cannot be exported to,
   and GetOutputConnection when the output is a shared one: not in the try
   block, so the pointers stay as they are. *)
PrepareOutputsThrows(t) ==
  /\ step[t] = "outputs"
  /\ \/ /\ import.outputs
        /\ \E o \in call[t].outputs : \E done \in SUBSET (call[t].outputs \ {o}) :
             \E last \in OutputBuffers(done) :
               mem' = [mem EXCEPT ![t] = Unimported(Imported(@, last), OutputOf[o])]
        /\ UNCHANGED ptr
     \/ /\ \E id \in call[t].preOut : Shared(outPins[id].binding)
        /\ ImportOutputTensors(t)
        /\ \E done \in SUBSET {id \in call[t].preOut : ~Shared(outPins[id].binding)} :
             ptr' = [ptr EXCEPT ![t] = SwapOutputs(@, done)]
  /\ step' = [step EXCEPT ![t] = "threw"]
  /\ UNCHANGED <<import, pinVars, outData, data, call, runs>>

(* What workload w of thread t finds at a position: this run's data?  An
   imported input buffer has been filled by the caller that passes its id. *)
Fresh(t, p) ==
  LET h == ptr[t][p]
  IN CASE h.kind = "own" -> Holds(t, TensorAt(p))
       [] h.kind = "in" ->
            h.id \in call[t].preIn /\ inPins[h.id].binding = TensorAt(p)
       [] h.kind = "out" -> outData[h.id] = <<t, runs[t]>>

ReadPositions(w) == {p \in Positions : p[1] = "read" /\ p[2] = w}
HasMemory(t, p) == ptr[t][p] = Own => mem[t][TensorAt(p)] # NoMemory

ExecuteWorkload(t) ==
  LET w == call[t].next
      target == ptr[t][<<"write", w, 1>>]
      here == mem[t][w]
      good == \A p \in ReadPositions(w) :
                /\ Fresh(t, p)
                /\ ptr[t][p] = Own /\ target = Own => mem[t][TensorAt(p)] # here
  IN /\ step[t] = "workloads"
     /\ \A p \in ReadPositions(w) \cup {<<"write", w, 1>>} : HasMemory(t, p)
     /\ IF target.kind = "own"
        THEN /\ data' = [data EXCEPT ![t][here] = IF good THEN <<w, runs[t]>> ELSE Wrong]
             /\ UNCHANGED outData
        ELSE /\ outData' = [outData EXCEPT ![target.id] =
                              IF good THEN <<t, runs[t]>> ELSE Wrong]
             /\ UNCHANGED data
     /\ call' = [call EXCEPT ![t].next = w + 1]
     /\ step' = [step EXCEPT ![t] = IF w + 1 \in Workloads THEN @ ELSE "copy"]
     /\ UNCHANGED <<import, pinVars, ptr, mem, runs>>

(* A workload throws and the rest is skipped.  After a runtime error the outputs
   are still copied; any other exception, such as that of a handle without memory
   (NullPointerException), leaves Execute once the pointers are restored. *)
WorkloadThrows(t) ==
  /\ step[t] = "workloads"
  /\ ptr' = [ptr EXCEPT ![t] = ResetMemHandle(@, call[t])]
  /\ \/ /\ call' = [call EXCEPT ![t].ok = FALSE]
        /\ step' = [step EXCEPT ![t] = "copy"]
     \/ /\ call' = [call EXCEPT ![t] = NoCall]
        /\ step' = [step EXCEPT ![t] = "idle"]
  /\ UNCHANGED <<import, pinVars, outData, memVars, runs>>

\* CopyToOutputTensor fills every tensor passed, when nothing was exported.
CopyOutputs(t) ==
  /\ step[t] = "copy" /\ ~import.outputs
  /\ data' = [data EXCEPT ![t] =
       [m \in Places |-> IF m \in {Buffer(o) : o \in call[t].outputs}
                         THEN @[mem[t][OutputOf[m[2]]]] ELSE @[m]]]
  /\ step' = [step EXCEPT ![t] = "return"]
  /\ UNCHANGED <<import, pinVars, outData, ptr, mem, call, runs>>

(* Otherwise MemSyncOutputs maps the handle that each output which shares no
   tensor reads, and throws if it has no memory: after the failure of a run that
   passed an imported output, if no tensor was ever passed for it. *)
SyncOutputs(t) ==
  LET mapped == \A o \in Outputs : ~Shared(o) => HasMemory(t, <<"output", o, 1>>)
  IN /\ step[t] = "copy" /\ import.outputs
     /\ step' = [step EXCEPT ![t] = IF mapped THEN "return" ELSE "idle"]
     /\ call' = IF mapped THEN call ELSE [call EXCEPT ![t] = NoCall]
     /\ UNCHANGED <<import, pinVars, outData, ptr, memVars, runs>>

\* resetMemHandle, and the return.
ReturnUnswapped(t) ==
  /\ step[t] = "return"
  /\ ptr' = [ptr EXCEPT ![t] = ResetInputsOnly(@, call[t])]
  /\ call' = [call EXCEPT ![t] = NoCall]
  /\ step' = [step EXCEPT ![t] = "idle"]
  /\ UNCHANGED <<import, pinVars, outData, memVars, runs>>
ReturnFromExecute(t) ==
  /\ step[t] = "return"
  /\ ptr' = [ptr EXCEPT ![t] = ResetMemHandle(@, call[t])]
  /\ call' = [call EXCEPT ![t] = NoCall]
  /\ step' = [step EXCEPT ![t] = "idle"]
  /\ UNCHANGED <<import, pinVars, outData, memVars, runs>>

\* After an exception the caller discards the handle and creates a new one
\* (CreateWorkingMemHandle): the pointers of the old one may still be swapped.
Recover(t) ==
  /\ step[t] = "threw"
  /\ ptr' = [ptr EXCEPT ![t] = Handle]
  /\ mem' = [mem EXCEPT ![t] = Place[import]]
  /\ data' = [data EXCEPT ![t] = Contents]
  /\ call' = [call EXCEPT ![t] = NoCall]
  /\ step' = [step EXCEPT ![t] = "idle"]
  /\ UNCHANGED <<import, pinVars, outData, runs>>

Execute(t) ==
  \/ Begin(t) \/ PrepareInputs(t) \/ PrepareInputsThrows(t)
  \/ PrepareOutputs(t) \/ PrepareOutputsThrows(t)
  \/ ExecuteWorkload(t) \/ WorkloadThrows(t)
  \/ CopyOutputs(t) \/ SyncOutputs(t) \/ ReturnFromExecute(t) \/ Recover(t)

ExecuteNext ==
  \/ \E i \in Inputs : ImportInput(i)
  \/ \E o \in Outputs : ImportOutput(o)
  \/ \E id \in DOMAIN inPins : ClearImportedInput(id)
  \/ \E id \in DOMAIN outPins : ClearImportedOutput(id)
  \/ \E t \in Callers : Execute(t)

ExecuteSpec == ExecuteInit /\ [][ExecuteNext]_executeVars

-----------------------------------------------------------------------------
(* What execution rests on *)

(* Every input is read: an input that nothing reads may share its memory with
   another one. *)
InputsRead == \A i \in Inputs : \E s \in ReadSlots : Reads[s[1]][s[2]] = i

\* No workload reads a tensor that can be exported.
OnlyExported ==
  \A o \in Outputs : ~Shared(o) => \A s \in ReadSlots : Reads[s[1]][s[2]] # OutputOf[o]

-----------------------------------------------------------------------------
(* Properties *)

\* The call of t is about to return Success.
Succeeds(t) == step[t] = "return" /\ call[t].ok

\* The buffer of output o that the call of t passed has this run's data.
Filled(t, o) == data[t][Buffer(o)] = <<OutputOf[o], runs[t]>>

\* The outputs this call has passed that are connected to the tensor of o.
SameTensor(t, o) == {q \in call[t].outputs : OutputOf[q] = OutputOf[o]}

(* "Evaluates a network using input in inputTensors and outputs filled into
   outputTensors": each tensor the caller passed is filled with the data of
   this run, whatever mixture of tensors and imported ids this call and those
   before it use; of those that share an exported tensor ("Importing in this
   case would likely cause unexpected behaviour"), one is. *)
TensorsFilled ==
  \A t \in Callers : Succeeds(t) =>
    \A o \in call[t].outputs :
      /\ (import.outputs => ~Shared(o)) => Filled(t, o)
      /\ \E q \in SameTensor(t, o) : Filled(t, q)

(* And only one: Execute imports all of them onto the handle of the tensor they
   share, where EnqueueWorkload copies such outputs to the caller. *)
OneOfShared ==
  \A t \in Callers : Succeeds(t) /\ import.outputs =>
    \A o \in call[t].outputs : \A q \in SameTensor(t, o) \ {o} :
      ~(Filled(t, o) /\ Filled(t, q))

(* The buffers imported with ImportOutputs, whose ids the caller passes instead
   of tensors, are filled as well. *)
ImportedOutputsFilled ==
  \A t \in Callers : Succeeds(t) =>
    \A id \in call[t].preOut : outData[id] = <<t, runs[t]>>

(* When Execute has returned, with Success or with Failure, the handle points
   to its own tensors again, so the next run may use other inputs. *)
HandleRestored == \A t \in Callers : step[t] = "idle" => ptr[t] = Handle

(* The i-th managed tensor handle imports the i-th piece of memory: the memory
   profile has a block for just the tensors whose handles are managed. *)
HandlesMatchBlocks == ManagedHandles[import] = TensorMemoryOf[import]

(* IMemoryOptimizerStrategy: every block is in exactly one bin, and no two
   blocks of a bin are alive in the same step, however many words of
   m_OccupiedSpaces a life takes. *)
BinsValid == ValidBins(Blocks[import], Bins[import])

(* A workload never follows a pointer to an imported buffer that the caller
   has cleared in the meantime. *)
OnlyLiveBuffers ==
  \A t \in Callers : step[t] = "workloads" =>
    \A p \in ReadPositions(call[t].next) :
      /\ ptr[t][p].kind = "in" => inPins[ptr[t][p].id].live
      /\ ptr[t][p].kind = "out" => outPins[ptr[t][p].id].live
=============================================================================
