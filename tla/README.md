# Arm NN: a verification project in TLA+

Arm NN runs neural networks on Arm CPUs, GPUs and NPUs. Most of its source is a
sequential compiler (parsers, graph optimisations, kernels); what is hard to
test is the part that runs several threads: the profiling client, which streams
packets to an external tool while inferences run, and the concurrent execution
of networks with memory that they share; and a few algorithms over graphs and
lifetimes whose mistakes show only in rare shapes. This project models those parts in TLA+, checks the
models with TLC and proves their main properties with TLAPS. Paths are relative
to the root of the repository; the code of the profiling client is in
`profiling/client/src`, that of the runtime in `src/armnn`.

- [1. The system](#1-the-system)
- [2. The modules](#2-the-modules)
- [3. The runs](#3-the-runs)
- [4. Fairness](#4-fairness)
- [5. The proofs](#5-the-proofs)
- [6. Where the code disagrees with its comments](#6-where-the-code-disagrees-with-its-comments)
- [7. What is not modelled](#7-what-is-not-modelled)
- [8. Plan](#8-plan)

## 1. The system

### Threads and how they meet

    owner's thread ----- Update, Stop, Reset ------------------------------+
       |  starts, joins          |  starts, joins       | joins            |
       v                         v                      v                  v
    command thread --start--> capture thread        send thread      ProfilingConnection
       |    ^  handlers          |                      |   ^              ^   |
       |    |                    |                      |   |              |   |
       |    +--- ReadPacket -----+------------ <--------+---+--------------+---+
       |                         |                      |   WritePacket
       v                         v                      v
       +---- Reserve, Commit --> BufferManager <-- GetReadableBuffer, MarkRead
                                   ^
    inference threads ---Reserve---+   (SendTimelinePacket, SendCounterPacket)

    clients --Schedule--> Threadpool queues --> pool threads --Notify--> AsyncCallbackManager
                                                     |
                                                     v  Execute, a handle per thread
    callers --EnqueueWorkload--> Runtime (map, lock) --> LoadedNetwork (working memory, imported buffers)

### Components

| Component | State | Operations | What makes it hard | What makes it correct |
|---|---|---|---|---|
| **Buffer pool** `BufferManager.cpp` | available list, readable queue, count of existing buffers, two mutexes | Reserve, Commit, Release, GetReadableBuffer, MarkRead, Reset | many builders and one reader; buffers leave the pool in unique_ptrs and come back, or do not; a reset under a client's feet | the count is the number of buffers that exist; memory is bounded by three times the initial size; each builder's packets stay in order |
| **Send thread** `SendThread.cpp` | state of the service (shared), keep/running flags, ready flag under a mutex, packet-sent flag | Start, Stop, Send (loop), FlushBuffer, SetReadyToRead, WaitForPacketSent | commit and notification are two steps; waits with and without timeout; a stop in any wait; a connection that closes meanwhile | nothing committed is lost or sent twice; Stop returns, after everything was flushed; the watcher of a sent packet is told |
| **Service life cycle** `ProfilingService.cpp` | options, state machine, connection, service-active flag | Configure, Update, Disconnect, Stop, Reset, destructor, Notify/WaitForProfilingServiceActivation | the owner starts and joins three threads that move the same state machine; the order of the joins | no thread outlives the connection it was given; producers stop before the consumer; Stop returns |
| **Command thread** `CommandHandler.cpp`, `ConnectionAcknowledgedCommandHandler.cpp` | keep/running flags, thread | Start, Stop, HandleCommands, the handlers | handlers that throw half-way; a connection closed by its own read | handlers act only in the states they are meant for |
| **Counter capture and selection** `PeriodicCounterCapture.cpp`, `PeriodicCounterSelectionCommandHandler.cpp`, `Holder.cpp` | capture data, thread, a plain bool m_IsRunning | Start, Stop, Capture, the selection handler | started and joined by two different threads; works on a copy of the selection; tells backends differences from a memory that a reset does not clear | one capture thread at a time, only when Active, with a selection at most one round of packets old; every backend has the counters of the last selection |
| **Other handlers** timeline activation, directory request, per-job selection | the timeline flag | one handler each | the flag survives a disconnection | each connection gets its labels |
| **Packet builders** `SendCounterPacket.cpp`, `SendTimelinePacket.*` | a reserved buffer | reserve, write, commit, cancel | a write that throws | no buffer is lost |
| **Connections** `SocketProfilingConnection.cpp`, `FileOnlyProfilingConnection.cpp` | a socket, or two queues and a local handler thread | Open, Close, ReadPacket, WritePacket | closed by one thread, used by another | Close returns and joins the handler thread |
| **Thread pool** `Threadpool.cpp` | three priority queues, terminate flag, threads with two counts each, working memory handles | Load/UnloadMemHandles, Schedule, TerminateThreadPool, ProcessExecPriorities | lost wakeups, starvation, termination with work queued | every request runs once and is notified, whatever its priority; the destructor drains and returns |
| **Callbacks** `AsyncExecutionCallback.cpp` | map of callbacks, notification queue | GetNewCallback, Notify, GetNotifiedCallback | shared by clients and pool threads | a notified callback is found |
| **Runtime** `Runtime.cpp`, `LoadedNetwork.cpp` | network map, one lock, working memory and its lock per network, the last network of each thread | LoadNetwork, UnloadNetwork, EnqueueWorkload, CreateWorkingMemHandle | a thread that moves on frees memory another may use, or of a network that is gone; it waits for a run under the lock of the runtime | memory is there while a run lasts and not for ever; the lock is released |
| **Execution with handles** `LoadedNetwork.cpp`, `WorkingMemHandle.cpp` | a table of tensor pointers and memory per handle; imported buffers by id | Execute, ImportInputs, ImportOutputs, ClearImported*, CreateWorkingMemHandle | pointers replaced for one run and put back; buffers imported onto handles, where they stay; exceptions between; buffers cleared by id; tensors that share memory | outputs are this run's; a handle is as new after a run; no cleared buffer is used |
| **Graph, optimiser, backend assignment** `Graph.cpp`, `Network.cpp`, `SubgraphViewSelector.cpp` | a graph; disjoint sets of layers with their dependencies | TopologicalSort, SelectSubgraphs, AssignBackends | merging subgraphs must not close a cycle | the result can be sorted; every layer gets a subgraph, a backend or an error |
| **Memory strategies** `memoryOptimizerStrategyLibrary` | none (pure) | Optimize, validate | lifetimes kept as bits of words | blocks alive together do not overlap in memory |
| **Backends, parsers, serialiser, delegate, profiling server** | - | - | sequential translation and numerical code | not the subject of a finite-state model |

## 2. The modules

| Module | Models | Composed of | Proofs |
|---|---|---|---|
| `BufferManager` | the pool, for any writers and one reader | - | `BufferManagerProofs` |
| `SendThread` | the send thread, its clients, the calls of the service | an instance of `BufferManager` | `SendThreadProofs` |
| `ProfilingService` | owner, command and capture threads, the life of the send thread | - | `ProfilingServiceProofs` |
| `Threadpool` | the pool, its clients and owner, the callback manager | - | `ThreadpoolProofs` |
| `FileOnlyConnection` | the connection that stays in the process: its handler thread, writer, reader and owner | implements `PacketDelivery` | `FileOnlyConnectionProofs` |
| `PacketDelivery` | the promise of a connection with local handlers | - | - |
| `CounterSelection` | the selection handler, its memory, the backends, the capture data and the capture thread, stops and resets | - | `CounterSelectionProofs` |
| `Runtime` | the networks of one runtime and the working memory of the synchronous ones | - | `LoadedNetworkProofs` |
| `TensorMemory` | the memory profile of a network, the strategy, the memory of each tensor handle | - | `LoadedNetworkProofs` |
| `AsyncExecute` | execution with working memory handles and imported buffers | extends `TensorMemory` | `LoadedNetworkProofs` |
| `SubgraphSelector` | the split of a graph into subgraphs | - | `SubgraphSelectorProofs` |

Each `MC*` module extends one of them for TLC.

### BufferManager

One action is one critical section. Buffers are interchangeable, because each
reservation overwrites what a buffer held, so `m_AvailableList` is kept as its
length `available`; the readable queue keeps the packets themselves (who built
it, its number, its size). `writing` and `reading` are the unique_ptrs in
flight. `current` is `m_CurrentNumberOfBuffers`.

| Action | Code |
|---|---|
| `Reserve` | `BufferManager::Reserve`: from the list, or a counted surge buffer |
| `Commit` | `Commit`, up to the notification (a step of `SendThread`) |
| `Release`, `MarkRead` | both put the buffer back or destroy it (`ReturnBuffer`) |
| `Drop` | a `SendTimelinePacket` destroyed with a reserved buffer: the pool is not told |
| `GetReadableBuffer` | the same |
| `Reset` | `ProfilingService::Reset`, which calls it once its own threads are joined: only `Clients` may still hold a buffer |

The history variables are the numbers of the packets each writer committed and
the reader took, the buffers dropped, and those carried across the last reset.
The bounds `MaxPackets` (in `Commit`) and `Sizes` are on the environment.

### SendThread

`pc` is where the thread is in `Send`: `check` (the switch on the state),
`metadata` and `commitMetadata` (SendStreamMetaDataPacket), `waitAck`,
`waitData`, `flush`, `write`, `markRead` (FlushBuffer, called from three places:
`flushing` says which), `test` (the loop condition), and its ends: `done`,
`refused` (a thread that finds the service unconnected), `terminated` (an
exception nothing catches). The condition variable and its predicate are under
one mutex, so a wait is an await of `ready`, or, with a timeout, a step that may
also be taken when `ready` is false.

Clients reserve, commit and then, in a second step, call `SetReadyToRead`; or
are refused; or give up. The main thread's `Stop` is three steps (flag, kick,
join) and `AfterStop` is what ProfilingService does next: it connects, closes,
or closes and resets the pool. `Acknowledge` is the command thread and
`ConnectionLost` the peer; `WaitForPacketSent` is a watcher.

`RefinesBufferManager` states that every step of this composition is a step of
`BufferManager!Spec` or leaves the pool alone: the assumption that module makes
about `Reset` (nobody but a client holds a buffer) is here a consequence of the
order of the calls of ProfilingService.

### ProfilingService

Three threads: the owner (`main`, with `todo` the components still to stop and
`purpose` why), the command thread (`cmd`, `packet`) and the capture thread
(`cap`, `capturing`). Of the send thread only its life is here. For each of the
three `Components`, `thread` is the std::thread (`none`: not joinable), and
`running` and `keep` its flags.

| Action | Code |
|---|---|
| `ResetExternalProfilingOptions`, `ConfigureDisabled`, `UpdateInitialise`, `UpdateConnect`, `UpdateStart`, `Disconnect`, `Destroy` | the calls of the owner, each a begin; `BeginStop` is the first part of `Stop` |
| `StopSignal`, `StopJoin` | the Stop of one component: the flag, then the join |
| `Connect`, `CloseConnection` | the end of `Update` in NotConnected, of `Stop` and of `Reset` |
| `StartCommand`, `StartSend` | the end of `Update` in WaitingForAck |
| `ReadNothing`, `ReadFails`, `ReadAcknowledgement`, `ReadSelection` | the outcomes of `ReadPacket` in `HandleCommands` |
| `Acknowledge`, `Announce`, `NotifyProfilingServiceActive` | the acknowledgement handler, in its order; `Announce` may throw |
| `Select`, `Echo`, `StopCapture`, `JoinCapture`, `StartCapture` | the selection handler, in its order; the first two may throw |
| `TestCommand` | the loop condition, and the end of the thread |
| `ReadCaptureData`, `SendCapture`, `TestCapture` | a round of `Capture`: the copy of the capture data, each packet sent with it, the loop condition |
| `SendMetadataFails`, `SendEnds` | what the others see of the send thread |

A selection is a model value or `Off`, which stands for every selection that
captures nothing. A round sends a packet for the counters of the runtime and one for
each timestamp of each active backend: any number up to `MaxReports`, with `left`
still to go. A packet buffer may be refused at any time; where no handler
catches that, the process terminates (`terminated`) and nothing moves.

### Threadpool

`pc[t]` is `test` (wants the mutex to test the predicate), `blocked` (in
`wait`), `execute` (outside the mutex) or `done`. Test and block are one step,
as the mutex makes them. `notify_one` wakes one blocked thread if there is one,
and a blocked thread may wake by itself. `TakeHigh`, `TakeMedium`, `TakeLow` and
`Expire` are the four branches of the priority scheme, with its two counts per
thread. `Execute` runs a request: notified, whether it succeeds or fails with a
RuntimeException; any other exception leaves the thread (`aborted`).
`SetMemHandles` loads or unloads the network at any moment, since it takes no
lock. The destructor is `SetTerminate`, `NotifyAll`, `Join`.

A request is the callback it is scheduled with; `GetNotifiedCallback` returns it
and it may be used again, so that a few of them are an endless stream.

### FileOnlyConnection and PacketDelivery

The handler thread's `pc` follows `ServiceLocalHandlers`: `test` and `blocked`
(the wait), `dispatch` (a packet may have been taken; the flag is tested once
more), `handle` (the handlers have it), `loop` (the loop condition), `fail` and
`done`. A packet has a number, the order in which the send thread wrote it, and
a kind, what the handlers do with it: nothing (`plain`), an acknowledgement
(`metadata`), or an exception (`refused`).

| Action | Code |
|---|---|
| `TestReadable`, `Timeout`, `SpuriousWakeup` | the wait, with `Take` after it, under one mutex |
| `SkipDispatch`, `BeginDispatch`, `Dispatch`, `HandlerThrows`, `JoinItself`, `Loop` | the rest of the round; a handler that throws ends the process, whether its exception leaves the thread or `Fail` closes the connection from the thread that `Close` joins |
| `WritePacket`, `Push`, `Notify` | the send thread, with the two tests of `m_KeepRunning`; the notification is outside the mutex |
| `ReadPacket` | the command thread |
| `Close`, `DumpUnread`, `StopHandlers`, `NotifyStop`, `JoinHandlers` | `Close`, in its order |

`PacketDelivery` says what is promised: what is written is handled once, in
order; only after the connection is told to close may the rest be thrown away,
from the front. Under the refinement a packet taken and not yet dispatched is
still pending, so the step that loses it (`SkipDispatch`) is a `Discard`.
`AnsweredInOrder` is the same for the way back.

### CounterSelection

The state is what `PeriodicCounterSelectionCommandHandler` remembers between
selections (`mapped`, the keys of `m_BackendCounterMap`; `listed`, how often a
counter is in the vector of its backend; `prevIds`; `prevPeriod`), what the
backends were told last (`told`), the capture data (`holder`), and the capture
thread with its copy. `Select` is `operator()` up to the new capture data, with
`ProcessBackendCounterIds` in it: the operators `Unused`, `New`, `Listed`,
`Emptied`, `Changed`, `Notified`, `Told` and `Active` are its parts, in its
order. `Throws` says when it leaves with an exception instead, and
`SelectThrows` what it has changed by then. `SetCaptureData`, `Echo`,
`StartCapture`, `StopCapture`, `JoinCapture` are the rest of the handler;
`ReadCaptureData`, `Report`, `TestCapture` the capture thread; `BeginStop`,
`EndStop`, `Reset`, `Connect` the owner. Of the registrations only presence is
kept: a reset empties the counter ids and the profiling contexts, and the next
connection registers the counters of the runtime, not those of the backends,
which were registered by the constructor of the runtime.

### Runtime

`pc[t]` is where thread `t` is in its call on network `on[t]`: `load`, `found`
(`GetLoadedNetworkPtr` has returned), `freeing` and `freed` (in
`LoadedNetworkFuncSafe`, with `m_Mutex`, before and after `FreeWorkingMemory`),
`run`, `executing` (with `m_WorkingMemMutex`). `last[t]` is `lastId`, a
`thread_local` of `EnqueueWorkload` and another of `CreateWorkingMemHandle`: one
per kind of network. A network is asked for by an id that was given out, at any
time, and `UnloadNetwork` destroys it, memory included. Three things are left to
the callers, as the code does: networks are loaded one at a time (the id counter
is a plain int), a synchronous network is called by one thread at a time (its
queues are not guarded), and a network is not unloaded during a call on it.
What no caller can see to is the network that a thread remembers: that is
what the properties are about.

### TensorMemory and AsyncExecute

`TensorMemory` is pure. `Blocks` is `CreateMemoryProfileAsync` with its time
steps (`Timestep`), which imported inputs and exported outputs do not get (only
`Kept` layers do). A sorted list is `Ranked` by a strict order: `Precedes` is the
one of `TopologicalSort`, `Before` the one of the strategy, ties included.
`Optimize` is `SingleAxisPriorityList`, whose bins keep the steps in use as bits
of words (`Mask`); `ValidBins` is `StrategyValidator`, and `Bins` are the bins of
the network, made once for its memory `Sources` (which of the inputs and outputs the
caller provides memory for, each or both). `MemoryOf` says which
memory a tensor handle gets: `CreateWorkingMemHandle` lists the managed handles, the
profile lists its blocks, and `Allocate` gives the i-th of these to the i-th of
those.

`AsyncExecute` has threads (`Callers`) with a handle each; `step` is where one is in `Execute`. `ptr[t][p]` is where a position of
its descriptors points (a workload's input or output, or the slot of an Output
layer): to the handle's own tensor or to an imported buffer. `mem[t][x]` is where the
handle of tensor `x` has its memory: in a bin, nowhere yet, or, once a buffer
was imported onto it, in that buffer, one per binding; the buffers a caller passes
for different bindings are taken to be different. `data[t]` is what each piece of
memory, the buffers included, holds: a tensor of a run or `Wrong`, so that a tensor
overwritten too early, or an input slot that was not redirected, shows in the
result.

A call (`Begin`) has any mixture of tensors and imported ids that
`ValidateBindingIds` accepts. `PrepareInputs` and `PrepareOutputs` copy the inputs
or, with a memory source, import the tensors onto their handles (`Imported`,
`ImportOutputTensors`: of several outputs of one tensor the last stays), and swap the
pointers of the imported ids. `ExecuteWorkload` follows; `CopyOutputs` fills the caller's
buffers when outputs are copied, `SyncOutputs` maps the handles when they are
exported, and `ReturnFromExecute` swaps the pointers back. The actions with `Throws` are
the exceptions: after those of a workload the pointers are swapped back and Execute
goes on to the copy or, for an exception of another kind, is left at once; the others
leave the pointers as they are, and the caller makes a new handle (`Recover`).
`ExecuteWorkload` is not enabled on a handle without memory: there only
`WorkloadThrows` is. Imports and clearings
happen while nobody executes, as `IRuntime.hpp` asks. Two conditions on the
network delimit what execution promises (section 6, 14 and 15): `InputsRead` and
`OnlyExported`.

### SubgraphSelector

A layer is a number, and reads only smaller ones. `Orders` are the orders in
which the connections of an output slot can have been made, and the layers added:
they decide in which order the queue is worked off. The trees
of `m_Parent` pointers are kept as what `GetRepresentative` returns (`rep`);
`antes` and `deps` are the two sets of a partial subgraph. An action is one
turn of one of the loops: `PutAside` and `Take` of the queue, `MergeInput` and
`RecordInput` for one input of `AssignSplitId`, with `Settle` and `Finish` between.
`MergeWith` and `AddDirectAntecedent` are the set operations in the code's order.
`SetsTransitive` is what the comment of `m_Antecedents` says of one of them ("either
directly or indirectly"), and `WalkIsComplete` what the walk has done when it ends.
`Unit` is what becomes one layer when the selected subgraphs are replaced.

## 3. The runs

| Run | Instance | Shows |
|---|---|---|
| `pool` | 3 writers (one client), 1 buffer, surge 3, 2 packets per writer | the count, the memory bound and the order of the queue, with drops and resets |
| `send` | 1 client, 1 buffer, 2 packets of size 0 or 1, 2 sessions, a wait with a timeout | the refinement of `BufferManager`, `WireInOrder`, `StopFlushes` |
| `send_live` | 1 packet, 1 session, waits with and without a timeout | `CommittedIsTaken`, `SentIsAnnounced`, and `StopReturns` even when only a notification ends the wait |
| `service` | 2 selections, 2 connections, rounds of 2 packets | the life-cycle invariants, `ProducersStoppedFirst`, `StopReturns` |
| `threadpool` | 2 threads, 3 requests (one malformed), expire rate 1 | `OneCopy`, `SomeoneAwake`, `DrainedWhenJoined`, `BypassBounded`, `ScheduledIsNotified`, `TerminateReturns` |
| `file_conn` | 4 packets of 3 kinds, waits with and without a timeout | the refinement of `PacketDelivery`, `AnsweredInOrder`, `WrittenIsHandled`, and `CloseReturns` with a timeout |
| `selection` | 2 backends with 2 and 1 counters, 1 counter of the runtime, 1 unknown id, 4 periods of which one is too short | `BackendsFollowSelection`, `ListedOnce`, `CaptureFindsContext` |
| `runtime` | 3 threads, 2 networks, synchronous or not | `FreesLoadedNetwork`, `ExecutingHasMemory`, `MemoryHasUser`, `MutexReleased` |
| `async` | 2 threads, 2 inputs, 3 workloads, 3 outputs of which two are one tensor, words of 2 bits, 2 runs, 2 imported buffers, each of the four memory sources | `TensorsFilled`, `HandleRestored`, `OnlyLiveBuffers`, `HandlesMatchBlocks`, `BinsValid` |
| `async_outputs` | the same network, 1 thread, 2 runs | the violation of section 6 |
| `subgraphs` | 720 graphs of 5 layers with 1 or 2 inputs and layers that read 1 or 2 others, connected in any order, every selection | `SubgraphsAcyclic`, `SetsMirror`, `EveryLayerAssigned` |
| `subgraphs_merge` | one graph of 8 layers, connected in any order, every selection | the violation of section 6 |

Safety and liveness share a run where the instance is small enough for both, as it
is for all but the send thread. Symmetry is used for the threads of `async`, whose
properties are all invariants, and nowhere else. Type invariants are theorems
(section 5) where a module has proofs.

**Why the bounds are enough.** With one initial buffer the pool has three with
its surge: three writers can exhaust it, and a fourth holder cannot exist, so
the boundaries of Reserve and of the return (`<=`, which keeps one more buffer
than the initial number) are all reached. Two packets per writer distinguish
order from presence. Two sessions let a thread meet what an earlier one left
(flags, a queue, a notification, a selection). Two selections are the least for
one to replace another, and two packets of a round for the first to be sent before
that and the second after it. With an expire rate of one, two requests of a class exceed it and
all four branches are taken; two threads suffice for a lost wakeup and three
requests for one of each priority, used again and again. Four packets let the
connection hold two in its list while one is handled and one was acknowledged.
A backend with two counters can lose one of them, or both at once, while the
other backend keeps its own. Three threads are one that runs, one that moves on
and one that only remembers; two networks are the least to move between. In
`async` a tensor is read twice by one workload and another by two, one output
tensor has two names, two tensors share a piece of memory, lives take one word of
two bits, two, or three, and two runs let a handle be used again after one with
other imports, or two handles at once (792,369 distinct states); the `NetworkAssumption` of its module has TLC evaluate the
conditions of the theorems on this network. The proofs of section 5 remove these
bounds for every module, as far as its safety properties go. Among the graphs of
`subgraphs` are all of five layers with one input, and the graph
of the violation has eight: `SubgraphsAcyclic` holds on small graphs only.

**Deadlock** is checked for the pool and the counter selection. It is not for the
others, which really stop: the process terminates, the service or the pool is
destroyed, the walk over the graph ends, or the bound on sessions, packets,
networks or runs is reached.

**Mutants.** Each property has a bug of the kind the code could have that
violates it (`PROJECT.json`, "mutants"); the definitions are in the modules,
marked *Mutant*, before the definition they replace. No specification uses them.

## 4. Fairness

Weak fairness of a thread's next step says that the operating system schedules
it and that its sleeps and timeouts end; every step of these threads that is
enabled stays enabled until it is taken or another thread takes its place. The
one exception, with strong fairness, is the timeout of `FileOnlyConnection`.

- `SendThread`: the send thread's steps, a client that committed goes on to
  notify, and a `Stop` that began goes on. Nothing says that clients commit, that
  the peer answers, or that the owner starts a thread. The final flush is finite
  because a client commits at most `MaxPackets` packets: a client that commits
  faster than the thread sends, for ever, would keep `Stop` waiting, in the
  code as well. `CommittedIsTaken` is for a timed wait, as ProfilingService makes
  it (a timeout of 1000 ms); `StopReturns` is checked for an untimed one too.
- `ProfilingService`: the owner's steps inside a call, the command thread (its
  read has a timeout), the capture thread (its sleep ends) and the end of the
  send thread (`SendThread!StopReturns` is what justifies it). The calls of the
  owner and the packets of the peer are not fair.
- `FileOnlyConnection`: the handler thread, a write and a close that began; not
  that anybody writes, reads or closes. `wait_for` has one deadline, which the
  wakeups in between do not move, so its timeout comes although it is disabled
  again and again by spurious wakeups: strong fairness. The code has a branch for
  a wait without a timeout (`m_Timeout < 0`) and always sets 1000 ms;
  `timed`, chosen in the initial state, is which. `WrittenIsHandled` is checked for
  both, so that it does not hold merely because of the timeout, and `CloseReturns`
  with one, on which it depends.
- `Threadpool`: each thread's step and the destructor's. Nothing of the clients,
  of the load and unload, nor of spurious wakeups: a property that
  needed those would hide a lost wakeup.
- `Runtime`: a thread inside a call goes on (its lock is not kept from it, the run
  it waits for ends, `LoadNetwork` returns). Nobody has to make another call. `MutexReleased`
  holds because nobody can begin a run of the network that is being freed while
  the lock is held: `GetLoadedNetworkPtr` needs that lock, and runs that found
  their network before it are finitely many.
- `SubgraphSelector`: weak fairness of the only thread.
- The other modules state no fairness: their properties are invariants.

## 5. The proofs

All theorems are for every value of the constants under the named assumption of
the module, which only says what the constants are: finite sets of writers and
of threads, natural numbers, and null values that differ from the data. They are
stated in eight modules.

**BufferManagerProofs.** `TypeCorrect`, `PoolAccountingHolds`,
`MemoryBoundedHolds`, `ReadableInOrderHolds`. `PoolInv` is the type invariant, `PoolAccounting` and the
range of the count. The accounting is inductive with the types alone: each
action moves one buffer from one place to another, and lemmas on the
cardinality of the set of holders say how it changes. The upper bound
needs the guard of `Reserve`, and the lower one the guard of `ReturnBuffer`.
The bound on memory follows from both. `ReadableInOrder` is
about positions in the queue and inductive once a writer's last packet taken is known
to be one it committed (`OrderInv`): a pop moves every position by one, a commit
adds the next number at the end.

**ThreadpoolProofs.** `TypeCorrect`, `OneCopyHolds`, `BypassBoundedHolds`,
`SomeoneAwakeHolds`, `DrainedWhenJoinedHolds`, `NoneBlockedHolds`, `DrainNearsHolds`. `PoolInv` adds: a thread has a request exactly while
it executes it; `bypass <= mediumCount * (ExpireRate + 1) + highCount`, from
which the bound (a product of two constants) follows with the ranges of the
counts; and the phases of flag, destructor and threads agree - a thread that is
done has seen the flag and empty queues, and nothing is scheduled after the flag.
`SomeoneAwake` is inductive by itself: a thread blocks only when the queues are
empty, and the request that ends that wakes one. `OneCopy` needs `ExecutingAgrees`
only: four lemmas follow a request from `Schedule` to a queue, a thread, the
notifications and back to its client. The last two are why the destructor returns, if
the threads run: once it joins, none is blocked, because the flag is set before the
notification; nothing is queued any more; and a step of a thread takes a request
or brings the thread nearer to that or to its end, in at most three steps
(`TurnsLeft`). A thread that has reached its rates may skip the queues once without
taking anything, which is why the measure counts a turn for the counts.

**ProfilingServiceProofs.** `TypeCorrect`, `ConnectionOutlivesThreadsHolds`,
`QuietWhenNotConnectedHolds`, `CaptureOnlyWhenActiveHolds`,
`CaptureStartedOnceHolds`, `ProducersStoppedFirstHolds` (an action property),
`LagBoundedHolds`, `OneJoinerHolds`, `JoinedIsToldHolds` and `JoinNearsHolds`. None of these properties is inductive: a join is safe
only because of what was joined before it. `LifeInv` adds to the types: an
unjoined thread means a connected service and the reverse for the connection;
the flags say what the threads do (for the capture thread `m_IsRunning` means
joinable, because only a join clears it: that is why its `Start` needs no join);
a handler past its test of the state runs in the Active state, since the owner
changes that state only after the join; and `StopProgress`, while the owner
stops the components, only those left to stop have a thread. In NotConnected no
thread exists at all, which is why the different order of `Update` (command,
send, capture) does no harm. `LagBounded` has an invariant of its own (`LagInv`): what
was sent from an outdated copy and what is left of that round are not more than
a round. The last three
are why the joins of `Stop` end. The capture thread can be joined by its owner and
by the command thread, but not by both (`LifeInv` has the command thread joined
first). Hence a thread that is joined stays told to end: only the command thread
could start the capture thread again, and it is joined or is itself the joiner.
Then `CommandLeft` and `CaptureLeft` count the steps to the next test of the flag.

**FileOnlyConnectionProofs.** `TypeCorrect`, `ClosedIsQuietHolds`,
`DeliversPackets` (the refinement of `PacketDelivery`), `AnswersInOrder`,
`WakeupIsNotLost`, `HandlerNearsHolds` and `CloseNearsHolds`.
`ConnectionInv` adds to the types that a packet is held only between the wait
and the handlers, and that the flag is cleared before the thread is joined or
ends. With it each step is shown to be a step of the abstract specification or
a stutter, from lemmas on what `Take` does to the list and on sequences with a
packet put in front. `OrderInv` is about numbers instead of sequences: the list
has no gap, the packet taken is the one before it, and the unread
acknowledgements increase, later than the one read last and no later than the
packet handled last. Each is needed: the new acknowledgement is the greatest
because the packet it answers was next in the list. `NoLostWakeup` says that the
thread is blocked beside a packet only until the notification that is due, and
`HandlerNears` that from anywhere in its loop it handles the next packet within six of
its steps; with fairness that is `WrittenIsHandled`, for a wait with a timeout and
without. `CloseNears` is the same for its end, with the one step back that makes
`CloseReturns` need the timeout: the notification of `Close` wakes a thread whose
predicate does not look at the flag (section 6, 8).

**SendThreadProofs.** `TypeCorrect`, `ImplementsBufferManager` (the refinement),
`StopFlushesHolds` and `WireInOrderHolds` (action properties), `StopWakesHolds`,
`StopNearsHolds` and `OnlyStartForgetsHolds`. `SendInv` adds to
the types which buffers the thread holds at each `pc`; that it runs only while
the service is connected and is told to end only by a `Stop` that joins it, so
that it can neither refuse to run nor be found running by a reset; that the queue
holds each client's packets in rising order, up to the last one committed; that
what is about to be written comes after what was; and that a thread that is
done has taken what was due. The refinement needs the first two: a reset comes
in `pc = "none"`, where only clients hold a buffer. `StopFlushes` needs the
last two: an empty queue means everything committed was taken, and the thread
ends only on an empty queue after the flag. What `BufferManagerProofs` proves of the
pool is thereby true of the pool of `SendThread`. `StopWakes` says that a thread
that is joined does not find `m_ReadyToRead` clear, whichever of its waits it comes
to; by `StopNears` each of its steps then descends a measure (where it is in the
loop, and what it has left to flush) that only a commit of a client can raise, in its
second part only. `OnlyStartForgets` is about the commits themselves: packets are
left in the queue with neither the flag set nor a notification to come only by
`Start`, which clears the flag that a client of the earlier session has set;
they leave after the next notification, or a timeout.

**CounterSelectionProofs.** `TypeCorrect`, `ListedOnceHolds`,
`BackendsFollowSelectionHolds`, `CaptureFindsContextHolds`. The four depend on
each other: a counter can be erased from a vector because it is there exactly
once, and it is there because the selection before put it there. `SelectionInv`
adds that every backend of the last selection has a vector (`MappedCovers`: a
period that changes is told to all of them), that an active backend has a
selected counter, that a stopped service captures nothing, and what holds after a
reset: until the handler's memory is empty every selection throws, so no capture
thread runs. That is why `CaptureFindsContext` holds although the capture data
still name the backends.

**LoadedNetworkProofs**, of `Runtime`. `TypeCorrect`, `FreesLoadedNetworkHolds`,
`ExecutingHasMemoryHolds`, `MemoryHasUserHolds`, `WaitsForRunHolds`, `WaitNearsHolds`. `RuntimeInv` adds who holds which
lock at each `pc`, that a call is on a loaded network, where `lastId` stands, and
the case in which the memory is allocated again between its release and the
change of `lastId`: then another thread has run the network and remembers it
(`FreedHasOtherUser`). The last two are about the wait under the lock of the runtime:
it is for a run of another thread, which holds no lock that anybody
waits for and needs none; and since a call needs that lock to find its network,
the calls that found it before are all there will be, each with at most three steps
to do.

**LoadedNetworkProofs**, of `TensorMemory` and `AsyncExecute`. `BinsValidHolds`,
`HandlesMatchBlocksHolds`, `ExecuteTypeCorrect`, `HandleRestoredHolds`,
`OnlyLiveBuffersHolds`, `NeverWrittenHolds`, `TensorsFilledHolds` and
`OneOfSharedHolds`, for every
network, word width, memory source and number of callers. `TensorsFilled` is the sum of
the others before it, in four layers:

- *The strategy.* A strict total order ranks a finite set (`RankedFacts`), so the
  layers and the blocks are each listed once. A block that fits into a bin by its
  bits is alive at no step at which another one of that bin is (`FitsApart`, from
  `MaskFacts`: the first, the last and the words between hold each step of a
  life). `Packed` is kept by every block placed, so `OptimizeValid` holds of every
  list of blocks, and the blocks of a profile are such a list (`ProfileBlocks`).
- *The memory profile.* Its blocks are of the tensors with managed handles exactly
  under `import.outputs => OnlyExported` (`BlocksOfManaged`); then each handle has the memory
  of its own block. The life of a tensor that is still to be read overlaps that of what
  the workloads write until then. So `MemorySafe` (`ProfileSafe`): inputs have
  different memory, and a workload writes to none that is still needed.
- *The handles.* `HandleInv` adds to the types that the pins of a call under way are
  alive, since clearing waits for it, and where each pointer may lead at each step:
  to the handle's own tensor, or to a pin of the call for that very position. A
  call puts back exactly what it has redirected. An exception before the workloads
  breaks that, and then promises nothing until the handle is replaced. Where the
  memory of a tensor can be is `Homes`: its own bin or nowhere, or a buffer of its own
  binding, so imports move no two tensors that the profile keeps apart onto
  one piece of memory (`HomesApart`), however many runs ago they were made.
- *The data.* `DataInv` adds that the connections of imported inputs are all
  redirected, and that every tensor already written and still to be read is found
  where the pointers lead, with the data of this run (`KeepsData`). Each workload
  reads such tensors and, by `MemorySafe`, overwrites none that is needed later. An
  exported tensor has its memory in a buffer passed for it (`Exports`), the others are
  copied: so the buffers are filled (`OutputsAreFilled`).

`TensorsFilledHolds` has two conditions on the network, `InputsRead` and
`OnlyExported`, which the network of the run meets; section 6 (14 and 15) says what
goes wrong without. It says that every buffer is filled but of those that share an
exported tensor, of which one is; `OneOfSharedHolds` says that only one is, from the
fact that what a workload writes is nowhere but in the memory of its tensor
(`Stamped`). `OneOfSharedHolds` and `NeverWrittenHolds` need no condition: the second
and the third disagreement of section 6 are not about one network. `Optimize` is defined by recursion
over the list. The facts about it are proved without an induction theorem: if
one failed at some length it would at a least one (`FirstStep`), which contradicts
the step from the length before.

**SubgraphSelectorProofs.** `TypeCorrect`, `SetsMirrorHolds`, `InputsRecordedHolds`,
`OnlyMergesForgetHolds`, `AcyclicWhileTransitive`, `WalkIsCompleteHolds`,
`WalkDescendsHolds`, `NoEndlessDescent`. `SelectorInv` adds to the types that a
representative represents itself, that a processed layer has a partial subgraph and
processed inputs, and what the second loop of `AssignSplitId` has recorded so far.
`MergeKeeps` and `AddKeeps` say that the two operations keep the sets mirrored and
forget no dependency.

- *Cycles.* While the sets of antecedents are transitive, no subgraph is its own
  antecedent (`OwnInv`: the subgraph that a layer joins is not among the antecedents of
  those of its inputs), so the antecedents are a strict partial order. Among any units one that comes
  first in that order, and with the least layer if several do, reads no other
  (`UnitsSorted`). So `Spec => ([]SetsTransitive => []SubgraphsAcyclic)`.
  The hypothesis is what the code's comment says of the sets. TLC finds it
  true of every graph of the run `subgraphs`; it fails in `subgraphs_merge`, and by
  `OnlyMergesForget` nothing but a `MergeWith` can make it fail.
- *The end of the walk.* `Waiting` says that a layer not yet processed whose inputs
  are is in the queue until its turn; since a layer reads only smaller ones, the least
  unprocessed layer is such a one, so the queue is empty only at the end (`WalkIsComplete`). Each step descends in the lexicographic order
  of the layers left, the loops over the layer at hand, what is left of the loop, and
  the turns until the queue yields a layer that can be processed. The order is
  well-founded (`NoEndlessDescent`, from the theorems of the library), so every
  walk ends. `EveryLayerAssigned` follows from these under the
  fairness of the one thread.

**Only proved.** These are not in a run: `LagBounded`, `OneJoiner`, `JoinedIsTold` and
`JoinNears` of `ProfilingService`; `ClosedIsQuiet`, `NoLostWakeup`, `HandlerNears` and
`CloseNears` of `FileOnlyConnection`; `StopWakes`, `StopNears` and `OnlyStartForgets`
of `SendThread`; `NoneBlocked` and `DrainNears` of `Threadpool`; `WaitsForRun` and
`WaitNears` of `Runtime`; `InputsRecorded`, `WalkIsComplete`, `OnlyMergesForget` and
`WalkDescends` of `SubgraphSelector`; `MemorySafe`, `NeverWritten` and `OneOfShared` of `AsyncExecute`;
and the type invariants.

**Only model-checked.** Liveness under fairness is out of the prover's reach. What
is proved of it is the part about states and steps, for every value of the constants:
nobody is left waiting for what does not come, and each step of those who are
waited for descends a measure.

| Property (TLC) | What is proved |
|---|---|
| `StopReturns` of `SendThread` | `StopWakes`, `StopNears` |
| `StopReturns` of `ProfilingService` | `OneJoiner`, `JoinedIsTold`, `JoinNears` |
| `TerminateReturns` | `NoneBlocked`, `DrainNears` |
| `WrittenIsHandled` | `NoLostWakeup`, `HandlerNears` |
| `CloseReturns` | `CloseNears` |
| `MutexReleased` | `WaitsForRun`, `WaitNears` |
| `EveryLayerAssigned` | `WalkIsComplete`, `WalkDescends`, `NoEndlessDescent` |
| `CommittedIsTaken` | `OnlyStartForgets` (the notified part; the rest is the timeout) |
| `ScheduledIsNotified` | `SomeoneAwake`, `BypassBounded` |
| `SentIsAnnounced` | nothing |

`SubgraphsAcyclic` itself is checked on small graphs, proved where the sets stay
transitive, and false of some larger graphs (section 6). The measures
of the others are natural numbers, or pairs of them; for the walk, whose
measure has four parts, the order itself is shown to be well-founded.

## 6. Where the code disagrees with its comments

Two are runs that TLC violates.

1. `SubgraphsAcyclic` (`subgraphs_merge`). "We also need to check that merging into
   this subgraph won't cause a dependency cycle between subgraphs"
   (`SubgraphViewSelector.cpp:317`). `MergeWith` joins the dependencies of two
   subgraphs but does not pass them on to what depends on either, as
   `AddDirectAntecedent` does. In the graph 1->2->4, 1->3->5, with 6 reading 5 and 2,
   7 reading 4 and 2, 8 reading 3 and 7, and 2, 3, 6, 7, 8 selected, the subgraphs
   {2, 6} and {3, 7, 8} each depend on the other (through 5, and because 7 reads 2).
   The comment of `m_Antecedents`, "either directly or indirectly", is what is
   lost: section 5 proves that it would suffice, and that only `MergeWith` loses it.
2. `ImportedOutputsFilled` (`async_outputs`). "outputs filled into outputTensors"
   (`IRuntime.hpp:258`). A buffer of `ImportOutputs` is put where the tensor is
   read, never where it is written: the run succeeds and the buffer is as
   before. The test at `RuntimeTests.cpp:269` does not see it, because an earlier
   run has filled the same buffers.

The third is proved for every network (`OneOfSharedHolds`). The others were met while
modelling. The steps are in the models as the code has them.

3. "Importing in this case would likely cause unexpected behaviour, so we disallow
   it" (`LoadedNetwork.cpp:2053` and `WorkingMemHandle.cpp:77`, of outputs that share a
   tensor). With an output source, `Execute` imports the buffer of every output passed
   onto the handle of its tensor (`LoadedNetwork.cpp:1879-1885`), the last
   one stays (`RefTensorHandle.cpp:146`), and nothing is copied (`1943-1954`): the
   others are not filled, and the run returns Success. The synchronous
   path tests for such outputs and copies (`1143-1144`).
4. "outputs filled into outputTensors" (`IRuntime.hpp:258`), once more. What was
   imported onto a handle stays there: `resetMemHandle` restores the pointers of
   imported ids only. So a run that passes an imported id for an output lets the
   workload write to the buffer an earlier run has passed as a tensor (`PrepareOutputs` leaves
   `mem` alone); with a handle that has had none, the workload finds no memory and
   `Execute` throws.
5. "the buffer now has a surge capacity of initial size * 3"
   (`src/profiling/test/BufferTests.cpp:194`). A buffer destroyed with its
   SendTimelinePacket stays counted until `Reset` (`Drop` in `BufferManager`), so
   the pool refuses requests with fewer buffers in existence.
6. "If we get notified we need to flush the buffer again ... Otherwise if we just
   timed out don't flush the buffer" (`SendThread.cpp:172-175`). `wait_for` with a
   predicate returns whether the predicate holds; the code takes true for a
   timeout, so it does the contrary (`WaitForAck` in `SendThread`).
7. `m_ServiceActive` is to let "external actors know when service is active or not"
   (`ProfilingService.hpp:263`). `Stop` clears it before it joins the command
   thread, and a late acknowledgement sets it again (`BeginStop` and
   `NotifyProfilingServiceActive` in `ProfilingService`).
8. `Close` notifies to "make sure the thread wakes up and sees it has to stop"
   (`FileOnlyProfilingConnection.cpp:106`). The predicate of the wait looks only at
   the list: the thread waits again, and `Close` waits for its timeout of a
   second (`NotifyStop` in `FileOnlyConnection`).
9. `Close` begins with "Dump any unread packets out of the queue"
   (`FileOnlyProfilingConnection.cpp:95`), before it stops the thread whose handlers
   fill that queue (`DumpUnread`).
10. A selection with period 0 empties the active backends
    (`PeriodicCounterSelectionCommandHandler.cpp:222-225`), and a later one with the
    same counters and a period tells the backends but does not make them active
    again, since no counter is new (`Active` in `CounterSelection`): the capture
    thread does not report them. The test of the handler makes its selection of period
    0 last (`BackendProfilingTests.cpp:410-418`), so nothing follows that would show it.
11. `IRuntime::Execute` "will block until this and any other thread using the same
    workingMem object completes" (`IRuntime.hpp:260`); it takes no lock. `AsyncExecute`
    gives each thread a handle of its own.
12. An exception in the preparation of the outputs leaves the pointers of the
    handle replaced: only workloads are in the try block
    (`PrepareOutputsThrows`).
13. `ClearImportedInputs` and `ClearImportedOutputs` test `id > size`
    (`LoadedNetwork.cpp:1703`, `1724`): the id one past the last reads beyond the
    vector.
14. With exported outputs, a tensor that an Output layer and another layer read
    has a block in the memory profile and no managed handle
    (`LoadedNetwork.cpp:2019-2060`, `2266-2283`): the later handles get each other's memory.
    `HandlesMatchBlocks` holds exactly for networks without such a tensor, as that of
    its run (`HandlesMatchBlocksHolds`).
15. `Execute` fills the inputs in the order in which the caller passes them
    (`LoadedNetwork.cpp:1858`), but in the memory profile each lives from its own time
    step, and one that nothing reads in that step only (`2303-2310`). So the strategy may
    give it the memory of an input with a later step, which filling it may overwrite.
    No comment excludes such an input; `TensorsFilledHolds` does (`InputsRead`).

Hazards for which the list of 40 in `PROJECT.json` has no room: data races on
`m_WorkingMemHandleMap` (`Threadpool.cpp:75`), `m_Callbacks`
(`AsyncExecutionCallback.cpp:57`) and `m_NetworkIdCounter` (`Runtime.cpp:163`); the raw
pointer of `GetLoadedNetworkPtr` (`Runtime.cpp:610`), which an unload during a call
leaves dangling; `m_ServiceActive`, set again after it was cleared (7 above); the id
one past the last (13 above); exceptions that end a thread (`SendThread.cpp:155`,
`Threadpool.cpp:197`) or leave a handler half done
(`ConnectionAcknowledgedCommandHandler.cpp:41`); a broken socket closed twice
(`ProfilingService.cpp:408`); and `m_TimelineReporting`, which survives a
disconnection, so that the next connection gets no labels
(`ActivateTimelineReportingCommandHandler.cpp:48`).

## 7. What is not modelled

- The bytes of packets, their parsing, and the counter values: no property here
  is about them. What a parser or a directory answers is an outcome of a step.
- Data races proper: `m_WorkingMemHandleMap`, `m_Callbacks` and the plain flag
  `PeriodicCounterCapture::m_IsRunning` are accessed by several threads without a
  lock. The models keep the logical outcomes in any order, not torn values;
  `CaptureStartedOnce` shows that the accesses of the flag are ordered by joins.
- In `FileOnlyConnection`, the registration of handlers (the constructor does it
  before the thread starts), the endianness, and a second handler of a packet
  that throws after the first has acknowledged it.
- Errors of the operating system in `Close`, `write` or thread creation.
- `SendThread::Stop(true)`, which rethrows the thread's exception: the service
  never asks for it.
- `CommandHandler::m_StopAfterTimeout`, which the service leaves false, and
  `ARMNN_DISABLE_THREADS` builds, which are sequential.
- The timeline flag and the handlers that set it, which are one step each.
- In `CounterSelection`, the order within a backend's vector, and two threads of a
  backend's own. In `Runtime`, the backends' contexts, profiling, and asynchronous
  execution, which is `AsyncExecute`. In `AsyncExecute`, constants, layers with more
  than one output, an Input or Constant that feeds an Output layer directly
  (whose coordinates in `CreateWorkingMemHandle` stay at their defaults), and
  two threads that use one handle, which nothing in the code excludes.
- The numerical kernels of the backends, their workload and support checks, the
  parsers, serialiser and delegates, and the rewriting of graphs: most of
  the repository's lines. They are sequential translations, one case per
  layer type, over data types, shapes and numbers; a model would either repeat the
  cases or leave out all there is. No part of them keeps state between calls
  or is called concurrently.
- The profiling server, and the maps of the shared profiling library, filled at
  start-up and read afterwards.

The status of each component, with the reason, is in `PROJECT.json`.

`PROJECT.json` also lists the hazards of the code, each at its line, with the
properties that cover it or the reason why none does.

## 8. Plan

What is left of the plan the modules above follow:

1. `AssignBackends` with its fallback, and `Graph::TopologicalSort`, against
   reference definitions over small graphs.
2. `ProfilingService` with the `SendThread` module in place of the life of its send
   thread, and shown to implement a small specification of the states the peer
   sees.
