-------------------------------- MODULE Runtime --------------------------------
(***************************************************************************)
(* The networks of one runtime and the working memory of the synchronous   *)
(* ones (src/armnn: Runtime.cpp; AllocateWorkingMemory, FreeWorkingMemory, *)
(* Execute and the destructor of LoadedNetwork).                           *)
(*                                                                         *)
(* m_Mutex guards the map of loaded networks; m_WorkingMemMutex of a       *)
(* network guards its memory.  A thread that moves on to another network   *)
(* frees the memory of the one before: LoadedNetworkFuncSafe holds m_Mutex *)
(* meanwhile, and FreeWorkingMemory waits there for a run of that network. *)
(*                                                                         *)
(* What the callers see to: one LoadNetwork at a time (m_NetworkIdCounter  *)
(* is a plain int), one EnqueueWorkload per network at a time (its queues  *)
(* are not guarded), and no UnloadNetwork of a network another thread is   *)
(* in a call on.                                                           *)
(***************************************************************************)
EXTENDS Naturals, FiniteSets

CONSTANTS
  Threads,  \* the threads that call the runtime
  MaxLoads  \* bound: the calls of LoadNetwork

Free == "free"

ASSUME RuntimeAssumption == MaxLoads \in Nat /\ Free \notin Threads

Ids == 1..MaxLoads
Kinds == {"sync", "async"}
None == 0

VARIABLES
  counter,   \* m_NetworkIdCounter: the ids given out
  kind,      \* per id: m_AsyncEnabled
  loaded,    \* m_LoadedNetworks
  allocated, \* the networks with m_IsWorkingMemAllocated
  mutex,     \* the thread that holds m_Mutex
  workMutex, \* per id: the thread that holds m_WorkingMemMutex
  last,      \* per thread: lastId of EnqueueWorkload and of CreateWorkingMemHandle
  pc,        \* per thread: where it is in its call
  on         \* per thread: the network of the call

vars == <<counter, kind, loaded, allocated, mutex, workMutex, last, pc, on>>

Init ==
  /\ counter = 0
  /\ kind = [n \in Ids |-> "sync"]
  /\ loaded = {} /\ allocated = {}
  /\ mutex = Free
  /\ workMutex = [n \in Ids |-> Free]
  /\ last = [t \in Threads |-> [k \in Kinds |-> None]]
  /\ pc = [t \in Threads |-> "idle"]
  /\ on = [t \in Threads |-> None]

Idle(t) == pc[t] = "idle"
GoTo(t, where) == pc' = [pc EXCEPT ![t] = where]
Leave(t) == GoTo(t, "idle") /\ on' = [on EXCEPT ![t] = None]
InCallOn(n) == {t \in Threads : on[t] = n}

-----------------------------------------------------------------------------
(* LoadNetwork and UnloadNetwork *)

\* The profiler, the id, and BeforeLoadNetwork of the backend contexts.
BeginLoad(t) ==
  /\ Idle(t) /\ counter < MaxLoads
  /\ \A u \in Threads : pc[u] # "load"
  /\ counter' = counter + 1
  /\ on' = [on EXCEPT ![t] = counter + 1]
  /\ GoTo(t, "load")
  /\ UNCHANGED <<kind, loaded, allocated, mutex, workMutex, last>>

\* MakeLoadedNetwork returns nothing: the id is spent.
LoadFails(t) ==
  /\ pc[t] = "load"
  /\ Leave(t)
  /\ UNCHANGED <<counter, kind, loaded, allocated, mutex, workMutex, last>>

StoreNetwork(t) ==
  /\ pc[t] = "load" /\ mutex = Free
  /\ loaded' = loaded \cup {on[t]}
  /\ \E k \in Kinds : kind' = [kind EXCEPT ![on[t]] = k]
  /\ Leave(t)
  /\ UNCHANGED <<counter, allocated, mutex, workMutex, last>>

(* Under m_Mutex; the destructor of the network frees its memory.  When
   BeforeUnloadNetwork of a context fails, nothing changes. *)
UnloadNetwork(t, n) ==
  /\ Idle(t) /\ InCallOn(n) = {} /\ n \in loaded
  /\ mutex = Free /\ workMutex[n] = Free
  /\ loaded' = loaded \ {n}
  /\ allocated' = allocated \ {n}
  /\ UNCHANGED <<counter, kind, mutex, workMutex, last, pc, on>>

-----------------------------------------------------------------------------
(* EnqueueWorkload for a synchronous network, CreateWorkingMemHandle for an
   asynchronous one: each has a thread_local lastId of its own. *)

\* GetLoadedNetworkPtr: at() throws for an id that is not loaded.
Enter(t, n) ==
  /\ Idle(t) /\ n \in loaded
  /\ kind[n] = "sync" => InCallOn(n) = {}
  /\ GoTo(t, "found")
  /\ on' = [on EXCEPT ![t] = n]
  /\ UNCHANGED <<counter, kind, loaded, allocated, mutex, workMutex, last>>
EnterUnlocked(t, n) == Enter(t, n)
Call(t, n) == mutex = Free /\ Enter(t, n)

LastOf(t) == last[t][kind[on[t]]]
Stale(t) == LastOf(t) \notin {None, on[t]}
SetLast(t) == last' = [last EXCEPT ![t][kind[on[t]]] = on[t]]

\* The first call of the thread, or the same network again.
SameNetwork(t) ==
  /\ pc[t] = "found" /\ ~Stale(t)
  /\ SetLast(t) /\ GoTo(t, "run")
  /\ UNCHANGED <<counter, kind, loaded, allocated, mutex, workMutex, on>>

\* LoadedNetworkFuncSafe: m_Mutex is held until FreeWorkingMemory returns.
FindStaleUnlocked(t) ==
  /\ pc[t] = "found" /\ Stale(t) /\ mutex = Free
  /\ GoTo(t, IF LastOf(t) \in loaded THEN "freeing" ELSE "freed")
  /\ UNCHANGED <<counter, kind, loaded, allocated, mutex, workMutex, last, on>>
FindStale(t) ==
  /\ pc[t] = "found" /\ Stale(t) /\ mutex = Free
  /\ mutex' = t
  /\ GoTo(t, IF LastOf(t) \in loaded THEN "freeing" ELSE "freed")
  /\ UNCHANGED <<counter, kind, loaded, allocated, workMutex, last, on>>

FreeWithoutWaiting(t) ==
  /\ pc[t] = "freeing"
  /\ allocated' = allocated \ {LastOf(t)}
  /\ GoTo(t, "freed")
  /\ UNCHANGED <<counter, kind, loaded, mutex, workMutex, last, on>>
FreeWorkingMemory(t) ==
  /\ pc[t] = "freeing" /\ workMutex[LastOf(t)] = Free
  /\ allocated' = allocated \ {LastOf(t)}
  /\ GoTo(t, "freed")
  /\ UNCHANGED <<counter, kind, loaded, mutex, workMutex, last, on>>

\* m_Mutex is released, and lastId becomes this network's.
LeaveStaleKeepingLast(t) ==
  /\ pc[t] = "freed"
  /\ mutex' = Free
  /\ GoTo(t, "run")
  /\ UNCHANGED <<counter, kind, loaded, allocated, workMutex, last, on>>
LeaveStale(t) ==
  /\ pc[t] = "freed"
  /\ mutex' = Free
  /\ SetLast(t) /\ GoTo(t, "run")
  /\ UNCHANGED <<counter, kind, loaded, allocated, workMutex, on>>

(* The inputs or outputs do not match the network; or the handle of an
   asynchronous network is created, or it could not be. *)
Return(t) ==
  /\ pc[t] = "run"
  /\ Leave(t)
  /\ UNCHANGED <<counter, kind, loaded, allocated, mutex, workMutex, last>>

\* Execute locks and allocates for the whole run ...
BeginExecute(t) ==
  /\ pc[t] = "run" /\ kind[on[t]] = "sync" /\ workMutex[on[t]] = Free
  /\ workMutex' = [workMutex EXCEPT ![on[t]] = t]
  /\ allocated' = allocated \cup {on[t]}
  /\ GoTo(t, "executing")
  /\ UNCHANGED <<counter, kind, loaded, mutex, last, on>>

(* ... unless a memory manager throws: m_IsWorkingMemAllocated stays as it
   was.  A workload that throws ends the run. *)
AllocateFails(t) ==
  /\ pc[t] = "run" /\ kind[on[t]] = "sync" /\ workMutex[on[t]] = Free
  /\ on[t] \notin allocated
  /\ Leave(t)
  /\ UNCHANGED <<counter, kind, loaded, allocated, mutex, workMutex, last>>

EndExecute(t) ==
  /\ pc[t] = "executing"
  /\ workMutex' = [workMutex EXCEPT ![on[t]] = Free]
  /\ Leave(t)
  /\ UNCHANGED <<counter, kind, loaded, allocated, mutex, last>>

-----------------------------------------------------------------------------
Load(t) == BeginLoad(t) \/ LoadFails(t) \/ StoreNetwork(t)
Continue(t) ==
  \/ SameNetwork(t) \/ FindStale(t) \/ FreeWorkingMemory(t) \/ LeaveStale(t)
  \/ Return(t) \/ BeginExecute(t) \/ AllocateFails(t) \/ EndExecute(t)

Next ==
  \E t \in Threads :
    \/ Load(t)
    \/ \E n \in Ids : UnloadNetwork(t, n) \/ Call(t, n)
    \/ Continue(t)

Spec == Init /\ [][Next]_vars

\* A thread inside a call is scheduled; nobody has to make another call.
Fairness == \A t \in Threads : WF_vars(Continue(t)) /\ WF_vars(LoadFails(t) \/ StoreNetwork(t))
FairSpec == Spec /\ Fairness

-----------------------------------------------------------------------------
(* Properties *)

TypeOK ==
  /\ counter \in 0..MaxLoads
  /\ kind \in [Ids -> Kinds]
  /\ loaded \subseteq Ids /\ allocated \subseteq Ids
  /\ mutex \in Threads \cup {Free}
  /\ workMutex \in [Ids -> Threads \cup {Free}]
  /\ last \in [Threads -> [Kinds -> Ids \cup {None}]]
  /\ pc \in [Threads -> {"idle", "load", "found", "freeing", "freed", "run", "executing"}]
  /\ on \in [Threads -> Ids \cup {None}]

(* The network a thread frees the memory of, although no caller knows that the
   thread still refers to it, has not been unloaded meanwhile. *)
FreesLoadedNetwork ==
  \A t \in Threads : pc[t] = "freeing" => LastOf(t) \in loaded

(* A run keeps its working memory to the end, whichever threads move on from
   that network to another one meanwhile. *)
ExecutingHasMemory ==
  \A t \in Threads : pc[t] = "executing" => on[t] \in allocated

(* A network keeps working memory only while it is the last one some thread
   enqueued: no more networks hold memory than threads have used them, and an
   unloaded network holds none. *)
MemoryHasUser ==
  /\ \A n \in allocated : \E t \in Threads : last[t]["sync"] = n
  /\ allocated \subseteq loaded

(* m_Mutex is never held for good, although a thread waits under it for runs
   of the network it left: no new run of it can start meanwhile. *)
MutexReleased == \A t \in Threads : mutex = t ~> mutex # t
=============================================================================
