--------------------------- MODULE LoadedNetworkProofs ---------------------------
(***************************************************************************)
(* Proofs about the two ways of LoadedNetwork.cpp to execute a network, for *)
(* every network, set of threads and bound: Runtime, where a call borrows   *)
(* the working memory of the network, and AsyncExecute with TensorMemory,   *)
(* where every caller has a handle of its own.                              *)
(*                                                                         *)
(* The tensors a run returns are filled (TensorsFilled) because the        *)
(* strategy packs the blocks of the memory profile into bins without       *)
(* overlap, so what a workload writes leaves alone what is still read, and *)
(* because the pointers of a handle are its own, or those of a live pin of *)
(* the call.                                                               *)
(***************************************************************************)
EXTENDS Runtime, AsyncExecute, FiniteSetTheorems, FunctionTheorems, SequenceTheorems, TLAPS

-----------------------------------------------------------------------------
(* The working memory of the synchronous networks *)

\* m_Mutex is held across FreeWorkingMemory, and a network's own mutex across
\* a run.
MutexesHeld ==
  /\ \A t \in Threads : mutex = t <=> pc[t] \in {"freeing", "freed"}
  /\ \A t \in Threads, n \in Ids :
       workMutex[n] = t <=> pc[t] = "executing" /\ on[t] = n

\* A call is on a loaded network, except LoadNetwork, which is on a new id.
CallsAgree ==
  /\ \A t \in Threads : pc[t] = "idle" <=> on[t] = None
  /\ \A t \in Threads : pc[t] \notin {"idle", "load"} => on[t] \in loaded
  /\ \A t \in Threads : pc[t] = "load" => on[t] \in 1..counter \ loaded
  /\ \A t, u \in Threads : pc[t] = "load" /\ pc[u] = "load" => t = u
  /\ loaded \subseteq 1..counter

\* Where lastId stands in a call.
LastAgrees ==
  \A t \in Threads :
    /\ pc[t] \in {"freeing", "freed"} => Stale(t)
    /\ pc[t] \in {"run", "executing"} => LastOf(t) = on[t]
    /\ pc[t] = "executing" => kind[on[t]] = "sync"

\* Who else keeps the memory alive that a thread has just freed.
FreedHasOtherUser ==
  \A t \in Threads :
    pc[t] = "freed" /\ kind[on[t]] = "sync" /\ LastOf(t) \in allocated
      => \E u \in Threads \ {t} : last[u]["sync"] = LastOf(t)

\* The inductive invariant of Runtime: what its runs check, and what that rests on.
RuntimeInv ==
  /\ TypeOK
  /\ MutexesHeld
  /\ CallsAgree
  /\ LastAgrees
  /\ FreesLoadedNetwork
  /\ ExecutingHasMemory
  /\ FreedHasOtherUser
  /\ MemoryHasUser
------------------------------------------------------------------------------
\* BeginLoad takes an id nobody has had.
LEMMA BeginLoadStep ==
  ASSUME RuntimeInv, NEW t \in Threads, BeginLoad(t)
  PROVE  RuntimeInv'
<1> USE RuntimeAssumption
        DEF RuntimeInv, TypeOK, BeginLoad, Idle, GoTo, LastOf, Stale, Ids, Kinds, None
<1>1. TypeOK'
  BY DEF CallsAgree
<1>2. MutexesHeld'
  BY DEF CallsAgree, MutexesHeld
<1>3. CallsAgree'
  BY DEF MutexesHeld, CallsAgree
<1>4. LastAgrees'
  BY DEF MutexesHeld, CallsAgree, LastAgrees
<1>5. FreesLoadedNetwork'
  BY DEF MutexesHeld, CallsAgree, FreesLoadedNetwork
<1>6. ExecutingHasMemory'
  BY DEF MutexesHeld, CallsAgree, LastAgrees, ExecutingHasMemory
<1>7. FreedHasOtherUser'
  BY DEF MutexesHeld, CallsAgree, LastAgrees, FreesLoadedNetwork, MemoryHasUser, FreedHasOtherUser
<1>8. MemoryHasUser'
  BY DEF MutexesHeld, CallsAgree, LastAgrees, FreedHasOtherUser, MemoryHasUser
<1>9. QED
  BY <1>1, <1>2, <1>3, <1>4, <1>5, <1>6, <1>7, <1>8

\* A failed load leaves its id unused.
LEMMA LoadFailsStep ==
  ASSUME RuntimeInv, NEW t \in Threads, LoadFails(t)
  PROVE  RuntimeInv'
<1> USE RuntimeAssumption
        DEF RuntimeInv, TypeOK, LoadFails, GoTo, Leave, LastOf, Stale, Ids, Kinds, None
<1>1. TypeOK'
  BY DEF CallsAgree
<1>2. MutexesHeld'
  BY DEF CallsAgree, MutexesHeld
<1>3. CallsAgree'
  BY DEF MutexesHeld, CallsAgree
<1>4. LastAgrees'
  BY DEF MutexesHeld, CallsAgree, LastAgrees
<1>5. FreesLoadedNetwork'
  BY DEF MutexesHeld, CallsAgree, FreesLoadedNetwork
<1>6. ExecutingHasMemory'
  BY DEF MutexesHeld, CallsAgree, LastAgrees, ExecutingHasMemory
<1>7. FreedHasOtherUser'
  BY DEF MutexesHeld, CallsAgree, LastAgrees, FreesLoadedNetwork, MemoryHasUser, FreedHasOtherUser
<1>8. MemoryHasUser'
  BY DEF MutexesHeld, CallsAgree, LastAgrees, FreedHasOtherUser, MemoryHasUser
<1>9. QED
  BY <1>1, <1>2, <1>3, <1>4, <1>5, <1>6, <1>7, <1>8

\* LoadNetwork stores a network no call is on yet.
LEMMA StoreNetworkStep ==
  ASSUME RuntimeInv, NEW t \in Threads, StoreNetwork(t)
  PROVE  RuntimeInv'
<1> USE RuntimeAssumption
        DEF RuntimeInv, TypeOK, StoreNetwork, GoTo, Leave, LastOf, Stale, Ids, Kinds, None
<1>1. TypeOK'
  <2>1. on[t] \in Ids /\ pc[t] = "load"
    BY DEF CallsAgree
  <2>2. kind' \in [Ids -> Kinds]
    BY <2>1
  <2>3. loaded' \subseteq Ids
    BY <2>1
  <2>4. pc' \in [Threads -> {"idle", "load", "found", "freeing", "freed", "run", "executing"}]
        /\ on' \in [Threads -> Ids \cup {None}]
    OBVIOUS
  <2>5. UNCHANGED <<counter, allocated, mutex, workMutex, last>>
    OBVIOUS
  <2>6. QED
    BY <2>2, <2>3, <2>4, <2>5
<1>2. MutexesHeld'
  <2>1. pc' = [pc EXCEPT ![t] = "idle"] /\ UNCHANGED <<mutex, workMutex>>
    OBVIOUS
  <2>2. ASSUME NEW u \in Threads, u # t PROVE on'[u] = on[u] /\ pc'[u] = pc[u]
    BY <2>2
  <2>3. pc[t] = "load" /\ pc'[t] = "idle"
    OBVIOUS
  <2>4. QED
    BY <2>1, <2>2, <2>3 DEF MutexesHeld
<1>3. CallsAgree'
  <2>1. pc[t] = "load" /\ pc'[t] = "idle" /\ on'[t] = None
    OBVIOUS
  <2>2. on[t] \in 1..counter \ loaded /\ loaded' = loaded \cup {on[t]}
    BY <2>1 DEF CallsAgree
  <2>3. \A u \in Threads : u # t => pc'[u] = pc[u] /\ on'[u] = on[u] /\ pc[u] # "load"
    BY <2>1 DEF CallsAgree
  <2>4. QED
    BY <2>1, <2>2, <2>3 DEF CallsAgree
<1>4. LastAgrees'
  <2> SUFFICES ASSUME NEW u \in Threads, u # t, pc[u] \notin {"idle", "load"}
               PROVE  LastOf(u)' = LastOf(u) /\ on'[u] = on[u] /\ kind'[on[u]] = kind[on[u]]
    BY DEF LastAgrees
  <2>1. on[u] \in loaded /\ on[t] \notin loaded
    BY DEF CallsAgree
  <2>2. QED
    BY <2>1
<1>5. FreesLoadedNetwork'
  BY DEF MutexesHeld, CallsAgree, FreesLoadedNetwork
<1>6. ExecutingHasMemory'
  BY DEF MutexesHeld, CallsAgree, LastAgrees, ExecutingHasMemory
<1>7. FreedHasOtherUser'
  BY DEF MutexesHeld, CallsAgree, LastAgrees, FreesLoadedNetwork, MemoryHasUser, FreedHasOtherUser
<1>8. MemoryHasUser'
  BY DEF MutexesHeld, CallsAgree, LastAgrees, FreedHasOtherUser, MemoryHasUser
<1>9. QED
  BY <1>1, <1>2, <1>3, <1>4, <1>5, <1>6, <1>7, <1>8

\* UnloadNetwork finds m_Mutex free, so nobody is freeing that network's memory.
LEMMA UnloadNetworkStep ==
  ASSUME RuntimeInv, NEW t \in Threads, NEW n \in Ids, UnloadNetwork(t, n)
  PROVE  RuntimeInv'
<1> USE RuntimeAssumption
        DEF RuntimeInv, TypeOK, UnloadNetwork, Idle, InCallOn, LastOf, Stale, Ids, Kinds, None
<1>1. TypeOK'
  BY DEF CallsAgree
<1>2. MutexesHeld'
  BY DEF CallsAgree, MutexesHeld
<1>3. CallsAgree'
  BY DEF MutexesHeld, CallsAgree
<1>4. LastAgrees'
  BY DEF MutexesHeld, CallsAgree, LastAgrees
<1>5. FreesLoadedNetwork'
  BY DEF MutexesHeld, CallsAgree, FreesLoadedNetwork
<1>6. ExecutingHasMemory'
  BY DEF MutexesHeld, CallsAgree, LastAgrees, ExecutingHasMemory
<1>7. FreedHasOtherUser'
  BY DEF MutexesHeld, CallsAgree, LastAgrees, FreesLoadedNetwork, MemoryHasUser, FreedHasOtherUser
<1>8. MemoryHasUser'
  BY DEF MutexesHeld, CallsAgree, LastAgrees, FreedHasOtherUser, MemoryHasUser
<1>9. QED
  BY <1>1, <1>2, <1>3, <1>4, <1>5, <1>6, <1>7, <1>8

\* A call starts on a loaded network.
LEMMA CallStep ==
  ASSUME RuntimeInv, NEW t \in Threads, NEW n \in Ids, Call(t, n)
  PROVE  RuntimeInv'
<1> USE RuntimeAssumption
        DEF RuntimeInv, TypeOK, Call, Enter, Idle, InCallOn, GoTo, LastOf, Stale, Ids, Kinds, None
<1>1. TypeOK'
  BY DEF CallsAgree
<1>2. MutexesHeld'
  BY DEF CallsAgree, MutexesHeld
<1>3. CallsAgree'
  BY DEF MutexesHeld, CallsAgree
<1>4. LastAgrees'
  BY DEF MutexesHeld, CallsAgree, LastAgrees
<1>5. FreesLoadedNetwork'
  BY DEF MutexesHeld, CallsAgree, FreesLoadedNetwork
<1>6. ExecutingHasMemory'
  BY DEF MutexesHeld, CallsAgree, LastAgrees, ExecutingHasMemory
<1>7. FreedHasOtherUser'
  BY DEF MutexesHeld, CallsAgree, LastAgrees, FreesLoadedNetwork, MemoryHasUser, FreedHasOtherUser
<1>8. MemoryHasUser'
  BY DEF MutexesHeld, CallsAgree, LastAgrees, FreedHasOtherUser, MemoryHasUser
<1>9. QED
  BY <1>1, <1>2, <1>3, <1>4, <1>5, <1>6, <1>7, <1>8

\* The thread uses the network it used last.
LEMMA SameNetworkStep ==
  ASSUME RuntimeInv, NEW t \in Threads, SameNetwork(t)
  PROVE  RuntimeInv'
<1> USE RuntimeAssumption
        DEF RuntimeInv, TypeOK, SameNetwork, GoTo, LastOf, Stale, SetLast, Ids, Kinds, None
<1>1. TypeOK'
  BY DEF CallsAgree
<1>2. MutexesHeld'
  BY DEF CallsAgree, MutexesHeld
<1>3. CallsAgree'
  BY DEF MutexesHeld, CallsAgree
<1>4. LastAgrees'
  BY DEF MutexesHeld, CallsAgree, LastAgrees
<1>5. FreesLoadedNetwork'
  BY DEF MutexesHeld, CallsAgree, FreesLoadedNetwork
<1>6. ExecutingHasMemory'
  BY DEF MutexesHeld, CallsAgree, LastAgrees, ExecutingHasMemory
<1>7. FreedHasOtherUser'
  BY DEF MutexesHeld, CallsAgree, LastAgrees, FreesLoadedNetwork, MemoryHasUser, FreedHasOtherUser
<1>8. MemoryHasUser'
  BY DEF MutexesHeld, CallsAgree, LastAgrees, FreedHasOtherUser, MemoryHasUser
<1>9. QED
  BY <1>1, <1>2, <1>3, <1>4, <1>5, <1>6, <1>7, <1>8

\* LoadedNetworkFuncSafe looks the last network up and keeps m_Mutex.
LEMMA FindStaleStep ==
  ASSUME RuntimeInv, NEW t \in Threads, FindStale(t)
  PROVE  RuntimeInv'
<1> USE RuntimeAssumption
        DEF RuntimeInv, TypeOK, FindStale, GoTo, LastOf, Stale, Ids, Kinds, None
<1>1. TypeOK'
  BY DEF CallsAgree
<1>2. MutexesHeld'
  BY DEF CallsAgree, MutexesHeld
<1>3. CallsAgree'
  BY DEF MutexesHeld, CallsAgree
<1>4. LastAgrees'
  BY DEF MutexesHeld, CallsAgree, LastAgrees
<1>5. FreesLoadedNetwork'
  BY DEF MutexesHeld, CallsAgree, FreesLoadedNetwork
<1>6. ExecutingHasMemory'
  BY DEF MutexesHeld, CallsAgree, LastAgrees, ExecutingHasMemory
<1>7. FreedHasOtherUser'
  BY DEF MutexesHeld, CallsAgree, LastAgrees, FreesLoadedNetwork, MemoryHasUser, FreedHasOtherUser
<1>8. MemoryHasUser'
  BY DEF MutexesHeld, CallsAgree, LastAgrees, FreedHasOtherUser, MemoryHasUser
<1>9. QED
  BY <1>1, <1>2, <1>3, <1>4, <1>5, <1>6, <1>7, <1>8

\* The memory is freed only when nobody runs that network.
LEMMA FreeMemoryStep ==
  ASSUME RuntimeInv, NEW t \in Threads, FreeWorkingMemory(t)
  PROVE  RuntimeInv'
<1> USE RuntimeAssumption
        DEF RuntimeInv, TypeOK, FreeWorkingMemory, GoTo, LastOf, Stale, Ids, Kinds, None
<1>1. TypeOK'
  BY DEF CallsAgree
<1>2. MutexesHeld'
  BY DEF CallsAgree, MutexesHeld
<1>3. CallsAgree'
  BY DEF MutexesHeld, CallsAgree
<1>4. LastAgrees'
  BY DEF MutexesHeld, CallsAgree, LastAgrees
<1>5. FreesLoadedNetwork'
  BY DEF MutexesHeld, CallsAgree, FreesLoadedNetwork
<1>6. ExecutingHasMemory'
  BY DEF MutexesHeld, CallsAgree, LastAgrees, ExecutingHasMemory
<1>7. FreedHasOtherUser'
  BY DEF MutexesHeld, CallsAgree, LastAgrees, FreesLoadedNetwork, MemoryHasUser, FreedHasOtherUser
<1>8. MemoryHasUser'
  BY DEF MutexesHeld, CallsAgree, LastAgrees, FreedHasOtherUser, MemoryHasUser
<1>9. QED
  BY <1>1, <1>2, <1>3, <1>4, <1>5, <1>6, <1>7, <1>8

\* lastId moves on, and the memory of the old network is freed or has another user.
LEMMA LeaveStaleStep ==
  ASSUME RuntimeInv, NEW t \in Threads, LeaveStale(t)
  PROVE  RuntimeInv'
<1> USE RuntimeAssumption
        DEF RuntimeInv, TypeOK, LeaveStale, GoTo, LastOf, Stale, SetLast, Ids, Kinds, None
<1>1. TypeOK'
  BY DEF CallsAgree
<1>2. MutexesHeld'
  BY DEF CallsAgree, MutexesHeld
<1>3. CallsAgree'
  BY DEF MutexesHeld, CallsAgree
<1>4. LastAgrees'
  BY DEF MutexesHeld, CallsAgree, LastAgrees
<1>5. FreesLoadedNetwork'
  BY DEF MutexesHeld, CallsAgree, FreesLoadedNetwork
<1>6. ExecutingHasMemory'
  BY DEF MutexesHeld, CallsAgree, LastAgrees, ExecutingHasMemory
<1>7. FreedHasOtherUser'
  BY DEF MutexesHeld, CallsAgree, LastAgrees, FreesLoadedNetwork, MemoryHasUser, FreedHasOtherUser
<1>8. MemoryHasUser'
  BY DEF MutexesHeld, CallsAgree, LastAgrees, FreedHasOtherUser, MemoryHasUser
<1>9. QED
  BY <1>1, <1>2, <1>3, <1>4, <1>5, <1>6, <1>7, <1>8

\* A call that does not execute changes nothing else.
LEMMA ReturnStep ==
  ASSUME RuntimeInv, NEW t \in Threads, Return(t)
  PROVE  RuntimeInv'
<1> USE RuntimeAssumption
        DEF RuntimeInv, TypeOK, Return, GoTo, Leave, LastOf, Stale, Ids, Kinds, None
<1>1. TypeOK'
  BY DEF CallsAgree
<1>2. MutexesHeld'
  BY DEF CallsAgree, MutexesHeld
<1>3. CallsAgree'
  BY DEF MutexesHeld, CallsAgree
<1>4. LastAgrees'
  BY DEF MutexesHeld, CallsAgree, LastAgrees
<1>5. FreesLoadedNetwork'
  BY DEF MutexesHeld, CallsAgree, FreesLoadedNetwork
<1>6. ExecutingHasMemory'
  BY DEF MutexesHeld, CallsAgree, LastAgrees, ExecutingHasMemory
<1>7. FreedHasOtherUser'
  BY DEF MutexesHeld, CallsAgree, LastAgrees, FreesLoadedNetwork, MemoryHasUser, FreedHasOtherUser
<1>8. MemoryHasUser'
  BY DEF MutexesHeld, CallsAgree, LastAgrees, FreedHasOtherUser, MemoryHasUser
<1>9. QED
  BY <1>1, <1>2, <1>3, <1>4, <1>5, <1>6, <1>7, <1>8

\* A run allocates the memory of the network its thread used last.
LEMMA BeginExecuteStep ==
  ASSUME RuntimeInv, NEW t \in Threads, BeginExecute(t)
  PROVE  RuntimeInv'
<1> USE RuntimeAssumption
        DEF RuntimeInv, TypeOK, BeginExecute, GoTo, LastOf, Stale, Ids, Kinds, None
<1>1. TypeOK'
  BY DEF CallsAgree
<1>2. MutexesHeld'
  BY DEF CallsAgree, MutexesHeld
<1>3. CallsAgree'
  BY DEF MutexesHeld, CallsAgree
<1>4. LastAgrees'
  BY DEF MutexesHeld, CallsAgree, LastAgrees
<1>5. FreesLoadedNetwork'
  BY DEF MutexesHeld, CallsAgree, FreesLoadedNetwork
<1>6. ExecutingHasMemory'
  BY DEF MutexesHeld, CallsAgree, LastAgrees, ExecutingHasMemory
<1>7. FreedHasOtherUser'
  BY DEF MutexesHeld, CallsAgree, LastAgrees, FreesLoadedNetwork, MemoryHasUser, FreedHasOtherUser
<1>8. MemoryHasUser'
  <2>1. last[t]["sync"] = on[t] /\ on[t] \in loaded
    BY DEF LastAgrees, CallsAgree
  <2>2. QED
    BY <2>1 DEF MemoryHasUser
<1>9. QED
  BY <1>1, <1>2, <1>3, <1>4, <1>5, <1>6, <1>7, <1>8

\* A failed allocation ends the call.
LEMMA AllocateFailsStep ==
  ASSUME RuntimeInv, NEW t \in Threads, AllocateFails(t)
  PROVE  RuntimeInv'
<1> USE RuntimeAssumption
        DEF RuntimeInv, TypeOK, AllocateFails, GoTo, Leave, LastOf, Stale, Ids, Kinds, None
<1>1. TypeOK'
  BY DEF CallsAgree
<1>2. MutexesHeld'
  BY DEF CallsAgree, MutexesHeld
<1>3. CallsAgree'
  BY DEF MutexesHeld, CallsAgree
<1>4. LastAgrees'
  BY DEF MutexesHeld, CallsAgree, LastAgrees
<1>5. FreesLoadedNetwork'
  BY DEF MutexesHeld, CallsAgree, FreesLoadedNetwork
<1>6. ExecutingHasMemory'
  BY DEF MutexesHeld, CallsAgree, LastAgrees, ExecutingHasMemory
<1>7. FreedHasOtherUser'
  BY DEF MutexesHeld, CallsAgree, LastAgrees, FreesLoadedNetwork, MemoryHasUser, FreedHasOtherUser
<1>8. MemoryHasUser'
  BY DEF MutexesHeld, CallsAgree, LastAgrees, FreedHasOtherUser, MemoryHasUser
<1>9. QED
  BY <1>1, <1>2, <1>3, <1>4, <1>5, <1>6, <1>7, <1>8

\* A run ends.
LEMMA EndExecuteStep ==
  ASSUME RuntimeInv, NEW t \in Threads, EndExecute(t)
  PROVE  RuntimeInv'
<1> USE RuntimeAssumption
        DEF RuntimeInv, TypeOK, EndExecute, GoTo, Leave, LastOf, Stale, Ids, Kinds, None
<1>1. TypeOK'
  BY DEF CallsAgree
<1>2. MutexesHeld'
  BY DEF CallsAgree, MutexesHeld
<1>3. CallsAgree'
  BY DEF MutexesHeld, CallsAgree
<1>4. LastAgrees'
  BY DEF MutexesHeld, CallsAgree, LastAgrees
<1>5. FreesLoadedNetwork'
  BY DEF MutexesHeld, CallsAgree, FreesLoadedNetwork
<1>6. ExecutingHasMemory'
  BY DEF MutexesHeld, CallsAgree, LastAgrees, ExecutingHasMemory
<1>7. FreedHasOtherUser'
  BY DEF MutexesHeld, CallsAgree, LastAgrees, FreesLoadedNetwork, MemoryHasUser, FreedHasOtherUser
<1>8. MemoryHasUser'
  BY DEF MutexesHeld, CallsAgree, LastAgrees, FreedHasOtherUser, MemoryHasUser
<1>9. QED
  BY <1>1, <1>2, <1>3, <1>4, <1>5, <1>6, <1>7, <1>8

-----------------------------------------------------------------------------
\* A runtime starts with no network and no memory.
LEMMA InitEstablishes == Init => RuntimeInv
<1> SUFFICES ASSUME Init PROVE RuntimeInv
  OBVIOUS
<1> USE RuntimeAssumption DEF Init, Ids, Kinds, None
<1>1. TypeOK
  BY DEF TypeOK
<1>2. MutexesHeld /\ CallsAgree /\ LastAgrees
  BY DEF MutexesHeld, CallsAgree, LastAgrees
<1>3. FreesLoadedNetwork /\ ExecutingHasMemory /\ FreedHasOtherUser /\ MemoryHasUser
  BY DEF FreesLoadedNetwork, ExecutingHasMemory, FreedHasOtherUser, MemoryHasUser
<1>4. QED
  BY <1>1, <1>2, <1>3 DEF RuntimeInv

\* What the runtime does not take part in leaves it as it is.
LEMMA StutterKeeps == ASSUME RuntimeInv, UNCHANGED vars PROVE RuntimeInv'
<1> USE DEF RuntimeInv, vars
<1>1. TypeOK' /\ MutexesHeld' /\ CallsAgree'
  BY DEF TypeOK, MutexesHeld, CallsAgree
<1>2. LastAgrees' /\ FreesLoadedNetwork' /\ ExecutingHasMemory'
  BY DEF LastAgrees, FreesLoadedNetwork, ExecutingHasMemory, LastOf, Stale
<1>3. FreedHasOtherUser' /\ MemoryHasUser'
  BY DEF FreedHasOtherUser, MemoryHasUser, LastOf
<1>4. QED
  BY <1>1, <1>2, <1>3

\* Every step of every thread keeps the invariant.
LEMMA NextKeeps == RuntimeInv /\ [Next]_vars => RuntimeInv'
<1> SUFFICES ASSUME RuntimeInv, [Next]_vars PROVE RuntimeInv'
  OBVIOUS
<1>1. CASE UNCHANGED vars
  BY <1>1, StutterKeeps
<1>2. ASSUME NEW t \in Threads, Load(t) PROVE RuntimeInv'
  BY <1>2, BeginLoadStep, LoadFailsStep, StoreNetworkStep DEF Load
<1>3. ASSUME NEW t \in Threads, NEW n \in Ids, UnloadNetwork(t, n) \/ Call(t, n)
      PROVE  RuntimeInv'
  BY <1>3, UnloadNetworkStep, CallStep
<1>4. ASSUME NEW t \in Threads, Continue(t) PROVE RuntimeInv'
  BY <1>4, SameNetworkStep, FindStaleStep, FreeMemoryStep, LeaveStaleStep,
     ReturnStep, BeginExecuteStep, AllocateFailsStep, EndExecuteStep DEF Continue
<1>5. QED
  BY <1>1, <1>2, <1>3, <1>4 DEF Next

\* So it holds in every reachable state.
LEMMA RuntimeInvariant == Spec => []RuntimeInv
  BY InitEstablishes, NextKeeps, PTL DEF Spec
-----------------------------------------------------------------------------

\* The state of RuntimeImpl keeps its types.
THEOREM TypeCorrect == Spec => []TypeOK
<1>1. RuntimeInv => TypeOK
  BY DEF RuntimeInv
<1>2. QED
  BY <1>1, RuntimeInvariant, PTL

\* FreeWorkingMemory is never called for a network that was unloaded, by
\* however many threads the runtime is used.
THEOREM FreesLoadedNetworkHolds == Spec => []FreesLoadedNetwork
<1>1. RuntimeInv => FreesLoadedNetwork
  BY DEF RuntimeInv
<1>2. QED
  BY <1>1, RuntimeInvariant, PTL

\* No thread frees the working memory under another one's run.
THEOREM ExecutingHasMemoryHolds == Spec => []ExecutingHasMemory
<1>1. RuntimeInv => ExecutingHasMemory
  BY DEF RuntimeInv
<1>2. QED
  BY <1>1, RuntimeInvariant, PTL

\* A network with working memory is loaded and is the last one of some thread.
THEOREM MemoryHasUserHolds == Spec => []MemoryHasUser
<1>1. RuntimeInv => MemoryHasUser
  BY DEF RuntimeInv
<1>2. QED
  BY <1>1, RuntimeInvariant, PTL

-----------------------------------------------------------------------------
(* Why m_Mutex is released, if the threads run: its holder waits at most for a
   run, which waits for nobody, and no other call on that network begins. *)

\* FreeWorkingMemory waits, with m_Mutex held, only for a run of another thread,
\* and a run needs no mutex to end.
WaitsForRun ==
  \A t \in Threads :
    pc[t] = "freeing" /\ workMutex[LastOf(t)] # Free =>
      \E u \in Threads \ {t} :
        workMutex[LastOf(t)] = u /\ on[u] = LastOf(t) /\ pc[u] = "executing"

\* The steps a call has to do at most.
CallLeft(u) ==
  CASE pc[u] = "found" -> 3 [] pc[u] = "run" -> 2 [] pc[u] = "executing" -> 1 [] OTHER -> 0

\* While FreeWorkingMemory waits, no call on its network begins, and every call
\* that is on it comes nearer to its end with each of its steps.
WaitNears ==
  [][\A t, u \in Threads :
       pc[t] = "freeing" /\ pc'[t] = "freeing" =>
         /\ LastOf(t)' = LastOf(t)
         /\ on[u] # LastOf(t) => on'[u] # LastOf(t)
         /\ on[u] = LastOf(t) =>
              IF Continue(u) THEN CallLeft(u)' < CallLeft(u) ELSE CallLeft(u)' = CallLeft(u)]_vars

\* Nobody waits in a circle: m_Mutex before the m_WorkingMemMutex of a network,
\* and Execute takes only the latter.
THEOREM WaitsForRunHolds == Spec => []WaitsForRun
<1>1. RuntimeInv => WaitsForRun
  <2> SUFFICES ASSUME RuntimeInv, NEW t \in Threads, pc[t] = "freeing",
                      workMutex[LastOf(t)] # Free
               PROVE  \E u \in Threads \ {t} :
                        workMutex[LastOf(t)] = u /\ on[u] = LastOf(t) /\ pc[u] = "executing"
    BY DEF WaitsForRun
  <2> USE DEF RuntimeInv
  <2>1. LastOf(t) \in Ids
    BY DEF FreesLoadedNetwork, TypeOK
  <2>2. PICK u \in Threads : workMutex[LastOf(t)] = u
    BY <2>1 DEF TypeOK
  <2>3. on[u] = LastOf(t) /\ pc[u] = "executing"
    BY <2>1, <2>2 DEF MutexesHeld
  <2>4. QED
    BY <2>2, <2>3
<1>2. QED
  BY <1>1, RuntimeInvariant, PTL

\* A thread that goes on with its call gets somewhere else in it.
LEMMA ContinueMoves ==
  ASSUME TypeOK, NEW u \in Threads, Continue(u)
  PROVE  pc'[u] # pc[u]
BY DEF TypeOK, Continue, SameNetwork, FindStale, FreeWorkingMemory, LeaveStale, Return,
       BeginExecute, AllocateFails, EndExecute, GoTo, Leave

\* While a thread waits in FreeWorkingMemory, the steps of the others leave it and
\* its network alone, and none of them takes m_Mutex.
LEMMA OthersStep ==
  ASSUME RuntimeInv, NEW t \in Threads, pc[t] = "freeing", pc'[t] = "freeing",
         NEW v \in Threads, Load(v) \/ Continue(v)
  PROVE  /\ v # t
         /\ \A w \in Threads \ {v} : on'[w] = on[w] /\ pc'[w] = pc[w]
         /\ last'[t] = last[t] /\ kind'[on[t]] = kind[on[t]]
         /\ on'[v] # on[v] => on'[v] # LastOf(t)
         /\ Load(v) => on[v] # LastOf(t)
         /\ Continue(v) /\ on[v] = LastOf(t) => CallLeft(v)' < CallLeft(v)
<1> USE RuntimeAssumption DEF RuntimeInv, TypeOK, GoTo, Leave, Idle, Ids, Kinds, None
<1>1. /\ mutex = t
      /\ mutex # Free
      /\ LastOf(t) \in loaded
      /\ LastOf(t) \in 1..counter
      /\ on[t] \in loaded
      /\ counter \in Nat
  <2>1. mutex = t /\ mutex # Free
    BY DEF MutexesHeld
  <2>2. LastOf(t) \in loaded /\ on[t] \in loaded /\ loaded \subseteq 1..counter
    BY DEF FreesLoadedNetwork, CallsAgree
  <2>3. counter \in Nat
    OBVIOUS
  <2>4. QED
    BY <2>1, <2>2, <2>3
<1>2. LastOf(t) # 0 /\ LastOf(t) # counter + 1
  BY <1>1
<1>3. CASE BeginLoad(v)
  <2>1. ~Continue(v)
    BY <1>3 DEF BeginLoad, Continue, SameNetwork, FindStale, FreeWorkingMemory, LeaveStale,
                Return, BeginExecute, AllocateFails, EndExecute
  <2>2. on[v] = 0
    BY <1>3 DEF BeginLoad, CallsAgree
  <2>3. QED
    BY <1>2, <1>3, <2>1, <2>2 DEF BeginLoad
<1>4. CASE LoadFails(v) \/ StoreNetwork(v)
  <2>1. ~StoreNetwork(v)
    BY <1>1, <1>4 DEF StoreNetwork
  <2>2. pc[v] = "load" /\ on[v] \notin loaded /\ LoadFails(v)
    BY <1>4, <2>1 DEF LoadFails, CallsAgree
  <2>3. ~Continue(v)
    BY <2>2 DEF Continue, SameNetwork, FindStale, FreeWorkingMemory, LeaveStale,
                Return, BeginExecute, AllocateFails, EndExecute
  <2>4. QED
    BY <1>1, <1>2, <2>2, <2>3 DEF LoadFails
<1>5. CASE Continue(v)
  <2>1. v # t
    BY <1>5, ContinueMoves
  <2>2. pc[v] \notin {"freeing", "freed"} /\ ~FindStale(v)
    BY <1>1, <2>1 DEF MutexesHeld, FindStale
  <2>3. \/ SameNetwork(v) \/ Return(v) \/ BeginExecute(v) \/ AllocateFails(v) \/ EndExecute(v)
    BY <1>5, <2>2 DEF Continue, FreeWorkingMemory, LeaveStale
  <2>4. ~Load(v)
    BY <2>3 DEF Load, BeginLoad, LoadFails, StoreNetwork, SameNetwork, Return, BeginExecute,
                AllocateFails, EndExecute
  <2>5. last'[t] = last[t] /\ kind' = kind
    BY <2>1, <2>3 DEF SameNetwork, SetLast, Return, BeginExecute, AllocateFails, EndExecute
  <2>6. /\ \A w \in Threads \ {v} : on'[w] = on[w] /\ pc'[w] = pc[w]
        /\ on'[v] # on[v] => on'[v] # LastOf(t)
    BY <1>2, <2>3 DEF SameNetwork, Return, BeginExecute, AllocateFails, EndExecute
  <2>7. CallLeft(v)' < CallLeft(v)
    BY <2>3 DEF CallLeft, SameNetwork, Return, BeginExecute, AllocateFails, EndExecute
  <2>8. QED
    BY <2>1, <2>4, <2>5, <2>6, <2>7
<1>6. QED
  BY <1>3, <1>4, <1>5 DEF Load

\* FreeWorkingMemory does not wait for good: calls on its network only end.
THEOREM WaitNearsHolds == Spec => WaitNears
<1>1. RuntimeInv /\ [Next]_vars
        => [\A t, u \in Threads :
              pc[t] = "freeing" /\ pc'[t] = "freeing" =>
                /\ LastOf(t)' = LastOf(t)
                /\ on[u] # LastOf(t) => on'[u] # LastOf(t)
                /\ on[u] = LastOf(t) =>
                     IF Continue(u) THEN CallLeft(u)' < CallLeft(u)
                                    ELSE CallLeft(u)' = CallLeft(u)]_vars
  <2> SUFFICES ASSUME RuntimeInv, Next,
                      NEW t \in Threads, NEW u \in Threads,
                      pc[t] = "freeing", pc'[t] = "freeing"
               PROVE  /\ LastOf(t)' = LastOf(t)
                      /\ on[u] # LastOf(t) => on'[u] # LastOf(t)
                      /\ on[u] = LastOf(t) =>
                           IF Continue(u) THEN CallLeft(u)' < CallLeft(u)
                                          ELSE CallLeft(u)' = CallLeft(u)
    OBVIOUS
  <2>1. mutex # Free
    BY RuntimeAssumption DEF RuntimeInv, MutexesHeld
  <2>2. PICK v \in Threads : Load(v) \/ Continue(v)
    BY <2>1 DEF Next, UnloadNetwork, Call
  <2>3. /\ v # t
        /\ \A w \in Threads \ {v} : on'[w] = on[w] /\ pc'[w] = pc[w]
        /\ last'[t] = last[t] /\ kind'[on[t]] = kind[on[t]]
        /\ on'[v] # on[v] => on'[v] # LastOf(t)
        /\ Load(v) => on[v] # LastOf(t)
        /\ Continue(v) /\ on[v] = LastOf(t) => CallLeft(v)' < CallLeft(v)
    BY <2>2, OthersStep
  <2>4. LastOf(t)' = LastOf(t)
    BY <2>3 DEF LastOf
  <2>5. CASE u = v
    BY <2>2, <2>3, <2>4, <2>5
  <2>6. CASE u # v
    <3>1. on'[u] = on[u] /\ pc'[u] = pc[u]
      BY <2>3, <2>6
    <3>2. ~Continue(u)
      BY <3>1, ContinueMoves DEF RuntimeInv
    <3>3. QED
      BY <2>4, <3>1, <3>2 DEF CallLeft
  <2>7. QED
    BY <2>5, <2>6
<1>2. QED
  BY <1>1, RuntimeInvariant, PTL DEF Spec, WaitNears

-----------------------------------------------------------------------------
(* Rankings: the order of the layers and of the blocks *)

\* below[x] are the elements of S that a strict total order ranks below x.
Ranks(S, below) ==
  /\ IsFiniteSet(S)
  /\ \A x \in S : below[x] \subseteq S /\ x \notin below[x]
  /\ \A x, y \in S : x # y => x \in below[y] \/ y \in below[x]
  /\ \A x, y, z \in S : x \in below[y] /\ y \in below[z] => x \in below[z]

\* The elements below one with a rank are fewer than those of the set, so ranks
\* are below its size, and no two elements have the same.
LEMMA RankFacts ==
  ASSUME NEW S, NEW below, Ranks(S, below)
  PROVE  /\ Cardinality(S) \in Nat
         /\ \A x \in S : Cardinality(below[x]) \in 0..Cardinality(S) - 1
         /\ \A x, y \in S : x \in below[y] => Cardinality(below[x]) < Cardinality(below[y])
         /\ \A x, y \in S : Cardinality(below[x]) = Cardinality(below[y]) => x = y
<1>1. \A T : T \subseteq S => IsFiniteSet(T) /\ Cardinality(T) \in Nat
  BY FS_Subset, FS_CardinalityType DEF Ranks
<1>2. \A T, U : T \subseteq U /\ U \subseteq S /\ T # U => Cardinality(T) < Cardinality(U)
  BY <1>1, FS_Subset
<1>3. ASSUME NEW x \in S PROVE Cardinality(below[x]) \in 0..Cardinality(S) - 1
  <2>1. below[x] \subseteq S /\ below[x] # S
    BY DEF Ranks
  <2>2. Cardinality(below[x]) < Cardinality(S)
    BY <1>2, <2>1
  <2> QED
    BY <1>1, <2>1, <2>2
<1>4. ASSUME NEW x \in S, NEW y \in S, x \in below[y]
      PROVE  Cardinality(below[x]) < Cardinality(below[y])
  <2>1. below[x] \subseteq below[y] /\ x \notin below[x] /\ below[y] \subseteq S
    BY <1>4 DEF Ranks
  <2> QED
    BY <1>2, <1>4, <2>1
<1>5. ASSUME NEW x \in S, NEW y \in S, Cardinality(below[x]) = Cardinality(below[y])
      PROVE  x = y
  <2>1. Cardinality(below[x]) \in Nat /\ Cardinality(below[y]) \in Nat
    BY <1>1 DEF Ranks
  <2>2. ~(x \in below[y]) /\ ~(y \in below[x])
    BY <1>4, <1>5, <2>1
  <2> QED
    BY <2>2 DEF Ranks
<1> QED
  BY <1>1, <1>3, <1>4, <1>5

\* As many ranks as elements, and no two elements with one rank: every rank below
\* the size of the set is that of an element.
LEMMA RankExists ==
  ASSUME NEW S, NEW below, Ranks(S, below)
  PROVE  \A i \in Nat : i < Cardinality(S) => \E x \in S : Cardinality(below[x]) = i
<1> DEFINE n == Cardinality(S)
           T == 0..n - 1
           f == [x \in S |-> Cardinality(below[x])]
<1>1. n \in Nat /\ IsFiniteSet(S)
  BY RankFacts DEF Ranks
<1>2. IsFiniteSet(T) /\ Cardinality(T) = n
  <2>1. 0 \in Int /\ n - 1 \in Int
    BY <1>1
  <2>2. IsFiniteSet(0..n - 1) /\ Cardinality(0..n - 1) = IF 0 > n - 1 THEN 0 ELSE n - 1 - 0 + 1
    BY <2>1, FS_Interval
  <2> QED
    BY <1>1, <2>2
<1>3. f \in Injection(S, T)
  <2>1. f \in [S -> T]
    BY RankFacts
  <2>2. \A x, y \in S : f[x] = f[y] => x = y
    BY RankFacts
  <2> QED
    BY <2>1, <2>2 DEF Injection, IsInjective
<1>4. f \in Surjection(S, T)
  BY <1>1, <1>2, <1>3, FS_Injection
<1>5. \A i \in T : \E x \in S : Cardinality(below[x]) = i
  BY <1>4 DEF Surjection
<1>6. ASSUME NEW i \in Nat, i < n PROVE i \in T
  BY <1>1, <1>6
<1> QED
  BY <1>5, <1>6

\* Ranked lists every element of the set exactly once.
LEMMA RankedFacts ==
  ASSUME NEW S, NEW below, Ranks(S, below)
  PROVE  /\ Ranked(S, below) \in Seq(S)
         /\ Len(Ranked(S, below)) = Cardinality(S)
         /\ \A x \in S : \E i \in 1..Cardinality(S) : Ranked(S, below)[i] = x
         /\ \A i, j \in 1..Cardinality(S) : Ranked(S, below)[i] = Ranked(S, below)[j] => i = j
<1> DEFINE n == Cardinality(S)
           r == Ranked(S, below)
<1>1. n \in Nat
  BY RankFacts
<1>2. ASSUME NEW i \in 1..n
      PROVE  r[i] \in S /\ Cardinality(below[r[i]]) = i - 1
  <2>1. i - 1 \in Nat /\ i - 1 < n
    BY <1>1
  <2>2. \E x \in S : Cardinality(below[x]) = i - 1
    BY <2>1, RankExists
  <2>3. r[i] = CHOOSE x \in S : Cardinality(below[x]) = i - 1
    BY DEF Ranked
  <2> QED
    BY <2>2, <2>3
<1>3. r = [i \in 1..n |-> r[i]]
  BY DEF Ranked
<1>4. r \in [1..n -> S]
  BY <1>2, <1>3
<1>5. r \in Seq(S) /\ Len(r) = n
  BY <1>1, <1>4
<1>6. ASSUME NEW x \in S PROVE \E i \in 1..n : r[i] = x
  <2>1. Cardinality(below[x]) \in 0..n - 1
    BY RankFacts
  <2>2. Cardinality(below[x]) + 1 \in 1..n
    BY <1>1, <2>1
  <2>3. Cardinality(below[r[Cardinality(below[x]) + 1]]) = Cardinality(below[x])
    BY <1>2, <2>1, <2>2
  <2>4. r[Cardinality(below[x]) + 1] = x
    BY <1>2, <2>2, <2>3, RankFacts
  <2> QED
    BY <2>2, <2>4
<1>7. ASSUME NEW i \in 1..n, NEW j \in 1..n, r[i] = r[j] PROVE i = j
  BY <1>1, <1>2, <1>7
<1> QED
  BY <1>5, <1>6, <1>7

\* The first and the last of a ranking.
LEMMA RankEnds ==
  ASSUME NEW S, NEW below, Ranks(S, below), S # {}
  PROVE  /\ \E x \in S : \A y \in S : y \notin below[x]
         /\ \E x \in S : \A y \in S : x \notin below[y]
<1> DEFINE n == Cardinality(S)
<1>1. n \in Nat /\ n # 0
  BY FS_EmptySet, FS_CardinalityType DEF Ranks
<1>2. 0 \in Nat /\ 0 < n /\ n - 1 \in Nat /\ n - 1 < n
  BY <1>1
<1>3. \A y \in S : Cardinality(below[y]) \in 0..n - 1
  BY RankFacts
<1>4. PICK x \in S : Cardinality(below[x]) = 0
  BY <1>2, RankExists
<1>5. PICK z \in S : Cardinality(below[z]) = n - 1
  BY <1>2, RankExists
<1>6. \A y \in S : y \notin below[x]
  BY <1>3, <1>4, RankFacts
<1>7. \A y \in S : z \notin below[y]
  BY <1>1, <1>3, <1>5, RankFacts
<1> QED
  BY <1>6, <1>7

\* A finite set of integers has a least and a greatest element.
LEMMA MinMaxFacts ==
  ASSUME NEW S, S \subseteq Int, IsFiniteSet(S), S # {}
  PROVE  /\ Min(S) \in S /\ \A x \in S : Min(S) <= x
         /\ Max(S) \in S /\ \A x \in S : x <= Max(S)
<1>1. PICK below : below = [x \in S |-> {y \in S : y < x}]
  OBVIOUS
<1>2. Ranks(S, below)
  BY <1>1 DEF Ranks
<1>3. \A x, y \in S : y \notin below[x] => x <= y
  BY <1>1
<1>4. /\ \E x \in S : \A y \in S : y \notin below[x]
      /\ \E x \in S : \A y \in S : x \notin below[y]
  BY <1>2, RankEnds
<1>5. \E x \in S : \A y \in S : x <= y
  BY <1>3, <1>4
<1>6. \E x \in S : \A y \in S : y <= x
  BY <1>3, <1>4
<1>7. Min(S) \in S /\ \A x \in S : Min(S) <= x
  BY <1>5 DEF Min
<1>8. Max(S) \in S /\ \A x \in S : x <= Max(S)
  <2>1. \E x \in S : \A y \in S : x >= y
    BY <1>6
  <2>2. Max(S) \in S /\ \A x \in S : Max(S) >= x
    BY <2>1 DEF Max
  <2> QED
    BY <2>2
<1> QED
  BY <1>7, <1>8

\* The order of the layers.
LayersBelow(S) == [x \in S |-> {y \in S : Precedes(y, x)}]
\* TopologicalSort: the layers are totally ordered, so those of any set are ranked.
LEMMA LayerFacts ==
  /\ IsFiniteSet(Layers) /\ Layers \subseteq Int
  /\ \A S : S \subseteq Layers => IsFiniteSet(S) /\ Ranks(S, LayersBelow(S))
<1>1. Workloads \subseteq Int
  BY TensorMemoryAssumption, FS_CardinalityType
<1>2. IsFiniteSet(Layers) /\ Layers \subseteq Int
  BY <1>1, TensorMemoryAssumption, FS_Union DEF Layers, Tensors
<1>3. \A x \in Layers : ~Precedes(x, x)
  BY <1>2 DEF Precedes
<1>4. \A x, y \in Layers : x # y => Precedes(x, y) \/ Precedes(y, x)
  BY <1>2, TensorMemoryAssumption DEF Precedes, Layers, Tensors
<1>5. \A x, y, z \in Layers : Precedes(x, y) /\ Precedes(y, z) => Precedes(x, z)
  BY <1>2, TensorMemoryAssumption DEF Precedes, Layers, Tensors
<1>6. ASSUME NEW S, S \subseteq Layers PROVE IsFiniteSet(S) /\ Ranks(S, LayersBelow(S))
  <2>1. IsFiniteSet(S)
    BY <1>2, <1>6, FS_Subset
  <2> QED
    BY <1>3, <1>4, <1>5, <1>6, <2>1 DEF Ranks, LayersBelow
<1> QED
  BY <1>2, <1>6

\* InOrder lists every layer of the set.
LEMMA InOrderFacts ==
  ASSUME NEW S, S \subseteq Layers
  PROVE  \A x \in S : \E i \in DOMAIN InOrder(S) : InOrder(S)[i] = x
<1>1. Ranks(S, LayersBelow(S))
  BY LayerFacts
<1>2. InOrder(S) = Ranked(S, LayersBelow(S))
  BY DEF InOrder, LayersBelow
<1>3. DOMAIN InOrder(S) = 1..Cardinality(S)
  BY <1>2 DEF Ranked
<1> QED
  BY <1>1, <1>2, <1>3, RankedFacts

\* timestep of CreateMemoryProfileAsync counts up along the layers it does not skip.
LEMMA TimestepFacts ==
  ASSUME NEW src \in Sources
  PROVE  /\ \A l : Timestep(l, src) \in Nat
         /\ \A l, m \in Kept(src) : Precedes(l, m) => Timestep(l, src) < Timestep(m, src)
<1>1. Kept(src) \subseteq Layers
  BY DEF Kept
<1>2. Ranks(Kept(src), LayersBelow(Kept(src))) /\ IsFiniteSet(Kept(src))
  BY <1>1, LayerFacts
<1>3. ASSUME NEW l PROVE Timestep(l, src) \in Nat
  <2>1. {m \in Kept(src) : Precedes(m, l)} \in SUBSET Kept(src)
    OBVIOUS
  <2>2. IsFiniteSet({m \in Kept(src) : Precedes(m, l)})
    BY <1>2, <2>1, FS_Subset
  <2> QED
    BY <2>2, FS_CardinalityType DEF Timestep
<1>4. ASSUME NEW l \in Kept(src), NEW m \in Kept(src), Precedes(l, m)
      PROVE  Timestep(l, src) < Timestep(m, src)
  <2>1. /\ Timestep(l, src) = Cardinality(LayersBelow(Kept(src))[l])
        /\ Timestep(m, src) = Cardinality(LayersBelow(Kept(src))[m])
        /\ l \in LayersBelow(Kept(src))[m]
    BY <1>4 DEF Timestep, LayersBelow
  <2> QED
    BY <1>2, <2>1, RankFacts
<1> QED
  BY <1>3, <1>4

\* The lists of blocks the strategy is given.
BlockList(blocks) ==
  /\ IsFiniteSet(blocks)
  /\ \A b \in blocks : /\ b.start \in Nat /\ b.end \in Nat /\ b.slot \in Nat /\ b.size \in Nat
                       /\ b.start <= b.end
  /\ \A b, c \in blocks : b.end = c.end /\ b.slot = c.slot => b = c

\* priorityList.sort of SingleAxisPriorityList: the blocks placed before one.
BlocksBelow(blocks) == [b \in blocks |-> {c \in blocks : Before(c, b)}]
\* The priority list holds every block exactly once: no two are of the same size and
\* end at the same slot.
LEMMA PriorityListFacts ==
  ASSUME NEW blocks, BlockList(blocks)
  PROVE  LET list == PriorityList(blocks)
         IN  /\ list \in Seq(blocks) /\ Len(list) = Cardinality(blocks)
             /\ \A b \in blocks : \E i \in 1..Cardinality(blocks) : list[i] = b
             /\ \A i, j \in 1..Cardinality(blocks) : list[i] = list[j] => i = j
<1>1. \A b \in blocks : ~Before(b, b)
  BY DEF BlockList, Before
<1>2. \A b, c \in blocks : b # c => Before(b, c) \/ Before(c, b)
  BY DEF BlockList, Before
<1>3. \A b, c, d \in blocks : Before(b, c) /\ Before(c, d) => Before(b, d)
  BY DEF BlockList, Before
<1>4. Ranks(blocks, BlocksBelow(blocks))
  BY <1>1, <1>2, <1>3 DEF Ranks, BlocksBelow, BlockList
<1>5. PriorityList(blocks) = Ranked(blocks, BlocksBelow(blocks))
  BY DEF PriorityList, BlocksBelow
<1> QED
  BY <1>4, <1>5, RankedFacts

-----------------------------------------------------------------------------
(* Packing the blocks into bins *)

\* The words of a life.
LEMMA DivFacts ==
  ASSUME NEW s \in Nat, NEW t \in Nat, s <= t
  PROVE  /\ s \div WordSize \in Nat /\ t \div WordSize \in Nat
         /\ s \div WordSize <= t \div WordSize
         /\ s \div WordSize = t \div WordSize => s % WordSize <= t % WordSize
         /\ t % WordSize \in Bits
<1>1. WordSize \in Nat \ {0}
  BY TensorMemoryAssumption
<1>2. ASSUME NEW v \in Nat \ {0}
      PROVE  /\ s \div v \in Nat /\ t \div v \in Nat
             /\ s \div v <= t \div v
             /\ s \div v = t \div v => s % v <= t % v
             /\ t % v \in 0..v - 1
  OBVIOUS
<1> QED
  BY <1>1, <1>2 DEF Bits

\* CreateLifetimeMasks: the bit of every step of a life is in the mask, in the first
\* word, in the last and in those between.
LEMMA MaskFacts ==
  ASSUME NEW b, b.start \in Nat, b.end \in Nat, NEW t \in Nat, b.start <= t, t <= b.end
  PROVE  t \div WordSize \in DOMAIN Mask(b) /\ t % WordSize \in Mask(b)[t \div WordSize]
<1> DEFINE first == b.start \div WordSize
           final == b.end \div WordSize
           w == t \div WordSize
<1>1. /\ first \in Nat /\ final \in Nat /\ w \in Nat /\ first <= w /\ w <= final
      /\ w = first => t % WordSize >= b.start % WordSize
      /\ w = final => t % WordSize <= b.end % WordSize
      /\ t % WordSize \in Bits
  <2>1. /\ first \in Nat /\ w \in Nat /\ first <= w /\ t % WordSize \in Bits
        /\ first = w => b.start % WordSize <= t % WordSize
    BY DivFacts
  <2>2. /\ final \in Nat /\ w <= final
        /\ w = final => t % WordSize <= b.end % WordSize
    BY DivFacts
  <2>3. b.start % WordSize \in Bits
    BY DivFacts
  <2> QED
    BY <2>1, <2>2, <2>3, TensorMemoryAssumption DEF Bits
<1>2. w \in first..final
  BY <1>1
<1> QED
  BY <1>1, <1>2 DEF Mask

\* The mask stays inside of the words and the bits of a bin.
LEMMA MaskInWords ==
  ASSUME NEW b, b.start \in Nat, b.end \in Nat, NEW words \in Nat, b.end \div WordSize <= words
  PROVE  \A w \in DOMAIN Mask(b) : w \in 0..words /\ Mask(b)[w] \subseteq Bits
<1>1. b.start \div WordSize \in Nat /\ b.end \div WordSize \in Nat
  BY DivFacts
<1>2. DOMAIN Mask(b) = (b.start \div WordSize)..(b.end \div WordSize)
  BY DEF Mask
<1> QED
  BY <1>1, <1>2 DEF Mask

\* std::max of a bin's size and a block's.
LEMMA MaxOfTwo ==
  ASSUME NEW m \in Nat, NEW n \in Nat
  PROVE  Max({m, n}) \in Nat /\ m <= Max({m, n}) /\ n <= Max({m, n})
<1>1. IsFiniteSet({m}) /\ IsFiniteSet({m} \cup {n})
  BY FS_Singleton, FS_AddElement
<1>2. {m} \cup {n} = {m, n}
  OBVIOUS
<1>3. IsFiniteSet({m, n})
  BY <1>1, <1>2
<1>4. {m, n} \subseteq Int /\ {m, n} # {}
  OBVIOUS
<1>5. Max({m, n}) \in {m, n} /\ \A x \in {m, n} : x <= Max({m, n})
  BY <1>3, <1>4, MinMaxFacts
<1> QED
  BY <1>5

\* A block that fits into a bin is never alive together with one in the bin.
LEMMA FitsApart ==
  ASSUME NEW b, b.start \in Nat, b.end \in Nat, b.start <= b.end,
         NEW c, c.start \in Nat, c.end \in Nat, c.start <= c.end,
         NEW bin, \A w \in DOMAIN Mask(c) : Mask(c)[w] \subseteq bin.occupied[w],
         Fits(bin, b)
  PROVE  ~Overlap(b, c)
<1> SUFFICES ASSUME Overlap(b, c) PROVE FALSE
  OBVIOUS
<1>1. PICK t \in Nat : b.start <= t /\ t <= b.end /\ c.start <= t /\ t <= c.end
  <2>1. CASE b.start <= c.start
    BY <2>1 DEF Overlap
  <2>2. CASE c.start <= b.start
    BY <2>2 DEF Overlap
  <2> QED
    BY <2>1, <2>2
<1>2. /\ t \div WordSize \in DOMAIN Mask(b) /\ t % WordSize \in Mask(b)[t \div WordSize]
      /\ t \div WordSize \in DOMAIN Mask(c) /\ t % WordSize \in Mask(c)[t \div WordSize]
  BY <1>1, MaskFacts
<1> QED
  BY <1>2 DEF Fits

\* The bins there may be when there are so many words.
AnyBin(blocks, words) == [occupied : [0..words -> SUBSET Bits], blocks : SUBSET blocks, size : Nat]
\* A bin has placed blocks only, knows the steps in which they are alive, has room
\* for each, and no two of them are alive in the same step.
BinOK(bin, done) ==
  /\ bin.blocks \subseteq done
  /\ \A c \in bin.blocks : /\ \A w \in DOMAIN Mask(c) : Mask(c)[w] \subseteq bin.occupied[w]
                           /\ c.size <= bin.size
  /\ \A b, c \in bin.blocks : b # c => ~Overlap(b, c)

\* AddBlock keeps a bin in order when the block fits.
LEMMA AddBlockFacts ==
  ASSUME NEW blocks, BlockList(blocks), NEW words \in Nat,
         NEW bin \in AnyBin(blocks, words), NEW done \in SUBSET blocks, BinOK(bin, done),
         \A c \in blocks : c.end \div WordSize <= words,
         NEW b \in blocks, Fits(bin, b)
  PROVE  /\ AddBlock(bin, b) \in AnyBin(blocks, words)
         /\ BinOK(AddBlock(bin, b), done \cup {b})
         /\ AddBlock(bin, b).blocks = bin.blocks \cup {b}
<1> DEFINE new == AddBlock(bin, b)
           occupied == [w \in 0..words |->
                          bin.occupied[w] \cup (IF w \in DOMAIN Mask(b) THEN Mask(b)[w] ELSE {})]
<1>1. /\ b.start \in Nat /\ b.end \in Nat /\ b.start <= b.end /\ b.size \in Nat
      /\ \A c \in blocks : c.start \in Nat /\ c.end \in Nat /\ c.start <= c.end /\ c.size \in Nat
  BY DEF BlockList
<1>2. /\ bin.occupied \in [0..words -> SUBSET Bits] /\ bin.blocks \subseteq blocks
      /\ bin.size \in Nat
  BY DEF AnyBin
<1>3. /\ Max({bin.size, b.size}) \in Nat
      /\ bin.size <= Max({bin.size, b.size}) /\ b.size <= Max({bin.size, b.size})
  BY <1>1, <1>2, MaxOfTwo
<1>4. new = [occupied |-> occupied, blocks |-> bin.blocks \cup {b}, size |-> Max({bin.size, b.size})]
  BY <1>2 DEF AddBlock
<1>5. \A w \in DOMAIN Mask(b) : w \in 0..words /\ Mask(b)[w] \subseteq Bits
  BY <1>1, MaskInWords
<1>6. occupied \in [0..words -> SUBSET Bits]
  BY <1>2, <1>5
<1>7. new \in AnyBin(blocks, words)
  BY <1>2, <1>3, <1>4, <1>6 DEF AnyBin
<1>8. \A w \in 0..words : bin.occupied[w] \subseteq occupied[w]
  OBVIOUS
<1>9. ASSUME NEW c \in bin.blocks
      PROVE  /\ \A w \in DOMAIN Mask(c) : Mask(c)[w] \subseteq occupied[w]
             /\ c.size <= Max({bin.size, b.size})
             /\ ~Overlap(b, c) /\ ~Overlap(c, b)
  <2>1. c \in blocks /\ c.start \in Nat /\ c.end \in Nat /\ c.start <= c.end /\ c.size \in Nat
    BY <1>1, <1>2
  <2>2. /\ \A w \in DOMAIN Mask(c) : Mask(c)[w] \subseteq bin.occupied[w]
        /\ c.size <= bin.size
    BY DEF BinOK
  <2>3. \A w \in DOMAIN Mask(c) : w \in 0..words
    BY <2>1, MaskInWords
  <2>4. c.size <= Max({bin.size, b.size})
    BY <1>2, <1>3, <2>1, <2>2
  <2>5. ~Overlap(b, c)
    BY <1>1, <2>1, <2>2, FitsApart
  <2>6. ~Overlap(c, b)
    BY <2>5 DEF Overlap
  <2> QED
    BY <1>8, <2>2, <2>3, <2>4, <2>5, <2>6
<1>10. \A w \in DOMAIN Mask(b) : Mask(b)[w] \subseteq occupied[w]
  BY <1>5
<1>11. /\ new.occupied = occupied /\ new.blocks = bin.blocks \cup {b}
       /\ new.size = Max({bin.size, b.size})
  BY <1>4
<1> HIDE DEF new, occupied
<1>12. \A c, d \in new.blocks : c # d => ~Overlap(c, d)
  BY <1>9, <1>11 DEF BinOK
<1>13. BinOK(new, done \cup {b})
  BY <1>3, <1>9, <1>10, <1>11, <1>12 DEF BinOK
<1> QED
  BY <1>7, <1>11, <1>13 DEF new

\* The blocks that have been placed are in one bin each, and apart.
Packed(bins, done, blocks, words) ==
  /\ bins \in Seq(AnyBin(blocks, words))
  /\ \A k \in DOMAIN bins : BinOK(bins[k], done)
  /\ \A b \in done : \E k \in DOMAIN bins : b \in bins[k].blocks
  /\ \A j, k \in DOMAIN bins : \A b \in bins[j].blocks : b \in bins[k].blocks => j = k

\* Every block fits into a new bin.
LEMMA EmptyBinFacts ==
  ASSUME NEW blocks, NEW words \in Nat
  PROVE  /\ EmptyBin(words) \in AnyBin(blocks, words) /\ EmptyBin(words).blocks = {}
         /\ \A b : b.start \in Nat /\ b.end \in Nat /\ b.end \div WordSize <= words
                   => Fits(EmptyBin(words), b)
<1>1. EmptyBin(words) \in AnyBin(blocks, words) /\ EmptyBin(words).blocks = {}
  BY DEF EmptyBin, AnyBin
<1>2. ASSUME NEW b, b.start \in Nat, b.end \in Nat, b.end \div WordSize <= words
      PROVE  Fits(EmptyBin(words), b)
  <2>1. \A w \in 0..words : EmptyBin(words).occupied[w] = {}
    BY DEF EmptyBin
  <2>2. \A w \in DOMAIN Mask(b) : w \in 0..words
    BY <1>2, MaskInWords
  <2> QED
    BY <2>1, <2>2 DEF Fits
<1> QED
  BY <1>1, <1>2

\* So a new bin with one block is in order.
LEMMA FirstBlockFacts ==
  ASSUME NEW blocks, BlockList(blocks), NEW words \in Nat,
         \A c \in blocks : c.end \div WordSize <= words,
         NEW done \in SUBSET blocks, NEW b \in blocks
  PROVE  /\ AddBlock(EmptyBin(words), b) \in AnyBin(blocks, words)
         /\ BinOK(AddBlock(EmptyBin(words), b), done \cup {b})
         /\ AddBlock(EmptyBin(words), b).blocks = {b}
<1>1. PICK empty : empty = EmptyBin(words)
  OBVIOUS
<1>2. b.start \in Nat /\ b.end \in Nat /\ b.end \div WordSize <= words
  BY DEF BlockList
<1>3. empty \in AnyBin(blocks, words) /\ Fits(empty, b) /\ empty.blocks = {}
  BY <1>1, <1>2, EmptyBinFacts
<1>4. BinOK(empty, done)
  BY <1>3 DEF BinOK
<1>5. /\ AddBlock(empty, b) \in AnyBin(blocks, words)
      /\ BinOK(AddBlock(empty, b), done \cup {b})
      /\ AddBlock(empty, b).blocks = empty.blocks \cup {b}
  BY <1>3, <1>4, AddBlockFacts
<1> QED
  BY <1>1, <1>3, <1>5

\* PlaceBlocks, one block: it goes into the first bin it fits into, or into a new
\* one, and the others stay where they are.
LEMMA PlaceBlockFacts ==
  ASSUME NEW blocks, BlockList(blocks), NEW words \in Nat,
         \A c \in blocks : c.end \div WordSize <= words,
         NEW done \in SUBSET blocks, NEW bins, Packed(bins, done, blocks, words),
         NEW b \in blocks \ done
  PROVE  Packed(PlaceBlock(bins, b, words), done \cup {b}, blocks, words)
<1> DEFINE free == {k \in DOMAIN bins : Fits(bins[k], b)}
           new == PlaceBlock(bins, b, words)
<1>1. /\ bins \in Seq(AnyBin(blocks, words)) /\ Len(bins) \in Nat
      /\ DOMAIN bins = 1..Len(bins)
      /\ \A k \in DOMAIN bins : /\ bins[k] \in AnyBin(blocks, words) /\ BinOK(bins[k], done)
                                /\ b \notin bins[k].blocks
  BY LenProperties, ElementOfSeq DEF Packed, BinOK
<1>2. \A bin : BinOK(bin, done) => BinOK(bin, done \cup {b})
  BY DEF BinOK
<1>3. CASE free = {}
  <2>1. b \in blocks
    OBVIOUS
  <2>2. PICK bin : bin = AddBlock(EmptyBin(words), b)
    OBVIOUS
  <2>3. bin \in AnyBin(blocks, words) /\ BinOK(bin, done \cup {b}) /\ bin.blocks = {b}
    BY <2>1, <2>2, FirstBlockFacts
  <2>4. new = Append(bins, bin)
    BY <1>3, <2>2 DEF PlaceBlock
  <2>5. /\ new \in Seq(AnyBin(blocks, words)) /\ DOMAIN new = 1..Len(bins) + 1
        /\ \A k \in DOMAIN bins : new[k] = bins[k]
        /\ new[Len(bins) + 1] = bin
    BY <1>1, <2>3, <2>4, AppendProperties, LenProperties
  <2> HIDE DEF new
  <2>6. \A k \in DOMAIN new : k \in DOMAIN bins \/ k = Len(bins) + 1
    BY <1>1, <2>5
  <2>7. \A k \in DOMAIN new : BinOK(new[k], done \cup {b})
    BY <1>1, <1>2, <2>3, <2>5, <2>6
  <2>8. \A c \in done \cup {b} : \E k \in DOMAIN new : c \in new[k].blocks
    <3>1. \A k \in DOMAIN bins : k \in DOMAIN new
      BY <1>1, <2>5
    <3>2. Len(bins) + 1 \in DOMAIN new
      BY <1>1, <2>5
    <3> QED
      BY <2>3, <2>5, <3>1, <3>2 DEF Packed
  <2>9. \A j, k \in DOMAIN new : \A c \in new[j].blocks : c \in new[k].blocks => j = k
    BY <1>1, <2>3, <2>5, <2>6 DEF Packed
  <2> QED
    BY <2>5, <2>7, <2>8, <2>9 DEF Packed, new
<1>4. CASE free # {}
  <2>1. Min(free) \in free
    <3>1. IsFiniteSet(DOMAIN bins) /\ free \subseteq DOMAIN bins
      BY <1>1, FS_Interval
    <3>2. IsFiniteSet(free) /\ free \subseteq Int
      BY <1>1, <3>1, FS_Subset
    <3> HIDE DEF free
    <3> QED
      BY <1>4, <3>2, MinMaxFacts
  <2>2. PICK first \in DOMAIN bins : first = Min(free) /\ Fits(bins[first], b)
    BY <2>1
  <2>3. PICK bin : bin = AddBlock(bins[first], b)
    OBVIOUS
  <2>4. /\ bin \in AnyBin(blocks, words) /\ BinOK(bin, done \cup {b})
        /\ bin.blocks = bins[first].blocks \cup {b}
    <3>1. PICK old : old = bins[first]
      OBVIOUS
    <3>2. old \in AnyBin(blocks, words) /\ BinOK(old, done) /\ Fits(old, b)
      BY <1>1, <2>2, <3>1
    <3>3. /\ AddBlock(old, b) \in AnyBin(blocks, words) /\ BinOK(AddBlock(old, b), done \cup {b})
          /\ AddBlock(old, b).blocks = old.blocks \cup {b}
      BY <3>2, AddBlockFacts
    <3> QED
      BY <2>3, <3>1, <3>3
  <2>5. new = [bins EXCEPT ![first] = bin]
    BY <1>4, <2>2, <2>3 DEF PlaceBlock
  <2>6. /\ new \in Seq(AnyBin(blocks, words)) /\ DOMAIN new = DOMAIN bins
        /\ \A k \in DOMAIN bins : new[k] = IF k = first THEN bin ELSE bins[k]
    BY <1>1, <2>4, <2>5, ExceptSeq, LenProperties
  <2> HIDE DEF new
  <2>7. \A k \in DOMAIN new : BinOK(new[k], done \cup {b})
    BY <1>1, <1>2, <2>4, <2>6
  <2>8. \A c \in done \cup {b} : \E k \in DOMAIN new : c \in new[k].blocks
    BY <2>4, <2>6 DEF Packed
  <2>9. \A j, k \in DOMAIN new : \A c \in new[j].blocks : c \in new[k].blocks => j = k
    BY <1>1, <2>4, <2>6 DEF Packed
  <2> QED
    BY <2>6, <2>7, <2>8, <2>9 DEF Packed, new
<1> QED
  BY <1>3, <1>4

\* A set of steps has a first one.
LEMMA FirstStep ==
  ASSUME NEW n \in Nat, NEW S, S \subseteq 0..n, S # {}
  PROVE  \E m \in S : m \in 0..n /\ m - 1 \notin S
<1>1. IsFiniteSet(0..n)
  BY FS_Interval
<1>2. IsFiniteSet(S)
  BY <1>1, FS_Subset
<1>3. S \subseteq Int
  OBVIOUS
<1>4. Min(S) \in S /\ \A k \in S : Min(S) <= k
  BY <1>2, <1>3, MinMaxFacts
<1>5. Min(S) \in 0..n
  BY <1>4
<1>6. Min(S) - 1 \notin S
  BY <1>4, <1>5
<1> QED
  BY <1>4, <1>5, <1>6

\* PlaceBlocks is defined for every list: what has been placed of a list is made
\* step by step, so a least step at which there is nothing cannot exist.
PlacedUpTo(list, words, m, f) ==
  f = [k \in 0..m |-> IF k = 0 THEN <<>> ELSE PlaceBlock(f[k - 1], list[k], words)]

\* There is such a function for every length: with one for m - 1 blocks there is one
\* for m, and the first length without one would have none for the length before.
LEMMA PlacedExists ==
  ASSUME NEW list, NEW words
  PROVE  \A m \in Nat : \E f : PlacedUpTo(list, words, m, f)
<1> SUFFICES ASSUME NEW n \in Nat, ~\E f : PlacedUpTo(list, words, n, f) PROVE FALSE
  OBVIOUS
<1> DEFINE S == {m \in 0..n : ~\E f : PlacedUpTo(list, words, m, f)}
<1>1. S \subseteq 0..n /\ S # {}
  OBVIOUS
<1>2. PICK m \in S : m \in 0..n /\ m - 1 \notin S
  <2> HIDE DEF S
  <2> QED
    BY <1>1, FirstStep
<1>3. m \in 0..n /\ ~\E f : PlacedUpTo(list, words, m, f)
  OBVIOUS
<1>4. CASE m = 0
  <2>1. PICK f : f = [k \in 0..0 |-> <<>>]
    OBVIOUS
  <2>2. f = [k \in 0..0 |-> IF k = 0 THEN <<>> ELSE PlaceBlock(f[k - 1], list[k], words)]
    BY <2>1
  <2> QED
    BY <1>3, <1>4, <2>2 DEF PlacedUpTo
<1>5. CASE m # 0
  <2>1. m - 1 \in 0..n /\ m - 1 \notin S
    BY <1>2, <1>3, <1>5
  <2>2. PICK f : PlacedUpTo(list, words, m - 1, f)
    BY <2>1
  <2>3. PICK g : g = [k \in 0..m |-> IF k = m THEN PlaceBlock(f[m - 1], list[m], words) ELSE f[k]]
    OBVIOUS
  <2>4. \A k \in 0..m : k # m => k \in 0..m - 1 /\ (k # 0 => k - 1 \in 0..m - 1)
    BY <1>3
  <2>5. ASSUME NEW k \in 0..m
        PROVE  g[k] = IF k = 0 THEN <<>> ELSE PlaceBlock(g[k - 1], list[k], words)
    <3>1. CASE k = m
      <4>1. g[m - 1] = f[m - 1] /\ m - 1 \in 0..m
        BY <1>3, <1>5, <2>3
      <4> QED
        BY <1>5, <2>3, <3>1, <4>1
    <3>2. CASE k # m
      <4>1. k \in 0..m - 1 /\ g[k] = f[k]
        BY <2>3, <2>4, <3>2
      <4>2. f[k] = IF k = 0 THEN <<>> ELSE PlaceBlock(f[k - 1], list[k], words)
        BY <2>2, <4>1 DEF PlacedUpTo
      <4>3. k # 0 => g[k - 1] = f[k - 1]
        BY <1>3, <2>3, <3>2
      <4> QED
        BY <4>1, <4>2, <4>3
    <3> QED
      BY <3>1, <3>2
  <2>6. g = [k \in 0..m |-> IF k = 0 THEN <<>> ELSE PlaceBlock(g[k - 1], list[k], words)]
    BY <2>3, <2>5
  <2> QED
    BY <1>3, <2>6 DEF PlacedUpTo
<1> QED
  BY <1>4, <1>5

\* PlaceBlocks places the blocks of the list one after the other.
LEMMA PlaceBlocksFacts ==
  ASSUME NEW list, NEW words, Len(list) \in Nat
  PROVE  PlacedUpTo(list, words, Len(list), PlaceBlocks(list, words))
<1>1. PlaceBlocks(list, words) = CHOOSE f : PlacedUpTo(list, words, Len(list), f)
  BY DEF PlaceBlocks, PlacedUpTo
<1>2. \E f : PlacedUpTo(list, words, Len(list), f)
  BY PlacedExists
<1> QED
  BY <1>1, <1>2

\* Optimize ends with all the blocks in bins, each in one, for every list of blocks:
\* none is lost at the first step at which the bins would be out of order.
LEMMA OptimizeFacts ==
  ASSUME NEW blocks, BlockList(blocks)
  PROVE  \E words \in Nat : Packed(Optimize(blocks), blocks, blocks, words)
<1> DEFINE n == Cardinality(blocks)
           ends == {b.end : b \in blocks} \cup {0}
           words == (Max(ends) + 1) \div WordSize
           list == PriorityList(blocks)
           placed == PlaceBlocks(list, words)
           Placed(k) == {list[i] : i \in 1..k}
<1>1. n \in Nat /\ list \in Seq(blocks) /\ Len(list) = n
  BY PriorityListFacts, FS_CardinalityType DEF BlockList
<1>2. words \in Nat /\ \A c \in blocks : c.end \div WordSize <= words
  <2>1. PICK f : f = [b \in blocks |-> b.end]
    OBVIOUS
  <2>2. f \in Surjection(blocks, {b.end : b \in blocks})
    BY <2>1 DEF Surjection
  <2>3. IsFiniteSet({b.end : b \in blocks})
    BY <2>2, FS_Surjection DEF BlockList
  <2>4. IsFiniteSet(ends)
    BY <2>3, FS_AddElement
  <2>5. ends \subseteq Nat /\ ends # {} /\ \A c \in blocks : c.end \in ends
    BY DEF BlockList
  <2> HIDE DEF ends
  <2>6. ends \subseteq Int
    BY <2>5
  <2>7. Max(ends) \in ends /\ \A x \in ends : x <= Max(ends)
    BY <2>4, <2>5, <2>6, MinMaxFacts
  <2>8. Max(ends) \in Nat /\ Max(ends) + 1 \in Nat
    <3>1. Max(ends) \in Nat
      BY <2>5, <2>7
    <3> QED
      BY <3>1
  <2>9. ASSUME NEW c \in blocks PROVE c.end \div WordSize <= words
    <3>1. c.end \in Nat /\ c.end <= Max(ends) + 1
      <4>1. c.end \in Nat /\ c.end <= Max(ends)
        BY <2>5, <2>7
      <4> QED
        BY <2>8, <4>1
    <3> QED
      BY <2>8, <3>1, DivFacts
  <2> QED
    BY <2>8, <2>9, DivFacts
<1>3. PlacedUpTo(list, words, n, placed)
  BY <1>1, PlaceBlocksFacts
<1>4. \A k \in 0..n : placed[k] = IF k = 0 THEN <<>> ELSE PlaceBlock(placed[k - 1], list[k], words)
  BY <1>3 DEF PlacedUpTo
<1>5. /\ \A i \in 1..n : list[i] \in blocks
      /\ \A b \in blocks : \E i \in 1..n : list[i] = b
      /\ \A i, j \in 1..n : list[i] = list[j] => i = j
  <2>1. \A i \in 1..n : list[i] \in blocks
    BY <1>1, ElementOfSeq
  <2> QED
    BY <2>1, PriorityListFacts
<1>6. Optimize(blocks) = placed[n]
  BY DEF Optimize
<1> HIDE DEF words, list, placed, n
<1>7. Packed(placed[0], Placed(0), blocks, words)
  <2>1. placed[0] = <<>> /\ Placed(0) = {}
    BY <1>1, <1>4
  <2> QED
    BY <2>1, EmptySeq DEF Packed
<1>8. ASSUME NEW k \in 1..n, Packed(placed[k - 1], Placed(k - 1), blocks, words)
      PROVE  Packed(placed[k], Placed(k), blocks, words)
  <2>1. Placed(k - 1) \in SUBSET blocks /\ list[k] \in blocks \ Placed(k - 1)
    BY <1>1, <1>5
  <2>2. Placed(k) = Placed(k - 1) \cup {list[k]}
    BY <1>1
  <2>3. placed[k] = PlaceBlock(placed[k - 1], list[k], words)
    BY <1>1, <1>4
  <2> HIDE DEF Placed
  <2>4. Packed(PlaceBlock(placed[k - 1], list[k], words), Placed(k - 1) \cup {list[k]}, blocks, words)
    BY <1>2, <1>8, <2>1, PlaceBlockFacts
  <2> QED
    BY <2>2, <2>3, <2>4
<1> DEFINE S == {k \in 0..n : ~Packed(placed[k], Placed(k), blocks, words)}
<1>9. S = {}
  <2> SUFFICES ASSUME S # {} PROVE FALSE
    OBVIOUS
  <2>1. S \subseteq 0..n
    OBVIOUS
  <2>2. PICK k \in S : k \in 0..n /\ k - 1 \notin S
    <3> HIDE DEF S
    <3> QED
      BY <1>1, <2>1, FirstStep
  <2>3. k \in 0..n /\ ~Packed(placed[k], Placed(k), blocks, words)
    OBVIOUS
  <2>4. k # 0
    BY <1>7, <2>3
  <2>5. k \in 1..n /\ k - 1 \in 0..n /\ k - 1 \notin S
    <3>1. k \in 0..n /\ k - 1 \notin S /\ n \in Nat
      BY <1>1, <2>2
    <3> HIDE DEF S
    <3> QED
      BY <2>4, <3>1
  <2>6. Packed(placed[k - 1], Placed(k - 1), blocks, words)
    BY <2>5
  <2> HIDE DEF Placed, S
  <2> QED
    BY <1>8, <2>3, <2>5, <2>6
<1>10. Packed(placed[n], Placed(n), blocks, words)
  <2> HIDE DEF Placed
  <2>1. n \in 0..n
    BY <1>1
  <2> QED
    BY <1>9, <2>1
<1>11. Placed(n) = blocks
  BY <1>5
<1> QED
  BY <1>2, <1>6, <1>10, <1>11

\* What the strategy is asked for.
LEMMA OptimizeValid ==
  ASSUME NEW blocks, BlockList(blocks)
  PROVE  ValidBins(blocks, Optimize(blocks))
<1> DEFINE bins == Optimize(blocks)
<1>1. PICK words \in Nat : Packed(bins, blocks, blocks, words)
  BY OptimizeFacts
<1> HIDE DEF bins
<1>2. DOMAIN bins = 1..Len(bins) /\ Len(bins) \in Nat
  BY <1>1, LenProperties DEF Packed
<1>3. ASSUME NEW b \in blocks
      PROVE  Cardinality({k \in DOMAIN bins : b \in bins[k].blocks}) = 1
  <2>1. PICK k \in DOMAIN bins : b \in bins[k].blocks
    BY <1>1 DEF Packed
  <2>2. {j \in DOMAIN bins : b \in bins[j].blocks} = {k}
    BY <1>1, <2>1 DEF Packed
  <2> QED
    BY <2>2, FS_Singleton
<1> QED
  BY <1>1, <1>3 DEF ValidBins, Packed, BinOK, bins

-----------------------------------------------------------------------------
(* The memory profile *)

\* Workloads are numbered from 1.
LEMMA WorkloadFacts == Workloads \subseteq Nat /\ \A w \in Workloads : w >= 1
BY TensorMemoryAssumption, FS_CardinalityType

\* A tensor has finitely many readers.
LEMMA ConnectionsFinite ==
  \A x : IsFiniteSet(Connections(x)) /\ IsFiniteSet(OutputsOf(x))
<1> TAKE x
<1>1. IsFiniteSet(ReadSlots)
  <2>1. IsFiniteSet(Workloads \X (1..3))
    <3>1. IsFiniteSet(1..3)
      <4>1. 1 \in Int /\ 3 \in Int
        OBVIOUS
      <4> QED
        BY <4>1, FS_Interval
    <3>2. IsFiniteSet(Workloads)
      BY TensorMemoryAssumption
    <3> QED
      BY <3>1, <3>2, FS_Product
  <2>2. ReadSlots \subseteq Workloads \X (1..3)
    BY DEF ReadSlots
  <2> QED
    BY <2>1, <2>2, FS_Subset
<1>2. IsFiniteSet(Outputs \X {1})
  BY TensorMemoryAssumption, FS_Singleton, FS_Product
<1>3. IsFiniteSet(ReadSlots \cup (Outputs \X {1}))
  BY <1>1, <1>2, FS_Union
<1>4. Connections(x) \subseteq ReadSlots \cup (Outputs \X {1})
  BY DEF Connections
<1>5. OutputsOf(x) \subseteq Outputs
  BY DEF OutputsOf
<1> QED
  BY <1>3, <1>4, <1>5, FS_Subset, TensorMemoryAssumption

\* CreateMemoryProfileAsync leaves out an Output layer when outputs are exported just when
\* its slot is the only connection of the tensor: no other output, and no workload.
LEMMA SkippedOutput ==
  ASSUME NEW o \in Outputs
  PROVE  Cardinality(Connections(OutputOf[o])) = 1
         <=> ~Shared(o) /\ \A s \in ReadSlots : Reads[s[1]][s[2]] # OutputOf[o]
<1> DEFINE C == Connections(OutputOf[o])
<1>1. <<o, 1>> \in C
  BY DEF Connections
<1>2. Cardinality(C) = 1 <=> C = {<<o, 1>>}
  BY <1>1, ConnectionsFinite, FS_Singleton
<1>3. ASSUME C = {<<o, 1>>}
      PROVE  ~Shared(o) /\ \A s \in ReadSlots : Reads[s[1]][s[2]] # OutputOf[o]
  <2>1. ASSUME NEW q \in Outputs \ {o}, OutputOf[q] = OutputOf[o] PROVE FALSE
    <3>1. <<q, 1>> \in C
      BY <2>1 DEF Connections
    <3> QED
      BY <1>3, <2>1, <3>1
  <2>2. ASSUME NEW s \in ReadSlots, Reads[s[1]][s[2]] = OutputOf[o] PROVE FALSE
    <3>1. s \in C /\ s[1] \in Workloads
      BY <2>2 DEF Connections, ReadSlots
    <3> QED
      BY <1>3, <3>1, TensorMemoryAssumption
  <2> QED
    BY <2>1, <2>2 DEF Shared
<1>4. ASSUME ~Shared(o), \A s \in ReadSlots : Reads[s[1]][s[2]] # OutputOf[o]
      PROVE  C = {<<o, 1>>}
  BY <1>1, <1>4 DEF Connections, Shared
<1> QED
  BY <1>2, <1>3, <1>4

\* CreateWorkingMemHandle leaves a tensor unmanaged for its one Output layer, and does
\* not look at the workloads that read the tensor.
LEMMA ManagedOutput ==
  ASSUME NEW o \in Outputs
  PROVE  Cardinality(OutputsOf(OutputOf[o])) = 1 <=> ~Shared(o)
<1>1. o \in OutputsOf(OutputOf[o])
  BY DEF OutputsOf
<1>2. Cardinality(OutputsOf(OutputOf[o])) = 1 <=> OutputsOf(OutputOf[o]) = {o}
  BY <1>1, ConnectionsFinite, FS_Singleton
<1> QED
  BY <1>1, <1>2 DEF OutputsOf, Shared

\* The two decide alike on every tensor exactly when no workload reads a tensor that
\* can be exported, or none is exported.
LEMMA BlocksOfManaged ==
  ASSUME NEW src \in Sources
  PROVE  {b.index : b \in Blocks[src]} = Managed(src) <=> (src.outputs => OnlyExported)
<1> DEFINE Blocked == {y \in Tensors : ~Skipped(y, src) /\ ReadInTime(y, src)}
<1>1. {b.index : b \in Blocks[src]} = Blocked
  <2>1. \A x : BlockOf(x, src).index = x
    BY DEF BlockOf
  <2> QED
    BY <2>1 DEF Blocks
<1> DEFINE kept == IF src.inputs THEN {} ELSE Inputs
<1>4. ASSUME NEW x \in Tensors PROVE Skipped(x, src) <=> x \in Inputs /\ src.inputs
  BY TensorMemoryAssumption DEF Skipped, Tensors
<1>5. ASSUME NEW x \in Tensors, NEW l \in Readers(x) PROVE l \notin Inputs
  BY TensorMemoryAssumption DEF Readers, Connections, ReadSlots
<1>2. CASE ~src.outputs
  <2>1. ASSUME NEW x \in Tensors PROVE ReadInTime(x, src)
    BY <1>2, <1>5 DEF ReadInTime, Skipped
  <2>2. Managed(src) = kept \cup Workloads
    BY <1>2 DEF Managed
  <2>3. Blocked = kept \cup Workloads
    BY <1>4, <2>1, TensorMemoryAssumption DEF Tensors
  <2> QED
    BY <1>1, <1>2, <2>2, <2>3
<1>3. CASE src.outputs
  <2>2. ASSUME NEW x \in Tensors
        PROVE  ReadInTime(x, src) <=> \A o \in OutputsOf(x) : Cardinality(Connections(x)) # 1
    <3>1. \A s \in ReadSlots : s[1] \in Workloads /\ s[1] \notin Inputs /\ s[1] \notin Outputs
      BY TensorMemoryAssumption DEF ReadSlots
    <3>2. \A l \in Readers(x) : Skipped(l, src) =>
            l \in OutputsOf(x) /\ Cardinality(Connections(x)) = 1
      <4> SUFFICES ASSUME NEW l \in Readers(x), Skipped(l, src)
                   PROVE  l \in OutputsOf(x) /\ Cardinality(Connections(x)) = 1
        OBVIOUS
      <4>1. PICK c \in Connections(x) : l = c[1]
        BY DEF Readers
      <4>2. c \in ReadSlots \/ \E o \in Outputs : OutputOf[o] = x /\ c = <<o, 1>>
        BY DEF Connections
      <4>3. PICK o \in Outputs : OutputOf[o] = x /\ c = <<o, 1>>
        BY <3>1, <4>1, <4>2 DEF Skipped
      <4>4. l = o /\ o \notin Inputs
        BY <4>1, <4>3, TensorMemoryAssumption
      <4> QED
        BY <4>3, <4>4 DEF Skipped, OutputsOf
    <3>3. \A o \in OutputsOf(x) : o \in Readers(x) /\
            (Cardinality(Connections(x)) = 1 => Skipped(o, src))
      <4> TAKE o \in OutputsOf(x)
      <4>1. o \in Outputs /\ OutputOf[o] = x
        BY DEF OutputsOf
      <4>2. <<o, 1>> \in Connections(x)
        BY <4>1 DEF Connections
      <4> QED
        BY <1>3, <4>1, <4>2 DEF Readers, Skipped
    <3> QED
      BY <3>2, <3>3 DEF ReadInTime
  <2>1. ASSUME NEW x \in Inputs PROVE OutputsOf(x) = {}
    BY TensorMemoryAssumption DEF OutputsOf
  <2>3. Blocked = kept \cup
          {x \in Workloads : \A o \in OutputsOf(x) : Cardinality(Connections(x)) # 1}
    BY <1>4, <2>1, <2>2, TensorMemoryAssumption DEF Tensors
  <2>4. Managed(src) = kept \cup {x \in Workloads : Cardinality(OutputsOf(x)) # 1}
    BY <1>3 DEF Managed
  <2>5. \A x : Cardinality(OutputsOf(x)) = 1 => \E o \in Outputs : OutputOf[o] = x
    <3> TAKE x
    <3>1. Cardinality(OutputsOf(x)) = 1 => \E o : OutputsOf(x) = {o}
      BY ConnectionsFinite, FS_Singleton
    <3> QED
      BY <3>1 DEF OutputsOf
  <2>6. ASSUME OnlyExported PROVE Blocked = Managed(src)
    <3>1. ASSUME NEW o \in Outputs
          PROVE  Cardinality(Connections(OutputOf[o])) = 1 <=> Cardinality(OutputsOf(OutputOf[o])) = 1
      BY <2>6, SkippedOutput, ManagedOutput DEF OnlyExported
    <3>2. ASSUME NEW x \in Workloads
          PROVE  (\E o \in OutputsOf(x) : Cardinality(Connections(x)) = 1)
                 <=> Cardinality(OutputsOf(x)) = 1
      <4>1. ASSUME NEW o \in OutputsOf(x), Cardinality(Connections(x)) = 1
            PROVE  Cardinality(OutputsOf(x)) = 1
        <5>1. o \in Outputs /\ OutputOf[o] = x
          BY DEF OutputsOf
        <5> QED
          BY <3>1, <4>1, <5>1
      <4>2. ASSUME Cardinality(OutputsOf(x)) = 1
            PROVE  \E o \in OutputsOf(x) : Cardinality(Connections(x)) = 1
        <5>1. PICK o \in Outputs : OutputOf[o] = x
          BY <2>5, <4>2
        <5>2. o \in OutputsOf(x)
          BY <5>1 DEF OutputsOf
        <5> QED
          BY <3>1, <4>2, <5>1, <5>2
      <4> QED
        BY <4>1, <4>2
    <3> QED
      BY <2>3, <2>4, <3>2
  <2>7. ASSUME Blocked = Managed(src) PROVE OnlyExported
    <3> SUFFICES ASSUME NEW o \in Outputs, ~Shared(o)
                 PROVE  \A s \in ReadSlots : Reads[s[1]][s[2]] # OutputOf[o]
      BY DEF OnlyExported
    <3>1. OutputOf[o] \in Workloads /\ OutputOf[o] \notin Managed(src)
      BY <2>4, ManagedOutput, TensorMemoryAssumption DEF Tensors
    <3>2. Cardinality(Connections(OutputOf[o])) = 1
      BY <2>3, <2>7, <3>1
    <3> QED
      BY <3>2, SkippedOutput
  <2> QED
    BY <1>1, <1>3, <2>6, <2>7
<1> QED
  BY <1>2, <1>3

\* The tensors that CreateMemoryProfileAsync makes a block for.
WithBlock(src) == {y \in Tensors : ~Skipped(y, src) /\ ReadInTime(y, src)}

\* A tensor lives from the step of its writer to that of its last reader.
LEMMA LifetimeFacts ==
  ASSUME NEW src \in Sources, NEW x \in Tensors
  PROVE  /\ EndOfLife(x, src) \in
              {Timestep(l, src) : l \in Readers(x)} \cup {Timestep(x, src)}
         /\ EndOfLife(x, src) \in Nat
         /\ Timestep(x, src) <= EndOfLife(x, src)
         /\ \A l \in Readers(x) : Timestep(l, src) <= EndOfLife(x, src)
<1> DEFINE steps == {Timestep(l, src) : l \in Readers(x)}
           ends == steps \cup {Timestep(x, src)}
<1>1. IsFiniteSet(steps)
  <2>1. PICK f : f = [s \in Connections(x) |-> Timestep(s[1], src)]
    OBVIOUS
  <2>2. f \in Surjection(Connections(x), steps)
    BY <2>1 DEF Surjection, Readers
  <2> QED
    BY <2>2, ConnectionsFinite, FS_Surjection
<1>2. ends \subseteq Nat
  BY TimestepFacts
<1>3. IsFiniteSet(ends) /\ ends # {}
  BY <1>1, FS_AddElement
<1>4. EndOfLife(x, src) = Max(ends)
  BY DEF EndOfLife
<1>5. EndOfLife(x, src) \in ends /\ \A n \in ends : n <= EndOfLife(x, src)
  <2>1. ends \subseteq Int
    BY <1>2
  <2> HIDE DEF ends
  <2> QED
    BY <1>3, <1>4, <2>1, MinMaxFacts
<1>6. Timestep(x, src) \in ends /\ \A l \in Readers(x) : Timestep(l, src) \in ends
  OBVIOUS
<1> QED
  BY <1>2, <1>5, <1>6

\* No two layers have the same step.
LEMMA StepsDiffer ==
  ASSUME NEW src \in Sources
  PROVE  \A l, m \in Kept(src) : Timestep(l, src) = Timestep(m, src) => l = m
<1>1. \A l, m \in Kept(src) : l # m => Precedes(l, m) \/ Precedes(m, l)
  <2>1. Layers \subseteq Int
    BY LayerFacts
  <2> QED
    BY <2>1, TensorMemoryAssumption DEF Kept, Precedes, Layers, Tensors
<1> QED
  BY <1>1, TimestepFacts

\* The slot of a block is 0 when nobody reads the tensor, and else one of a layer that
\* reads it in its last step.
LEMMA EndSlotFacts ==
  ASSUME NEW src \in Sources, NEW x \in WithBlock(src)
  PROVE  /\ EndSlot(x, src) \in Nat
         /\ \/ EndSlot(x, src) = 0 /\ EndOfLife(x, src) = Timestep(x, src)
            \/ /\ EndSlot(x, src) # 0
               /\ \E l \in Kept(src) :
                    /\ <<l, EndSlot(x, src)>> \in Connections(x)
                    /\ Timestep(l, src) = EndOfLife(x, src)
<1> DEFINE AtEnd(c) == Timestep(c[1], src) = EndOfLife(x, src)
           slots == {s[2] : s \in {c \in Connections(x) : AtEnd(c)}}
           all == slots \cup {0}
<1>1. \A c \in Connections(x) : \E l \in Kept(src), k \in Nat \ {0} : c = <<l, k>>
  <2>1. \A c \in Connections(x) : c[1] \in Layers /\ \E k \in Nat \ {0} : c = <<c[1], k>>
    BY DEF Connections, ReadSlots, Layers, Tensors
  <2>2. \A c \in Connections(x) : ~Skipped(c[1], src)
    BY DEF WithBlock, ReadInTime, Readers
  <2> QED
    BY <2>1, <2>2 DEF Kept
<1>2. all \subseteq Nat
  BY <1>1
<1>3. IsFiniteSet(all) /\ all # {}
  <2>1. IsFiniteSet({c \in Connections(x) : AtEnd(c)})
    BY ConnectionsFinite, FS_Subset
  <2>2. PICK f : f = [c \in {d \in Connections(x) : AtEnd(d)} |-> c[2]]
    OBVIOUS
  <2>3. f \in Surjection({c \in Connections(x) : AtEnd(c)}, slots)
    BY <2>2 DEF Surjection
  <2>4. IsFiniteSet(slots)
    BY <2>1, <2>3, FS_Surjection
  <2> QED
    BY <2>4, FS_AddElement
<1>4. EndSlot(x, src) = Max(all)
  BY DEF EndSlot
<1>5. Max(all) \in all /\ \A k \in all : k <= Max(all)
  <2>1. all \subseteq Int
    BY <1>2
  <2> HIDE DEF all
  <2> QED
    BY <1>3, <2>1, MinMaxFacts
<1>6. CASE Max(all) = 0
  <2>1. ASSUME NEW c \in Connections(x), AtEnd(c) PROVE FALSE
    <3>1. c[2] \in slots /\ c[2] \in Nat \ {0}
      BY <1>1, <2>1
    <3>2. c[2] <= Max(all)
      BY <1>5, <3>1
    <3> HIDE DEF all
    <3> QED
      BY <1>6, <3>1, <3>2
  <2>2. EndOfLife(x, src) \in
          {Timestep(l, src) : l \in Readers(x)} \cup {Timestep(x, src)}
    BY LifetimeFacts DEF WithBlock
  <2>3. EndOfLife(x, src) = Timestep(x, src)
    BY <2>1, <2>2 DEF Readers
  <2> QED
    BY <1>4, <1>6, <2>3
<1>7. CASE Max(all) # 0
  <2>1. PICK c \in Connections(x) : AtEnd(c) /\ c[2] = Max(all)
    BY <1>5, <1>7
  <2>2. PICK l \in Kept(src), k \in Nat \ {0} : c = <<l, k>>
    BY <1>1
  <2>3. c[1] = l /\ k = EndSlot(x, src)
    BY <1>4, <2>1, <2>2
  <2> QED
    BY <2>1, <2>2, <2>3
<1> QED
  BY <1>2, <1>4, <1>5, <1>6, <1>7

\* The blocks of a memory profile are a list the strategy can be given: finitely many,
\* none ends before it starts, and no two end at the same slot of the same layer, so the
\* order in which they are listed is the one in which they end.
LEMMA ProfileBlocks ==
  ASSUME NEW src \in Sources
  PROVE  BlockList(Blocks[src])
<1>1. Blocks[src] = {BlockOf(x, src) : x \in WithBlock(src)}
  BY DEF Blocks, WithBlock
<1>2. WithBlock(src) \subseteq Tensors /\ IsFiniteSet(Tensors)
  BY TensorMemoryAssumption, FS_Union DEF WithBlock, Tensors
<1>3. IsFiniteSet(Blocks[src])
  <2>1. IsFiniteSet(WithBlock(src))
    BY <1>2, FS_Subset
  <2>2. PICK f : f = [x \in WithBlock(src) |-> BlockOf(x, src)]
    OBVIOUS
  <2>3. f \in Surjection(WithBlock(src), Blocks[src])
    BY <1>1, <2>2 DEF Surjection
  <2> QED
    BY <2>1, <2>3, FS_Surjection
<1>4. ASSUME NEW b \in Blocks[src]
      PROVE  /\ b.start \in Nat /\ b.end \in Nat /\ b.slot \in Nat /\ b.size \in Nat
             /\ b.start <= b.end
  <2>1. PICK x \in WithBlock(src) : b = BlockOf(x, src)
    BY <1>1
  <2>2. /\ b.start = Timestep(x, src) /\ b.end = EndOfLife(x, src)
        /\ b.slot = EndSlot(x, src) /\ b.size = Size[x]
    BY <2>1 DEF BlockOf
  <2>3. x \in Tensors /\ Timestep(x, src) \in Nat /\ Size[x] \in Nat
    BY <1>2, TimestepFacts, TensorMemoryAssumption
  <2> QED
    BY <2>2, <2>3, LifetimeFacts, EndSlotFacts
<1>5. ASSUME NEW x \in WithBlock(src), NEW y \in WithBlock(src),
             EndOfLife(x, src) = EndOfLife(y, src),
             EndSlot(x, src) = EndSlot(y, src)
      PROVE  x = y
  <2>1. CASE EndSlot(x, src) = 0
    <3>1. Timestep(x, src) = Timestep(y, src)
      BY <1>5, <2>1, EndSlotFacts
    <3>2. x \in Kept(src) /\ y \in Kept(src)
      BY DEF WithBlock, Kept, Layers
    <3> QED
      BY <3>1, <3>2, StepsDiffer
  <2>2. CASE EndSlot(x, src) # 0
    <3>1. PICK k : k = EndSlot(x, src)
      OBVIOUS
    <3>2. PICK l \in Kept(src) : <<l, k>> \in Connections(x)
                                      /\ Timestep(l, src) = EndOfLife(x, src)
      BY <2>2, <3>1, EndSlotFacts
    <3>3. PICK m \in Kept(src) : <<m, k>> \in Connections(y)
                                      /\ Timestep(m, src) = EndOfLife(y, src)
      BY <1>5, <2>2, <3>1, EndSlotFacts
    <3>4. l = m
      BY <1>5, <3>2, <3>3, StepsDiffer
    <3>5. /\ (<<l, k>> \in ReadSlots /\ Reads[l][k] = x) \/ (l \in Outputs /\ OutputOf[l] = x)
          /\ (<<l, k>> \in ReadSlots /\ Reads[l][k] = y) \/ (l \in Outputs /\ OutputOf[l] = y)
      BY <3>2, <3>3, <3>4 DEF Connections
    <3>6. <<l, k>> \in ReadSlots => l \notin Outputs
      BY TensorMemoryAssumption DEF ReadSlots
    <3> QED
      BY <3>5, <3>6
  <2> QED
    BY <2>1, <2>2
<1>6. ASSUME NEW b \in Blocks[src], NEW c \in Blocks[src], b.end = c.end, b.slot = c.slot
      PROVE  b = c
  <2>1. PICK x \in WithBlock(src) : b = BlockOf(x, src)
    BY <1>1
  <2>2. PICK y \in WithBlock(src) : c = BlockOf(y, src)
    BY <1>1
  <2>3. /\ EndOfLife(x, src) = EndOfLife(y, src)
        /\ EndSlot(x, src) = EndSlot(y, src)
    BY <1>6, <2>1, <2>2 DEF BlockOf
  <2> QED
    BY <1>5, <2>1, <2>2, <2>3
<1> QED
  BY <1>3, <1>4, <1>6 DEF BlockList

\* So the bins of the network are valid, whatever memory is external.
LEMMA BinsAreValid ==
  ASSUME NEW src \in Sources
  PROVE  ValidBins(Blocks[src], Bins[src])
BY ProfileBlocks, OptimizeValid DEF Bins

\* Allocate gives a managed handle the memory of its own block, when the handles and
\* the blocks are of the same tensors.
LEMMA BinOfFacts ==
  ASSUME NEW src \in Sources, src.outputs => OnlyExported, NEW x \in Managed(src)
  PROVE  /\ BinOf(x, src) \in DOMAIN Bins[src]
         /\ BlockOf(x, src) \in Bins[src][BinOf(x, src)].blocks
         /\ x \in Tensors /\ ~Skipped(x, src) /\ ReadInTime(x, src)
<1>1. {b.index : b \in Blocks[src]} = Managed(src)
  BY BlocksOfManaged
<1>2. /\ ManagedHandles[src] = InOrder(Managed(src))
      /\ TensorMemoryOf[src] = InOrder(Managed(src))
  BY <1>1 DEF ManagedHandles, TensorMemoryOf
<1>3. \A b \in Blocks[src] : b = BlockOf(b.index, src)
                                  /\ b.index \in Tensors /\ ~Skipped(b.index, src)
                                  /\ ReadInTime(b.index, src)
  BY DEF Blocks, BlockOf
<1>4. PICK b \in Blocks[src] : b.index = x
  BY <1>1
<1>5. b = BlockOf(x, src) /\ x \in Tensors /\ ~Skipped(x, src) /\ ReadInTime(x, src)
  BY <1>3, <1>4
<1>6. PICK i : i = CHOOSE k \in DOMAIN ManagedHandles[src] : ManagedHandles[src][k] = x
  OBVIOUS
<1>7. TensorMemoryOf[src][i] = x
  <2>1. Managed(src) \subseteq Layers
    BY DEF Managed, Layers, Tensors
  <2>2. \E k \in DOMAIN ManagedHandles[src] : ManagedHandles[src][k] = x
    BY <1>2, <2>1, InOrderFacts
  <2>3. ManagedHandles[src][i] = x
    BY <1>6, <2>2
  <2> QED
    BY <1>2, <2>3
<1>8. BinOf(x, src) = CHOOSE k \in DOMAIN Bins[src] : \E c \in Bins[src][k].blocks : c.index = x
  BY <1>6, <1>7 DEF BinOf
<1>9. \E k \in DOMAIN Bins[src] : b \in Bins[src][k].blocks
  <2>1. Cardinality({k \in DOMAIN Bins[src] : b \in Bins[src][k].blocks}) = 1
    BY <1>4, BinsAreValid DEF ValidBins
  <2>2. \A S : Cardinality(S) = 1 => \E k : k \in S
    <3> TAKE S
    <3>1. Cardinality({}) # 1
      BY FS_EmptySet
    <3> QED
      BY <3>1
  <2> QED
    BY <2>1, <2>2
<1>10. /\ BinOf(x, src) \in DOMAIN Bins[src]
       /\ \E c \in Bins[src][BinOf(x, src)].blocks : c.index = x
  BY <1>4, <1>8, <1>9
<1>11. \A k \in DOMAIN Bins[src] : Bins[src][k].blocks \subseteq Blocks[src]
  BY BinsAreValid DEF ValidBins
<1> QED
  BY <1>3, <1>5, <1>10, <1>11

\* The two handles are not given the same memory.
Apart(src, x, y) == Place[src][x] = Place[src][y] => Place[src][x] = NoMemory

\* Two tensors have different memory, unless both are managed and never alive in the
\* same step.
LEMMA ApartInMemory ==
  ASSUME NEW src \in Sources, src.outputs => OnlyExported,
         NEW x \in Tensors, NEW y \in Tensors, x # y,
         x \in Managed(src) /\ y \in Managed(src)
           => Overlap(BlockOf(x, src), BlockOf(y, src))
  PROVE  Apart(src, x, y)
<1>1. Place[src][x] = MemoryOf(x, src) /\ Place[src][y] = MemoryOf(y, src)
  BY DEF Place
<1>2. CASE x \in Managed(src) /\ y \in Managed(src)
  <2>1. BinOf(x, src) # BinOf(y, src)
    <3> SUFFICES ASSUME BinOf(x, src) = BinOf(y, src) PROVE FALSE
      OBVIOUS
    <3>1. PICK k \in DOMAIN Bins[src] :
            BlockOf(x, src) \in Bins[src][k].blocks
            /\ BlockOf(y, src) \in Bins[src][k].blocks
      BY <1>2, BinOfFacts
    <3>2. BlockOf(x, src) # BlockOf(y, src)
      BY DEF BlockOf
    <3> QED
      BY <1>2, <3>1, <3>2, BinsAreValid DEF ValidBins
  <2> QED
    BY <1>1, <1>2, <2>1 DEF MemoryOf, Apart
<1>3. CASE ~(x \in Managed(src) /\ y \in Managed(src))
  BY <1>1, <1>3 DEF MemoryOf, NoMemory, Apart
<1> QED
  BY <1>2, <1>3

\* Inputs are stepped through before the workloads, these in their order, and the
\* outputs after them.
LEMMA StepsOrdered ==
  ASSUME NEW src \in Sources
  PROVE  /\ \A w \in Workloads : w \in Kept(src)
         /\ \A v, w \in Workloads : v <= w => Timestep(v, src) <= Timestep(w, src)
         /\ \A i \in Inputs, w \in Workloads :
              i \in Kept(src) => Timestep(i, src) <= Timestep(w, src)
         /\ \A o \in Outputs, w \in Workloads :
              o \in Kept(src) => Timestep(w, src) <= Timestep(o, src)
<1>1. \A l : Timestep(l, src) \in Nat
  BY TimestepFacts
<1>2. \A w \in Workloads : w \in Kept(src)
  BY TensorMemoryAssumption DEF Kept, Layers, Tensors, Skipped
<1>3. \A l, m \in Kept(src) : Precedes(l, m) => Timestep(l, src) < Timestep(m, src)
  BY TimestepFacts
<1>4. \A l, m \in Kept(src) : Precedes(l, m) => Timestep(l, src) <= Timestep(m, src)
  BY <1>1, <1>3
<1>5. \A v, w \in Workloads : v <= w => v = w \/ Precedes(v, w)
  BY WorkloadFacts DEF Precedes
<1>6. \A i \in Inputs, w \in Workloads : Precedes(i, w)
  BY TensorMemoryAssumption DEF Precedes
<1>7. \A o \in Outputs, w \in Workloads : Precedes(w, o)
  BY TensorMemoryAssumption DEF Precedes
<1>8. \A l : Timestep(l, src) <= Timestep(l, src)
  BY <1>1
<1> QED
  BY <1>2, <1>4, <1>5, <1>6, <1>7, <1>8

\* Workload w, a later one or an Output layer reads the tensor.
StillRead(x, w) ==
  \/ \E s \in ReadSlots : s[1] >= w /\ Reads[s[1]][s[2]] = x
  \/ \E o \in Outputs : OutputOf[o] = x
\* The tensor has been written when workload w executes.
Defined(x, w) == x \in Inputs \/ x < w
\* The memory profile keeps tensors apart: the inputs when they are filled, and what a
\* workload writes from all that has a value and is read then or later.
MemorySafe(src) ==
  /\ \A i, j \in Inputs : i # j => Apart(src, i, j)
  /\ \A w \in Workloads, x \in Tensors :
       x # w /\ Defined(x, w) /\ StillRead(x, w) => Apart(src, x, w)

\* CreateMemoryProfileAsync and SingleAxisPriorityList together: the lives of two such
\* tensors overlap, so their blocks are in different bins and not in the same memory.
LEMMA ProfileSafe ==
  ASSUME NEW src \in Sources, src.outputs => OnlyExported, InputsRead
  PROVE  MemorySafe(src)
<1>1. ASSUME NEW i \in Inputs, NEW j \in Inputs, i # j, i \in Managed(src), j \in Managed(src)
      PROVE  Timestep(i, src) <= EndOfLife(j, src)
  <2>1. PICK s \in ReadSlots : Reads[s[1]][s[2]] = j
    BY DEF InputsRead
  <2>2. s[1] \in Workloads /\ s[1] \in Readers(j)
    BY <2>1 DEF ReadSlots, Readers, Connections
  <2>3. i \in Kept(src)
    BY <1>1, BinOfFacts DEF Kept, Layers
  <2>4. /\ Timestep(i, src) <= Timestep(s[1], src)
        /\ Timestep(s[1], src) <= EndOfLife(j, src)
    BY <2>2, <2>3, StepsOrdered, LifetimeFacts DEF Tensors
  <2>5. /\ Timestep(i, src) \in Nat /\ Timestep(s[1], src) \in Nat
        /\ EndOfLife(j, src) \in Nat
    BY TimestepFacts, LifetimeFacts DEF Tensors
  <2> QED
    BY <2>4, <2>5
<1>2. ASSUME NEW i \in Inputs, NEW j \in Inputs, i # j
      PROVE  Apart(src, i, j)
  BY <1>1, <1>2, ApartInMemory DEF Overlap, BlockOf, Tensors
<1>3. ASSUME NEW w \in Workloads, NEW x \in Tensors, x # w, Defined(x, w), StillRead(x, w)
      PROVE  Apart(src, x, w)
  <2>1. ASSUME x \in Managed(src), w \in Managed(src)
        PROVE  Overlap(BlockOf(x, src), BlockOf(w, src))
    <3>1. x \in Kept(src) /\ ReadInTime(x, src)
      BY <2>1, BinOfFacts DEF Kept, Layers
    <3>2. Timestep(x, src) <= Timestep(w, src)
      <4>1. CASE x \in Inputs
        BY <3>1, <4>1, StepsOrdered
      <4>2. CASE x \in Workloads /\ x < w
        <5>1. x <= w
          BY <4>2, WorkloadFacts
        <5> QED
          BY <4>2, <5>1, StepsOrdered
      <4> QED
        BY <1>3, <4>1, <4>2 DEF Defined, Tensors
    <3>3. \E l \in Readers(x) : Timestep(w, src) <= Timestep(l, src)
      <4>1. CASE \E s \in ReadSlots : s[1] >= w /\ Reads[s[1]][s[2]] = x
        <5>1. PICK s \in ReadSlots : s[1] >= w /\ Reads[s[1]][s[2]] = x
          BY <4>1
        <5>2. s[1] \in Workloads /\ s[1] \in Readers(x)
          BY <5>1 DEF ReadSlots, Readers, Connections
        <5>3. w <= s[1]
          BY <5>1, <5>2, WorkloadFacts
        <5> QED
          BY <5>2, <5>3, StepsOrdered
      <4>2. CASE \E o \in Outputs : OutputOf[o] = x
        <5>1. PICK o \in Outputs : OutputOf[o] = x
          BY <4>2
        <5>2. <<o, 1>> \in Connections(x)
          BY <5>1 DEF Connections
        <5>3. o \in Readers(x)
          BY <5>2 DEF Readers
        <5>4. o \in Kept(src)
          BY <3>1, <5>3 DEF ReadInTime, Kept, Layers
        <5> QED
          BY <5>3, <5>4, StepsOrdered
      <4> QED
        BY <1>3, <4>1, <4>2 DEF StillRead
    <3>4. PICK l \in Readers(x) : Timestep(w, src) <= Timestep(l, src)
      BY <3>3
    <3>5. /\ Timestep(l, src) <= EndOfLife(x, src)
          /\ Timestep(w, src) <= EndOfLife(w, src)
      BY LifetimeFacts DEF Tensors
    <3>6. /\ Timestep(x, src) \in Nat /\ Timestep(w, src) \in Nat
          /\ Timestep(l, src) \in Nat /\ EndOfLife(x, src) \in Nat
          /\ EndOfLife(w, src) \in Nat
      BY TimestepFacts, LifetimeFacts DEF Tensors
    <3>7. /\ Timestep(x, src) <= EndOfLife(w, src)
          /\ Timestep(w, src) <= EndOfLife(x, src)
      BY <3>2, <3>4, <3>5, <3>6
    <3> QED
      BY <3>7 DEF Overlap, BlockOf
  <2>2. w \in Tensors
    BY DEF Tensors
  <2> QED
    BY <1>3, <2>1, <2>2, ApartInMemory
<1> QED
  BY <1>2, <1>3 DEF MemorySafe

\* A list in the order of the layers tells the set it is of.
LEMMA SameOrder ==
  ASSUME NEW S, S \subseteq Layers, NEW T, T \subseteq Layers
  PROVE  InOrder(S) = InOrder(T) <=> S = T
<1> SUFFICES ASSUME InOrder(S) = InOrder(T) PROVE S = T
  OBVIOUS
<1>1. ASSUME NEW U, U \subseteq Layers
      PROVE  U = {InOrder(U)[i] : i \in DOMAIN InOrder(U)}
  <2>1. Ranks(U, LayersBelow(U)) /\ InOrder(U) = Ranked(U, LayersBelow(U))
    BY <1>1, LayerFacts DEF InOrder, LayersBelow
  <2>2. \A i \in DOMAIN InOrder(U) : InOrder(U)[i] \in U
    BY <2>1, RankedFacts, ElementOfSeq, LenProperties
  <2>3. \A x \in U : \E i \in DOMAIN InOrder(U) : InOrder(U)[i] = x
    BY <1>1, InOrderFacts
  <2> QED
    BY <2>2, <2>3
<1> QED
  BY <1>1

-----------------------------------------------------------------------------
(* The handles of the callers *)

\* A call is under way.
Executing(t) == step[t] \notin {"idle", "threw"}

\* The pointers of a descriptor: to the handle's own tensor, or to a pin.
Pointers == {Own} \cup [kind : {"in", "out"}, id : Nat]
\* The entries of m_PreImportedInputHandles and m_PreImportedOutputHandles.
Pins(bindings) == [binding : bindings, live : BOOLEAN]
\* The arguments of Execute and how far its loop is.
Calls == [inputs : SUBSET Inputs, preIn : SUBSET Nat, outputs : SUBSET Outputs,
          preOut : SUBSET Nat, next : Nat, ok : BOOLEAN]

\* Where the memory of a handle may be: where Allocate puts it, unless a source is
\* set; then there is none until a buffer of the tensor is imported.
MayBeAt(x, m) ==
  \/ m = Place[import][x]
  \/ import.inputs /\ x \in Inputs /\ m \in {NoMemory, Buffer(x)}
  \/ import.outputs /\ x \in Workloads /\ m \in {NoMemory} \cup {Buffer(o) : o \in OutputsOf(x)}
\* The memory a handle may have for its tensors.
Homes == {h \in [Tensors -> Places \cup {NoMemory}] : \A x \in Tensors : MayBeAt(x, h[x])}

\* The types of the variables of AsyncExecute.
ExecuteTypeOK ==
  /\ import \in Imports
  /\ inPins \in Seq(Pins(Inputs)) /\ outPins \in Seq(Pins(Outputs))
  /\ outData \in Seq({Wrong} \cup (Callers \X Nat)) /\ Len(outData) = Len(outPins)
  /\ ptr \in [Callers -> [Positions -> Pointers]]
  /\ mem \in [Callers -> Homes]
  /\ data \in [Callers -> [Places -> {Wrong} \cup (Tensors \X Nat)]]
  /\ step \in [Callers -> {"idle", "inputs", "outputs", "workloads", "copy", "return", "threw"}]
  /\ call \in [Callers -> Calls]
  /\ runs \in [Callers -> Nat]

\* The pins of the calls under way have not been cleared: clearing waits for
\* the calls to end.
CallsLive ==
  \A t \in Callers : Executing(t) =>
    /\ \A id \in call[t].preIn : LiveInput(id)
    /\ \A id \in call[t].preOut : ValidateImportedOutputID(id)

\* The pointer leads to a pin of the call that has the tensor of that position.
PointsToPin(t, p) ==
  \/ \E id \in call[t].preIn :
       p \in InputConnections(inPins[id].binding) /\ ptr[t][p] = [kind |-> "in", id |-> id]
  \/ \E id \in call[t].preOut :
       p \in OutputConnections(outPins[id].binding) /\ ptr[t][p] = [kind |-> "out", id |-> id]
\* Where the pointers of a handle may point at each step of a call.
PointersOf(t) ==
  /\ step[t] \in {"idle", "inputs"} => ptr[t] = Handle
  /\ step[t] \in {"outputs", "workloads", "copy", "return"} =>
       \A p \in Positions : ptr[t][p] = Own \/ PointsToPin(t, p)
  /\ step[t] = "copy" /\ ~call[t].ok => ptr[t] = Handle
\* That of every handle.
PointersAgree == \A t \in Callers : PointersOf(t)

\* Every workload of the call has been executed, and none has thrown.
Executed(t) == step[t] \in {"copy", "return"} /\ call[t].ok

\* The loop over the workloads.
NextAgrees ==
  \A t \in Callers :
    /\ step[t] \in {"inputs", "outputs"} => call[t].next = 1
    /\ step[t] = "workloads" => call[t].next \in Workloads
    /\ step[t] \notin {"copy", "return"} => call[t].ok
    /\ Executed(t) => \A w \in Workloads : w < call[t].next

\* A workload that has been executed has found memory for its tensor.
Written(t) ==
  step[t] = "workloads" \/ Executed(t) =>
    \A w \in Workloads : w < call[t].next => mem[t][w] # NoMemory
\* That of every call.
WritesAgree == \A t \in Callers : Written(t)

\* The inductive invariant of the handles.
HandleInv == ExecuteTypeOK /\ CallsLive /\ PointersAgree /\ NextAgrees /\ WritesAgree

\* What imported outputs hold.
NeverWritten == \A id \in DOMAIN outData : outData[id] = Wrong

-----------------------------------------------------------------------------
\* A handle keeps its memory where it may be as long as the memory sources stay.
LEMMA HomesStay == UNCHANGED import => Homes' = Homes
BY DEF Homes, MayBeAt

\* No imported buffer is put where a workload writes, and input and output
\* connections are positions.
LEMMA ConnectionFacts ==
  /\ \A i, p : p \in InputConnections(i) => p \in Positions /\ p[1] # "write" /\ TensorAt(p) = i
  /\ \A o, p : p \in OutputConnections(o) => p \in Positions /\ p[1] # "write" /\ TensorAt(p) = OutputOf[o]
BY DEF InputConnections, OutputConnections

\* The positions of a workload.
LEMMA WriteFacts ==
  ASSUME NEW w \in Workloads
  PROVE  <<"write", w, 1>> \in Positions /\ <<"write", w, 1>>[1] = "write"
BY DEF Positions

\* A workload writes to a tensor of its own handle.
LEMMA WritesToOwn ==
  ASSUME HandleInv, NEW t \in Callers, step[t] = "workloads"
  PROVE  ptr[t][<<"write", call[t].next, 1>>] = Own
<1>1. call[t].next \in Workloads
  BY DEF HandleInv, NextAgrees
<1>2. PICK p \in Positions : p = <<"write", call[t].next, 1>> /\ p[1] = "write"
  BY <1>1, WriteFacts
<1>3. ~PointsToPin(t, p)
  BY <1>2, ConnectionFacts DEF PointsToPin
<1>4. ptr[t][p] = Own
  BY <1>3 DEF HandleInv, PointersAgree, PointersOf
<1> QED
  BY <1>2, <1>4

\* The pointers a swap leaves behind.
LEMMA PointerTypes ==
  /\ Own \in Pointers
  /\ \A id \in Nat : [kind |-> "in", id |-> id] \in Pointers /\ [kind |-> "out", id |-> id] \in Pointers
BY DEF Pointers

\* What a swap leaves in the pointers of a handle.
LEMMA SwapInputsFacts ==
  ASSUME NEW h, NEW c
  PROVE  /\ SwapInputs(h, c) = [p \in Positions |-> SwapInputs(h, c)[p]]
         /\ \A p \in Positions :
              \/ PinsAt(c, p) = {} /\ SwapInputs(h, c)[p] = h[p]
              \/ \E id \in PinsAt(c, p) : SwapInputs(h, c)[p] = [kind |-> "in", id |-> id]
<1>1. ASSUME NEW p \in Positions, PinsAt(c, p) # {}
      PROVE  \E id \in PinsAt(c, p) : SwapInputs(h, c)[p] = [kind |-> "in", id |-> id]
  <2>1. SwapInputs(h, c)[p] = [kind |-> "in", id |-> CHOOSE id \in PinsAt(c, p) : TRUE]
    BY <1>1 DEF SwapInputs, Swapped
  <2>2. (CHOOSE id \in PinsAt(c, p) : TRUE) \in PinsAt(c, p)
    BY <1>1
  <2> QED
    BY <2>1, <2>2
<1>2. ASSUME NEW p \in Positions, PinsAt(c, p) = {}
      PROVE  SwapInputs(h, c)[p] = h[p]
  BY <1>2 DEF SwapInputs, Swapped
<1>3. SwapInputs(h, c) = [p \in Positions |-> SwapInputs(h, c)[p]]
  BY DEF SwapInputs, Swapped
<1> QED
  BY <1>1, <1>2, <1>3

\* The imported outputs, of those ids, whose connections have the position.
PinsTo(ids, p) == {id \in ids : p \in OutputConnections(outPins[id].binding)}
\* The same of the outputs.
LEMMA SwapOutputsFacts ==
  ASSUME NEW h, NEW ids
  PROVE  /\ SwapOutputs(h, ids) = [p \in Positions |-> SwapOutputs(h, ids)[p]]
         /\ \A p \in Positions :
              \/ SwapOutputs(h, ids)[p] = h[p]
              \/ \E id \in PinsTo(ids, p) : SwapOutputs(h, ids)[p] = [kind |-> "out", id |-> id]
<1>1. ASSUME NEW p \in Positions, PinsTo(ids, p) # {}
      PROVE  \E id \in PinsTo(ids, p) : SwapOutputs(h, ids)[p] = [kind |-> "out", id |-> id]
  <2>1. SwapOutputs(h, ids)[p] = [kind |-> "out", id |-> CHOOSE id \in PinsTo(ids, p) : TRUE]
    BY <1>1 DEF SwapOutputs, PinsTo
  <2>2. (CHOOSE id \in PinsTo(ids, p) : TRUE) \in PinsTo(ids, p)
    BY <1>1
  <2> QED
    BY <2>1, <2>2
<1>2. ASSUME NEW p \in Positions, PinsTo(ids, p) = {}
      PROVE  SwapOutputs(h, ids)[p] = h[p]
  BY <1>2 DEF SwapOutputs, PinsTo
<1>3. SwapOutputs(h, ids) = [p \in Positions |-> SwapOutputs(h, ids)[p]]
  BY DEF SwapOutputs
<1> QED
  BY <1>1, <1>2, <1>3

\* After a reset only pointers that were not redirected are left.
LEMMA ResetFacts ==
  ASSUME HandleInv, NEW t \in Callers, step[t] \in {"outputs", "workloads", "copy", "return"}
  PROVE  ResetMemHandle(ptr[t], call[t]) = Handle
<1>1. ASSUME NEW p \in Positions, p \notin SwappedPositions(call[t])
      PROVE  ptr[t][p] = Own
  <2>1. ASSUME NEW id \in call[t].preIn PROVE p \notin InputConnections(inPins[id].binding)
    BY <1>1 DEF SwappedPositions
  <2>2. ASSUME NEW id \in call[t].preOut PROVE p \notin OutputConnections(outPins[id].binding)
    BY <1>1 DEF SwappedPositions
  <2> QED
    BY <2>1, <2>2 DEF HandleInv, PointersAgree, PointersOf, PointsToPin
<1> QED
  BY <1>1 DEF ResetMemHandle, Handle

\* Pins come and go between the calls only, so whatever calls under way rely
\* on stays.
LEMMA PinStep ==
  ASSUME HandleInv,
         \/ \E i \in Inputs : ImportInput(i)
         \/ \E o \in Outputs : ImportOutput(o)
         \/ \E id \in DOMAIN inPins : ClearImportedInput(id)
         \/ \E id \in DOMAIN outPins : ClearImportedOutput(id)
  PROVE  HandleInv' /\ Quiet
<1> USE DEF HandleInv
<1>1. Quiet /\ UNCHANGED <<import, ptr, mem, data, step, call, runs>>
  BY DEF ImportInput, ImportOutput, ClearImportedInput, ClearImportedOutput, memVars
<1>2. inPins' \in Seq(Pins(Inputs))
  <2>1. CASE \E i \in Inputs : ImportInput(i)
    <3>1. PICK i \in Inputs : ImportInput(i)
      BY <2>1
    <3>2. [binding |-> i, live |-> TRUE] \in Pins(Inputs)
      BY DEF Pins
    <3> QED
      BY <3>1, <3>2, AppendProperties DEF ImportInput, ExecuteTypeOK
  <2>2. CASE \E id \in DOMAIN inPins : ClearImportedInput(id)
    <3>1. PICK id \in DOMAIN inPins : ClearImportedInput(id)
      BY <2>2
    <3>2. [inPins[id] EXCEPT !.live = FALSE] \in Pins(Inputs)
      <4>1. inPins[id] \in Pins(Inputs)
        BY ElementOfSeq, LenProperties DEF ExecuteTypeOK
      <4> QED
        BY <4>1 DEF Pins
    <3> QED
      BY <3>1, <3>2, ExceptSeq DEF ClearImportedInput, ExecuteTypeOK
  <2> QED
    BY <2>1, <2>2 DEF ImportOutput, ClearImportedOutput, ExecuteTypeOK
<1>3. /\ outPins' \in Seq(Pins(Outputs))
      /\ outData' \in Seq({Wrong} \cup (Callers \X Nat)) /\ Len(outData') = Len(outPins')
  <2>1. CASE \E o \in Outputs : ImportOutput(o)
    <3>1. PICK o \in Outputs : ImportOutput(o)
      BY <2>1
    <3>2. [binding |-> o, live |-> TRUE] \in Pins(Outputs)
      BY DEF Pins
    <3> QED
      BY <3>1, <3>2, AppendProperties DEF ImportOutput, ExecuteTypeOK
  <2>2. CASE \E id \in DOMAIN outPins : ClearImportedOutput(id)
    <3>1. PICK id \in DOMAIN outPins : ClearImportedOutput(id)
      BY <2>2
    <3>2. [outPins[id] EXCEPT !.live = FALSE] \in Pins(Outputs)
      <4>1. outPins[id] \in Pins(Outputs)
        BY ElementOfSeq, LenProperties DEF ExecuteTypeOK
      <4> QED
        BY <4>1 DEF Pins
    <3>3. outPins' \in Seq(Pins(Outputs)) /\ Len(outPins') = Len(outPins)
      BY <3>1, <3>2, ExceptSeq DEF ClearImportedOutput, ExecuteTypeOK
    <3> QED
      BY <3>1, <3>3 DEF ClearImportedOutput, ExecuteTypeOK
  <2> QED
    BY <2>1, <2>2 DEF ImportInput, ClearImportedInput, ExecuteTypeOK
<1>4. ExecuteTypeOK'
  BY <1>1, <1>2, <1>3, HomesStay DEF ExecuteTypeOK
<1>5. CallsLive' /\ PointersAgree'
  BY <1>1 DEF Quiet, CallsLive, Executing, PointersAgree, PointersOf
<1>6. NextAgrees' /\ WritesAgree'
  BY <1>1 DEF NextAgrees, WritesAgree, Written, Executed
<1> QED
  BY <1>1, <1>4, <1>5, <1>6

\* A step that moves neither pointers nor pins, and one that moves those of
\* another call only.
LEMMA SamePointers ==
  ASSUME NEW u \in Callers, UNCHANGED pinVars, ptr'[u] = ptr[u],
         call'[u].preIn = call[u].preIn, call'[u].preOut = call[u].preOut
  PROVE  \A p : PointsToPin(u, p)' <=> PointsToPin(u, p)
BY DEF PointsToPin, InputConnections, OutputConnections, pinVars

\* What a step of one call keeps for another one.
LEMMA KeepsOthers ==
  ASSUME HandleInv, NEW t \in Callers, UNCHANGED pinVars,
         \A u \in Callers \ {t} : /\ ptr'[u] = ptr[u] /\ step'[u] = step[u]
                                  /\ call'[u] = call[u],
         PointersOf(t)'
  PROVE  PointersAgree'
<1>1. ASSUME NEW u \in Callers \ {t} PROVE PointersOf(u)'
  <2>1. /\ ptr'[u] = ptr[u] /\ step'[u] = step[u] /\ call'[u] = call[u]
        /\ PointersOf(u)
    BY DEF HandleInv, PointersAgree
  <2>2. \A p : PointsToPin(u, p)' <=> PointsToPin(u, p)
    BY <2>1, SamePointers
  <2> QED
    BY <2>1, <2>2 DEF PointersOf
<1> QED
  BY <1>1 DEF PointersAgree

\* What it keeps of the memory of the others.
LEMMA KeepsWritten ==
  ASSUME HandleInv, NEW t \in Callers,
         \A u \in Callers \ {t} : /\ mem'[u] = mem[u] /\ step'[u] = step[u]
                                  /\ call'[u] = call[u],
         Written(t)'
  PROVE  WritesAgree'
<1>1. ASSUME NEW u \in Callers \ {t} PROVE Written(u)'
  BY DEF HandleInv, WritesAgree, Written, Executed
<1> QED
  BY <1>1 DEF WritesAgree

\* A buffer of the caller is a place, and no handle without memory is in one.
LEMMA BufferFacts ==
  /\ \A b \in Inputs \cup Outputs : Buffer(b) \in Places
  /\ NoMemory \notin Places
  /\ \A b : Buffer(b) # NoMemory
BY DEF Places, Buffer, NoMemory

\* The tensors of the outputs that ImportOutputTensor is called for.
LEMMA OutputBufferFacts ==
  ASSUME NEW ids \in SUBSET Outputs, NEW kept \in OutputBuffers(ids)
  PROVE  /\ DOMAIN kept = {OutputOf[o] : o \in ids}
         /\ \A x \in DOMAIN kept : kept[x] \in ids /\ OutputOf[kept[x]] = x
BY DEF OutputBuffers

\* When no output is exported the tensor of every workload has memory.
LEMMA HomeFacts ==
  ASSUME import \in Imports, NEW h \in Homes
  PROVE  /\ \A x \in Tensors : h[x] \in Places \cup {NoMemory} /\ MayBeAt(x, h[x])
         /\ ~import.outputs => \A w \in Workloads : h[w] \in Places
<1>1. \A x \in Tensors : h[x] \in Places \cup {NoMemory} /\ MayBeAt(x, h[x])
  BY DEF Homes
<1>2. ASSUME ~import.outputs, NEW w \in Workloads PROVE h[w] \in Places
  <2>1. w \in Tensors /\ import \in Sources
    BY AsyncExecuteAssumption DEF Tensors
  <2>2. h[w] = Place[import][w] \/ w \in Inputs
    BY <1>1, <1>2, <2>1 DEF MayBeAt
  <2>3. Place[import][w] = <<"bin", BinOf(w, import)>>
    BY <1>2, <2>1 DEF Place, MemoryOf, Managed
  <2>4. <<"bin", BinOf(w, import)>> # NoMemory
    BY DEF NoMemory
  <2> QED
    BY <1>1, <2>1, <2>2, <2>3, <2>4, TensorMemoryAssumption
<1> QED
  BY <1>1, <1>2

\* An import moves the memory of a tensor to a buffer of its own.
LEMMA ImportedTypes ==
  ASSUME NEW h \in Homes, NEW buffers,
         \A x \in DOMAIN buffers :
           \/ import.inputs /\ x \in Inputs /\ buffers[x] = x
           \/ import.outputs /\ x \in Workloads /\ buffers[x] \in OutputsOf(x)
  PROVE  Imported(h, buffers) \in Homes
<1>1. \A x \in DOMAIN buffers : buffers[x] \in Inputs \cup Outputs
  BY DEF OutputsOf
<1>2. Imported(h, buffers) \in [Tensors -> Places \cup {NoMemory}]
  BY <1>1, BufferFacts DEF Imported, Homes
<1>3. ASSUME NEW x \in Tensors PROVE MayBeAt(x, Imported(h, buffers)[x])
  <2>1. CASE x \in DOMAIN buffers
    BY <2>1 DEF Imported, MayBeAt
  <2>2. CASE x \notin DOMAIN buffers
    BY <2>2 DEF Imported, Homes
  <2> QED
    BY <2>1, <2>2
<1> QED
  BY <1>2, <1>3 DEF Homes

\* A failed import leaves the handle of the tensor without memory.
LEMMA UnimportedTypes ==
  ASSUME NEW h \in Homes, NEW x,
         \/ import.inputs /\ x \in Inputs
         \/ import.outputs /\ x \in Workloads
  PROVE  Unimported(h, x) \in Homes
<1>1. Unimported(h, x) \in [Tensors -> Places \cup {NoMemory}]
  BY DEF Unimported, Homes
<1>2. ASSUME NEW y \in Tensors PROVE MayBeAt(y, Unimported(h, x)[y])
  <2>1. CASE x = y
    BY <2>1 DEF Unimported, MayBeAt, Homes
  <2>2. CASE x # y
    BY <2>2 DEF Unimported, Homes
  <2> QED
    BY <2>1, <2>2
<1> QED
  BY <1>1, <1>2 DEF Homes

\* A new handle has its memory where Allocate puts it.
LEMMA PlaceTypes == import \in Imports => Place[import] \in Homes
<1> SUFFICES ASSUME import \in Imports PROVE Place[import] \in Homes
  OBVIOUS
<1>1. import \in Sources
  BY AsyncExecuteAssumption
<1>2. Place[import] = [x \in Tensors |-> Place[import][x]]
  BY <1>1 DEF Place
<1>3. \A x \in Tensors : Place[import][x] \in Places \cup {NoMemory}
  BY DEF Places
<1>4. \A x \in Tensors : MayBeAt(x, Place[import][x])
  BY DEF MayBeAt
<1> QED
  BY <1>2, <1>3, <1>4 DEF Homes

\* What a call changes of the memory of its handle, and of no other.
LEMMA MemoryTypes ==
  ASSUME HandleInv, NEW t \in Callers, Execute(t)
  PROVE  /\ mem' \in [Callers -> Homes']
         /\ \A u \in Callers \ {t} : mem'[u] = mem[u]
<1>1. /\ mem \in [Callers -> Homes] /\ mem[t] \in Homes
      /\ call[t].inputs \subseteq Inputs /\ call[t].outputs \subseteq Outputs
  BY DEF HandleInv, ExecuteTypeOK, Calls
<1>2. Homes' = Homes
  <2>1. UNCHANGED import
    BY Zenon DEF Execute, Begin, PrepareInputs, PrepareInputsThrows, PrepareOutputs,
       PrepareOutputsThrows, ExecuteWorkload, WorkloadThrows, CopyOutputs, SyncOutputs,
       ReturnFromExecute, Recover
  <2> QED
    BY <2>1, HomesStay
<1> SUFFICES \E h \in Homes : mem' = [mem EXCEPT ![t] = h]
  BY <1>1, <1>2
<1>3. ASSUME NEW S, S \subseteq Inputs, import.inputs \/ S = {}
      PROVE  Imported(mem[t], InputBuffers(S)) \in Homes
  <2>1. \A x \in DOMAIN InputBuffers(S) : import.inputs /\ x \in Inputs /\ InputBuffers(S)[x] = x
    BY <1>3 DEF InputBuffers
  <2> QED
    BY <1>1, <2>1, ImportedTypes
<1>4. ASSUME NEW ids \in SUBSET call[t].outputs, import.outputs \/ ids = {},
             NEW kept \in OutputBuffers(ids)
      PROVE  Imported(mem[t], kept) \in Homes
  <2>1. ids \in SUBSET Outputs
    BY <1>1
  <2>2. \A x \in DOMAIN kept : kept[x] \in ids /\ OutputOf[kept[x]] = x
    BY <2>1, OutputBufferFacts
  <2>3. \A x \in DOMAIN kept :
          import.outputs /\ x \in Workloads /\ kept[x] \in OutputsOf(x)
    <3> SUFFICES ASSUME NEW x \in DOMAIN kept
                 PROVE  import.outputs /\ x \in Workloads /\ kept[x] \in OutputsOf(x)
      OBVIOUS
    <3>1. kept[x] \in ids /\ kept[x] \in Outputs /\ OutputOf[kept[x]] = x
      BY <2>1, <2>2
    <3>2. ids # {}
      BY <3>1
    <3>3. x \in Workloads
      BY <3>1, TensorMemoryAssumption
    <3> QED
      BY <1>4, <3>1, <3>2, <3>3 DEF OutputsOf
  <2> QED
    BY <1>1, <2>3, ImportedTypes
<1>6. ASSUME ImportOutputTensors(t)
      PROVE  \E h \in Homes : mem' = [mem EXCEPT ![t] = h]
  <2>1. PICK ids \in SUBSET call[t].outputs :
          /\ import.outputs \/ ids = {}
          /\ \E kept \in OutputBuffers(ids) : mem' = [mem EXCEPT ![t] = Imported(mem[t], kept)]
    BY <1>6 DEF ImportOutputTensors
  <2> QED
    BY <1>4, <2>1
<1>7. CASE PrepareInputs(t)
  <2>1. PICK S : /\ S \subseteq Inputs /\ (import.inputs \/ S = {})
                 /\ mem' = [mem EXCEPT ![t] = Imported(mem[t], InputBuffers(S))]
    BY <1>1, <1>7 DEF PrepareInputs
  <2> QED
    BY <1>3, <2>1
<1>8. CASE PrepareInputsThrows(t)
  <2>1. PICK S, i : /\ S \subseteq Inputs /\ i \in Inputs /\ import.inputs
                    /\ mem' = [mem EXCEPT ![t] = Unimported(Imported(mem[t], InputBuffers(S)), i)]
    BY <1>1, <1>8 DEF PrepareInputsThrows
  <2> QED
    BY <1>3, <2>1, UnimportedTypes
<1>9. CASE PrepareOutputs(t)
  BY <1>6, <1>9 DEF PrepareOutputs
<1>10. CASE PrepareOutputsThrows(t)
  <2>1. ASSUME NEW o \in call[t].outputs, NEW ids \in SUBSET (call[t].outputs \ {o}), import.outputs,
               NEW kept \in OutputBuffers(ids),
               mem' = [mem EXCEPT ![t] = Unimported(Imported(mem[t], kept), OutputOf[o])]
        PROVE  \E h \in Homes : mem' = [mem EXCEPT ![t] = h]
    <3>1. ids \in SUBSET call[t].outputs /\ OutputOf[o] \in Workloads
      BY <1>1, TensorMemoryAssumption
    <3>2. Unimported(Imported(mem[t], kept), OutputOf[o]) \in Homes
      BY <1>4, <2>1, <3>1, UnimportedTypes
    <3> QED
      BY <2>1, <3>2
  <2>2. \/ ImportOutputTensors(t)
        \/ /\ import.outputs
           /\ \E o \in call[t].outputs : \E ids \in SUBSET (call[t].outputs \ {o}) :
                \E kept \in OutputBuffers(ids) :
                  mem' = [mem EXCEPT ![t] = Unimported(Imported(mem[t], kept), OutputOf[o])]
    BY <1>10 DEF PrepareOutputsThrows
  <2> QED
    BY <1>6, <2>1, <2>2
<1>11. CASE Recover(t)
  <2>1. Place[import] \in Homes
    BY PlaceTypes DEF HandleInv, ExecuteTypeOK
  <2> QED
    BY <1>11, <2>1 DEF Recover
<1>12. CASE UNCHANGED mem
  <2>1. mem' = [mem EXCEPT ![t] = mem[t]]
    BY <1>1, <1>12
  <2> QED
    BY <1>1, <2>1
<1>13. ASSUME Begin(t) PROVE UNCHANGED mem
  <2>1. UNCHANGED memVars
    BY <1>13, Zenon DEF Begin
  <2> QED
    BY <2>1 DEF memVars
<1>14. ASSUME ExecuteWorkload(t) PROVE UNCHANGED mem
  BY <1>14, Zenon DEF ExecuteWorkload
<1>15. ASSUME WorkloadThrows(t) \/ CopyOutputs(t) \/ SyncOutputs(t) \/ ReturnFromExecute(t)
       PROVE  UNCHANGED mem
  BY <1>15, Zenon DEF WorkloadThrows, CopyOutputs, SyncOutputs, ReturnFromExecute, memVars
<1> QED
  BY <1>7, <1>8, <1>9, <1>10, <1>11, <1>12, <1>13, <1>14, <1>15 DEF Execute

\* EnqueueInput throws.
LEMMA PrepareInputsThrowsStep ==
  ASSUME HandleInv, NEW t \in Callers, PrepareInputsThrows(t)
  PROVE  HandleInv'
<1>0. /\ mem' \in [Callers -> Homes']
      /\ \A u \in Callers \ {t} : mem'[u] = mem[u]
  BY MemoryTypes DEF Execute
<1>5. /\ step[t] = "inputs" /\ step' = [step EXCEPT ![t] = "threw"]
      /\ UNCHANGED <<import, pinVars, outData, ptr, data, call, runs>>
  BY DEF PrepareInputsThrows
<1> USE DEF HandleInv, pinVars, ExecuteTypeOK
<1>1. ExecuteTypeOK'
  BY <1>0, <1>5
<1>2. CallsLive'
  BY <1>5 DEF CallsLive, Executing, LiveInput, ValidateImportedOutputID
<1>3. PointersAgree'
  BY <1>5, KeepsOthers DEF PointersOf
<1>4. NextAgrees'
  BY <1>5 DEF NextAgrees, Executed
<1>6. WritesAgree'
  BY <1>0, <1>5, KeepsWritten DEF Written, Executed
<1> QED
  BY <1>1, <1>2, <1>3, <1>4, <1>6

\* A new handle points to its own tensors.
LEMMA RecoverStep ==
  ASSUME HandleInv, NEW t \in Callers, Recover(t)
  PROVE  HandleInv'
<1>0. /\ mem' \in [Callers -> Homes']
      /\ \A u \in Callers \ {t} : mem'[u] = mem[u]
  BY MemoryTypes DEF Execute
<1>5. /\ ptr' = [ptr EXCEPT ![t] = Handle] /\ data' = [data EXCEPT ![t] = Contents]
      /\ call' = [call EXCEPT ![t] = NoCall] /\ step' = [step EXCEPT ![t] = "idle"]
      /\ UNCHANGED <<import, pinVars, outData, runs>>
  BY DEF Recover
<1> USE DEF HandleInv, pinVars, ExecuteTypeOK
<1>1. ExecuteTypeOK'
  BY <1>0, <1>5 DEF Pointers, Handle, Contents, NoCall, Calls
<1>2. CallsLive'
  BY <1>5 DEF CallsLive, Executing, LiveInput, ValidateImportedOutputID
<1>3. PointersAgree'
  BY <1>5, KeepsOthers DEF PointersOf
<1>4. NextAgrees'
  BY <1>5 DEF NextAgrees, Executed, NoCall
<1>6. WritesAgree'
  BY <1>0, <1>5, KeepsWritten DEF Written, Executed
<1> QED
  BY <1>1, <1>2, <1>3, <1>4, <1>6

\* The pointers of the imported inputs, and no others, are redirected.
LEMMA PrepareInputsStep ==
  ASSUME HandleInv, NEW t \in Callers, PrepareInputs(t)
  PROVE  HandleInv'
<1>0. /\ mem' \in [Callers -> Homes']
      /\ \A u \in Callers \ {t} : mem'[u] = mem[u]
  BY MemoryTypes DEF Execute
<1>1. /\ ptr' = [ptr EXCEPT ![t] = SwapInputs(ptr[t], call[t])]
      /\ ptr'[t] = SwapInputs(ptr[t], call[t])
      /\ step' = [step EXCEPT ![t] = "outputs"]
      /\ step[t] = "inputs" /\ step'[t] = "outputs"
      /\ UNCHANGED <<import, pinVars, outData, call, runs>>
  BY DEF PrepareInputs, HandleInv, ExecuteTypeOK
<1>2. ASSUME NEW p \in Positions
      PROVE  \/ ptr'[t][p] = Own
             \/ \E id \in call[t].preIn : /\ p \in InputConnections(inPins[id].binding)
                                          /\ ptr'[t][p] = [kind |-> "in", id |-> id]
  <2>1. ptr[t][p] = Own
    BY <1>1 DEF HandleInv, PointersAgree, PointersOf, Handle
  <2>2. \/ ptr'[t][p] = ptr[t][p]
        \/ \E id \in PinsAt(call[t], p) : ptr'[t][p] = [kind |-> "in", id |-> id]
    BY <1>1, SwapInputsFacts
  <2> QED
    BY <2>1, <2>2 DEF PinsAt
<1>3. ptr'[t] \in [Positions -> Pointers]
  <2>1. ptr'[t] = [p \in Positions |-> ptr'[t][p]]
    BY <1>1, SwapInputsFacts
  <2>2. call[t].preIn \subseteq Nat
    BY DEF HandleInv, ExecuteTypeOK, Calls
  <2>3. \A p \in Positions : ptr'[t][p] \in Pointers
    BY <1>2, <2>2, PointerTypes
  <2> QED
    BY <2>1, <2>3
<1>4. data' \in [Callers -> [Places -> {Wrong} \cup (Tensors \X Nat)]]
  <2>1. call[t].inputs \subseteq Tensors
    BY DEF HandleInv, ExecuteTypeOK, Calls, Tensors
  <2> QED
    BY <2>1 DEF PrepareInputs, HandleInv, ExecuteTypeOK
<1>5. ExecuteTypeOK'
  BY <1>0, <1>1, <1>3, <1>4 DEF HandleInv, ExecuteTypeOK, pinVars
<1>6. CallsLive'
  BY <1>1 DEF HandleInv, CallsLive, Executing, LiveInput, ValidateImportedOutputID, ExecuteTypeOK, pinVars
<1>7. PointersOf(t)'
  BY <1>1, <1>2 DEF PointersOf, PointsToPin, InputConnections, pinVars
<1>8. PointersAgree'
  BY <1>1, <1>7, KeepsOthers DEF HandleInv, ExecuteTypeOK
<1>9. NextAgrees'
  BY <1>1 DEF HandleInv, ExecuteTypeOK, NextAgrees, Executed
<1>10. WritesAgree'
  BY <1>0, <1>1, KeepsWritten DEF Written, Executed, HandleInv, ExecuteTypeOK
<1> QED
  BY <1>5, <1>6, <1>8, <1>9, <1>10 DEF HandleInv

\* The pointers of the imported outputs are redirected, those of the inputs
\* stay where they are.
LEMMA PrepareOutputsStep ==
  ASSUME HandleInv, NEW t \in Callers, PrepareOutputs(t)
  PROVE  HandleInv'
<1>0. /\ mem' \in [Callers -> Homes']
      /\ \A u \in Callers \ {t} : mem'[u] = mem[u]
  BY MemoryTypes DEF Execute
<1>1. /\ ptr' = [ptr EXCEPT ![t] = SwapOutputs(ptr[t], call[t].preOut)]
      /\ ptr'[t] = SwapOutputs(ptr[t], call[t].preOut)
      /\ step' = [step EXCEPT ![t] = "workloads"]
      /\ step[t] = "outputs" /\ step'[t] = "workloads"
      /\ UNCHANGED <<import, pinVars, outData, data, call, runs>>
  BY DEF PrepareOutputs, HandleInv, ExecuteTypeOK
<1>2. ASSUME NEW p \in Positions
      PROVE  \/ ptr'[t][p] = ptr[t][p]
             \/ \E id \in call[t].preOut : /\ p \in OutputConnections(outPins[id].binding)
                                           /\ ptr'[t][p] = [kind |-> "out", id |-> id]
  <2>1. \/ ptr'[t][p] = ptr[t][p]
        \/ \E id \in PinsTo(call[t].preOut, p) : ptr'[t][p] = [kind |-> "out", id |-> id]
    <3>1. PICK h, ids : h = ptr[t] /\ ids = call[t].preOut
      OBVIOUS
    <3>2. \/ SwapOutputs(h, ids)[p] = h[p]
          \/ \E id \in PinsTo(ids, p) : SwapOutputs(h, ids)[p] = [kind |-> "out", id |-> id]
      BY SwapOutputsFacts
    <3>3. ptr'[t] = SwapOutputs(h, ids)
      BY <1>1, <3>1
    <3> QED
      BY <3>1, <3>2, <3>3
  <2> QED
    BY <2>1 DEF PinsTo
<1>3. ptr'[t] \in [Positions -> Pointers]
  <2>1. ptr'[t] = [p \in Positions |-> ptr'[t][p]]
    BY <1>1, SwapOutputsFacts
  <2>2. call[t].preOut \subseteq Nat /\ ptr[t] \in [Positions -> Pointers]
    BY DEF HandleInv, ExecuteTypeOK, Calls
  <2>3. \A p \in Positions : ptr'[t][p] \in Pointers
    BY <1>2, <2>2, PointerTypes
  <2> QED
    BY <2>1, <2>3
<1>4. ExecuteTypeOK'
  BY <1>0, <1>1, <1>3 DEF HandleInv, ExecuteTypeOK, pinVars
<1>5. CallsLive'
  BY <1>1 DEF HandleInv, CallsLive, Executing, LiveInput, ValidateImportedOutputID, ExecuteTypeOK, pinVars
<1>6. PointersOf(t)'
  <2>1. \A p \in Positions : ptr[t][p] = Own \/ PointsToPin(t, p)
    BY <1>1 DEF HandleInv, PointersAgree, PointersOf
  <2>2. \A p : PointsToPin(t, p)' <=>
           \/ \E id \in call[t].preIn :
                p \in InputConnections(inPins[id].binding) /\ ptr'[t][p] = [kind |-> "in", id |-> id]
           \/ \E id \in call[t].preOut :
                p \in OutputConnections(outPins[id].binding) /\ ptr'[t][p] = [kind |-> "out", id |-> id]
    BY <1>1 DEF PointsToPin, InputConnections, OutputConnections, pinVars
  <2>3. ASSUME NEW p \in Positions PROVE ptr'[t][p] = Own \/ PointsToPin(t, p)'
    BY <1>2, <2>1, <2>2 DEF PointsToPin
  <2> QED
    BY <1>1, <2>3 DEF PointersOf
<1>7. PointersAgree'
  BY <1>1, <1>6, KeepsOthers DEF HandleInv, ExecuteTypeOK
<1>8. NextAgrees'
  <2>1. 1 \in Workloads
    BY TensorMemoryAssumption, AsyncExecuteAssumption, FS_CardinalityType
  <2> QED
    BY <1>1, <2>1 DEF HandleInv, ExecuteTypeOK, NextAgrees, Executed
<1>9. WritesAgree'
  <2>1. call'[t].next = 1 /\ \A w \in Workloads : ~(w < 1)
    BY <1>1, WorkloadFacts DEF HandleInv, NextAgrees
  <2>2. Written(t)'
    BY <2>1 DEF Written
  <2> QED
    BY <1>0, <1>1, <2>2, KeepsWritten DEF HandleInv, ExecuteTypeOK
<1> QED
  BY <1>4, <1>5, <1>7, <1>8, <1>9 DEF HandleInv

\* The preparation of the outputs throws half-way: nothing is promised of the
\* pointers until the caller replaces the handle.
LEMMA PrepareOutputsThrowsStep ==
  ASSUME HandleInv, NEW t \in Callers, PrepareOutputsThrows(t)
  PROVE  HandleInv'
<1>0. /\ mem' \in [Callers -> Homes']
      /\ \A u \in Callers \ {t} : mem'[u] = mem[u]
  BY MemoryTypes DEF Execute
<1>1. /\ step' = [step EXCEPT ![t] = "threw"]
      /\ step[t] = "outputs" /\ step'[t] = "threw"
      /\ \A u \in Callers \ {t} : ptr'[u] = ptr[u]
      /\ UNCHANGED <<import, pinVars, outData, data, call, runs>>
  BY DEF PrepareOutputsThrows, HandleInv, ExecuteTypeOK
<1>2. ptr' \in [Callers -> [Positions -> Pointers]]
  <2>1. CASE UNCHANGED ptr
    BY <2>1 DEF HandleInv, ExecuteTypeOK
  <2>2. ASSUME NEW done \in SUBSET call[t].preOut,
               ptr' = [ptr EXCEPT ![t] = SwapOutputs(ptr[t], done)]
        PROVE  ptr' \in [Callers -> [Positions -> Pointers]]
    <3>1. done \subseteq Nat /\ ptr[t] \in [Positions -> Pointers]
      BY DEF HandleInv, ExecuteTypeOK, Calls
    <3>2. ASSUME NEW p \in Positions PROVE SwapOutputs(ptr[t], done)[p] \in Pointers
      <4>1. \/ SwapOutputs(ptr[t], done)[p] = ptr[t][p]
            \/ \E id \in PinsTo(done, p) : SwapOutputs(ptr[t], done)[p] = [kind |-> "out", id |-> id]
        BY SwapOutputsFacts
      <4>2. PinsTo(done, p) \subseteq Nat
        BY <3>1 DEF PinsTo
      <4> QED
        BY <3>1, <4>1, <4>2, PointerTypes
    <3>3. SwapOutputs(ptr[t], done) = [p \in Positions |-> SwapOutputs(ptr[t], done)[p]]
      BY SwapOutputsFacts
    <3> QED
      BY <2>2, <3>2, <3>3 DEF HandleInv, ExecuteTypeOK
  <2> QED
    BY <2>1, <2>2 DEF PrepareOutputsThrows
<1>3. ExecuteTypeOK'
  BY <1>0, <1>1, <1>2 DEF HandleInv, ExecuteTypeOK, pinVars
<1>4. CallsLive'
  BY <1>1 DEF HandleInv, CallsLive, Executing, LiveInput, ValidateImportedOutputID, ExecuteTypeOK, pinVars
<1>5. PointersOf(t)'
  BY <1>1 DEF PointersOf
<1>6. PointersAgree'
  BY <1>1, <1>5, KeepsOthers DEF HandleInv, ExecuteTypeOK
<1>7. NextAgrees'
  BY <1>1 DEF HandleInv, ExecuteTypeOK, NextAgrees, Executed
<1>8. WritesAgree'
  BY <1>0, <1>1, KeepsWritten DEF Written, Executed, HandleInv, ExecuteTypeOK
<1> QED
  BY <1>3, <1>4, <1>6, <1>7, <1>8 DEF HandleInv

\* What the beginning of a call changes.
LEMMA BeginChanges ==
  ASSUME NEW t \in Callers, Begin(t)
  PROVE  /\ step[t] = "idle" /\ step' = [step EXCEPT ![t] = "inputs"]
         /\ runs' = [runs EXCEPT ![t] = runs[t] + 1]
         /\ \E c \in Arguments :
              /\ \A id \in c.preIn : ValidateImportedInputID(id)
              /\ \A id \in c.preOut : ValidateImportedOutputID(id)
              /\ ValidateBindingIds(c)
              /\ call' = [call EXCEPT ![t] = c]
         /\ UNCHANGED <<import, pinVars, outData, ptr, mem, data>>
<1>1. /\ step[t] = "idle" /\ step' = [step EXCEPT ![t] = "inputs"]
      /\ runs' = [runs EXCEPT ![t] = runs[t] + 1]
      /\ UNCHANGED <<import, pinVars, outData, ptr, memVars>>
  BY Zenon DEF Begin
<1>2. \E c \in Arguments :
        /\ \A id \in c.preIn : ValidateImportedInputID(id)
        /\ \A id \in c.preOut : ValidateImportedOutputID(id)
        /\ ValidateBindingIds(c)
        /\ call' = [call EXCEPT ![t] = c]
  BY Zenon DEF Begin
<1> QED
  BY <1>1, <1>2 DEF memVars

\* A call begins with live pins only.
LEMMA BeginStep ==
  ASSUME HandleInv, NEW t \in Callers, Begin(t)
  PROVE  HandleInv'
<1>1. PICK c \in Arguments :
        /\ \A id \in c.preIn : ValidateImportedInputID(id)
        /\ \A id \in c.preOut : ValidateImportedOutputID(id)
        /\ call' = [call EXCEPT ![t] = c]
  BY BeginChanges
<1>2. /\ step[t] = "idle" /\ step' = [step EXCEPT ![t] = "inputs"]
      /\ runs' = [runs EXCEPT ![t] = runs[t] + 1]
      /\ UNCHANGED <<import, pinVars, outData, ptr, mem, data>>
  BY BeginChanges
<1>3. call'[t] = c /\ c.next = 1 /\ c.ok
  BY <1>1 DEF HandleInv, ExecuteTypeOK, Arguments
<1>4. c \in Calls
  <2>1. DOMAIN inPins \subseteq Nat /\ DOMAIN outPins \subseteq Nat
    BY LenProperties DEF HandleInv, ExecuteTypeOK
  <2>2. /\ c = [inputs |-> c.inputs, preIn |-> c.preIn, outputs |-> c.outputs,
                preOut |-> c.preOut, next |-> 1, ok |-> TRUE]
        /\ c.inputs \subseteq Inputs /\ c.preIn \subseteq DOMAIN inPins
        /\ c.outputs \subseteq Outputs /\ c.preOut \subseteq DOMAIN outPins
    BY DEF Arguments
  <2>3. /\ c.inputs \in SUBSET Inputs /\ c.preIn \in SUBSET Nat
        /\ c.outputs \in SUBSET Outputs /\ c.preOut \in SUBSET Nat
    BY <2>1, <2>2
  <2>4. \A a \in SUBSET Inputs, b \in SUBSET Nat, d \in SUBSET Outputs, e \in SUBSET Nat :
          [inputs |-> a, preIn |-> b, outputs |-> d, preOut |-> e, next |-> 1, ok |-> TRUE] \in Calls
    BY DEF Calls
  <2> QED
    BY <2>2, <2>3, <2>4
<1>5. ExecuteTypeOK'
  BY <1>1, <1>2, <1>4, HomesStay DEF HandleInv, ExecuteTypeOK, pinVars
<1>6. CallsLive'
  <2>1. \A id : LiveInput(id)' <=> LiveInput(id)
    BY <1>2 DEF LiveInput, pinVars
  <2>2. \A id : ValidateImportedOutputID(id)' <=> ValidateImportedOutputID(id)
    BY <1>2 DEF ValidateImportedOutputID, pinVars
  <2>3. \A u \in Callers \ {t} : call'[u] = call[u] /\ step'[u] = step[u]
    BY <1>1, <1>2 DEF HandleInv, ExecuteTypeOK
  <2>4. /\ \A id \in call'[t].preIn : LiveInput(id)
        /\ \A id \in call'[t].preOut : ValidateImportedOutputID(id)
    BY <1>1, <1>3 DEF ValidateImportedInputID
  <2> QED
    BY <2>1, <2>2, <2>3, <2>4 DEF HandleInv, CallsLive, Executing
<1>7. PointersOf(t)'
  BY <1>2 DEF HandleInv, PointersAgree, PointersOf, ExecuteTypeOK
<1>8. PointersAgree'
  BY <1>1, <1>2, <1>7, KeepsOthers DEF HandleInv, ExecuteTypeOK
<1>9. NextAgrees'
  BY <1>1, <1>2, <1>3 DEF HandleInv, NextAgrees, Executed, ExecuteTypeOK
<1>10. WritesAgree'
  BY <1>1, <1>2, KeepsWritten DEF Written, Executed, HandleInv, ExecuteTypeOK
<1> QED
  BY <1>5, <1>6, <1>8, <1>9, <1>10 DEF HandleInv

\* A workload is executed when there is memory for its tensor.
LEMMA WriteHasMemory ==
  ASSUME HandleInv, NEW t \in Callers, ExecuteWorkload(t)
  PROVE  mem[t][call[t].next] # NoMemory
<1>1. step[t] = "workloads" /\ HasMemory(t, <<"write", call[t].next, 1>>)
  BY DEF ExecuteWorkload
<1>2. TensorAt(<<"write", call[t].next, 1>>) = call[t].next
  BY DEF TensorAt
<1> QED
  BY <1>1, <1>2, WritesToOwn DEF HasMemory

\* A workload moves no pointer, and never writes to an imported buffer.
LEMMA ExecuteWorkloadStep ==
  ASSUME HandleInv, NEW t \in Callers, ExecuteWorkload(t)
  PROVE  HandleInv' /\ outData' = outData
<1>1. /\ step[t] = "workloads" /\ call[t].next \in Workloads
      /\ call' = [call EXCEPT ![t].next = call[t].next + 1]
      /\ step' = [step EXCEPT ![t] = IF call[t].next + 1 \in Workloads THEN step[t] ELSE "copy"]
      /\ UNCHANGED <<import, pinVars, ptr, mem, runs>>
  BY DEF ExecuteWorkload, HandleInv, NextAgrees
<1>2. ptr[t][<<"write", call[t].next, 1>>] = Own
  BY <1>1, WritesToOwn
<1>3. /\ outData' = outData
      /\ \E v \in {Wrong} \cup (Tensors \X Nat) :
           data' = [data EXCEPT ![t][mem[t][call[t].next]] = v]
  <2>1. <<call[t].next, runs[t]>> \in Tensors \X Nat
    BY <1>1 DEF Tensors, HandleInv, ExecuteTypeOK
  <2>2. ptr[t][<<"write", call[t].next, 1>>].kind = "own"
    BY <1>2 DEF Own
  <2> QED
    BY <2>1, <2>2 DEF ExecuteWorkload
<1>4. call[t].next \in Nat /\ call[t] \in Calls
  BY DEF HandleInv, ExecuteTypeOK, Calls
<1>5. /\ call'[t] = [call[t] EXCEPT !.next = call[t].next + 1]
      /\ call'[t] \in Calls
  <2>1. call'[t] = [call[t] EXCEPT !.next = call[t].next + 1]
    BY <1>1 DEF HandleInv, ExecuteTypeOK
  <2> QED
    BY <1>4, <2>1 DEF Calls
<1>6. data' \in [Callers -> [Places -> {Wrong} \cup (Tensors \X Nat)]]
  <2>1. PICK v \in {Wrong} \cup (Tensors \X Nat) :
          data' = [data EXCEPT ![t][mem[t][call[t].next]] = v]
    BY <1>3
  <2>2. data[t] \in [Places -> {Wrong} \cup (Tensors \X Nat)]
    BY DEF HandleInv, ExecuteTypeOK
  <2>3. [data[t] EXCEPT ![mem[t][call[t].next]] = v] \in [Places -> {Wrong} \cup (Tensors \X Nat)]
    BY <2>2
  <2> QED
    BY <2>1, <2>3 DEF HandleInv, ExecuteTypeOK
<1>7. ExecuteTypeOK'
  BY <1>1, <1>3, <1>5, <1>6, HomesStay DEF HandleInv, ExecuteTypeOK, pinVars
<1>8. /\ call'[t].preIn = call[t].preIn /\ call'[t].preOut = call[t].preOut
      /\ call'[t].ok = call[t].ok /\ call'[t].next = call[t].next + 1
      /\ step'[t] \in {"workloads", "copy"}
      /\ step'[t] = IF call[t].next + 1 \in Workloads THEN "workloads" ELSE "copy"
      /\ \A u \in Callers \ {t} : call'[u] = call[u] /\ step'[u] = step[u]
  BY <1>1, <1>4, <1>5 DEF HandleInv, ExecuteTypeOK, Calls
<1>9. CallsLive'
  <2>1. \A id : LiveInput(id)' <=> LiveInput(id)
    BY <1>1 DEF LiveInput, pinVars
  <2>2. \A id : ValidateImportedOutputID(id)' <=> ValidateImportedOutputID(id)
    BY <1>1 DEF ValidateImportedOutputID, pinVars
  <2> QED
    BY <1>1, <1>8, <2>1, <2>2 DEF HandleInv, CallsLive, Executing
<1>10. PointersOf(t)'
  <2>1. \A p : PointsToPin(t, p)' <=> PointsToPin(t, p)
    BY <1>1, <1>8, SamePointers
  <2>2. call'[t].ok
    BY <1>1, <1>8 DEF HandleInv, NextAgrees
  <2> QED
    BY <1>1, <1>8, <2>1, <2>2 DEF HandleInv, PointersAgree, PointersOf
<1>11. PointersAgree'
  BY <1>1, <1>8, <1>10, KeepsOthers
<1>12. NextAgrees'
  <2>1. CASE call[t].next + 1 \in Workloads
    <3>1. step'[t] = "workloads" /\ call'[t].next \in Workloads /\ call'[t].ok
      BY <1>1, <1>8, <2>1 DEF HandleInv, NextAgrees
    <3> QED
      BY <1>8, <3>1 DEF HandleInv, NextAgrees, Executed
  <2>2. CASE call[t].next + 1 \notin Workloads
    <3>1. \A w \in Workloads : w < call[t].next + 1
      BY <1>1, <2>2, TensorMemoryAssumption, FS_CardinalityType
    <3> QED
      BY <1>8, <2>2, <3>1 DEF HandleInv, NextAgrees, Executed
  <2> QED
    BY <2>1, <2>2
<1>13. WritesAgree'
  <2>1. mem[t][call[t].next] # NoMemory
    BY WriteHasMemory
  <2>2. \A w \in Workloads : w < call[t].next + 1 => w < call[t].next \/ w = call[t].next
    BY <1>4, WorkloadFacts
  <2>3. Written(t)'
    BY <1>1, <1>8, <2>1, <2>2 DEF HandleInv, WritesAgree, Written
  <2> QED
    BY <1>1, <1>8, <2>3, KeepsWritten
<1> QED
  BY <1>3, <1>7, <1>9, <1>11, <1>12, <1>13 DEF HandleInv

\* A step that ends a call, or its loop over the workloads, and leaves the pointers
\* to the tensors of the handle.
LEMMA RestoreStep ==
  ASSUME HandleInv, NEW t \in Callers, step[t] \in {"workloads", "copy", "return"},
         UNCHANGED <<import, pinVars, outData, mem, data, runs>>,
         ptr' = [ptr EXCEPT ![t] = Handle],
         \/ call' = [call EXCEPT ![t].ok = FALSE] /\ step' = [step EXCEPT ![t] = "copy"]
         \/ call' = [call EXCEPT ![t] = NoCall] /\ step' = [step EXCEPT ![t] = "idle"]
  PROVE  HandleInv'
<1>1. /\ ptr'[t] = Handle /\ ptr' \in [Callers -> [Positions -> Pointers]]
      /\ \A u \in Callers \ {t} : call'[u] = call[u] /\ step'[u] = step[u] /\ ptr'[u] = ptr[u]
  BY DEF HandleInv, ExecuteTypeOK, Handle, Pointers
<1>2. /\ call' \in [Callers -> Calls]
      /\ \/ /\ step'[t] = "copy" /\ call'[t].ok = FALSE
            /\ call'[t].preIn = call[t].preIn /\ call'[t].preOut = call[t].preOut
         \/ step'[t] = "idle" /\ call'[t].ok
  <2>1. call \in [Callers -> Calls]
    BY DEF HandleInv, ExecuteTypeOK
  <2>2. CASE call' = [call EXCEPT ![t].ok = FALSE] /\ step' = [step EXCEPT ![t] = "copy"]
    <3>1. call[t] \in Calls /\ call'[t] = [call[t] EXCEPT !.ok = FALSE]
      BY <2>1, <2>2
    <3>2. /\ call'[t] \in Calls /\ call'[t].ok = FALSE
          /\ call'[t].preIn = call[t].preIn /\ call'[t].preOut = call[t].preOut
      BY <3>1 DEF Calls
    <3>3. call' = [call EXCEPT ![t] = call'[t]]
      BY <2>1, <2>2
    <3>4. call' \in [Callers -> Calls]
      BY <2>1, <3>2, <3>3
    <3>5. step'[t] = "copy"
      BY <2>2 DEF HandleInv, ExecuteTypeOK
    <3> QED
      BY <3>2, <3>4, <3>5
  <2>3. CASE call' = [call EXCEPT ![t] = NoCall] /\ step' = [step EXCEPT ![t] = "idle"]
    <3>1. NoCall \in Calls /\ NoCall.ok
      BY DEF NoCall, Calls
    <3> QED
      BY <2>1, <2>3, <3>1 DEF HandleInv, ExecuteTypeOK
  <2> QED
    BY <2>2, <2>3
<1>3. ExecuteTypeOK'
  BY <1>1, <1>2, HomesStay DEF HandleInv, ExecuteTypeOK, pinVars
<1>4. CallsLive'
  <2>1. \A id : LiveInput(id)' <=> LiveInput(id)
    BY DEF LiveInput, pinVars
  <2>2. \A id : ValidateImportedOutputID(id)' <=> ValidateImportedOutputID(id)
    BY DEF ValidateImportedOutputID, pinVars
  <2> QED
    BY <1>1, <1>2, <2>1, <2>2 DEF HandleInv, CallsLive, Executing
<1>5. PointersOf(t)'
  BY <1>1, <1>2 DEF PointersOf, Handle
<1>6. PointersAgree'
  BY <1>1, <1>5, KeepsOthers
<1>7. NextAgrees'
  BY <1>1, <1>2 DEF HandleInv, NextAgrees, Executed
<1>8. Written(t)'
  BY <1>2 DEF Written, Executed
<1>9. WritesAgree'
  BY <1>1, <1>8, KeepsWritten
<1> QED
  BY <1>3, <1>4, <1>6, <1>7, <1>9 DEF HandleInv

\* The catch blocks put the pointers back.
LEMMA WorkloadThrowsStep ==
  ASSUME HandleInv, NEW t \in Callers, WorkloadThrows(t)
  PROVE  HandleInv'
<1>1. /\ step[t] = "workloads"
      /\ ptr' = [ptr EXCEPT ![t] = ResetMemHandle(ptr[t], call[t])]
      /\ UNCHANGED <<import, pinVars, outData, mem, data, runs>>
      /\ \/ call' = [call EXCEPT ![t].ok = FALSE] /\ step' = [step EXCEPT ![t] = "copy"]
         \/ call' = [call EXCEPT ![t] = NoCall] /\ step' = [step EXCEPT ![t] = "idle"]
  BY DEF WorkloadThrows, memVars
<1>2. ptr' = [ptr EXCEPT ![t] = Handle]
  BY <1>1, ResetFacts
<1> QED
  BY <1>1, <1>2, RestoreStep

\* The copy to the caller's tensors moves no pointer.
LEMMA CopyOutputsStep ==
  ASSUME HandleInv, NEW t \in Callers, CopyOutputs(t)
  PROVE  HandleInv'
<1>1. /\ step[t] = "copy" /\ step' = [step EXCEPT ![t] = "return"]
      /\ UNCHANGED <<import, pinVars, outData, ptr, mem, call, runs>>
  BY DEF CopyOutputs
<1>2. data' \in [Callers -> [Places -> {Wrong} \cup (Tensors \X Nat)]]
  <2>1. ASSUME NEW o \in call[t].outputs, ~import.outputs
        PROVE  data[t][mem[t][OutputOf[o]]] \in {Wrong} \cup (Tensors \X Nat)
    <3>1. o \in Outputs /\ OutputOf[o] \in Workloads
      BY TensorMemoryAssumption DEF HandleInv, ExecuteTypeOK, Calls
    <3>2. mem[t][OutputOf[o]] \in Places
      BY <2>1, <3>1, HomeFacts DEF HandleInv, ExecuteTypeOK
    <3> QED
      BY <3>2 DEF HandleInv, ExecuteTypeOK
  <2>2. ~import.outputs /\ data[t] \in [Places -> {Wrong} \cup (Tensors \X Nat)]
    BY DEF CopyOutputs, HandleInv, ExecuteTypeOK
  <2>3. ASSUME NEW m \in Places
        PROVE  (IF m \in {Buffer(o) : o \in call[t].outputs}
                THEN data[t][mem[t][OutputOf[m[2]]]] ELSE data[t][m])
               \in {Wrong} \cup (Tensors \X Nat)
    <3>1. CASE m \in {Buffer(o) : o \in call[t].outputs}
      <4>1. PICK o \in call[t].outputs : m = Buffer(o)
        BY <3>1
      <4>2. m[2] = o
        BY <4>1 DEF Buffer
      <4> QED
        BY <2>1, <2>2, <3>1, <4>2
    <3> QED
      BY <2>2, <3>1
  <2>4. [m \in Places |-> IF m \in {Buffer(o) : o \in call[t].outputs}
                          THEN data[t][mem[t][OutputOf[m[2]]]] ELSE data[t][m]]
        \in [Places -> {Wrong} \cup (Tensors \X Nat)]
    BY <2>3
  <2> QED
    BY <2>4 DEF CopyOutputs, HandleInv, ExecuteTypeOK
<1>3. ExecuteTypeOK'
  BY <1>1, <1>2, HomesStay DEF HandleInv, ExecuteTypeOK, pinVars
<1>4. CallsLive'
  BY <1>1 DEF HandleInv, CallsLive, Executing, LiveInput, ValidateImportedOutputID, ExecuteTypeOK, pinVars
<1>5. PointersOf(t)'
  <2>1. \A p : PointsToPin(t, p)' <=> PointsToPin(t, p)
    BY <1>1, SamePointers
  <2> QED
    BY <1>1, <2>1 DEF HandleInv, ExecuteTypeOK, PointersAgree, PointersOf
<1>6. PointersAgree'
  BY <1>1, <1>5, KeepsOthers DEF HandleInv, ExecuteTypeOK
<1>7. NextAgrees'
  BY <1>1 DEF HandleInv, ExecuteTypeOK, NextAgrees, Executed
<1>8. WritesAgree'
  <2>1. Written(t)'
    BY <1>1 DEF HandleInv, ExecuteTypeOK, WritesAgree, Written, Executed
  <2> QED
    BY <1>1, <2>1, KeepsWritten DEF HandleInv, ExecuteTypeOK
<1> QED
  BY <1>3, <1>4, <1>6, <1>7, <1>8 DEF HandleInv

\* Unless a workload has failed, the handle of every output that shares no tensor can
\* be mapped: each workload has found memory for its own.
LEMMA OutputsMapped ==
  ASSUME HandleInv, NEW t \in Callers, step[t] = "copy", call[t].ok, NEW o \in Outputs
  PROVE  HasMemory(t, <<"output", o, 1>>)
<1>1. OutputOf[o] \in Workloads /\ OutputOf[o] < call[t].next
  BY TensorMemoryAssumption DEF HandleInv, NextAgrees, Executed
<1>2. mem[t][OutputOf[o]] # NoMemory
  BY <1>1 DEF HandleInv, WritesAgree, Written, Executed
<1>3. TensorAt(<<"output", o, 1>>) = OutputOf[o]
  BY DEF TensorAt
<1> QED
  BY <1>2, <1>3 DEF HasMemory

\* MemSyncOutputs moves no pointer, and when it throws they are back already.
LEMMA SyncOutputsStep ==
  ASSUME HandleInv, NEW t \in Callers, SyncOutputs(t)
  PROVE  HandleInv'
<1>1. step[t] = "copy" /\ UNCHANGED <<import, pinVars, outData, ptr, mem, data, runs>>
  BY DEF SyncOutputs, memVars
<1>2. CASE \A o \in Outputs : ~Shared(o) => HasMemory(t, <<"output", o, 1>>)
  <2>1. step' = [step EXCEPT ![t] = "return"] /\ call' = call
    BY <1>2 DEF SyncOutputs
  <2>2. ExecuteTypeOK'
    BY <1>1, <2>1, HomesStay DEF HandleInv, ExecuteTypeOK, pinVars
  <2>3. CallsLive'
    BY <1>1, <2>1 DEF HandleInv, CallsLive, Executing, LiveInput, ValidateImportedOutputID, ExecuteTypeOK, pinVars
  <2>4. PointersOf(t)'
    <3>1. \A p : PointsToPin(t, p)' <=> PointsToPin(t, p)
      BY <1>1, <2>1, SamePointers
    <3> QED
      BY <1>1, <2>1, <3>1 DEF HandleInv, ExecuteTypeOK, PointersAgree, PointersOf
  <2>5. PointersAgree'
    BY <1>1, <2>1, <2>4, KeepsOthers DEF HandleInv, ExecuteTypeOK
  <2>6. NextAgrees'
    BY <1>1, <2>1 DEF HandleInv, ExecuteTypeOK, NextAgrees, Executed
  <2>7. WritesAgree'
    <3>1. Written(t)'
      BY <1>1, <2>1 DEF HandleInv, ExecuteTypeOK, WritesAgree, Written, Executed
    <3> QED
      BY <1>1, <2>1, <3>1, KeepsWritten DEF HandleInv, ExecuteTypeOK
  <2> QED
    BY <2>2, <2>3, <2>5, <2>6, <2>7 DEF HandleInv
<1>3. CASE ~(\A o \in Outputs : ~Shared(o) => HasMemory(t, <<"output", o, 1>>))
  <2>1. step' = [step EXCEPT ![t] = "idle"] /\ call' = [call EXCEPT ![t] = NoCall]
    BY <1>3 DEF SyncOutputs
  <2>2. ~call[t].ok
    BY <1>1, <1>3, OutputsMapped
  <2>3. ptr[t] = Handle
    BY <1>1, <2>2 DEF HandleInv, PointersAgree, PointersOf
  <2>4. ptr' = [ptr EXCEPT ![t] = Handle]
    BY <1>1, <2>3 DEF HandleInv, ExecuteTypeOK
  <2> QED
    BY <1>1, <2>1, <2>4, RestoreStep
<1> QED
  BY <1>2, <1>3

\* The return puts the pointers back.
LEMMA ReturnFromExecuteStep ==
  ASSUME HandleInv, NEW t \in Callers, ReturnFromExecute(t)
  PROVE  HandleInv'
<1>1. /\ step[t] = "return"
      /\ ptr' = [ptr EXCEPT ![t] = ResetMemHandle(ptr[t], call[t])]
      /\ UNCHANGED <<import, pinVars, outData, mem, data, runs>>
      /\ call' = [call EXCEPT ![t] = NoCall] /\ step' = [step EXCEPT ![t] = "idle"]
  BY DEF ReturnFromExecute, memVars
<1>2. ptr' = [ptr EXCEPT ![t] = Handle]
  BY <1>1, ResetFacts
<1> QED
  BY <1>1, <1>2, RestoreStep

\* There are no pins and no calls, and the pointers lead to the handle's own tensors.
LEMMA HandleInit == ExecuteInit => HandleInv
<1> SUFFICES ASSUME ExecuteInit PROVE HandleInv
  OBVIOUS
<1> USE DEF ExecuteInit
<1>1. ExecuteTypeOK
  BY EmptySeq, PlaceTypes DEF ExecuteTypeOK, Handle, Contents, NoCall, Calls, Pointers
<1>2. CallsLive /\ PointersAgree
  BY DEF CallsLive, Executing, PointersAgree, PointersOf
<1>3. NextAgrees /\ WritesAgree
  BY DEF NextAgrees, WritesAgree, Written, Executed, NoCall
<1> QED
  BY <1>1, <1>2, <1>3 DEF HandleInv

\* A step of something else keeps the invariant.
LEMMA HandleStutter == HandleInv /\ UNCHANGED executeVars => HandleInv'
<1> SUFFICES ASSUME HandleInv, UNCHANGED executeVars PROVE HandleInv'
  OBVIOUS
<1>1. ExecuteTypeOK'
  BY HomesStay DEF executeVars, pinVars, memVars, HandleInv, ExecuteTypeOK
<1>2. CallsLive'
  BY DEF executeVars, pinVars, HandleInv, CallsLive, Executing, LiveInput, ValidateImportedOutputID
<1>3. PointersAgree'
  <2>1. ASSUME NEW t \in Callers PROVE PointersOf(t)'
    <3>1. \A p : PointsToPin(t, p)' <=> PointsToPin(t, p)
      BY SamePointers DEF executeVars
    <3> QED
      BY <3>1 DEF executeVars, HandleInv, PointersAgree, PointersOf
  <2> QED
    BY <2>1 DEF PointersAgree
<1>4. NextAgrees' /\ WritesAgree'
  BY DEF executeVars, memVars, HandleInv, NextAgrees, WritesAgree, Written, Executed
<1> QED
  BY <1>1, <1>2, <1>3, <1>4 DEF HandleInv

\* Every step of every call, import and clear keeps it.
LEMMA HandleStep == HandleInv /\ [ExecuteNext]_executeVars => HandleInv'
<1> SUFFICES ASSUME HandleInv, [ExecuteNext]_executeVars PROVE HandleInv'
  OBVIOUS
<1>1. CASE \E t \in Callers : Execute(t)
  BY <1>1, BeginStep, PrepareInputsStep, PrepareInputsThrowsStep, PrepareOutputsStep,
     PrepareOutputsThrowsStep, ExecuteWorkloadStep, WorkloadThrowsStep,
     CopyOutputsStep, SyncOutputsStep, ReturnFromExecuteStep, RecoverStep DEF Execute
<1>2. CASE UNCHANGED executeVars
  BY <1>2, HandleStutter
<1> QED
  BY <1>1, <1>2, PinStep DEF ExecuteNext

\* So it holds in every reachable state.
LEMMA HandleInvariant == ExecuteSpec => []HandleInv
<1> QED
  BY HandleInit, HandleStep, PTL DEF ExecuteSpec

\* The variables of AsyncExecute keep their types: the ids of pins stay within the
\* vectors, and what memory holds is a tensor of some run or Wrong.
THEOREM ExecuteTypeCorrect == ExecuteSpec => []ExecuteTypeOK
<1>1. HandleInv => ExecuteTypeOK
  BY DEF HandleInv
<1> QED
  BY <1>1, HandleInvariant, PTL

\* Whatever calls, imports, clears and exceptions came before, a handle whose call has
\* returned points to its own tensors again (resetMemHandle).
THEOREM HandleRestoredHolds == ExecuteSpec => []HandleRestored
<1>1. HandleInv => HandleRestored
  BY DEF HandleInv, PointersAgree, PointersOf, HandleRestored
<1> QED
  BY <1>1, HandleInvariant, PTL

\* No workload reads through a pointer to a buffer that ClearImportedInputs or
\* ClearImportedOutputs has dropped, while the callers clear between calls only.
THEOREM OnlyLiveBuffersHolds == ExecuteSpec => []OnlyLiveBuffers
<1>1. ASSUME HandleInv PROVE OnlyLiveBuffers
  <2> SUFFICES ASSUME NEW t \in Callers, step[t] = "workloads",
                      NEW p \in Positions
               PROVE  /\ ptr[t][p].kind = "in" => inPins[ptr[t][p].id].live
                      /\ ptr[t][p].kind = "out" => outPins[ptr[t][p].id].live
    BY DEF OnlyLiveBuffers, ReadPositions
  <2>1. ptr[t][p] = Own \/ PointsToPin(t, p)
    BY <1>1 DEF HandleInv, PointersAgree, PointersOf
  <2>2. /\ \A id \in call[t].preIn : inPins[id].live
        /\ \A id \in call[t].preOut : outPins[id].live
    BY <1>1 DEF HandleInv, CallsLive, Executing, LiveInput, ValidateImportedOutputID
  <2>3. ASSUME NEW id \in call[t].preIn, ptr[t][p] = [kind |-> "in", id |-> id]
        PROVE  ptr[t][p].kind = "in" /\ ptr[t][p].id = id /\ inPins[id].live
    BY <2>2, <2>3
  <2>4. ASSUME NEW id \in call[t].preOut, ptr[t][p] = [kind |-> "out", id |-> id]
        PROVE  ptr[t][p].kind = "out" /\ ptr[t][p].id = id /\ outPins[id].live
    BY <2>2, <2>4
  <2>5. CASE ptr[t][p] = Own
    BY <2>5 DEF Own
  <2>6. CASE PointsToPin(t, p)
    BY <2>3, <2>4, <2>6 DEF PointsToPin
  <2> QED
    BY <2>1, <2>5, <2>6
<1> QED
  BY <1>1, HandleInvariant, PTL

\* No run ever writes to a buffer imported with ImportOutputs: Execute redirects the
\* readers of the output's tensor to the buffer, and no writer.
THEOREM NeverWrittenHolds == ExecuteSpec => []NeverWritten
<1>1. ExecuteInit => NeverWritten
  BY DEF ExecuteInit, NeverWritten
<1>2. ASSUME HandleInv, NeverWritten, [ExecuteNext]_executeVars PROVE NeverWritten'
  <2>1. CASE UNCHANGED outData
    BY <1>2, <2>1 DEF NeverWritten
  <2>2. CASE \E o \in Outputs : ImportOutput(o)
    <3>1. outData' = Append(outData, Wrong) /\ outData \in Seq({Wrong} \cup (Callers \X Nat))
      BY <1>2, <2>2 DEF ImportOutput, HandleInv, ExecuteTypeOK
    <3> QED
      BY <1>2, <3>1, AppendProperties, LenProperties DEF NeverWritten
  <2>3. CASE \E t \in Callers : Execute(t)
    <3>1. PICK t \in Callers : Execute(t)
      BY <2>3
    <3>2. CASE ExecuteWorkload(t)
      BY <1>2, <2>1, <3>2, ExecuteWorkloadStep
    <3> QED
      BY <2>1, <3>1, <3>2 DEF Execute, Begin, PrepareInputs, PrepareInputsThrows, PrepareOutputs,
         PrepareOutputsThrows, WorkloadThrows, CopyOutputs, SyncOutputs, ReturnFromExecute, Recover
  <2> QED
    BY <1>2, <2>1, <2>2, <2>3 DEF ExecuteNext, executeVars, ImportInput, ClearImportedInput,
       ClearImportedOutput
<1> QED
  BY <1>1, <1>2, HandleInvariant, PTL DEF ExecuteSpec

\* The bins of the network are valid for every network and every width of a word:
\* each block of the profile is in one bin, which is large enough for it and where no
\* other block is alive at the same time.
THEOREM BinsValidHolds == ExecuteSpec => []BinsValid
<1>1. ExecuteTypeOK => import \in Sources
  BY AsyncExecuteAssumption DEF ExecuteTypeOK
<1>2. ExecuteTypeOK => BinsValid
  BY <1>1, BinsAreValid DEF BinsValid
<1> QED
  BY <1>2, ExecuteTypeCorrect, PTL

\* The i-th managed handle has the i-th memory of the same tensor exactly when no
\* workload reads a tensor that can be exported, or none is exported: the two
\* rules of LoadedNetwork.cpp differ just there.
THEOREM HandlesMatchBlocksHolds ==
  ExecuteSpec => [](HandlesMatchBlocks <=> (import.outputs => OnlyExported))
<1>1. ASSUME ExecuteTypeOK PROVE HandlesMatchBlocks <=> (import.outputs => OnlyExported)
  <2>1. import \in Sources
    BY <1>1, AsyncExecuteAssumption DEF ExecuteTypeOK
  <2>2. {b.index : b \in Blocks[import]} \subseteq Layers /\ Managed(import) \subseteq Layers
    BY <2>1 DEF Blocks, BlockOf, Managed, Layers, Tensors
  <2>3. HandlesMatchBlocks <=> {b.index : b \in Blocks[import]} = Managed(import)
    BY <2>1, <2>2, SameOrder DEF HandlesMatchBlocks, ManagedHandles, TensorMemoryOf
  <2> QED
    BY <2>1, <2>3, BlocksOfManaged
<1> QED
  BY <1>1, ExecuteTypeCorrect, PTL

-----------------------------------------------------------------------------
(* The data of a run *)

\* What a call under way keeps true of its imported buffers.
Redirected(t) ==
  /\ step[t] \in {"outputs", "workloads"} =>
       \A id \in call[t].preIn : \A p \in InputConnections(inPins[id].binding) : ptr[t][p].kind = "in"
  /\ Executing(t) =>
       call[t].inputs \cup {inPins[id].binding : id \in call[t].preIn} = Inputs
  /\ step[t] = "workloads" => \A id \in call[t].preOut : ~Shared(outPins[id].binding)
\* The invariant of the handles and of what the calls rely on.
RedirectInv == HandleInv /\ \A t \in Callers : Redirected(t)

\* No call is under way yet.
LEMMA RedirectInit == ExecuteInit => RedirectInv
BY HandleInit DEF RedirectInv, Redirected, ExecuteInit, Executing

\* The ids of a call name inputs and outputs of the network.
LEMMA BindingTypes ==
  ASSUME HandleInv, NEW t \in Callers, Executing(t)
  PROVE  /\ \A id \in call[t].preIn : inPins[id].binding \in Inputs
         /\ \A id \in call[t].preOut : outPins[id].binding \in Outputs
<1>1. /\ \A id \in call[t].preIn : id \in DOMAIN inPins
      /\ \A id \in call[t].preOut : id \in DOMAIN outPins
  BY DEF HandleInv, CallsLive, LiveInput, ValidateImportedOutputID
<1>2. /\ \A id \in DOMAIN inPins : inPins[id] \in Pins(Inputs)
      /\ \A id \in DOMAIN outPins : outPins[id] \in Pins(Outputs)
  BY ElementOfSeq, LenProperties DEF HandleInv, ExecuteTypeOK
<1> QED
  BY <1>1, <1>2 DEF Pins

\* A call changes no pin, and nothing of another call or its handle.
LEMMA OthersKeep ==
  ASSUME HandleInv, NEW t \in Callers, Execute(t)
  PROVE  /\ UNCHANGED <<import, pinVars>>
         /\ \A u \in Callers \ {t} : /\ ptr'[u] = ptr[u] /\ step'[u] = step[u] /\ call'[u] = call[u]
                                     /\ mem'[u] = mem[u] /\ data'[u] = data[u] /\ runs'[u] = runs[u]
<1>1. /\ ptr \in [Callers -> [Positions -> Pointers]] /\ call \in [Callers -> Calls]
      /\ step \in [Callers -> {"idle", "inputs", "outputs", "workloads", "copy", "return", "threw"}]
      /\ data \in [Callers -> [Places -> {Wrong} \cup (Tensors \X Nat)]] /\ runs \in [Callers -> Nat]
  BY DEF HandleInv, ExecuteTypeOK
<1> SUFFICES /\ UNCHANGED <<import, pinVars>>
             /\ \A u \in Callers \ {t} : /\ ptr'[u] = ptr[u] /\ step'[u] = step[u] /\ call'[u] = call[u]
                                         /\ data'[u] = data[u] /\ runs'[u] = runs[u]
  BY MemoryTypes
<1>2. CASE Begin(t)
  BY <1>1, <1>2, BeginChanges
<1>3. CASE PrepareInputs(t) \/ PrepareInputsThrows(t)
  BY <1>1, <1>3 DEF PrepareInputs, PrepareInputsThrows
<1>4. CASE PrepareOutputs(t) \/ PrepareOutputsThrows(t)
  BY <1>1, <1>4 DEF PrepareOutputs, PrepareOutputsThrows
<1>5. CASE ExecuteWorkload(t)
  BY <1>1, <1>5 DEF ExecuteWorkload
<1>6. CASE WorkloadThrows(t) \/ ReturnFromExecute(t) \/ Recover(t)
  BY <1>1, <1>6 DEF WorkloadThrows, ReturnFromExecute, Recover, memVars
<1>7. CASE CopyOutputs(t) \/ SyncOutputs(t)
  BY <1>1, <1>7 DEF CopyOutputs, SyncOutputs, memVars
<1> QED
  BY <1>2, <1>3, <1>4, <1>5, <1>6, <1>7 DEF Execute

\* Each step of a call keeps its pointers redirected until it puts them back.
LEMMA RedirectedStep ==
  ASSUME RedirectInv, HandleInv', NEW t \in Callers, Execute(t)
  PROVE  Redirected(t)'
<1>1. /\ ptr \in [Callers -> [Positions -> Pointers]] /\ call \in [Callers -> Calls]
      /\ step \in [Callers -> {"idle", "inputs", "outputs", "workloads", "copy", "return", "threw"}]
      /\ HandleInv /\ UNCHANGED pinVars
  BY OthersKeep DEF RedirectInv, HandleInv, ExecuteTypeOK
<1>2. \A i : InputConnections(i)' = InputConnections(i)
  BY DEF InputConnections
<1>3. CASE Begin(t)
  <2>1. step'[t] = "inputs" /\ ValidateBindingIds(call'[t])
    BY <1>1, <1>3, BeginChanges
  <2> QED
    BY <1>1, <2>1 DEF Redirected, ValidateBindingIds, pinVars
<1>4. CASE PrepareInputs(t)
  <2>1. /\ step[t] = "inputs" /\ step'[t] = "outputs" /\ call' = call
        /\ ptr'[t] = SwapInputs(ptr[t], call[t])
    BY <1>1, <1>4 DEF PrepareInputs
  <2>2. ASSUME NEW i \in call[t].preIn, NEW p \in InputConnections(inPins[i].binding)
        PROVE  ptr'[t][p].kind = "in"
    <3>1. p \in Positions /\ i \in PinsAt(call[t], p)
      BY <2>2, ConnectionFacts DEF PinsAt
    <3>2. \E id \in PinsAt(call[t], p) : SwapInputs(ptr[t], call[t])[p] = [kind |-> "in", id |-> id]
      BY <3>1, SwapInputsFacts
    <3> QED
      BY <2>1, <3>2
  <2> QED
    BY <1>1, <1>2, <2>1, <2>2 DEF RedirectInv, Redirected, Executing, pinVars
<1>5. CASE PrepareOutputs(t)
  <2>1. /\ step[t] = "outputs" /\ step'[t] = "workloads" /\ call' = call
        /\ ptr'[t] = SwapOutputs(ptr[t], call[t].preOut)
        /\ \A id \in call[t].preOut : ~Shared(outPins[id].binding)
    BY <1>1, <1>5 DEF PrepareOutputs
  <2>2. ASSUME NEW i \in call[t].preIn, NEW p \in InputConnections(inPins[i].binding)
        PROVE  ptr'[t][p].kind = "in"
    <3>1. p \in Positions /\ TensorAt(p) = inPins[i].binding
      BY <2>2, ConnectionFacts
    <3>2. TensorAt(p) \in Inputs /\ ptr[t][p].kind = "in"
      <4>1. Executing(t) /\ HandleInv
        BY <1>1, <2>1 DEF Executing
      <4>2. inPins[i].binding \in Inputs
        BY <4>1, BindingTypes
      <4>3. ptr[t][p].kind = "in"
        BY <2>1, <2>2 DEF RedirectInv, Redirected
      <4> QED
        BY <3>1, <4>2, <4>3
    <3>3. ASSUME NEW id \in PinsTo(call[t].preOut, p) PROVE FALSE
      <4>1. id \in call[t].preOut /\ p \in OutputConnections(outPins[id].binding)
        BY <3>3 DEF PinsTo
      <4>2. Executing(t) /\ HandleInv
        BY <1>1, <2>1 DEF Executing
      <4>3. outPins[id].binding \in Outputs
        BY <4>1, <4>2, BindingTypes
      <4>4. TensorAt(p) = OutputOf[outPins[id].binding]
        BY <4>1, ConnectionFacts
      <4> QED
        BY <3>2, <4>3, <4>4, TensorMemoryAssumption
    <3>4. PinsTo(call[t].preOut, p) = {}
      BY <3>3
    <3>5. SwapOutputs(ptr[t], call[t].preOut)[p] = ptr[t][p]
      BY <3>1, <3>4, SwapOutputsFacts
    <3> QED
      BY <2>1, <3>2, <3>5
  <2> QED
    BY <1>1, <1>2, <2>1, <2>2 DEF RedirectInv, Redirected, Executing, pinVars, Shared
<1>6. CASE ExecuteWorkload(t)
  <2>1. /\ step[t] = "workloads" /\ step'[t] \in {"workloads", "copy"} /\ ptr' = ptr
        /\ call' = [call EXCEPT ![t].next = call[t].next + 1]
    BY <1>1, <1>6 DEF ExecuteWorkload
  <2>2. /\ call'[t].preIn = call[t].preIn /\ call'[t].preOut = call[t].preOut
        /\ call'[t].inputs = call[t].inputs
    BY <1>1, <2>1 DEF Calls
  <2> QED
    BY <1>1, <1>2, <2>1, <2>2 DEF RedirectInv, Redirected, Executing, pinVars, Shared
<1>7. CASE WorkloadThrows(t) /\ step'[t] = "copy"
  <2>1. /\ step[t] = "workloads" /\ call' = [call EXCEPT ![t].ok = FALSE]
    BY <1>1, <1>7 DEF WorkloadThrows
  <2>2. call'[t].preIn = call[t].preIn /\ call'[t].inputs = call[t].inputs
    BY <1>1, <2>1 DEF Calls
  <2> QED
    BY <1>1, <1>7, <2>1, <2>2 DEF RedirectInv, Redirected, Executing, pinVars
<1>8. CASE (CopyOutputs(t) \/ SyncOutputs(t)) /\ step'[t] = "return"
  <2>1. step[t] = "copy" /\ call'[t] = call[t]
    BY <1>1, <1>8 DEF CopyOutputs, SyncOutputs
  <2> QED
    BY <1>1, <1>8, <2>1 DEF RedirectInv, Redirected, Executing, pinVars
<1>9. CASE step'[t] \in {"idle", "threw"}
  BY <1>9 DEF Redirected, Executing
<1>10. ASSUME \/ PrepareInputsThrows(t) \/ PrepareOutputsThrows(t) \/ ReturnFromExecute(t)
              \/ Recover(t) \/ WorkloadThrows(t) \/ CopyOutputs(t) \/ SyncOutputs(t)
       PROVE  \/ step'[t] \in {"idle", "threw"}
              \/ WorkloadThrows(t) /\ step'[t] = "copy"
              \/ (CopyOutputs(t) \/ SyncOutputs(t)) /\ step'[t] = "return"
  BY <1>1, <1>10 DEF PrepareInputsThrows, PrepareOutputsThrows, ReturnFromExecute, Recover,
     WorkloadThrows, CopyOutputs, SyncOutputs
<1> QED
  BY <1>3, <1>4, <1>5, <1>6, <1>7, <1>8, <1>9, <1>10 DEF Execute

\* So do the steps of the others, and imports and clears, which wait for the calls.
LEMMA RedirectStep == RedirectInv /\ [ExecuteNext]_executeVars => RedirectInv'
<1> SUFFICES ASSUME RedirectInv, [ExecuteNext]_executeVars PROVE RedirectInv'
  OBVIOUS
<1>1. HandleInv'
  BY HandleStep DEF RedirectInv
<1>2. CASE \/ \E i \in Inputs : ImportInput(i)
           \/ \E o \in Outputs : ImportOutput(o)
           \/ \E id \in DOMAIN inPins : ClearImportedInput(id)
           \/ \E id \in DOMAIN outPins : ClearImportedOutput(id)
  <2>1. HandleInv /\ Quiet /\ UNCHANGED step
    BY <1>2, PinStep DEF RedirectInv, ImportInput, ImportOutput, ClearImportedInput, ClearImportedOutput
  <2>2. \A t \in Callers : step'[t] \in {"idle", "threw"}
    BY <2>1 DEF Quiet
  <2> QED
    BY <1>1, <2>2 DEF RedirectInv, Redirected, Executing
<1>3. CASE UNCHANGED executeVars
  BY <1>1, <1>3 DEF executeVars, pinVars, RedirectInv, Redirected, Executing, InputConnections, Shared
<1>4. CASE \E t \in Callers : Execute(t)
  <2>1. PICK t \in Callers : Execute(t)
    BY <1>4
  <2>2. Redirected(t)'
    BY <1>1, <2>1, RedirectedStep
  <2>3. ASSUME NEW u \in Callers \ {t} PROVE Redirected(u)'
    <3>1. /\ UNCHANGED pinVars /\ ptr'[u] = ptr[u] /\ step'[u] = step[u] /\ call'[u] = call[u]
          /\ Redirected(u)
      BY <2>1, OthersKeep DEF RedirectInv
    <3> QED
      BY <3>1 DEF Redirected, Executing, pinVars, InputConnections, Shared
  <2> QED
    BY <1>1, <2>2, <2>3 DEF RedirectInv
<1> QED
  BY <1>2, <1>3, <1>4 DEF ExecuteNext

\* The data the rest of a run needs is where the pointers of its handle lead.
KeepsData(t) ==
  step[t] \in {"outputs", "workloads"} \/ (step[t] = "copy" /\ call[t].ok) =>
    \A x \in Tensors :
      /\ x \in call[t].inputs \/ (x \in Workloads /\ x < call[t].next)
      /\ StillRead(x, call[t].next)
      => mem[t][x] # NoMemory /\ Holds(t, x)
\* An exported tensor has its memory in the buffer of an output that is connected to it.
Exports(t) ==
  step[t] \in {"workloads", "copy"} /\ import.outputs =>
    \A o \in call[t].outputs : \E q \in SameTensor(t, o) : mem[t][OutputOf[o]] = Buffer(q)
\* What TensorsFilled says of one call.
OutputsFilled(t) ==
  Succeeds(t) =>
    \A o \in call[t].outputs :
      /\ (import.outputs => ~Shared(o)) => Filled(t, o)
      /\ \E q \in SameTensor(t, o) : Filled(t, q)
\* The memory of the network keeps its tensors apart, and outputs are read by Output
\* layers only.
Safe == OnlyExported /\ MemorySafe(import)
\* The inductive invariant of the data.
DataInv ==
  RedirectInv /\ (Safe => \A t \in Callers : KeepsData(t) /\ Exports(t) /\ OutputsFilled(t))

\* A workload's input is still read when it executes, and what is read after one
\* workload was so before it.
LEMMA StillReadFacts ==
  /\ \A s \in ReadSlots : StillRead(Reads[s[1]][s[2]], s[1])
  /\ \A x, v, w : v \in Nat /\ w \in Nat /\ v <= w /\ StillRead(x, w) => StillRead(x, v)
<1>1. \A s \in ReadSlots : s[1] \in Nat
  BY WorkloadFacts DEF ReadSlots
<1>2. \A s \in ReadSlots : s[1] >= s[1]
  BY <1>1
<1>3. \A v, w : v \in Nat /\ w \in Nat /\ v <= w => \A s \in ReadSlots : s[1] >= w => s[1] >= v
  BY <1>1
<1> QED
  BY <1>2, <1>3 DEF StillRead

\* Tensors whose memory Allocate keeps apart stay apart: a buffer is imported for one
\* binding, and that names one tensor.
LEMMA HomesApart ==
  ASSUME import \in Imports, NEW h \in Homes, NEW x \in Tensors, NEW y \in Tensors, x # y,
         Apart(import, x, y), h[x] = h[y]
  PROVE  h[x] = NoMemory
<1>1. MayBeAt(x, h[x]) /\ MayBeAt(y, h[y])
  BY HomeFacts
<1>2. ASSUME NEW z \in Tensors, NEW b PROVE Place[import][z] # Buffer(b)
  <2>1. import \in Sources
    BY AsyncExecuteAssumption
  <2>2. Place[import][z] \in {NoMemory, <<"bin", BinOf(z, import)>>}
    BY <2>1 DEF Place, MemoryOf
  <2> QED
    BY <2>2 DEF NoMemory, Buffer
<1>3. CASE h[x] = Place[import][x] /\ h[y] = Place[import][y]
  BY <1>3 DEF Apart
<1>4. ASSUME NEW b, NEW c, h[x] = Buffer(b), h[y] = Buffer(c),
             (b = x /\ x \in Inputs) \/ (x \in Workloads /\ b \in OutputsOf(x)),
             (c = y /\ y \in Inputs) \/ (y \in Workloads /\ c \in OutputsOf(y))
      PROVE  FALSE
  <2>1. b = c
    <3>1. Buffer(b) = Buffer(c)
      BY <1>4
    <3>2. Buffer(b)[2] = b /\ Buffer(c)[2] = c
      BY DEF Buffer
    <3> QED
      BY <3>1, <3>2, Zenon
  <2> QED
    BY <1>4, <2>1, TensorMemoryAssumption DEF OutputsOf
<1>5. ASSUME NEW z \in Tensors, MayBeAt(z, h[z])
      PROVE  \/ h[z] = Place[import][z] \/ h[z] = NoMemory
             \/ \E b : /\ h[z] = Buffer(b)
                       /\ (b = z /\ z \in Inputs) \/ (z \in Workloads /\ b \in OutputsOf(z))
  BY <1>5 DEF MayBeAt
<1>6. CASE h[x] = NoMemory \/ h[y] = NoMemory
  BY <1>6
<1> QED
  BY <1>1, <1>2, <1>3, <1>4, <1>5, <1>6

\* EnqueueInput writes where the handles of the inputs have their memory, and nowhere else.
LEMMA PrepareInputsWrites ==
  ASSUME HandleInv, NEW t \in Callers, PrepareInputs(t), NEW m \in Places
  PROVE  /\ (\E x \in call[t].inputs : mem'[t][x] = m)
              => data'[t][m] = <<CHOOSE x \in call[t].inputs : mem'[t][x] = m, runs[t]>>
         /\ ~(\E x \in call[t].inputs : mem'[t][x] = m) => data'[t][m] = data[t][m]
<1>1. /\ mem'[t] = Imported(mem[t], InputBuffers(IF import.inputs THEN call[t].inputs ELSE {}))
      /\ data'[t] = [n \in Places |->
           IF \E x \in call[t].inputs : mem'[t][x] = n
           THEN <<CHOOSE x \in call[t].inputs : mem'[t][x] = n, runs[t]>>
           ELSE data[t][n]]
  BY DEF PrepareInputs, HandleInv, ExecuteTypeOK
<1>2. data'[t][m] = IF \E x \in call[t].inputs : mem'[t][x] = m
                    THEN <<CHOOSE x \in call[t].inputs : mem'[t][x] = m, runs[t]>>
                    ELSE data[t][m]
  BY <1>1
<1> QED
  BY <1>2

\* EnqueueInput fills the inputs the call passes, each in memory of its own.
LEMMA PrepareInputsFills ==
  ASSUME RedirectInv, MemorySafe(import), NEW t \in Callers, PrepareInputs(t)
  PROVE  KeepsData(t)'
<1> DEFINE at == mem'[t]
<1>1. /\ step[t] = "inputs" /\ call' = call /\ import' = import /\ runs' = runs
      /\ call[t].next = 1 /\ call[t].inputs \subseteq Inputs
      /\ at = Imported(mem[t], InputBuffers(IF import.inputs THEN call[t].inputs ELSE {}))
  BY DEF PrepareInputs, RedirectInv, HandleInv, ExecuteTypeOK, NextAgrees, Calls
<1>2. /\ at \in Homes /\ mem[t] \in Homes
      /\ import \in Imports /\ import \in Sources
  BY <1>1, MemoryTypes, HomesStay, AsyncExecuteAssumption
  DEF RedirectInv, HandleInv, ExecuteTypeOK, Execute
<1>3. ASSUME NEW x \in call[t].inputs PROVE at[x] # NoMemory /\ at[x] \in Places
  <2>0. x \in Inputs /\ x \in Tensors /\ x \notin Workloads
    BY <1>1, TensorMemoryAssumption DEF Tensors
  <2>1. CASE import.inputs
    BY <1>1, <2>0, <2>1, BufferFacts DEF Imported, InputBuffers
  <2>2. CASE ~import.inputs
    <3>1. MayBeAt(x, at[x])
      BY <1>2, <2>0, HomeFacts
    <3>2. at[x] = Place[import][x]
      BY <2>0, <2>2, <3>1 DEF MayBeAt
    <3>3. Place[import][x] = <<"bin", BinOf(x, import)>>
      BY <1>2, <2>0, <2>2 DEF Place, MemoryOf, Managed
    <3>4. at[x] # NoMemory
      BY <3>2, <3>3 DEF NoMemory
    <3> QED
      BY <1>2, <2>0, <3>4, HomeFacts
  <2> QED
    BY <2>1, <2>2
<1>4. ASSUME NEW x \in call[t].inputs
      PROVE  data'[t][at[x]] = <<x, runs[t]>>
  <2>1. PICK y : y = CHOOSE z \in call[t].inputs : at[z] = at[x]
    OBVIOUS
  <2>2. y \in call[t].inputs /\ at[y] = at[x]
    BY <2>1
  <2>3. y = x
    <3>1. x \in Inputs /\ y \in Inputs /\ x \in Tensors /\ y \in Tensors
      BY <1>1, <2>2 DEF Tensors
    <3>2. x # y => Apart(import, x, y)
      BY <3>1 DEF MemorySafe
    <3> HIDE DEF at
    <3> QED
      BY <1>2, <1>3, <2>2, <3>1, <3>2, HomesApart
  <2>4. \E z \in call[t].inputs : at[z] = at[x]
    BY <1>4
  <2>5. data'[t][at[x]] = <<CHOOSE z \in call[t].inputs : at[z] = at[x], runs[t]>>
    BY <1>3, <2>4, PrepareInputsWrites DEF RedirectInv
  <2> QED
    BY <2>1, <2>3, <2>5
<1>5. \A x \in Workloads : ~(x < 1)
  BY WorkloadFacts
<1> QED
  BY <1>1, <1>3, <1>4, <1>5 DEF KeepsData, Holds

\* A workload finds data of this run at each of its input slots, in memory it does not
\* write to itself: in its handle, or in the buffer imported for the input.
LEMMA WorkloadReadsFresh ==
  ASSUME RedirectInv, Safe, NEW t \in Callers, step[t] = "workloads", KeepsData(t),
         NEW p \in ReadPositions(call[t].next)
  PROVE  /\ Fresh(t, p)
         /\ ptr[t][p] = Own => mem[t][TensorAt(p)] # mem[t][call[t].next]
<1>1. call[t].next \in Workloads
  BY DEF RedirectInv, HandleInv, NextAgrees
<1>2. PICK s \in ReadSlots : p = <<"read", s[1], s[2]>> /\ s[1] = call[t].next
  BY DEF ReadPositions, Positions
<1>3. /\ p \in Positions /\ p[1] # "write" /\ TensorAt(p) = Reads[s[1]][s[2]]
      /\ s[1] \in Workloads /\ s[2] \in DOMAIN Reads[s[1]]
  BY <1>2 DEF ReadPositions, TensorAt, ReadSlots
<1>4. TensorAt(p) \in Tensors
  BY <1>3, TensorMemoryAssumption, ElementOfSeq, LenProperties
<1>5. TensorAt(p) \in Workloads => TensorAt(p) < call[t].next
  BY <1>2, <1>3, TensorMemoryAssumption
<1>6. StillRead(TensorAt(p), call[t].next)
  BY <1>2, <1>3, StillReadFacts
<1>7. CASE ptr[t][p] = Own
  <2>1. TensorAt(p) \in Inputs => TensorAt(p) \in call[t].inputs
    <3> SUFFICES ASSUME TensorAt(p) \in Inputs, TensorAt(p) \notin call[t].inputs PROVE FALSE
      OBVIOUS
    <3>1. PICK id \in call[t].preIn : inPins[id].binding = TensorAt(p)
      BY DEF RedirectInv, Redirected, Executing
    <3>2. p \in InputConnections(inPins[id].binding)
      BY <1>3, <3>1 DEF InputConnections
    <3> QED
      BY <1>7, <3>2 DEF RedirectInv, Redirected, Own
  <2>2. mem[t][TensorAt(p)] # NoMemory /\ Holds(t, TensorAt(p))
    BY <1>4, <1>5, <1>6, <2>1 DEF KeepsData, Tensors
  <2>3. mem[t][TensorAt(p)] # mem[t][call[t].next]
    <3>1. TensorAt(p) # call[t].next
      <4>1. call[t].next \in Nat
        BY <1>1, WorkloadFacts
      <4>2. \A n \in Nat : ~(n < n)
        OBVIOUS
      <4>3. ~(call[t].next < call[t].next)
        BY <4>1, <4>2
      <4> QED
        BY <1>1, <1>5, <4>3
    <3>2. Defined(TensorAt(p), call[t].next)
      BY <1>4, <1>5 DEF Defined, Tensors
    <3>3. Apart(import, TensorAt(p), call[t].next)
      BY <1>1, <1>4, <1>6, <3>1, <3>2 DEF Safe, MemorySafe
    <3>4. import \in Imports /\ mem[t] \in Homes /\ call[t].next \in Tensors
      BY <1>1 DEF RedirectInv, HandleInv, ExecuteTypeOK, Tensors
    <3> QED
      BY <1>4, <2>2, <3>1, <3>3, <3>4, HomesApart
  <2> QED
    BY <1>7, <2>2, <2>3 DEF Fresh, Own
<1>8. ASSUME NEW id \in call[t].preIn, p \in InputConnections(inPins[id].binding),
             ptr[t][p] = [kind |-> "in", id |-> id]
      PROVE  Fresh(t, p) /\ ptr[t][p] # Own
  <2>1. TensorAt(p) = inPins[id].binding
    BY <1>8, ConnectionFacts
  <2>2. ptr[t][p].kind = "in" /\ ptr[t][p].id = id
    BY <1>8
  <2> QED
    BY <2>1, <2>2 DEF Fresh, Own
<1>9. ASSUME NEW id \in call[t].preOut, p \in OutputConnections(outPins[id].binding)
      PROVE  FALSE
  <2>1. TensorAt(p) = OutputOf[outPins[id].binding]
    BY <1>9, ConnectionFacts
  <2>2. outPins[id].binding \in Outputs /\ ~Shared(outPins[id].binding)
    BY BindingTypes DEF RedirectInv, Redirected, Executing
  <2> QED
    BY <1>3, <2>1, <2>2 DEF Safe, OnlyExported
<1>10. ptr[t][p] = Own \/ PointsToPin(t, p)
  BY <1>3 DEF RedirectInv, HandleInv, PointersAgree, PointersOf
<1> QED
  BY <1>7, <1>8, <1>9, <1>10 DEF PointsToPin

\* It leaves data of this run in its tensor, and what is still read where it is.
LEMMA ExecuteWorkloadKeeps ==
  ASSUME RedirectInv, Safe, NEW t \in Callers, ExecuteWorkload(t), KeepsData(t)
  PROVE  KeepsData(t)'
<1> DEFINE w == call[t].next
<1>1. step[t] = "workloads" /\ w \in Workloads
  BY DEF ExecuteWorkload, RedirectInv, HandleInv, NextAgrees
<1>2. ptr[t][<<"write", w, 1>>].kind = "own"
  BY <1>1, WritesToOwn DEF RedirectInv, Own
<1>3. \A p \in ReadPositions(w) : /\ Fresh(t, p)
                                  /\ ptr[t][p] = Own => mem[t][TensorAt(p)] # mem[t][w]
  BY <1>1, WorkloadReadsFresh
<1>4. data' = [data EXCEPT ![t][mem[t][w]] = <<w, runs[t]>>]
  BY <1>2, <1>3 DEF ExecuteWorkload
<1>5. /\ import' = import /\ runs' = runs /\ mem' = mem /\ call'[t].inputs = call[t].inputs
      /\ call'[t].next = w + 1
  BY DEF ExecuteWorkload, RedirectInv, HandleInv, ExecuteTypeOK, Calls
<1>6. /\ data[t] \in [Places -> {Wrong} \cup (Tensors \X Nat)]
      /\ import \in Imports /\ mem[t] \in Homes
  BY DEF RedirectInv, HandleInv, ExecuteTypeOK
<1>7. /\ w \in Tensors
      /\ mem[t][w] # NoMemory /\ mem[t][w] \in Places
  <2>1. w \in Tensors
    BY <1>1 DEF Tensors
  <2>2. mem[t][w] # NoMemory
    BY WriteHasMemory DEF RedirectInv
  <2> QED
    BY <1>6, <2>1, <2>2, HomeFacts
<1>8. data'[t] = [data[t] EXCEPT ![mem[t][w]] = <<w, runs[t]>>]
  BY <1>4 DEF RedirectInv, HandleInv, ExecuteTypeOK
<1>9. ASSUME NEW x \in Tensors, x \in call[t].inputs \/ (x \in Workloads /\ x < w + 1),
             StillRead(x, w + 1)
      PROVE  mem[t][x] # NoMemory /\ data'[t][mem[t][x]] = <<x, runs[t]>>
  <2>1. CASE x = w
    BY <1>6, <1>7, <1>8, <2>1
  <2>2. CASE x # w
    <3>1. x \in Workloads => x < w
      BY <1>1, <1>9, <2>2, WorkloadFacts, TensorMemoryAssumption DEF RedirectInv, HandleInv, ExecuteTypeOK, Calls
    <3>2. StillRead(x, w)
      <4> HIDE DEF w
      <4>1. w \in Nat
        BY <1>1, WorkloadFacts
      <4>2. w + 1 \in Nat /\ w <= w + 1
        BY <4>1
      <4> QED
        BY <1>9, <4>1, <4>2, StillReadFacts
    <3>3. mem[t][x] # NoMemory /\ Holds(t, x)
      BY <1>1, <1>9, <3>1, <3>2 DEF KeepsData
    <3>4. Apart(import, x, w)
      BY <1>1, <2>2, <3>1, <3>2 DEF Safe, MemorySafe, Defined, Tensors
    <3>5. mem[t][x] # mem[t][w] /\ mem[t][x] \in Places
      <4> HIDE DEF w
      <4> QED
        BY <1>6, <1>7, <2>2, <3>3, <3>4, HomesApart, HomeFacts
    <3> QED
      BY <1>6, <1>7, <1>8, <3>3, <3>5 DEF Holds
  <2> QED
    BY <2>1, <2>2
<1> QED
  BY <1>5, <1>9 DEF KeepsData, Holds

\* ImportOutputTensor moves the tensor of each output to a buffer passed for it, and it
\* moves no input.
LEMMA PrepareOutputsExports ==
  ASSUME RedirectInv, NEW t \in Callers, PrepareOutputs(t), KeepsData(t)
  PROVE  KeepsData(t)' /\ Exports(t)'
<1>1. /\ step[t] = "outputs" /\ call' = call /\ data' = data /\ runs' = runs /\ import' = import
      /\ call[t].next = 1 /\ call[t].outputs \subseteq Outputs /\ call[t].inputs \subseteq Inputs
  BY DEF PrepareOutputs, RedirectInv, HandleInv, ExecuteTypeOK, NextAgrees, Calls
<1>2. PICK kept \in OutputBuffers(IF import.outputs THEN call[t].outputs ELSE {}) :
        mem' = [mem EXCEPT ![t] = Imported(mem[t], kept)]
  BY DEF PrepareOutputs, ImportOutputTensors
<1>3. mem'[t] = Imported(mem[t], kept)
  BY <1>2 DEF RedirectInv, HandleInv, ExecuteTypeOK
<1>4. /\ DOMAIN kept \subseteq Workloads
      /\ import.outputs => /\ DOMAIN kept = {OutputOf[o] : o \in call[t].outputs}
                           /\ \A x \in DOMAIN kept : kept[x] \in call[t].outputs /\ OutputOf[kept[x]] = x
  <2>1. PICK ids \in SUBSET Outputs : ids = IF import.outputs THEN call[t].outputs ELSE {}
    BY <1>1
  <2>2. kept \in OutputBuffers(ids)
    BY <2>1
  <2>3. /\ DOMAIN kept = {OutputOf[o] : o \in ids}
        /\ \A x \in DOMAIN kept : kept[x] \in ids /\ OutputOf[kept[x]] = x
    BY <2>2, OutputBufferFacts
  <2>4. DOMAIN kept \subseteq Workloads
    BY <2>1, <2>3, TensorMemoryAssumption
  <2> QED
    BY <2>1, <2>3, <2>4
<1>5. ASSUME NEW x \in Inputs PROVE mem'[t][x] = mem[t][x]
  BY <1>3, <1>4, TensorMemoryAssumption DEF Imported, Tensors
<1>6. KeepsData(t)'
  <2>1. \A x \in Workloads : ~(x < 1)
    BY WorkloadFacts
  <2>2. ASSUME NEW x \in call[t].inputs, StillRead(x, 1)
        PROVE  mem'[t][x] # NoMemory /\ data'[t][mem'[t][x]] = <<x, runs[t]>>
    <3>1. x \in Tensors /\ x \in Inputs
      BY <1>1 DEF Tensors
    <3>2. mem[t][x] # NoMemory /\ Holds(t, x)
      BY <1>1, <2>2, <3>1 DEF KeepsData
    <3> QED
      BY <1>1, <1>5, <3>1, <3>2 DEF Holds
  <2> QED
    BY <1>1, <2>1, <2>2 DEF KeepsData, Holds
<1>7. Exports(t)'
  <2>1. ASSUME NEW o \in call[t].outputs, import.outputs
        PROVE  \E q \in SameTensor(t, o) : mem'[t][OutputOf[o]] = Buffer(q)
    <3>1. OutputOf[o] \in DOMAIN kept /\ OutputOf[o] \in Tensors
      BY <1>1, <1>4, <2>1, TensorMemoryAssumption DEF Tensors
    <3>2. kept[OutputOf[o]] \in SameTensor(t, o)
      BY <1>4, <2>1, <3>1 DEF SameTensor
    <3> QED
      BY <1>3, <3>1, <3>2 DEF Imported
  <2> QED
    BY <1>1, <2>1 DEF Exports, SameTensor
<1> QED
  BY <1>6, <1>7

\* What the call has passed is filled by the copy, or has been in place before it.
LEMMA OutputsAreFilled ==
  ASSUME RedirectInv, NEW t \in Callers, CopyOutputs(t) \/ SyncOutputs(t), KeepsData(t), Exports(t)
  PROVE  OutputsFilled(t)'
<1> SUFFICES ASSUME Succeeds(t)', NEW o \in call'[t].outputs
             PROVE  /\ (import'.outputs => ~Shared(o)) => Filled(t, o)'
                    /\ \E q \in SameTensor(t, o)' : Filled(t, q)'
  BY DEF OutputsFilled, Shared
<1>1. /\ step[t] = "copy" /\ call' = call /\ import' = import /\ runs' = runs /\ call[t].ok
      /\ o \in call[t].outputs /\ o \in Outputs
  <2>1. step[t] = "copy" /\ import' = import /\ runs' = runs
    BY DEF CopyOutputs, SyncOutputs
  <2>2. step'[t] = "return"
    BY DEF Succeeds
  <2>3. call' = call
    BY <2>2 DEF CopyOutputs, SyncOutputs, RedirectInv, HandleInv, ExecuteTypeOK
  <2> QED
    BY <2>1, <2>3 DEF Succeeds, RedirectInv, HandleInv, ExecuteTypeOK, Calls
<1>2. /\ OutputOf[o] \in Workloads /\ OutputOf[o] < call[t].next
      /\ StillRead(OutputOf[o], call[t].next)
  BY <1>1, TensorMemoryAssumption
  DEF RedirectInv, HandleInv, NextAgrees, Executed, StillRead
<1>3. data[t][mem[t][OutputOf[o]]] = <<OutputOf[o], runs[t]>>
  BY <1>1, <1>2 DEF KeepsData, Holds, Tensors
<1>4. Buffer(o) \in Places
  BY <1>1, BufferFacts
<1>5. CASE CopyOutputs(t)
  <2>1. data'[t] = [m \in Places |-> IF m \in {Buffer(q) : q \in call[t].outputs}
                                     THEN data[t][mem[t][OutputOf[m[2]]]] ELSE data[t][m]]
    BY <1>5 DEF CopyOutputs, RedirectInv, HandleInv, ExecuteTypeOK
  <2>2. Buffer(o)[2] = o /\ Buffer(o) \in {Buffer(q) : q \in call[t].outputs}
    BY <1>1 DEF Buffer
  <2>3. data'[t][Buffer(o)] = data[t][mem[t][OutputOf[o]]]
    BY <1>4, <2>1, <2>2
  <2>4. Filled(t, o)' /\ o \in SameTensor(t, o)'
    BY <1>1, <1>3, <2>3 DEF Filled, Buffer, SameTensor
  <2> QED
    BY <2>4
<1>6. CASE SyncOutputs(t)
  <2>1. import.outputs /\ data' = data
    BY <1>6 DEF SyncOutputs, memVars
  <2>2. PICK q \in SameTensor(t, o) : mem[t][OutputOf[o]] = Buffer(q)
    BY <1>1, <2>1 DEF Exports
  <2>3. q \in SameTensor(t, o)' /\ q \in Outputs /\ OutputOf[q] = OutputOf[o]
    BY <1>1, <2>2 DEF SameTensor, RedirectInv, HandleInv, ExecuteTypeOK, Calls
  <2>4. Filled(t, q)'
    BY <1>1, <1>3, <2>1, <2>2, <2>3 DEF Filled, Buffer
  <2>5. ~Shared(o) => q = o
    BY <1>1, <2>3 DEF Shared
  <2> QED
    BY <1>1, <2>1, <2>3, <2>4, <2>5
<1> QED
  BY <1>5, <1>6

\* What is known of the data of one call.
DataOf(t) == KeepsData(t) /\ Exports(t) /\ OutputsFilled(t)

\* Every step of every call, import and clear keeps the data.
LEMMA DataStep == DataInv /\ [ExecuteNext]_executeVars => DataInv'
<1> SUFFICES ASSUME DataInv, [ExecuteNext]_executeVars PROVE DataInv'
  OBVIOUS
<1>1. RedirectInv /\ HandleInv /\ RedirectInv'
  BY RedirectStep DEF DataInv, RedirectInv
<1>2. import' = import
  <2>1. CASE \E t \in Callers : Execute(t)
    BY <1>1, <2>1, OthersKeep
  <2> QED
    BY <2>1 DEF ExecuteNext, executeVars, ImportInput, ImportOutput, ClearImportedInput,
       ClearImportedOutput
<1> SUFFICES ASSUME Safe, NEW u \in Callers PROVE DataOf(u)'
  BY <1>1, <1>2 DEF DataInv, Safe, DataOf
<1>3. KeepsData(u) /\ Exports(u) /\ OutputsFilled(u)
  BY DEF DataInv
<1>4. ASSUME step'[u] = step[u], call'[u] = call[u], mem'[u] = mem[u], data'[u] = data[u], runs'[u] = runs[u]
      PROVE  DataOf(u)'
  <2>1. KeepsData(u)'
    BY <1>3, <1>4 DEF KeepsData, Holds
  <2>2. Exports(u)'
    BY <1>2, <1>3, <1>4 DEF Exports, SameTensor
  <2>3. ASSUME NEW o PROVE Filled(u, o)' <=> Filled(u, o)
    BY <1>4 DEF Filled
  <2>4. ASSUME NEW o PROVE SameTensor(u, o)' = SameTensor(u, o)
    BY <1>4 DEF SameTensor
  <2>5. OutputsFilled(u)'
    BY <1>2, <1>3, <1>4, <2>3, <2>4 DEF OutputsFilled, Succeeds, Shared
  <2> QED
    BY <2>1, <2>2, <2>5 DEF DataOf
<1>5. ASSUME NEW t \in Callers, Execute(t), t # u PROVE DataOf(u)'
  BY <1>1, <1>4, <1>5, OthersKeep
<1>6. ASSUME Execute(u) PROVE DataOf(u)'
  <2>1. /\ call \in [Callers -> Calls]
        /\ step \in [Callers -> {"idle", "inputs", "outputs", "workloads", "copy", "return", "threw"}]
    BY <1>1 DEF HandleInv, ExecuteTypeOK
  <2>2. CASE PrepareInputs(u)
    <3>1. step'[u] = "outputs"
      BY <2>1, <2>2 DEF PrepareInputs
    <3> QED
      BY <1>1, <2>2, <3>1, PrepareInputsFills DEF Safe, DataOf, Exports, OutputsFilled, Succeeds
  <2>3. CASE PrepareOutputs(u)
    <3>1. step'[u] = "workloads"
      BY <2>1, <2>3 DEF PrepareOutputs
    <3> QED
      BY <1>1, <1>3, <2>3, <3>1, PrepareOutputsExports DEF DataOf, OutputsFilled, Succeeds
  <2>4. CASE ExecuteWorkload(u)
    <3>1. /\ step[u] = "workloads" /\ step'[u] \in {"workloads", "copy"} /\ mem' = mem
          /\ call'[u].outputs = call[u].outputs
      BY <2>1, <2>4 DEF ExecuteWorkload, Calls
    <3> QED
      BY <1>1, <1>2, <1>3, <2>4, <3>1, ExecuteWorkloadKeeps
      DEF DataOf, Exports, OutputsFilled, Succeeds, SameTensor
  <2>5. CASE WorkloadThrows(u)
    <3>1. /\ step[u] = "workloads" /\ mem' = mem
          /\ \/ step'[u] = "idle"
             \/ step'[u] = "copy" /\ call' = [call EXCEPT ![u].ok = FALSE]
      BY <2>1, <2>5 DEF WorkloadThrows, memVars
    <3>2. step'[u] = "copy" => ~call'[u].ok /\ call'[u].outputs = call[u].outputs
      BY <2>1, <3>1 DEF Calls
    <3> QED
      BY <1>2, <1>3, <3>1, <3>2 DEF DataOf, KeepsData, Exports, OutputsFilled, Succeeds, Shared, SameTensor
  <2>6. CASE CopyOutputs(u) \/ SyncOutputs(u)
    <3>1. step'[u] \in {"idle", "return"}
      BY <2>1, <2>6 DEF CopyOutputs, SyncOutputs
    <3> QED
      BY <1>1, <1>3, <2>6, <3>1, OutputsAreFilled DEF DataOf, KeepsData, Exports
  <2>7. CASE Begin(u) \/ PrepareInputsThrows(u) \/ PrepareOutputsThrows(u) \/ ReturnFromExecute(u)
             \/ Recover(u)
    <3>1. step'[u] \in {"idle", "inputs", "threw"}
      BY <2>1, <2>7, BeginChanges DEF PrepareInputsThrows, PrepareOutputsThrows, ReturnFromExecute, Recover
    <3> QED
      BY <3>1 DEF DataOf, KeepsData, Exports, OutputsFilled, Succeeds
  <2> QED
    BY <1>6, <2>2, <2>3, <2>4, <2>5, <2>6, <2>7 DEF Execute
<1>7. ASSUME UNCHANGED <<step, call, mem, data, runs>> PROVE DataOf(u)'
  BY <1>4, <1>7
<1> QED
  BY <1>5, <1>6, <1>7 DEF ExecuteNext, executeVars, memVars, ImportInput, ImportOutput,
     ClearImportedInput, ClearImportedOutput

\* Execute fills each output tensor the caller passes with the data of this run, whatever
\* mixture of tensors and imported ids this and earlier calls have used, in every network
\* all of whose inputs are read and none of whose exportable outputs is read by a workload:
\* all of them when outputs are copied, and one of those that share a tensor when they are
\* exported.
THEOREM TensorsFilledHolds ==
  ExecuteSpec => [](InputsRead /\ OnlyExported => TensorsFilled)
<1>1. ExecuteInit => DataInv
  BY RedirectInit DEF DataInv, ExecuteInit, KeepsData, Exports, OutputsFilled, Succeeds
<1>2. DataInv => (Safe => TensorsFilled)
  BY DEF DataInv, OutputsFilled, TensorsFilled
<1>3. DataInv => (InputsRead /\ OnlyExported => Safe)
  BY ProfileSafe, AsyncExecuteAssumption DEF DataInv, RedirectInv, HandleInv, ExecuteTypeOK, Safe
<1> QED
  BY <1>1, <1>2, <1>3, DataStep, PTL DEF ExecuteSpec

-----------------------------------------------------------------------------
(* Outputs that share an exported tensor *)

\* What a workload of this run has written, when outputs are exported, is in the memory
\* of its own tensor: nothing is copied.
Stamped(t) ==
  /\ \A m \in Places : data[t][m][2] <= runs[t]
  /\ \A m \in Places, x \in Workloads :
       data[t][m] = <<x, runs[t]>> => step[t] \notin {"inputs", "outputs"} /\ mem[t][x] = m
StampInv == HandleInv /\ (import.outputs => \A t \in Callers : Stamped(t))

\* Execute copies nothing when outputs are exported.
LEMMA StampStep == StampInv /\ [ExecuteNext]_executeVars => StampInv'
<1> SUFFICES ASSUME StampInv, [ExecuteNext]_executeVars PROVE StampInv'
  OBVIOUS
<1>1. HandleInv /\ HandleInv'
  BY HandleStep DEF StampInv
<1>2. import' = import
  <2>1. CASE \E t \in Callers : Execute(t)
    BY <1>1, <2>1, OthersKeep
  <2> QED
    BY <2>1 DEF ExecuteNext, executeVars, ImportInput, ImportOutput, ClearImportedInput,
       ClearImportedOutput
<1> SUFFICES ASSUME import.outputs, NEW u \in Callers PROVE Stamped(u)'
  BY <1>1, <1>2 DEF StampInv
<1>3. /\ \A m \in Places : data[u][m] = Wrong \/ data[u][m] \in Tensors \X Nat
      /\ data \in [Callers -> [Places -> {Wrong} \cup (Tensors \X Nat)]]
      /\ runs \in [Callers -> Nat] /\ mem \in [Callers -> Homes] /\ call \in [Callers -> Calls]
      /\ step \in [Callers -> {"idle", "inputs", "outputs", "workloads", "copy", "return", "threw"}]
      /\ runs[u] \in Nat
  BY <1>1 DEF HandleInv, ExecuteTypeOK
<1>4. \A x \in Workloads : x # 0 /\ x \notin Inputs
  BY WorkloadFacts, TensorMemoryAssumption
<1>5. Stamped(u)
  BY DEF StampInv
<1>6. ASSUME data'[u] = data[u], runs'[u] = runs[u], mem'[u] = mem[u],
             step[u] \notin {"inputs", "outputs"} => step'[u] \notin {"inputs", "outputs"}
      PROVE  Stamped(u)'
  BY <1>2, <1>5, <1>6 DEF Stamped
<1>7. ASSUME NEW t \in Callers, Execute(t), t # u PROVE Stamped(u)'
  BY <1>1, <1>6, <1>7, OthersKeep
<1>8. ASSUME Execute(u) PROVE Stamped(u)'
  <2>1. CASE Begin(u)
    <3>1. /\ runs'[u] = runs[u] + 1 /\ data' = data
      BY <1>3, <2>1, BeginChanges DEF Begin, memVars
    <3>2. \A m \in Places : data[u][m][2] <= runs[u] /\ data[u][m][2] \in Nat
      BY <1>3, <1>5 DEF Stamped, Wrong
    <3>3. \A m \in Places, x \in Workloads : data[u][m] # <<x, runs[u] + 1>>
      BY <1>3, <3>2
    <3>4. \A m \in Places : data[u][m][2] <= runs[u] + 1
      BY <1>3, <3>2
    <3> QED
      BY <3>1, <3>3, <3>4 DEF Stamped
  <2>2. CASE PrepareInputs(u)
    <3>1. /\ step[u] = "inputs" /\ runs' = runs /\ call[u].inputs \subseteq Inputs
      BY <1>1, <1>3, <2>2 DEF PrepareInputs, Calls
    <3>2. \A m \in Places : \/ data'[u][m] = data[u][m]
                             \/ \E i \in Inputs : data'[u][m] = <<i, runs[u]>>
      <4> TAKE m \in Places
      <4>1. CASE \E x \in call[u].inputs : mem'[u][x] = m
        <5>1. PICK i : i = CHOOSE x \in call[u].inputs : mem'[u][x] = m
          OBVIOUS
        <5>2. i \in Inputs
          BY <3>1, <4>1, <5>1
        <5>3. data'[u][m] = <<i, runs[u]>>
          BY <1>1, <2>2, <4>1, <5>1, PrepareInputsWrites
        <5> QED
          BY <5>2, <5>3
      <4>2. CASE ~\E x \in call[u].inputs : mem'[u][x] = m
        BY <1>1, <2>2, <4>2, PrepareInputsWrites
      <4> QED
        BY <4>1, <4>2
    <3>3. \A m \in Places, x \in Workloads : data'[u][m] # <<x, runs[u]>>
      BY <1>4, <1>5, <3>1, <3>2 DEF Stamped
    <3>4. \A m \in Places : data'[u][m][2] <= runs[u]
      BY <1>3, <1>5, <3>2 DEF Stamped
    <3> QED
      BY <1>2, <3>1, <3>3, <3>4 DEF Stamped
  <2>3. CASE PrepareInputsThrows(u) \/ PrepareOutputs(u) \/ PrepareOutputsThrows(u)
    <3>1. step[u] \in {"inputs", "outputs"} /\ runs' = runs /\ data' = data
      BY <2>3 DEF PrepareInputsThrows, PrepareOutputs, PrepareOutputsThrows
    <3> QED
      BY <1>2, <1>5, <3>1 DEF Stamped
  <2>4. CASE ExecuteWorkload(u)
    <3>1. /\ step[u] = "workloads" /\ step'[u] \in {"workloads", "copy"}
          /\ runs' = runs /\ mem' = mem
      BY <1>3, <2>4 DEF ExecuteWorkload
    <3>2. /\ call[u].next \in Nat
          /\ \A m \in Places : \/ data'[u][m] = data[u][m]
                               \/ data'[u][m] = Wrong
                               \/ m = mem[u][call[u].next] /\ data'[u][m] = <<call[u].next, runs[u]>>
      BY <1>3, <2>4 DEF ExecuteWorkload, Calls
    <3>3. \A m \in Places : data'[u][m][2] <= runs[u]
      BY <1>3, <1>5, <3>2 DEF Stamped, Wrong
    <3>4. \A m \in Places, x \in Workloads :
            data'[u][m] = <<x, runs[u]>> => mem[u][x] = m
      BY <1>4, <1>5, <3>2 DEF Stamped, Wrong
    <3> QED
      BY <1>2, <3>1, <3>3, <3>4 DEF Stamped
  <2>5. CASE WorkloadThrows(u) \/ SyncOutputs(u) \/ ReturnFromExecute(u)
    <3>1. step'[u] \in {"copy", "return", "idle"} /\ runs' = runs /\ data' = data /\ mem' = mem
      BY <1>3, <2>5 DEF WorkloadThrows, SyncOutputs, ReturnFromExecute, memVars
    <3> QED
      BY <1>6, <3>1
  <2>6. CASE CopyOutputs(u)
    BY <2>6 DEF CopyOutputs
  <2>7. CASE Recover(u)
    <3>1. runs' = runs /\ data'[u] = Contents
      BY <1>3, <2>7 DEF Recover
    <3> QED
      BY <1>3, <1>4, <3>1 DEF Stamped, Contents, Wrong
  <2> QED
    BY <1>8, <2>1, <2>2, <2>3, <2>4, <2>5, <2>6, <2>7 DEF Execute
<1>9. ASSUME UNCHANGED <<step, call, mem, data, runs>> PROVE Stamped(u)'
  BY <1>6, <1>9
<1> QED
  BY <1>7, <1>8, <1>9 DEF ExecuteNext, executeVars, memVars, ImportInput, ImportOutput,
     ClearImportedInput, ClearImportedOutput

\* Execute imports the buffers of all the outputs passed, one after the other, onto the
\* handles of their tensors: of two that share one, at most one is filled, whatever the
\* network, and whatever earlier runs have left in the buffers.
THEOREM OneOfSharedHolds == ExecuteSpec => []OneOfShared
<1>1. ExecuteInit => StampInv
  BY HandleInit, WorkloadFacts DEF StampInv, Stamped, ExecuteInit, Contents, Wrong
<1>2. StampInv => OneOfShared
  <2> SUFFICES ASSUME StampInv, NEW t \in Callers, import.outputs,
                      NEW o \in call[t].outputs, NEW q \in SameTensor(t, o) \ {o},
                      Filled(t, o), Filled(t, q)
               PROVE  FALSE
    BY DEF OneOfShared
  <2>1. o \in Outputs /\ q \in Outputs /\ OutputOf[q] = OutputOf[o] /\ OutputOf[o] \in Workloads
    BY TensorMemoryAssumption DEF StampInv, HandleInv, ExecuteTypeOK, Calls, SameTensor
  <2>2. Buffer(o) \in Places /\ Buffer(q) \in Places
    BY <2>1, BufferFacts
  <2>3. mem[t][OutputOf[o]] = Buffer(o) /\ mem[t][OutputOf[o]] = Buffer(q)
    BY <2>1, <2>2 DEF StampInv, Stamped, Filled
  <2> QED
    BY <2>3 DEF Buffer
<1> QED
  BY <1>1, <1>2, StampStep, PTL DEF ExecuteSpec
=============================================================================
