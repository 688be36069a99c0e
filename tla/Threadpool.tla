------------------------------ MODULE Threadpool ------------------------------
(***************************************************************************)
(* The thread pool of asynchronous inferences (src/armnn/Threadpool.cpp)   *)
(* and the manager that gives callbacks to its clients and returns them in *)
(* the order they are notified (AsyncExecutionCallback.cpp).               *)
(*                                                                         *)
(* m_ThreadPoolEvent is modelled by who is blocked on it: a thread tests   *)
(* the predicate and blocks in one step under m_ThreadPoolMutex,           *)
(* notify_one wakes one blocked thread if there is one, a blocked thread   *)
(* may wake by itself, and a woken thread tests the predicate again.       *)
(***************************************************************************)
EXTENDS Integers, Sequences, FiniteSets

CONSTANTS
  Threads,     \* m_Threads
  Requests,    \* callbacks in use at a time (a returned one is used again)
  Malformed,   \* requests whose tensors do not match the network
  ExpireRate,  \* EXPIRE_RATE
  NoRequest    \* a null currentExecInProgress

ASSUME ThreadpoolAssumption ==
  /\ IsFiniteSet(Threads)
  /\ Threads # {}
  /\ Malformed \subseteq Requests
  /\ ExpireRate \in Nat \ {0}
  /\ NoRequest \notin Requests

VARIABLES
  queue,        \* m_HighPriorityQueue, m_MediumPriorityQueue, m_LowPriorityQueue
  terminate,    \* m_TerminatePool
  loaded,       \* the network is in m_WorkingMemHandleMap
  pc,           \* per thread: where it is in ProcessExecPriorities
  highCount,    \* per thread: highPriorityCount
  mediumCount,  \* per thread: mediumPriorityCount
  executing,    \* per thread: currentExecInProgress
  callbacks,    \* AsyncCallbackManager::m_Callbacks
  notification, \* AsyncCallbackManager::m_NotificationQueue
  main,         \* where the destructor of the pool is
  aborted,      \* an exception left a thread: std::terminate
  bypass        \* history: per thread, what it took since the low priority
                \* queue was empty or it took from it

queueVars == <<queue, terminate, loaded>>
countVars == <<highCount, mediumCount, bypass>>
managerVars == <<callbacks, notification>>
vars == <<queueVars, pc, countVars, executing, managerVars, main, aborted>>

Priorities == {"high", "medium", "low"}

Empty == \A p \in Priorities : queue[p] = <<>>

Queued(r) == \E p \in Priorities : \E i \in DOMAIN queue[p] : queue[p][i] = r

InExecution(r) == \E t \in Threads : executing[t] = r

Notified(r) == \E i \in DOMAIN notification : notification[i] = r

Init ==
  /\ queue = [p \in Priorities |-> <<>>]
  /\ terminate = FALSE
  /\ loaded = TRUE
  /\ pc = [t \in Threads |-> "test"]
  /\ highCount = [t \in Threads |-> 0]
  /\ mediumCount = [t \in Threads |-> 0]
  /\ executing = [t \in Threads |-> NoRequest]
  /\ callbacks = {}
  /\ notification = <<>>
  /\ main = "running"
  /\ aborted = FALSE
  /\ bypass = [t \in Threads |-> 0]
------------------------------------------------------------------------------
(* A thread: ProcessExecPriorities.  "test": it holds or wants the mutex to *)
(* test the predicate; "blocked": in wait; "execute": outside the mutex.    *)

\* The predicate is false: block.
Wait(t) ==
  /\ ~aborted
  /\ pc[t] = "test"
  /\ ~terminate
  /\ Empty
  /\ pc' = [pc EXCEPT ![t] = "blocked"]
  /\ UNCHANGED <<queueVars, countVars, executing, managerVars, main, aborted>>

(* Mutant: a thread leaves although requests are queued. *)
LeaveEarly(t) ==
  /\ ~aborted
  /\ pc[t] = "test"
  /\ terminate
  /\ pc' = [pc EXCEPT ![t] = "done"]
  /\ UNCHANGED <<queueVars, countVars, executing, managerVars, main, aborted>>

\* The pool is terminated and drained: break.
Leave(t) ==
  /\ ~aborted
  /\ pc[t] = "test"
  /\ terminate
  /\ Empty
  /\ pc' = [pc EXCEPT ![t] = "done"]
  /\ UNCHANGED <<queueVars, countVars, executing, managerVars, main, aborted>>

(* Mutant: front() without pop(). *)
TakeFromNoPop(p, t) ==
  /\ ~aborted
  /\ pc[t] = "test"
  /\ queue[p] # <<>>
  /\ executing' = [executing EXCEPT ![t] = Head(queue[p])]
  /\ pc' = [pc EXCEPT ![t] = "execute"]
  /\ bypass' = [bypass EXCEPT ![t] =
                  IF p = "low" \/ queue["low"] = <<>> THEN 0 ELSE @ + 1]
  /\ UNCHANGED <<queueVars, managerVars, main, aborted>>

\* front() and pop() of one queue; bypass remembers the takes that left a low
\* priority request behind.
TakeFrom(p, t) ==
  /\ ~aborted
  /\ pc[t] = "test"
  /\ queue[p] # <<>>
  /\ executing' = [executing EXCEPT ![t] = Head(queue[p])]
  /\ queue' = [queue EXCEPT ![p] = Tail(@)]
  /\ pc' = [pc EXCEPT ![t] = "execute"]
  /\ bypass' = [bypass EXCEPT ![t] =
                  IF p = "low" \/ queue["low"] = <<>> THEN 0 ELSE @ + 1]
  /\ UNCHANGED <<terminate, loaded, managerVars, main, aborted>>

\* High priority first, if it does not exceed the expire rate.
HighAllowed(t) == queue["high"] # <<>> /\ highCount[t] < ExpireRate

MediumAllowed(t) == queue["medium"] # <<>> /\ mediumCount[t] < ExpireRate

(* Mutant: the high priority takes are not limited. *)
TakeHighUnlimited(t) ==
  /\ queue["high"] # <<>>
  /\ TakeFrom("high", t)
  /\ UNCHANGED <<highCount, mediumCount>>

TakeHigh(t) ==
  /\ HighAllowed(t)
  /\ TakeFrom("high", t)
  /\ highCount' = [highCount EXCEPT ![t] = @ + 1]
  /\ UNCHANGED mediumCount

(* Mutant: the medium priority takes are not counted. *)
TakeMediumUncounted(t) ==
  /\ ~HighAllowed(t)
  /\ MediumAllowed(t)
  /\ TakeFrom("medium", t)
  /\ highCount' = [highCount EXCEPT ![t] = 0]
  /\ UNCHANGED mediumCount

TakeMedium(t) ==
  /\ ~HighAllowed(t)
  /\ MediumAllowed(t)
  /\ TakeFrom("medium", t)
  /\ mediumCount' = [mediumCount EXCEPT ![t] = @ + 1]
  /\ highCount' = [highCount EXCEPT ![t] = 0]

\* The counts are reset with a low priority request...
ResetCounts(t) ==
  /\ highCount' = [highCount EXCEPT ![t] = 0]
  /\ mediumCount' = [mediumCount EXCEPT ![t] = 0]

TakeLow(t) ==
  /\ ~HighAllowed(t)
  /\ ~MediumAllowed(t)
  /\ TakeFrom("low", t)
  /\ ResetCounts(t)

\* ...or when both rates are exceeded and there is none: the loop starts again.
Expire(t) ==
  /\ ~aborted
  /\ pc[t] = "test"
  /\ ~Empty
  /\ queue["low"] = <<>>
  /\ ~HighAllowed(t)
  /\ ~MediumAllowed(t)
  /\ ResetCounts(t)
  /\ bypass' = [bypass EXCEPT ![t] = 0]
  /\ UNCHANGED <<queueVars, pc, executing, managerVars, main, aborted>>

\* Run the inference and notify the callback, of a success or of a failure (a
\* Failure status or a RuntimeException); the status is not kept here.  Any
\* other exception - the network is not in the map any more, or the tensors do
\* not match it (InvalidArgumentException) - leaves the thread.
Execute(t) ==
  /\ ~aborted
  /\ pc[t] = "execute"
  /\ IF loaded /\ executing[t] \notin Malformed
     THEN /\ notification' = Append(notification, executing[t])
          /\ pc' = [pc EXCEPT ![t] = "test"]
          /\ executing' = [executing EXCEPT ![t] = NoRequest]
          /\ UNCHANGED aborted
     ELSE /\ aborted' = TRUE
          /\ UNCHANGED <<notification, pc, executing>>
  /\ UNCHANGED <<queueVars, countVars, callbacks, main>>

\* wait may return without a notification.
SpuriousWakeup(t) ==
  /\ ~aborted
  /\ pc[t] = "blocked"
  /\ pc' = [pc EXCEPT ![t] = "test"]
  /\ UNCHANGED <<queueVars, countVars, executing, managerVars, main, aborted>>

ThreadStep(t) ==
  \/ Wait(t)
  \/ Leave(t)
  \/ TakeHigh(t)
  \/ TakeMedium(t)
  \/ TakeLow(t)
  \/ Expire(t)
  \/ Execute(t)
------------------------------------------------------------------------------
(* The clients and the owner of the pool.                                   *)

\* AsyncCallbackManager::GetNewCallback.
GetNewCallback(r) ==
  /\ ~aborted
  /\ r \notin callbacks
  /\ callbacks' = callbacks \cup {r}
  /\ UNCHANGED <<queueVars, pc, countVars, executing, notification, main, aborted>>

(* Mutant: no thread is notified. *)
ScheduleSilently(r, p) ==
  /\ ~aborted
  /\ main = "running"
  /\ loaded
  /\ r \in callbacks
  /\ ~Queued(r) /\ ~InExecution(r) /\ ~Notified(r)
  /\ queue' = [queue EXCEPT ![p] = Append(@, r)]
  /\ UNCHANGED <<terminate, loaded, pc, countVars, executing, managerVars, main, aborted>>

\* Schedule refuses a network that is not loaded, else pushes the request and
\* notifies one thread.  A callback is given to one request at a time, and the
\* pool is not used while it is destroyed.
Schedule(r, p) ==
  /\ ~aborted
  /\ main = "running"
  /\ loaded
  /\ r \in callbacks
  /\ ~Queued(r) /\ ~InExecution(r) /\ ~Notified(r)
  /\ queue' = [queue EXCEPT ![p] = Append(@, r)]
  /\ IF \E t \in Threads : pc[t] = "blocked"
     THEN \E t \in Threads : pc[t] = "blocked" /\ pc' = [pc EXCEPT ![t] = "test"]
     ELSE UNCHANGED pc
  /\ UNCHANGED <<terminate, loaded, countVars, executing, managerVars, main, aborted>>

\* AsyncCallbackManager::GetNotifiedCallback, when it does not block.
GetNotifiedCallback ==
  /\ ~aborted
  /\ notification # <<>>
  /\ notification' = Tail(notification)
  /\ callbacks' = callbacks \ {Head(notification)}
  /\ UNCHANGED <<queueVars, pc, countVars, executing, main, aborted>>

\* UnloadMemHandles and LoadMemHandles take no lock and do not look at the queues.
SetMemHandles ==
  /\ ~aborted
  /\ main = "running"
  /\ loaded' = ~loaded
  /\ UNCHANGED <<queue, terminate, pc, countVars, executing, managerVars, main, aborted>>

\* The destructor calls TerminateThreadPool: the flag is set under the mutex...
SetTerminate ==
  /\ ~aborted
  /\ main = "running"
  /\ terminate' = TRUE
  /\ main' = "notify"
  /\ UNCHANGED <<queue, loaded, pc, countVars, executing, managerVars, aborted>>

(* Mutant: one thread is notified of the termination. *)
NotifyOne ==
  /\ ~aborted
  /\ main = "notify"
  /\ main' = "join"
  /\ IF \E t \in Threads : pc[t] = "blocked"
     THEN \E t \in Threads : pc[t] = "blocked" /\ pc' = [pc EXCEPT ![t] = "test"]
     ELSE UNCHANGED pc
  /\ UNCHANGED <<queueVars, countVars, executing, managerVars, aborted>>

\* ...every thread is notified...
NotifyAll ==
  /\ ~aborted
  /\ main = "notify"
  /\ main' = "join"
  /\ pc' = [t \in Threads |-> IF pc[t] = "blocked" THEN "test" ELSE pc[t]]
  /\ UNCHANGED <<queueVars, countVars, executing, managerVars, aborted>>

\* ...and joined.
Join ==
  /\ ~aborted
  /\ main = "join"
  /\ \A t \in Threads : pc[t] = "done"
  /\ main' = "joined"
  /\ UNCHANGED <<queueVars, pc, countVars, executing, managerVars, aborted>>

Next ==
  \/ \E t \in Threads : ThreadStep(t)
  \/ \E t \in Threads : SpuriousWakeup(t)
  \/ \E r \in Requests : GetNewCallback(r)
  \/ \E r \in Requests, p \in Priorities : Schedule(r, p)
  \/ GetNotifiedCallback
  \/ SetMemHandles
  \/ SetTerminate
  \/ NotifyAll
  \/ Join

Spec == Init /\ [][Next]_vars

\* Every thread that can run does; the destructor goes on.  Nothing is assumed
\* of the clients, nor of spurious wakeups.
Fairness ==
  /\ \A t \in Threads : WF_vars(ThreadStep(t))
  /\ WF_vars(NotifyAll \/ Join)

FairSpec == Spec /\ Fairness
------------------------------------------------------------------------------
TypeOK ==
  /\ queue \in [Priorities -> Seq(Requests)]
  /\ terminate \in BOOLEAN
  /\ loaded \in BOOLEAN
  /\ pc \in [Threads -> {"test", "blocked", "execute", "done"}]
  /\ highCount \in [Threads -> 0..ExpireRate]
  /\ mediumCount \in [Threads -> 0..ExpireRate]
  /\ executing \in [Threads -> Requests \cup {NoRequest}]
  /\ callbacks \subseteq Requests
  /\ notification \in Seq(Requests)
  /\ main \in {"running", "notify", "join", "joined"}
  /\ aborted \in BOOLEAN
  /\ bypass \in [Threads -> Nat]

\* A scheduled request is queued once, or executed by one thread, or notified
\* once: no request is run twice, none disappears, and the manager still has
\* the callback of each, which GetNotifiedCallback looks up.
OneCopy ==
  /\ \A p, q \in Priorities : \A i \in DOMAIN queue[p], j \in DOMAIN queue[q] :
       queue[p][i] = queue[q][j] => p = q /\ i = j
  /\ \A i, j \in DOMAIN notification : notification[i] = notification[j] => i = j
  /\ \A t, u \in Threads : executing[t] = executing[u] => t = u \/ executing[t] = NoRequest
  /\ \A r \in Requests :
       /\ ~(Queued(r) /\ InExecution(r))
       /\ ~(Queued(r) /\ Notified(r))
       /\ ~(InExecution(r) /\ Notified(r))
       /\ Queued(r) \/ InExecution(r) \/ Notified(r) => r \in callbacks

\* No wakeup is lost: while a request is queued, some thread is on its way to it.
SomeoneAwake == ~Empty => \E t \in Threads : pc[t] \in {"test", "execute"}

\* The pool is destroyed after everything scheduled was run and notified.
DrainedWhenJoined ==
  main = "joined" => Empty /\ \A t \in Threads : executing[t] = NoRequest

\* A thread takes at most ExpireRate high priority requests, then one of medium
\* priority, and that at most ExpireRate times, while a low priority one waits.
BypassBounded ==
  \A t \in Threads : bypass[t] <= (ExpireRate + 1) * (ExpireRate + 1) - 1

\* Every scheduled request is notified, whatever its priority and however many
\* requests of higher priority keep coming.
ScheduledIsNotified ==
  \A r \in Requests : Queued(r) ~> Notified(r) \/ aborted

\* The destructor returns.
TerminateReturns == terminate ~> main = "joined" \/ aborted
==============================================================================
