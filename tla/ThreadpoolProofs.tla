--------------------------- MODULE ThreadpoolProofs ---------------------------
(***************************************************************************)
(* Proofs about Threadpool for every number of threads and of requests and *)
(* every expire rate.                                                      *)
(***************************************************************************)
EXTENDS Threadpool, TLAPS

\* What bounds the bypass: a thread resets highPriorityCount with each medium
\* priority take, and both counts with each low priority one.
CountsBoundBypass ==
  \A t \in Threads :
    bypass[t] <= mediumCount[t] * (ExpireRate + 1) + highCount[t]

\* A thread has a request exactly while it executes it.
ExecutingAgrees == \A t \in Threads : pc[t] = "execute" <=> executing[t] # NoRequest

\* The phases of the destructor, of the threads and of the flag agree.
PhasesAgree ==
  /\ terminate <=> main # "running"
  /\ \A t \in Threads : pc[t] = "done" => terminate /\ Empty
  /\ main = "joined" => \A t \in Threads : pc[t] = "done"

PoolInv ==
  /\ TypeOK
  /\ ExecutingAgrees
  /\ CountsBoundBypass
  /\ PhasesAgree
  /\ SomeoneAwake
  /\ OneCopy
------------------------------------------------------------------------------
\* Threadpool.cpp keeps the types of its state, and in particular its counts
\* within the expire rate: one step per action.
LEMMA TypeStep ==
  ASSUME TypeOK, ExecutingAgrees, [Next]_vars
  PROVE  TypeOK'
<1> USE ThreadpoolAssumption DEF TypeOK, Priorities
<1>1. ASSUME NEW t \in Threads, Wait(t) PROVE TypeOK'
  BY <1>1 DEF Wait, queueVars, countVars, managerVars
<1>2. ASSUME NEW t \in Threads, Leave(t) PROVE TypeOK'
  BY <1>2 DEF Leave, queueVars, countVars, managerVars
<1>3. ASSUME NEW t \in Threads, NEW p \in Priorities, TakeFrom(p, t)
      PROVE  /\ queue' \in [Priorities -> Seq(Requests)]
             /\ executing' \in [Threads -> Requests \cup {NoRequest}]
             /\ pc' \in [Threads -> {"test", "blocked", "execute", "done"}]
             /\ bypass' \in [Threads -> Nat]
             /\ UNCHANGED <<terminate, loaded, callbacks, notification, main, aborted>>
  <2>1. Head(queue[p]) \in Requests /\ Tail(queue[p]) \in Seq(Requests)
    BY <1>3 DEF TakeFrom
  <2>2. queue' \in [Priorities -> Seq(Requests)]
    BY <1>3, <2>1 DEF TakeFrom
  <2>3. executing' \in [Threads -> Requests \cup {NoRequest}]
    BY <1>3, <2>1 DEF TakeFrom
  <2>4. bypass' \in [Threads -> Nat]
    BY <1>3 DEF TakeFrom
  <2>5. QED
    BY <1>3, <2>2, <2>3, <2>4 DEF TakeFrom, managerVars
<1>4. ASSUME NEW t \in Threads, TakeHigh(t) PROVE TypeOK'
  <2>1. TakeFrom("high", t)
    BY <1>4 DEF TakeHigh
  <2>2. highCount' \in [Threads -> 0..ExpireRate] /\ mediumCount' = mediumCount
    BY <1>4 DEF TakeHigh, HighAllowed
  <2>3. QED
    BY <1>3, <2>1, <2>2
<1>5. ASSUME NEW t \in Threads, TakeMedium(t) PROVE TypeOK'
  <2>1. TakeFrom("medium", t)
    BY <1>5 DEF TakeMedium
  <2>2. /\ highCount' \in [Threads -> 0..ExpireRate]
        /\ mediumCount' \in [Threads -> 0..ExpireRate]
    BY <1>5 DEF TakeMedium, MediumAllowed
  <2>3. QED
    BY <1>3, <2>1, <2>2
<1>6. ASSUME NEW t \in Threads, TakeLow(t) PROVE TypeOK'
  <2>1. TakeFrom("low", t)
    BY <1>6 DEF TakeLow
  <2>2. /\ highCount' \in [Threads -> 0..ExpireRate]
        /\ mediumCount' \in [Threads -> 0..ExpireRate]
    BY <1>6 DEF TakeLow, ResetCounts
  <2>3. QED
    BY <1>3, <2>1, <2>2
<1>7. ASSUME NEW t \in Threads, Expire(t) PROVE TypeOK'
  BY <1>7 DEF Expire, ResetCounts, queueVars, managerVars
<1>8. ASSUME NEW t \in Threads, Execute(t) PROVE TypeOK'
  <2>1. CASE loaded /\ executing[t] \notin Malformed
    <3>1. executing[t] \in Requests
      BY <1>8 DEF Execute, ExecutingAgrees
    <3>2. /\ notification' = Append(notification, executing[t])
          /\ executing' = [executing EXCEPT ![t] = NoRequest]
          /\ pc' = [pc EXCEPT ![t] = "test"]
          /\ aborted' = aborted
      BY <1>8, <2>1 DEF Execute
    <3>3. notification' \in Seq(Requests)
      BY <3>1, <3>2
    <3>4. QED
      BY <1>8, <3>2, <3>3 DEF Execute, queueVars, countVars
  <2>2. CASE ~(loaded /\ executing[t] \notin Malformed)
    BY <1>8, <2>2 DEF Execute, queueVars, countVars
  <2>3. QED
    BY <2>1, <2>2
<1>9. ASSUME NEW t \in Threads, SpuriousWakeup(t) PROVE TypeOK'
  BY <1>9 DEF SpuriousWakeup, queueVars, countVars, managerVars
<1>10. ASSUME NEW r \in Requests, GetNewCallback(r) PROVE TypeOK'
  BY <1>10 DEF GetNewCallback, queueVars, countVars
<1>11. ASSUME NEW r \in Requests, NEW p \in Priorities, Schedule(r, p) PROVE TypeOK'
  <2>1. queue' \in [Priorities -> Seq(Requests)]
    BY <1>11 DEF Schedule
  <2>2. pc' \in [Threads -> {"test", "blocked", "execute", "done"}]
    BY <1>11 DEF Schedule
  <2>3. QED
    BY <1>11, <2>1, <2>2 DEF Schedule, countVars, managerVars
<1>12. CASE GetNotifiedCallback
  BY <1>12 DEF GetNotifiedCallback, queueVars, countVars
<1>13. CASE SetMemHandles
  BY <1>13 DEF SetMemHandles, countVars, managerVars
<1>14. CASE SetTerminate
  BY <1>14 DEF SetTerminate, countVars, managerVars
<1>15. CASE NotifyAll
  BY <1>15 DEF NotifyAll, queueVars, countVars, managerVars
<1>16. CASE Join
  BY <1>16 DEF Join, queueVars, countVars, managerVars
<1>17. CASE UNCHANGED vars
  BY <1>17 DEF vars, queueVars, countVars, managerVars
<1>18. QED
  BY <1>1, <1>2, <1>4, <1>5, <1>6, <1>7, <1>8, <1>9, <1>10, <1>11, <1>12,
     <1>13, <1>14, <1>15, <1>16, <1>17 DEF Next, ThreadStep

\* A thread enters "execute" with the request it popped and leaves it without
\* one, or never leaves it (an exception aborts the process).
LEMMA ExecutingStep ==
  ASSUME TypeOK, ExecutingAgrees, [Next]_vars
  PROVE  ExecutingAgrees'
<1> USE ThreadpoolAssumption DEF TypeOK, ExecutingAgrees
<1>1. ASSUME NEW t \in Threads, NEW p \in Priorities, TakeFrom(p, t)
      PROVE  ExecutingAgrees'
  <2>1. Head(queue[p]) \in Requests
    BY <1>1 DEF TakeFrom, Priorities
  <2>2. Head(queue[p]) # NoRequest
    BY <2>1
  <2>3. QED
    BY <1>1, <2>2 DEF TakeFrom
<1>2. ASSUME NEW t \in Threads, ThreadStep(t) PROVE ExecutingAgrees'
  <2>1. CASE Wait(t) \/ Leave(t) \/ Expire(t) \/ Execute(t)
    BY <2>1 DEF Wait, Leave, Expire, Execute
  <2>2. CASE TakeHigh(t) \/ TakeMedium(t) \/ TakeLow(t)
    BY <1>1, <2>2 DEF TakeHigh, TakeMedium, TakeLow, Priorities
  <2>3. QED
    BY <1>2, <2>1, <2>2 DEF ThreadStep
<1>3. ASSUME NEW t \in Threads, SpuriousWakeup(t) PROVE ExecutingAgrees'
  BY <1>3 DEF SpuriousWakeup
<1>4. ASSUME NEW r \in Requests, NEW p \in Priorities, Schedule(r, p)
      PROVE  ExecutingAgrees'
  BY <1>4 DEF Schedule
<1>5. CASE NotifyAll
  BY <1>5 DEF NotifyAll
<1>6. CASE UNCHANGED <<pc, executing>>
  BY <1>6
<1>7. QED
  BY <1>2, <1>3, <1>4, <1>5, <1>6
  DEF Next, GetNewCallback, GetNotifiedCallback, SetMemHandles, SetTerminate, Join, vars

\* Each take of a thread keeps the bound that its counts put on its bypass.
LEMMA BypassStep ==
  ASSUME TypeOK, CountsBoundBypass, [Next]_vars
  PROVE  CountsBoundBypass'
<1> USE ThreadpoolAssumption
<1>1. ASSUME NEW t \in Threads
      PROVE  bypass[t] \in Nat /\ highCount[t] \in 0..ExpireRate
               /\ mediumCount[t] \in 0..ExpireRate
  BY DEF TypeOK
<1>2. ASSUME NEW m \in Nat
      PROVE  (m + 1) * (ExpireRate + 1) = m * (ExpireRate + 1) + ExpireRate + 1
               /\ m * (ExpireRate + 1) \in Nat
  OBVIOUS
<1>3. ASSUME NEW t \in Threads, TakeHigh(t) PROVE CountsBoundBypass'
  <2>1. /\ \A u \in Threads \ {t} : bypass'[u] = bypass[u] /\ highCount'[u] = highCount[u]
        /\ mediumCount' = mediumCount
        /\ highCount'[t] = highCount[t] + 1
        /\ bypass'[t] \in {0, bypass[t] + 1}
    BY <1>3 DEF TakeHigh, TakeFrom, TypeOK
  <2>2. bypass'[t] <= mediumCount'[t] * (ExpireRate + 1) + highCount'[t]
    <3>1. bypass[t] <= mediumCount[t] * (ExpireRate + 1) + highCount[t]
      BY DEF CountsBoundBypass
    <3>2. QED
      BY <1>1, <1>2, <2>1, <3>1
  <2>3. QED
    BY <2>1, <2>2 DEF CountsBoundBypass
<1>4. ASSUME NEW t \in Threads, TakeMedium(t) PROVE CountsBoundBypass'
  <2>1. /\ \A u \in Threads \ {t} : /\ bypass'[u] = bypass[u]
                                    /\ highCount'[u] = highCount[u]
                                    /\ mediumCount'[u] = mediumCount[u]
        /\ mediumCount'[t] = mediumCount[t] + 1
        /\ highCount'[t] = 0
        /\ bypass'[t] \in {0, bypass[t] + 1}
    BY <1>4 DEF TakeMedium, TakeFrom, TypeOK
  <2>2. bypass'[t] <= mediumCount'[t] * (ExpireRate + 1) + highCount'[t]
    <3>1. bypass[t] <= mediumCount[t] * (ExpireRate + 1) + highCount[t]
      BY DEF CountsBoundBypass
    <3>2. mediumCount[t] \in Nat
      BY <1>1
    <3>3. (mediumCount[t] + 1) * (ExpireRate + 1)
            = mediumCount[t] * (ExpireRate + 1) + ExpireRate + 1
      BY <1>2, <3>2
    <3>4. mediumCount[t] * (ExpireRate + 1) \in Nat
      BY <1>2, <3>2
    <3>5. QED
      BY <1>1, <2>1, <3>1, <3>3, <3>4
  <2>3. QED
    BY <2>1, <2>2 DEF CountsBoundBypass
<1>5. ASSUME NEW t \in Threads, TakeLow(t) \/ Expire(t) PROVE CountsBoundBypass'
  <2>1. /\ \A u \in Threads \ {t} : /\ bypass'[u] = bypass[u]
                                    /\ highCount'[u] = highCount[u]
                                    /\ mediumCount'[u] = mediumCount[u]
        /\ mediumCount'[t] = 0
        /\ highCount'[t] = 0
        /\ bypass'[t] = 0
    BY <1>5 DEF TakeLow, TakeFrom, Expire, ResetCounts, TypeOK
  <2>2. bypass'[t] <= mediumCount'[t] * (ExpireRate + 1) + highCount'[t]
    BY <2>1
  <2>3. QED
    BY <2>1, <2>2 DEF CountsBoundBypass
<1>6. CASE UNCHANGED countVars
  BY <1>6 DEF countVars, CountsBoundBypass
<1>7. QED
  BY <1>3, <1>4, <1>5, <1>6
  DEF Next, ThreadStep, Wait, Leave, Execute, SpuriousWakeup, GetNewCallback, Schedule,
      GetNotifiedCallback, SetMemHandles, SetTerminate, NotifyAll, Join, vars

\* A thread is done only once the flag is set and the queues are empty for good,
\* and Join waits for all of them.
LEMMA PhasesStep ==
  ASSUME TypeOK, PhasesAgree, [Next]_vars
  PROVE  PhasesAgree'
<1> USE DEF TypeOK, PhasesAgree
<1>1. ASSUME NEW t \in Threads, NEW p \in Priorities, TakeFrom(p, t)
      PROVE  PhasesAgree'
  <2>1. \A u \in Threads : pc[u] # "done"
    BY <1>1 DEF TakeFrom, Empty
  <2>2. \A u \in Threads : pc'[u] # "done"
    BY <1>1, <2>1 DEF TakeFrom
  <2>3. Threads # {}
    BY ThreadpoolAssumption
  <2>4. main # "joined"
    BY <2>1, <2>3
  <2>5. QED
    BY <1>1, <2>2, <2>4 DEF TakeFrom
<1>2. ASSUME NEW t \in Threads, ThreadStep(t) PROVE PhasesAgree'
  <2>1. CASE Wait(t) \/ Leave(t) \/ Expire(t) \/ Execute(t)
    BY <2>1 DEF Wait, Leave, Expire, Execute, Empty, queueVars
  <2>2. CASE TakeHigh(t) \/ TakeMedium(t) \/ TakeLow(t)
    BY <1>1, <2>2 DEF TakeHigh, TakeMedium, TakeLow, Priorities
  <2>3. QED
    BY <1>2, <2>1, <2>2 DEF ThreadStep
<1>3. ASSUME NEW t \in Threads, SpuriousWakeup(t) PROVE PhasesAgree'
  BY <1>3 DEF SpuriousWakeup, Empty, queueVars
<1>4. ASSUME NEW r \in Requests, NEW p \in Priorities, Schedule(r, p)
      PROVE  PhasesAgree'
  <2>1. \A u \in Threads : pc[u] # "done" /\ pc'[u] # "done"
    BY <1>4 DEF Schedule
  <2>2. QED
    BY <1>4, <2>1 DEF Schedule
<1>5. CASE SetTerminate
  BY <1>5 DEF SetTerminate, Empty
<1>6. CASE NotifyAll
  BY <1>6 DEF NotifyAll, Empty, queueVars
<1>7. CASE Join
  BY <1>7 DEF Join, Empty, queueVars
<1>8. CASE UNCHANGED <<queue, terminate, pc, main>>
  BY <1>8 DEF Empty
<1>9. QED
  BY <1>2, <1>3, <1>4, <1>5, <1>6, <1>7, <1>8
  DEF Next, GetNewCallback, GetNotifiedCallback, SetMemHandles, vars, queueVars

\* Schedule leaves a thread awake, and only an empty queue lets one block or leave.
LEMMA AwakeStep ==
  ASSUME TypeOK, PhasesAgree, SomeoneAwake, [Next]_vars
  PROVE  SomeoneAwake'
<1> USE DEF TypeOK, PhasesAgree, SomeoneAwake
<1>1. ASSUME NEW t \in Threads, NEW p \in Priorities, TakeFrom(p, t)
      PROVE  SomeoneAwake'
  BY <1>1 DEF TakeFrom
<1>2. ASSUME NEW t \in Threads, ThreadStep(t) PROVE SomeoneAwake'
  <2>1. CASE Wait(t) \/ Leave(t) \/ Expire(t)
    BY <2>1 DEF Wait, Leave, Expire, Empty, queueVars
  <2>2. CASE Execute(t)
    <3>1. pc'[t] \in {"test", "execute"}
      BY <2>2 DEF Execute
    <3>2. QED
      BY <3>1
  <2>3. CASE TakeHigh(t) \/ TakeMedium(t) \/ TakeLow(t)
    BY <1>1, <2>3 DEF TakeHigh, TakeMedium, TakeLow, Priorities
  <2>4. QED
    BY <1>2, <2>1, <2>2, <2>3 DEF ThreadStep
<1>3. ASSUME NEW t \in Threads, SpuriousWakeup(t) PROVE SomeoneAwake'
  BY <1>3 DEF SpuriousWakeup
<1>4. ASSUME NEW r \in Requests, NEW p \in Priorities, Schedule(r, p)
      PROVE  SomeoneAwake'
  <2>1. CASE \E t \in Threads : pc[t] = "blocked"
    BY <1>4, <2>1 DEF Schedule
  <2>2. CASE ~\E t \in Threads : pc[t] = "blocked"
    <3>1. PICK t \in Threads : TRUE
      BY ThreadpoolAssumption
    <3>2. pc[t] \in {"test", "execute"}
      BY <1>4, <2>2 DEF Schedule
    <3>3. QED
      BY <1>4, <2>2, <3>2 DEF Schedule
  <2>3. QED
    BY <2>1, <2>2
<1>5. CASE NotifyAll
  BY <1>5 DEF NotifyAll, Empty, queueVars
<1>6. CASE UNCHANGED <<queue, pc>>
  BY <1>6 DEF Empty
<1>7. QED
  BY <1>2, <1>3, <1>4, <1>5, <1>6
  DEF Next, GetNewCallback, GetNotifiedCallback, SetMemHandles, SetTerminate, Join,
      vars, queueVars

\* What pop() leaves of a queue.
LEMMA TailElement ==
  ASSUME NEW S, NEW s \in Seq(S), s # <<>>, NEW i \in DOMAIN Tail(s)
  PROVE  /\ i \in Nat /\ i # 0 /\ i + 1 \in DOMAIN s
         /\ Tail(s)[i] = s[i + 1] /\ s[i + 1] \in S
<1>1. Len(s) \in Nat \ {0} /\ Len(Tail(s)) = Len(s) - 1
  OBVIOUS
<1>2. Tail(s) \in Seq(S)
  OBVIOUS
<1>3. i \in 1..(Len(s) - 1)
  BY <1>1, <1>2
<1>4. QED
  BY <1>1, <1>3

\* A take moves the head of a queue to the thread.
LEMMA CopyTaken ==
  ASSUME TypeOK, OneCopy, NEW t \in Threads, NEW p \in Priorities, TakeFrom(p, t)
  PROVE  OneCopy'
<1> USE ThreadpoolAssumption
<1>. DEFINE r == Head(queue[p])
<1>1. /\ queue' = [queue EXCEPT ![p] = Tail(@)]
      /\ queue[p] # <<>>
      /\ executing' = [executing EXCEPT ![t] = r]
      /\ UNCHANGED <<callbacks, notification>>
  BY DEF TakeFrom, managerVars
<1>2. /\ queue \in [Priorities -> Seq(Requests)]
      /\ executing \in [Threads -> Requests \cup {NoRequest}]
  BY DEF TypeOK
<1>3. /\ r = queue[p][1] /\ r \in Requests
      /\ 1 \in DOMAIN queue[p]
  BY <1>1, <1>2
<1>4. ASSUME NEW q \in Priorities, NEW i \in DOMAIN queue'[q]
      PROVE  /\ i \in Nat
             /\ q = p => i + 1 \in DOMAIN queue[q] /\ queue'[q][i] = queue[q][i + 1]
             /\ q # p => i \in DOMAIN queue[q] /\ queue'[q][i] = queue[q][i]
             /\ queue'[q][i] \in Requests
             /\ queue'[q][i] # r
  <2>1. CASE q = p
    <3>1. queue'[q] = Tail(queue[p]) /\ queue[p] \in Seq(Requests)
      BY <1>1, <1>2, <2>1
    <3>2. /\ i \in Nat /\ i # 0 /\ i + 1 \in DOMAIN queue[p]
          /\ queue'[q][i] = queue[p][i + 1] /\ queue[p][i + 1] \in Requests
      <4>1. i \in DOMAIN Tail(queue[p]) /\ queue[p] # <<>>
        BY <1>1, <1>4, <3>1, Zenon
      <4>2. /\ i \in Nat /\ i # 0 /\ i + 1 \in DOMAIN queue[p]
            /\ Tail(queue[p])[i] = queue[p][i + 1] /\ queue[p][i + 1] \in Requests
        BY <3>1, <4>1, TailElement, Zenon
      <4>3. QED
        BY <3>1, <4>2, Zenon
    <3>3. queue[p][i + 1] # queue[p][1]
      BY <1>3, <3>2 DEF OneCopy
    <3>4. QED
      BY <1>3, <2>1, <3>2, <3>3
  <2>2. CASE q # p
    <3>1. queue'[q] = queue[q] /\ queue[q] \in Seq(Requests)
      BY <1>1, <1>2, <2>2
    <3>2. i \in Nat /\ i \in DOMAIN queue[q] /\ queue[q][i] \in Requests
      BY <3>1
    <3>3. queue[q][i] # queue[p][1]
      BY <1>3, <2>2, <3>2 DEF OneCopy
    <3>4. QED
      BY <1>3, <2>2, <3>1, <3>2, <3>3
  <2>3. QED
    BY <2>1, <2>2
<1>. HIDE DEF r
<1>5. \A u \in Threads : executing'[u] = IF u = t THEN r ELSE executing[u]
  BY <1>1, <1>2
<1>6. Queued(r)
  BY <1>3 DEF Queued
<1>7. ~InExecution(r) /\ ~Notified(r) /\ r \in callbacks
  BY <1>3, <1>6 DEF OneCopy
<1>8. \A x \in Requests : Queued(x)' => Queued(x) /\ x # r
  BY <1>4 DEF Queued
<1>9. \A x \in Requests : InExecution(x)' => InExecution(x) \/ x = r
  BY <1>5 DEF InExecution
<1>10. \A x \in Requests : Notified(x)' <=> Notified(x)
  BY <1>1 DEF Notified
<1>11. \A x \in Requests :
         /\ ~(Queued(x) /\ InExecution(x))' /\ ~(Queued(x) /\ Notified(x))'
         /\ ~(InExecution(x) /\ Notified(x))'
         /\ (Queued(x) \/ InExecution(x) \/ Notified(x))' => x \in callbacks'
  BY <1>1, <1>3, <1>6, <1>7, <1>8, <1>9, <1>10 DEF OneCopy
<1>12. ASSUME NEW q \in Priorities, NEW s \in Priorities, NEW i \in DOMAIN queue'[q],
              NEW j \in DOMAIN queue'[s], queue'[q][i] = queue'[s][j]
       PROVE  q = s /\ i = j
  BY <1>4, <1>12 DEF OneCopy
<1>13. ASSUME NEW u \in Threads, NEW v \in Threads, executing'[u] = executing'[v],
              executing'[u] # NoRequest
       PROVE  u = v
  BY <1>3, <1>5, <1>7, <1>13 DEF OneCopy, InExecution
<1>14. \A i, j \in DOMAIN notification' : notification'[i] = notification'[j] => i = j
  BY <1>1 DEF OneCopy
<1>15. QED
  BY <1>11, <1>12, <1>13, <1>14 DEF OneCopy

\* A successful run moves the request of a thread to the end of the
\* notification queue.
LEMMA CopyExecuted ==
  ASSUME TypeOK, ExecutingAgrees, OneCopy, NEW t \in Threads, Execute(t)
  PROVE  OneCopy'
<1> USE ThreadpoolAssumption
<1>1. CASE ~(loaded /\ executing[t] \notin Malformed)
  <2>1. UNCHANGED <<queue, executing, notification, callbacks>>
    BY <1>1 DEF Execute, queueVars
  <2>2. QED
    BY <2>1 DEF OneCopy, Queued, InExecution, Notified
<1>2. CASE loaded /\ executing[t] \notin Malformed
  <2>. DEFINE r == executing[t]
  <2>1. /\ notification' = Append(notification, r)
        /\ executing' = [executing EXCEPT ![t] = NoRequest]
        /\ UNCHANGED <<queue, callbacks>>
    BY <1>2 DEF Execute, queueVars
  <2>2. r \in Requests /\ r # NoRequest
    BY DEF Execute, ExecutingAgrees, TypeOK
  <2>. HIDE DEF r
  <2>3. \A u \in Threads : executing'[u] = IF u = t THEN NoRequest ELSE executing[u]
    BY <2>1 DEF TypeOK
  <2>4. executing[t] = r
    BY DEF r
  <2>5. /\ Len(notification) \in Nat
        /\ DOMAIN notification = 1..Len(notification)
        /\ DOMAIN notification' = 1..(Len(notification) + 1)
        /\ \A i \in DOMAIN notification : notification'[i] = notification[i]
        /\ notification'[Len(notification) + 1] = r
    BY <2>1, <2>2 DEF TypeOK
  <2>6. InExecution(r) /\ ~Queued(r) /\ ~Notified(r) /\ r \in callbacks
    BY <2>2, <2>4 DEF InExecution, OneCopy
  <2>7. \A x \in Requests : InExecution(x)' => InExecution(x) /\ x # r
    BY <2>2, <2>3, <2>4 DEF InExecution, OneCopy
  <2>8. \A x \in Requests : Notified(x)' => Notified(x) \/ x = r
    BY <2>5 DEF Notified
  <2>9. \A x \in Requests : Queued(x)' <=> Queued(x)
    BY <2>1 DEF Queued
  <2>10. \A x \in Requests :
           /\ ~(Queued(x) /\ InExecution(x))' /\ ~(Queued(x) /\ Notified(x))'
           /\ ~(InExecution(x) /\ Notified(x))'
           /\ (Queued(x) \/ InExecution(x) \/ Notified(x))' => x \in callbacks'
    BY <2>1, <2>2, <2>6, <2>7, <2>8, <2>9 DEF OneCopy
  <2>11. \A i \in DOMAIN notification : notification[i] # r
    BY <2>6 DEF Notified
  <2>12. ASSUME NEW i \in DOMAIN notification', NEW j \in DOMAIN notification',
                notification'[i] = notification'[j]
         PROVE  i = j
    BY <2>5, <2>11, <2>12 DEF OneCopy
  <2>13. \A u, v \in Threads :
           executing'[u] = executing'[v] => u = v \/ executing'[u] = NoRequest
    BY <2>3 DEF OneCopy
  <2>14. \A p, q \in Priorities : \A i \in DOMAIN queue'[p], j \in DOMAIN queue'[q] :
           queue'[p][i] = queue'[q][j] => p = q /\ i = j
    BY <2>1 DEF OneCopy
  <2>15. QED
    BY <2>10, <2>12, <2>13, <2>14 DEF OneCopy
<1>3. QED
  BY <1>1, <1>2

\* Schedule queues a request that is nowhere else.
LEMMA CopyScheduled ==
  ASSUME TypeOK, OneCopy, NEW r \in Requests, NEW p \in Priorities, Schedule(r, p)
  PROVE  OneCopy'
<1>1. /\ queue' = [queue EXCEPT ![p] = Append(@, r)]
      /\ UNCHANGED <<executing, callbacks, notification>>
      /\ r \in callbacks
      /\ ~Queued(r) /\ ~InExecution(r) /\ ~Notified(r)
  BY DEF Schedule, managerVars
<1>2. queue \in [Priorities -> Seq(Requests)]
  BY DEF TypeOK
<1>3. ASSUME NEW q \in Priorities, NEW i \in DOMAIN queue'[q]
      PROVE  \/ i \in DOMAIN queue[q] /\ queue'[q][i] = queue[q][i] /\ queue[q][i] # r
             \/ q = p /\ i = Len(queue[p]) + 1 /\ queue'[q][i] = r
  <2>1. CASE q = p
    <3>1. queue'[q] = Append(queue[p], r) /\ queue[p] \in Seq(Requests)
      BY <1>1, <1>2, <2>1
    <3>2. \/ i \in DOMAIN queue[p] /\ queue'[q][i] = queue[p][i]
          \/ i = Len(queue[p]) + 1 /\ queue'[q][i] = r
      BY <3>1
    <3>3. QED
      BY <1>1, <2>1, <3>2 DEF Queued
  <2>2. CASE q # p
    BY <1>1, <1>2, <2>2 DEF Queued
  <2>3. QED
    BY <2>1, <2>2
<1>4. \A x \in Requests : Queued(x)' => Queued(x) \/ x = r
  BY <1>3 DEF Queued
<1>5. \A x \in Requests : /\ InExecution(x)' <=> InExecution(x)
                          /\ Notified(x)' <=> Notified(x)
  BY <1>1 DEF InExecution, Notified
<1>6. \A x \in Requests :
        /\ ~(Queued(x) /\ InExecution(x))' /\ ~(Queued(x) /\ Notified(x))'
        /\ ~(InExecution(x) /\ Notified(x))'
        /\ (Queued(x) \/ InExecution(x) \/ Notified(x))' => x \in callbacks'
  BY <1>1, <1>4, <1>5 DEF OneCopy
<1>7. ASSUME NEW q \in Priorities, NEW s \in Priorities, NEW i \in DOMAIN queue'[q],
             NEW j \in DOMAIN queue'[s], queue'[q][i] = queue'[s][j]
      PROVE  q = s /\ i = j
  BY <1>3, <1>7 DEF OneCopy
<1>8. QED
  BY <1>1, <1>6, <1>7 DEF OneCopy

\* GetNotifiedCallback gives the oldest notification away, with its callback.
LEMMA CopyReturned ==
  ASSUME TypeOK, OneCopy, GetNotifiedCallback
  PROVE  OneCopy'
<1>. DEFINE r == Head(notification)
<1>1. /\ notification' = Tail(notification)
      /\ notification # <<>>
      /\ callbacks' = callbacks \ {r}
      /\ UNCHANGED <<queue, executing>>
  BY DEF GetNotifiedCallback, queueVars
<1>2. notification \in Seq(Requests)
  BY DEF TypeOK
<1>3. r = notification[1] /\ r \in Requests /\ 1 \in DOMAIN notification
  BY <1>1, <1>2
<1>. HIDE DEF r
<1>4. \A i \in DOMAIN notification' :
        /\ i \in Nat \ {0} /\ i + 1 \in DOMAIN notification
        /\ notification'[i] = notification[i + 1]
  BY <1>1, <1>2
<1>5. \A i \in DOMAIN notification' : notification'[i] # r
  BY <1>3, <1>4 DEF OneCopy
<1>6. Notified(r)
  BY <1>3 DEF Notified
<1>7. ~Queued(r) /\ ~InExecution(r)
  BY <1>3, <1>6 DEF OneCopy
<1>8. \A x \in Requests : Notified(x)' => Notified(x) /\ x # r
  BY <1>4, <1>5 DEF Notified
<1>9. \A x \in Requests : /\ Queued(x)' <=> Queued(x)
                          /\ InExecution(x)' <=> InExecution(x)
  BY <1>1 DEF Queued, InExecution
<1>10. \A x \in Requests :
         /\ ~(Queued(x) /\ InExecution(x))' /\ ~(Queued(x) /\ Notified(x))'
         /\ ~(InExecution(x) /\ Notified(x))'
         /\ (Queued(x) \/ InExecution(x) \/ Notified(x))' => x \in callbacks'
  BY <1>1, <1>7, <1>8, <1>9 DEF OneCopy
<1>11. \A i, j \in DOMAIN notification' : notification'[i] = notification'[j] => i = j
  BY <1>4 DEF OneCopy
<1>12. QED
  BY <1>1, <1>10, <1>11 DEF OneCopy

\* Every other step leaves the requests where they are.
LEMMA CopyStep ==
  ASSUME TypeOK, ExecutingAgrees, OneCopy, [Next]_vars
  PROVE  OneCopy'
<1>1. CASE UNCHANGED <<queue, executing, notification>> /\ callbacks \subseteq callbacks'
  BY <1>1 DEF OneCopy, Queued, InExecution, Notified
<1>2. ASSUME NEW t \in Threads, ThreadStep(t) PROVE OneCopy'
  <2>1. CASE Wait(t) \/ Leave(t) \/ Expire(t)
    BY <1>1, <2>1 DEF Wait, Leave, Expire, queueVars, managerVars
  <2>2. CASE TakeHigh(t) \/ TakeMedium(t) \/ TakeLow(t)
    BY <2>2, CopyTaken DEF TakeHigh, TakeMedium, TakeLow, Priorities
  <2>3. CASE Execute(t)
    BY <2>3, CopyExecuted
  <2>4. QED
    BY <1>2, <2>1, <2>2, <2>3 DEF ThreadStep
<1>3. ASSUME NEW t \in Threads, SpuriousWakeup(t) PROVE OneCopy'
  BY <1>1, <1>3 DEF SpuriousWakeup, queueVars, managerVars
<1>4. ASSUME NEW r \in Requests, GetNewCallback(r) PROVE OneCopy'
  BY <1>1, <1>4 DEF GetNewCallback, queueVars
<1>5. CASE GetNotifiedCallback
  BY <1>5, CopyReturned
<1>6. CASE SetMemHandles \/ SetTerminate \/ NotifyAll \/ Join
  BY <1>1, <1>6 DEF SetMemHandles, SetTerminate, NotifyAll, Join, queueVars, managerVars
<1>7. CASE UNCHANGED vars
  BY <1>1, <1>7 DEF vars, queueVars, managerVars
<1>8. QED
  BY <1>2, <1>3, <1>4, <1>5, <1>6, <1>7, CopyScheduled DEF Next

\* PoolInv holds in every reachable state of Threadpool.cpp.
LEMMA PoolInvariant == Spec => []PoolInv
<1>1. Init => PoolInv
  <2> SUFFICES ASSUME Init PROVE PoolInv
    OBVIOUS
  <2>0. queue \in [Priorities -> Seq(Requests)] /\ notification \in Seq(Requests)
    BY DEF Init
  <2>1. 0 \in 0..ExpireRate /\ 0 \in Nat
    BY ThreadpoolAssumption
  <2>2. /\ highCount \in [Threads -> 0..ExpireRate]
        /\ mediumCount \in [Threads -> 0..ExpireRate]
        /\ bypass \in [Threads -> Nat]
    BY <2>1, Zenon DEF Init
  <2>3. /\ pc \in [Threads -> {"test", "blocked", "execute", "done"}]
        /\ executing \in [Threads -> Requests \cup {NoRequest}]
    BY Zenon DEF Init
  <2>4. TypeOK
    BY <2>0, <2>2, <2>3 DEF Init, TypeOK
  <2>5. CountsBoundBypass
    <3>1. 0 * (ExpireRate + 1) = 0
      BY ThreadpoolAssumption
    <3>2. \A t \in Threads : bypass[t] = 0 /\ mediumCount[t] = 0 /\ highCount[t] = 0
      BY DEF Init
    <3>3. QED
      BY <3>1, <3>2 DEF CountsBoundBypass
  <2>6. ExecutingAgrees /\ PhasesAgree /\ SomeoneAwake
    BY DEF Init, ExecutingAgrees, PhasesAgree, SomeoneAwake, Empty
  <2>7. OneCopy
    BY ThreadpoolAssumption DEF Init, OneCopy, Queued, InExecution, Notified
  <2>8. QED
    BY <2>4, <2>5, <2>6, <2>7 DEF PoolInv
<1>2. PoolInv /\ [Next]_vars => PoolInv'
  BY TypeStep, ExecutingStep, BypassStep, PhasesStep, AwakeStep, CopyStep DEF PoolInv
<1>3. QED
  BY <1>1, <1>2, PTL DEF Spec
------------------------------------------------------------------------------
\* The counts of ProcessExecPriorities stay within the expire rate, and all the
\* state of the pool keeps its types.
THEOREM TypeCorrect == Spec => []TypeOK
<1>1. PoolInv => TypeOK
  BY DEF PoolInv
<1>2. QED
  BY <1>1, PoolInvariant, PTL

\* No thread takes more than (E + 1)^2 - 1 requests of higher priority while one
\* of low priority waits, E being EXPIRE_RATE.
THEOREM BypassBoundedHolds == Spec => []BypassBounded
<1>1. PoolInv => BypassBounded
  <2> SUFFICES ASSUME PoolInv, NEW t \in Threads
               PROVE  bypass[t] <= (ExpireRate + 1) * (ExpireRate + 1) - 1
    BY DEF BypassBounded
  <2>1. /\ bypass[t] <= mediumCount[t] * (ExpireRate + 1) + highCount[t]
        /\ bypass[t] \in Nat
        /\ mediumCount[t] \in 0..ExpireRate
        /\ highCount[t] \in 0..ExpireRate
    BY DEF PoolInv, TypeOK, CountsBoundBypass
  <2>2. mediumCount[t] * (ExpireRate + 1) <= ExpireRate * (ExpireRate + 1)
    BY <2>1, ThreadpoolAssumption
  <2>3. (ExpireRate + 1) * (ExpireRate + 1) = ExpireRate * (ExpireRate + 1) + ExpireRate + 1
    BY ThreadpoolAssumption
  <2>4. mediumCount[t] * (ExpireRate + 1) \in Nat /\ ExpireRate * (ExpireRate + 1) \in Nat
    BY <2>1, ThreadpoolAssumption
  <2>5. QED
    BY <2>1, <2>2, <2>3, <2>4, ThreadpoolAssumption
<1>2. QED
  BY <1>1, PoolInvariant, PTL

\* front and pop under one lock give each request to one thread: it is queued
\* once, or executed by one thread, or notified once, and its callback is found.
THEOREM OneCopyHolds == Spec => []OneCopy
<1>1. PoolInv => OneCopy
  BY DEF PoolInv
<1>2. QED
  BY <1>1, PoolInvariant, PTL

\* notify_one and notify_all lose no wakeup: while a request is queued, a thread
\* is awake to take it.
THEOREM SomeoneAwakeHolds == Spec => []SomeoneAwake
<1>1. PoolInv => SomeoneAwake
  BY DEF PoolInv
<1>2. QED
  BY <1>1, PoolInvariant, PTL

\* TerminateThreadPool returns only when everything scheduled was executed.
THEOREM DrainedWhenJoinedHolds == Spec => []DrainedWhenJoined
<1>1. PoolInv => DrainedWhenJoined
  <2> SUFFICES ASSUME PoolInv, main = "joined"
               PROVE  Empty /\ \A t \in Threads : executing[t] = NoRequest
    BY DEF DrainedWhenJoined
  <2>1. \A t \in Threads : pc[t] = "done"
    BY DEF PoolInv, PhasesAgree
  <2>2. Empty
    BY <2>1, ThreadpoolAssumption DEF PoolInv, PhasesAgree
  <2>3. QED
    BY <2>1, <2>2 DEF PoolInv, ExecutingAgrees
<1>2. QED
  BY <1>1, PoolInvariant, PTL
------------------------------------------------------------------------------
(* Why the destructor returns, if the threads run: none of them waits for a  *)
(* notification any more, and what they have to do shrinks with every step.  *)

\* The threads woken by the destructor do not wait again.
NoneBlocked ==
  main \in {"join", "joined"} => \A t \in Threads : pc[t] # "blocked"

\* The requests that are queued.
QueuedLeft == Len(queue["high"]) + Len(queue["medium"]) + Len(queue["low"])

\* The steps a thread may do until it takes a request or leaves.
TurnsLeft(t) ==
  CASE pc[t] = "done" -> 0
    [] pc[t] = "execute" -> 3
    [] OTHER -> IF highCount[t] = 0 /\ mediumCount[t] = 0 THEN 1 ELSE 2

\* While the destructor joins the threads, a step of a thread takes a request from
\* a queue or brings it nearer to that or to its end; nothing is queued any more,
\* and nothing else puts a thread back.
DrainNears ==
  [][main = "join" /\ ~aborted' =>
       /\ QueuedLeft' <= QueuedLeft
       /\ \A t \in Threads :
            IF ThreadStep(t)
            THEN QueuedLeft' < QueuedLeft \/ TurnsLeft(t)' < TurnsLeft(t)
            ELSE TurnsLeft(t)' = TurnsLeft(t)]_vars

\* m_TerminatePool is set before the threads are notified, so a thread that is
\* woken, or that tests the predicate later, does not block.
LEMMA NoneBlockedStep ==
  ASSUME TypeOK, PhasesAgree, NoneBlocked, [Next]_vars
  PROVE  NoneBlocked'
<1> USE DEF TypeOK, PhasesAgree, NoneBlocked
<1>1. ASSUME NEW t \in Threads, ThreadStep(t) PROVE NoneBlocked'
  <2>1. CASE Wait(t)
    BY <2>1 DEF Wait
  <2>2. CASE Leave(t) \/ Expire(t) \/ Execute(t)
    BY <2>2 DEF Leave, Expire, Execute
  <2>3. ASSUME NEW p \in Priorities, TakeFrom(p, t) PROVE NoneBlocked'
    BY <2>3 DEF TakeFrom
  <2>4. CASE TakeHigh(t) \/ TakeMedium(t) \/ TakeLow(t)
    BY <2>3, <2>4 DEF TakeHigh, TakeMedium, TakeLow, Priorities
  <2>5. QED
    BY <1>1, <2>1, <2>2, <2>4 DEF ThreadStep
<1>2. ASSUME NEW t \in Threads, SpuriousWakeup(t) PROVE NoneBlocked'
  BY <1>2 DEF SpuriousWakeup
<1>3. ASSUME NEW r \in Requests, NEW p \in Priorities, Schedule(r, p) PROVE NoneBlocked'
  BY <1>3 DEF Schedule
<1>4. CASE SetTerminate \/ NotifyAll \/ Join
  BY <1>4 DEF SetTerminate, NotifyAll, Join
<1>5. CASE UNCHANGED <<pc, main>>
  BY <1>5
<1>6. QED
  BY <1>1, <1>2, <1>3, <1>4, <1>5
  DEF Next, GetNewCallback, GetNotifiedCallback, SetMemHandles, vars

\* No thread of a pool that is being destroyed waits for a notification.
THEOREM NoneBlockedHolds == Spec => []NoneBlocked
<1>1. Init => NoneBlocked
  BY DEF Init, NoneBlocked
<1>2. PoolInv => TypeOK /\ PhasesAgree
  BY DEF PoolInv
<1>3. QED
  BY <1>1, <1>2, NoneBlockedStep, PoolInvariant, PTL DEF Spec

\* A pop shortens the queues by one.
LEMMA PopShortens ==
  ASSUME TypeOK, NEW t \in Threads, NEW p \in Priorities, TakeFrom(p, t)
  PROVE  QueuedLeft' = QueuedLeft - 1
<1>1. \A q \in Priorities : queue[q] \in Seq(Requests) /\ Len(queue[q]) \in Nat
  BY DEF TypeOK
<1>2. Len(Tail(queue[p])) = Len(queue[p]) - 1
  BY <1>1 DEF TakeFrom
<1>3. \A q \in Priorities : Len(queue'[q]) = IF q = p THEN Len(queue[q]) - 1 ELSE Len(queue[q])
  BY <1>1, <1>2 DEF TakeFrom, TypeOK
<1>4. "high" \in Priorities /\ "medium" \in Priorities /\ "low" \in Priorities
  BY DEF Priorities
<1>5. p = "high" \/ p = "medium" \/ p = "low"
  BY DEF Priorities
<1>6. /\ Len(queue'["high"]) = IF p = "high" THEN Len(queue["high"]) - 1 ELSE Len(queue["high"])
      /\ Len(queue'["medium"]) = IF p = "medium" THEN Len(queue["medium"]) - 1
                                                ELSE Len(queue["medium"])
      /\ Len(queue'["low"]) = IF p = "low" THEN Len(queue["low"]) - 1 ELSE Len(queue["low"])
      /\ Len(queue["high"]) \in Nat /\ Len(queue["medium"]) \in Nat /\ Len(queue["low"]) \in Nat
  BY <1>1, <1>3, <1>4
<1>7. CASE p = "high"
  BY <1>6, <1>7 DEF QueuedLeft
<1>8. CASE p = "medium"
  BY <1>6, <1>8 DEF QueuedLeft
<1>9. CASE p = "low"
  BY <1>6, <1>9 DEF QueuedLeft
<1>10. QED
  BY <1>5, <1>7, <1>8, <1>9

\* A step of a thread while the pool is destroyed.
LEMMA ThreadDrains ==
  ASSUME TypeOK, PhasesAgree, main = "join", ~aborted', NEW t \in Threads, ThreadStep(t)
  PROVE  /\ QueuedLeft' <= QueuedLeft
         /\ QueuedLeft' < QueuedLeft \/ TurnsLeft(t)' < TurnsLeft(t)
         /\ \A u \in Threads \ {t} : TurnsLeft(u)' = TurnsLeft(u)
<1> USE DEF TypeOK, PhasesAgree, queueVars, countVars
<1>1. QueuedLeft \in Nat
  BY DEF QueuedLeft, Priorities
<1>2. ~Wait(t)
  BY DEF Wait
<1>3. CASE Leave(t)
  <2>1. queue' = queue /\ pc[t] = "test" /\ pc' = [pc EXCEPT ![t] = "done"]
        /\ UNCHANGED <<highCount, mediumCount>>
    BY <1>3 DEF Leave
  <2>2. QED
    BY <1>1, <2>1 DEF QueuedLeft, TurnsLeft
<1>4. CASE Expire(t)
  <2>1. /\ UNCHANGED <<queue, pc>> /\ pc[t] = "test"
        /\ highCount' = [highCount EXCEPT ![t] = 0]
        /\ mediumCount' = [mediumCount EXCEPT ![t] = 0]
    BY <1>4 DEF Expire, ResetCounts
  <2>2. highCount[t] # 0 \/ mediumCount[t] # 0
    BY <1>4, ThreadpoolAssumption
    DEF Expire, Empty, Priorities, HighAllowed, MediumAllowed
  <2>3. TurnsLeft(t) = 2 /\ TurnsLeft(t)' = 1
    BY <2>1, <2>2 DEF TurnsLeft
  <2>4. \A u \in Threads \ {t} : TurnsLeft(u)' = TurnsLeft(u)
    BY <2>1 DEF TurnsLeft
  <2>5. QueuedLeft' = QueuedLeft
    BY <2>1 DEF QueuedLeft
  <2>6. QED
    BY <1>1, <2>3, <2>4, <2>5
<1>5. CASE Execute(t)
  <2>1. /\ queue' = queue /\ pc[t] = "execute" /\ pc' = [pc EXCEPT ![t] = "test"]
        /\ UNCHANGED <<highCount, mediumCount>>
    BY <1>5 DEF Execute
  <2>2. QED
    BY <1>1, <2>1 DEF QueuedLeft, TurnsLeft
<1>6. ASSUME NEW p \in Priorities, TakeFrom(p, t),
             \A u \in Threads \ {t} :
               highCount'[u] = highCount[u] /\ mediumCount'[u] = mediumCount[u]
      PROVE  /\ QueuedLeft' = QueuedLeft - 1
             /\ \A u \in Threads \ {t} : TurnsLeft(u)' = TurnsLeft(u)
  <2>1. QueuedLeft' = QueuedLeft - 1
    BY <1>6, PopShortens
  <2>2. \A u \in Threads \ {t} : pc'[u] = pc[u]
    BY <1>6 DEF TakeFrom
  <2>3. QED
    BY <1>1, <1>6, <2>1, <2>2 DEF TurnsLeft
<1>7. CASE TakeHigh(t) \/ TakeMedium(t) \/ TakeLow(t)
  <2>1. \A u \in Threads \ {t} :
          highCount'[u] = highCount[u] /\ mediumCount'[u] = mediumCount[u]
    BY <1>7 DEF TakeHigh, TakeMedium, TakeLow, ResetCounts
  <2>2. TakeFrom("high", t) \/ TakeFrom("medium", t) \/ TakeFrom("low", t)
    BY <1>7 DEF TakeHigh, TakeMedium, TakeLow
  <2>3. /\ QueuedLeft' = QueuedLeft - 1
        /\ \A u \in Threads \ {t} : TurnsLeft(u)' = TurnsLeft(u)
    BY <1>6, <2>1, <2>2 DEF Priorities
  <2>4. QED
    BY <1>1, <2>3
<1>8. QED
  BY <1>2, <1>3, <1>4, <1>5, <1>7 DEF ThreadStep

\* Every other step leaves the queues and the threads where they are.
LEMMA OthersLeaveThreads ==
  ASSUME PhasesAgree, NoneBlocked, main = "join", [Next]_vars,
         ~\E t \in Threads : ThreadStep(t)
  PROVE  UNCHANGED <<queue, pc, highCount, mediumCount>>
BY DEF NoneBlocked, PhasesAgree, Next, SpuriousWakeup, GetNewCallback, Schedule,
       GetNotifiedCallback, SetMemHandles, SetTerminate, NotifyAll, Join, vars,
       queueVars, countVars

\* TerminateThreadPool: the threads get through what is queued and end, each by
\* steps that a measure bounds, whatever the clients do meanwhile.
THEOREM DrainNearsHolds == Spec => DrainNears
<1>1. TypeOK /\ PhasesAgree /\ NoneBlocked /\ [Next]_vars
        => [main = "join" /\ ~aborted' =>
             /\ QueuedLeft' <= QueuedLeft
             /\ \A t \in Threads :
                  IF ThreadStep(t)
                  THEN QueuedLeft' < QueuedLeft \/ TurnsLeft(t)' < TurnsLeft(t)
                  ELSE TurnsLeft(t)' = TurnsLeft(t)]_vars
  <2> SUFFICES ASSUME TypeOK, PhasesAgree, NoneBlocked, [Next]_vars, main = "join", ~aborted'
               PROVE  /\ QueuedLeft' <= QueuedLeft
                      /\ \A t \in Threads :
                           IF ThreadStep(t)
                           THEN QueuedLeft' < QueuedLeft \/ TurnsLeft(t)' < TurnsLeft(t)
                           ELSE TurnsLeft(t)' = TurnsLeft(t)
    OBVIOUS
  <2>1. QueuedLeft \in Nat
    BY DEF QueuedLeft, TypeOK, Priorities
  <2>2. CASE \E t \in Threads : ThreadStep(t)
    <3>1. PICK u \in Threads : ThreadStep(u)
      BY <2>2
    <3>2. /\ QueuedLeft' <= QueuedLeft
          /\ \A t \in Threads \ {u} : TurnsLeft(t)' = TurnsLeft(t)
      BY <3>1, ThreadDrains
    <3>3. ASSUME NEW t \in Threads
          PROVE  IF ThreadStep(t)
                 THEN QueuedLeft' < QueuedLeft \/ TurnsLeft(t)' < TurnsLeft(t)
                 ELSE TurnsLeft(t)' = TurnsLeft(t)
      <4>1. CASE ThreadStep(t)
        BY <4>1, ThreadDrains
      <4>2. CASE ~ThreadStep(t)
        BY <3>1, <3>2, <4>2
      <4>3. QED
        BY <4>1, <4>2
    <3>4. QED
      BY <3>2, <3>3
  <2>3. CASE ~\E t \in Threads : ThreadStep(t)
    <3>1. UNCHANGED <<queue, pc, highCount, mediumCount>>
      BY <2>3, OthersLeaveThreads
    <3>2. QueuedLeft' = QueuedLeft /\ \A t \in Threads : TurnsLeft(t)' = TurnsLeft(t)
      BY <3>1 DEF QueuedLeft, TurnsLeft
    <3>3. QED
      BY <2>1, <2>3, <3>2
  <2>4. QED
    BY <2>2, <2>3
<1>2. PoolInv => TypeOK /\ PhasesAgree
  BY DEF PoolInv
<1>3. QED
  BY <1>1, <1>2, PoolInvariant, NoneBlockedHolds, PTL DEF Spec, DrainNears
===============================================================================
