------------------------------ MODULE SendThread ------------------------------
(***************************************************************************)
(* The thread that drains the buffer pool into the profiling connection    *)
(* (profiling/client/src/SendThread.cpp), the client threads that commit   *)
(* packets and then notify it, and the main thread that starts and stops   *)
(* it as ProfilingService.cpp does.  The pool is the one of BufferManager: *)
(* every step here is a step of that module or leaves the pool alone.      *)
(*                                                                         *)
(* A wait on m_WaitCondition has m_ReadyToRead as its predicate and both   *)
(* are under m_WaitMutex, so a wait is an await of ready or, if it has a   *)
(* timeout, a step that may also be taken while ready is false.            *)
(***************************************************************************)
EXTENDS Naturals, Sequences, FiniteSets

CONSTANTS
  Writers, Clients, Numbered, NumberOfBuffers, MaxBufferSize, Sizes, NoBuffer,
  MaxPackets,   \* as in BufferManager
  Sender,       \* the send thread, builder of the stream metadata packets
  MetadataSize, \* the size of a stream metadata packet
  Timeouts,     \* whether m_Timeout >= 0, of the send threads considered
  MaxSessions   \* bound: calls of Start that create a thread

VARIABLES
  available, readable, current, writing, reading,
  committed, taken, dropped, orphaned,  \* as in BufferManager
  timed,       \* m_Timeout >= 0
  state,       \* m_StateMachine
  open,        \* profilingConnection.IsOpen()
  pc,          \* where the send thread is; "none": there is none to join
  flushing,    \* which FlushBuffer call the thread is in
  packetsSent, \* the local of FlushBuffer
  running,     \* m_IsRunning
  keep,        \* m_KeepRunning
  ready,       \* m_ReadyToRead
  packetSent,  \* m_PacketSent
  notifying,   \* clients between their Commit and SetReadyToRead
  main,        \* where the main thread is
  stopping,    \* what the main thread is stopping the send thread for
  written,     \* history: last packet of each client that was sent
  due,         \* history: what the clients had committed when Stop was called
  sessions     \* history: threads created

BM == INSTANCE BufferManager

ASSUME SendThreadAssumption ==
  /\ BM!BufferManagerAssumption
  /\ Sender \in Writers
  /\ Clients = Writers \ {Sender}
  /\ Numbered = Clients
  /\ MetadataSize \in Sizes \ {0}
  /\ MetadataSize <= MaxBufferSize
  /\ Timeouts \subseteq BOOLEAN
  /\ MaxSessions \in Nat

bufferVars == <<available, readable, current, writing, reading,
                committed, taken, dropped, orphaned>>
flushVars == <<flushing, packetsSent, packetSent>>
threadVars == <<pc, flushVars, running, keep>>
mainVars == <<main, stopping, due, sessions>>
linkVars == <<state, open>>
vars == <<bufferVars, threadVars, linkVars, ready, notifying, mainVars, written, timed>>

NonePending == [c \in Clients |-> 0]

Init ==
  /\ BM!Init
  /\ timed \in Timeouts
  /\ state = "Uninitialised"
  /\ open = FALSE
  /\ pc = "none"
  /\ flushing = "no"
  /\ packetsSent = FALSE
  /\ running = FALSE
  /\ keep = FALSE
  /\ ready = FALSE
  /\ packetSent = FALSE
  /\ notifying = {}
  /\ main = "idle"
  /\ stopping = "no"
  /\ written = [c \in Clients |-> 0]
  /\ due = NonePending
  /\ sessions = 0
------------------------------------------------------------------------------
(* The send thread: SendThread::Send and FlushBuffer.                      *)

\* The top of the loop reads the state of the service; a thread that runs
\* without a connection stops at once (and stores an exception).
CheckState ==
  /\ pc = "check"
  /\ pc' = CASE state = "Active" -> "waitData"
             [] state = "WaitingForAck" -> "metadata"
             [] OTHER -> "refused"
  /\ keep' = (keep /\ state \in {"WaitingForAck", "Active"})
  /\ running' = (running /\ state \in {"WaitingForAck", "Active"})
  /\ UNCHANGED <<bufferVars, flushVars, linkVars, ready, notifying,
                 mainVars, written, timed>>

\* SendStreamMetaDataPacket reserves; a refusal notifies the thread itself and
\* throws, which nothing in Send catches: the process terminates.
ReserveMetadata ==
  /\ pc = "metadata"
  /\ \/ /\ BM!Reserve(Sender, MetadataSize)
        /\ pc' = "commitMetadata"
        /\ UNCHANGED ready
     \/ /\ ~BM!CanReserve(MetadataSize)
        /\ ready' = TRUE
        /\ pc' = "terminated"
        /\ UNCHANGED bufferVars
  /\ UNCHANGED <<flushVars, running, keep, linkVars, notifying, mainVars,
                 written, timed>>

\* It commits without notifying the consumer; FlushBuffer follows.
CommitMetadata ==
  /\ pc = "commitMetadata"
  /\ BM!Commit(Sender, MetadataSize)
  /\ pc' = "flush"
  /\ flushing' = "metadata"
  /\ UNCHANGED <<packetsSent, packetSent, running, keep, linkVars, ready, notifying,
                 mainVars, written, timed>>

\* The wait for the ack always has a timeout.  wait_for returns true when the
\* predicate holds: a notified thread skips to the loop condition and leaves
\* m_ReadyToRead set; one that timed out flushes the buffer.
WaitForAck ==
  /\ pc = "waitAck"
  /\ \/ /\ ready
        /\ pc' = "test"
        /\ UNCHANGED flushing
     \/ /\ ~ready
        /\ pc' = "flush"
        /\ flushing' = "loop"
  /\ UNCHANGED <<bufferVars, packetsSent, packetSent, running, keep, linkVars, ready,
                 notifying, mainVars, written, timed>>

(* Mutant: the timeout of the wait for data is ignored. *)
WaitForDataUntimed ==
  /\ pc = "waitData"
  /\ ready
  /\ ready' = FALSE /\ pc' = "flush" /\ flushing' = "loop"
  /\ UNCHANGED <<bufferVars, packetsSent, packetSent, running, keep,
                 linkVars, notifying, mainVars, written, timed>>

\* The wait of the Active state.
WaitForData ==
  /\ pc = "waitData"
  /\ ready \/ timed
  /\ ready' = FALSE
  /\ pc' = "flush"
  /\ flushing' = "loop"
  /\ UNCHANGED <<bufferVars, packetsSent, packetSent, running, keep,
                 linkVars, notifying, mainVars, written, timed>>

\* FlushBuffer takes the next readable buffer...
FlushNext ==
  /\ pc = "flush"
  /\ BM!GetReadableBuffer
  /\ pc' = "write"
  /\ UNCHANGED <<flushVars, running, keep, linkVars, ready, notifying,
                 mainVars, written, timed>>

\* ...sends it if it is not empty and the connection is open, else drops it...
WritePacket ==
  /\ pc = "write"
  /\ LET sent == reading.size > 0 /\ open
     IN /\ packetsSent' = (packetsSent \/ sent)
        /\ written' = IF sent /\ reading.src \in Clients
                      THEN [written EXCEPT ![reading.src] = reading.no]
                      ELSE written
  /\ pc' = "markRead"
  /\ UNCHANGED <<bufferVars, flushing, packetSent, running, keep,
                 linkVars, ready, notifying, mainVars, timed>>

\* ...and gives it back.
FlushMarkRead ==
  /\ pc = "markRead"
  /\ BM!MarkRead
  /\ pc' = "flush"
  /\ UNCHANGED <<flushVars, running, keep, linkVars, ready, notifying,
                 mainVars, written, timed>>

(* Mutant: the watchers are not told. *)
FlushEndUntold ==
  /\ pc = "flush"
  /\ readable = <<>>
  /\ pc' = CASE flushing = "metadata" -> "waitAck" [] flushing = "loop" -> "test"
             [] flushing = "final" -> "done"
  /\ running' = (running /\ flushing # "final")
  /\ flushing' = "no"
  /\ packetsSent' = FALSE
  /\ UNCHANGED <<bufferVars, packetSent, keep, linkVars, ready, notifying,
                 mainVars, written, timed>>

\* The queue is empty: tell the watchers that something was sent, unless the
\* thread is shutting down, and continue after the call.
FlushEnd ==
  /\ pc = "flush"
  /\ readable = <<>>
  /\ packetSent' = (packetSent \/ (packetsSent /\ flushing # "final"))
  /\ pc' = CASE flushing = "metadata" -> "waitAck"
             [] flushing = "loop" -> "test"
             [] flushing = "final" -> "done"
  /\ running' = (running /\ flushing # "final")
  /\ flushing' = "no"
  /\ packetsSent' = FALSE
  /\ UNCHANGED <<bufferVars, keep, linkVars, ready, notifying,
                 mainVars, written, timed>>

(* Mutant: no flush after the loop. *)
TestKeepRunningNoFlush ==
  /\ pc = "test"
  /\ pc' = IF keep THEN "check" ELSE "done"
  /\ running' = keep
  /\ UNCHANGED <<bufferVars, flushVars, keep, linkVars, ready, notifying,
                 mainVars, written, timed>>

\* while (m_KeepRunning): loop, or flush what is left.
TestKeepRunning ==
  /\ pc = "test"
  /\ pc' = IF keep THEN "check" ELSE "flush"
  /\ flushing' = IF keep THEN "no" ELSE "final"
  /\ UNCHANGED <<bufferVars, packetsSent, packetSent, running, keep,
                 linkVars, ready, notifying, mainVars, written, timed>>

SendStep ==
  \/ CheckState
  \/ ReserveMetadata
  \/ CommitMetadata
  \/ WaitForAck
  \/ WaitForData
  \/ FlushNext
  \/ WritePacket
  \/ FlushMarkRead
  \/ FlushEnd
  \/ TestKeepRunning
------------------------------------------------------------------------------
(* The clients: any thread that builds packets, SetReadyToRead after them.  *)

\* An exception that leaves Send ends the process: nothing runs any more.
Alive == pc # "terminated"

ClientFrame ==
  /\ Alive
  /\ UNCHANGED <<threadVars, linkVars, ready, mainVars, written, timed>>

ClientReserve(c, size) ==
  /\ c \notin notifying
  /\ BM!Reserve(c, size)
  /\ UNCHANGED notifying
  /\ ClientFrame

\* A refused reservation of SendCounterPacket notifies the consumer
\* (FlushReadList) before it throws.
ClientExhausted(c, size) ==
  /\ c \notin notifying
  /\ writing[c] = NoBuffer
  /\ ~BM!CanReserve(size)
  /\ notifying' = notifying \cup {c}
  /\ UNCHANGED bufferVars
  /\ ClientFrame

ClientCommit(c, size) ==
  /\ c \notin notifying
  /\ BM!Commit(c, size)
  /\ notifying' = notifying \cup {c}
  /\ ClientFrame

ClientGiveUp(c) ==
  /\ c \notin notifying
  /\ BM!Release(c) \/ BM!Drop(c)
  /\ UNCHANGED notifying
  /\ ClientFrame

SetReadyToRead(c) ==
  /\ Alive
  /\ c \in notifying
  /\ notifying' = notifying \ {c}
  /\ ready' = TRUE
  /\ UNCHANGED <<bufferVars, threadVars, linkVars, mainVars, written, timed>>

ClientStep(c) ==
  \/ \E size \in Sizes :
       ClientReserve(c, size) \/ ClientExhausted(c, size) \/ ClientCommit(c, size)
  \/ ClientGiveUp(c)
  \/ SetReadyToRead(c)
------------------------------------------------------------------------------
(* The main thread: Start and Stop, called as ProfilingService does, and    *)
(* the outside: the peer and the command thread.                            *)

\* ProfilingService::Update leaves Uninitialised.
Initialise ==
  /\ Alive
  /\ main = "idle"
  /\ state = "Uninitialised"
  /\ state' = "NotConnected"
  /\ UNCHANGED <<bufferVars, threadVars, open, ready, notifying, mainVars, written, timed>>

\* Start, from Update while the state is WaitingForAck.
Start ==
  /\ main = "idle"
  /\ state = "WaitingForAck"
  /\ ~running
  /\ pc \in {"none", "done", "refused"}
  /\ sessions < MaxSessions
  /\ sessions' = sessions + 1
  /\ pc' = "check"
  /\ running' = TRUE
  /\ keep' = TRUE
  /\ ready' = FALSE
  /\ packetSent' = FALSE
  /\ UNCHANGED <<bufferVars, flushing, packetsSent, linkVars, notifying,
                 main, stopping, due, written, timed>>

\* Stop clears m_KeepRunning; with no thread to join it has nothing else to do.
\* Update stops the thread before it connects; Stop and Reset always do.
Stop(why) ==
  /\ Alive
  /\ main = "idle"
  /\ why = "connect" => state = "NotConnected"
  /\ keep' = FALSE
  /\ stopping' = why
  /\ main' = IF pc = "none" THEN "stopped" ELSE "kick"
  /\ due' = [c \in Clients |-> committed[c]]
  /\ UNCHANGED <<bufferVars, pc, flushVars, running, linkVars, ready,
                 notifying, sessions, written, timed>>

(* Mutant: the thread is not kicked out of its wait. *)
StopKickMissing ==
  /\ Alive
  /\ main = "kick"
  /\ main' = "join"
  /\ UNCHANGED <<bufferVars, threadVars, linkVars, ready, notifying, stopping, due,
                 sessions, written, timed>>

\* Stop calls SetReadyToRead...
StopKick ==
  /\ Alive
  /\ main = "kick"
  /\ ready' = TRUE
  /\ main' = "join"
  /\ UNCHANGED <<bufferVars, threadVars, linkVars, notifying, stopping, due,
                 sessions, written, timed>>

(* Mutant: Stop does not wait for the thread. *)
StopJoinNotWaiting ==
  /\ main = "join"
  /\ main' = "stopped"
  /\ UNCHANGED <<bufferVars, threadVars, linkVars, ready, notifying, stopping,
                 due, sessions, written, timed>>

\* ...and joins.
StopJoin ==
  /\ main = "join"
  /\ pc \in {"done", "refused"}
  /\ pc' = "none"
  /\ main' = "stopped"
  /\ UNCHANGED <<bufferVars, flushVars, running, keep, linkVars, ready,
                 notifying, stopping, due, sessions, written, timed>>

\* What ProfilingService does once the thread is stopped: connect (which may
\* fail), or close the connection, or that and reset the pool.
AfterStop ==
  /\ main = "stopped"
  /\ main' = "idle"
  /\ due' = NonePending
  /\ stopping' = "no"
  /\ \/ /\ stopping = "connect"
        /\ open' \in BOOLEAN
        /\ state' = IF open' THEN "WaitingForAck" ELSE "NotConnected"
        /\ UNCHANGED bufferVars
     \/ /\ stopping = "stop"
        /\ open' = FALSE
        /\ state' = "NotConnected"
        /\ UNCHANGED bufferVars
     \/ /\ stopping = "reset"
        /\ open' = FALSE
        /\ state' = "Uninitialised"
        /\ BM!ResetPool
  /\ UNCHANGED <<threadVars, ready, notifying, sessions, written, timed>>

MainStep ==
  \/ Initialise
  \/ Start
  \/ \E why \in {"connect", "stop", "reset"} : Stop(why)
  \/ StopKick
  \/ StopJoin
  \/ AfterStop

\* The command thread handles the peer's ConnectionAcknowledged; it is joined
\* before the send thread is stopped.
Acknowledge ==
  /\ Alive
  /\ main = "idle"
  /\ open
  /\ state = "WaitingForAck"
  /\ state' = "Active"
  /\ UNCHANGED <<bufferVars, threadVars, open, ready, notifying, mainVars, written, timed>>

\* The connection is lost.
ConnectionLost ==
  /\ Alive
  /\ open
  /\ open' = FALSE
  /\ UNCHANGED <<bufferVars, threadVars, state, ready, notifying, mainVars, written, timed>>

\* A watcher of m_PacketSent clears it (a watcher that times out changes nothing).
WaitForPacketSent ==
  /\ Alive
  /\ packetSent
  /\ packetSent' = FALSE
  /\ UNCHANGED <<bufferVars, pc, flushing, packetsSent, running, keep,
                 linkVars, ready, notifying, mainVars, written, timed>>

Next ==
  \/ SendStep
  \/ \E c \in Clients : ClientStep(c)
  \/ MainStep
  \/ Acknowledge
  \/ ConnectionLost
  \/ WaitForPacketSent

Spec == Init /\ [][Next]_vars

\* The threads are scheduled: the send thread runs (and its timeouts expire), a
\* client that committed goes on to notify, Stop goes on once it can.
Fairness ==
  /\ WF_vars(SendStep)
  /\ \A c \in Clients : WF_vars(SetReadyToRead(c))
  /\ WF_vars(StopKick \/ StopJoin \/ AfterStop)

FairSpec == Spec /\ Fairness
------------------------------------------------------------------------------
PCs == {"none", "check", "metadata", "commitMetadata", "waitAck", "waitData",
        "flush", "write", "markRead", "test", "done", "refused", "terminated"}

TypeOK ==
  /\ BM!TypeOK
  /\ timed \in Timeouts
  /\ state \in {"Uninitialised", "NotConnected", "WaitingForAck", "Active"}
  /\ {open, packetsSent, running, keep, ready, packetSent} \subseteq BOOLEAN
  /\ pc \in PCs
  /\ flushing \in {"no", "metadata", "loop", "final"}
  /\ notifying \subseteq Clients
  /\ main \in {"idle", "kick", "join", "stopped"}
  /\ stopping \in {"no", "connect", "stop", "reset"}
  /\ written \in [Clients -> Nat]
  /\ due \in [Clients -> Nat]
  /\ sessions \in Nat

\* Every step of the send thread, the clients and the main thread is a step of
\* the buffer pool: in particular the pool is reset only when the send thread
\* and the service's other threads hold no buffer.
RefinesBufferManager == BM!Spec

\* A packet reaches the connection at most once and after the earlier packets
\* of its client.
WireInOrder ==
  [][\A c \in Clients : written'[c] = written[c] \/ written'[c] > written[c]]_vars

\* "Ensure that all readable data got written to the profiling connection before
\* the thread is stopped": Stop returns when everything committed before it was
\* called has left the queue.
StopFlushes ==
  [][main = "join" /\ main' = "stopped" => \A c \in Clients : taken'[c] >= due[c]]_vars

\* Stop returns, whatever the thread waits for, with a timeout or without.
StopReturns == main # "idle" ~> main = "idle" \/ pc = "terminated"

\* With a timeout a committed packet leaves the queue while the thread runs,
\* although the commit and its notification are two steps.
CommittedIsTaken ==
  \A c \in Clients, n \in 1..MaxPackets :
    timed /\ committed[c] >= n /\ running ~> taken[c] >= n \/ ~running \/ pc = "terminated"

\* A watcher waiting for a packet to be sent is told of it.
SentIsAnnounced == pc = "markRead" /\ packetsSent /\ flushing # "final" ~> packetSent
==============================================================================
