--------------------------- MODULE FileOnlyConnection ---------------------------
(***************************************************************************)
(* The profiling connection that stays in the process                      *)
(* (profiling/client/src/FileOnlyProfilingConnection.cpp): the send thread *)
(* writes packets to it, its own thread hands them to the local packet     *)
(* handlers, a handler may return a packet, and the command thread reads   *)
(* what is returned.  It is used as ProfilingService uses it: the command  *)
(* and send threads are joined before the connection is closed (module     *)
(* ProfilingService, ConnectionOutlivesThreads).  The destructor closes it *)
(* once more, with no thread left: that only empties the packet queue.     *)
(*                                                                         *)
(* m_ReadableList is under m_ReadableMutex: testing the predicate and      *)
(* blocking is one step, and so is taking a packet after the wait.  The    *)
(* notifications are sent outside the mutex and are steps of their own.    *)
(***************************************************************************)
EXTENDS Integers, Sequences

CONSTANTS
  Kinds,       \* what the handlers do with a packet
  Timeouts,    \* whether m_Timeout >= 0, of the connections considered
  NoPacket,    \* no packet taken
  MaxPackets   \* bound: packets written

ASSUME FileOnlyAssumption ==
  /\ Kinds \subseteq {"plain", "metadata", "refused"}
  /\ Timeouts \subseteq BOOLEAN
  /\ NoPacket \notin [no : Nat, kind : Kinds]
  /\ MaxPackets \in Nat

VARIABLES
  timed,        \* m_Timeout >= 0
  readable,     \* m_ReadableList
  packetQueue,  \* m_PacketQueue: the packets returned, by what they answer
  keep,         \* m_KeepRunning
  pc,           \* where the handler thread is in ServiceLocalHandlers
  taken,        \* returnedPacket
  writer,       \* where the send thread is in WritePacket
  owner,        \* where the owner of the connection is in Close
  unread,       \* the pops its dump has still to do
  terminated,   \* an exception left the handler thread
  written,      \* history: packets written
  handled,      \* history: the packet handled last
  answered      \* history: what the packet read last answers

queueVars == <<readable, packetQueue>>
ownerVars == <<owner, unread>>
historyVars == <<written, handled, answered>>
vars == <<queueVars, keep, pc, taken, writer, ownerVars, terminated, historyVars, timed>>

\* A packet: the how-many-eth of the send thread, and its kind.
Packet == [no : 1..MaxPackets, kind : Kinds]

Init ==
  /\ timed \in Timeouts
  /\ readable = <<>>
  /\ packetQueue = <<>>
  /\ keep = TRUE
  /\ pc = "test"
  /\ taken = NoPacket
  /\ writer = "idle"
  /\ owner = "open"
  /\ unread = 0
  /\ terminated = FALSE
  /\ written = 0
  /\ handled = NoPacket
  /\ answered = 0
------------------------------------------------------------------------------
(* The handler thread: ServiceLocalHandlers.                                *)

(* Mutant: front() without pop(). *)
TakeNoPop ==
  IF keep
  THEN /\ taken' = IF readable = <<>> THEN NoPacket ELSE Head(readable)
       /\ UNCHANGED readable
  ELSE /\ readable' = <<>>
       /\ UNCHANGED taken

\* After the wait, still under the mutex: take a packet, if there is one, or
\* throw all of them away.
Take ==
  IF keep
  THEN /\ taken' = IF readable = <<>> THEN NoPacket ELSE Head(readable)
       /\ readable' = IF readable = <<>> THEN <<>> ELSE Tail(readable)
  ELSE /\ readable' = <<>>
       /\ UNCHANGED taken

\* The wait returns at once if there is a packet, else it blocks.
TestReadable ==
  /\ ~terminated
  /\ pc = "test"
  /\ IF readable = <<>>
     THEN pc' = "blocked" /\ UNCHANGED <<readable, taken>>
     ELSE pc' = "dispatch" /\ Take
  /\ UNCHANGED <<packetQueue, keep, writer, ownerVars, terminated, historyVars, timed>>

\* The wait ends by its timeout, whether or not there is a packet.
Timeout ==
  /\ ~terminated
  /\ timed
  /\ pc = "blocked"
  /\ pc' = "dispatch"
  /\ Take
  /\ UNCHANGED <<packetQueue, keep, writer, ownerVars, terminated, historyVars, timed>>

SpuriousWakeup ==
  /\ ~terminated
  /\ pc = "blocked"
  /\ pc' = "test"
  /\ UNCHANGED <<queueVars, keep, taken, writer, ownerVars, terminated, historyVars, timed>>

\* The packet is not dispatched when the thread is told to stop meanwhile...
SkipDispatch ==
  /\ ~terminated
  /\ pc = "dispatch"
  /\ ~keep \/ taken = NoPacket
  /\ pc' = "loop"
  /\ taken' = NoPacket
  /\ UNCHANGED <<queueVars, keep, writer, ownerVars, terminated, historyVars, timed>>

\* ...but the connection may be told to close while the handlers have it.
BeginDispatch ==
  /\ ~terminated
  /\ pc = "dispatch"
  /\ keep
  /\ taken # NoPacket
  /\ pc' = "handle"
  /\ UNCHANGED <<queueVars, keep, taken, writer, ownerVars, terminated, historyVars, timed>>

(* Mutant: the answer is put in front of the queue. *)
DispatchInFront ==
  /\ ~terminated
  /\ pc = "handle"
  /\ taken.kind # "refused"
  /\ handled' = taken
  /\ packetQueue' = IF taken.kind = "metadata" THEN <<taken.no>> \o packetQueue
                                               ELSE packetQueue
  /\ pc' = "loop"
  /\ taken' = NoPacket
  /\ UNCHANGED <<readable, keep, writer, ownerVars, terminated, written, answered, timed>>

\* DispatchPacketToHandlers; the StreamMetaDataProcessor returns an
\* acknowledgement for each stream metadata packet.
Dispatch ==
  /\ ~terminated
  /\ pc = "handle"
  /\ taken.kind # "refused"
  /\ handled' = taken
  /\ packetQueue' = IF taken.kind = "metadata" THEN Append(packetQueue, taken.no)
                                               ELSE packetQueue
  /\ pc' = "loop"
  /\ taken' = NoPacket
  /\ UNCHANGED <<readable, keep, writer, ownerVars, terminated, written, answered, timed>>

\* A handler throws.  The exception of a universal handler leaves the thread;
\* for the others Fail closes the connection from the handler thread itself:
\* it empties the packet queue and clears m_KeepRunning...
HandlerThrows ==
  /\ ~terminated
  /\ pc = "handle"
  /\ taken.kind = "refused"
  /\ \/ /\ terminated' = TRUE
        /\ UNCHANGED <<packetQueue, keep, pc>>
     \/ /\ packetQueue' = <<>>
        /\ keep' = FALSE
        /\ pc' = "fail"
        /\ UNCHANGED terminated
  /\ UNCHANGED <<readable, taken, writer, ownerVars, historyVars, timed>>

\* ...and joins the thread it runs in, which throws another exception.
JoinItself ==
  /\ ~terminated
  /\ pc = "fail"
  /\ terminated' = TRUE
  /\ UNCHANGED <<queueVars, keep, pc, taken, writer, ownerVars, historyVars, timed>>

\* while (m_KeepRunning); the list is cleared without its mutex at the end.
Loop ==
  /\ ~terminated
  /\ pc = "loop"
  /\ IF keep
     THEN pc' = "test" /\ UNCHANGED readable
     ELSE pc' = "done" /\ readable' = <<>>
  /\ UNCHANGED <<packetQueue, keep, taken, writer, ownerVars, terminated, historyVars,
                 timed>>

HandlerStep ==
  \/ TestReadable
  \/ Timeout
  \/ SkipDispatch
  \/ BeginDispatch
  \/ Dispatch
  \/ HandlerThrows
  \/ JoinItself
  \/ Loop
------------------------------------------------------------------------------
(* The send thread and the command thread.                                  *)

\* WritePacket: nothing is forwarded to a thread that was told to stop...
WritePacket ==
  /\ ~terminated
  /\ owner = "open"
  /\ writer = "idle"
  /\ written < MaxPackets
  /\ keep
  /\ writer' = "push"
  /\ UNCHANGED <<queueVars, keep, pc, taken, ownerVars, terminated, historyVars, timed>>

\* ...a second test, under the mutex, and the packet is queued...
Push(kind) ==
  /\ ~terminated
  /\ writer = "push"
  /\ IF keep
     THEN /\ readable' = Append(readable, [no |-> written + 1, kind |-> kind])
          /\ written' = written + 1
          /\ writer' = "notify"
     ELSE /\ writer' = "idle"
          /\ UNCHANGED <<readable, written>>
  /\ UNCHANGED <<packetQueue, keep, pc, taken, ownerVars, terminated, handled, answered,
                 timed>>

\* notify_one of m_ConditionPacketReadable.
Wake == pc' = IF pc = "blocked" THEN "test" ELSE pc

(* Mutant: nobody is notified. *)
NotifySilently ==
  /\ ~terminated
  /\ writer = "notify"
  /\ writer' = "idle"
  /\ UNCHANGED <<queueVars, keep, pc, taken, ownerVars, terminated, historyVars, timed>>

\* ...and the handler thread is notified.
Notify ==
  /\ ~terminated
  /\ writer = "notify"
  /\ writer' = "idle"
  /\ Wake
  /\ UNCHANGED <<queueVars, keep, taken, ownerVars, terminated, historyVars, timed>>

WriterStep == (\E kind \in Kinds : Push(kind)) \/ Notify

\* ReadPacket returns the oldest packet; after its timeout it returns an empty
\* one and changes nothing.
ReadPacket ==
  /\ ~terminated
  /\ owner = "open"
  /\ packetQueue # <<>>
  /\ answered' = Head(packetQueue)
  /\ packetQueue' = Tail(packetQueue)
  /\ UNCHANGED <<readable, keep, pc, taken, writer, ownerVars, terminated, written,
                 handled, timed>>
------------------------------------------------------------------------------
(* The owner closes the connection, with no other user left.                *)

\* Close reads the size of the packet queue, without its mutex...
Close ==
  /\ ~terminated
  /\ owner = "open"
  /\ writer = "idle"
  /\ owner' = "dump"
  /\ unread' = Len(packetQueue)
  /\ UNCHANGED <<queueVars, keep, pc, taken, writer, terminated, historyVars, timed>>

\* ...pops as many packets (the queue is shorter only if a handler has failed
\* meanwhile, which ends the process)...
DumpUnread ==
  /\ ~terminated
  /\ owner = "dump"
  /\ unread > 0
  /\ packetQueue' = IF packetQueue = <<>> THEN <<>> ELSE Tail(packetQueue)
  /\ unread' = unread - 1
  /\ UNCHANGED <<readable, keep, pc, taken, writer, owner, terminated, historyVars, timed>>

(* Mutant: the thread is not told. *)
StopHandlersUntold ==
  /\ ~terminated
  /\ owner = "dump"
  /\ unread = 0
  /\ owner' = "notify"
  /\ UNCHANGED <<queueVars, keep, pc, taken, writer, unread, terminated, historyVars,
                 timed>>

\* ...clears m_KeepRunning, which is not under the mutex of the wait...
StopHandlers ==
  /\ ~terminated
  /\ owner = "dump"
  /\ unread = 0
  /\ keep' = FALSE
  /\ owner' = "notify"
  /\ UNCHANGED <<queueVars, pc, taken, writer, unread, terminated, historyVars, timed>>

\* ...notifies the handler thread...
NotifyStop ==
  /\ ~terminated
  /\ owner = "notify"
  /\ Wake
  /\ owner' = "join"
  /\ UNCHANGED <<queueVars, keep, taken, writer, unread, terminated, historyVars, timed>>

\* ...and joins it.
JoinHandlers ==
  /\ ~terminated
  /\ owner = "join"
  /\ pc = "done"
  /\ owner' = "closed"
  /\ UNCHANGED <<queueVars, keep, pc, taken, writer, unread, terminated, historyVars,
                 timed>>

CloseStep == DumpUnread \/ StopHandlers \/ NotifyStop \/ JoinHandlers

Next ==
  \/ HandlerStep
  \/ SpuriousWakeup
  \/ WritePacket
  \/ WriterStep
  \/ ReadPacket
  \/ Close
  \/ CloseStep

Spec == Init /\ [][Next]_vars

\* The handler thread runs, a WritePacket and a Close that began go on; nobody
\* has to write, read or close.  The wait has a deadline that spurious wakeups
\* do not move: its timeout comes however often the thread wakes before.
Fairness ==
  /\ WF_vars(HandlerStep)
  /\ SF_vars(Timeout)
  /\ WF_vars(WriterStep)
  /\ WF_vars(CloseStep)

FairSpec == Spec /\ Fairness
------------------------------------------------------------------------------
TypeOK ==
  /\ timed \in Timeouts
  /\ readable \in Seq(Packet)
  /\ packetQueue \in Seq(Nat)
  /\ keep \in BOOLEAN
  /\ pc \in {"test", "blocked", "dispatch", "handle", "loop", "fail", "done"}
  /\ taken \in Packet \cup {NoPacket}
  /\ writer \in {"idle", "push", "notify"}
  /\ owner \in {"open", "dump", "notify", "join", "closed"}
  /\ unread \in Nat
  /\ terminated \in BOOLEAN
  /\ written \in Nat
  /\ handled \in Packet \cup {NoPacket}
  /\ answered \in Nat

\* Every packet written is handled once and in order until the connection is
\* told to close, although it is tested, taken, and tested again before it is
\* dispatched.
Delivery ==
  INSTANCE PacketDelivery WITH
    pending <- IF taken = NoPacket THEN readable ELSE <<taken>> \o readable,
    delivered <- handled,
    closing <- ~keep

RefinesPacketDelivery == Delivery!Spec

\* The acknowledgements reach the command thread in the order of the packets
\* they answer, each at most once.
AnsweredInOrder == [][answered' = answered \/ answered' > answered]_vars

\* A closed connection has no thread and no packet for its handlers.
ClosedIsQuiet == owner = "closed" => pc = "done" /\ readable = <<>> /\ ~keep

\* A packet written is handled, although it is queued and notified in two
\* steps, even if nothing but a notification ends the wait.
WrittenIsHandled ==
  \A n \in 1..MaxPackets :
    written >= n ~> (handled # NoPacket /\ handled.no >= n) \/ ~keep \/ terminated

\* Close returns, thanks to the timeout of the wait.
CloseReturns == timed /\ owner # "open" ~> owner = "closed" \/ terminated
===============================================================================
