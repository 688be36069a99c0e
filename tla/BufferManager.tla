---------------------------- MODULE BufferManager ----------------------------
(***************************************************************************)
(* The pool of packet buffers of the profiling client                      *)
(* (profiling/client/src/BufferManager.cpp, PacketBuffer.cpp), shared by   *)
(* every thread that builds a packet and by the one thread that sends them.*)
(*                                                                         *)
(* Each action is one critical section of the code: Reserve, Release and   *)
(* MarkRead hold m_AvailableMutex, Commit and GetReadableBuffer hold       *)
(* m_ReadableMutex, Reset holds both.  Buffers are interchangeable (their  *)
(* content is rewritten by each reservation), so m_AvailableList is its    *)
(* length; the queue m_ReadableList keeps its packets.  A buffer is owned  *)
(* by a unique_ptr: it is in the available list, in the readable queue,    *)
(* with the writer that reserved it or with the reader, or it is gone.     *)
(***************************************************************************)
EXTENDS Naturals, Sequences, FiniteSets

CONSTANTS
  Writers,          \* threads (packet builders) that reserve buffers
  Clients,          \* the writers that ProfilingService::Reset does not join
  NumberOfBuffers,  \* m_NumberOfBuffers
  MaxBufferSize,    \* m_MaxBufferSize
  Sizes,            \* packet sizes asked for
  NoBuffer,         \* a null IPacketBufferPtr
  Numbered,         \* the writers whose packets the history numbers
  MaxPackets        \* bound: numbered packets committed by one writer

ASSUME BufferManagerAssumption ==
  /\ IsFiniteSet(Writers)
  /\ Clients \subseteq Writers
  /\ Numbered \subseteq Writers
  /\ NumberOfBuffers \in Nat
  /\ MaxBufferSize \in Nat
  /\ Sizes \subseteq Nat
  /\ NoBuffer \notin Nat
  /\ NoBuffer \notin [src : Writers, no : Nat, size : Sizes]
  /\ MaxPackets \in Nat

VARIABLES
  available,  \* m_AvailableList.size()
  readable,   \* m_ReadableList
  current,    \* m_CurrentNumberOfBuffers
  writing,    \* per writer, the size it reserved, or NoBuffer
  reading,    \* the packet the reader took, or NoBuffer
  committed,  \* history: packets committed by each writer
  taken,      \* history: packets of each writer that left the queue
  dropped,    \* history: buffers destroyed unseen by the pool since Reset
  orphaned    \* history: buffers held across the last Reset

poolVars == <<available, current>>
historyVars == <<committed, taken, dropped, orphaned>>
bufferVars == <<available, readable, current, writing, reading,
                committed, taken, dropped, orphaned>>

MaxNumberOfBuffers == NumberOfBuffers * 3

\* A packet: who built it, the how-many-eth of its numbered builder, its size.
Packet == [src : Writers, no : Nat, size : Sizes]

Holding == {w \in Writers : writing[w] # NoBuffer}

BeingRead == IF reading = NoBuffer THEN 0 ELSE 1

\* The buffers that exist.
Live == available + Len(readable) + Cardinality(Holding) + BeingRead

Init ==
  /\ available = NumberOfBuffers
  /\ readable = <<>>
  /\ current = NumberOfBuffers
  /\ writing = [w \in Writers |-> NoBuffer]
  /\ reading = NoBuffer
  /\ committed = [w \in Writers |-> 0]
  /\ taken = [w \in Writers |-> 0]
  /\ dropped = 0
  /\ orphaned = 0
------------------------------------------------------------------------------
(* Mutant: the limit is tested with <= instead of <. *)
CanReserveOffByOne(size) ==
  /\ size <= MaxBufferSize
  /\ available > 0 \/ current <= MaxNumberOfBuffers

\* Reserve returns a buffer: the request fits and the pool is not exhausted.
CanReserve(size) ==
  /\ size <= MaxBufferSize
  /\ available > 0 \/ current < MaxNumberOfBuffers

(* Mutant: a surge buffer is handed out without being counted. *)
ReserveUncounted(w, size) ==
  /\ writing[w] = NoBuffer
  /\ CanReserve(size)
  /\ writing' = [writing EXCEPT ![w] = size]
  /\ available' = IF available > 0 THEN available - 1 ELSE available
  /\ UNCHANGED <<current, readable, reading, historyVars>>

\* Take the last available buffer, or create a surge buffer.
Reserve(w, size) ==
  /\ writing[w] = NoBuffer
  /\ CanReserve(size)
  /\ writing' = [writing EXCEPT ![w] = size]
  /\ \/ /\ available > 0
        /\ available' = available - 1
        /\ UNCHANGED current
     \/ /\ available = 0
        /\ current' = current + 1
        /\ UNCHANGED available
  /\ UNCHANGED <<readable, reading, historyVars>>

\* The number of the next packet of w; the packets of an unnumbered writer
\* are all alike (the stream metadata, sent again and again).
NextNo(w) == IF w \in Numbered THEN committed[w] + 1 ELSE 0

(* Mutant: the packet is put in front of the queue. *)
CommitInFront(w, size) ==
  /\ writing[w] # NoBuffer
  /\ size <= writing[w]
  /\ NextNo(w) <= MaxPackets
  /\ committed' = [committed EXCEPT ![w] = NextNo(w)]
  /\ readable' = <<[src |-> w, no |-> NextNo(w), size |-> size]>> \o readable
  /\ writing' = [writing EXCEPT ![w] = NoBuffer]
  /\ UNCHANGED <<poolVars, reading, taken, dropped, orphaned>>

\* Give the written buffer to the readable queue (the notification of the
\* consumer, which takes another mutex, is a step of the SendThread module).
Commit(w, size) ==
  /\ writing[w] # NoBuffer
  /\ size <= writing[w]
  /\ NextNo(w) <= MaxPackets
  /\ committed' = [committed EXCEPT ![w] = NextNo(w)]
  /\ readable' = Append(readable, [src |-> w, no |-> NextNo(w), size |-> size])
  /\ writing' = [writing EXCEPT ![w] = NoBuffer]
  /\ UNCHANGED <<poolVars, reading, taken, dropped, orphaned>>

\* The common part of Release and MarkRead: keep the buffer or destroy it.
ReturnBuffer ==
  IF available <= NumberOfBuffers
  THEN available' = available + 1 /\ UNCHANGED current
  ELSE /\ current' = IF current > NumberOfBuffers THEN current - 1 ELSE current
       /\ UNCHANGED available

\* A writer gives up an unwritten buffer (CancelOperationAndThrow).
Release(w) ==
  /\ writing[w] # NoBuffer
  /\ writing' = [writing EXCEPT ![w] = NoBuffer]
  /\ ReturnBuffer
  /\ UNCHANGED <<readable, reading, historyVars>>

\* A SendTimelinePacket destroyed before its Commit frees the buffer it
\* reserved: the pool is not told.
Drop(w) ==
  /\ writing[w] # NoBuffer
  /\ writing' = [writing EXCEPT ![w] = NoBuffer]
  /\ dropped' = dropped + 1
  /\ UNCHANGED <<poolVars, readable, reading, committed, taken, orphaned>>

GetReadableBuffer ==
  /\ reading = NoBuffer
  /\ readable # <<>>
  /\ reading' = Head(readable)
  /\ readable' = Tail(readable)
  /\ taken' = [taken EXCEPT ![Head(readable).src] = Head(readable).no]
  /\ UNCHANGED <<poolVars, writing, committed, dropped, orphaned>>

MarkRead ==
  /\ reading # NoBuffer
  /\ reading' = NoBuffer
  /\ ReturnBuffer
  /\ UNCHANGED <<readable, writing, historyVars>>

\* Every buffer is replaced by a new one: the readable packets are thrown
\* away, and a client may still hold a buffer of the old pool.
ResetPool ==
  /\ available' = NumberOfBuffers
  /\ readable' = <<>>
  /\ current' = NumberOfBuffers
  /\ taken' = committed
  /\ dropped' = 0
  /\ orphaned' = Cardinality(Holding)
  /\ UNCHANGED <<writing, reading, committed>>

\* The pool is reset once the service's own threads are joined.
Reset ==
  /\ reading = NoBuffer
  /\ Holding \subseteq Clients
  /\ ResetPool

WriterStep(w) ==
  \/ \E size \in Sizes : Reserve(w, size) \/ Commit(w, size)
  \/ Release(w)
  \/ Drop(w)

Next ==
  \/ \E w \in Writers : WriterStep(w)
  \/ GetReadableBuffer
  \/ MarkRead
  \/ Reset

Spec == Init /\ [][Next]_bufferVars
------------------------------------------------------------------------------
TypeOK ==
  /\ available \in Nat
  /\ readable \in Seq(Packet)
  /\ current \in Nat
  /\ writing \in [Writers -> Sizes \cup {NoBuffer}]
  /\ reading \in Packet \cup {NoBuffer}
  /\ committed \in [Writers -> Nat]
  /\ taken \in [Writers -> Nat]
  /\ dropped \in Nat
  /\ orphaned \in Nat

\* m_CurrentNumberOfBuffers counts the buffers that exist, whatever the order
\* of Reserve, Commit, Release, MarkRead and Reset by all the threads: it is
\* off only by the buffers that were destroyed outside the pool, or carried
\* across a Reset.
PoolAccounting ==
  /\ current <= Live + dropped
  /\ Live + dropped <= current + orphaned

\* The limit of Reserve bounds memory: never more than three times the initial
\* number of buffers exist, plus those a client carried across a Reset.
MemoryBounded ==
  /\ NumberOfBuffers <= current
  /\ current <= MaxNumberOfBuffers
  /\ Live <= MaxNumberOfBuffers + orphaned

\* The queue holds, for each numbered writer, exactly the packets it committed
\* and the reader has not taken, each once and in the order of its commits.
ReadableInOrder ==
  /\ \A i \in 1..Len(readable) :
       LET p == readable[i]
       IN p.src \in Numbered => taken[p.src] < p.no /\ p.no <= committed[p.src]
  /\ \A i, j \in 1..Len(readable) :
       i < j /\ readable[i].src = readable[j].src /\ readable[i].src \in Numbered
         => readable[i].no < readable[j].no
  /\ \A w \in Numbered : \A n \in (taken[w] + 1)..committed[w] :
       \E i \in 1..Len(readable) : readable[i].src = w /\ readable[i].no = n
==============================================================================
