---------------------------- MODULE SendThreadProofs ----------------------------
(***************************************************************************)
(* Proofs about SendThread for every set of client threads, every size of  *)
(* the pool and any number of sessions: the system implements the pool of  *)
(* BufferManager, a stop leaves nothing behind and comes to an end, each   *)
(* client's packets are sent in their order, and no notification is lost   *)
(* but in Start.                                                           *)
(***************************************************************************)
EXTENDS SendThread, FiniteSetTheorems, TLAPS

\* The buffers of the send thread: the one it reads, and the one of its
\* metadata packet.
SenderHolds ==
  /\ reading # NoBuffer <=> pc \in {"write", "markRead"}
  /\ writing[Sender] # NoBuffer <=> pc = "commitMetadata"

\* The thread runs only while the service is connected, and is told to end only
\* by a Stop that will join it.
ThreadIsOwned ==
  /\ pc # "none" => state \in {"WaitingForAck", "Active"}
  /\ pc # "refused"
  /\ main = "stopped" => pc = "none"
  /\ main \in {"kick", "join"} => ~keep
  /\ main = "idle" /\ pc # "none" => keep
  /\ pc = "done" => ~keep
  /\ pc \in {"flush", "write", "markRead"} => flushing # "no"
  /\ pc \in {"flush", "write", "markRead"} /\ flushing = "final" => ~keep

\* The packets of a client in the queue, of those it committed and the send
\* thread has not taken, in their order, up to the last one.
QueueOrdered ==
  /\ \A i \in 1..Len(readable) :
       readable[i].src \in Clients =>
         /\ taken[readable[i].src] < readable[i].no
         /\ readable[i].no <= committed[readable[i].src]
  /\ \A i, j \in 1..Len(readable) :
       i < j /\ readable[i].src = readable[j].src /\ readable[i].src \in Clients
         => readable[i].no < readable[j].no
  /\ \A c \in Clients :
       taken[c] < committed[c] =>
         \E i \in 1..Len(readable) : readable[i].src = c /\ readable[i].no = committed[c]

\* What was sent was taken, and what the thread is about to send was not sent.
SentAgrees ==
  /\ \A c \in Clients : written[c] <= taken[c] /\ taken[c] <= committed[c]
  /\ pc = "write" /\ reading.src \in Clients =>
       /\ written[reading.src] < reading.no
       /\ reading.no <= taken[reading.src]

\* The thread that a Stop waits for ends with everything taken that was
\* committed when Stop was called.
DueIsTaken ==
  \A c \in Clients :
    /\ due[c] <= committed[c]
    /\ main \in {"kick", "join"} /\ pc = "done" => due[c] <= taken[c]

SendInv ==
  /\ TypeOK
  /\ SenderHolds
  /\ ThreadIsOwned
  /\ QueueOrdered
  /\ SentAgrees
  /\ DueIsTaken
------------------------------------------------------------------------------
(* The pool.                                                                *)

\* A reservation keeps the types and the queue.
LEMMA ReserveFacts ==
  ASSUME BM!TypeOK, NEW w \in Writers, NEW size \in Sizes, BM!Reserve(w, size)
  PROVE  /\ BM!TypeOK'
         /\ writing[w] = NoBuffer /\ writing' = [writing EXCEPT ![w] = size]
         /\ size # NoBuffer
         /\ UNCHANGED <<readable, reading, committed, taken>>
<1> USE SendThreadAssumption DEF BM!BufferManagerAssumption
<1>1. size # NoBuffer
  OBVIOUS
<1>2. BM!TypeOK'
  BY DEF BM!Reserve, BM!TypeOK, BM!historyVars, BM!CanReserve
<1>3. QED
  BY <1>1, <1>2 DEF BM!Reserve, BM!historyVars

\* A commit appends the next packet of the writer.
LEMMA CommitFacts ==
  ASSUME BM!TypeOK, NEW w \in Writers, NEW size \in Sizes, BM!Commit(w, size)
  PROVE  /\ BM!TypeOK'
         /\ writing' = [writing EXCEPT ![w] = NoBuffer]
         /\ writing[w] # NoBuffer
         /\ BM!NextNo(w) \in Nat
         /\ readable' = Append(readable, [src |-> w, no |-> BM!NextNo(w), size |-> size])
         /\ committed' = [committed EXCEPT ![w] = BM!NextNo(w)]
         /\ UNCHANGED <<reading, taken>>
<1> USE SendThreadAssumption DEF BM!BufferManagerAssumption
<1>1. BM!NextNo(w) \in Nat
  BY DEF BM!NextNo, BM!TypeOK
<1>2. [src |-> w, no |-> BM!NextNo(w), size |-> size] \in BM!Packet
  BY <1>1 DEF BM!Packet
<1>3. readable' \in Seq(BM!Packet)
  BY <1>2 DEF BM!Commit, BM!TypeOK
<1>4. BM!TypeOK'
  BY <1>1, <1>3 DEF BM!Commit, BM!TypeOK, BM!poolVars
<1>5. QED
  BY <1>1, <1>4 DEF BM!Commit

\* A writer that releases or drops its buffer leaves the queue alone.
LEMMA GiveUpFacts ==
  ASSUME BM!TypeOK, NEW w \in Writers, BM!Release(w) \/ BM!Drop(w)
  PROVE  /\ BM!TypeOK'
         /\ writing[w] # NoBuffer /\ writing' = [writing EXCEPT ![w] = NoBuffer]
         /\ UNCHANGED <<readable, reading, committed, taken>>
<1> USE SendThreadAssumption DEF BM!BufferManagerAssumption, BM!TypeOK, BM!historyVars, BM!poolVars
<1>1. writing[w] # NoBuffer /\ writing' = [writing EXCEPT ![w] = NoBuffer]
      /\ UNCHANGED <<readable, reading, committed, taken, orphaned>>
  BY DEF BM!Release, BM!Drop
<1>2. available' \in Nat /\ current' \in Nat /\ dropped' \in Nat
  <2>1. CASE BM!Release(w)
    BY <2>1 DEF BM!Release, BM!ReturnBuffer
  <2>2. CASE BM!Drop(w)
    BY <2>2 DEF BM!Drop
  <2>3. QED
    BY <2>1, <2>2
<1>3. writing' \in [Writers -> Sizes \cup {NoBuffer}]
  BY <1>1
<1>4. QED
  BY <1>1, <1>2, <1>3

\* The reader takes the first packet.
LEMMA GetReadableFacts ==
  ASSUME BM!TypeOK, BM!GetReadableBuffer
  PROVE  /\ BM!TypeOK'
         /\ readable # <<>>
         /\ reading' = readable[1] /\ readable[1] \in BM!Packet
         /\ reading' # NoBuffer
         /\ readable' = Tail(readable)
         /\ Len(readable') = Len(readable) - 1
         /\ \A i \in 1..Len(readable') : readable'[i] = readable[i + 1]
         /\ taken' = [taken EXCEPT ![readable[1].src] = readable[1].no]
         /\ UNCHANGED <<writing, committed>>
<1> USE SendThreadAssumption DEF BM!BufferManagerAssumption
<1>1. readable \in Seq(BM!Packet) /\ readable # <<>>
  BY DEF BM!GetReadableBuffer, BM!TypeOK
<1>2. Head(readable) = readable[1] /\ readable[1] \in BM!Packet
  BY <1>1
<1>3. /\ Tail(readable) \in Seq(BM!Packet)
      /\ Len(Tail(readable)) = Len(readable) - 1
      /\ \A i \in 1..Len(Tail(readable)) : Tail(readable)[i] = readable[i + 1]
  BY <1>1
<1>4. reading' = readable[1] /\ readable' = Tail(readable)
      /\ taken' = [taken EXCEPT ![readable[1].src] = readable[1].no]
      /\ UNCHANGED <<writing, committed, available, current, dropped, orphaned>>
  BY <1>2 DEF BM!GetReadableBuffer, BM!poolVars
<1>5. reading' # NoBuffer
  BY <1>2, <1>4 DEF BM!Packet
<1>6. taken' \in [Writers -> Nat]
  BY <1>2, <1>4 DEF BM!TypeOK, BM!Packet
<1>7. BM!TypeOK'
  BY <1>2, <1>3, <1>4, <1>6 DEF BM!TypeOK
<1>8. QED
  BY <1>1, <1>2, <1>3, <1>4, <1>5, <1>7

\* The reader gives its buffer back.
LEMMA MarkReadFacts ==
  ASSUME BM!TypeOK, BM!MarkRead
  PROVE  /\ BM!TypeOK'
         /\ reading' = NoBuffer
         /\ UNCHANGED <<readable, writing, committed, taken>>
BY SendThreadAssumption
   DEF BM!BufferManagerAssumption, BM!MarkRead, BM!ReturnBuffer, BM!TypeOK, BM!historyVars

\* A reset empties the queue.
LEMMA ResetFacts ==
  ASSUME BM!TypeOK, BM!ResetPool
  PROVE  /\ BM!TypeOK'
         /\ readable' = <<>> /\ taken' = committed
         /\ UNCHANGED <<writing, reading, committed>>
<1> USE SendThreadAssumption DEF BM!BufferManagerAssumption
<1>1. IsFiniteSet(Writers)
  BY DEF BM!IsFiniteSet, IsFiniteSet
<1>2. IsFiniteSet(BM!Holding)
  BY <1>1, FS_Subset DEF BM!Holding
<1>3. Cardinality(BM!Holding) \in Nat
  BY <1>2, FS_CardinalityType
<1>4. BM!Cardinality(BM!Holding) = Cardinality(BM!Holding)
  BY DEF BM!Cardinality, Cardinality
<1>5. QED
  BY <1>3, <1>4 DEF BM!ResetPool, BM!TypeOK
------------------------------------------------------------------------------
(* The queue.                                                               *)

\* A commit keeps the order of each client's packets.
LEMMA CommitKeepsQueue ==
  ASSUME BM!TypeOK, QueueOrdered, NEW w \in Writers, NEW size \in Sizes, BM!Commit(w, size),
         \A c \in Clients : taken[c] <= committed[c]
  PROVE  /\ QueueOrdered'
         /\ \A c \in Clients : committed[c] <= committed'[c]
<1> DEFINE p == [src |-> w, no |-> BM!NextNo(w), size |-> size]
<1> USE SendThreadAssumption
<1>1. /\ readable \in Seq(BM!Packet)
      /\ committed \in [Writers -> Nat] /\ taken \in [Writers -> Nat]
      /\ Clients \subseteq Writers
  BY DEF BM!TypeOK
<1>2. /\ readable' = Append(readable, p)
      /\ committed' = [committed EXCEPT ![w] = BM!NextNo(w)]
      /\ BM!NextNo(w) \in Nat /\ taken' = taken
  BY CommitFacts
<1>3. w \in Clients => BM!NextNo(w) = committed[w] + 1
  BY DEF BM!NextNo
<1>4. p \in BM!Packet /\ p.src = w /\ p.no = BM!NextNo(w)
  BY <1>2 DEF BM!Packet
<1> HIDE DEF p
<1>5. /\ Len(readable') = Len(readable) + 1
      /\ Len(readable) \in Nat
      /\ \A i \in 1..Len(readable) : readable'[i] = readable[i]
      /\ readable'[Len(readable) + 1] = p
  BY <1>1, <1>2, <1>4
<1>6. \A i \in 1..Len(readable) : readable[i] \in BM!Packet /\ readable[i].no \in Nat
                                  /\ readable[i].src \in Writers
  <2>1. \A i \in 1..Len(readable) : readable[i] \in BM!Packet
    BY <1>1
  <2>2. QED
    BY <2>1 DEF BM!Packet
<1>7. \A c \in Clients : /\ c # w => committed'[c] = committed[c]
                         /\ c = w => committed'[c] = committed[c] + 1 /\ committed'[c] = p.no
  BY <1>1, <1>2, <1>3, <1>4
<1>8. \A c \in Clients : committed[c] \in Nat /\ taken[c] \in Nat /\ committed[c] <= committed'[c]
  BY <1>1, <1>7
<1>9. \A i \in 1..Len(readable') :
        readable'[i].src \in Clients =>
          /\ taken'[readable'[i].src] < readable'[i].no
          /\ readable'[i].no <= committed'[readable'[i].src]
  <2> TAKE i \in 1..Len(readable')
  <2>1. CASE i = Len(readable) + 1
    BY <1>2, <1>4, <1>5, <1>7, <1>8, <2>1
  <2>2. CASE i \in 1..Len(readable)
    BY <1>2, <1>5, <1>6, <1>8, <2>2 DEF QueueOrdered
  <2>3. QED
    BY <1>5, <2>1, <2>2
<1>10. \A i, j \in 1..Len(readable') :
         i < j /\ readable'[i].src = readable'[j].src /\ readable'[i].src \in Clients
           => readable'[i].no < readable'[j].no
  <2> TAKE i, j \in 1..Len(readable')
  <2> HAVE i < j /\ readable'[i].src = readable'[j].src /\ readable'[i].src \in Clients
  <2>1. i \in 1..Len(readable) /\ readable'[i] = readable[i]
    BY <1>5
  <2>2. CASE j = Len(readable) + 1
    <3>1. readable[i].src = w /\ readable'[j].no = committed[w] + 1
      BY <1>3, <1>4, <1>5, <2>1, <2>2
    <3>2. readable[i].no <= committed[w]
      BY <2>1, <3>1 DEF QueueOrdered
    <3>3. QED
      BY <1>6, <1>8, <2>1, <3>1, <3>2
  <2>3. CASE j \in 1..Len(readable)
    BY <1>5, <2>1, <2>3 DEF QueueOrdered
  <2>4. QED
    BY <1>5, <2>2, <2>3
<1>11. \A c \in Clients :
         taken'[c] < committed'[c] =>
           \E i \in 1..Len(readable') : readable'[i].src = c /\ readable'[i].no = committed'[c]
  <2> TAKE c \in Clients
  <2> HAVE taken'[c] < committed'[c]
  <2>1. CASE c = w
    <3>1. Len(readable) + 1 \in 1..Len(readable')
      BY <1>5
    <3>2. QED
      BY <1>4, <1>5, <1>7, <2>1, <3>1
  <2>2. CASE c # w
    <3>1. PICK i \in 1..Len(readable) : readable[i].src = c /\ readable[i].no = committed[c]
      BY <1>2, <1>7, <2>2 DEF QueueOrdered
    <3>2. i \in 1..Len(readable')
      BY <1>5
    <3>3. QED
      BY <1>5, <1>7, <2>2, <3>1, <3>2
  <2>3. QED
    BY <2>1, <2>2
<1>12. QED
  BY <1>8, <1>9, <1>10, <1>11 DEF QueueOrdered

\* So does the send thread, which takes the first packet of the queue.
LEMMA TakeKeepsQueue ==
  ASSUME BM!TypeOK, QueueOrdered, BM!GetReadableBuffer,
         \A c \in Clients : taken[c] <= committed[c]
  PROVE  /\ QueueOrdered'
         /\ \A c \in Clients : taken[c] <= taken'[c] /\ taken'[c] <= committed'[c]
         /\ reading'.src \in Clients =>
              /\ taken[reading'.src] < reading'.no
              /\ taken'[reading'.src] = reading'.no
<1> DEFINE p == readable[1]
<1> USE SendThreadAssumption
<1>1. /\ readable \in Seq(BM!Packet) /\ readable # <<>>
      /\ committed \in [Writers -> Nat] /\ taken \in [Writers -> Nat]
      /\ Clients \subseteq Writers
  BY GetReadableFacts DEF BM!TypeOK
<1>2. /\ reading' = p /\ p \in BM!Packet
      /\ Len(readable') = Len(readable) - 1
      /\ \A i \in 1..Len(readable') : readable'[i] = readable[i + 1]
      /\ taken' = [taken EXCEPT ![p.src] = p.no]
      /\ committed' = committed
  BY GetReadableFacts
<1>3. Len(readable) \in Nat /\ 1 \in 1..Len(readable)
  BY <1>1
<1>4. p.src \in Writers /\ p.no \in Nat
  BY <1>2 DEF BM!Packet
<1>5. p.src \in Clients => taken[p.src] < p.no /\ p.no <= committed[p.src]
  BY <1>3 DEF QueueOrdered
<1>6. \A i \in 2..Len(readable) :
        readable[i].src = p.src /\ p.src \in Clients => p.no < readable[i].no
  BY <1>3 DEF QueueOrdered
<1> HIDE DEF p
<1>7. \A c \in Clients : /\ c # p.src => taken'[c] = taken[c]
                         /\ c = p.src => taken'[c] = p.no
                         /\ taken[c] \in Nat /\ committed[c] \in Nat
  BY <1>1, <1>2, <1>4
<1>8. \A i \in 1..Len(readable') : i + 1 \in 2..Len(readable)
  BY <1>2, <1>3
<1>9. \A i \in 1..Len(readable') :
        readable'[i].src \in Clients =>
          /\ taken'[readable'[i].src] < readable'[i].no
          /\ readable'[i].no <= committed'[readable'[i].src]
  <2> TAKE i \in 1..Len(readable')
  <2> HAVE readable'[i].src \in Clients
  <2>1. i + 1 \in 2..Len(readable) /\ i + 1 \in 1..Len(readable) /\ readable'[i] = readable[i + 1]
    BY <1>2, <1>8
  <2>2. taken[readable[i + 1].src] < readable[i + 1].no
        /\ readable[i + 1].no <= committed[readable[i + 1].src]
    BY <2>1 DEF QueueOrdered
  <2>3. QED
    BY <1>2, <1>6, <1>7, <2>1, <2>2
<1>10. \A i, j \in 1..Len(readable') :
         i < j /\ readable'[i].src = readable'[j].src /\ readable'[i].src \in Clients
           => readable'[i].no < readable'[j].no
  <2> TAKE i, j \in 1..Len(readable')
  <2> HAVE i < j /\ readable'[i].src = readable'[j].src /\ readable'[i].src \in Clients
  <2>1. i + 1 \in 1..Len(readable) /\ readable'[i] = readable[i + 1]
        /\ j + 1 \in 1..Len(readable) /\ readable'[j] = readable[j + 1] /\ i + 1 < j + 1
    BY <1>2, <1>8
  <2>2. QED
    BY <2>1 DEF QueueOrdered
<1>11. \A c \in Clients :
         taken'[c] < committed'[c] =>
           \E i \in 1..Len(readable') : readable'[i].src = c /\ readable'[i].no = committed'[c]
  <2> TAKE c \in Clients
  <2> HAVE taken'[c] < committed'[c]
  <2>1. taken[c] < committed[c]
    <3>1. CASE c = p.src
      BY <1>4, <1>5, <1>7, <3>1
    <3>2. CASE c # p.src
      BY <1>2, <1>7, <3>2
    <3>3. QED
      BY <3>1, <3>2
  <2>2. PICK i \in 1..Len(readable) : readable[i].src = c /\ readable[i].no = committed[c]
    BY <2>1 DEF QueueOrdered
  <2>3. i # 1
    BY <1>2, <1>7, <2>2 DEF p
  <2>4. i - 1 \in 1..Len(readable') /\ readable'[i - 1] = readable[i]
    BY <1>2, <1>3, <2>3
  <2>5. QED
    BY <1>2, <2>2, <2>4
<1>12. \A c \in Clients : taken[c] <= taken'[c] /\ taken'[c] <= committed'[c]
  BY <1>2, <1>4, <1>5, <1>7
<1>13. QED
  BY <1>2, <1>5, <1>7, <1>9, <1>10, <1>11, <1>12 DEF QueueOrdered

\* An empty queue: everything committed was taken.
LEMMA EmptyIsTaken ==
  ASSUME QueueOrdered, readable = <<>>, NEW c \in Clients, SentAgrees, TypeOK
  PROVE  taken[c] = committed[c]
<1>1. ~(taken[c] < committed[c])
  BY DEF QueueOrdered
<1>2. taken[c] <= committed[c] /\ taken[c] \in Nat /\ committed[c] \in Nat
  BY SendThreadAssumption DEF SentAgrees, TypeOK, BM!TypeOK
<1>3. QED
  BY <1>1, <1>2
------------------------------------------------------------------------------
(* The steps of each thread.                                                *)

\* A step that leaves the pool alone keeps what is said of it.
LEMMA PoolFrame ==
  ASSUME SendInv, UNCHANGED bufferVars
  PROVE  BM!TypeOK' /\ QueueOrdered'
BY DEF SendInv, TypeOK, bufferVars, BM!TypeOK, QueueOrdered

\* The thread itself: SendThread::Send and FlushBuffer.
LEMMA SendStepKeeps ==
  ASSUME SendInv, SendStep
  PROVE  SendInv'
<1> USE SendThreadAssumption DEF bufferVars, threadVars, flushVars, linkVars, mainVars
<1>t. TypeOK /\ BM!TypeOK /\ QueueOrdered /\ Clients \subseteq Writers
      /\ \A c \in Clients : taken[c] <= committed[c]
  BY DEF SendInv, TypeOK, SentAgrees
<1>n. \A c \in Clients : taken[c] \in Nat /\ committed[c] \in Nat /\ written[c] \in Nat /\ due[c] \in Nat
  BY <1>t DEF TypeOK, BM!TypeOK
<1>1. CASE CheckState
  <2>1. UNCHANGED bufferVars
    BY <1>1 DEF CheckState
  <2>2. BM!TypeOK' /\ QueueOrdered'
    BY <2>1, PoolFrame
  <2>3. QED
    BY <1>1, <2>1, <2>2 DEF CheckState, SendInv, TypeOK, SenderHolds, ThreadIsOwned, SentAgrees, DueIsTaken, PCs
<1>2. CASE ReserveMetadata
  <2>1. CASE BM!Reserve(Sender, MetadataSize)
    <3>1. /\ BM!TypeOK'
          /\ writing[Sender] = NoBuffer /\ writing' = [writing EXCEPT ![Sender] = MetadataSize]
          /\ MetadataSize # NoBuffer
          /\ UNCHANGED <<readable, reading, committed, taken>>
      BY <1>t, <2>1, ReserveFacts
    <3>2. pc = "metadata" /\ pc' = "commitMetadata"
          /\ UNCHANGED <<ready, flushVars, running, keep, linkVars, notifying, mainVars, written, timed>>
      BY <1>2, <2>1, <3>1 DEF ReserveMetadata, SendInv, BM!CanReserve, BM!Reserve
    <3>3. writing'[Sender] # NoBuffer
      BY <1>t, <3>1 DEF BM!TypeOK
    <3>4. QED
      BY <3>1, <3>2, <3>3 DEF SendInv, TypeOK, SenderHolds, ThreadIsOwned, QueueOrdered, SentAgrees, DueIsTaken, PCs
  <2>2. CASE ~BM!CanReserve(MetadataSize)
    <3>1. UNCHANGED bufferVars
      BY <1>2, <2>2 DEF ReserveMetadata, BM!Reserve
    <3>2. BM!TypeOK' /\ QueueOrdered'
      BY <3>1, PoolFrame
    <3>3. pc = "metadata" /\ pc' = "terminated" /\ ready' = TRUE
          /\ UNCHANGED <<flushVars, running, keep, linkVars, notifying, mainVars, written, timed>>
      BY <1>2, <2>2 DEF ReserveMetadata, BM!Reserve
    <3>4. QED
      BY <3>1, <3>2, <3>3 DEF SendInv, TypeOK, SenderHolds, ThreadIsOwned, SentAgrees, DueIsTaken, PCs
  <2>3. QED
    BY <1>2, <2>1, <2>2 DEF ReserveMetadata
<1>3. CASE CommitMetadata
  <2>1. BM!Commit(Sender, MetadataSize)
    BY <1>3 DEF CommitMetadata
  <2>2. /\ BM!TypeOK'
        /\ writing' = [writing EXCEPT ![Sender] = NoBuffer]
        /\ UNCHANGED <<reading, taken>>
    BY <1>t, <2>1, CommitFacts
  <2>3. QueueOrdered' /\ \A c \in Clients : committed[c] <= committed'[c]
    BY <1>t, <2>1, CommitKeepsQueue
  <2>4. writing'[Sender] = NoBuffer
    BY <1>t, <2>2 DEF BM!TypeOK
  <2>5. \A c \in Clients : committed'[c] \in Nat
    BY <1>t, <2>2 DEF BM!TypeOK
  <2>6. pc = "commitMetadata" /\ pc' = "flush" /\ flushing' = "metadata"
        /\ UNCHANGED <<packetsSent, packetSent, running, keep, linkVars, ready, notifying, mainVars, written, timed>>
    BY <1>3 DEF CommitMetadata
  <2>7. TypeOK'
    BY <2>2, <2>6 DEF SendInv, TypeOK, PCs
  <2>8. SentAgrees'
    BY <1>n, <2>2, <2>3, <2>5, <2>6 DEF SendInv, SentAgrees
  <2>9. DueIsTaken'
    BY <1>n, <2>2, <2>3, <2>5, <2>6 DEF SendInv, DueIsTaken
  <2>10. SenderHolds' /\ ThreadIsOwned'
    BY <2>2, <2>4, <2>6 DEF SendInv, SenderHolds, ThreadIsOwned
  <2>11. QED
    BY <2>3, <2>7, <2>8, <2>9, <2>10 DEF SendInv
<1>4. CASE WaitForAck
  <2>1. UNCHANGED bufferVars
    BY <1>4 DEF WaitForAck
  <2>2. BM!TypeOK' /\ QueueOrdered'
    BY <2>1, PoolFrame
  <2>3. QED
    BY <1>4, <2>1, <2>2 DEF WaitForAck, SendInv, TypeOK, SenderHolds, ThreadIsOwned, SentAgrees, DueIsTaken, PCs
<1>5. CASE WaitForData
  <2>1. UNCHANGED bufferVars
    BY <1>5 DEF WaitForData
  <2>2. BM!TypeOK' /\ QueueOrdered'
    BY <2>1, PoolFrame
  <2>3. QED
    BY <1>5, <2>1, <2>2 DEF WaitForData, SendInv, TypeOK, SenderHolds, ThreadIsOwned, SentAgrees, DueIsTaken, PCs
<1>6. CASE FlushNext
  <2>1. BM!GetReadableBuffer
    BY <1>6 DEF FlushNext
  <2>2. /\ BM!TypeOK' /\ reading' # NoBuffer
        /\ UNCHANGED <<writing, committed>>
    BY <1>t, <2>1, GetReadableFacts
  <2>3. /\ QueueOrdered'
        /\ \A c \in Clients : taken[c] <= taken'[c] /\ taken'[c] <= committed'[c]
        /\ reading'.src \in Clients =>
             /\ taken[reading'.src] < reading'.no
             /\ taken'[reading'.src] = reading'.no
    BY <1>t, <2>1, TakeKeepsQueue
  <2>4. pc = "flush" /\ pc' = "write"
        /\ UNCHANGED <<flushVars, running, keep, linkVars, ready, notifying, mainVars, written, timed>>
    BY <1>6 DEF FlushNext
  <2>5. \A c \in Clients : taken'[c] \in Nat
    BY <1>t, <2>2 DEF BM!TypeOK
  <2>6. TypeOK'
    BY <2>2, <2>4 DEF SendInv, TypeOK, PCs
  <2>7. SentAgrees'
    <3>1. \A c \in Clients : written[c] <= taken'[c] /\ taken'[c] <= committed'[c]
      BY <1>n, <2>3, <2>5 DEF SendInv, SentAgrees
    <3>2. ASSUME reading'.src \in Clients
          PROVE  written[reading'.src] < reading'.no /\ reading'.no <= taken'[reading'.src]
      <4>1. reading'.no \in Nat
        BY <2>3, <2>5, <3>2
      <4>2. written[reading'.src] <= taken[reading'.src]
        BY <3>2 DEF SendInv, SentAgrees
      <4>3. QED
        BY <1>n, <2>3, <3>2, <4>1, <4>2
    <3>3. QED
      BY <2>4, <3>1, <3>2 DEF SentAgrees
  <2>8. DueIsTaken'
    BY <1>n, <2>2, <2>3, <2>4, <2>5 DEF SendInv, DueIsTaken
  <2>9. SenderHolds' /\ ThreadIsOwned'
    BY <2>2, <2>4 DEF SendInv, SenderHolds, ThreadIsOwned
  <2>10. QED
    BY <2>3, <2>6, <2>7, <2>8, <2>9 DEF SendInv
<1>7. CASE WritePacket
  <2>1. UNCHANGED bufferVars
    BY <1>7 DEF WritePacket
  <2>2. BM!TypeOK' /\ QueueOrdered'
    BY <2>1, PoolFrame
  <2>3. pc = "write" /\ pc' = "markRead" /\ packetsSent' \in BOOLEAN
        /\ UNCHANGED <<flushing, packetSent, running, keep, linkVars, ready, notifying, mainVars, timed>>
    BY <1>7, <1>t DEF WritePacket, TypeOK
  <2>4. written' = written
        \/ (reading.src \in Clients /\ written' = [written EXCEPT ![reading.src] = reading.no])
    BY <1>7 DEF WritePacket
  <2>5. reading \in BM!Packet
    BY <1>t, <2>3 DEF SendInv, SenderHolds, BM!TypeOK
  <2>6. reading.no \in Nat
    BY <2>5 DEF BM!Packet
  <2>7. TypeOK'
    BY <2>2, <2>3, <2>4, <2>6 DEF SendInv, TypeOK, PCs
  <2>8. SentAgrees'
    BY <1>n, <1>t, <2>1, <2>3, <2>4, <2>6 DEF SendInv, SentAgrees, TypeOK
  <2>9. DueIsTaken'
    BY <2>1, <2>3 DEF SendInv, DueIsTaken
  <2>10. SenderHolds' /\ ThreadIsOwned'
    BY <2>1, <2>3 DEF SendInv, SenderHolds, ThreadIsOwned
  <2>11. QED
    BY <2>2, <2>7, <2>8, <2>9, <2>10 DEF SendInv
<1>8. CASE FlushMarkRead
  <2>1. BM!MarkRead
    BY <1>8 DEF FlushMarkRead
  <2>2. BM!TypeOK' /\ reading' = NoBuffer /\ UNCHANGED <<readable, writing, committed, taken>>
    BY <1>t, <2>1, MarkReadFacts
  <2>3. pc = "markRead" /\ pc' = "flush"
        /\ UNCHANGED <<flushVars, running, keep, linkVars, ready, notifying, mainVars, written, timed>>
    BY <1>8 DEF FlushMarkRead
  <2>4. QED
    BY <2>2, <2>3 DEF SendInv, TypeOK, SenderHolds, ThreadIsOwned, QueueOrdered, SentAgrees, DueIsTaken, PCs
<1>9. CASE FlushEnd
  <2>1. UNCHANGED bufferVars /\ readable = <<>>
    BY <1>9 DEF FlushEnd
  <2>2. BM!TypeOK' /\ QueueOrdered'
    BY <2>1, PoolFrame
  <2>3. \A c \in Clients : taken[c] = committed[c]
    BY <1>t, <2>1, EmptyIsTaken DEF SendInv
  <2>4. /\ pc = "flush" /\ flushing # "no"
        /\ \/ flushing \in {"metadata", "loop"} /\ pc' \in {"waitAck", "test"}
           \/ flushing = "final" /\ pc' = "done"
        /\ flushing' = "no"
        /\ {packetSent', packetsSent', running'} \subseteq BOOLEAN
        /\ UNCHANGED <<keep, linkVars, ready, notifying, mainVars, written, timed>>
    BY <1>9, <1>t DEF FlushEnd, TypeOK, SendInv, ThreadIsOwned
  <2>5. TypeOK'
    BY <2>2, <2>4 DEF SendInv, TypeOK, PCs
  <2>6. SentAgrees' /\ DueIsTaken'
    BY <1>n, <2>1, <2>3, <2>4 DEF SendInv, SentAgrees, DueIsTaken
  <2>7. SenderHolds' /\ ThreadIsOwned'
    BY <2>1, <2>4 DEF SendInv, SenderHolds, ThreadIsOwned
  <2>8. QED
    BY <2>2, <2>5, <2>6, <2>7 DEF SendInv
<1>10. CASE TestKeepRunning
  <2>1. UNCHANGED bufferVars
    BY <1>10 DEF TestKeepRunning
  <2>2. BM!TypeOK' /\ QueueOrdered'
    BY <2>1, PoolFrame
  <2>3. QED
    BY <1>10, <2>1, <2>2 DEF TestKeepRunning, SendInv, TypeOK, SenderHolds, ThreadIsOwned, SentAgrees, DueIsTaken, PCs
<1>11. QED
  BY <1>1, <1>2, <1>3, <1>4, <1>5, <1>6, <1>7, <1>8, <1>9, <1>10 DEF SendStep

\* A client, which is not the send thread, between its reservation and its
\* notification.
LEMMA ClientStepKeeps ==
  ASSUME SendInv, NEW c \in Clients, ClientStep(c)
  PROVE  SendInv'
<1> USE SendThreadAssumption DEF bufferVars, threadVars, flushVars, linkVars, mainVars
<1>t. TypeOK /\ BM!TypeOK /\ QueueOrdered /\ Clients \subseteq Writers
      /\ \A k \in Clients : taken[k] <= committed[k]
  BY DEF SendInv, TypeOK, SentAgrees
<1>n. \A k \in Clients : taken[k] \in Nat /\ committed[k] \in Nat /\ written[k] \in Nat /\ due[k] \in Nat
  BY <1>t DEF TypeOK, BM!TypeOK
<1>c. c \in Writers /\ c # Sender
  OBVIOUS
<1> USE DEF ClientFrame
<1>1. ASSUME NEW size \in Sizes, ClientReserve(c, size)
      PROVE  SendInv'
  <2>1. /\ BM!TypeOK'
        /\ writing' = [writing EXCEPT ![c] = size]
        /\ UNCHANGED <<readable, reading, committed, taken>>
    BY <1>1, <1>t, <1>c, ReserveFacts DEF ClientReserve
  <2>2. UNCHANGED <<threadVars, linkVars, ready, notifying, mainVars, written, timed>>
    BY <1>1 DEF ClientReserve
  <2>3. writing'[Sender] = writing[Sender]
    BY <1>c, <1>t, <2>1 DEF BM!TypeOK
  <2>4. QED
    BY <2>1, <2>2, <2>3
       DEF SendInv, TypeOK, SenderHolds, ThreadIsOwned, QueueOrdered, SentAgrees, DueIsTaken
<1>2. ASSUME NEW size \in Sizes, ClientExhausted(c, size)
      PROVE  SendInv'
  <2>1. UNCHANGED bufferVars
    BY <1>2 DEF ClientExhausted
  <2>2. BM!TypeOK' /\ QueueOrdered'
    BY <2>1, PoolFrame
  <2>3. QED
    BY <1>2, <2>1, <2>2 DEF ClientExhausted, SendInv, TypeOK, SenderHolds, ThreadIsOwned,
                            SentAgrees, DueIsTaken
<1>3. ASSUME NEW size \in Sizes, ClientCommit(c, size)
      PROVE  SendInv'
  <2>1. BM!Commit(c, size)
    BY <1>3 DEF ClientCommit
  <2>2. /\ BM!TypeOK'
        /\ writing' = [writing EXCEPT ![c] = NoBuffer]
        /\ UNCHANGED <<reading, taken>>
    BY <1>t, <1>c, <2>1, CommitFacts
  <2>3. QueueOrdered' /\ \A d \in Clients : committed[d] <= committed'[d]
    BY <1>t, <1>c, <2>1, CommitKeepsQueue
  <2>4. writing'[Sender] = writing[Sender]
    BY <1>c, <1>t, <2>2 DEF BM!TypeOK
  <2>5. \A d \in Clients : committed'[d] \in Nat
    BY <1>t, <2>2 DEF BM!TypeOK
  <2>6. notifying' = notifying \cup {c}
        /\ UNCHANGED <<threadVars, linkVars, ready, mainVars, written, timed>>
    BY <1>3 DEF ClientCommit
  <2>7. TypeOK'
    BY <2>2, <2>6 DEF SendInv, TypeOK
  <2>8. SentAgrees'
    BY <1>n, <2>2, <2>3, <2>5, <2>6 DEF SendInv, SentAgrees
  <2>9. DueIsTaken'
    BY <1>n, <2>2, <2>3, <2>5, <2>6 DEF SendInv, DueIsTaken
  <2>10. SenderHolds' /\ ThreadIsOwned'
    BY <2>2, <2>4, <2>6 DEF SendInv, SenderHolds, ThreadIsOwned
  <2>11. QED
    BY <2>3, <2>7, <2>8, <2>9, <2>10 DEF SendInv
<1>4. CASE ClientGiveUp(c)
  <2>1. /\ BM!TypeOK'
        /\ writing' = [writing EXCEPT ![c] = NoBuffer]
        /\ UNCHANGED <<readable, reading, committed, taken>>
    BY <1>4, <1>t, <1>c, GiveUpFacts DEF ClientGiveUp
  <2>2. UNCHANGED <<threadVars, linkVars, ready, notifying, mainVars, written, timed>>
    BY <1>4 DEF ClientGiveUp
  <2>3. writing'[Sender] = writing[Sender]
    BY <1>c, <1>t, <2>1 DEF BM!TypeOK
  <2>4. QED
    BY <2>1, <2>2, <2>3
       DEF SendInv, TypeOK, SenderHolds, ThreadIsOwned, QueueOrdered, SentAgrees, DueIsTaken
<1>5. CASE SetReadyToRead(c)
  <2>1. UNCHANGED bufferVars
    BY <1>5 DEF SetReadyToRead
  <2>2. BM!TypeOK' /\ QueueOrdered'
    BY <2>1, PoolFrame
  <2>3. QED
    BY <1>5, <2>1, <2>2 DEF SetReadyToRead, SendInv, TypeOK, SenderHolds, ThreadIsOwned, SentAgrees, DueIsTaken, PCs
<1>6. QED
  BY <1>1, <1>2, <1>3, <1>4, <1>5 DEF ClientStep

\* The owner of the service, the peer and a watcher.
LEMMA MainStepKeeps ==
  ASSUME SendInv, MainStep \/ Acknowledge \/ ConnectionLost \/ WaitForPacketSent
  PROVE  SendInv'
<1> USE SendThreadAssumption DEF bufferVars, threadVars, flushVars, linkVars, mainVars
<1>t. TypeOK /\ BM!TypeOK /\ QueueOrdered /\ Clients \subseteq Writers
      /\ \A c \in Clients : taken[c] <= committed[c]
  BY DEF SendInv, TypeOK, SentAgrees
<1>n. \A c \in Clients : taken[c] \in Nat /\ committed[c] \in Nat /\ written[c] \in Nat /\ due[c] \in Nat
  BY <1>t DEF TypeOK, BM!TypeOK
<1>1. CASE Initialise
  <2>1. UNCHANGED bufferVars
    BY <1>1 DEF Initialise
  <2>2. BM!TypeOK' /\ QueueOrdered'
    BY <2>1, PoolFrame
  <2>3. QED
    BY <1>1, <2>1, <2>2 DEF Initialise, SendInv, TypeOK, SenderHolds, ThreadIsOwned, SentAgrees, DueIsTaken, PCs
<1>2. CASE Start
  <2>1. UNCHANGED bufferVars
    BY <1>2 DEF Start
  <2>2. BM!TypeOK' /\ QueueOrdered'
    BY <2>1, PoolFrame
  <2>3. sessions' \in Nat /\ pc' = "check"
        /\ UNCHANGED <<linkVars, notifying, main, stopping, due, written, timed, flushing, packetsSent>>
        /\ running' = TRUE /\ keep' = TRUE /\ ready' = FALSE /\ packetSent' = FALSE
    BY <1>2, <1>t DEF Start, TypeOK
  <2>4. open \in BOOLEAN /\ packetsSent \in BOOLEAN /\ running \in BOOLEAN
        /\ keep \in BOOLEAN /\ ready \in BOOLEAN /\ packetSent \in BOOLEAN
    BY <1>t DEF TypeOK
  <2>5. {open', packetsSent', running', keep', ready', packetSent'} \subseteq BOOLEAN
    BY <2>3, <2>4
  <2>6. TypeOK'
    BY <1>t, <2>2, <2>3, <2>5 DEF TypeOK, PCs
  <2>7. SenderHolds' /\ ThreadIsOwned' /\ SentAgrees' /\ DueIsTaken'
    BY <1>2, <2>1, <2>3 DEF Start, SendInv, SenderHolds, ThreadIsOwned, SentAgrees, DueIsTaken
  <2>8. QED
    BY <2>2, <2>6, <2>7 DEF SendInv
<1>3. ASSUME NEW why \in {"connect", "stop", "reset"}, Stop(why)
      PROVE  SendInv'
  <2>1. UNCHANGED bufferVars
    BY <1>3 DEF Stop
  <2>2. BM!TypeOK' /\ QueueOrdered'
    BY <2>1, PoolFrame
  <2>3. due' = [c \in Clients |-> committed[c]] /\ main = "idle"
        /\ main' = (IF pc = "none" THEN "stopped" ELSE "kick")
        /\ keep' = FALSE /\ stopping' = why
        /\ UNCHANGED <<pc, flushVars, running, linkVars, ready, notifying, sessions, written, timed>>
    BY <1>3 DEF Stop
  <2>4. TypeOK'
    BY <1>n, <2>2, <2>3 DEF SendInv, TypeOK
  <2>5. pc # "done"
    BY <2>3 DEF SendInv, ThreadIsOwned
  <2>6. DueIsTaken' /\ SentAgrees'
    BY <1>n, <2>1, <2>3, <2>5 DEF SendInv, DueIsTaken, SentAgrees
  <2>7. SenderHolds' /\ ThreadIsOwned'
    BY <2>1, <2>3, <2>5 DEF SendInv, SenderHolds, ThreadIsOwned
  <2>8. QED
    BY <2>2, <2>4, <2>6, <2>7 DEF SendInv
<1>4. CASE StopKick
  <2>1. UNCHANGED bufferVars
    BY <1>4 DEF StopKick
  <2>2. BM!TypeOK' /\ QueueOrdered'
    BY <2>1, PoolFrame
  <2>3. QED
    BY <1>4, <2>1, <2>2 DEF StopKick, SendInv, TypeOK, SenderHolds, ThreadIsOwned, SentAgrees, DueIsTaken, PCs
<1>5. CASE StopJoin
  <2>1. UNCHANGED bufferVars
    BY <1>5 DEF StopJoin
  <2>2. BM!TypeOK' /\ QueueOrdered'
    BY <2>1, PoolFrame
  <2>3. QED
    BY <1>5, <2>1, <2>2 DEF StopJoin, SendInv, TypeOK, SenderHolds, ThreadIsOwned, SentAgrees, DueIsTaken, PCs
<1>6. CASE AfterStop
  <2>1. /\ main = "stopped" /\ main' = "idle" /\ stopping' = "no" /\ pc = "none"
        /\ due' = [c \in Clients |-> 0]
        /\ UNCHANGED <<threadVars, ready, notifying, sessions, written, timed>>
    BY <1>6 DEF AfterStop, NonePending, SendInv, ThreadIsOwned
  <2>2. /\ state' \in {"Uninitialised", "NotConnected", "WaitingForAck", "Active"}
        /\ open' \in BOOLEAN
    BY <1>6 DEF AfterStop
  <2>3. UNCHANGED bufferVars \/ BM!ResetPool
    BY <1>6 DEF AfterStop
  <2>4. /\ BM!TypeOK' /\ QueueOrdered'
        /\ UNCHANGED <<writing, reading, committed>>
        /\ \A c \in Clients : taken[c] <= taken'[c] /\ taken'[c] <= committed'[c] /\ taken'[c] \in Nat
    <3>1. CASE UNCHANGED bufferVars
      BY <1>n, <1>t, <3>1, PoolFrame
    <3>2. CASE BM!ResetPool
      <4>1. BM!TypeOK' /\ readable' = <<>> /\ taken' = committed
            /\ UNCHANGED <<writing, reading, committed>>
        BY <1>t, <3>2, ResetFacts
      <4>2. \A c \in Clients : ~(taken'[c] < committed'[c])
        BY <1>n, <4>1
      <4>3. QueueOrdered'
        BY <4>1, <4>2 DEF QueueOrdered
      <4>4. QED
        BY <1>n, <1>t, <4>1, <4>3
    <3>3. QED
      BY <2>3, <3>1, <3>2
  <2>5. TypeOK'
    BY <2>1, <2>2, <2>4 DEF SendInv, TypeOK
  <2>6. DueIsTaken' /\ SentAgrees'
    BY <1>n, <2>1, <2>4 DEF SendInv, DueIsTaken, SentAgrees
  <2>7. SenderHolds' /\ ThreadIsOwned'
    BY <2>1, <2>4 DEF SendInv, SenderHolds, ThreadIsOwned
  <2>8. QED
    BY <2>4, <2>5, <2>6, <2>7 DEF SendInv
<1>7. CASE Acknowledge
  <2>1. UNCHANGED bufferVars
    BY <1>7 DEF Acknowledge
  <2>2. BM!TypeOK' /\ QueueOrdered'
    BY <2>1, PoolFrame
  <2>3. QED
    BY <1>7, <2>1, <2>2 DEF Acknowledge, SendInv, TypeOK, SenderHolds, ThreadIsOwned, SentAgrees, DueIsTaken, PCs
<1>8. CASE ConnectionLost
  <2>1. UNCHANGED bufferVars
    BY <1>8 DEF ConnectionLost
  <2>2. BM!TypeOK' /\ QueueOrdered'
    BY <2>1, PoolFrame
  <2>3. open' = FALSE
        /\ UNCHANGED <<threadVars, state, ready, notifying, mainVars, written, timed>>
    BY <1>8, <1>t DEF ConnectionLost, TypeOK
  <2>4. open \in BOOLEAN /\ packetsSent \in BOOLEAN /\ running \in BOOLEAN
        /\ keep \in BOOLEAN /\ ready \in BOOLEAN /\ packetSent \in BOOLEAN
    BY <1>t DEF TypeOK
  <2>5. {open', packetsSent', running', keep', ready', packetSent'} \subseteq BOOLEAN
    BY <2>3, <2>4
  <2>6. TypeOK'
    BY <1>t, <2>2, <2>3, <2>5 DEF TypeOK, PCs
  <2>7. SenderHolds' /\ ThreadIsOwned' /\ SentAgrees' /\ DueIsTaken'
    BY <1>8, <2>1, <2>3 DEF ConnectionLost, SendInv, SenderHolds, ThreadIsOwned, SentAgrees, DueIsTaken
  <2>8. QED
    BY <2>2, <2>6, <2>7 DEF SendInv
<1>9. CASE WaitForPacketSent
  <2>1. UNCHANGED bufferVars
    BY <1>9 DEF WaitForPacketSent
  <2>2. BM!TypeOK' /\ QueueOrdered'
    BY <2>1, PoolFrame
  <2>3. packetSent' = FALSE
        /\ UNCHANGED <<pc, flushing, packetsSent, running, keep, linkVars, ready, notifying, mainVars, written, timed>>
    BY <1>9, <1>t DEF WaitForPacketSent, TypeOK
  <2>4. open \in BOOLEAN /\ packetsSent \in BOOLEAN /\ running \in BOOLEAN
        /\ keep \in BOOLEAN /\ ready \in BOOLEAN /\ packetSent \in BOOLEAN
    BY <1>t DEF TypeOK
  <2>5. {open', packetsSent', running', keep', ready', packetSent'} \subseteq BOOLEAN
    BY <2>3, <2>4
  <2>6. TypeOK'
    BY <1>t, <2>2, <2>3, <2>5 DEF TypeOK, PCs
  <2>7. SenderHolds' /\ ThreadIsOwned' /\ SentAgrees' /\ DueIsTaken'
    BY <1>9, <2>1, <2>3 DEF WaitForPacketSent, SendInv, SenderHolds, ThreadIsOwned, SentAgrees, DueIsTaken
  <2>8. QED
    BY <2>2, <2>6, <2>7 DEF SendInv
<1>10. QED
  BY <1>1, <1>2, <1>3, <1>4, <1>5, <1>6, <1>7, <1>8, <1>9 DEF MainStep

\* Every step of every thread keeps the invariant.
LEMMA SendInvStep ==
  ASSUME SendInv, [Next]_vars
  PROVE  SendInv'
<1>1. CASE SendStep
  BY <1>1, SendStepKeeps
<1>2. ASSUME NEW c \in Clients, ClientStep(c)
      PROVE  SendInv'
  BY <1>2, ClientStepKeeps
<1>3. CASE MainStep \/ Acknowledge \/ ConnectionLost \/ WaitForPacketSent
  BY <1>3, MainStepKeeps
<1>4. CASE UNCHANGED vars
  BY <1>4 DEF vars, bufferVars, threadVars, flushVars, linkVars, mainVars, SendInv, TypeOK,
              BM!TypeOK, SenderHolds, ThreadIsOwned, QueueOrdered, SentAgrees, DueIsTaken
<1>5. QED
  BY <1>1, <1>2, <1>3, <1>4 DEF Next

\* No thread, no packet.
LEMMA SendInvInit ==
  ASSUME Init
  PROVE  SendInv
<1> USE SendThreadAssumption DEF BM!BufferManagerAssumption, Init, BM!Init
<1>1. BM!TypeOK
  BY DEF BM!TypeOK
<1>2. TypeOK
  BY <1>1 DEF TypeOK, NonePending, PCs
<1>3. QueueOrdered /\ SentAgrees /\ DueIsTaken
  BY <1>2 DEF QueueOrdered, SentAgrees, DueIsTaken, NonePending, TypeOK, BM!TypeOK
<1>4. SenderHolds /\ ThreadIsOwned
  BY DEF SenderHolds, ThreadIsOwned
<1>5. QED
  BY <1>2, <1>3, <1>4 DEF SendInv

\* The inductive invariant of the send thread, the clients and the owner
\* (SendThread.cpp, ProfilingService.cpp).
THEOREM SendInvariant == Spec => []SendInv
<1>1. Init => SendInv
  BY SendInvInit
<1>2. SendInv /\ [Next]_vars => SendInv'
  BY SendInvStep
<1>3. QED
  BY <1>1, <1>2, PTL DEF Spec

\* Every variable keeps its type, in a pool shared by any number of clients.
THEOREM TypeCorrect == Spec => []TypeOK
<1>1. SendInv => TypeOK
  BY DEF SendInv
<1>2. QED
  BY <1>1, SendInvariant, PTL
------------------------------------------------------------------------------
\* Each step of the system is a step of the pool, or does not touch it.
LEMMA PoolStep ==
  ASSUME SendInv, [Next]_vars
  PROVE  [BM!Next]_BM!bufferVars
<1> USE SendThreadAssumption DEF bufferVars, BM!bufferVars
<1>1. CASE SendStep
  <2>1. UNCHANGED bufferVars \/ BM!Reserve(Sender, MetadataSize) \/ BM!Commit(Sender, MetadataSize)
        \/ BM!GetReadableBuffer \/ BM!MarkRead
    BY <1>1 DEF SendStep, CheckState, ReserveMetadata, CommitMetadata, WaitForAck, WaitForData,
                FlushNext, WritePacket, FlushMarkRead, FlushEnd, TestKeepRunning
  <2>2. QED
    BY <2>1 DEF BM!Next, BM!WriterStep
<1>2. ASSUME NEW c \in Clients, ClientStep(c)
      PROVE  [BM!Next]_BM!bufferVars
  <2>1. UNCHANGED bufferVars \/ BM!WriterStep(c)
    BY <1>2 DEF ClientStep, ClientReserve, ClientExhausted, ClientCommit, ClientGiveUp,
                SetReadyToRead, BM!WriterStep
  <2>2. QED
    BY <2>1 DEF BM!Next
<1>3. CASE MainStep \/ Acknowledge \/ ConnectionLost \/ WaitForPacketSent
  <2>1. CASE AfterStop /\ BM!ResetPool
    <3>1. pc = "none"
      BY <2>1 DEF AfterStop, SendInv, ThreadIsOwned
    <3>2. reading = NoBuffer /\ writing[Sender] = NoBuffer
      BY <3>1 DEF SendInv, SenderHolds
    <3>3. BM!Holding \subseteq Clients
      BY <3>2 DEF BM!Holding
    <3>4. QED
      BY <2>1, <3>2, <3>3 DEF BM!Reset, BM!Next
  <2>2. UNCHANGED bufferVars \/ (AfterStop /\ BM!ResetPool)
    BY <1>3 DEF MainStep, Initialise, Start, Stop, StopKick, StopJoin, AfterStop, Acknowledge,
                ConnectionLost, WaitForPacketSent
  <2>3. QED
    BY <2>1, <2>2
<1>4. CASE UNCHANGED vars
  BY <1>4 DEF vars
<1>5. QED
  BY <1>1, <1>2, <1>3, <1>4 DEF Next

\* The send thread, its clients and its owner implement the pool: in particular
\* ProfilingService::Reset replaces the buffers only when none of its own
\* threads has one.
THEOREM ImplementsBufferManager == Spec => RefinesBufferManager
<1>1. Init => BM!Init
  BY DEF Init
<1>2. SendInv /\ [Next]_vars => [BM!Next]_BM!bufferVars
  BY PoolStep
<1>3. QED
  BY <1>1, <1>2, SendInvariant, PTL DEF Spec, RefinesBufferManager, BM!Spec

\* SendThread::Stop returns with everything taken from the queue that was
\* committed before it was called.
THEOREM StopFlushesHolds == Spec => StopFlushes
<1>1. SendInv /\ [Next]_vars =>
        [main = "join" /\ main' = "stopped" => \A c \in Clients : taken'[c] >= due[c]]_vars
  <2> SUFFICES ASSUME SendInv, Next, main = "join", main' = "stopped"
               PROVE  \A c \in Clients : taken'[c] >= due[c]
    OBVIOUS
  <2>1. StopJoin
    BY DEF Next, SendStep, CheckState, ReserveMetadata, CommitMetadata, WaitForAck, WaitForData,
           FlushNext, WritePacket, FlushMarkRead, FlushEnd, TestKeepRunning, ClientStep,
           ClientReserve, ClientExhausted, ClientCommit, ClientGiveUp, SetReadyToRead, ClientFrame,
           MainStep, Initialise, Start, Stop, StopKick, AfterStop, Acknowledge, ConnectionLost,
           WaitForPacketSent, mainVars
  <2>2. pc = "done" /\ taken' = taken
    BY <2>1 DEF StopJoin, bufferVars, SendInv, ThreadIsOwned
  <2>3. \A c \in Clients : due[c] <= taken[c] /\ due[c] \in Nat /\ taken[c] \in Nat
    BY <2>2, SendThreadAssumption DEF SendInv, DueIsTaken, TypeOK, BM!TypeOK
  <2>4. QED
    BY <2>2, <2>3
<1>2. QED
  BY <1>1, SendInvariant, PTL DEF Spec, StopFlushes

\* FlushBuffer writes each client's packets in the order of its commits, and
\* none of them twice.
THEOREM WireInOrderHolds == Spec => WireInOrder
<1>1. SendInv /\ [Next]_vars =>
        [\A c \in Clients : written'[c] = written[c] \/ written'[c] > written[c]]_vars
  <2> SUFFICES ASSUME SendInv, Next, NEW c \in Clients
               PROVE  written'[c] = written[c] \/ written'[c] > written[c]
    OBVIOUS
  <2>1. CASE WritePacket
    <3>1. written' = written
          \/ (reading.src \in Clients /\ written' = [written EXCEPT ![reading.src] = reading.no])
      BY <2>1 DEF WritePacket
    <3>2. pc = "write"
      BY <2>1 DEF WritePacket
    <3>3. QED
      BY <3>1, <3>2 DEF SendInv, SentAgrees, TypeOK
  <2>2. CASE ~WritePacket
    BY <2>2 DEF Next, SendStep, CheckState, ReserveMetadata, CommitMetadata, WaitForAck, WaitForData,
           FlushNext, FlushMarkRead, FlushEnd, TestKeepRunning, ClientStep,
           ClientReserve, ClientExhausted, ClientCommit, ClientGiveUp, SetReadyToRead, ClientFrame,
           MainStep, Initialise, Start, Stop, StopKick, StopJoin, AfterStop, Acknowledge,
           ConnectionLost, WaitForPacketSent
  <2>3. QED
    BY <2>1, <2>2
<1>2. QED
  BY <1>1, SendInvariant, PTL DEF Spec, WireInOrder
------------------------------------------------------------------------------
\* Stop has kicked the thread out of its wait, or of the one it comes to next.
StopWakes == main = "join" /\ pc \in {"check", "waitData"} => ready

\* Where the thread is on its way from the loop to its end, once m_KeepRunning is
\* cleared, and in a FlushBuffer call.
InFlush == pc \in {"flush", "write", "markRead"}
StagesLeft ==
  CASE pc = "check" -> 9
    [] pc = "metadata" -> 8
    [] pc = "commitMetadata" -> 7
    [] InFlush /\ flushing = "metadata" -> 6
    [] pc = "waitAck" -> 5
    [] pc = "waitData" -> 4
    [] InFlush /\ flushing = "loop" -> 3
    [] pc = "test" -> 2
    [] InFlush /\ flushing = "final" -> 1
    [] OTHER -> 0
FlushLeft ==
  3 * Len(readable) + (CASE pc = "write" -> 2 [] pc = "markRead" -> 1 [] OTHER -> 0)

\* What the steps do that are taken while Stop waits for the thread.
StopNears ==
  [][main = "join" =>
       IF SendStep
       THEN StagesLeft' < StagesLeft \/ (StagesLeft' = StagesLeft /\ FlushLeft' < FlushLeft)
       ELSE StagesLeft' <= StagesLeft]_vars

\* A thread that goes to wait, or waits, with packets in the queue has been or will be
\* notified.
Heard ==
  pc \in {"waitAck", "test", "check", "waitData"} /\ readable # <<>> => ready \/ notifying # {}

\* Which step loses the notification of a packet.
OnlyStartForgets == [][Heard => Heard' \/ Start]_vars

\* Nobody clears m_ReadyToRead but a thread that leaves the wait, and Start.
LEMMA StopWakesStep ==
  ASSUME SendInv, StopWakes, [Next]_vars
  PROVE  StopWakes'
<1>1. CASE SendStep
  <2>1. main = "join" => ~keep
    BY DEF SendInv, ThreadIsOwned
  <2>2. CASE FlushEnd
    <3>1. flushing \in {"metadata", "loop", "final"}
      BY <2>2 DEF FlushEnd, SendInv, ThreadIsOwned, TypeOK
    <3>2. pc' \in {"waitAck", "test", "done"}
      BY <2>2, <3>1 DEF FlushEnd
    <3>3. QED
      BY <3>2 DEF StopWakes
  <2>3. CASE ~FlushEnd
    BY <1>1, <2>1, <2>3 DEF SendStep, CheckState, ReserveMetadata, CommitMetadata, WaitForAck,
        WaitForData, FlushNext, WritePacket, FlushMarkRead, TestKeepRunning, StopWakes, mainVars
  <2>4. QED
    BY <2>2, <2>3
<1>2. ASSUME NEW c \in Clients, ClientStep(c)
      PROVE  StopWakes'
  BY <1>2 DEF ClientStep, ClientReserve, ClientExhausted, ClientCommit, ClientGiveUp,
        SetReadyToRead, ClientFrame, StopWakes, threadVars, mainVars
<1>3. CASE MainStep \/ Acknowledge \/ ConnectionLost \/ WaitForPacketSent
  BY <1>3 DEF MainStep, Initialise, Start, Stop, StopKick, StopJoin, AfterStop, Acknowledge,
        ConnectionLost, WaitForPacketSent, StopWakes, threadVars, mainVars
<1>4. CASE UNCHANGED vars
  BY <1>4 DEF vars, threadVars, mainVars, StopWakes
<1>5. QED
  BY <1>1, <1>2, <1>3, <1>4 DEF Next

\* With m_KeepRunning cleared the loop goes one way, and FlushBuffer empties the queue.
LEMMA StopNearsStep ==
  ASSUME SendInv, StopWakes, main = "join", Next
  PROVE  IF SendStep
         THEN StagesLeft' < StagesLeft \/ (StagesLeft' = StagesLeft /\ FlushLeft' < FlushLeft)
         ELSE StagesLeft' <= StagesLeft
<1>1. /\ ~keep /\ pc # "refused" /\ (pc # "none" => state \in {"WaitingForAck", "Active"})
      /\ InFlush => flushing \in {"metadata", "loop", "final"}
      /\ readable \in Seq(BM!Packet) /\ Len(readable) \in Nat
      /\ pc \in PCs
  BY DEF SendInv, ThreadIsOwned, InFlush, TypeOK, BM!TypeOK
<1>2. CASE SendStep
  <2>1. CASE FlushNext
    <3>1. Len(readable') = Len(readable) - 1
      BY <2>1, GetReadableFacts DEF FlushNext, SendInv, TypeOK
    <3>2. /\ pc = "flush" /\ pc' = "write" /\ flushing' = flushing
      BY <2>1 DEF FlushNext, flushVars
    <3>3. FlushLeft' < FlushLeft
      BY <1>1, <3>1, <3>2 DEF FlushLeft
    <3>4. StagesLeft' = StagesLeft
      BY <1>1, <3>2 DEF StagesLeft, InFlush
    <3>5. QED
      BY <1>2, <3>3, <3>4
  <2>2. CASE WritePacket \/ FlushMarkRead
    <3>1. /\ readable' = readable /\ flushing' = flushing
          /\ \/ pc = "write" /\ pc' = "markRead"
             \/ pc = "markRead" /\ pc' = "flush"
      BY <2>2, MarkReadFacts DEF WritePacket, FlushMarkRead, bufferVars, flushVars, SendInv, TypeOK
    <3>2. FlushLeft' < FlushLeft
      BY <1>1, <3>1 DEF FlushLeft
    <3>3. StagesLeft' = StagesLeft
      BY <1>1, <3>1 DEF StagesLeft, InFlush
    <3>4. QED
      BY <1>2, <3>2, <3>3
  <2>3. CASE CheckState \/ ReserveMetadata \/ CommitMetadata \/ WaitForAck \/ WaitForData
             \/ FlushEnd \/ TestKeepRunning
    <3>1. \/ pc = "check" /\ pc' \in {"waitData", "metadata"}
          \/ pc = "metadata" /\ pc' \in {"commitMetadata", "terminated"}
          \/ pc = "commitMetadata" /\ pc' = "flush" /\ flushing' = "metadata"
          \/ pc = "waitAck" /\ (pc' = "test" \/ (pc' = "flush" /\ flushing' = "loop"))
          \/ pc = "waitData" /\ pc' = "flush" /\ flushing' = "loop"
          \/ pc = "test" /\ pc' = "flush" /\ flushing' = "final"
          \/ pc = "flush" /\ flushing = "metadata" /\ pc' = "waitAck"
          \/ pc = "flush" /\ flushing = "loop" /\ pc' = "test"
          \/ pc = "flush" /\ flushing = "final" /\ pc' = "done"
      <4>1. CASE CheckState \/ TestKeepRunning
        BY <1>1, <4>1 DEF CheckState, TestKeepRunning
      <4>2. CASE ReserveMetadata
        BY <4>2 DEF ReserveMetadata
      <4>3. CASE CommitMetadata
        BY <4>3 DEF CommitMetadata
      <4>4. CASE WaitForAck
        BY <4>4 DEF WaitForAck
      <4>5. CASE WaitForData
        BY <4>5 DEF WaitForData
      <4>6. CASE FlushEnd
        <5>1. pc = "flush" /\ flushing \in {"metadata", "loop", "final"}
          BY <1>1, <4>6 DEF FlushEnd, InFlush
        <5>2. QED
          BY <4>6, <5>1 DEF FlushEnd
      <4>7. QED
        BY <2>3, <4>1, <4>2, <4>3, <4>4, <4>5, <4>6
    <3>2. StagesLeft' < StagesLeft
      BY <1>1, <3>1 DEF StagesLeft, InFlush
    <3>3. QED
      BY <1>2, <3>2
  <2>4. QED
    BY <1>2, <2>1, <2>2, <2>3 DEF SendStep
<1>3. CASE ~SendStep
  <2>1. UNCHANGED <<pc, flushing>> \/ pc' = "none"
    <3>1. ASSUME NEW c \in Clients, ClientStep(c) PROVE UNCHANGED <<pc, flushing>>
      BY <3>1 DEF ClientStep, ClientReserve, ClientExhausted, ClientCommit, ClientGiveUp,
            SetReadyToRead, ClientFrame, threadVars, flushVars
    <3>2. CASE MainStep \/ Acknowledge \/ ConnectionLost \/ WaitForPacketSent
      BY <3>2 DEF MainStep, Initialise, Start, Stop, StopKick, StopJoin, AfterStop, Acknowledge,
            ConnectionLost, WaitForPacketSent, threadVars, flushVars
    <3>3. QED
      BY <1>3, <3>1, <3>2 DEF Next
  <2>2. StagesLeft' <= StagesLeft
    <3>1. StagesLeft \in 0..9
      BY DEF StagesLeft
    <3>2. QED
      BY <2>1, <3>1 DEF StagesLeft, InFlush
  <2>3. QED
    BY <1>3, <2>2
<1>4. QED
  BY <1>2, <1>3

\* A client commits and then notifies; the thread waits after it found the queue empty.
LEMMA HeardStep ==
  ASSUME SendInv, Heard, [Next]_vars
  PROVE  Heard' \/ Start
<1>1. CASE SendStep
  BY <1>1 DEF SendStep, CheckState, ReserveMetadata, CommitMetadata, WaitForAck, WaitForData,
        FlushNext, WritePacket, FlushMarkRead, FlushEnd, TestKeepRunning, Heard, bufferVars
<1>2. ASSUME NEW c \in Clients, ClientStep(c)
      PROVE  Heard'
  <2>1. Heard'
    <3>1. CASE \E size \in Sizes : ClientCommit(c, size)
      BY <3>1 DEF ClientCommit, Heard
    <3>2. CASE SetReadyToRead(c)
      BY <3>2 DEF SetReadyToRead, Heard
    <3>3. CASE ClientGiveUp(c) \/ \E size \in Sizes : ClientReserve(c, size) \/ ClientExhausted(c, size)
      <4>1. readable' = readable /\ ready' = ready /\ pc' = pc /\ notifying \subseteq notifying'
        BY <3>3 DEF ClientGiveUp, ClientReserve, ClientExhausted, ClientFrame, BM!Reserve, BM!Release,
              BM!Drop, BM!historyVars, BM!poolVars, bufferVars, threadVars
      <4>2. QED
        BY <4>1 DEF Heard
    <3>4. QED
      BY <1>2, <3>1, <3>2, <3>3 DEF ClientStep
  <2>2. QED
    BY <2>1
<1>3. CASE MainStep \/ Acknowledge \/ ConnectionLost \/ WaitForPacketSent
  <2>1. CASE AfterStop
    <3>1. pc = "none"
      BY <2>1 DEF AfterStop, SendInv, ThreadIsOwned
    <3>2. pc' = pc
      BY <2>1 DEF AfterStop, threadVars
    <3>3. QED
      BY <3>1, <3>2 DEF Heard
  <2>2. CASE ~AfterStop
    BY <1>3, <2>2 DEF MainStep, Initialise, Stop, StopKick, StopJoin, Acknowledge,
        ConnectionLost, WaitForPacketSent, Heard, threadVars, bufferVars
  <2>3. QED
    BY <2>1, <2>2
<1>4. CASE UNCHANGED vars
  BY <1>4 DEF vars, threadVars, bufferVars, Heard
<1>5. QED
  BY <1>1, <1>2, <1>3, <1>4 DEF Next

\* The two invariants together.
LEMMA StopInvariant == Spec => [](SendInv /\ StopWakes)
<1>1. Init => StopWakes
  BY DEF Init, StopWakes
<1>2. SendInv /\ StopWakes /\ [Next]_vars => StopWakes'
  BY StopWakesStep
<1>3. QED
  BY <1>1, <1>2, SendInvariant, PTL DEF Spec

\* SendThread::Stop clears m_KeepRunning and then sets m_ReadyToRead: whenever it joins,
\* the thread is past its wait for data or will not be held by it, with a timeout or
\* without (StopReturns, as far as it is about states).
THEOREM StopWakesHolds == Spec => []StopWakes
BY StopInvariant, PTL

\* While Stop joins, every step of the send thread brings it nearer to its end, and no
\* step of anybody else takes it back: the only thing that can prolong the join is a
\* client that goes on committing packets for FlushBuffer to send.
THEOREM StopNearsHolds == Spec => StopNears
<1>1. SendInv /\ StopWakes /\ [Next]_vars =>
        [main = "join" =>
           IF SendStep
           THEN StagesLeft' < StagesLeft \/ (StagesLeft' = StagesLeft /\ FlushLeft' < FlushLeft)
           ELSE StagesLeft' <= StagesLeft]_vars
  BY StopNearsStep
<1>2. QED
  BY <1>1, StopInvariant, PTL DEF Spec, StopNears

\* A commit and its notification are two steps, and yet the thread never goes to wait for
\* packets that it will not be told of, but for those that Start makes it forget: it
\* clears m_ReadyToRead although the queue may hold packets committed before.
THEOREM OnlyStartForgetsHolds == Spec => OnlyStartForgets
<1>1. SendInv /\ [Next]_vars => [Heard => Heard' \/ Start]_vars
  BY HeardStep
<1>2. QED
  BY <1>1, SendInvariant, PTL DEF Spec, OnlyStartForgets
===============================================================================
