------------------------ MODULE FileOnlyConnectionProofs ------------------------
(***************************************************************************)
(* Proofs about FileOnlyConnection for any number of packets: it delivers  *)
(* packets as PacketDelivery says, answers them in order, and is quiet     *)
(* once it is closed.                                                      *)
(***************************************************************************)
EXTENDS FileOnlyConnection, SequenceTheorems, TLAPS

\* A packet is held only between the wait and the handlers, and always while
\* the handlers have it.
TakenAgrees ==
  /\ taken # NoPacket => pc \in {"dispatch", "handle", "fail"}
  /\ pc = "handle" => taken # NoPacket

\* The flag is cleared before the thread is joined or ends, and the thread ends
\* with an empty list; a packet is queued only while the connection is open.
StopAgrees ==
  /\ owner \in {"notify", "join", "closed"} => ~keep
  /\ pc \in {"fail", "done"} => ~keep
  /\ pc = "done" => readable = <<>>
  /\ owner = "closed" => pc = "done"
  /\ writer = "push" => written < MaxPackets

ConnectionInv == TypeOK /\ TakenAgrees /\ StopAgrees
------------------------------------------------------------------------------
\* Take leaves the queue and the packet taken in their types
\* (FileOnlyProfilingConnection::ServiceLocalHandlers).
LEMMA TakeTypes ==
  ASSUME TypeOK, Take
  PROVE  readable' \in Seq(Packet) /\ taken' \in Packet \cup {NoPacket}
<1>1. CASE keep /\ readable # <<>>
  <2>1. Head(readable) \in Packet /\ Tail(readable) \in Seq(Packet)
    BY <1>1 DEF TypeOK
  <2>2. QED
    BY <1>1, <2>1 DEF Take
<1>2. CASE keep /\ readable = <<>>
  BY <1>2 DEF Take, TypeOK
<1>3. CASE ~keep
  BY <1>3 DEF Take, TypeOK
<1>4. QED
  BY <1>1, <1>2, <1>3 DEF TypeOK

\* Every step of the connection and of its users keeps the types and the
\* agreement of flag, thread and owner.
LEMMA InvariantStep == ConnectionInv /\ [Next]_vars => ConnectionInv'
<1> SUFFICES ASSUME ConnectionInv, [Next]_vars
             PROVE  ConnectionInv'
  OBVIOUS
<1> USE FileOnlyAssumption DEF ConnectionInv, TakenAgrees, StopAgrees, TypeOK, queueVars,
        ownerVars, historyVars
<1>1. CASE TestReadable
  <2>1. CASE readable = <<>>
    BY <1>1, <2>1 DEF TestReadable
  <2>2. CASE readable # <<>>
    <3>1. Take /\ pc = "test" /\ pc' = "dispatch"
      BY <1>1, <2>2 DEF TestReadable
    <3>2. readable' \in Seq(Packet) /\ taken' \in Packet \cup {NoPacket}
      BY <3>1, TakeTypes
    <3>3. QED
      BY <1>1, <3>1, <3>2 DEF TestReadable
  <2>3. QED
    BY <2>1, <2>2
<1>2. CASE Timeout
  <2>1. Take /\ pc = "blocked" /\ pc' = "dispatch"
    BY <1>2 DEF Timeout
  <2>2. readable' \in Seq(Packet) /\ taken' \in Packet \cup {NoPacket}
    BY <2>1, TakeTypes
  <2>3. QED
    BY <1>2, <2>1, <2>2 DEF Timeout
<1>3. CASE SpuriousWakeup
  BY <1>3 DEF SpuriousWakeup
<1>4. CASE SkipDispatch
  BY <1>4 DEF SkipDispatch
<1>5. CASE BeginDispatch
  BY <1>5 DEF BeginDispatch
<1>6. CASE Dispatch
  <2>1. taken \in Packet /\ taken.no \in Nat
    BY <1>6 DEF Dispatch, Packet
  <2>2. packetQueue' \in Seq(Nat)
    BY <1>6, <2>1 DEF Dispatch
  <2>3. /\ pc = "handle" /\ pc' = "loop" /\ taken' = NoPacket /\ handled' \in Packet
        /\ UNCHANGED <<readable, keep, writer, owner, unread, terminated, written, answered, timed>>
    BY <1>6, <2>1 DEF Dispatch
  <2>4. QED
    BY <2>2, <2>3
<1>7. CASE HandlerThrows
  <2>1. /\ pc = "handle"
        /\ UNCHANGED <<readable, taken, writer, owner, unread, written, handled, answered, timed>>
    BY <1>7 DEF HandlerThrows
  <2>2. CASE terminated' = TRUE /\ UNCHANGED <<packetQueue, keep, pc>>
    BY <2>1, <2>2
  <2>3. CASE packetQueue' = <<>> /\ keep' = FALSE /\ pc' = "fail" /\ UNCHANGED terminated
    <3>1. packetQueue' \in Seq(Nat)
      BY <2>3
    <3>2. QED
      BY <2>1, <2>3, <3>1
  <2>4. QED
    BY <1>7, <2>2, <2>3 DEF HandlerThrows
<1>8. CASE JoinItself
  BY <1>8 DEF JoinItself
<1>9. CASE Loop
  <2>1. /\ pc = "loop"
        /\ UNCHANGED <<packetQueue, keep, taken, writer, owner, unread, terminated, written,
                       handled, answered, timed>>
    BY <1>9 DEF Loop
  <2>2. CASE keep
    BY <1>9, <2>1, <2>2 DEF Loop
  <2>3. CASE ~keep
    <3>1. pc' = "done" /\ readable' = <<>> /\ readable' \in Seq(Packet)
      BY <1>9, <2>3 DEF Loop
    <3>2. QED
      BY <2>1, <2>3, <3>1
  <2>4. QED
    BY <2>2, <2>3
<1>10. CASE WritePacket
  BY <1>10 DEF WritePacket
<1>11. CASE \E kind \in Kinds : Push(kind)
  <2>1. PICK kind \in Kinds : Push(kind)
    BY <1>11
  <2>2. CASE keep
    <3>1. [no |-> written + 1, kind |-> kind] \in Packet
      BY <2>1 DEF Push, Packet
    <3>2. readable' \in Seq(Packet) /\ written' \in Nat
      <4>1. /\ readable' = Append(readable, [no |-> written + 1, kind |-> kind])
            /\ written' = written + 1
        BY <2>1, <2>2 DEF Push
      <4>2. QED
        BY <3>1, <4>1, AppendProperties
    <3>3. /\ writer = "push" /\ writer' = "notify"
          /\ UNCHANGED <<packetQueue, keep, pc, taken, owner, unread, terminated, handled,
                         answered, timed>>
      BY <2>1, <2>2 DEF Push
    <3>4. QED
      BY <2>2, <3>2, <3>3
  <2>3. CASE ~keep
    BY <2>1, <2>3 DEF Push
  <2>4. QED
    BY <2>2, <2>3
<1>12. CASE Notify
  BY <1>12 DEF Notify, Wake
<1>13. CASE ReadPacket
  <2>1. Head(packetQueue) \in Nat /\ Tail(packetQueue) \in Seq(Nat)
    BY <1>13 DEF ReadPacket
  <2>2. QED
    BY <1>13, <2>1 DEF ReadPacket
<1>14. CASE Close
  BY <1>14 DEF Close
<1>15. CASE DumpUnread
  <2>1. packetQueue' \in Seq(Nat) /\ unread' \in Nat
    BY <1>15 DEF DumpUnread
  <2>2. QED
    BY <1>15, <2>1 DEF DumpUnread
<1>16. CASE StopHandlers
  BY <1>16 DEF StopHandlers
<1>17. CASE NotifyStop
  BY <1>17 DEF NotifyStop, Wake
<1>18. CASE JoinHandlers
  BY <1>18 DEF JoinHandlers
<1>19. CASE UNCHANGED vars
  BY <1>19 DEF vars
<1>20. QED
  BY <1>1, <1>2, <1>3, <1>4, <1>5, <1>6, <1>7, <1>8, <1>9, <1>10, <1>11, <1>12,
     <1>13, <1>14, <1>15, <1>16, <1>17, <1>18, <1>19
  DEF Next, HandlerStep, WriterStep, CloseStep

LEMMA ConnectionInvariant == Spec => []ConnectionInv
<1>1. Init => ConnectionInv
  <2> SUFFICES ASSUME Init PROVE ConnectionInv
    OBVIOUS
  <2>1. readable \in Seq(Packet) /\ packetQueue \in Seq(Nat)
    BY DEF Init
  <2>2. TypeOK
    BY <2>1 DEF Init, TypeOK
  <2>3. TakenAgrees /\ StopAgrees
    BY DEF Init, TakenAgrees, StopAgrees
  <2>4. QED
    BY <2>2, <2>3 DEF ConnectionInv
<1>2. QED
  BY <1>1, InvariantStep, PTL DEF Spec

\* The types of the connection's state hold in every run.
THEOREM TypeCorrect == Spec => []TypeOK
BY ConnectionInvariant, PTL DEF ConnectionInv

\* Close leaves neither the handler thread nor a packet for it.
THEOREM ClosedIsQuietHolds == Spec => []ClosedIsQuiet
<1>1. ConnectionInv => ClosedIsQuiet
  BY DEF ConnectionInv, StopAgrees, ClosedIsQuiet
<1>2. QED
  BY <1>1, ConnectionInvariant, PTL
------------------------------------------------------------------------------
(* What the handlers still have to be given, a packet taken included.       *)

Pending == IF taken = NoPacket THEN readable ELSE <<taken>> \o readable

\* No packet is the value for none.
LEMMA PacketIsNone == NoPacket \notin Packet
BY FileOnlyAssumption DEF Packet

\* A packet put before a sequence is its head.
LEMMA ConsProperties ==
  ASSUME NEW S, NEW e \in S, NEW s \in Seq(S)
  PROVE  /\ <<e>> \o s \in Seq(S)
         /\ Len(<<e>> \o s) = Len(s) + 1
         /\ <<e>> \o s # <<>>
         /\ Head(<<e>> \o s) = e
         /\ Tail(<<e>> \o s) = s
<1>1. <<e>> \in Seq(S) /\ Len(<<e>>) = 1 /\ <<e>>[1] = e
  OBVIOUS
<1>2. /\ <<e>> \o s \in Seq(S)
      /\ Len(<<e>> \o s) = Len(s) + 1
      /\ (<<e>> \o s)[1] = e
      /\ \A i \in 1..Len(s) : (<<e>> \o s)[i + 1] = s[i]
  BY <1>1, ConcatProperties, LenProperties
<1>3. <<e>> \o s # <<>> /\ Head(<<e>> \o s) = e
  BY <1>2, LenProperties
<1>4. Tail(<<e>> \o s) = s
  <2>1. /\ Tail(<<e>> \o s) \in Seq(S)
        /\ Len(Tail(<<e>> \o s)) = Len(s)
        /\ \A i \in 1..Len(s) : Tail(<<e>> \o s)[i] = s[i]
    BY <1>2, <1>3, HeadTailProperties, LenProperties
  <2>2. QED
    BY <2>1, SeqEqual
<1>5. QED
  BY <1>2, <1>3, <1>4

\* A sequence is its head before its tail.
LEMMA HeadBeforeTail ==
  ASSUME NEW S, NEW s \in Seq(S), s # <<>>
  PROVE  s = <<Head(s)>> \o Tail(s)
<1>1. Len(s) \in Nat /\ Len(s) >= 1
  BY EmptySeq
<1>2. SubSeq(s, 1, Len(s)) = <<s[1]>> \o SubSeq(s, 2, Len(s))
  BY <1>1, SubSeqRecursiveFirst
<1>3. s[1] = Head(s)
  BY <1>1
<1>4. QED
  BY <1>2, <1>3, SubSeqFull, TailIsSubSeq

\* Appending commutes with putting a packet before.
LEMMA AppendAfterCons ==
  ASSUME NEW S, NEW e \in S, NEW s \in Seq(S), NEW x \in S
  PROVE  Append(<<e>> \o s, x) = <<e>> \o Append(s, x)
<1>1. <<e>> \in Seq(S) /\ <<x>> \in Seq(S)
  OBVIOUS
<1>2. Append(<<e>> \o s, x) = (<<e>> \o s) \o <<x>>
  BY ConsProperties, AppendIsConcat
<1>3. QED
  BY <1>1, <1>2, ConcatAssociative, AppendIsConcat

\* The whole of a sequence, or its head, may be thrown away.
LEMMA DiscardParts ==
  ASSUME NEW S, NEW s \in Seq(S), s # <<>>
  PROVE  /\ \E n \in 1..Len(s) : <<>> = SubSeq(s, n + 1, Len(s))
         /\ \E n \in 1..Len(s) : Tail(s) = SubSeq(s, n + 1, Len(s))
<1>1. Len(s) \in Nat /\ Len(s) >= 1
  BY EmptySeq
<1>2. <<>> = SubSeq(s, Len(s) + 1, Len(s))
  BY <1>1, SubSeqEmpty
<1>3. Tail(s) = SubSeq(s, 1 + 1, Len(s))
  BY TailIsSubSeq
<1>4. QED
  BY <1>1, <1>2, <1>3

\* Pending is a sequence of packets.
LEMMA PendingType == TypeOK => Pending \in Seq(Packet)
<1> SUFFICES ASSUME TypeOK PROVE Pending \in Seq(Packet)
  OBVIOUS
<1>1. CASE taken = NoPacket
  BY <1>1 DEF TypeOK, Pending
<1>2. CASE taken # NoPacket
  BY <1>2, ConsProperties DEF TypeOK, Pending
<1>3. QED
  BY <1>1, <1>2

\* Taking a packet keeps what is pending, or throws it away once the connection
\* was told to close (ServiceLocalHandlers after its wait).
LEMMA TakeDelivers ==
  ASSUME TypeOK, taken = NoPacket, Take, keep' = keep, handled' = handled
  PROVE  [Delivery!Discard]_(Delivery!deliveryVars)
<1>1. CASE keep /\ readable = <<>>
  <2>1. taken' = NoPacket /\ readable' = readable
    BY <1>1 DEF Take
  <2>2. QED
    BY <2>1 DEF Delivery!deliveryVars
<1>2. CASE keep /\ readable # <<>>
  <2>1. taken' = Head(readable) /\ readable' = Tail(readable)
    BY <1>2 DEF Take
  <2>2. taken' # NoPacket
    BY <1>2, <2>1, HeadTailProperties, PacketIsNone DEF TypeOK
  <2>3. readable = <<taken'>> \o readable'
    BY <1>2, <2>1, HeadBeforeTail DEF TypeOK
  <2>4. Pending' = Pending
    BY <2>2, <2>3 DEF Pending
  <2>5. QED
    BY <2>4 DEF Delivery!deliveryVars, Pending
<1>3. CASE ~keep
  <2>1. readable' = <<>> /\ taken' = NoPacket
    BY <1>3 DEF Take
  <2>2. CASE readable = <<>>
    BY <2>1, <2>2 DEF Delivery!deliveryVars
  <2>3. CASE readable # <<>>
    <3>1. \E n \in 1..Len(readable) : <<>> = SubSeq(readable, n + 1, Len(readable))
      BY <2>3, DiscardParts DEF TypeOK
    <3>2. QED
      BY <1>3, <2>1, <3>1 DEF Delivery!Discard
  <2>4. QED
    BY <2>2, <2>3
<1>4. QED
  BY <1>1, <1>2, <1>3 DEF TypeOK

\* Every step is a step of PacketDelivery or leaves its view unchanged.
LEMMA DeliveryStep ==
  ConnectionInv /\ [Next]_vars => [Delivery!Next]_(Delivery!deliveryVars)
<1> SUFFICES ASSUME ConnectionInv, [Next]_vars
             PROVE  [Delivery!Next]_(Delivery!deliveryVars)
  OBVIOUS
<1> USE DEF ConnectionInv, queueVars, ownerVars, historyVars
<1>1. ASSUME taken' = taken, readable' = readable, keep' = keep, handled' = handled
      PROVE  UNCHANGED Delivery!deliveryVars
  BY <1>1 DEF Delivery!deliveryVars
<1>2. ASSUME taken' = taken, readable' = readable, keep' = FALSE, handled' = handled
      PROVE  Delivery!Close
  BY <1>2 DEF Delivery!Close
<1>3. CASE TestReadable
  <2>1. CASE readable = <<>>
    BY <1>1, <1>3, <2>1 DEF TestReadable
  <2>2. CASE readable # <<>>
    <3>1. taken = NoPacket
      BY <1>3 DEF TestReadable, TakenAgrees
    <3>2. Take /\ keep' = keep /\ handled' = handled
      BY <1>3, <2>2 DEF TestReadable
    <3>3. QED
      BY <3>1, <3>2, TakeDelivers DEF Delivery!Next
  <2>3. QED
    BY <2>1, <2>2
<1>4. CASE Timeout
  <2>1. taken = NoPacket
    BY <1>4 DEF Timeout, TakenAgrees
  <2>2. Take /\ keep' = keep /\ handled' = handled
    BY <1>4 DEF Timeout
  <2>3. QED
    BY <2>1, <2>2, TakeDelivers DEF Delivery!Next
<1>5. CASE SkipDispatch
  <2>1. UNCHANGED <<readable, keep, handled>> /\ taken' = NoPacket
    BY <1>5 DEF SkipDispatch
  <2>2. CASE taken = NoPacket
    BY <1>1, <2>1, <2>2
  <2>3. CASE taken # NoPacket
    <3>1. Pending \in Seq(Packet) /\ Pending # <<>> /\ Tail(Pending) = readable
      BY <2>3, ConsProperties DEF TypeOK, Pending
    <3>2. \E n \in 1..Len(Pending) : readable = SubSeq(Pending, n + 1, Len(Pending))
      BY <3>1, DiscardParts
    <3>3. ~keep
      BY <1>5, <2>3 DEF SkipDispatch
    <3>4. Delivery!Discard
      BY <2>1, <3>2, <3>3 DEF Delivery!Discard, Pending
    <3>5. QED
      BY <3>4 DEF Delivery!Next
  <2>4. QED
    BY <2>2, <2>3
<1>6. CASE Dispatch
  <2>1. taken # NoPacket /\ taken \in Packet /\ readable \in Seq(Packet)
    BY <1>6 DEF Dispatch, TakenAgrees, TypeOK
  <2>2. UNCHANGED <<readable, keep>> /\ handled' = taken /\ taken' = NoPacket
    BY <1>6 DEF Dispatch
  <2>3. /\ <<taken>> \o readable # <<>>
        /\ Head(<<taken>> \o readable) = taken
        /\ Tail(<<taken>> \o readable) = readable
    BY <2>1, ConsProperties
  <2>4. Delivery!Deliver
    BY <2>1, <2>2, <2>3 DEF Delivery!Deliver
  <2>5. QED
    BY <2>4 DEF Delivery!Next
<1>7. CASE HandlerThrows
  <2>1. UNCHANGED <<readable, taken, handled>> /\ (keep' = keep \/ keep' = FALSE)
    BY <1>7 DEF HandlerThrows
  <2>2. QED
    BY <1>1, <1>2, <2>1 DEF Delivery!Next
<1>8. CASE Loop
  <2>1. UNCHANGED <<keep, taken, handled>> /\ taken = NoPacket
    BY <1>8 DEF Loop, TakenAgrees
  <2>2. CASE keep \/ readable = <<>>
    BY <1>1, <1>8, <2>1, <2>2 DEF Loop
  <2>3. CASE ~keep /\ readable # <<>>
    <3>1. readable' = <<>>
      BY <1>8, <2>3 DEF Loop
    <3>2. \E n \in 1..Len(readable) : <<>> = SubSeq(readable, n + 1, Len(readable))
      BY <2>3, DiscardParts DEF TypeOK
    <3>3. Delivery!Discard
      BY <2>1, <2>3, <3>1, <3>2 DEF Delivery!Discard
    <3>4. QED
      BY <3>3 DEF Delivery!Next
  <2>4. QED
    BY <2>2, <2>3
<1>9. CASE \E kind \in Kinds : Push(kind)
  <2>1. PICK kind \in Kinds : Push(kind)
    BY <1>9
  <2>2. CASE ~keep
    BY <1>1, <2>1, <2>2 DEF Push
  <2>3. CASE keep
    <3> DEFINE p == [no |-> written + 1, kind |-> kind]
    <3>1. p \in Packet
      BY <2>1, FileOnlyAssumption DEF Push, StopAgrees, TypeOK, Packet
    <3>2. readable' = Append(readable, p) /\ UNCHANGED <<taken, keep, handled>>
      BY <2>1, <2>3 DEF Push
    <3> HIDE DEF p
    <3>3. Pending' = Append(Pending, p)
      BY <3>1, <3>2, AppendAfterCons DEF Pending, TypeOK
    <3>4. Delivery!Write(p)
      BY <2>3, <3>2, <3>3 DEF Delivery!Write, Pending
    <3>5. QED
      BY <3>1, <3>4 DEF Delivery!Next
  <2>4. QED
    BY <2>2, <2>3
<1>10. CASE StopHandlers
  BY <1>2, <1>10 DEF StopHandlers, Delivery!Next
<1>11. CASE \/ SpuriousWakeup \/ BeginDispatch \/ JoinItself \/ WritePacket \/ Notify
            \/ ReadPacket \/ Close \/ DumpUnread \/ NotifyStop \/ JoinHandlers
            \/ UNCHANGED vars
  BY <1>1, <1>11
  DEF SpuriousWakeup, BeginDispatch, JoinItself, WritePacket, Notify, ReadPacket, Close,
      DumpUnread, NotifyStop, JoinHandlers, vars
<1>12. QED
  BY <1>3, <1>4, <1>5, <1>6, <1>7, <1>8, <1>9, <1>10, <1>11
  DEF Next, HandlerStep, WriterStep, CloseStep

\* The connection delivers packets as PacketDelivery says: once, in order, none
\* lost before it is told to close.
THEOREM DeliversPackets == Spec => RefinesPacketDelivery
<1>1. Init => Delivery!Init
  BY DEF Init, Delivery!Init
<1>2. QED
  BY <1>1, DeliveryStep, ConnectionInvariant, PTL
  DEF Spec, RefinesPacketDelivery, Delivery!Spec
------------------------------------------------------------------------------
(* The order of the acknowledgements.                                       *)

\* The number of the packet taken last from the list, and of the packet the
\* handlers are through with.
LastTaken == written - Len(readable)

LastHandled == IF taken = NoPacket THEN LastTaken ELSE LastTaken - 1

\* The list holds the packets after the one taken last, without a gap; what the
\* handlers returned and nobody has read is increasing, after what was read
\* last, and answers packets the handlers are through with.
OrderInv ==
  /\ Len(readable) <= written
  /\ \A i \in 1..Len(readable) : readable[i].no = LastTaken + i
  /\ taken # NoPacket => taken.no = LastTaken
  /\ answered <= LastHandled
  /\ \A i \in 1..Len(packetQueue) : packetQueue[i] \in (answered + 1)..LastHandled
  /\ \A i, j \in 1..Len(packetQueue) : i < j => packetQueue[i] < packetQueue[j]

\* Taking a packet closes up to the list: the packet taken is the next one.
LEMMA TakeKeepsOrder ==
  ASSUME TypeOK, OrderInv, taken = NoPacket, Take,
         UNCHANGED <<packetQueue, written, answered>>
  PROVE  OrderInv'
<1>1. Len(readable) \in Nat /\ written \in Nat
  BY LenProperties DEF TypeOK
<1>2. CASE keep /\ readable # <<>>
  <2>1. taken' = Head(readable) /\ readable' = Tail(readable)
    BY <1>2 DEF Take
  <2>2. Len(readable) >= 1 /\ taken' = readable[1] /\ taken' \in Packet
    BY <1>1, <1>2, <2>1, EmptySeq, HeadTailProperties DEF TypeOK
  <2>3. /\ Len(readable') = Len(readable) - 1
        /\ \A i \in 1..Len(readable') : readable'[i] = readable[i + 1]
    BY <1>2, <2>1, HeadTailProperties DEF TypeOK
  <2>4. LastTaken' = LastTaken + 1
    BY <1>1, <2>3 DEF LastTaken
  <2>5. taken' # NoPacket /\ LastHandled' = LastHandled
    BY <1>1, <2>2, <2>4, PacketIsNone DEF LastHandled, LastTaken
  <2>6. taken'.no = LastTaken'
    BY <1>1, <2>2, <2>4 DEF OrderInv
  <2>7. Len(readable') <= written'
    BY <1>1, <2>3 DEF OrderInv
  <2>8. \A i \in 1..Len(readable') : readable'[i].no = LastTaken' + i
    <3> TAKE i \in 1..Len(readable')
    <3>1. i + 1 \in 1..Len(readable) /\ readable'[i] = readable[i + 1]
      BY <1>1, <2>3
    <3>2. readable[i + 1].no = LastTaken + (i + 1)
      BY <3>1 DEF OrderInv
    <3>3. QED
      BY <1>1, <2>4, <3>1, <3>2 DEF LastTaken
  <2>9. QED
    BY <2>5, <2>6, <2>7, <2>8 DEF OrderInv
<1>3. CASE keep /\ readable = <<>>
  BY <1>3 DEF Take, OrderInv, LastTaken, LastHandled
<1>4. CASE ~keep
  <2>1. readable' = <<>> /\ taken' = NoPacket
    BY <1>4 DEF Take
  <2>2. Len(readable') = 0 /\ LastHandled' = written /\ LastHandled <= written
    BY <1>1, <2>1 DEF LastHandled, LastTaken
  <2>3. QED
    BY <1>1, <2>1, <2>2 DEF OrderInv, LastHandled, LastTaken, TypeOK
<1>5. QED
  BY <1>2, <1>3, <1>4 DEF TypeOK

\* Every step keeps the order.
LEMMA OrderStep == ConnectionInv /\ OrderInv /\ [Next]_vars => OrderInv'
<1> SUFFICES ASSUME ConnectionInv, OrderInv, [Next]_vars
             PROVE  OrderInv'
  OBVIOUS
<1> USE DEF ConnectionInv, queueVars, ownerVars, historyVars
<1>1. Len(readable) \in Nat /\ Len(packetQueue) \in Nat /\ written \in Nat /\ answered \in Nat
  BY LenProperties DEF TypeOK
<1>2. \A i \in 1..Len(packetQueue) : packetQueue[i] \in Nat
  BY ElementOfSeq DEF TypeOK
<1>3. ASSUME UNCHANGED <<readable, packetQueue, taken, written, answered>>
      PROVE  OrderInv'
  BY <1>3 DEF OrderInv, LastTaken, LastHandled
<1>4. CASE TestReadable
  <2>1. CASE readable = <<>>
    BY <1>3, <1>4, <2>1 DEF TestReadable
  <2>2. CASE readable # <<>>
    <3>1. taken = NoPacket
      BY <1>4 DEF TestReadable, TakenAgrees
    <3>2. Take /\ UNCHANGED <<packetQueue, written, answered>>
      BY <1>4, <2>2 DEF TestReadable
    <3>3. QED
      BY <3>1, <3>2, TakeKeepsOrder
  <2>3. QED
    BY <2>1, <2>2
<1>5. CASE Timeout
  <2>1. taken = NoPacket
    BY <1>5 DEF Timeout, TakenAgrees
  <2>2. Take /\ UNCHANGED <<packetQueue, written, answered>>
    BY <1>5 DEF Timeout
  <2>3. QED
    BY <2>1, <2>2, TakeKeepsOrder
<1>6. CASE SkipDispatch
  <2>1. taken' = NoPacket /\ UNCHANGED <<readable, packetQueue, written, answered>>
    BY <1>6 DEF SkipDispatch
  <2>2. LastTaken' = LastTaken /\ LastHandled <= LastHandled' /\ LastHandled' = LastTaken
    BY <1>1, <2>1 DEF LastTaken, LastHandled
  <2>3. QED
    BY <1>1, <1>2, <2>1, <2>2 DEF OrderInv, LastTaken, LastHandled
<1>7. CASE Dispatch
  <2>1. taken # NoPacket /\ taken \in Packet
    BY <1>7 DEF Dispatch, TakenAgrees, TypeOK
  <2>2. taken' = NoPacket /\ UNCHANGED <<readable, written, answered>>
    BY <1>7 DEF Dispatch
  <2>3. /\ LastHandled \in Int
        /\ LastTaken' = LastTaken
        /\ LastHandled' = LastHandled + 1
        /\ taken.no = LastHandled'
    BY <1>1, <2>1, <2>2 DEF LastTaken, LastHandled, OrderInv
  <2>4. CASE packetQueue' = packetQueue
    BY <1>1, <1>2, <2>2, <2>3, <2>4 DEF OrderInv, LastHandled
  <2>5. CASE packetQueue' = Append(packetQueue, taken.no)
    <3>1. taken.no \in Nat
      BY <2>1 DEF Packet
    <3>2. /\ Len(packetQueue') = Len(packetQueue) + 1
          /\ \A i \in 1..Len(packetQueue) : packetQueue'[i] = packetQueue[i]
          /\ packetQueue'[Len(packetQueue) + 1] = taken.no
      BY <2>5, <3>1, AppendProperties DEF TypeOK
    <3>3. \A i \in 1..Len(packetQueue) : packetQueue[i] < taken.no /\ packetQueue[i] > answered
      BY <1>1, <1>2, <2>3, <3>1 DEF OrderInv
    <3>4. answered < taken.no
      BY <1>1, <2>3, <3>1 DEF OrderInv
    <3>5. \A i \in 1..Len(packetQueue') : packetQueue'[i] \in (answered' + 1)..LastHandled'
      <4> TAKE i \in 1..Len(packetQueue')
      <4>1. i \in 1..Len(packetQueue) \/ i = Len(packetQueue) + 1
        BY <1>1, <3>2
      <4>2. QED
        BY <1>1, <1>2, <2>2, <2>3, <3>1, <3>2, <3>3, <3>4, <4>1
    <3>6. \A i, j \in 1..Len(packetQueue') : i < j => packetQueue'[i] < packetQueue'[j]
      <4> TAKE i, j \in 1..Len(packetQueue')
      <4> HAVE i < j
      <4>1. i \in 1..Len(packetQueue)
        BY <1>1, <3>2
      <4>2. CASE j \in 1..Len(packetQueue)
        BY <3>2, <4>1, <4>2 DEF OrderInv
      <4>3. CASE j = Len(packetQueue) + 1
        BY <3>2, <3>3, <4>1, <4>3
      <4>4. QED
        BY <1>1, <3>2, <4>2, <4>3
    <3>7. answered' <= LastHandled'
      BY <1>1, <2>2, <2>3, <3>4
    <3>8. QED
      BY <2>2, <2>3, <3>5, <3>6, <3>7 DEF OrderInv
  <2>6. QED
    BY <1>7, <2>4, <2>5 DEF Dispatch
<1>8. CASE HandlerThrows
  <2>1. /\ UNCHANGED <<readable, taken, written, answered>>
        /\ packetQueue' = packetQueue \/ packetQueue' = <<>>
    BY <1>8 DEF HandlerThrows
  <2>2. CASE packetQueue' = packetQueue
    BY <1>3, <2>1, <2>2
  <2>3. CASE packetQueue' = <<>>
    <3>1. Len(packetQueue') = 0
      BY <2>3
    <3>2. QED
      BY <2>1, <3>1 DEF OrderInv, LastTaken, LastHandled
  <2>4. QED
    BY <2>1, <2>2, <2>3
<1>9. CASE Loop
  <2>1. UNCHANGED <<packetQueue, taken, written, answered>> /\ taken = NoPacket
    BY <1>9 DEF Loop, TakenAgrees
  <2>2. CASE keep
    BY <1>3, <1>9, <2>1, <2>2 DEF Loop
  <2>3. CASE ~keep
    <3>1. readable' = <<>> /\ Len(readable') = 0
      BY <1>9, <2>3 DEF Loop
    <3>2. LastHandled <= written /\ LastHandled' = written /\ LastHandled \in Int
      BY <1>1, <2>1, <3>1 DEF LastTaken, LastHandled
    <3>3. QED
      BY <1>1, <1>2, <2>1, <3>1, <3>2 DEF OrderInv
  <2>4. QED
    BY <2>2, <2>3
<1>10. CASE \E kind \in Kinds : Push(kind)
  <2>1. PICK kind \in Kinds : Push(kind)
    BY <1>10
  <2>2. CASE ~keep
    BY <1>3, <2>1, <2>2 DEF Push
  <2>3. CASE keep
    <3> DEFINE p == [no |-> written + 1, kind |-> kind]
    <3>1. p \in Packet /\ p.no = written + 1
      BY <2>1, FileOnlyAssumption DEF Push, StopAgrees, TypeOK, Packet
    <3>2. /\ readable' = Append(readable, p)
          /\ written' = written + 1
          /\ UNCHANGED <<taken, packetQueue, answered>>
      BY <2>1, <2>3 DEF Push
    <3> HIDE DEF p
    <3>3. /\ Len(readable') = Len(readable) + 1
          /\ \A i \in 1..Len(readable) : readable'[i] = readable[i]
          /\ readable'[Len(readable) + 1] = p
      BY <3>1, <3>2, AppendProperties DEF TypeOK
    <3>4. LastTaken' = LastTaken /\ LastHandled' = LastHandled
      BY <1>1, <3>2, <3>3 DEF LastTaken, LastHandled
    <3>5. \A i \in 1..Len(readable') : readable'[i].no = LastTaken' + i
      <4> TAKE i \in 1..Len(readable')
      <4>1. CASE i \in 1..Len(readable)
        BY <3>3, <3>4, <4>1 DEF OrderInv
      <4>2. CASE i = Len(readable) + 1
        BY <1>1, <3>1, <3>3, <3>4, <4>2 DEF LastTaken
      <4>3. QED
        BY <1>1, <3>3, <4>1, <4>2
    <3>6. Len(readable') <= written'
      BY <1>1, <3>2, <3>3 DEF OrderInv
    <3>7. QED
      BY <3>2, <3>4, <3>5, <3>6 DEF OrderInv
  <2>4. QED
    BY <2>2, <2>3
<1>11. CASE ReadPacket
  <2>1. packetQueue # <<>> /\ UNCHANGED <<readable, taken, written>>
    BY <1>11 DEF ReadPacket
  <2>2. answered' = packetQueue[1] /\ 1 \in 1..Len(packetQueue)
    BY <1>1, <1>11, EmptySeq DEF ReadPacket, TypeOK
  <2>3. /\ Len(packetQueue') = Len(packetQueue) - 1
        /\ \A i \in 1..Len(packetQueue') : packetQueue'[i] = packetQueue[i + 1]
    BY <1>11, HeadTailProperties DEF ReadPacket, TypeOK
  <2>4. LastTaken' = LastTaken /\ LastHandled' = LastHandled /\ LastHandled \in Int
    BY <1>1, <2>1 DEF LastTaken, LastHandled
  <2>5. answered' <= LastHandled'
    BY <1>2, <2>2, <2>4 DEF OrderInv
  <2>6. \A i \in 1..Len(packetQueue') : packetQueue'[i] \in (answered' + 1)..LastHandled'
    <3> TAKE i \in 1..Len(packetQueue')
    <3>1. i + 1 \in 1..Len(packetQueue) /\ 1 < i + 1
      BY <1>1, <2>3
    <3>2. packetQueue[1] < packetQueue[i + 1] /\ packetQueue[i + 1] <= LastHandled
      BY <1>1, <1>2, <2>2, <2>4, <3>1 DEF OrderInv
    <3>3. QED
      BY <1>2, <2>2, <2>3, <2>4, <3>1, <3>2
  <2>7. \A i, j \in 1..Len(packetQueue') : i < j => packetQueue'[i] < packetQueue'[j]
    <3> TAKE i, j \in 1..Len(packetQueue')
    <3> HAVE i < j
    <3>1. /\ i + 1 \in 1..Len(packetQueue)
          /\ j + 1 \in 1..Len(packetQueue)
          /\ i + 1 < j + 1
      BY <1>1, <2>3
    <3>2. packetQueue[i + 1] < packetQueue[j + 1]
      BY <3>1 DEF OrderInv
    <3>3. QED
      BY <2>3, <3>2
  <2>8. QED
    BY <2>1, <2>4, <2>5, <2>6, <2>7 DEF OrderInv
<1>12. CASE DumpUnread
  <2>1. UNCHANGED <<readable, taken, written, answered>>
    BY <1>12 DEF DumpUnread
  <2>2. CASE packetQueue = <<>>
    BY <1>3, <1>12, <2>1, <2>2 DEF DumpUnread
  <2>3. CASE packetQueue # <<>>
    <3>1. /\ Len(packetQueue') = Len(packetQueue) - 1
          /\ \A i \in 1..Len(packetQueue') : packetQueue'[i] = packetQueue[i + 1]
      BY <1>12, <2>3, HeadTailProperties DEF DumpUnread, TypeOK
    <3>2. \A i \in 1..Len(packetQueue') : i + 1 \in 1..Len(packetQueue)
      BY <1>1, <3>1
    <3>3. \A i \in 1..Len(packetQueue') : packetQueue'[i] \in (answered + 1)..LastHandled
      BY <3>1, <3>2 DEF OrderInv
    <3>4. \A i, j \in 1..Len(packetQueue') : i < j => packetQueue'[i] < packetQueue'[j]
      <4> TAKE i, j \in 1..Len(packetQueue')
      <4> HAVE i < j
      <4>1. i + 1 \in 1..Len(packetQueue) /\ j + 1 \in 1..Len(packetQueue) /\ i + 1 < j + 1
        BY <1>1, <3>1
      <4>2. packetQueue[i + 1] < packetQueue[j + 1]
        BY <4>1 DEF OrderInv
      <4>3. QED
        BY <3>1, <4>2
    <3>5. LastTaken' = LastTaken /\ LastHandled' = LastHandled
      BY <2>1 DEF LastTaken, LastHandled
    <3>6. QED
      BY <2>1, <3>3, <3>4, <3>5 DEF OrderInv
  <2>4. QED
    BY <2>2, <2>3
<1>13. CASE \/ SpuriousWakeup \/ BeginDispatch \/ JoinItself \/ WritePacket \/ Notify
            \/ Close \/ StopHandlers \/ NotifyStop \/ JoinHandlers \/ UNCHANGED vars
  BY <1>3, <1>13
  DEF SpuriousWakeup, BeginDispatch, JoinItself, WritePacket, Notify, Close, StopHandlers,
      NotifyStop, JoinHandlers, vars
<1>14. QED
  BY <1>4, <1>5, <1>6, <1>7, <1>8, <1>9, <1>10, <1>11, <1>12, <1>13
  DEF Next, HandlerStep, WriterStep, CloseStep

\* A step that reads an acknowledgement reads one of a later packet.
LEMMA ReadsLaterAnswer ==
  ASSUME ConnectionInv, OrderInv, [Next]_vars
  PROVE  answered' = answered \/ answered' > answered
<1>1. CASE ReadPacket
  <2>1. answered' = packetQueue[1] /\ 1 \in 1..Len(packetQueue)
    BY <1>1, EmptySeq, LenProperties DEF ReadPacket, ConnectionInv, TypeOK
  <2>2. packetQueue[1] \in (answered + 1)..LastHandled
    BY <2>1 DEF OrderInv
  <2>3. QED
    BY <2>1, <2>2 DEF ConnectionInv, TypeOK
<1>2. CASE ~ReadPacket
  BY <1>2
  DEF Next, HandlerStep, WriterStep, CloseStep, TestReadable, Timeout, SpuriousWakeup,
      SkipDispatch, BeginDispatch, Dispatch, HandlerThrows, JoinItself, Loop, WritePacket,
      Push, Notify, Close, DumpUnread, StopHandlers, NotifyStop, JoinHandlers, historyVars,
      vars
<1>3. QED
  BY <1>1, <1>2

\* The acknowledgements are read in the order of the packets they answer, each at
\* most once (ReturnPacket and ReadPacket).
THEOREM AnswersInOrder == Spec => AnsweredInOrder
<1>1. Init => OrderInv
  BY DEF Init, OrderInv, LastTaken, LastHandled
<1>2. ConnectionInv /\ OrderInv /\ [Next]_vars => [answered' = answered \/ answered' > answered]_vars
  BY ReadsLaterAnswer
<1>3. QED
  BY <1>1, <1>2, OrderStep, ConnectionInvariant, PTL DEF Spec, AnsweredInOrder
------------------------------------------------------------------------------
(* Why a packet written is handled, if the threads run: the wakeup is not    *)
(* lost, and every step of the handler thread brings it nearer to a packet.  *)

\* The handler thread blocks with a packet queued only until the notification
\* that follows every packet.
NoLostWakeup == pc = "blocked" /\ readable # <<>> => writer = "notify"

\* The number of the packet handled last.
HandledNo == IF handled = NoPacket THEN 0 ELSE handled.no

\* Until the connection is told to close, the packets the thread is through with
\* were all handled.
HandledAgrees == keep => HandledNo = LastHandled

\* How far the handler thread is from handling a packet, when there is one.
StepsLeft ==
  CASE pc = "blocked" -> 6
    [] pc = "dispatch" /\ taken = NoPacket -> 5
    [] pc = "loop" -> 4
    [] pc = "test" -> 3
    [] pc = "dispatch" /\ taken # NoPacket -> 2
    [] OTHER -> 1

\* As long as a packet is not handled and nothing stops the thread, each of its
\* steps handles a packet or is one of at most six before the next, and no step
\* of another thread puts it back.
HandlerNears ==
  [][keep' /\ ~terminated' /\ HandledNo < written =>
       IF HandlerStep
       THEN HandledNo' > HandledNo \/ (HandledNo' = HandledNo /\ StepsLeft' < StepsLeft)
       ELSE HandledNo' = HandledNo /\ StepsLeft' <= StepsLeft]_vars

\* A packet is queued, and its notification is sent, by the same thread: nothing
\* falls between them that leaves the handler thread waiting.
LEMMA WakeupStep == ConnectionInv /\ NoLostWakeup /\ [Next]_vars => NoLostWakeup'
<1> SUFFICES ASSUME ConnectionInv, NoLostWakeup, [Next]_vars
             PROVE  NoLostWakeup'
  OBVIOUS
<1> USE DEF NoLostWakeup, queueVars, ownerVars, historyVars
<1>1. CASE TestReadable
  BY <1>1 DEF TestReadable
<1>2. CASE Timeout \/ SpuriousWakeup \/ SkipDispatch \/ BeginDispatch \/ Dispatch \/ Loop
  BY <1>2 DEF Timeout, SpuriousWakeup, SkipDispatch, BeginDispatch, Dispatch, Loop
<1>3. CASE HandlerThrows \/ JoinItself
  BY <1>3 DEF HandlerThrows, JoinItself
<1>4. CASE \E kind \in Kinds : Push(kind)
  BY <1>4 DEF Push
<1>5. CASE Notify \/ NotifyStop
  BY <1>5 DEF Notify, NotifyStop, Wake
<1>6. CASE \/ WritePacket \/ ReadPacket \/ Close \/ DumpUnread \/ StopHandlers
           \/ JoinHandlers \/ UNCHANGED vars
  BY <1>6 DEF WritePacket, ReadPacket, Close, DumpUnread, StopHandlers, JoinHandlers, vars
<1>7. QED
  BY <1>1, <1>2, <1>3, <1>4, <1>5, <1>6 DEF Next, HandlerStep, WriterStep, CloseStep

\* No wakeup is lost, although the predicate, the block and the notification are
\* steps of two threads (WritePacket and ServiceLocalHandlers).
THEOREM WakeupIsNotLost == Spec => []NoLostWakeup
<1>1. Init => NoLostWakeup
  BY DEF Init, NoLostWakeup
<1>2. QED
  BY <1>1, WakeupStep, ConnectionInvariant, PTL DEF Spec

LEMMA OrderInvariant == Spec => []OrderInv
<1>1. Init => OrderInv
  BY DEF Init, OrderInv, LastTaken, LastHandled
<1>2. QED
  BY <1>1, OrderStep, ConnectionInvariant, PTL DEF Spec

\* While the connection runs, taking a packet does not finish one.
LEMMA TakeFinishesNone ==
  ASSUME TypeOK, taken = NoPacket, Take, keep, UNCHANGED written
  PROVE  /\ LastHandled' = LastHandled
         /\ readable # <<>> => taken' # NoPacket
         /\ readable = <<>> => taken' = NoPacket
<1>1. Len(readable) \in Nat /\ written \in Nat
  BY LenProperties DEF TypeOK
<1>2. CASE readable = <<>>
  BY <1>2 DEF Take, LastHandled, LastTaken
<1>3. CASE readable # <<>>
  <2>1. taken' = Head(readable) /\ readable' = Tail(readable)
    BY <1>3 DEF Take
  <2>2. taken' # NoPacket /\ Len(readable') = Len(readable) - 1
    BY <1>3, <2>1, HeadTailProperties, PacketIsNone DEF TypeOK
  <2>3. QED
    BY <1>1, <1>3, <2>2 DEF LastHandled, LastTaken
<1>4. QED
  BY <1>2, <1>3

\* Every step keeps the two counts together.
LEMMA HandledStep ==
  ConnectionInv /\ OrderInv /\ HandledAgrees /\ [Next]_vars => HandledAgrees'
<1> SUFFICES ASSUME ConnectionInv, OrderInv, HandledAgrees, [Next]_vars, keep'
             PROVE  HandledNo' = LastHandled'
  BY DEF HandledAgrees
<1> USE DEF ConnectionInv, queueVars, ownerVars, historyVars
<1>1. Len(readable) \in Nat /\ written \in Nat
  BY LenProperties DEF TypeOK
<1>2. ASSUME UNCHANGED <<readable, taken, written, handled, keep>>
      PROVE  HandledNo' = LastHandled'
  BY <1>2 DEF HandledAgrees, HandledNo, LastHandled, LastTaken
<1>3. CASE TestReadable \/ Timeout
  <2>1. CASE pc' = "blocked"
    BY <1>2, <1>3, <2>1 DEF TestReadable, Timeout
  <2>2. CASE pc' = "dispatch"
    <3>1. /\ keep /\ Take /\ taken = NoPacket
          /\ UNCHANGED <<written, handled>>
      BY <1>3, <2>2 DEF TestReadable, Timeout, TakenAgrees
    <3>2. LastHandled' = LastHandled
      BY <3>1, TakeFinishesNone
    <3>3. QED
      BY <3>1, <3>2 DEF HandledAgrees, HandledNo
  <2>3. QED
    BY <1>3, <2>1, <2>2 DEF TestReadable, Timeout
<1>4. CASE SkipDispatch
  BY <1>2, <1>4 DEF SkipDispatch
<1>5. CASE Dispatch
  <2>1. /\ taken # NoPacket /\ taken.no = LastTaken
        /\ handled' = taken /\ taken' = NoPacket
        /\ UNCHANGED <<readable, written>>
    BY <1>5 DEF Dispatch, TakenAgrees, OrderInv
  <2>2. QED
    BY <2>1 DEF HandledNo, LastHandled, LastTaken
<1>6. CASE HandlerThrows
  BY <1>2, <1>6 DEF HandlerThrows
<1>7. CASE Loop
  BY <1>2, <1>7 DEF Loop
<1>8. CASE \E kind \in Kinds : Push(kind)
  <2>1. PICK kind \in Kinds : Push(kind)
    BY <1>8
  <2>2. CASE ~keep
    BY <1>2, <2>1, <2>2 DEF Push
  <2>3. CASE keep
    <3>1. /\ readable' = Append(readable, [no |-> written + 1, kind |-> kind])
          /\ written' = written + 1
          /\ UNCHANGED <<taken, handled>>
      BY <2>1, <2>3 DEF Push
    <3>2. [no |-> written + 1, kind |-> kind] \in Packet
      BY <2>1, FileOnlyAssumption DEF Push, StopAgrees, TypeOK, Packet
    <3>3. Len(readable') = Len(readable) + 1
      BY <3>1, <3>2, AppendProperties DEF TypeOK
    <3>4. LastHandled' = LastHandled
      BY <1>1, <3>1, <3>3 DEF LastHandled, LastTaken
    <3>5. QED
      BY <2>3, <3>1, <3>4 DEF HandledAgrees, HandledNo
  <2>4. QED
    BY <2>2, <2>3
<1>9. CASE StopHandlers
  BY <1>9 DEF StopHandlers
<1>10. CASE \/ SpuriousWakeup \/ BeginDispatch \/ JoinItself \/ WritePacket \/ Notify
            \/ ReadPacket \/ Close \/ DumpUnread \/ NotifyStop \/ JoinHandlers
            \/ UNCHANGED vars
  BY <1>2, <1>10
  DEF SpuriousWakeup, BeginDispatch, JoinItself, WritePacket, Notify, ReadPacket, Close,
      DumpUnread, NotifyStop, JoinHandlers, vars
<1>11. QED
  BY <1>3, <1>4, <1>5, <1>6, <1>7, <1>8, <1>9, <1>10
  DEF Next, HandlerStep, WriterStep, CloseStep

LEMMA HandledInvariant == Spec => []HandledAgrees
<1>1. Init => HandledAgrees
  <2> SUFFICES ASSUME Init PROVE HandledAgrees
    OBVIOUS
  <2>1. Len(readable) = 0 /\ written = 0 /\ taken = NoPacket
    BY DEF Init
  <2>2. LastTaken = 0
    BY <2>1 DEF LastTaken
  <2>3. HandledNo = 0
    BY DEF Init, HandledNo
  <2>4. QED
    BY <2>1, <2>2, <2>3 DEF HandledAgrees, LastHandled
<1>2. QED
  BY <1>1, HandledStep, ConnectionInvariant, OrderInvariant, PTL DEF Spec

\* A step of the handler thread handles a packet or brings it nearer to one.
LEMMA HandlerStepNears ==
  ASSUME ConnectionInv, OrderInv, HandledAgrees, HandlerStep, keep', ~terminated',
         HandledNo < written
  PROVE  HandledNo' > HandledNo \/ (HandledNo' = HandledNo /\ StepsLeft' < StepsLeft)
<1> USE DEF ConnectionInv, queueVars, ownerVars, historyVars
<1>1. Len(readable) \in Nat /\ written \in Nat
  BY LenProperties DEF TypeOK
<1>2. CASE TestReadable
  <2>1. keep /\ pc = "test" /\ taken = NoPacket /\ handled' = handled /\ written' = written
    BY <1>2 DEF TestReadable, TakenAgrees
  <2>2. readable # <<>>
    BY <1>1, <2>1 DEF HandledAgrees, LastHandled, LastTaken
  <2>3. pc' = "dispatch" /\ Take
    BY <1>2, <2>2 DEF TestReadable
  <2>4. taken' # NoPacket
    BY <2>1, <2>2, <2>3, TakeFinishesNone
  <2>5. QED
    BY <2>1, <2>3, <2>4 DEF StepsLeft, HandledNo
<1>3. CASE Timeout
  BY <1>3 DEF Timeout, StepsLeft, HandledNo
<1>4. CASE SkipDispatch
  BY <1>4 DEF SkipDispatch, StepsLeft, HandledNo
<1>5. CASE BeginDispatch
  BY <1>5 DEF BeginDispatch, StepsLeft, HandledNo
<1>6. CASE Dispatch
  <2>1. keep /\ taken # NoPacket /\ handled' = taken
    BY <1>6 DEF Dispatch, TakenAgrees
  <2>2. HandledNo' = LastTaken /\ HandledNo = LastTaken - 1
    BY <2>1 DEF HandledNo, HandledAgrees, LastHandled, OrderInv
  <2>3. QED
    BY <1>1, <2>2 DEF LastTaken
<1>7. CASE HandlerThrows
  BY <1>7 DEF HandlerThrows
<1>8. CASE JoinItself
  BY <1>8 DEF JoinItself
<1>9. CASE Loop
  BY <1>9 DEF Loop, StepsLeft, HandledNo
<1>10. QED
  BY <1>2, <1>3, <1>4, <1>5, <1>6, <1>7, <1>8, <1>9 DEF HandlerStep

\* A step of another thread does not put the handler thread back.
LEMMA OthersDoNotDelay ==
  ASSUME [Next]_vars, ~HandlerStep
  PROVE  HandledNo' = HandledNo /\ StepsLeft' <= StepsLeft
<1> USE DEF queueVars, ownerVars, historyVars
<1>1. ASSUME UNCHANGED <<taken, handled>>, pc' = pc \/ (pc = "blocked" /\ pc' = "test")
      PROVE  HandledNo' = HandledNo /\ StepsLeft' <= StepsLeft
  BY <1>1 DEF HandledNo, StepsLeft
<1>2. CASE \E kind \in Kinds : Push(kind)
  BY <1>1, <1>2 DEF Push
<1>3. CASE SpuriousWakeup
  BY <1>1, <1>3 DEF SpuriousWakeup
<1>4. CASE Notify \/ NotifyStop
  BY <1>1, <1>4 DEF Notify, NotifyStop, Wake
<1>5. CASE \/ WritePacket \/ ReadPacket \/ Close \/ DumpUnread \/ StopHandlers
           \/ JoinHandlers \/ UNCHANGED vars
  BY <1>1, <1>5
  DEF WritePacket, ReadPacket, Close, DumpUnread, StopHandlers, JoinHandlers, vars
<1>6. QED
  BY <1>2, <1>3, <1>4, <1>5 DEF Next, WriterStep, CloseStep

\* The handler thread never works in vain: at most six of its steps lie between
\* two packets that are there to be handled, and no other thread adds one.
THEOREM HandlerNearsHolds == Spec => HandlerNears
<1>1. ConnectionInv /\ OrderInv /\ HandledAgrees /\ [Next]_vars
        => [keep' /\ ~terminated' /\ HandledNo < written =>
             IF HandlerStep
             THEN HandledNo' > HandledNo \/ (HandledNo' = HandledNo /\ StepsLeft' < StepsLeft)
             ELSE HandledNo' = HandledNo /\ StepsLeft' <= StepsLeft]_vars
  BY HandlerStepNears, OthersDoNotDelay
<1>2. QED
  BY <1>1, ConnectionInvariant, OrderInvariant, HandledInvariant, PTL DEF Spec, HandlerNears
------------------------------------------------------------------------------
(* Why Close returns when the wait has a timeout.                           *)

\* How far the handler thread is from its end, once it is told to stop.
EndLeft ==
  CASE pc = "test" -> 4
    [] pc = "blocked" -> 3
    [] pc \in {"dispatch", "handle"} -> 2
    [] pc \in {"loop", "fail"} -> 1
    [] OTHER -> 0

\* Once m_KeepRunning is cleared it stays so, and every step of the handler thread
\* brings it nearer to its end; only a wakeup before the timeout puts it back, and
\* no farther than to the test of the predicate.
CloseNears ==
  [][~keep /\ ~terminated' =>
       /\ ~keep'
       /\ IF HandlerStep THEN EndLeft' < EndLeft
          ELSE EndLeft' = EndLeft \/ (pc = "blocked" /\ pc' = "test")]_vars

\* Close: the handler thread goes round its loop no more.
THEOREM CloseNearsHolds == Spec => CloseNears
<1>1. ConnectionInv /\ [Next]_vars
        => [~keep /\ ~terminated' =>
             /\ ~keep'
             /\ IF HandlerStep THEN EndLeft' < EndLeft
                ELSE EndLeft' = EndLeft \/ (pc = "blocked" /\ pc' = "test")]_vars
  <2> SUFFICES ASSUME ConnectionInv, [Next]_vars, ~keep, ~terminated'
               PROVE  /\ ~keep'
                      /\ IF HandlerStep THEN EndLeft' < EndLeft
                         ELSE EndLeft' = EndLeft \/ (pc = "blocked" /\ pc' = "test")
    OBVIOUS
  <2> USE DEF queueVars, ownerVars, historyVars
  <2>1. ASSUME HandlerStep PROVE ~keep' /\ EndLeft' < EndLeft
    <3>1. CASE TestReadable \/ Timeout
      BY <3>1 DEF TestReadable, Timeout, EndLeft
    <3>2. CASE SkipDispatch \/ BeginDispatch \/ Dispatch
      BY <3>2 DEF SkipDispatch, BeginDispatch, Dispatch, EndLeft
    <3>3. CASE HandlerThrows \/ JoinItself
      BY <3>3 DEF HandlerThrows, JoinItself, EndLeft
    <3>4. CASE Loop
      BY <3>4 DEF Loop, EndLeft
    <3>5. QED
      BY <2>1, <3>1, <3>2, <3>3, <3>4 DEF HandlerStep
  <2>2. ASSUME ~HandlerStep
        PROVE  ~keep' /\ (pc' = pc \/ (pc = "blocked" /\ pc' = "test"))
    BY <2>2
    DEF Next, WriterStep, CloseStep, SpuriousWakeup, WritePacket, Push, Notify, Wake,
        ReadPacket, Close, DumpUnread, StopHandlers, NotifyStop, JoinHandlers, vars
  <2>3. ASSUME ~HandlerStep
        PROVE  ~keep' /\ (EndLeft' = EndLeft \/ (pc = "blocked" /\ pc' = "test"))
    BY <2>2, <2>3 DEF EndLeft
  <2>4. QED
    BY <2>1, <2>3
<1>2. QED
  BY <1>1, ConnectionInvariant, PTL DEF Spec, CloseNears
==============================================================================
