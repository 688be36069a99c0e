---------------------------- MODULE PacketDelivery ----------------------------
(***************************************************************************)
(* What a connection with local packet handlers promises: every packet     *)
(* written is handed to the handlers once, in the order of the writes,     *)
(* until the connection is told to close; then those that are left may be  *)
(* thrown away, the oldest first.                                          *)
(***************************************************************************)
EXTENDS Naturals, Sequences

CONSTANT Packet

VARIABLES
  pending,    \* packets written and not handled
  delivered,  \* the packet handled last, or an initial value
  closing     \* the connection was told to close

deliveryVars == <<pending, delivered, closing>>

Init ==
  /\ pending = <<>>
  /\ closing = FALSE

Write(p) ==
  /\ ~closing
  /\ pending' = Append(pending, p)
  /\ UNCHANGED <<delivered, closing>>

Deliver ==
  /\ pending # <<>>
  /\ delivered' = Head(pending)
  /\ pending' = Tail(pending)
  /\ UNCHANGED closing

Close ==
  /\ closing' = TRUE
  /\ UNCHANGED <<pending, delivered>>

Discard ==
  /\ closing
  /\ \E n \in 1..Len(pending) : pending' = SubSeq(pending, n + 1, Len(pending))
  /\ UNCHANGED <<delivered, closing>>

Next ==
  \/ \E p \in Packet : Write(p)
  \/ Deliver
  \/ Close
  \/ Discard

Spec == Init /\ [][Next]_deliveryVars
===============================================================================
