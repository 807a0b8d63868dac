--------------------------- MODULE UDQueueProofs ----------------------------
(***************************************************************************)
(* Proofs about the two sides of a UDQueue, each for any number of slots,  *)
(* packets, sends and capacities.                                          *)
(*                                                                         *)
(* The receive side. For every queue: its types, and that receives are     *)
(* conserved. For a sender queue that gets no datagram shorter than a      *)
(* ProbePacket: that no slot is posted twice and that the ACK handler is   *)
(* given the packet that the completion announced.                         *)
(*                                                                         *)
(* The send side. Its types; that what the RNIC transmits is the packet of *)
(* the send unless the ring was lapped; and, while one goroutine sends,    *)
(* how far a completion may lag behind.                                    *)
(***************************************************************************)
EXTENDS RecvQueue, SendQueue, SequenceTheorems, TLAPS

(* What the queue operations do to a sequence, index by index.             *)
LEMMA AppendFacts ==
  ASSUME NEW S, NEW q \in Seq(S), NEW e \in S
  PROVE  /\ Append(q, e) \in Seq(S)
         /\ Len(Append(q, e)) = Len(q) + 1
         /\ \A i \in 1..Len(q) : Append(q, e)[i] = q[i]
         /\ Append(q, e)[Len(q) + 1] = e
  OBVIOUS

LEMMA TailFacts ==
  ASSUME NEW S, NEW q \in Seq(S), q # <<>>
  PROVE  /\ Tail(q) \in Seq(S)
         /\ Head(q) \in S
         /\ Head(q) = q[1]
         /\ Len(q) >= 1
         /\ Len(Tail(q)) = Len(q) - 1
         /\ \A i \in 1..Len(Tail(q)) : Tail(q)[i] = q[i + 1]
  OBVIOUS

-----------------------------------------------------------------------------
(* Posting a slot, and taking a completion.                                *)
LEMMA PostType ==
  ASSUME TypeOK, NEW s \in Slots, PostRecvSlot(s)
  PROVE  /\ rq' \in Seq(Slots)
         /\ Len(rq') <= MaxRecvWr
         /\ Len(rq') = IF Len(rq) < MaxRecvWr THEN Len(rq) + 1 ELSE Len(rq)
<1>1. rq \in Seq(Slots) /\ Len(rq) \in Nat /\ Len(rq) <= MaxRecvWr
      /\ MaxRecvWr \in Nat
  BY RecvQueueAssumption DEF TypeOK
<1>2. CASE Len(rq) < MaxRecvWr
  BY <1>1, <1>2, AppendFacts DEF PostRecvSlot
<1>3. CASE ~(Len(rq) < MaxRecvWr)
  BY <1>1, <1>3 DEF PostRecvSlot
<1> QED BY <1>2, <1>3

LEMMA TakeType ==
  ASSUME TypeOK, TakeCompletion
  PROVE  /\ cq' \in Seq(Completions)
         /\ wc \in Completions
         /\ wc.slot \in Slots
         /\ wc.pkt \in PacketIds
         /\ Len(cq) >= 1
         /\ Len(cq') = Len(cq) - 1
<1>1. cq \in Seq(Completions) /\ cq # <<>> /\ cq' = Tail(cq)
  BY DEF TypeOK, TakeCompletion
<1>2. cq' \in Seq(Completions) /\ wc \in Completions /\ Len(cq) >= 1
      /\ Len(cq') = Len(cq) - 1
  BY <1>1, TailFacts DEF wc
<1> QED BY <1>2 DEF Completions

(* CreateUDQueue has posted all slots.                                     *)
LEMMA InitLen ==
  ASSUME Init
  PROVE  rq \in Seq(Slots) /\ Len(rq) = NumRecvSlots
<1> DEFINE q == [i \in 1..NumRecvSlots |-> i]
<1>1. NumRecvSlots \in Nat
  BY RecvQueueAssumption
<1>2. q \in [1..NumRecvSlots -> Slots]
  BY DEF Slots
<1>3. DOMAIN q = 1..NumRecvSlots
  OBVIOUS
<1>4. q \in Seq(Slots)
  BY <1>1, <1>2, SeqDef
<1>5. Len(q) = NumRecvSlots
  BY <1>1, <1>3, <1>4, LenProperties
<1> QED BY <1>4, <1>5 DEF Init

(* The types of the receive side.                                          *)
LEMMA TypeInit == Init => TypeOK
<1> SUFFICES ASSUME Init PROVE TypeOK
  OBVIOUS
<1>1. rq \in Seq(Slots) /\ Len(rq) = NumRecvSlots
  BY InitLen
<1>2. arrived \in 0..MaxPackets
  BY RecvQueueAssumption DEF Init
<1>3. Len(recvCompChan) <= RecvCompCap
  BY RecvQueueAssumption DEF Init
<1>4. Len(rq) <= MaxRecvWr
  BY <1>1, RecvQueueAssumption
<1>5. buffer \in [Slots -> Packet0]
  BY DEF Init, Packet0
<1>6. kind \in [PacketIds -> {"ack", "probe", "small", "error"}]
  BY DEF Init
<1>7. cq \in Seq(Completions) /\ recvCompChan \in Seq(Completions)
  BY DEF Init
<1>8. poller \in SlotsOrNone /\ responder \in SlotsOrNone /\ errors \in Nat
      /\ QueueType \in {"Sender", "Responder"}
  BY DEF Init, SlotsOrNone
<1>9. delivered \in Deliveries
  BY DEF Init, Deliveries, Packet0
<1> QED
  BY <1>1, <1>2, <1>3, <1>4, <1>5, <1>6, <1>7, <1>8, <1>9 DEF TypeOK

LEMMA TypeNext == TypeOK /\ [Next]_vars => TypeOK'
<1> SUFFICES ASSUME TypeOK, [Next]_vars PROVE TypeOK'
  OBVIOUS
<1>0. /\ QueueType \in {"Sender", "Responder"}
      /\ rq \in Seq(Slots) /\ Len(rq) <= MaxRecvWr
      /\ buffer \in [Slots -> Packet0]
      /\ kind \in [PacketIds -> {"ack", "probe", "small", "error"}]
      /\ arrived \in 0..MaxPackets
      /\ cq \in Seq(Completions)
      /\ poller \in SlotsOrNone
      /\ recvCompChan \in Seq(Completions)
      /\ Len(recvCompChan) <= RecvCompCap
      /\ responder \in SlotsOrNone
      /\ delivered \in Deliveries
      /\ errors \in Nat
  BY DEF TypeOK
<1>1. ASSUME NEW k \in Kinds, Arrive(k) PROVE TypeOK'
  <2> DEFINE p == arrived + 1
  <2>1. rq' \in Seq(Slots) /\ Head(rq) \in Slots /\ Len(rq') <= MaxRecvWr
    BY <1>0, <1>1, TailFacts, RecvQueueAssumption DEF Arrive
  <2>2. p \in PacketIds /\ arrived' = p /\ arrived' \in 0..MaxPackets
    BY <1>0, <1>1, RecvQueueAssumption DEF Arrive, PacketIds
  <2>3. [slot |-> Head(rq), pkt |-> p] \in Completions
    BY <2>1, <2>2 DEF Completions
  <2>4. cq' = Append(cq, [slot |-> Head(rq), pkt |-> p])
    BY <1>1 DEF Arrive
  <2>5. cq' \in Seq(Completions)
    BY <1>0, <2>3, <2>4, AppendFacts
  <2>6. buffer' \in [Slots -> Packet0]
    BY <1>0, <1>1, <2>1, <2>2 DEF Arrive, Packet0
  <2>7. kind' \in [PacketIds -> {"ack", "probe", "small", "error"}]
    BY <1>0, <1>1, <2>2, RecvQueueAssumption DEF Arrive
  <2>8. UNCHANGED <<QueueType, poller, recvCompChan, responder, delivered,
                    errors>>
    BY <1>1 DEF Arrive
  <2> QED BY <1>0, <2>1, <2>2, <2>5, <2>6, <2>7, <2>8 DEF TypeOK
<1>2. CASE HandleWCError
  BY <1>0, <1>2, TakeType DEF HandleWCError, TypeOK
<1>3. CASE HandleSmallPacket
  <2>1. cq' \in Seq(Completions) /\ wc.slot \in Slots
    BY <1>3, TakeType DEF HandleSmallPacket
  <2>2. rq' \in Seq(Slots) /\ Len(rq') <= MaxRecvWr
    BY <1>3, <2>1, PostType DEF HandleSmallPacket
  <2> QED
    BY <1>0, <1>3, <2>1, <2>2 DEF HandleSmallPacket, TypeOK, SlotsOrNone
<1>4. CASE HandleAck
  <2>1. /\ cq' \in Seq(Completions)
        /\ wc.slot \in Slots
        /\ wc.pkt \in PacketIds
    BY <1>4, TakeType DEF HandleAck
  <2>2. delivered' \in Deliveries
    BY <1>0, <1>4, <2>1 DEF HandleAck, Deliveries, Packet0
  <2> QED BY <1>0, <1>4, <2>1, <2>2 DEF HandleAck, TypeOK, SlotsOrNone
<1>5. CASE HandleProbe
  <2>1. cq' \in Seq(Completions) /\ wc \in Completions /\ wc.slot \in Slots
    BY <1>5, TakeType DEF HandleProbe
  <2>2. /\ recvCompChan' \in Seq(Completions)
        /\ Len(recvCompChan') <= RecvCompCap
    BY <1>0, <1>5, <2>1, AppendFacts, RecvQueueAssumption DEF HandleProbe
  <2> QED BY <1>0, <1>5, <2>1, <2>2 DEF HandleProbe, TypeOK, SlotsOrNone
<1>6. CASE Repost
  <2>1. poller \in Slots
    BY <1>0, <1>6 DEF Repost, SlotsOrNone
  <2>2. rq' \in Seq(Slots) /\ Len(rq') <= MaxRecvWr
    BY <1>6, <2>1, PostType DEF Repost
  <2> QED BY <1>0, <1>6, <2>2 DEF Repost, TypeOK, SlotsOrNone
<1>7. CASE ReceivePacket
  <2> DEFINE c == Head(recvCompChan)
  <2>1. /\ c \in Completions
        /\ recvCompChan' \in Seq(Completions)
        /\ Len(recvCompChan') <= RecvCompCap
    BY <1>0, <1>7, TailFacts, RecvQueueAssumption DEF ReceivePacket
  <2>2. c.slot \in Slots /\ c.pkt \in PacketIds
    BY <2>1 DEF Completions
  <2>3. delivered' \in Deliveries /\ responder' \in SlotsOrNone
    <3>1. [wc |-> c.pkt, read |-> buffer[c.slot]] \in Deliveries
      BY <1>0, <2>2 DEF Deliveries, Packet0
    <3> QED BY <1>0, <1>7, <2>2, <3>1 DEF ReceivePacket, SlotsOrNone
  <2> QED BY <1>0, <1>7, <2>1, <2>3 DEF ReceivePacket, TypeOK
<1>8. CASE ReceivePacketRepost
  <2>1. responder \in Slots
    BY <1>0, <1>8 DEF ReceivePacketRepost, SlotsOrNone
  <2>2. rq' \in Seq(Slots) /\ Len(rq') <= MaxRecvWr
    BY <1>8, <2>1, PostType DEF ReceivePacketRepost
  <2> QED
    BY <1>0, <1>8, <2>2 DEF ReceivePacketRepost, TypeOK, SlotsOrNone
<1>9. CASE UNCHANGED vars
  BY <1>0, <1>9 DEF vars, TypeOK
<1> QED
  BY <1>1, <1>2, <1>3, <1>4, <1>5, <1>6, <1>7, <1>8, <1>9 DEF Next

(* Every variable of the receive side keeps its type, in particular the    *)
(* RNIC's queue and recvCompChan their capacities (PostRecvSlot,           *)
(* handleRecvCompletion).                                                  *)
THEOREM TypeCorrect == Spec => []TypeOK
  BY TypeInit, TypeNext, PTL DEF Spec

-----------------------------------------------------------------------------
(* The number of receives that the RNIC and the poller hold.               *)
HeldByPoller == IF poller = None THEN 0 ELSE 1

LEMMA HeldLen ==
  ASSUME TypeOK
  PROVE  /\ Len(Held) = Len(rq) + Len(cq) + HeldByPoller
         /\ \A i \in 1..Len(Held) :
              Held[i] = IF i <= Len(rq) THEN rq[i]
                        ELSE IF i <= Len(rq) + Len(cq)
                             THEN cq[i - Len(rq)].slot
                             ELSE poller
<1> DEFINE slots == [i \in DOMAIN cq |-> cq[i].slot]
           last == IF poller = None THEN <<>> ELSE <<poller>>
<1>1. rq \in Seq(Slots) /\ cq \in Seq(Completions) /\ poller \in SlotsOrNone
  BY DEF TypeOK
<1>2. slots \in Seq(Slots) /\ Len(slots) = Len(cq)
  <2>1. Len(cq) \in Nat /\ DOMAIN cq = 1..Len(cq)
    BY <1>1
  <2>2. \A i \in 1..Len(cq) : cq[i].slot \in Slots
    <3>1. \A i \in 1..Len(cq) : cq[i] \in Completions
      BY <1>1, ElementOfSeq
    <3> QED BY <3>1 DEF Completions
  <2>3. slots \in [1..Len(cq) -> Slots]
    BY <2>1, <2>2
  <2>4. slots \in Seq(Slots)
    BY <2>1, <2>3, SeqDef
  <2>5. DOMAIN slots = 1..Len(slots) /\ Len(slots) \in Nat
    BY <2>4, LenProperties
  <2> QED BY <2>1, <2>4, <2>5
<1>3. last \in Seq(SlotsOrNone) /\ Len(last) = HeldByPoller
      /\ (Len(last) = 1 => last[1] = poller)
  BY <1>1 DEF HeldByPoller
<1>4. rq \in Seq(SlotsOrNone) /\ slots \in Seq(SlotsOrNone)
  BY <1>1, <1>2, SeqMonotonic DEF SlotsOrNone
<1>5. /\ rq \o slots \in Seq(SlotsOrNone)
      /\ Len(rq \o slots) = Len(rq) + Len(slots)
      /\ \A i \in 1..(Len(rq) + Len(slots)) :
           (rq \o slots)[i] = IF i <= Len(rq) THEN rq[i]
                              ELSE slots[i - Len(rq)]
  BY <1>4, ConcatProperties
<1>6. /\ Len((rq \o slots) \o last) = Len(rq) + Len(slots) + Len(last)
      /\ \A i \in 1..(Len(rq \o slots) + Len(last)) :
           ((rq \o slots) \o last)[i] =
             IF i <= Len(rq \o slots) THEN (rq \o slots)[i]
             ELSE last[i - Len(rq \o slots)]
  BY <1>3, <1>4, <1>5, ConcatProperties
<1>7. Held = (rq \o slots) \o last
  BY DEF Held
<1>8. \A j \in 1..Len(cq) : slots[j] = cq[j].slot
  BY <1>1
<1>9. Len(rq) \in Nat /\ Len(cq) \in Nat /\ HeldByPoller \in {0, 1}
  BY <1>1 DEF HeldByPoller
<1> HIDE DEF slots, last
<1>10. Len(Held) = Len(rq) + Len(cq) + HeldByPoller
  BY <1>2, <1>3, <1>6, <1>7
<1>11. ASSUME NEW i \in 1..Len(Held)
       PROVE  Held[i] = IF i <= Len(rq) THEN rq[i]
                        ELSE IF i <= Len(rq) + Len(cq)
                             THEN cq[i - Len(rq)].slot
                             ELSE poller
  <2>1. i \in 1..(Len(rq) + Len(cq) + HeldByPoller)
    BY <1>10, <1>11
  <2>2. CASE i <= Len(rq)
    BY <1>2, <1>3, <1>5, <1>6, <1>7, <1>9, <2>1, <2>2
  <2>3. CASE ~(i <= Len(rq)) /\ i <= Len(rq) + Len(cq)
    <3>1. i - Len(rq) \in 1..Len(cq)
      BY <1>9, <2>1, <2>3
    <3>2. Held[i] = slots[i - Len(rq)]
      BY <1>2, <1>3, <1>5, <1>6, <1>7, <1>9, <2>1, <2>3
    <3> QED BY <1>8, <2>3, <3>1, <3>2
  <2>4. CASE ~(i <= Len(rq) + Len(cq))
    <3>1. i - (Len(rq) + Len(cq)) = 1 /\ HeldByPoller = 1
      BY <1>9, <2>1, <2>4
    <3>2. Held[i] = last[i - Len(rq \o slots)]
      BY <1>2, <1>3, <1>5, <1>6, <1>7, <1>9, <2>1, <2>4
    <3>3. Held[i] = last[1]
      BY <1>2, <1>5, <3>1, <3>2
    <3> QED BY <1>3, <1>9, <2>1, <2>4, <3>1, <3>3
  <2> QED BY <2>2, <2>3, <2>4
<1> QED BY <1>10, <1>11

Conserved == Len(rq) + Len(cq) + HeldByPoller + errors >= NumRecvSlots

LEMMA ConservedNext == TypeOK /\ Conserved /\ [Next]_vars => Conserved'
<1> SUFFICES ASSUME TypeOK, Conserved, [Next]_vars PROVE Conserved'
  OBVIOUS
<1>0. /\ Len(rq) \in Nat /\ Len(cq) \in Nat /\ errors \in Nat
      /\ rq \in Seq(Slots) /\ cq \in Seq(Completions)
      /\ poller \in SlotsOrNone /\ responder \in SlotsOrNone
      /\ NumRecvSlots \in Nat /\ MaxRecvWr \in Nat
      /\ NumRecvSlots <= MaxRecvWr
      /\ None \notin Slots
  BY RecvQueueAssumption DEF TypeOK, Slots, None
<1>t. TypeOK'
  BY TypeNext
<1>q. /\ Len(rq') \in Nat /\ Len(cq') \in Nat /\ errors' \in Nat
  BY <1>t DEF TypeOK
<1>1. ASSUME NEW k \in Kinds, Arrive(k) PROVE Conserved'
  <2>1. Len(rq') = Len(rq) - 1
    BY <1>0, <1>1, TailFacts DEF Arrive
  <2>2. PICK c : cq' = Append(cq, c)
    BY <1>1 DEF Arrive
  <2>3. Len(cq') = Len(cq) + 1
    BY <1>0, <2>2
  <2>4. poller' = poller /\ errors' = errors
    BY <1>1 DEF Arrive
  <2> QED BY <1>0, <2>1, <2>3, <2>4 DEF Conserved, HeldByPoller
<1>2. ASSUME TakeCompletion PROVE Len(cq') = Len(cq) - 1 /\ poller = None
                                  /\ wc.slot \in Slots
  BY <1>2, TakeType DEF TakeCompletion
<1>3. CASE HandleWCError
  <2>1. Len(cq') = Len(cq) - 1 /\ poller' = poller /\ rq' = rq
        /\ errors' = errors + 1
    BY <1>2, <1>3 DEF HandleWCError
  <2> QED BY <1>0, <2>1 DEF Conserved, HeldByPoller
<1>4. CASE HandleSmallPacket \/ HandleAck \/ HandleProbe
  <2>1. Len(cq') = Len(cq) - 1 /\ poller = None /\ wc.slot \in Slots
        /\ poller' = wc.slot /\ errors' = errors
    BY <1>2, <1>4 DEF HandleSmallPacket, HandleAck, HandleProbe
  <2>2. Len(rq') >= Len(rq)
    <3>1. CASE HandleSmallPacket
      BY <1>0, <2>1, <3>1, PostType DEF HandleSmallPacket
    <3>2. CASE HandleAck \/ HandleProbe
      BY <1>0, <3>2 DEF HandleAck, HandleProbe
    <3> QED BY <1>4, <3>1, <3>2
  <2>3. HeldByPoller' = 1 /\ HeldByPoller = 0
    BY <1>0, <2>1 DEF HeldByPoller
  <2> QED BY <1>0, <1>q, <2>1, <2>2, <2>3 DEF Conserved
<1>5. CASE Repost
  <2>1. poller \in Slots /\ cq' = cq /\ errors' = errors /\ poller' = None
    BY <1>0, <1>5 DEF Repost, SlotsOrNone
  <2>2. Len(rq') = IF Len(rq) < MaxRecvWr THEN Len(rq) + 1 ELSE Len(rq)
    BY <1>5, <2>1, PostType DEF Repost
  <2>3. HeldByPoller' = 0 /\ HeldByPoller = 1
    BY <1>0, <2>1 DEF HeldByPoller
  <2> QED BY <1>0, <2>1, <2>2, <2>3 DEF Conserved
<1>6. CASE ReceivePacket
  BY <1>0, <1>6 DEF ReceivePacket, Conserved, HeldByPoller
<1>7. CASE ReceivePacketRepost
  <2>1. responder \in Slots /\ cq' = cq /\ errors' = errors
        /\ poller' = poller
    BY <1>0, <1>7 DEF ReceivePacketRepost, SlotsOrNone
  <2>2. Len(rq') >= Len(rq)
    BY <1>0, <1>7, <2>1, PostType DEF ReceivePacketRepost
  <2> QED BY <1>0, <1>q, <2>1, <2>2 DEF Conserved, HeldByPoller
<1>8. CASE UNCHANGED vars
  BY <1>8 DEF vars, Conserved, HeldByPoller
<1> QED
  BY <1>1, <1>3, <1>4, <1>5, <1>6, <1>7, <1>8 DEF Next

(* On any queue, whatever is dropped and whichever post fails, the RNIC is *)
(* never left with fewer receives than slots, less one for each error      *)
(* completion (processSingleWC, handleRecvCompletion, ReceivePacket).      *)
THEOREM NeverDry == Spec => []ReceivesConserved
<1>1. Init => Conserved
  <2> SUFFICES ASSUME Init PROVE Conserved
    OBVIOUS
  <2>1. Len(rq) = NumRecvSlots
    BY InitLen
  <2>2. Len(cq) = 0 /\ HeldByPoller = 0 /\ errors = 0
    BY DEF Init, HeldByPoller
  <2> QED BY <2>1, <2>2, RecvQueueAssumption DEF Conserved
<1>2. TypeOK /\ Conserved => ReceivesConserved
  BY HeldLen DEF Conserved, ReceivesConserved
<1> QED
  BY <1>1, <1>2, TypeInit, TypeNext, ConservedNext, PTL DEF Spec

-----------------------------------------------------------------------------
(* A sender queue that gets only packets of the protocol.  Each slot is in *)
(* one place: posted, completed or with the poller.                        *)
Distinct == /\ \A i, j \in 1..Len(rq) : rq[i] = rq[j] => i = j
            /\ \A i, j \in 1..Len(cq) : cq[i].slot = cq[j].slot => i = j
            /\ \A i \in 1..Len(rq), j \in 1..Len(cq) : rq[i] # cq[j].slot
            /\ \A i \in 1..Len(rq) : rq[i] # poller
            /\ \A j \in 1..Len(cq) : cq[j].slot # poller

(* The packet of a completion is in its slot, and the responder is idle.   *)
InSlot(c) == /\ c.pkt <= arrived
             /\ kind[c.pkt] # "small"
             /\ kind[c.pkt] # "error" => buffer[c.slot] = c.pkt

Present == /\ \A j \in 1..Len(cq) : InSlot(cq[j])
           /\ responder = None
           /\ DeliveredIntact

SenderInv == TypeOK /\ Distinct /\ Present

(* The poller posts a slot that is nowhere else.                           *)
LEMMA PostDistinct ==
  ASSUME TypeOK, Distinct, poller \in Slots, PostRecvSlot(poller),
         cq' = cq, poller' = None
  PROVE  Distinct'
<1>1. /\ rq \in Seq(Slots) /\ cq \in Seq(Completions)
      /\ None \notin Slots /\ Len(rq) \in Nat /\ Len(cq) \in Nat
  BY DEF TypeOK, Slots, None
<1>2. \A j \in 1..Len(cq) : cq[j].slot \in Slots
  <2>1. \A j \in 1..Len(cq) : cq[j] \in Completions
    BY <1>1, ElementOfSeq
  <2> QED BY <2>1 DEF Completions
<1>3. \A i \in 1..Len(rq) : rq[i] \in Slots
  BY <1>1, ElementOfSeq
<1>4. CASE Len(rq) < MaxRecvWr
  <2>1. /\ Len(rq') = Len(rq) + 1
        /\ \A i \in 1..Len(rq) : rq'[i] = rq[i]
        /\ rq'[Len(rq) + 1] = poller
    BY <1>1, <1>4, AppendFacts DEF PostRecvSlot
  <2>2. \A i \in 1..Len(rq') : \/ i \in 1..Len(rq) /\ rq'[i] = rq[i]
                               \/ i = Len(rq) + 1 /\ rq'[i] = poller
    BY <1>1, <2>1
  <2>3. \A i, j \in 1..Len(rq') : rq'[i] = rq'[j] => i = j
    BY <2>2 DEF Distinct
  <2>4. \A i \in 1..Len(rq'), j \in 1..Len(cq) : rq'[i] # cq[j].slot
    BY <2>2 DEF Distinct
  <2>5. \A i \in 1..Len(rq') : rq'[i] # None
    BY <1>1, <1>3, <2>2
  <2>6. \A j \in 1..Len(cq) : cq[j].slot # None
    BY <1>1, <1>2
  <2>7. \A i, j \in 1..Len(cq) : cq[i].slot = cq[j].slot => i = j
    BY DEF Distinct
  <2> QED BY <2>3, <2>4, <2>5, <2>6, <2>7 DEF Distinct
<1>5. CASE ~(Len(rq) < MaxRecvWr)
  BY <1>1, <1>2, <1>3, <1>5 DEF Distinct, PostRecvSlot
<1> QED BY <1>4, <1>5

(* The poller takes the completion at the head of the CQ.                  *)
LEMMA TakeDistinct ==
  ASSUME TypeOK, Distinct, TakeCompletion, rq' = rq,
         poller' \in {None, wc.slot}
  PROVE  Distinct'
<1>1. /\ rq \in Seq(Slots) /\ cq \in Seq(Completions) /\ cq # <<>>
      /\ cq' = Tail(cq) /\ poller = None
      /\ None \notin Slots /\ Len(rq) \in Nat /\ Len(cq) \in Nat
  BY DEF TypeOK, Slots, None, TakeCompletion
<1>2. /\ Len(cq') = Len(cq) - 1 /\ wc = cq[1]
      /\ \A j \in 1..Len(cq') : cq'[j] = cq[j + 1]
  BY <1>1, TailFacts DEF wc
<1>3. \A j \in 1..Len(cq') : /\ j + 1 \in 1..Len(cq)
                             /\ 1 \in 1..Len(cq)
                             /\ cq'[j] = cq[j + 1]
  BY <1>1, <1>2
<1>4. \A j \in 1..Len(cq') : cq'[j].slot # wc.slot
  BY <1>2, <1>3 DEF Distinct
<1>5. \A j \in 1..Len(cq') : cq'[j].slot # None
  BY <1>1, <1>3 DEF Distinct
<1>6. \A i \in 1..Len(rq) : rq[i] # wc.slot
  <2>1. 1 \in 1..Len(cq)
    BY <1>1, TailFacts
  <2> QED BY <1>2, <2>1 DEF Distinct
<1>7. \A i, j \in 1..Len(cq') : cq'[i].slot = cq'[j].slot => i = j
  <2> SUFFICES ASSUME NEW i \in 1..Len(cq'), NEW j \in 1..Len(cq'),
                      cq'[i].slot = cq'[j].slot
               PROVE  i = j
    OBVIOUS
  <2>1. i + 1 = j + 1
    BY <1>3 DEF Distinct
  <2> QED BY <2>1
<1>8. \A i \in 1..Len(rq) : rq[i] # None
  BY <1>1 DEF Distinct
<1> QED BY <1>1, <1>3, <1>4, <1>5, <1>6, <1>7, <1>8 DEF Distinct

LEMMA TakePresent ==
  ASSUME TypeOK, Present, TakeCompletion, UNCHANGED <<buffer, kind, arrived>>
  PROVE  (\A j \in 1..Len(cq) : InSlot(cq[j]))'
<1>1. cq \in Seq(Completions) /\ cq # <<>> /\ cq' = Tail(cq)
      /\ Len(cq) \in Nat
  BY DEF TypeOK, TakeCompletion
<1>2. /\ Len(cq') = Len(cq) - 1
      /\ \A j \in 1..Len(cq') : cq'[j] = cq[j + 1]
  BY <1>1, TailFacts
<1>3. \A j \in 1..Len(cq') : j + 1 \in 1..Len(cq) /\ cq'[j] = cq[j + 1]
  BY <1>1, <1>2
<1>4. \A j \in 1..Len(cq') : InSlot(cq'[j])
  BY <1>3 DEF Present
<1>5. \A c : InSlot(c) => InSlot(c)'
  BY DEF InSlot
<1> QED BY <1>4, <1>5 DEF InSlot

(* A packet arrives in the slot at the head of the receive queue.          *)
LEMMA ArrivePreserves ==
  ASSUME SenderInv, NEW k \in Kinds \ {"small"}, Arrive(k)
  PROVE  Distinct' /\ Present'
<1> DEFINE s == Head(rq)
           p == arrived + 1
           c == [slot |-> s, pkt |-> p]
<1>1. /\ rq \in Seq(Slots) /\ rq # <<>> /\ rq' = Tail(rq)
      /\ cq \in Seq(Completions) /\ cq' = Append(cq, c)
      /\ Len(rq) \in Nat /\ Len(cq) \in Nat
      /\ arrived \in 0..MaxPackets /\ arrived < MaxPackets /\ arrived' = p
      /\ kind \in [PacketIds -> {"ack", "probe", "small", "error"}]
      /\ kind' = [kind EXCEPT ![p] = k]
      /\ buffer \in [Slots -> Packet0]
      /\ UNCHANGED <<poller, responder, delivered>>
  BY DEF SenderInv, TypeOK, Arrive
<1>2. s \in Slots /\ s = rq[1] /\ p \in PacketIds /\ 1 \in 1..Len(rq)
  BY <1>1, TailFacts, RecvQueueAssumption DEF PacketIds
<1>3. c \in Completions
  BY <1>2 DEF Completions
<1>4. \A i \in 1..Len(rq') : i + 1 \in 1..Len(rq) /\ rq'[i] = rq[i + 1]
  BY <1>1, TailFacts
<1>5. \A j \in 1..Len(cq') : \/ j \in 1..Len(cq) /\ cq'[j] = cq[j]
                             \/ j = Len(cq) + 1 /\ cq'[j] = c
  <2> HIDE DEF c
  <2> QED BY <1>1, <1>3, AppendFacts
<1>6. \A j \in 1..Len(cq) : cq[j].slot # s
  BY <1>2 DEF SenderInv, Distinct
<1>7. c.slot = s /\ c.pkt = p
  OBVIOUS
<1> HIDE DEF c
<1>8. \A j \in 1..Len(cq') : \/ j \in 1..Len(cq) /\ cq'[j].slot = cq[j].slot
                             \/ j = Len(cq) + 1 /\ cq'[j].slot = s
  BY <1>5, <1>7
<1>9. \A i \in 1..Len(rq') : rq'[i] # s
  <2>1. \A i \in 1..Len(rq') : i + 1 # 1
    BY <1>1, <1>4
  <2> QED BY <1>2, <1>4, <2>1 DEF SenderInv, Distinct
<1>10. Distinct'
  <2>1. \A i, j \in 1..Len(rq') : rq'[i] = rq'[j] => i = j
    <3> SUFFICES ASSUME NEW i \in 1..Len(rq'), NEW j \in 1..Len(rq'),
                        rq'[i] = rq'[j]
                 PROVE  i = j
      OBVIOUS
    <3>1. i + 1 = j + 1
      BY <1>4 DEF SenderInv, Distinct
    <3> QED BY <3>1
  <2>2. \A i, j \in 1..Len(cq') : cq'[i].slot = cq'[j].slot => i = j
    BY <1>6, <1>8 DEF SenderInv, Distinct
  <2>3. \A i \in 1..Len(rq'), j \in 1..Len(cq') : rq'[i] # cq'[j].slot
    BY <1>4, <1>8, <1>9 DEF SenderInv, Distinct
  <2>4. \A i \in 1..Len(rq') : rq'[i] # poller
    BY <1>4 DEF SenderInv, Distinct
  <2>5. s # poller
    BY <1>2 DEF SenderInv, Distinct
  <2>6. \A j \in 1..Len(cq') : cq'[j].slot # poller
    BY <1>8, <2>5 DEF SenderInv, Distinct
  <2> QED BY <1>1, <2>1, <2>2, <2>3, <2>4, <2>6 DEF Distinct
<1>11. \A j \in 1..Len(cq) : InSlot(cq[j])'
  <2> SUFFICES ASSUME NEW j \in 1..Len(cq)
               PROVE  InSlot(cq[j])'
    OBVIOUS
  <2>1. cq[j] \in Completions
    BY <1>1, ElementOfSeq
  <2>2. cq[j].slot \in Slots /\ cq[j].pkt \in PacketIds
    BY <2>1 DEF Completions
  <2>3. InSlot(cq[j])
    BY DEF SenderInv, Present
  <2>4. cq[j].pkt \in Nat /\ cq[j].pkt # p /\ cq[j].pkt <= p
    BY <1>1, <2>2, <2>3 DEF InSlot, PacketIds
  <2>5. kind'[cq[j].pkt] = kind[cq[j].pkt]
    BY <1>1, <2>2, <2>4
  <2>6. buffer'[cq[j].slot] = buffer[cq[j].slot]
    BY <1>1, <1>6, <2>2 DEF Arrive
  <2>7. cq'[j] = cq[j]
    BY <1>1, <1>3, AppendFacts
  <2> QED BY <1>1, <2>3, <2>4, <2>5, <2>6, <2>7 DEF InSlot
<1>12. /\ p <= arrived'
       /\ kind'[p] # "small"
       /\ kind'[p] # "error" => buffer'[s] = p
  <2>1. kind'[p] = k
    BY <1>1, <1>2
  <2>2. k # "error" => buffer'[s] = p
    BY <1>1, <1>2 DEF Arrive
  <2> QED BY <1>1, <2>1, <2>2
<1>13. (\A j \in 1..Len(cq) : InSlot(cq[j]))'
  <2> SUFFICES ASSUME NEW j \in 1..Len(cq')
               PROVE  InSlot(cq[j])'
    OBVIOUS
  <2>1. CASE j \in 1..Len(cq)
    BY <1>11, <2>1
  <2>2. CASE cq'[j] = c
    BY <1>7, <1>12, <2>2 DEF InSlot
  <2> QED BY <1>5, <2>1, <2>2
<1> QED
  BY <1>1, <1>10, <1>13 DEF SenderInv, Present, DeliveredIntact

LEMMA SenderInvNext ==
  ASSUME SenderInv, SoundSender, SoundSender', [Next]_vars
  PROVE  SenderInv'
<1>0. TypeOK /\ Distinct /\ Present
  BY DEF SenderInv
<1>1. TypeOK'
  BY <1>0, TypeNext
<1>2. ASSUME NEW k \in Kinds, Arrive(k) PROVE Distinct' /\ Present'
  <2>1. /\ arrived' = arrived + 1 /\ arrived + 1 \in PacketIds
        /\ kind' = [kind EXCEPT ![arrived + 1] = k]
    BY <1>0, <1>2, RecvQueueAssumption DEF Arrive, TypeOK, PacketIds
  <2>2. arrived + 1 \in 1..arrived' /\ kind'[arrived + 1] = k
    BY <1>0, <2>1 DEF TypeOK, PacketIds
  <2>3. k # "small"
    BY <2>2 DEF SoundSender
  <2> QED BY <1>2, <2>3, ArrivePreserves
<1>3. CASE HandleWCError
  <2>1. Distinct'
    BY <1>0, <1>3, TakeDistinct DEF HandleWCError, TakeCompletion
  <2>2. (\A j \in 1..Len(cq) : InSlot(cq[j]))'
    BY <1>0, <1>3, TakePresent DEF HandleWCError
  <2> QED
    BY <1>0, <1>1, <1>3, <2>1, <2>2
    DEF HandleWCError, Present, DeliveredIntact, SenderInv
<1>4. ASSUME TakeCompletion PROVE InSlot(wc)
  <2>1. wc = cq[1] /\ 1 \in 1..Len(cq)
    BY <1>0, <1>4, TailFacts DEF TakeCompletion, wc, TypeOK
  <2> QED BY <1>0, <2>1 DEF Present
<1>5. CASE HandleSmallPacket
  BY <1>4, <1>5 DEF HandleSmallPacket, InSlot
<1>6. CASE HandleAck
  <2>1. Distinct'
    BY <1>0, <1>6, TakeDistinct DEF HandleAck
  <2>2. (\A j \in 1..Len(cq) : InSlot(cq[j]))'
    BY <1>0, <1>6, TakePresent DEF HandleAck
  <2>3. buffer[wc.slot] = wc.pkt
    BY <1>4, <1>6 DEF HandleAck, InSlot
  <2>4. DeliveredIntact'
    BY <1>6, <2>3 DEF HandleAck, DeliveredIntact
  <2> QED
    BY <1>0, <1>1, <1>6, <2>1, <2>2, <2>4 DEF HandleAck, Present, SenderInv
<1>7. CASE HandleProbe
  <2>1. Distinct'
    BY <1>0, <1>7, TakeDistinct DEF HandleProbe
  <2>2. (\A j \in 1..Len(cq) : InSlot(cq[j]))'
    BY <1>0, <1>7, TakePresent DEF HandleProbe
  <2> QED
    BY <1>0, <1>1, <1>7, <2>1, <2>2
    DEF HandleProbe, Present, DeliveredIntact, SenderInv
<1>8. CASE Repost
  <2>1. poller \in Slots
    BY <1>0, <1>8 DEF Repost, TypeOK, SlotsOrNone
  <2>2. Distinct'
    BY <1>0, <1>8, <2>1, PostDistinct DEF Repost
  <2>3. Present'
    BY <1>0, <1>8 DEF Repost, Present, InSlot, DeliveredIntact
  <2> QED BY <1>1, <2>2, <2>3 DEF SenderInv
<1>9. CASE ReceivePacket
  BY <1>9 DEF ReceivePacket, SoundSender
<1>10. CASE ReceivePacketRepost
  BY <1>0, <1>10 DEF ReceivePacketRepost, Present
<1>11. CASE UNCHANGED vars
  <2>1. Distinct'
    BY <1>0, <1>11 DEF vars, Distinct
  <2>2. Present'
    BY <1>0, <1>11 DEF vars, Present, InSlot, DeliveredIntact
  <2> QED BY <1>1, <2>1, <2>2 DEF SenderInv
<1> QED
  BY <1>1, <1>2, <1>3, <1>5, <1>6, <1>7, <1>8, <1>9, <1>10, <1>11
  DEF Next, SenderInv

LEMMA SenderInvInit == Init => SenderInv
<1> SUFFICES ASSUME Init PROVE SenderInv
  OBVIOUS
<1>1. TypeOK
  BY TypeInit
<1>2. Len(rq) = NumRecvSlots /\ NumRecvSlots \in Nat /\ Len(cq) = 0
      /\ poller = None
  BY InitLen, RecvQueueAssumption DEF Init
<1>3. \A i \in 1..Len(rq) : rq[i] = i /\ rq[i] # None
  BY <1>2 DEF Init, None
<1>4. Distinct
  BY <1>2, <1>3 DEF Distinct
<1>5. Present
  BY <1>2 DEF Init, Present, DeliveredIntact
<1> QED BY <1>1, <1>4, <1>5 DEF SenderInv

LEMMA DistinctHeld == TypeOK /\ Distinct => NoDoublePosting
<1> SUFFICES ASSUME TypeOK, Distinct,
                    NEW i \in 1..Len(Held), NEW j \in 1..Len(Held),
                    Held[i] = Held[j]
             PROVE  i = j
  BY DEF NoDoublePosting
<1> DEFINE n == Len(rq)
           m == Len(cq)
<1>1. n \in Nat /\ m \in Nat /\ HeldByPoller \in {0, 1}
  BY DEF TypeOK, HeldByPoller
<1>2. i \in 1..(n + m + HeldByPoller) /\ j \in 1..(n + m + HeldByPoller)
  BY HeldLen
<1>3. \A x \in 1..Len(Held) :
         \/ x \in 1..n /\ Held[x] = rq[x]
         \/ x - n \in 1..m /\ Held[x] = cq[x - n].slot
         \/ x = n + m + 1 /\ Held[x] = poller
  <2> SUFFICES ASSUME NEW x \in 1..Len(Held)
               PROVE  \/ x \in 1..n /\ Held[x] = rq[x]
                      \/ x - n \in 1..m /\ Held[x] = cq[x - n].slot
                      \/ x = n + m + 1 /\ Held[x] = poller
    OBVIOUS
  <2>1. /\ x \in 1..(n + m + HeldByPoller)
        /\ Held[x] = IF x <= n THEN rq[x]
                     ELSE IF x <= n + m THEN cq[x - n].slot ELSE poller
    BY HeldLen
  <2> HIDE DEF n, m
  <2> QED BY <1>1, <2>1
<1> HIDE DEF n, m
<1>4. CASE i \in 1..n /\ Held[i] = rq[i]
  BY <1>3, <1>4 DEF Distinct, n, m
<1>5. CASE i - n \in 1..m /\ Held[i] = cq[i - n].slot
  <2>1. CASE j - n \in 1..m /\ Held[j] = cq[j - n].slot
    <3>1. i - n = j - n
      BY <1>5, <2>1 DEF Distinct, n, m
    <3> QED BY <1>1, <1>2, <3>1
  <2> QED BY <1>3, <1>5, <2>1 DEF Distinct, n, m
<1>6. CASE i = n + m + 1 /\ Held[i] = poller
  BY <1>3, <1>6 DEF Distinct, n, m
<1> QED BY <1>3, <1>4, <1>5, <1>6

(* The inductive invariant: it says nothing of a responder queue or once   *)
(* an undersized datagram has arrived, and neither is ever undone.         *)
SoundInv == TypeOK /\ (SoundSender => SenderInv)

LEMMA SoundStays == TypeOK /\ [Next]_vars /\ SoundSender' => SoundSender
<1> SUFFICES ASSUME TypeOK, [Next]_vars, SoundSender' PROVE SoundSender
  OBVIOUS
<1>1. CASE UNCHANGED <<QueueType, arrived, kind>>
  BY <1>1 DEF SoundSender
<1>2. ASSUME NEW k \in Kinds, Arrive(k) PROVE SoundSender
  <2>1. /\ arrived' = arrived + 1 /\ QueueType' = QueueType
        /\ arrived \in Nat /\ arrived < MaxPackets
        /\ kind \in [PacketIds -> {"ack", "probe", "small", "error"}]
        /\ kind' = [kind EXCEPT ![arrived + 1] = k]
    BY <1>2, RecvQueueAssumption DEF Arrive, TypeOK
  <2>2. ASSUME NEW p \in 1..arrived PROVE kind[p] # "small"
    <3>1. p \in 1..arrived' /\ p \in PacketIds /\ p # arrived + 1
      BY <2>1, RecvQueueAssumption DEF PacketIds
    <3>2. kind'[p] = kind[p]
      BY <2>1, <3>1
    <3> QED BY <3>1, <3>2 DEF SoundSender
  <2> QED BY <2>1, <2>2 DEF SoundSender
<1>3. ASSUME \/ HandleWCError
             \/ HandleSmallPacket
             \/ HandleAck
             \/ HandleProbe
             \/ Repost
             \/ ReceivePacket
             \/ ReceivePacketRepost
             \/ UNCHANGED vars
      PROVE  UNCHANGED <<QueueType, arrived, kind>>
  BY <1>3 DEF HandleWCError, HandleSmallPacket, HandleAck, HandleProbe,
     Repost, ReceivePacket, ReceivePacketRepost, vars
<1> QED BY <1>1, <1>2, <1>3 DEF Next

LEMMA SoundInvNext == SoundInv /\ [Next]_vars => SoundInv'
<1> SUFFICES ASSUME SoundInv, [Next]_vars PROVE SoundInv'
  OBVIOUS
<1>1. TypeOK'
  BY TypeNext DEF SoundInv
<1>2. ASSUME SoundSender' PROVE SenderInv'
  <2>1. SoundSender
    BY <1>2, SoundStays DEF SoundInv
  <2>2. SenderInv
    BY <2>1 DEF SoundInv
  <2> QED BY <1>2, <2>1, <2>2, SenderInvNext
<1> QED BY <1>1, <1>2 DEF SoundInv

LEMMA SoundInvInit == Init => SoundInv
  BY TypeInit, SenderInvInit DEF SoundInv

(* On a sender queue that gets only packets of the protocol, no slot is    *)
(* ever posted while the RNIC or the poller still holds it                 *)
(* (processSingleWC: PostRecvSlot only if the ACK was not handled).        *)
THEOREM PostedOnce == Spec => []SenderPostsOnce
<1>1. SoundInv => SenderPostsOnce
  BY DistinctHeld DEF SoundInv, SenderInv, SenderPostsOnce
<1> QED BY <1>1, SoundInvInit, SoundInvNext, PTL DEF Spec

(* ... and the ACK handler is given the packet that the completion is of,  *)
(* never one that arrived in the reused buffer.                            *)
THEOREM AcksSound == Spec => []AcksIntact
<1>1. SoundInv => AcksIntact
  BY DEF SoundInv, SenderInv, Present, AcksIntact
<1> QED BY <1>1, SoundInvInit, SoundInvNext, PTL DEF Spec

(* Both together, for any number of slots and packets: without undersized  *)
(* datagrams the poller of a sender queue neither posts a slot twice nor   *)
(* gives a packet away that it did not announce.                           *)
THEOREM SenderIsSound == Spec => []SenderSound
<1>1. SenderPostsOnce /\ AcksIntact => SenderSound
  BY DEF SenderSound
<1> QED BY <1>1, PostedOnce, AcksSound, PTL

-----------------------------------------------------------------------------
(* The send side.                                                          *)

(* Two draws of one slot are at least one round of the ring apart.         *)
LEMMA RoundApart ==
  ASSUME NEW a \in Nat, NEW b \in Nat, NEW n \in Nat \ {0},
         a > b, a % n = b % n
  PROVE  a >= b + n
<1> DEFINE x == a \div n
           y == b \div n
<1>1. x \in Int /\ y \in Int /\ a = n * x + (a % n) /\ b = n * y + (b % n)
  OBVIOUS
<1>2. a - b = n * (x - y)
  BY <1>1
<1> HIDE DEF x, y
<1>3. x - y >= 1
  <2> SUFFICES ASSUME x - y <= 0 PROVE FALSE
    BY <1>1
  <2>1. n * (x - y) <= 0
    BY <1>1
  <2> QED BY <1>2, <2>1
<1>4. n * (x - y) >= n
  BY <1>1, <1>3
<1> QED BY <1>2, <1>4

LEMMA SlotType ==
  ASSUME NEW x \in Sends
  PROVE  SlotOf(x) \in SendSlots /\ x \in Nat /\ x - 1 \in Nat
<1>1. x \in Nat /\ x - 1 \in Nat
  BY SendQueueAssumption DEF Sends
<1> QED BY <1>1, SendQueueAssumption DEF SlotOf, SendSlots

-----------------------------------------------------------------------------
LEMMA SendTypeInit == SendInit => SendTypeOK
<1> SUFFICES ASSUME SendInit PROVE SendTypeOK
  OBVIOUS
<1>1. /\ NextSendSlot \in 0..MaxSends /\ errChan \in 0..ErrCap
      /\ recvErrors \in 0..MaxRecvErrors /\ Len(sendCompChan) <= SendCompCap
      /\ oks \in Nat /\ abandoned \in Nat /\ senders \subseteq Callers
      /\ qType \in {"Sender", "Responder"}
  BY SendQueueAssumption DEF SendInit
<1>2. /\ drawn \in [Callers -> SendsOrNone]
      /\ current \in [Callers -> SendsOrNone]
      /\ sendBuf \in [SendSlots -> SendsOrNone]
      /\ sent \in [Sends -> SendsOrNone]
      /\ completedBy \in [Sends -> SendsOrNone]
  BY DEF SendInit, SendsOrNone
<1>3. lapped \in [Sends -> 0..MaxSends] /\ wrote \in [Sends -> 0..MaxSends]
  BY SendQueueAssumption DEF SendInit
<1>4. sq \in Seq(Sends) /\ scq \in Seq(Sends) /\ sendCompChan \in Seq(Sends)
  BY DEF SendInit
<1> QED BY <1>1, <1>2, <1>3, <1>4 DEF SendTypeOK

LEMMA SendTypeNext == SendTypeOK /\ [SendNext]_sendVars => SendTypeOK'
<1> SUFFICES ASSUME SendTypeOK, [SendNext]_sendVars PROVE SendTypeOK'
  OBVIOUS
<1>0. /\ qType \in {"Sender", "Responder"}
      /\ NextSendSlot \in 0..MaxSends
      /\ senders \subseteq Callers
      /\ drawn \in [Callers -> SendsOrNone]
      /\ wrote \in [Sends -> 0..MaxSends]
      /\ current \in [Callers -> SendsOrNone]
      /\ sendBuf \in [SendSlots -> SendsOrNone]
      /\ sq \in Seq(Sends)
      /\ sent \in [Sends -> SendsOrNone]
      /\ lapped \in [Sends -> 0..MaxSends]
      /\ scq \in Seq(Sends)
      /\ sendCompChan \in Seq(Sends)
      /\ Len(sendCompChan) <= SendCompCap
      /\ errChan \in 0..ErrCap
      /\ recvErrors \in 0..MaxRecvErrors
      /\ completedBy \in [Sends -> SendsOrNone]
      /\ oks \in Nat
      /\ abandoned \in Nat
  BY DEF SendTypeOK
<1>9. ASSUME NEW c \in Callers, GetNextSendSlot(c) PROVE SendTypeOK'
  <2>1. /\ NextSendSlot' \in 0..MaxSends
        /\ NextSendSlot + 1 \in SendsOrNone
    BY <1>0, <1>9, SendQueueAssumption
       DEF GetNextSendSlot, Sends, SendsOrNone
  <2>2. drawn' \in [Callers -> SendsOrNone]
    BY <1>0, <1>9, <2>1 DEF GetNextSendSlot
  <2>3. senders' \subseteq Callers
    BY <1>0, <1>9 DEF GetNextSendSlot
  <2> QED BY <1>0, <1>9, <2>1, <2>2, <2>3 DEF GetNextSendSlot, SendTypeOK
<1>1. ASSUME NEW c \in Callers, PostSend(c) PROVE SendTypeOK'
  <2> DEFINE x == drawn[c]
  <2>1. x \in Sends /\ x \in SendsOrNone
    BY <1>0, <1>1 DEF PostSend, SendsOrNone
  <2>2. /\ sendBuf' = [sendBuf EXCEPT ![SlotOf(x)] = x]
        /\ wrote' = [wrote EXCEPT ![x] = NextSendSlot]
        /\ drawn' = [drawn EXCEPT ![c] = NoSend]
        /\ sq' = Append(sq, x) \/ sq' = sq
        /\ current' = [current EXCEPT ![c] = x] \/ current' = current
        /\ abandoned' = abandoned + 1 \/ abandoned' = abandoned
    BY <1>1 DEF PostSend
  <2> HIDE DEF x
  <2>3. sendBuf' \in [SendSlots -> SendsOrNone]
        /\ wrote' \in [Sends -> 0..MaxSends]
    BY <1>0, <2>1, <2>2, SlotType
  <2>4. sq' \in Seq(Sends)
    <3>1. Append(sq, x) \in Seq(Sends)
      BY <1>0, <2>1, AppendFacts
    <3> QED BY <1>0, <2>2, <3>1
  <2>5. NoSend \in SendsOrNone
    BY DEF SendsOrNone
  <2>6. /\ current' \in [Callers -> SendsOrNone] /\ abandoned' \in Nat
        /\ drawn' \in [Callers -> SendsOrNone]
    <3>1. [current EXCEPT ![c] = x] \in [Callers -> SendsOrNone]
      BY <1>0, <2>1
    <3>2. drawn' \in [Callers -> SendsOrNone]
      BY <1>0, <2>2, <2>5
    <3>3. abandoned' \in Nat
      BY <1>0, <2>2
    <3> QED BY <1>0, <2>2, <3>1, <3>2, <3>3
  <2>7. UNCHANGED <<qType, NextSendSlot, senders, sent, lapped, scq, sendCompChan, errChan,
                    recvErrors, completedBy, oks>>
    BY <1>1 DEF PostSend
  <2> QED BY <1>0, <2>3, <2>4, <2>6, <2>7 DEF SendTypeOK
<1>2. CASE Transmit
  <2> DEFINE x == Head(sq)
  <2>1. x \in Sends /\ sq' \in Seq(Sends)
    BY <1>0, <1>2, TailFacts DEF Transmit
  <2>2. scq' = Append(scq, x)
    BY <1>2 DEF Transmit
  <2> HIDE DEF x
  <2>3. scq' \in Seq(Sends)
    BY <1>0, <2>1, <2>2, AppendFacts
  <2>5. sendBuf[SlotOf(x)] \in SendsOrNone
    BY <1>0, <2>1, SlotType
  <2>6. /\ sent' = [sent EXCEPT ![x] = sendBuf[SlotOf(x)]]
        /\ lapped' = [lapped EXCEPT ![x] = NextSendSlot]
    BY <1>2 DEF Transmit, x
  <2>7. sent' \in [Sends -> SendsOrNone] /\ lapped' \in [Sends -> 0..MaxSends]
    BY <1>0, <2>1, <2>5, <2>6
  <2> QED BY <1>0, <1>2, <2>1, <2>3, <2>7 DEF Transmit, SendTypeOK
<1>e. ASSUME ReportError PROVE errChan' \in 0..ErrCap
  BY <1>0, <1>e, SendQueueAssumption DEF ReportError
<1>3. CASE PollSend
  <2>1. scq' \in Seq(Sends) /\ Head(scq) \in Sends
    BY <1>0, <1>3, TailFacts DEF PollSend
  <2>2. Append(sendCompChan, Head(scq)) \in Seq(Sends)
        /\ Len(Append(sendCompChan, Head(scq))) = Len(sendCompChan) + 1
    BY <1>0, <2>1, AppendFacts
  <2>3. sendCompChan' \in Seq(Sends) /\ Len(sendCompChan') <= SendCompCap
    <3>1. \/ sendCompChan' = sendCompChan
          \/ /\ Len(sendCompChan) < SendCompCap
             /\ sendCompChan' = Append(sendCompChan, Head(scq))
      BY <1>3 DEF PollSend
    <3>2. CASE sendCompChan' = sendCompChan
      BY <1>0, <3>2
    <3>3. CASE /\ Len(sendCompChan) < SendCompCap
               /\ sendCompChan' = Append(sendCompChan, Head(scq))
      <4>1. Len(sendCompChan) \in Nat
        BY <1>0, LenProperties
      <4> QED BY <2>2, <3>3, <4>1, SendQueueAssumption
    <3> QED BY <3>1, <3>2, <3>3
  <2>4. errChan' \in 0..ErrCap
    BY <1>0, <1>3, <1>e DEF PollSend
  <2> QED BY <1>0, <1>3, <2>1, <2>3, <2>4 DEF PollSend, SendTypeOK
<1>4. CASE PollRecvError
  <2>1. recvErrors' \in 0..MaxRecvErrors
    BY <1>0, <1>4, SendQueueAssumption DEF PollRecvError
  <2> QED BY <1>0, <1>4, <1>e, <2>1 DEF PollRecvError, SendTypeOK
<1>5. ASSUME NEW c \in Callers, TakeSendCompletion(c) PROVE SendTypeOK'
  <2>1. /\ sendCompChan' \in Seq(Sends) /\ Head(sendCompChan) \in Sends
        /\ Len(sendCompChan') <= SendCompCap
    BY <1>0, <1>5, TailFacts, SendQueueAssumption DEF TakeSendCompletion
  <2>2. /\ completedBy' \in [Sends -> SendsOrNone]
        /\ current' \in [Callers -> SendsOrNone]
    <3>1. Head(sendCompChan) \in SendsOrNone /\ NoSend \in SendsOrNone
      BY <2>1 DEF SendsOrNone
    <3>2. /\ completedBy' =
               [completedBy EXCEPT ![current[c]] = Head(sendCompChan)]
          /\ current' = [current EXCEPT ![c] = NoSend]
      BY <1>5 DEF TakeSendCompletion
    <3> QED BY <1>0, <3>1, <3>2
  <2> QED BY <1>0, <1>5, <2>1, <2>2 DEF TakeSendCompletion, SendTypeOK
<1>6. ASSUME NEW c \in Callers, TakeError(c) \/ SendTimeout(c) PROVE SendTypeOK'
  <2>1. current' \in [Callers -> SendsOrNone] /\ abandoned' \in Nat
    <3>1. current' = [current EXCEPT ![c] = NoSend]
          /\ abandoned' = abandoned + 1
      BY <1>6 DEF TakeError, SendTimeout, Abandon
    <3>2. NoSend \in SendsOrNone
      BY DEF SendsOrNone
    <3> QED BY <1>0, <3>1, <3>2
  <2>2. errChan' \in 0..ErrCap
    BY <1>0, <1>6, SendQueueAssumption DEF TakeError, SendTimeout
  <2> QED BY <1>0, <1>6, <2>1, <2>2 DEF TakeError, SendTimeout, SendTypeOK
<1>7. ASSUME NEW c \in Callers, ReceiveError(c) PROVE SendTypeOK'
  <2>1. errChan' \in 0..ErrCap
    BY <1>0, <1>7, SendQueueAssumption DEF ReceiveError
  <2> QED BY <1>0, <1>7, <2>1 DEF ReceiveError, SendTypeOK
<1>8. CASE UNCHANGED sendVars
  BY <1>0, <1>8 DEF sendVars, SendTypeOK
<1> QED
  BY <1>1, <1>2, <1>3, <1>4, <1>5, <1>6, <1>7, <1>8, <1>9 DEF SendNext

(* Every variable of the send side keeps its type, the channels their      *)
(* capacities (handleSendCompletion, handleWCError).                       *)
THEOREM SendTypeCorrect == SendSpec => []SendTypeOK
  BY SendTypeInit, SendTypeNext, PTL DEF SendSpec

-----------------------------------------------------------------------------
(* The slot of a posted send holds its packet, or the ring was lapped, by  *)
(* draws after it or before the packet in the slot was written.            *)
InRing ==
  /\ \A c \in Callers : drawn[c] <= NextSendSlot
  /\ \A x \in Sends : wrote[x] <= NextSendSlot
  /\ \A p \in 1..Len(sq) :
       /\ sq[p] <= NextSendSlot
       /\ \/ sendBuf[SlotOf(sq[p])] \in {NoSend, sq[p]}
          \/ NextSendSlot >= sq[p] + NumSendSlots
          \/ wrote[sendBuf[SlotOf(sq[p])]]
               >= sendBuf[SlotOf(sq[p])] + NumSendSlots

LEMMA RingNext ==
  SendTypeOK /\ InRing /\ IntactUnlessLapped /\ [SendNext]_sendVars
    => InRing' /\ IntactUnlessLapped'
<1> SUFFICES ASSUME SendTypeOK, InRing, IntactUnlessLapped, [SendNext]_sendVars
             PROVE  InRing' /\ IntactUnlessLapped'
  OBVIOUS
<1>0. /\ NextSendSlot \in 0..MaxSends /\ NextSendSlot \in Nat
      /\ sq \in Seq(Sends) /\ Len(sq) \in Nat
      /\ drawn \in [Callers -> SendsOrNone]
      /\ sendBuf \in [SendSlots -> SendsOrNone]
      /\ sent \in [Sends -> SendsOrNone]
      /\ lapped \in [Sends -> 0..MaxSends]
      /\ wrote \in [Sends -> 0..MaxSends]
      /\ NumSendSlots \in Nat \ {0} /\ MaxSends \in Nat
  BY SendQueueAssumption DEF SendTypeOK
<1>1. \A p \in 1..Len(sq) : sq[p] \in Sends
  BY <1>0, ElementOfSeq
<1>n. \A x \in SendsOrNone : x \in Nat
  BY <1>0 DEF SendsOrNone, Sends, NoSend
<1>w. \A x \in Sends : wrote[x] \in Nat /\ x \in Nat
  BY <1>0 DEF Sends
<1>2. ASSUME NEW c \in Callers, GetNextSendSlot(c)
      PROVE  InRing' /\ IntactUnlessLapped'
  <2>1. /\ NextSendSlot' = NextSendSlot + 1
        /\ drawn' = [drawn EXCEPT ![c] = NextSendSlot + 1]
        /\ UNCHANGED <<sendBuf, wrote, sq, sent, lapped>>
    BY <1>2 DEF GetNextSendSlot
  <2>2. ASSUME NEW d \in Callers PROVE drawn'[d] <= NextSendSlot + 1
    <3>1. drawn[d] \in Nat /\ drawn[d] <= NextSendSlot
      BY <1>0, <1>n DEF InRing
    <3> QED BY <1>0, <2>1, <3>1
  <2>3. ASSUME NEW x \in Sends PROVE wrote[x] <= NextSendSlot + 1
    BY <1>0, <1>w DEF InRing
  <2>4. ASSUME NEW p \in 1..Len(sq)
        PROVE  /\ sq[p] <= NextSendSlot + 1
               /\ \/ sendBuf[SlotOf(sq[p])] \in {NoSend, sq[p]}
                  \/ NextSendSlot + 1 >= sq[p] + NumSendSlots
                  \/ wrote[sendBuf[SlotOf(sq[p])]]
                       >= sendBuf[SlotOf(sq[p])] + NumSendSlots
    <3>1. sq[p] \in Nat
      BY <1>1, <1>w
    <3>2. /\ sq[p] <= NextSendSlot
          /\ \/ sendBuf[SlotOf(sq[p])] \in {NoSend, sq[p]}
             \/ NextSendSlot >= sq[p] + NumSendSlots
             \/ wrote[sendBuf[SlotOf(sq[p])]]
                  >= sendBuf[SlotOf(sq[p])] + NumSendSlots
      BY DEF InRing
    <3> QED BY <1>0, <3>1, <3>2
  <2>5. InRing'
    BY <2>1, <2>2, <2>3, <2>4 DEF InRing, SlotOf
  <2>6. IntactUnlessLapped'
    BY <2>1 DEF IntactUnlessLapped
  <2> QED BY <2>5, <2>6
<1>3. ASSUME NEW c \in Callers, PostSend(c)
      PROVE  InRing' /\ IntactUnlessLapped'
  <2> DEFINE x == drawn[c]
  <2>1. /\ NextSendSlot' = NextSendSlot
        /\ drawn' = [drawn EXCEPT ![c] = NoSend]
        /\ sendBuf' = [sendBuf EXCEPT ![SlotOf(x)] = x]
        /\ wrote' = [wrote EXCEPT ![x] = NextSendSlot]
        /\ sent' = sent /\ lapped' = lapped
        /\ sq' = Append(sq, x) \/ sq' = sq
    BY <1>3 DEF PostSend
  <2>2. x \in Sends /\ x \in Nat /\ x - 1 \in Nat /\ x <= NextSendSlot
        /\ SlotOf(x) \in SendSlots
    BY <1>0, <1>3, SlotType DEF PostSend, SendsOrNone, InRing
  <2>3. ASSUME NEW d \in Callers PROVE drawn'[d] <= NextSendSlot
    BY <1>0, <2>1 DEF InRing, NoSend
  <2> HIDE DEF x
  <2>4. ASSUME NEW y \in Sends
        PROVE  /\ wrote'[y] >= wrote[y] /\ wrote'[y] <= NextSendSlot
               /\ wrote'[y] \in Nat
    <3>1. wrote[y] \in Nat /\ wrote[y] <= NextSendSlot
      BY <1>w DEF InRing
    <3>2. wrote'[y] = wrote[y] \/ wrote'[y] = NextSendSlot
      BY <1>0, <2>1, <2>2
    <3> QED BY <1>0, <3>1, <3>2
  <2>5. \A p \in 1..Len(sq') : \/ p \in 1..Len(sq) /\ sq'[p] = sq[p]
                               \/ sq'[p] = x
    <3>1. CASE sq' = sq
      BY <3>1
    <3>2. CASE sq' = Append(sq, x)
      <4>1. /\ Len(sq') = Len(sq) + 1
            /\ \A i \in 1..Len(sq) : sq'[i] = sq[i]
            /\ sq'[Len(sq) + 1] = x
        BY <1>0, <2>2, <3>2, AppendFacts
      <4>2. \A p \in 1..Len(sq') : p \in 1..Len(sq) \/ p = Len(sq) + 1
        BY <1>0, <4>1
      <4> QED BY <4>1, <4>2
    <3> QED BY <2>1, <3>1, <3>2
  <2> DEFINE Safe(z) ==
               \/ sendBuf'[SlotOf(z)] \in {NoSend, z}
               \/ NextSendSlot >= z + NumSendSlots
               \/ wrote'[sendBuf'[SlotOf(z)]]
                    >= sendBuf'[SlotOf(z)] + NumSendSlots
  <2>6. Safe(x)
    BY <1>0, <2>1, <2>2
  <2>7. ASSUME NEW p \in 1..Len(sq), sq[p] # x
        PROVE  Safe(sq[p])
    <3> DEFINE z == sq[p]
    <3>1. /\ z \in Sends /\ z \in Nat /\ z - 1 \in Nat
          /\ SlotOf(z) \in SendSlots
      BY <1>1, SlotType
    <3>2. /\ z <= NextSendSlot
          /\ \/ sendBuf[SlotOf(z)] \in {NoSend, z}
             \/ NextSendSlot >= z + NumSendSlots
             \/ wrote[sendBuf[SlotOf(z)]]
                  >= sendBuf[SlotOf(z)] + NumSendSlots
      BY DEF InRing
    <3>3. z # x
      BY <2>7
    <3> SUFFICES Safe(z)
      OBVIOUS
    <3> HIDE DEF z
    <3>4. CASE SlotOf(z) = SlotOf(x)
      <4>1. sendBuf'[SlotOf(z)] = x
        BY <1>0, <2>1, <2>2, <3>4
      <4>2. (z - 1) % NumSendSlots = (x - 1) % NumSendSlots
        BY <3>4 DEF SlotOf
      <4>3. CASE x > z
        <5>1. x - 1 >= (z - 1) + NumSendSlots
          <6> DEFINE a == x - 1
                     b == z - 1
          <6>1. a \in Nat /\ b \in Nat /\ a > b
            BY <2>2, <3>1, <4>3
          <6>2. a % NumSendSlots = b % NumSendSlots
            BY <4>2
          <6> HIDE DEF a, b
          <6>3. a >= b + NumSendSlots
            BY <1>0, <6>1, <6>2, RoundApart
          <6> QED BY <6>3 DEF a, b
        <5>2. NextSendSlot >= z + NumSendSlots
          BY <1>0, <2>2, <3>1, <5>1
        <5> QED BY <5>2
      <4>4. CASE z > x
        <5>1. z - 1 >= (x - 1) + NumSendSlots
          <6> DEFINE a == z - 1
                     b == x - 1
          <6>1. a \in Nat /\ b \in Nat /\ a > b
            BY <2>2, <3>1, <4>4
          <6>2. a % NumSendSlots = b % NumSendSlots
            BY <4>2
          <6> HIDE DEF a, b
          <6>3. a >= b + NumSendSlots
            BY <1>0, <6>1, <6>2, RoundApart
          <6> QED BY <6>3 DEF a, b
        <5>2. wrote'[x] = NextSendSlot
          BY <1>0, <2>1, <2>2
        <5>3. wrote'[x] >= x + NumSendSlots
          BY <1>0, <2>2, <3>1, <3>2, <5>1, <5>2
        <5> QED BY <4>1, <5>3
      <4> QED BY <2>2, <3>1, <3>3, <4>3, <4>4
    <3>5. CASE SlotOf(z) # SlotOf(x)
      <4> DEFINE y == sendBuf[SlotOf(z)]
      <4>1. sendBuf'[SlotOf(z)] = y /\ y \in SendsOrNone
        BY <1>0, <2>1, <2>2, <3>1, <3>5
      <4>2. CASE y = NoSend
        BY <4>1, <4>2
      <4>3. CASE y # NoSend
        <5>1. y \in Sends /\ y \in Nat /\ wrote[y] \in Nat
          BY <1>w, <4>1, <4>3 DEF SendsOrNone
        <5>2. wrote'[y] >= wrote[y] /\ wrote'[y] \in Nat
          BY <2>4, <5>1
        <5>3. \/ y \in {NoSend, z}
              \/ NextSendSlot >= z + NumSendSlots
              \/ wrote[y] >= y + NumSendSlots
          BY <3>2
        <5> HIDE DEF y
        <5>4. wrote[y] >= y + NumSendSlots => wrote'[y] >= y + NumSendSlots
          BY <1>0, <5>1, <5>2
        <5> QED BY <4>1, <5>3, <5>4
      <4> QED BY <4>2, <4>3
    <3> QED BY <3>4, <3>5
  <2>8. ASSUME NEW p \in 1..Len(sq')
        PROVE  sq'[p] <= NextSendSlot /\ Safe(sq'[p])
    <3>1. CASE sq'[p] = x
      BY <2>2, <2>6, <3>1
    <3>2. CASE p \in 1..Len(sq) /\ sq'[p] = sq[p] /\ sq[p] # x
      <4>1. sq[p] <= NextSendSlot
        BY <3>2 DEF InRing
      <4>2. Safe(sq[p])
        BY <2>7, <3>2
      <4> HIDE DEF Safe
      <4> QED BY <3>2, <4>1, <4>2
    <3> HIDE DEF Safe
    <3> QED BY <2>5, <3>1, <3>2
  <2>9. InRing'
    BY <2>1, <2>3, <2>4, <2>8 DEF InRing, SlotOf
  <2>10. IntactUnlessLapped'
    <3> SUFFICES ASSUME NEW y \in Sends
                 PROVE  \/ sent[y] \in {NoSend, y}
                        \/ lapped[y] >= y + NumSendSlots
                        \/ wrote'[sent[y]] >= sent[y] + NumSendSlots
      BY <2>1 DEF IntactUnlessLapped
    <3>1. \/ sent[y] \in {NoSend, y}
          \/ lapped[y] >= y + NumSendSlots
          \/ wrote[sent[y]] >= sent[y] + NumSendSlots
      BY DEF IntactUnlessLapped
    <3> DEFINE z == sent[y]
    <3>2. z \in SendsOrNone
      BY <1>0
    <3>3. CASE z = NoSend
      BY <3>3
    <3>4. CASE z # NoSend
      <4>1. z \in Sends /\ z \in Nat /\ wrote[z] \in Nat
        BY <1>w, <3>2, <3>4 DEF SendsOrNone
      <4>2. wrote'[z] >= wrote[z] /\ wrote'[z] \in Nat
        BY <2>4, <4>1
      <4> HIDE DEF z
      <4>3. wrote[z] >= z + NumSendSlots => wrote'[z] >= z + NumSendSlots
        BY <1>0, <4>1, <4>2
      <4> QED BY <3>1, <4>3 DEF z
    <3> QED BY <3>3, <3>4
  <2> QED BY <2>9, <2>10
<1>4. CASE Transmit
  <2> DEFINE x == Head(sq)
  <2>1. /\ x \in Sends /\ x = sq[1] /\ 1 \in 1..Len(sq)
        /\ \A p \in 1..Len(sq') : p + 1 \in 1..Len(sq) /\ sq'[p] = sq[p + 1]
    BY <1>0, <1>4, TailFacts DEF Transmit
  <2>2. /\ UNCHANGED <<NextSendSlot, drawn, sendBuf, wrote>>
        /\ sent' = [sent EXCEPT ![x] = sendBuf[SlotOf(x)]]
        /\ lapped' = [lapped EXCEPT ![x] = NextSendSlot]
    BY <1>4 DEF Transmit
  <2>3. InRing'
    BY <2>1, <2>2 DEF InRing, SlotOf
  <2>4. \/ sendBuf[SlotOf(x)] \in {NoSend, x}
        \/ NextSendSlot >= x + NumSendSlots
        \/ wrote[sendBuf[SlotOf(x)]] >= sendBuf[SlotOf(x)] + NumSendSlots
    BY <2>1 DEF InRing
  <2> HIDE DEF x
  <2>5. ASSUME NEW y \in Sends
        PROVE  \/ sent'[y] \in {NoSend, y}
               \/ lapped'[y] >= y + NumSendSlots
               \/ wrote[sent'[y]] >= sent'[y] + NumSendSlots
    <3>1. CASE y = x
      <4>1. sent'[y] = sendBuf[SlotOf(x)] /\ lapped'[y] = NextSendSlot
        BY <1>0, <2>1, <2>2, <3>1
      <4> QED BY <2>4, <3>1, <4>1
    <3>2. CASE y # x
      <4>1. sent'[y] = sent[y] /\ lapped'[y] = lapped[y]
        BY <1>0, <2>1, <2>2, <3>2
      <4> QED BY <4>1 DEF IntactUnlessLapped
    <3> QED BY <3>1, <3>2
  <2>6. IntactUnlessLapped'
    BY <2>2, <2>5 DEF IntactUnlessLapped
  <2> QED BY <2>3, <2>6
<1>5. CASE UNCHANGED <<NextSendSlot, drawn, sendBuf, wrote, sq, sent, lapped>>
  BY <1>5 DEF InRing, IntactUnlessLapped, SlotOf
<1>6. ASSUME NEW c \in Callers,
             \/ TakeSendCompletion(c)
             \/ TakeError(c)
             \/ SendTimeout(c)
             \/ ReceiveError(c)
      PROVE  UNCHANGED <<NextSendSlot, drawn, sendBuf, wrote, sq, sent, lapped>>
  BY <1>6 DEF TakeSendCompletion, TakeError, SendTimeout, ReceiveError
<1>7. PollSend \/ PollRecvError \/ UNCHANGED sendVars
        => UNCHANGED <<NextSendSlot, drawn, sendBuf, wrote, sq, sent, lapped>>
  BY DEF PollSend, PollRecvError, sendVars
<1> QED BY <1>2, <1>3, <1>4, <1>5, <1>6, <1>7 DEF SendNext

(* Whatever packet the RNIC transmits for a send is the one written for    *)
(* it, unless all slots of the ring were drawn again before that, or       *)
(* before the packet sent in its place was written (GetNextSendSlot).      *)
THEOREM RingSound == SendSpec => []IntactUnlessLapped
<1>1. SendInit => InRing /\ IntactUnlessLapped
  BY SendQueueAssumption DEF SendInit, InRing, IntactUnlessLapped, NoSend
<1> QED BY <1>1, SendTypeInit, SendTypeNext, RingNext, PTL DEF SendSpec

-----------------------------------------------------------------------------
(* The completions a caller can still take are in the order of their       *)
(* sends: the p-th of them is not of a send before the (oks + p)-th.       *)
Order ==
  /\ \A p \in 1..Len(sendCompChan) :
       oks + p <= sendCompChan[p] /\ sendCompChan[p] <= NextSendSlot
  /\ \A p \in 1..Len(scq) :
       oks + Len(sendCompChan) + p <= scq[p] /\ scq[p] <= NextSendSlot
  /\ \A p \in 1..Len(sq) :
       /\ oks + Len(sendCompChan) + Len(scq) + p <= sq[p]
       /\ sq[p] <= NextSendSlot
  /\ oks + Len(sendCompChan) + Len(scq) + Len(sq) <= NextSendSlot

(* With one caller, its send is the latest, every earlier one has returned *)
(* either a time or an error, and a drawn send is not in any queue yet.    *)
Accounted(c) ==
  /\ drawn[c] = NoSend \/ current[c] = NoSend
  /\ drawn[c] = NoSend /\ current[c] = NoSend => oks + abandoned = NextSendSlot
  /\ drawn[c] # NoSend =>
       /\ drawn[c] = NextSendSlot
       /\ oks + abandoned = NextSendSlot - 1
       /\ oks + Len(sendCompChan) + Len(scq) + Len(sq) <= NextSendSlot - 1
  /\ current[c] # NoSend => /\ current[c] = NextSendSlot
                          /\ oks + abandoned = NextSendSlot - 1

(* A caller with a send under way has drawn a slot.                        *)
Active == \A c \in Callers : drawn[c] # NoSend \/ current[c] # NoSend => c \in senders

LEMMA ActiveNext == SendTypeOK /\ Active /\ [SendNext]_sendVars => Active'
<1> SUFFICES ASSUME SendTypeOK, Active, [SendNext]_sendVars,
                    NEW d \in Callers, drawn'[d] # NoSend \/ current'[d] # NoSend
             PROVE  d \in senders'
  BY DEF Active
<1>0. /\ drawn \in [Callers -> SendsOrNone]
      /\ current \in [Callers -> SendsOrNone]
  BY DEF SendTypeOK
<1>1. CASE UNCHANGED <<senders, drawn, current>>
  BY <1>1 DEF Active
<1>2. ASSUME NEW c \in Callers, GetNextSendSlot(c) PROVE d \in senders'
  BY <1>0, <1>2 DEF GetNextSendSlot, Active
<1>3. ASSUME NEW c \in Callers, PostSend(c) PROVE d \in senders'
  <2>1. /\ senders' = senders /\ drawn[c] # NoSend
        /\ drawn' = [drawn EXCEPT ![c] = NoSend]
        /\ \/ current' = [current EXCEPT ![c] = drawn[c]]
           \/ current' = current
    BY <1>3 DEF PostSend
  <2>2. d # c => drawn'[d] = drawn[d] /\ current'[d] = current[d]
    BY <1>0, <2>1
  <2> QED BY <2>1, <2>2 DEF Active
<1>4. ASSUME NEW c \in Callers,
             TakeSendCompletion(c) \/ TakeError(c) \/ SendTimeout(c)
      PROVE  d \in senders'
  <2>1. /\ senders' = senders /\ drawn' = drawn
        /\ current' = [current EXCEPT ![c] = NoSend]
    BY <1>4 DEF TakeSendCompletion, TakeError, SendTimeout, Abandon
  <2>2. current'[d] # NoSend => current[d] # NoSend
    BY <1>0, <2>1
  <2> QED BY <2>1, <2>2 DEF Active
<1>5. ASSUME \/ \E c \in Callers : ReceiveError(c)
             \/ Transmit
             \/ PollSend
             \/ PollRecvError
             \/ UNCHANGED sendVars
      PROVE  UNCHANGED <<senders, drawn, current>>
  BY <1>5 DEF ReceiveError, Transmit, PollSend, PollRecvError, sendVars
<1> QED BY <1>1, <1>2, <1>3, <1>4, <1>5 DEF SendNext

(* While c0 is the only one that has sent, every step of a send is its.    *)
LEMMA SoleActor ==
  ASSUME SendTypeOK, Active, NEW c0 \in Callers, senders' \subseteq {c0},
         NEW c \in Callers,
         \/ GetNextSendSlot(c) \/ PostSend(c) \/ TakeSendCompletion(c)
         \/ TakeError(c) \/ SendTimeout(c)
  PROVE  c = c0
<1>1. c \in senders'
  BY DEF Active, GetNextSendSlot, PostSend, TakeSendCompletion, TakeError,
         SendTimeout, Abandon
<1> QED BY <1>1

LEMMA OrderNext ==
  ASSUME SendTypeOK, Active, [SendNext]_sendVars,
         NEW c0 \in Callers, senders' \subseteq {c0},
         Order, Accounted(c0)
  PROVE  Order'
<1>0. /\ NextSendSlot \in Nat /\ oks \in Nat
      /\ sq \in Seq(Sends) /\ Len(sq) \in Nat
      /\ scq \in Seq(Sends) /\ Len(scq) \in Nat
      /\ sendCompChan \in Seq(Sends) /\ Len(sendCompChan) \in Nat
  BY SendQueueAssumption, LenProperties DEF SendTypeOK
<1>n. /\ \A p \in 1..Len(sq) : sq[p] \in Nat
      /\ \A p \in 1..Len(scq) : scq[p] \in Nat
      /\ \A p \in 1..Len(sendCompChan) : sendCompChan[p] \in Nat
  <2>1. \A x \in Sends : x \in Nat
    BY DEF Sends
  <2>2. \A q \in Seq(Sends) : \A p \in 1..Len(q) : q[p] \in Sends
    BY ElementOfSeq
  <2> QED BY <1>0, <2>1, <2>2
<1>8. ASSUME NEW c \in Callers, GetNextSendSlot(c) PROVE Order'
  <2>1. /\ NextSendSlot' = NextSendSlot + 1
        /\ UNCHANGED <<sq, scq, sendCompChan, oks>>
    BY <1>8 DEF GetNextSendSlot
  <2> QED BY <1>0, <1>n, <2>1 DEF Order
<1>1. ASSUME NEW c \in Callers, PostSend(c) PROVE Order'
  <2> DEFINE x == drawn[c0]
  <2>1. /\ NextSendSlot' = NextSendSlot
        /\ scq' = scq /\ sendCompChan' = sendCompChan /\ oks' = oks
        /\ sq' = Append(sq, x) \/ sq' = sq
        /\ x # NoSend
    BY <1>1, SoleActor DEF PostSend
  <2>2. x \in Sends
    BY <2>1 DEF SendTypeOK, SendsOrNone
  <2>3. /\ x = NextSendSlot
        /\ oks + Len(sendCompChan) + Len(scq) + Len(sq) <= NextSendSlot - 1
    BY <2>1 DEF Accounted
  <2> HIDE DEF x
  <2>4. CASE sq' = sq
    BY <2>1, <2>4 DEF Order
  <2>5. CASE sq' = Append(sq, x)
    <3>1. /\ Len(sq') = Len(sq) + 1
          /\ \A i \in 1..Len(sq) : sq'[i] = sq[i]
          /\ sq'[Len(sq) + 1] = x
      BY <1>0, <2>2, <2>5, AppendFacts
    <3>2. ASSUME NEW p \in 1..Len(sq')
          PROVE  /\ oks + Len(sendCompChan) + Len(scq) + p <= sq'[p]
                 /\ sq'[p] <= NextSendSlot
      <4>1. CASE p \in 1..Len(sq)
        BY <3>1, <4>1 DEF Order
      <4>2. CASE p = Len(sq) + 1
        BY <1>0, <2>3, <3>1, <4>2
      <4> QED BY <1>0, <3>1, <4>1, <4>2
    <3>3. oks + Len(sendCompChan) + Len(scq) + Len(sq') <= NextSendSlot
      BY <1>0, <2>3, <3>1
    <3> QED BY <2>1, <3>2, <3>3 DEF Order
  <2> QED BY <2>1, <2>4, <2>5
<1>2. CASE Transmit
  <2> DEFINE x == Head(sq)
  <2>1. /\ x \in Sends /\ x = sq[1] /\ 1 \in 1..Len(sq)
        /\ Len(sq') = Len(sq) - 1
        /\ \A p \in 1..Len(sq') : p + 1 \in 1..Len(sq) /\ sq'[p] = sq[p + 1]
    BY <1>0, <1>2, TailFacts DEF Transmit
  <2>2. /\ NextSendSlot' = NextSendSlot /\ sendCompChan' = sendCompChan
        /\ oks' = oks /\ scq' = Append(scq, x)
    BY <1>2 DEF Transmit
  <2> HIDE DEF x
  <2>3. /\ Len(scq') = Len(scq) + 1
        /\ \A i \in 1..Len(scq) : scq'[i] = scq[i]
        /\ scq'[Len(scq) + 1] = x
    BY <1>0, <2>1, <2>2, AppendFacts
  <2>4. oks + Len(sendCompChan) + Len(scq) + 1 <= x /\ x <= NextSendSlot
    BY <2>1 DEF Order
  <2>5. ASSUME NEW p \in 1..Len(scq')
        PROVE  oks + Len(sendCompChan) + p <= scq'[p] /\ scq'[p] <= NextSendSlot
    <3>1. CASE p \in 1..Len(scq)
      BY <2>3, <3>1 DEF Order
    <3>2. CASE p = Len(scq) + 1
      BY <1>0, <2>3, <2>4, <3>2
    <3> QED BY <1>0, <2>3, <3>1, <3>2
  <2>6. ASSUME NEW p \in 1..Len(sq')
        PROVE  /\ oks + Len(sendCompChan) + Len(scq') + p <= sq'[p]
               /\ sq'[p] <= NextSendSlot
    <3>1. /\ oks + Len(sendCompChan) + Len(scq) + (p + 1) <= sq[p + 1]
          /\ sq[p + 1] <= NextSendSlot
      BY <2>1, <2>6 DEF Order
    <3> QED BY <1>0, <1>n, <2>1, <2>3, <3>1
  <2>7. oks + Len(sendCompChan) + Len(scq') + Len(sq') <= NextSendSlot
    BY <1>0, <2>1, <2>3 DEF Order
  <2> QED BY <2>2, <2>5, <2>6, <2>7 DEF Order
<1>3. CASE PollSend
  <2> DEFINE x == Head(scq)
  <2>1. /\ x \in Sends /\ x = scq[1] /\ 1 \in 1..Len(scq)
        /\ Len(scq') = Len(scq) - 1
        /\ \A p \in 1..Len(scq') : p + 1 \in 1..Len(scq) /\ scq'[p] = scq[p + 1]
    BY <1>0, <1>3, TailFacts DEF PollSend
  <2>2. /\ NextSendSlot' = NextSendSlot /\ sq' = sq /\ oks' = oks
        /\ sendCompChan' = sendCompChan \/ sendCompChan' = Append(sendCompChan, x)
    BY <1>3 DEF PollSend
  <2> HIDE DEF x
  <2>3. oks + Len(sendCompChan) + 1 <= x /\ x <= NextSendSlot
    BY <2>1 DEF Order
  <2>4. /\ Len(sendCompChan') \in {Len(sendCompChan), Len(sendCompChan) + 1}
        /\ \A p \in 1..Len(sendCompChan') :
             \/ p \in 1..Len(sendCompChan) /\ sendCompChan'[p] = sendCompChan[p]
             \/ p = Len(sendCompChan) + 1 /\ sendCompChan'[p] = x
    <3>1. CASE sendCompChan' = sendCompChan
      BY <3>1
    <3>2. CASE sendCompChan' = Append(sendCompChan, x)
      <4>1. /\ Len(sendCompChan') = Len(sendCompChan) + 1
            /\ \A i \in 1..Len(sendCompChan) : sendCompChan'[i] = sendCompChan[i]
            /\ sendCompChan'[Len(sendCompChan) + 1] = x
        BY <1>0, <2>1, <3>2, AppendFacts
      <4> QED BY <1>0, <4>1
    <3> QED BY <2>2, <3>1, <3>2
  <2>5. ASSUME NEW p \in 1..Len(sendCompChan')
        PROVE  /\ oks + p <= sendCompChan'[p]
               /\ sendCompChan'[p] <= NextSendSlot
    <3>1. CASE p \in 1..Len(sendCompChan) /\ sendCompChan'[p] = sendCompChan[p]
      BY <3>1 DEF Order
    <3>2. CASE p = Len(sendCompChan) + 1 /\ sendCompChan'[p] = x
      BY <1>0, <2>1, <2>3, <3>2
    <3> QED BY <2>4, <3>1, <3>2
  <2>6. ASSUME NEW p \in 1..Len(scq')
        PROVE  /\ oks + Len(sendCompChan') + p <= scq'[p]
               /\ scq'[p] <= NextSendSlot
    <3>1. /\ oks + Len(sendCompChan) + (p + 1) <= scq[p + 1]
          /\ scq[p + 1] <= NextSendSlot
      BY <2>1, <2>6 DEF Order
    <3> QED BY <1>0, <1>n, <2>1, <2>4, <3>1
  <2>7. ASSUME NEW p \in 1..Len(sq)
        PROVE  /\ oks + Len(sendCompChan') + Len(scq') + p <= sq[p]
               /\ sq[p] <= NextSendSlot
    <3>1. /\ oks + Len(sendCompChan) + Len(scq) + p <= sq[p]
          /\ sq[p] <= NextSendSlot
      BY <2>7 DEF Order
    <3> QED BY <1>0, <1>n, <2>1, <2>4, <3>1
  <2>8. oks + Len(sendCompChan') + Len(scq') + Len(sq) <= NextSendSlot
    <3>1. oks + Len(sendCompChan) + Len(scq) + Len(sq) <= NextSendSlot
      BY DEF Order
    <3> QED BY <1>0, <2>1, <2>4, <3>1
  <2> QED BY <2>2, <2>5, <2>6, <2>7, <2>8 DEF Order
<1>4. ASSUME NEW c \in Callers, TakeSendCompletion(c) PROVE Order'
  <2>1. /\ Len(sendCompChan') = Len(sendCompChan) - 1
        /\ \A p \in 1..Len(sendCompChan') :
             /\ p + 1 \in 1..Len(sendCompChan)
             /\ sendCompChan'[p] = sendCompChan[p + 1]
    BY <1>0, <1>4, TailFacts DEF TakeSendCompletion
  <2>2. /\ NextSendSlot' = NextSendSlot /\ sq' = sq /\ scq' = scq
        /\ oks' = oks + 1
    BY <1>4 DEF TakeSendCompletion
  <2>3. ASSUME NEW p \in 1..Len(sendCompChan')
        PROVE  /\ oks' + p <= sendCompChan'[p]
               /\ sendCompChan'[p] <= NextSendSlot
    <3>1. /\ oks + (p + 1) <= sendCompChan[p + 1]
          /\ sendCompChan[p + 1] <= NextSendSlot
      BY <2>1, <2>3 DEF Order
    <3> QED BY <1>0, <1>n, <2>1, <2>2, <3>1
  <2>4. oks' + Len(sendCompChan') = oks + Len(sendCompChan)
    BY <1>0, <2>1, <2>2
  <2> QED BY <2>2, <2>3, <2>4 DEF Order
<1>5. CASE UNCHANGED <<NextSendSlot, sq, scq, sendCompChan, oks>>
  BY <1>5 DEF Order
<1>6. ASSUME NEW c \in Callers,
             TakeError(c) \/ SendTimeout(c) \/ ReceiveError(c)
      PROVE  UNCHANGED <<NextSendSlot, sq, scq, sendCompChan, oks>>
  BY <1>6 DEF TakeError, SendTimeout, ReceiveError
<1>7. PollRecvError \/ UNCHANGED sendVars
        => UNCHANGED <<NextSendSlot, sq, scq, sendCompChan, oks>>
  BY DEF PollRecvError, sendVars
<1> QED BY <1>1, <1>2, <1>3, <1>4, <1>5, <1>6, <1>7, <1>8 DEF SendNext

LEMMA LagNext ==
  ASSUME SendTypeOK, Active, [SendNext]_sendVars,
         NEW c0 \in Callers, senders' \subseteq {c0},
         Order, Accounted(c0), Lagging
  PROVE  Accounted(c0)' /\ Lagging'
<1>0. /\ NextSendSlot \in Nat /\ oks \in Nat /\ abandoned \in Nat
      /\ drawn \in [Callers -> SendsOrNone]
      /\ current \in [Callers -> SendsOrNone] /\ c0 \in Callers
      /\ sq \in Seq(Sends) /\ Len(sq) \in Nat
      /\ scq \in Seq(Sends) /\ Len(scq) \in Nat
      /\ Len(sendCompChan) \in Nat
      /\ completedBy \in [Sends -> SendsOrNone]
      /\ sendCompChan \in Seq(Sends)
  BY SendQueueAssumption, LenProperties DEF SendTypeOK
<1>n. \A x \in SendsOrNone : x \in Nat
  BY SendQueueAssumption DEF SendsOrNone, Sends, NoSend
<1>c. \A x \in Sends : x \in Nat /\ completedBy[x] \in Nat
  BY <1>0, <1>n DEF SendsOrNone
<1>7. ASSUME NEW c \in Callers, GetNextSendSlot(c)
      PROVE  Accounted(c0)' /\ Lagging'
  <2>1. /\ drawn[c0] = NoSend /\ current[c0] = NoSend
        /\ NextSendSlot' = NextSendSlot + 1
        /\ drawn' = [drawn EXCEPT ![c0] = NextSendSlot + 1]
        /\ UNCHANGED <<current, sq, scq, sendCompChan, completedBy, oks,
                       abandoned>>
    BY <1>7, SoleActor DEF GetNextSendSlot
  <2>2. drawn'[c0] = NextSendSlot + 1 /\ drawn'[c0] # NoSend
    BY <1>0, <2>1 DEF NoSend
  <2>3. /\ oks + abandoned = NextSendSlot
        /\ oks + Len(sendCompChan) + Len(scq) + Len(sq) <= NextSendSlot
    BY <2>1 DEF Accounted, Order
  <2>4. Accounted(c0)'
    BY <1>0, <2>1, <2>2, <2>3 DEF Accounted
  <2>5. Lagging'
    BY <2>1 DEF Lagging
  <2> QED BY <2>4, <2>5
<1>1. ASSUME NEW c \in Callers, PostSend(c)
      PROVE  Accounted(c0)' /\ Lagging'
  <2>1. /\ drawn[c0] # NoSend
        /\ drawn' = [drawn EXCEPT ![c0] = NoSend]
        /\ NextSendSlot' = NextSendSlot /\ oks' = oks
        /\ completedBy' = completedBy
        /\ \/ /\ current' = [current EXCEPT ![c0] = drawn[c0]]
              /\ abandoned' = abandoned
           \/ /\ abandoned' = abandoned + 1
              /\ current' = current
    BY <1>1, SoleActor DEF PostSend
  <2>2. /\ drawn[c0] = NextSendSlot /\ current[c0] = NoSend
        /\ oks + abandoned = NextSendSlot - 1
    BY <2>1 DEF Accounted
  <2>3. drawn'[c0] = NoSend
    BY <1>0, <2>1
  <2>4. Accounted(c0)'
    <3>1. CASE /\ current' = [current EXCEPT ![c0] = drawn[c0]]
               /\ abandoned' = abandoned
      <4>1. current'[c0] = NextSendSlot /\ current'[c0] # NoSend
        BY <1>0, <2>1, <2>2, <3>1
      <4> QED BY <2>1, <2>2, <2>3, <3>1, <4>1 DEF Accounted
    <3>2. CASE abandoned' = abandoned + 1 /\ current' = current
      <4>1. oks + abandoned' = NextSendSlot
        BY <1>0, <2>2, <3>2
      <4> QED BY <2>1, <2>2, <2>3, <3>2, <4>1 DEF Accounted
    <3> QED BY <2>1, <3>1, <3>2
  <2>5. abandoned' >= abandoned /\ abandoned' \in Nat
    BY <1>0, <2>1
  <2>6. Lagging'
    BY <1>0, <1>c, <2>1, <2>5 DEF Lagging
  <2> QED BY <2>4, <2>6
<1>2. ASSUME NEW c \in Callers, TakeSendCompletion(c)
      PROVE  Accounted(c0)' /\ Lagging'
  <2> DEFINE x == current[c0]
             y == Head(sendCompChan)
  <2>1. /\ c = c0 /\ x # NoSend /\ x \in Sends
        /\ oks' = oks + 1 /\ abandoned' = abandoned
        /\ NextSendSlot' = NextSendSlot /\ drawn' = drawn
        /\ current' = [current EXCEPT ![c0] = NoSend]
        /\ completedBy' = [completedBy EXCEPT ![x] = y]
    BY <1>0, <1>2, SoleActor DEF TakeSendCompletion, SendsOrNone
  <2>2. y \in Sends /\ y = sendCompChan[1] /\ 1 \in 1..Len(sendCompChan)
    BY <1>0, <1>2, TailFacts DEF TakeSendCompletion
  <2>3. oks + 1 <= y /\ y <= NextSendSlot
    BY <2>2 DEF Order
  <2>4. /\ x = NextSendSlot /\ oks + abandoned = NextSendSlot - 1
        /\ drawn'[c0] = NoSend
    BY <2>1 DEF Accounted
  <2>5. current'[c0] = NoSend
    BY <1>0, <2>1
  <2>6. oks' + abandoned' = NextSendSlot'
    BY <1>0, <2>1, <2>4
  <2>7. Accounted(c0)'
    BY <2>4, <2>5, <2>6 DEF Accounted
  <2> HIDE DEF x, y
  <2>8. y <= x /\ x - y <= abandoned
    BY <1>0, <1>c, <2>1, <2>2, <2>3, <2>4
  <2>9. Lagging'
    <3> SUFFICES ASSUME NEW z \in Sends, completedBy'[z] # NoSend
                 PROVE  /\ completedBy'[z] <= z
                        /\ z - completedBy'[z] <= abandoned
      BY <2>1 DEF Lagging
    <3>1. CASE z = x
      <4>1. completedBy'[z] = y
        BY <1>0, <2>1, <3>1
      <4> QED BY <2>8, <3>1, <4>1
    <3>2. CASE z # x
      <4>1. completedBy'[z] = completedBy[z]
        BY <1>0, <2>1, <3>2
      <4> QED BY <4>1 DEF Lagging
    <3> QED BY <3>1, <3>2
  <2> QED BY <2>7, <2>9
<1>3. ASSUME NEW c \in Callers, TakeError(c) \/ SendTimeout(c)
      PROVE  Accounted(c0)' /\ Lagging'
  <2>1. /\ current[c0] # NoSend /\ current' = [current EXCEPT ![c0] = NoSend]
        /\ abandoned' = abandoned + 1 /\ oks' = oks /\ drawn' = drawn
        /\ NextSendSlot' = NextSendSlot /\ completedBy' = completedBy
    BY <1>3, SoleActor DEF TakeError, SendTimeout, Abandon
  <2>2. current'[c0] = NoSend /\ drawn'[c0] = NoSend
    BY <1>0, <2>1 DEF Accounted
  <2>3. oks' + abandoned' = NextSendSlot'
    BY <1>0, <2>1 DEF Accounted
  <2>4. Accounted(c0)'
    BY <2>2, <2>3 DEF Accounted
  <2>5. Lagging'
    BY <1>0, <1>c, <2>1 DEF Lagging
  <2> QED BY <2>4, <2>5
<1>4. Lagging /\ UNCHANGED <<completedBy, abandoned>> => Lagging'
  BY DEF Lagging
<1>5. ASSUME \/ \E c \in Callers : ReceiveError(c)
             \/ PollRecvError
             \/ UNCHANGED sendVars
      PROVE  Accounted(c0)' /\ Lagging'
  <2>1. UNCHANGED <<NextSendSlot, drawn, current, sq, scq, sendCompChan,
                    completedBy, oks, abandoned>>
    BY <1>5 DEF ReceiveError, PollRecvError, sendVars
  <2> QED BY <1>4, <2>1 DEF Accounted
<1>6. CASE Transmit \/ PollSend
  <2>1. UNCHANGED <<NextSendSlot, drawn, current, completedBy, oks, abandoned>>
    BY <1>6 DEF Transmit, PollSend
  <2>2. Len(sendCompChan') + Len(scq') + Len(sq')
          <= Len(sendCompChan) + Len(scq) + Len(sq)
        /\ Len(sendCompChan') \in Nat /\ Len(scq') \in Nat /\ Len(sq') \in Nat
    <3>1. CASE Transmit
      <4>1. /\ Len(sq') = Len(sq) - 1 /\ Len(sq) >= 1 /\ Head(sq) \in Sends
            /\ scq' = Append(scq, Head(sq)) /\ sendCompChan' = sendCompChan
        BY <1>0, <3>1, TailFacts DEF Transmit
      <4>2. Len(scq') = Len(scq) + 1
        BY <1>0, <4>1, AppendFacts
      <4> QED BY <1>0, <4>1, <4>2
    <3>2. CASE PollSend
      <4>1. /\ Len(scq') = Len(scq) - 1 /\ Len(scq) >= 1 /\ Head(scq) \in Sends
            /\ sq' = sq
        BY <1>0, <3>2, TailFacts DEF PollSend
      <4>2. \/ sendCompChan' = sendCompChan
            \/ sendCompChan' = Append(sendCompChan, Head(scq))
        BY <3>2 DEF PollSend
      <4>3. Len(Append(sendCompChan, Head(scq))) = Len(sendCompChan) + 1
        BY <1>0, <4>1, AppendFacts
      <4>4. Len(sendCompChan') \in {Len(sendCompChan), Len(sendCompChan) + 1}
        BY <4>2, <4>3
      <4> QED BY <1>0, <4>1, <4>4
    <3> QED BY <1>6, <3>1, <3>2
  <2>3. ASSUME oks + Len(sendCompChan) + Len(scq) + Len(sq) <= NextSendSlot - 1
        PROVE  oks + Len(sendCompChan') + Len(scq') + Len(sq')
                 <= NextSendSlot - 1
    BY <1>0, <2>2, <2>3
  <2> QED BY <1>4, <2>1, <2>3 DEF Accounted
<1> QED BY <1>0, <1>1, <1>2, <1>3, <1>5, <1>6, <1>7 DEF SendNext

(* The invariant, for the caller c that is the only one to have sent.      *)
Sole == \A c \in Callers :
          senders \subseteq {c} => Order /\ Accounted(c) /\ Lagging

(* As long as one goroutine sends on a queue, the completion a call takes  *)
(* its time from is of its own send or of an earlier one, and it lags      *)
(* behind by at most the number of calls that gave up (SendProbePacket,    *)
(* SendFirstAckPacket, SendSecondAckPacket).                               *)
THEOREM LagSound == SendSpec => []LagBounded
<1>1. SendInit => Active /\ Sole
  BY DEF SendInit, Active, Sole, Order, Accounted, Lagging, NoSend
<1>2. SendTypeOK /\ Active /\ Sole /\ [SendNext]_sendVars => Sole'
  <2> SUFFICES ASSUME SendTypeOK, Active, Sole, [SendNext]_sendVars,
                      NEW c \in Callers, senders' \subseteq {c}
               PROVE  Order' /\ Accounted(c)' /\ Lagging'
    BY DEF Sole
  <2>1. senders \subseteq senders'
    BY DEF SendNext, sendVars, GetNextSendSlot, PostSend, Transmit, PollSend,
           PollRecvError, TakeSendCompletion, TakeError, SendTimeout, ReceiveError
  <2>2. Order /\ Accounted(c) /\ Lagging
    BY <2>1 DEF Sole
  <2> QED BY <2>2, OrderNext, LagNext
<1>3. SendTypeOK /\ Sole => LagBounded
  <2> SUFFICES ASSUME SendTypeOK, Sole, \A c, d \in senders : c = d
               PROVE  Lagging
    BY DEF LagBounded
  <2>1. PICK c \in Callers : senders \subseteq {c}
    BY SendQueueAssumption DEF SendTypeOK
  <2> QED BY <2>1 DEF Sole
<1> QED BY <1>1, <1>2, <1>3, SendTypeInit, SendTypeNext, ActiveNext, PTL DEF SendSpec
=============================================================================
