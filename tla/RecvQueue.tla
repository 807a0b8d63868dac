----------------------------- MODULE RecvQueue ------------------------------
(***************************************************************************)
(* The receive side of a UDQueue (internal/rdma: queue.go, cq.go,          *)
(* packet.go): receive slots posted to the RNIC, the completions it        *)
(* reports, the CQ poller that dispatches them and reposts the slots, and, *)
(* on a responder queue, the responder loop that reads the packets from    *)
(* the slots later, through recvCompChan.                                  *)
(*                                                                         *)
(* A packet is identified by the order of its arrival.  A slot's buffer is *)
(* abstracted to the packet last written to it.                            *)
(***************************************************************************)
EXTENDS Integers, Sequences, FiniteSets

CONSTANTS
  NumRecvSlots,  \* InitialRecvBuffers
  MaxRecvWr,     \* cap.max_recv_wr of the queue pair
  RecvCompCap,   \* RecvCompChanBufferSize
  Kinds,         \* the kinds of receive completions that occur
  MaxPackets     \* bound: receive completions in a behaviour

(* "ack" and "probe" are packets of the protocol, "small" is a datagram    *)
(* shorter than a ProbePacket, "error" a completion with an error status.  *)
ASSUME RecvQueueAssumption ==
  /\ NumRecvSlots \in Nat \ {0}
  /\ MaxRecvWr \in Nat
  /\ MaxRecvWr >= NumRecvSlots
  /\ RecvCompCap \in Nat
  /\ Kinds \subseteq {"ack", "probe", "small", "error"}
  /\ MaxPackets \in Nat

VARIABLES
  QueueType,     \* UDQueue.QueueType: "Sender" or "Responder"
  rq,            \* the receive queue of the RNIC: slots in the order posted
  buffer,        \* the packet in each slot's buffer
  kind,          \* the kind of each packet
  arrived,       \* packets received so far
  cq,            \* receive completions not yet polled
  poller,        \* the slot the poller is about to repost
  recvCompChan,  \* UDQueue.recvCompChan
  responder,     \* the slot ReceivePacket is about to repost
  delivered,     \* the last packet given to the ACK handler or the responder
  errors         \* history: error completions, whose slot is not reposted

vars == <<QueueType, rq, buffer, kind, arrived, cq, poller, recvCompChan,
          responder, delivered, errors>>

Slots       == 1..NumRecvSlots
None        == 0
PacketIds   == 1..MaxPackets
Packet0     == PacketIds \cup {None}
SlotsOrNone == Slots \cup {None}
Completions == [slot : Slots, pkt : PacketIds]

(* wc is the packet the completion is of, read the one in the buffer when  *)
(* it is copied.                                                           *)
Deliveries  == [wc : Packet0, read : Packet0]

(* CreateUDQueue posts every slot once.                                    *)
Init ==
  /\ QueueType \in {"Sender", "Responder"}
  /\ rq = [i \in 1..NumRecvSlots |-> i]
  /\ buffer = [s \in Slots |-> None]
  /\ kind = [p \in PacketIds |-> "error"]
  /\ arrived = 0
  /\ cq = <<>>
  /\ poller = None
  /\ recvCompChan = <<>>
  /\ responder = None
  /\ delivered = [wc |-> None, read |-> None]
  /\ errors = 0

-----------------------------------------------------------------------------
(* PostRecvSlot: ibv_post_recv fails when the receive queue is full; every *)
(* caller only logs the error.                                             *)
PostRecvSlot(s) ==
  rq' = IF Len(rq) < MaxRecvWr THEN Append(rq, s) ELSE rq

(* The RNIC fills the buffer at the head of the receive queue.  An error   *)
(* completion (a flush, a datagram too long) leaves no packet in it.       *)
Arrive(k) ==
  /\ arrived < MaxPackets
  /\ rq # <<>>
  /\ LET p == arrived + 1
         s == Head(rq)
     IN  /\ arrived' = p
         /\ kind' = [kind EXCEPT ![p] = k]
         /\ cq' = Append(cq, [slot |-> s, pkt |-> p])
         /\ buffer' = IF k \in {"error", "small"} THEN buffer
                      ELSE [buffer EXCEPT ![s] = p]
  /\ rq' = Tail(rq)
  /\ UNCHANGED <<QueueType, poller, recvCompChan, responder, delivered,
                 errors>>

-----------------------------------------------------------------------------
(* The CQ poller: processSingleWC, one action per kind of completion.      *)

wc == Head(cq)

(* The completion at the head of the CQ; its slot is still to be reposted. *)
TakeCompletion ==
  /\ poller = None
  /\ cq # <<>>
  /\ cq' = Tail(cq)

(* handleWCError reports the error and does not repost the slot.           *)
HandleWCError ==
  /\ TakeCompletion
  /\ kind[wc.pkt] = "error"
  /\ errors' = errors + 1
  /\ UNCHANGED <<QueueType, rq, buffer, kind, arrived, poller, recvCompChan,
                 responder, delivered>>

(* handleRecvCompletion reposts the slot of a packet that is too small and *)
(* returns false, upon which processSingleWC reposts it as well.           *)
HandleSmallPacket ==
  /\ TakeCompletion
  /\ kind[wc.pkt] = "small"
  /\ PostRecvSlot(wc.slot)
  /\ poller' = wc.slot
  /\ UNCHANGED <<QueueType, buffer, kind, arrived, recvCompChan, responder,
                 delivered, errors>>

IsAck(s) == QueueType = "Sender" /\ kind[buffer[s]] = "ack"

(* Mutant: after an ACK, the poller reposts a slot already reposted.       *)
HandleAckNotHandled ==
  /\ TakeCompletion
  /\ kind[wc.pkt] \in {"ack", "probe"}
  /\ IsAck(wc.slot)
  /\ delivered' = [wc |-> wc.pkt, read |-> buffer[wc.slot]]
  /\ PostRecvSlot(wc.slot)
  /\ poller' = wc.slot
  /\ UNCHANGED <<QueueType, buffer, kind, arrived, recvCompChan, responder,
                 errors>>

(* An ACK on a sender queue is copied and given to the ACK handler before  *)
(* its slot is reposted.                                                   *)
HandleAck ==
  /\ TakeCompletion
  /\ kind[wc.pkt] \in {"ack", "probe"}
  /\ IsAck(wc.slot)
  /\ delivered' = [wc |-> wc.pkt, read |-> buffer[wc.slot]]
  /\ poller' = wc.slot
  /\ UNCHANGED <<QueueType, rq, buffer, kind, arrived, recvCompChan,
                 responder, errors>>

(* Mutant: the slot of a dropped packet is not reposted.                   *)
HandleProbeDropSlot ==
  /\ TakeCompletion
  /\ kind[wc.pkt] \in {"ack", "probe"}
  /\ ~IsAck(wc.slot)
  /\ IF Len(recvCompChan) < RecvCompCap
     THEN recvCompChan' = Append(recvCompChan, wc) /\ poller' = wc.slot
     ELSE UNCHANGED <<recvCompChan, poller>>
  /\ UNCHANGED <<QueueType, rq, buffer, kind, arrived, responder, delivered,
                 errors>>

(* Any other packet goes to recvCompChan, or is dropped when that is full. *)
HandleProbe ==
  /\ TakeCompletion
  /\ kind[wc.pkt] \in {"ack", "probe"}
  /\ ~IsAck(wc.slot)
  /\ recvCompChan' = IF Len(recvCompChan) < RecvCompCap
                     THEN Append(recvCompChan, wc) ELSE recvCompChan
  /\ poller' = wc.slot
  /\ UNCHANGED <<QueueType, rq, buffer, kind, arrived, responder, delivered,
                 errors>>

Repost ==
  /\ poller # None
  /\ PostRecvSlot(poller)
  /\ poller' = None
  /\ UNCHANGED <<QueueType, buffer, kind, arrived, cq, recvCompChan,
                 responder, delivered, errors>>

-----------------------------------------------------------------------------
(* ReceivePacket, called by the responder loop.  Nobody reads recvCompChan *)
(* of a sender queue.                                                      *)

(* The packet is copied from the slot that the completion names; if its    *)
(* GRH cannot be parsed, ReceivePacket returns at once.                    *)
ReceivePacket ==
  /\ QueueType = "Responder"
  /\ responder = None
  /\ recvCompChan # <<>>
  /\ recvCompChan' = Tail(recvCompChan)
  /\ LET c == Head(recvCompChan)
     IN  \/ /\ delivered' = [wc |-> c.pkt, read |-> buffer[c.slot]]
            /\ responder' = c.slot
         \/ UNCHANGED <<delivered, responder>>
  /\ UNCHANGED <<QueueType, rq, buffer, kind, arrived, cq, poller, errors>>

(* ... and otherwise it posts a replacement receive buffer.                *)
ReceivePacketRepost ==
  /\ responder # None
  /\ PostRecvSlot(responder)
  /\ responder' = None
  /\ UNCHANGED <<QueueType, buffer, kind, arrived, cq, poller, recvCompChan,
                 delivered, errors>>

-----------------------------------------------------------------------------
Next ==
  \/ \E k \in Kinds : Arrive(k)
  \/ HandleWCError
  \/ HandleSmallPacket
  \/ HandleAck
  \/ HandleProbe
  \/ Repost
  \/ ReceivePacket
  \/ ReceivePacketRepost

Spec == Init /\ [][Next]_vars

-----------------------------------------------------------------------------
(* Every variable has its type; the receive queue and recvCompChan keep    *)
(* within their capacities.                                                *)
TypeOK ==
  /\ QueueType \in {"Sender", "Responder"}
  /\ rq \in Seq(Slots)
  /\ Len(rq) <= MaxRecvWr
  /\ buffer \in [Slots -> Packet0]
  /\ kind \in [PacketIds -> {"ack", "probe", "small", "error"}]
  /\ arrived \in 0..MaxPackets
  /\ cq \in Seq(Completions)
  /\ poller \in SlotsOrNone
  /\ recvCompChan \in Seq(Completions)
  /\ Len(recvCompChan) <= RecvCompCap
  /\ responder \in SlotsOrNone
  /\ delivered \in Deliveries
  /\ errors \in Nat

(* The slots the RNIC or the poller holds, each as often as it is held.    *)
Held == rq \o [i \in DOMAIN cq |-> cq[i].slot]
           \o (IF poller = None THEN <<>> ELSE <<poller>>)

(* No slot is posted twice: a buffer that the RNIC may write to, or whose  *)
(* completion is on its way, is not posted again ("to avoid double         *)
(* posting", processSingleWC).                                             *)
NoDoublePosting ==
  \A i, j \in 1..Len(Held) : Held[i] = Held[j] => i = j

(* What is delivered is the packet whose completion announced it.  On a    *)
(* responder queue it need not be: the slot is reposted before             *)
(* ReceivePacket reads it.                                                 *)
DeliveredIntact == delivered.read = delivered.wc

(* A sender queue that has received nothing but packets of the protocol.   *)
SoundSender ==
  QueueType = "Sender" /\ \A p \in 1..arrived : kind[p] # "small"

(* On a sender queue no slot is posted twice, as long as no undersized     *)
(* datagram arrives (handleRecvCompletion reports an ACK as handled).      *)
SenderPostsOnce == SoundSender => NoDoublePosting

(* On such a queue every ACK given to the handler is the one its           *)
(* completion announced: it is copied before the slot is reposted.         *)
AcksIntact == SoundSender => DeliveredIntact

(* What a sender queue promises its prober.                                *)
SenderSound == SenderPostsOnce /\ AcksIntact

(* The receive queue does not run dry: every receive the RNIC has consumed *)
(* is reposted, dropped packets and failed posts included; only an error   *)
(* completion costs one for good.                                          *)
ReceivesConserved == Len(Held) + errors >= NumRecvSlots
=============================================================================
