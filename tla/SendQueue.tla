----------------------------- MODULE SendQueue ------------------------------
(***************************************************************************)
(* The send side of a UDQueue (internal/rdma: packet.go, cq.go): the       *)
(* goroutines that call SendProbePacket on a sender queue, or the one that *)
(* calls SendFirstAckPacket and SendSecondAckPacket on a responder queue,  *)
(* the ring of send slots, and the CQ poller that hands completions and    *)
(* errors over through sendCompChan and errChan.                           *)
(*                                                                         *)
(* A send is identified by its draw of a send slot.  The hardware          *)
(* timestamp of a completion is abstracted to the send it belongs to.      *)
(***************************************************************************)
EXTENDS Integers, Sequences, FiniteSets

CONSTANTS
  Callers,       \* goroutines that send on this queue
  Loop,          \* the one that is the responder loop of a responder queue
  NumSendSlots,  \* InitialRecvBuffers
  SendCompCap,   \* SendCompChanBufferSize
  ErrCap,        \* ErrChanBufferSize
  MaxSends,      \* bound: sends in a behaviour
  MaxRecvErrors  \* bound: errors the poller reports of receives

ASSUME SendQueueAssumption ==
  /\ Loop \in Callers
  /\ NumSendSlots \in Nat \ {0}
  /\ SendCompCap \in Nat
  /\ ErrCap \in Nat
  /\ MaxSends \in Nat
  /\ MaxRecvErrors \in Nat

VARIABLES
  qType,         \* UDQueue.QueueType: "Sender" or "Responder"
  NextSendSlot,  \* UDQueue.NextSendSlot: slots drawn so far
  senders,       \* history: the callers that have drawn a slot
  drawn,         \* the send each caller has drawn a slot for, not yet posted
  current,       \* the send each caller waits for the completion of
  sendBuf,       \* the packet in each send slot
  wrote,         \* history: slots drawn when a send's packet was written
  sq,            \* send work requests the RNIC has not executed
  sent,          \* the packet the RNIC transmitted for each send
  lapped,        \* history: slots drawn when a send was transmitted
  scq,           \* send completions not yet polled
  sendCompChan,  \* UDQueue.sendCompChan
  errChan,       \* UDQueue.errChan: the number of errors in it
  recvErrors,    \* errors of receives reported so far
  completedBy,   \* the send whose completion a call took its time from
  oks,           \* history: calls that returned a completion time
  abandoned      \* history: calls that returned an error

sendVars == <<qType, NextSendSlot, senders, drawn, current, sendBuf, wrote,
              sq, sent, lapped, scq, sendCompChan, errChan, recvErrors,
              completedBy, oks, abandoned>>

NoSend    == 0
Sends     == 1..MaxSends
SendsOrNone == Sends \cup {NoSend}
SendSlots == 0..(NumSendSlots - 1)

SendInit ==
  /\ qType \in {"Sender", "Responder"}
  /\ NextSendSlot = 0
  /\ senders = {}
  /\ drawn = [c \in Callers |-> NoSend]
  /\ current = [c \in Callers |-> NoSend]
  /\ sendBuf = [i \in SendSlots |-> NoSend]
  /\ wrote = [x \in Sends |-> 0]
  /\ sq = <<>>
  /\ sent = [x \in Sends |-> NoSend]
  /\ lapped = [x \in Sends |-> 0]
  /\ scq = <<>>
  /\ sendCompChan = <<>>
  /\ errChan = 0
  /\ recvErrors = 0
  /\ completedBy = [x \in Sends |-> NoSend]
  /\ oks = 0
  /\ abandoned = 0

-----------------------------------------------------------------------------
(* Mutant: the ring is one slot too small.                                 *)
SlotShort(x) == IF NumSendSlots = 1 THEN 0 ELSE (x - 1) % (NumSendSlots - 1)

(* The slot of the x-th draw.                                              *)
SlotOf(x) == (x - 1) % NumSendSlots

(* Draw the next slot, under SendSlotMutex; it is not checked to be free.  *)
GetNextSendSlot(c) ==
  /\ qType = "Responder" => c = Loop
  /\ drawn[c] = NoSend
  /\ current[c] = NoSend
  /\ NextSendSlot < MaxSends
  /\ NextSendSlot' = NextSendSlot + 1
  /\ senders' = senders \cup {c}
  /\ drawn' = [drawn EXCEPT ![c] = NextSendSlot + 1]
  /\ UNCHANGED <<qType, current, sendBuf, wrote, sq, sent, lapped, scq,
                 sendCompChan, errChan, recvErrors, completedBy, oks,
                 abandoned>>

(* Write the packet into the slot and post the send; post_send may fail.   *)
PostSend(c) ==
  /\ drawn[c] # NoSend
  /\ drawn' = [drawn EXCEPT ![c] = NoSend]
  /\ sendBuf' = [sendBuf EXCEPT ![SlotOf(drawn[c])] = drawn[c]]
  /\ wrote' = [wrote EXCEPT ![drawn[c]] = NextSendSlot]
  /\ \/ /\ sq' = Append(sq, drawn[c])
        /\ current' = [current EXCEPT ![c] = drawn[c]]
        /\ UNCHANGED abandoned
     \/ /\ abandoned' = abandoned + 1
        /\ UNCHANGED <<sq, current>>
  /\ UNCHANGED <<qType, NextSendSlot, senders, sent, lapped, scq,
                 sendCompChan, errChan, recvErrors, completedBy, oks>>

(* The RNIC reads the slot's buffer, transmits it and reports.             *)
Transmit ==
  /\ sq # <<>>
  /\ LET x == Head(sq)
     IN  /\ sent' = [sent EXCEPT ![x] = sendBuf[SlotOf(x)]]
         /\ lapped' = [lapped EXCEPT ![x] = NextSendSlot]
         /\ scq' = Append(scq, x)
  /\ sq' = Tail(sq)
  /\ UNCHANGED <<qType, NextSendSlot, senders, drawn, current, sendBuf,
                 wrote, sendCompChan, errChan, recvErrors, completedBy, oks,
                 abandoned>>

-----------------------------------------------------------------------------
(* The CQ poller.                                                          *)

ReportError == errChan' = IF errChan < ErrCap THEN errChan + 1 ELSE errChan

(* Mutant: the poller does not advance, and reads a completion again.      *)
PollSendAgain ==
  /\ scq # <<>>
  /\ scq' \in {scq, Tail(scq)}
  /\ Len(sendCompChan) < SendCompCap
  /\ sendCompChan' = Append(sendCompChan, Head(scq))
  /\ UNCHANGED <<qType, NextSendSlot, senders, drawn, current, sendBuf,
                 wrote, sq, sent, lapped, errChan, recvErrors, completedBy,
                 oks, abandoned>>

(* handleSendCompletion, or handleWCError for an error status; either      *)
(* drops the event when its channel is full.                               *)
PollSend ==
  /\ scq # <<>>
  /\ scq' = Tail(scq)
  /\ \/ /\ sendCompChan' = IF Len(sendCompChan) < SendCompCap
                           THEN Append(sendCompChan, Head(scq))
                           ELSE sendCompChan
        /\ UNCHANGED errChan
     \/ /\ ReportError
        /\ UNCHANGED sendCompChan
  /\ UNCHANGED <<qType, NextSendSlot, senders, drawn, current, sendBuf,
                 wrote, sq, sent, lapped, recvErrors, completedBy, oks,
                 abandoned>>

(* An error of a receive, or of the polling itself, goes to errChan too.   *)
PollRecvError ==
  /\ recvErrors < MaxRecvErrors
  /\ recvErrors' = recvErrors + 1
  /\ ReportError
  /\ UNCHANGED <<qType, NextSendSlot, senders, drawn, current, sendBuf,
                 wrote, sq, sent, lapped, scq, sendCompChan, completedBy, oks,
                 abandoned>>

-----------------------------------------------------------------------------
(* The select that ends a send: a completion, whosever it is, ...          *)
TakeSendCompletion(c) ==
  /\ current[c] # NoSend
  /\ sendCompChan # <<>>
  /\ completedBy' = [completedBy EXCEPT ![current[c]] = Head(sendCompChan)]
  /\ sendCompChan' = Tail(sendCompChan)
  /\ current' = [current EXCEPT ![c] = NoSend]
  /\ oks' = oks + 1
  /\ UNCHANGED <<qType, NextSendSlot, senders, drawn, sendBuf, wrote, sq,
                 sent, lapped, scq, errChan, recvErrors, abandoned>>

Abandon(c) ==
  /\ current[c] # NoSend
  /\ current' = [current EXCEPT ![c] = NoSend]
  /\ abandoned' = abandoned + 1

(* ... an error, whatever it is about, ...                                 *)
TakeError(c) ==
  /\ Abandon(c)
  /\ errChan > 0
  /\ errChan' = errChan - 1
  /\ UNCHANGED <<qType, NextSendSlot, senders, drawn, sendBuf, wrote, sq,
                 sent, lapped, scq, sendCompChan, recvErrors, completedBy,
                 oks>>

(* ... or the end of the context, of AckSendTimeout on a responder queue.  *)
SendTimeout(c) ==
  /\ Abandon(c)
  /\ UNCHANGED <<qType, NextSendSlot, senders, drawn, sendBuf, wrote, sq,
                 sent, lapped, scq, sendCompChan, errChan, recvErrors,
                 completedBy, oks>>

(* ReceivePacket of the responder loop reads errChan between its sends.    *)
ReceiveError(c) ==
  /\ qType = "Responder"
  /\ c = Loop
  /\ drawn[c] = NoSend
  /\ current[c] = NoSend
  /\ errChan > 0
  /\ errChan' = errChan - 1
  /\ UNCHANGED <<qType, NextSendSlot, senders, drawn, current, sendBuf,
                 wrote, sq, sent, lapped, scq, sendCompChan, recvErrors,
                 completedBy, oks, abandoned>>

-----------------------------------------------------------------------------
SendNext ==
  \/ \E c \in Callers : GetNextSendSlot(c)
  \/ \E c \in Callers : PostSend(c)
  \/ Transmit
  \/ PollSend
  \/ PollRecvError
  \/ \E c \in Callers : TakeSendCompletion(c)
  \/ \E c \in Callers : TakeError(c)
  \/ \E c \in Callers : SendTimeout(c)
  \/ \E c \in Callers : ReceiveError(c)

SendSpec == SendInit /\ [][SendNext]_sendVars

-----------------------------------------------------------------------------
(* Every variable has its type, and the channels keep within capacity.     *)
SendTypeOK ==
  /\ qType \in {"Sender", "Responder"}
  /\ NextSendSlot \in 0..MaxSends
  /\ senders \subseteq Callers
  /\ drawn \in [Callers -> SendsOrNone]
  /\ current \in [Callers -> SendsOrNone]
  /\ sendBuf \in [SendSlots -> SendsOrNone]
  /\ wrote \in [Sends -> 0..MaxSends]
  /\ sq \in Seq(Sends)
  /\ sent \in [Sends -> SendsOrNone]
  /\ lapped \in [Sends -> 0..MaxSends]
  /\ scq \in Seq(Sends)
  /\ sendCompChan \in Seq(Sends)
  /\ Len(sendCompChan) <= SendCompCap
  /\ errChan \in 0..ErrCap
  /\ recvErrors \in 0..MaxRecvErrors
  /\ completedBy \in [Sends -> SendsOrNone]
  /\ oks \in Nat
  /\ abandoned \in Nat

(* A call takes the completion of its own or of an earlier send, and it    *)
(* lags behind by no more sends than calls have been abandoned.            *)
Lagging ==
  \A x \in Sends :
    completedBy[x] # NoSend => /\ completedBy[x] <= x
                               /\ x - completedBy[x] <= abandoned

(* T2 of a probe, and T4 of an ACK, is the time of a send completion: as   *)
(* long as a single goroutine sends on the queue, of its own send, unless  *)
(* calls were abandoned, each of which may put the later ones back by one. *)
LagBounded == (\A c, d \in senders : c = d) => Lagging

(* The RNIC transmits the packet of the send, unless the ring of slots has *)
(* been drawn once round before it did, or before the call whose packet it *)
(* transmits instead had written that into the slot.                       *)
IntactUnlessLapped ==
  \A x \in Sends :
    \/ sent[x] \in {NoSend, x}
    \/ lapped[x] >= x + NumSendSlots
    \/ wrote[sent[x]] >= sent[x] + NumSendSlots
=============================================================================
