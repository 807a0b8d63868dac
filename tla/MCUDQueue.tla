----------------------------- MODULE MCUDQueue ------------------------------
(* Instances of the two sides of a UDQueue: for the receive side two       *)
(* slots, room for one post more than there are slots, and a completion    *)
(* channel of one; for the send side two goroutines, two slots, and        *)
(* channels that one entry fills.                                          *)
(*                                                                         *)
(* The sides have no step and no variable in common: what the receive side *)
(* does to the send side, an error in errChan, is PollRecvError of the     *)
(* latter.  A behaviour therefore runs one side and leaves the other as it *)
(* is.                                                                     *)
EXTENDS RecvQueue, SendQueue

CONSTANTS c1, c2

VARIABLE side  \* the side of the queue that the behaviour is about

TwoCallers == {c1, c2}

queueVars == <<side, vars, sendVars>>

QueueInit ==
  /\ Init
  /\ SendInit
  /\ \/ side = "receive" /\ qType = "Sender"
     \/ side = "send" /\ QueueType = "Sender"

QueueNext ==
  \/ side = "receive" /\ Next /\ UNCHANGED <<side, sendVars>>
  \/ side = "send" /\ SendNext /\ UNCHANGED <<side, vars>>

QueueSpec == QueueInit /\ [][QueueNext]_queueVars
=============================================================================
