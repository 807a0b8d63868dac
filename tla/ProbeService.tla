---------------------------- MODULE ProbeService ----------------------------
(***************************************************************************)
(* What the prober promises to the agent, without sessions, datagrams or   *)
(* goroutines: a call is decided once, OK exactly when it has taken one    *)
(* ACK of each type and otherwise for a reason of its own; it then puts    *)
(* one result into a queue that one reader empties in order, and nothing   *)
(* is put into the queue once it is closed.                                *)
(***************************************************************************)
EXTENDS Integers, Sequences

CONSTANTS MaxCalls, AckTypes, ResultCap

VARIABLES
  calls,    \* how many calls there have been
  phase,    \* of each call: none, pending, decided, reported
  acks,     \* the types of ACK each has taken
  outcome,
  queue,    \* results that wait for the reader
  queueOpen

vars == <<calls, phase, acks, outcome, queue, queueOpen>>

Calls == 1..MaxCalls

Init ==
  /\ calls = 0
  /\ phase = [c \in Calls |-> "none"]
  /\ acks = [c \in Calls |-> {}]
  /\ outcome = [c \in Calls |-> "UNKNOWN"]
  /\ queue = <<>>
  /\ queueOpen = TRUE

Call ==
  /\ calls < MaxCalls
  /\ calls' = calls + 1
  /\ phase' = [phase EXCEPT ![calls + 1] = "pending"]
  /\ UNCHANGED <<acks, outcome, queue, queueOpen>>

TakeAck(c, k) ==
  /\ phase[c] = "pending"
  /\ k \notin acks[c]
  /\ acks' = [acks EXCEPT ![c] = @ \cup {k}]
  /\ IF acks[c] \cup {k} = AckTypes
       THEN /\ phase' = [phase EXCEPT ![c] = "decided"]
            /\ outcome' = [outcome EXCEPT ![c] = "OK"]
       ELSE UNCHANGED <<phase, outcome>>
  /\ UNCHANGED <<calls, queue, queueOpen>>

GiveUp(c, reason) ==
  /\ phase[c] = "pending"
  /\ acks' = [acks EXCEPT ![c] = {}]
  /\ phase' = [phase EXCEPT ![c] = "decided"]
  /\ outcome' = [outcome EXCEPT ![c] = reason]
  /\ UNCHANGED <<calls, queue, queueOpen>>

Report(c) ==
  /\ phase[c] = "decided"
  /\ queueOpen
  /\ Len(queue) < ResultCap
  /\ phase' = [phase EXCEPT ![c] = "reported"]
  /\ queue' = Append(queue, c)
  /\ UNCHANGED <<calls, acks, outcome, queueOpen>>

Read ==
  /\ queue # <<>>
  /\ queue' = Tail(queue)
  /\ UNCHANGED <<calls, phase, acks, outcome, queueOpen>>

CloseQueue ==
  /\ queueOpen
  /\ queueOpen' = FALSE
  /\ UNCHANGED <<calls, phase, acks, outcome, queue>>

Next ==
  \/ Call
  \/ \E c \in Calls, k \in AckTypes : TakeAck(c, k)
  \/ \E c \in Calls, reason \in {"TIMEOUT", "ERROR"} : GiveUp(c, reason)
  \/ \E c \in Calls : Report(c)
  \/ Read
  \/ CloseQueue

Spec == Init /\ [][Next]_vars
=============================================================================
