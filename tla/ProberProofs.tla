---------------------------- MODULE ProberProofs ----------------------------
(* Theorems about the prober for any targets, RNICs and bounds.            *)
EXTENDS Prober, FiniteSetTheorems, TLAPS

USE DEF callVars, tableVars, closeVars, Goto, Count

(* What the proofs need to know of the domains, which stay folded.         *)
LEMMA Domains ==
  /\ Idle \in SeqsOrIdle
  /\ Idle \in TypesOrIdle
  /\ Seqs \subseteq SeqsOrIdle
  /\ AckTypes \subseteq TypesOrIdle
  /\ \A s \in SeqsOrIdle : s # Idle => s \in Seqs
  /\ \A k \in TypesOrIdle : k # Idle => k \in AckTypes
  BY DEF SeqsOrIdle, TypesOrIdle

(* An element appended to a buffer that is not full keeps it within its    *)
(* capacity.                                                               *)
LEMMA AppendWithin ==
  ASSUME NEW S, NEW q \in Seq(S), NEW x \in S, NEW c \in Nat, Len(q) < c
  PROVE  Append(q, x) \in Seq(S) /\ Len(Append(q, x)) <= c
  OBVIOUS

(* The initial state of the prober has its types.                          *)
LEMMA TypeInit == Init => TypeOK
<1> SUFFICES ASSUME Init PROVE TypeOK
  OBVIOUS
<1> USE Domains, BoundsAssumption DEF Init, NoEvents
<1>1. CallTypes
  BY DEF CallTypes, Labels
<1>2. TableTypes
  BY DEF TableTypes
<1>3. NetTypes
  BY DEF NetTypes, NoAck
<1>4. ResultTypes
  BY DEF ResultTypes, Panics
<1>5. QED
  BY <1>1, <1>2, <1>3, <1>4 DEF TypeOK

(* A new call has its types, whoever makes it.                             *)
LEMMA BeginTypes ==
  ASSUME TypeOK, NEW t \in Targets, Begin(t)
  PROVE  TypeOK'
<1> USE Domains DEF Begin, TypeOK
<1>0. nextSeqNum + 1 \in Seqs /\ nextSeqNum + 1 \in 0..MaxSeq
  BY BoundsAssumption DEF CallTypes, Seqs
<1>1. CallTypes'
  <2> USE <1>0 DEF CallTypes
  <2>1. tgt' \in [Seqs -> Targets \cup {NoTarget}]
    OBVIOUS
  <2>2. pc' \in [Seqs -> Labels]
    BY DEF Labels
  <2>3. QED
    BY <2>1, <2>2
<1>2. TableTypes'
  BY <1>0 DEF TableTypes
<1>3. NetTypes'
  BY DEF NetTypes
<1>4. ResultTypes'
  BY DEF ResultTypes
<1>5. QED
  BY <1>1, <1>2, <1>3, <1>4

(* A step of a ProbeTarget call, or of a removal, keeps the types.         *)
LEMMA CallTypesStep ==
  ASSUME TypeOK, NEW s \in Seqs, CallStep(s)
  PROVE  TypeOK'
<1> USE Domains DEF TypeOK
<1>1. CASE IndexSession(s)
  <2> USE <1>1 DEF IndexSession
  <2>1. CallTypes'   BY DEF CallTypes, Labels
  <2>2. TableTypes'  BY DEF TableTypes
  <2>3. NetTypes'
    <3>1. stats' \in [Stats -> Nat]
      BY DEF NetTypes, Stats
    <3>2. QED
      BY <3>1 DEF NetTypes
  <2>4. ResultTypes' BY DEF ResultTypes
  <2>5. QED          BY <2>1, <2>2, <2>3, <2>4
<1>2. CASE SendProbe(s)
  <2> USE <1>2 DEF SendProbe
  <2>1. CallTypes'   
    <3>1. pc' \in [Seqs -> Labels] 
      BY DEF CallTypes, Labels
    <3>2. status' \in [Seqs -> {"UNKNOWN", "OK", "TIMEOUT", "ERROR"}]
      BY DEF CallTypes
    <3>3. QED
      BY <3>1, <3>2 DEF CallTypes
  <2>2. TableTypes'  BY DEF TableTypes
  <2>3. NetTypes'
    <3>1. Probe(s) \in Packets
      BY DEF Packets, Probe
    <3>2. stats' \in [Stats -> Nat]
      BY DEF NetTypes
    <3>3. QED
      BY <3>1, <3>2 DEF NetTypes
  <2>4. ResultTypes' BY DEF ResultTypes
  <2>5. QED          BY <2>1, <2>2, <2>3, <2>4
<1>3. CASE NoSenderQueue(s) \/ AckTimeout(s) \/ \E k \in AckTypes : ReceiveClosed(s, k)
  <2> USE <1>3 DEF NoSenderQueue, AckTimeout, ReceiveClosed
  <2>1. CallTypes'
    <3>1. pc' = [pc EXCEPT ![s] = "report"]
      OBVIOUS
    <3>2. status' \in {[status EXCEPT ![s] = "ERROR"], [status EXCEPT ![s] = "TIMEOUT"]}
      OBVIOUS
    <3>3. QED
      BY <3>1, <3>2 DEF CallTypes, Labels
  <2>2. TableTypes'  BY DEF TableTypes
  <2>3. NetTypes'    BY DEF NetTypes
  <2>4. ResultTypes' BY DEF ResultTypes
  <2>5. QED          BY <2>1, <2>2, <2>3, <2>4
<1>4. ASSUME NEW k \in AckTypes, ReceiveAck(s, k) PROVE TypeOK'
  <2> USE <1>4 DEF ReceiveAck
  <2>1. CallTypes'
    <3>1. got' \in [Seqs -> [AckTypes -> SeqsOrIdle]]
      <4>1. [got[s] EXCEPT ![k] = buf[s][k]] \in [AckTypes -> SeqsOrIdle]
        BY DEF CallTypes, TableTypes
      <4>2. got' \in {got, [got EXCEPT ![s] = [got[s] EXCEPT ![k] = buf[s][k]]]}
        OBVIOUS
      <4>3. QED
        BY <4>1, <4>2 DEF CallTypes
    <3>2. pc' \in [Seqs -> Labels]
      BY DEF CallTypes, Labels
    <3>3. status' \in [Seqs -> {"UNKNOWN", "OK", "TIMEOUT", "ERROR"}]
      BY DEF CallTypes
    <3>4. QED
      BY <3>1, <3>2, <3>3 DEF CallTypes
  <2>2. TableTypes'  BY DEF TableTypes
  <2>3. NetTypes'    BY DEF NetTypes
  <2>4. ResultTypes' BY DEF ResultTypes
  <2>5. QED          BY <2>1, <2>2, <2>3, <2>4
<1>5. CASE Report(s)
  <2> USE <1>5 DEF Report
  <2>1. CallTypes'
    BY DEF CallTypes, Labels
  <2>2. TableTypes'  BY DEF TableTypes
  <2>3. NetTypes'    BY DEF NetTypes
  <2>4. ResultTypes'
    <3>1. results' \in Seq(Seqs) /\ Len(results') <= ResultCap
      <4>1. CASE UNCHANGED results
        BY <4>1 DEF ResultTypes
      <4>2. CASE results' = Append(results, s) /\ Len(results) < ResultCap
        <5>1. results \in Seq(Seqs)
          BY DEF ResultTypes
        <5>2. QED
          BY <4>2, <5>1, AppendWithin, BoundsAssumption
      <4>3. QED
        BY <4>1, <4>2
    <3>2. crashed' \in Panics
      BY DEF ResultTypes, Panics
    <3>3. QED
      BY <3>1, <3>2 DEF ResultTypes
  <2>5. QED          BY <2>1, <2>2, <2>3, <2>4
<1>6. CASE RemoveSession(s) \/ FinishRemoval(s)
  <2> USE <1>6 DEF RemoveSession, FinishRemoval, DeleteIndex, LoadAndDelete,
                   TakeOut, CloseOnce, Return, NoEvents
  <2>1. CallTypes'
    <3>1. got' \in [Seqs -> [AckTypes -> SeqsOrIdle]]
      BY DEF CallTypes
    <3>2. pc' \in [Seqs -> Labels]
      BY DEF CallTypes, Labels
    <3>3. QED
      BY <3>1, <3>2 DEF CallTypes
  <2>2. TableTypes'
    <3>1. buf' \in [Seqs -> [AckTypes -> SeqsOrIdle]]
      BY DEF TableTypes
    <3>2. torn' \subseteq Seqs
      BY DEF TableTypes
    <3>3. removal' \in [Seqs -> {"no", "begun", "done"}]
      BY DEF TableTypes
    <3>4. QED
      BY <3>1, <3>2, <3>3 DEF TableTypes
  <2>3. NetTypes'    BY DEF NetTypes
  <2>4. ResultTypes' BY DEF ResultTypes
  <2>5. QED          BY <2>1, <2>2, <2>3, <2>4
<1>7. QED
  BY <1>1, <1>2, <1>3, <1>4, <1>5, <1>6 DEF CallStep

(* Every step of the prober keeps the types.                               *)
LEMMA TypeStep == TypeOK /\ [Next]_vars => TypeOK'
<1> SUFFICES ASSUME TypeOK, [Next]_vars PROVE TypeOK'
  OBVIOUS
<1> USE Domains DEF TypeOK
<1>1. ASSUME NEW t \in Targets, ClusterProbe(t) \/ ServiceProbe(t) PROVE TypeOK'
  BY <1>1, BeginTypes DEF ClusterProbe, ServiceProbe
<1>3. ASSUME NEW s \in Seqs, CleanupExpired(s) PROVE TypeOK'
  <2> USE <1>3 DEF CleanupExpired, LoadAndDelete, TakeOut
  <2>1. CallTypes'   BY DEF CallTypes
  <2>2. TableTypes'  BY DEF TableTypes
  <2>3. NetTypes'    BY DEF NetTypes
  <2>4. ResultTypes' BY DEF ResultTypes
  <2>5. QED          BY <2>1, <2>2, <2>3, <2>4
<1>4. ASSUME NEW r \in Rnics, FindSession(r) PROVE TypeOK'
  <2> USE <1>4 DEF FindSession
  <2>1. CallTypes'   BY DEF CallTypes
  <2>2. TableTypes'  BY DEF TableTypes
  <2>3. NetTypes'
    <3>1. handler' \in [Rnics -> [seq : SeqsOrIdle, type : TypesOrIdle,
                                  session : SeqsOrIdle]]
      <4>1. \/ UNCHANGED handler
            \/ \E m \in wire : \E x \in sessions :
                 handler' = [handler EXCEPT ![r] =
                              [seq |-> m.seq, type |-> m.type, session |-> x]]
        BY DEF SessionsByFlowLabel, SessionsByPacketInfo
      <4>2. \A m \in wire, x \in sessions :
              [seq |-> m.seq, type |-> m.type, session |-> x]
                \in [seq : SeqsOrIdle, type : TypesOrIdle, session : SeqsOrIdle]
        BY DEF NetTypes, TableTypes, Packets
      <4>3. QED
        BY <4>1, <4>2 DEF NetTypes
    <3>2. wire' \subseteq Packets
      BY Zenon DEF NetTypes
    <3>3. QED
      BY <3>1, <3>2 DEF NetTypes
  <2>4. ResultTypes' BY DEF ResultTypes
  <2>5. QED          BY <2>1, <2>2, <2>3, <2>4
<1>5. ASSUME NEW r \in Rnics, DeliverAck(r) PROVE TypeOK'
  <2> DEFINE h == handler[r]
  <2> USE <1>5 DEF DeliverAck
  <2>1. CallTypes'   BY DEF CallTypes
  <2>2. TableTypes'
    <3>1. h.session \in Seqs /\ h.seq \in SeqsOrIdle /\ h.type \in TypesOrIdle
      BY DEF NetTypes
    <3>2. buf' \in [Seqs -> [AckTypes -> SeqsOrIdle]]
      <4>1. [buf[h.session] EXCEPT ![h.type] = h.seq] \in [AckTypes -> SeqsOrIdle]
        BY <3>1 DEF TableTypes
      <4>2. buf' \in {buf, [buf EXCEPT ![h.session] =
                             [buf[h.session] EXCEPT ![h.type] = h.seq]]}
        OBVIOUS
      <4>3. QED
        BY <3>1, <4>1, <4>2 DEF TableTypes
    <3>3. QED
      BY <3>2 DEF TableTypes
  <2>3. NetTypes'
    <3>1. handler' \in [Rnics -> [seq : SeqsOrIdle, type : TypesOrIdle,
                                  session : SeqsOrIdle]]
      BY DEF NetTypes, NoAck
    <3>2. QED
      BY <3>1 DEF NetTypes
  <2>4. ResultTypes' BY DEF ResultTypes, Panics
  <2>5. QED          BY <2>1, <2>2, <2>3, <2>4
<1>6. ASSUME NEW g \in Alive, Respond(g) PROVE TypeOK'
  <2> USE <1>6 DEF Respond
  <2>1. CallTypes'   BY DEF CallTypes
  <2>2. TableTypes'  BY DEF TableTypes
  <2>3. NetTypes'
    <3>1. \A s \in Seqs : Ack(s, 1) \in Packets /\ Ack(s, 2) \in Packets
      BY DEF Ack, Packets, TypesOrIdle, AckTypes
    <3>2. wire' \subseteq Packets
      BY <3>1 DEF NetTypes, Packets
    <3>3. QED
      BY <3>2 DEF NetTypes
  <2>4. ResultTypes' BY DEF ResultTypes
  <2>5. QED          BY <2>1, <2>2, <2>3, <2>4
<1>7. CASE \/ ConsumeResult \/ CloseStart \/ CloseFinish
           \/ \E s \in Seqs : CloseVisit(s)
  <2> USE <1>7 DEF ConsumeResult, CloseStart, CloseVisit, CloseFinish,
                   CloseOnce, TakeOut
  <2>1. CallTypes'   BY DEF CallTypes
  <2>2. TableTypes'
    <3>1. closed' \subseteq Seqs /\ torn' \subseteq Seqs
      BY DEF TableTypes
    <3>2. sessions' \subseteq Seqs /\ seqNumIndex' \subseteq Seqs
      BY DEF TableTypes
    <3>3. UNCHANGED <<removal, buf>>
      OBVIOUS
    <3>4. QED
      BY <3>1, <3>2, <3>3 DEF TableTypes
  <2>3. NetTypes'    BY DEF NetTypes
  <2>4. ResultTypes'
    <3>1. results' \in Seq(Seqs) /\ Len(results') <= ResultCap
      BY BoundsAssumption DEF ResultTypes
    <3>2. rangedTo' \in 0..MaxSeq
      BY DEF ResultTypes, CallTypes
    <3>3. closing' \in {"no", "range", "done"} /\ crashed' \in Panics
      BY DEF ResultTypes
    <3>4. QED
      BY <3>1, <3>2, <3>3 DEF ResultTypes
  <2>5. QED          BY <2>1, <2>2, <2>3, <2>4
<1>8. CASE UNCHANGED vars
  BY <1>8 DEF vars, CallTypes, TableTypes, NetTypes, ResultTypes
<1>9. QED
  BY <1>1, <1>3, <1>4, <1>5, <1>6, <1>7, <1>8, CallTypesStep
  DEF Next, Step

(* Type correctness of the prober: whatever the interleaving of calls, ACK *)
(* handlers, cleanup and shutdown, every variable keeps its type and the   *)
(* results channel its capacity.                                           *)
THEOREM TypeCorrect == Spec => []TypeOK
<1>1. QED BY TypeInit, TypeStep, PTL DEF Spec

-----------------------------------------------------------------------------
(* Why no session leaks.  The property is not inductive: it needs that a   *)
(* sequence number not yet drawn has left no trace, and that a call which  *)
(* is about to store its index entry has its session in the map or lost it *)
(* between the two stores.                                                 *)
Fresh == \A s \in Seqs : ~(s <= nextSeqNum) => s \notin sessions /\ pc[s] = "none"

Owned ==
  \A s \in sessions :
    pc[s] \in {"indexing", "sending", "waiting", "report", "remove"}

Indexed ==
  \A s \in seqNumIndex :
    \/ s \in sessions
    \/ removal[s] = "begun"
    \/ s \in torn
    \/ closing = "range"
    \/ closing = "done" /\ s > rangedTo

Stored == \A s \in Seqs : pc[s] = "indexing" => s \in sessions \/ s \in torn

SessionInv == Fresh /\ Owned /\ Indexed /\ Stored

(* Sequence numbers are naturals; the next one has not been drawn yet.     *)
LEMMA NextSeqNum ==
  ASSUME TypeOK
  PROVE  /\ nextSeqNum < MaxSeq => nextSeqNum + 1 \in Seqs
         /\ ~(nextSeqNum + 1 <= nextSeqNum)
         /\ \A s \in Seqs : s <= nextSeqNum + 1 /\ s # nextSeqNum + 1 => s <= nextSeqNum
         /\ \A s \in SeqsOrIdle : s <= nextSeqNum => s <= nextSeqNum + 1
  BY BoundsAssumption DEF TypeOK, CallTypes, Seqs, SeqsOrIdle, Idle

(* Nothing is in the tables at the start.                                  *)
LEMMA SessionInit == Init => SessionInv
  BY DEF Init, SessionInv, Fresh, Owned, Indexed, Stored

(* A step of a call, or of the removal of its session, keeps the invariant.*)
LEMMA SessionCallStep ==
  ASSUME TypeOK, SessionInv, NEW s \in Seqs, CallStep(s)
  PROVE  SessionInv'
<1> USE Domains DEF TypeOK, SessionInv, CallTypes, TableTypes
<1>1. CASE IndexSession(s)
  <2> USE <1>1 DEF IndexSession
  <2>1. Fresh'   BY DEF Fresh
  <2>2. Owned'   BY DEF Owned
  <2>3. Indexed' BY DEF Indexed, Stored
  <2>4. Stored'  BY DEF Stored
  <2>5. QED      BY <2>1, <2>2, <2>3, <2>4
<1>2. CASE \/ SendProbe(s) \/ NoSenderQueue(s) \/ AckTimeout(s) \/ Report(s)
           \/ \E k \in AckTypes : ReceiveAck(s, k) \/ ReceiveClosed(s, k)
  <2>1. /\ pc[s] \in {"sending", "waiting", "report"}
        /\ \/ pc' = pc
           \/ \E l \in {"waiting", "report", "remove"} :
                pc' = [pc EXCEPT ![s] = l]
        /\ UNCHANGED <<sessions, seqNumIndex, removal, torn, closing, rangedTo,
                       nextSeqNum>>
    BY <1>2 DEF SendProbe, NoSenderQueue, AckTimeout, ReceiveAck, ReceiveClosed,
                Report
  <2>2. Fresh'   BY <2>1 DEF Fresh
  <2>3. Owned'   BY <2>1 DEF Owned
  <2>4. Indexed' BY <2>1 DEF Indexed
  <2>5. Stored'  BY <2>1 DEF Stored
  <2>6. QED      BY <2>2, <2>3, <2>4, <2>5
<1>3. CASE RemoveSession(s)
  <2> USE <1>3 DEF RemoveSession, LoadAndDelete, TakeOut, Return
  <2>1. Fresh'   BY DEF Fresh
  <2>2. Owned'   BY DEF Owned
  <2>3. Indexed' BY DEF Indexed
  <2>4. Stored'  BY DEF Stored
  <2>5. QED      BY <2>1, <2>2, <2>3, <2>4
<1>4. CASE FinishRemoval(s)
  <2> USE <1>4 DEF FinishRemoval, DeleteIndex, Return
  <2>1. Fresh'   BY DEF Fresh
  <2>2. Owned'   BY DEF Owned
  <2>3. Indexed' BY DEF Indexed
  <2>4. Stored'  BY DEF Stored
  <2>5. QED      BY <2>1, <2>2, <2>3, <2>4
<1>5. QED
  BY <1>1, <1>2, <1>3, <1>4 DEF CallStep

(* A new call keeps the invariant: its sequence number is fresh.           *)
LEMMA SessionBegin ==
  ASSUME TypeOK, SessionInv, NEW t \in Targets, Begin(t)
  PROVE  SessionInv'
<1> DEFINE s == nextSeqNum + 1
<1>0. s \in Seqs
  BY NextSeqNum DEF Begin
<1>1. /\ nextSeqNum' = s
      /\ pc' = [pc EXCEPT ![s] = "indexing"]
      /\ sessions' = sessions \cup {s}
      /\ UNCHANGED <<seqNumIndex, removal, torn, closing, rangedTo>>
  BY DEF Begin
<1>2. \A x \in Seqs : ~(x <= s) => ~(x <= nextSeqNum) /\ x # s
  BY NextSeqNum, Domains DEF Seqs, TypeOK, CallTypes
<1> HIDE DEF s
<1> USE <1>0, <1>1 DEF SessionInv, TypeOK, CallTypes, TableTypes
<1>3. Fresh'   BY <1>2 DEF Fresh
<1>4. Owned'   BY DEF Owned
<1>5. Indexed' BY DEF Indexed
<1>6. Stored'  BY DEF Stored
<1>7. QED      BY <1>3, <1>4, <1>5, <1>6

(* Every step of the prober keeps the invariant.                           *)
LEMMA SessionStep == TypeOK /\ SessionInv /\ [Next]_vars => SessionInv'
<1> SUFFICES ASSUME TypeOK, SessionInv, [Next]_vars PROVE SessionInv'
  OBVIOUS
<1> USE Domains DEF SessionInv
<1>1. ASSUME NEW t \in Targets, ClusterProbe(t) \/ ServiceProbe(t) PROVE SessionInv'
  BY <1>1, SessionBegin DEF ClusterProbe, ServiceProbe
<1>2. CASE \/ \E r \in Rnics : FindSession(r) \/ DeliverAck(r)
           \/ \E g \in Alive : Respond(g)
           \/ ConsumeResult \/ UNCHANGED vars
  <2>1. UNCHANGED <<nextSeqNum, pc, sessions, seqNumIndex, removal, torn,
                    closing, rangedTo>>
    BY <1>2 DEF FindSession, DeliverAck, Respond, ConsumeResult, vars
  <2>2. QED
    BY <2>1 DEF Fresh, Owned, Indexed, Stored
<1>3. ASSUME NEW s \in Seqs, CleanupExpired(s) PROVE SessionInv'
  <2> USE <1>3 DEF CleanupExpired, LoadAndDelete, TakeOut, TypeOK, CallTypes,
                   TableTypes
  <2>1. Fresh'   BY DEF Fresh
  <2>2. Owned'   BY DEF Owned
  <2>3. Indexed' BY DEF Indexed
  <2>4. Stored'  BY DEF Stored
  <2>5. QED      BY <2>1, <2>2, <2>3, <2>4
<1>4. CASE CloseStart
  BY <1>4 DEF CloseStart, Fresh, Owned, Indexed, Stored
<1>5. ASSUME NEW s \in Seqs, CloseVisit(s) PROVE SessionInv'
  <2> USE <1>5 DEF CloseVisit, TakeOut, TypeOK, CallTypes, TableTypes
  <2>1. Fresh'   BY DEF Fresh
  <2>2. Owned'   BY DEF Owned
  <2>3. Indexed' BY DEF Indexed
  <2>4. Stored'  BY DEF Stored
  <2>5. QED      BY <2>1, <2>2, <2>3, <2>4
<1>6. CASE CloseFinish
  BY <1>6 DEF CloseFinish, Fresh, Owned, Indexed, Stored
<1>7. QED
  BY <1>1, <1>2, <1>3, <1>4, <1>5, <1>6, SessionCallStep DEF Next, Step

(* The session table is always consistent with the calls it serves.        *)
LEMMA SessionInvariant == Spec => [](TypeOK /\ SessionInv)
<1>1. QED
  BY TypeInit, TypeStep, SessionInit, SessionStep, PTL DEF Spec

(* No session and no index entry outlives its call, for any number of      *)
(* concurrent calls and any interleaving with cleanup and Close, but for   *)
(* the two windows that the property names.                                *)
THEOREM NoLeak == Spec => []NoSessionLeak
<1>1. SessionInv => NoSessionLeak
  BY DEF SessionInv, Owned, Indexed, NoSessionLeak
<1>2. QED
  BY <1>1, SessionInvariant, PTL

-----------------------------------------------------------------------------
(* Which ACKs a call can take its timestamps from.  The invariant follows  *)
(* an ACK from the wire through the handler and the buffered channel to    *)
(* the call: at every stage it answers the session's own probe or one      *)
(* whose flow label, as received, is that of the session.                  *)
Drawn(q) == q \in Seqs /\ q <= nextSeqNum

Matched(q, s) == Drawn(q) /\ Drawn(s) /\ MayAnswer(q, s)

WireInv == \A m \in wire : Drawn(m.seq)

HandlerInv ==
  \A r \in Rnics :
    handler[r].session # Idle => Matched(handler[r].seq, handler[r].session)

BufInv == \A s \in Seqs, k \in AckTypes : buf[s][k] # Idle => Matched(buf[s][k], s)

GotInv == \A s \in Seqs, k \in AckTypes : got[s][k] # Idle => Matched(got[s][k], s)

(* Every drawn sequence number has a target.                               *)
Aimed == \A q : Drawn(q) => tgt[q] \in Targets

AckInv == WireInv /\ HandlerInv /\ BufInv /\ GotInv

(* There are no ACKs at the start.                                         *)
LEMMA AckInit == Init => AckInv
  BY DEF Init, AckInv, WireInv, HandlerInv, BufInv, GotInv, NoEvents, NoAck

(* Drawing a new sequence number changes no target that was drawn before.  *)
LEMMA AckBegin ==
  ASSUME TypeOK, AckInv, NEW t \in Targets, Begin(t)
  PROVE  AckInv'
<1>1. \A q : Drawn(q) => Drawn(q)' /\ tgt'[q] = tgt[q]
  BY NextSeqNum, Domains DEF Begin, Drawn, TypeOK, CallTypes
<1>2. \A q, s : Matched(q, s) => Matched(q, s)'
  BY <1>1 DEF Matched, MayAnswer, AckLabel
<1>3. UNCHANGED <<wire, handler, buf, got>>
  BY DEF Begin
<1>4. QED
  BY <1>1, <1>2, <1>3 DEF AckInv, WireInv, HandlerInv, BufInv, GotInv

(* Every other step leaves the drawn numbers and their targets alone, and  *)
(* moves an ACK at most one stage further.                                 *)
LEMMA AckStep == TypeOK /\ SessionInv /\ AckInv /\ [Next]_vars => AckInv'
<1> SUFFICES ASSUME TypeOK, SessionInv, AckInv, [Next]_vars PROVE AckInv'
  OBVIOUS
<1>1. ASSUME NEW t \in Targets, ClusterProbe(t) \/ ServiceProbe(t) PROVE AckInv'
  BY <1>1, AckBegin DEF ClusterProbe, ServiceProbe
<1>2. ASSUME UNCHANGED <<nextSeqNum, tgt>>
      PROVE  \A q, s : Matched(q, s) => Matched(q, s)'
  BY <1>2 DEF Matched, MayAnswer, AckLabel, Drawn
<1>3. ASSUME UNCHANGED <<nextSeqNum, tgt, wire, handler, buf, got>> PROVE AckInv'
  BY <1>2, <1>3 DEF AckInv, WireInv, HandlerInv, BufInv, GotInv, Drawn
<1>4. ASSUME NEW s \in Seqs, CallStep(s) PROVE AckInv'
  <2>0. UNCHANGED <<nextSeqNum, tgt>>
    BY <1>4 DEF CallStep, IndexSession, SendProbe, NoSenderQueue, AckTimeout,
                ReceiveAck, ReceiveClosed, Report, RemoveSession, FinishRemoval
  <2>1. CASE SendProbe(s)
    <3>1. Drawn(s)
      BY <2>1 DEF SendProbe, SessionInv, Fresh, Drawn
    <3>2. wire' = wire \cup {Probe(s)} /\ UNCHANGED <<handler, buf, got>>
      BY <2>1 DEF SendProbe
    <3>3. WireInv'
      BY <2>0, <3>1, <3>2 DEF AckInv, WireInv, Drawn, Probe
    <3>4. QED
      BY <1>2, <2>0, <3>2, <3>3 DEF AckInv, HandlerInv, BufInv, GotInv
  <2>2. ASSUME NEW k \in AckTypes, ReceiveAck(s, k) PROVE AckInv'
    <3>1. UNCHANGED <<wire, handler>>
      BY <2>2 DEF ReceiveAck
    <3>2. \A x \in Seqs, j \in AckTypes :
            buf'[x][j] = buf[x][j] \/ buf'[x][j] = Idle
      BY <2>2 DEF ReceiveAck, TypeOK, TableTypes
    <3>3. \A x \in Seqs, j \in AckTypes :
            got'[x][j] = got[x][j] \/ got'[x][j] = buf[x][j]
      BY <2>2 DEF ReceiveAck, TypeOK, CallTypes
    <3>4. QED
      BY <1>2, <2>0, <3>1, <3>2, <3>3
      DEF AckInv, WireInv, HandlerInv, BufInv, GotInv, Drawn
  <2>3. CASE RemoveSession(s) \/ FinishRemoval(s)
    <3>1. UNCHANGED <<wire, handler>>
      BY <2>3 DEF RemoveSession, FinishRemoval
    <3>2. \A x \in Seqs, j \in AckTypes :
            /\ buf'[x][j] = buf[x][j] \/ buf'[x][j] = Idle
            /\ got'[x][j] = got[x][j] \/ got'[x][j] = Idle
      <4>1. \/ UNCHANGED <<buf, got>>
            \/ /\ buf' = [buf EXCEPT ![s] = NoEvents]
               /\ got' = [got EXCEPT ![s] = NoEvents]
        BY <2>3 DEF RemoveSession, FinishRemoval, Return
      <4>2. \A j \in AckTypes : NoEvents[j] = Idle
        BY DEF NoEvents
      <4>3. QED
        BY <4>1, <4>2 DEF TypeOK, CallTypes, TableTypes
    <3>3. QED
      BY <1>2, <2>0, <3>1, <3>2
      DEF AckInv, WireInv, HandlerInv, BufInv, GotInv, Drawn
  <2>4. QED
    BY <1>3, <1>4, <2>0, <2>1, <2>2, <2>3
    DEF CallStep, IndexSession, NoSenderQueue, AckTimeout, ReceiveClosed,
        Report
<1>5. ASSUME NEW r \in Rnics, FindSession(r) PROVE AckInv'
  <2>1. UNCHANGED <<nextSeqNum, tgt, buf, got>> /\ wire' \subseteq wire
    BY <1>5 DEF FindSession
  <2>2. \A q \in Rnics :
          \/ handler'[q] = handler[q]
          \/ Matched(handler'[q].seq, handler'[q].session)
    <3>1. \A x \in sessions : Drawn(x)
      BY DEF SessionInv, Fresh, Drawn, TypeOK, TableTypes
    <3>2. CASE UNCHANGED handler
      BY <3>2
    <3>3. ASSUME NEW m \in wire, NEW x \in sessions,
                 tgt[x].label = AckLabel(tgt[m.seq]) \/ x = m.seq,
                 handler' = [handler EXCEPT ![r] =
                               [seq |-> m.seq, type |-> m.type, session |-> x]]
          PROVE  \A q \in Rnics :
                   \/ handler'[q] = handler[q]
                   \/ Matched(handler'[q].seq, handler'[q].session)
      <4>1. Matched(m.seq, x)
        BY <3>1, <3>3 DEF Matched, MayAnswer, AckInv, WireInv
      <4>2. QED
        BY <3>3, <4>1 DEF TypeOK, NetTypes
    <3>4. QED
      BY <1>5, <3>2, <3>3
      DEF FindSession, SessionsByFlowLabel, SessionsByPacketInfo
  <2>3. HandlerInv'
    <3>1. \A q \in Rnics :
            handler'[q].session # Idle => Matched(handler'[q].seq, handler'[q].session)
      BY <2>2 DEF AckInv, HandlerInv
    <3>2. QED
      BY <1>2, <2>1, <3>1 DEF HandlerInv
  <2>4. QED
    BY <1>2, <2>1, <2>3 DEF AckInv, WireInv, BufInv, GotInv, Drawn
<1>6. ASSUME NEW r \in Rnics, DeliverAck(r) PROVE AckInv'
  <2> DEFINE h == handler[r]
  <2>1. UNCHANGED <<nextSeqNum, tgt, wire, got>>
    BY <1>6 DEF DeliverAck
  <2>2. \A q \in Rnics : handler'[q] = handler[q] \/ handler'[q] = NoAck
    BY <1>6 DEF DeliverAck, TypeOK, NetTypes
  <2>3. h.session # Idle
    BY <1>6 DEF DeliverAck
  <2>4. \A x \in Seqs, j \in AckTypes :
          buf'[x][j] = buf[x][j] \/ (x = h.session /\ buf'[x][j] = h.seq)
    <3>1. buf' \in {buf, [buf EXCEPT ![h.session] =
                           [buf[h.session] EXCEPT ![h.type] = h.seq]]}
      BY <1>6 DEF DeliverAck
    <3>2. buf \in [Seqs -> [AckTypes -> SeqsOrIdle]]
      BY DEF TypeOK, TableTypes
    <3> HIDE DEF h
    <3>3. QED
      BY <3>1, <3>2
  <2>5. Matched(h.seq, h.session)
    BY <2>3 DEF AckInv, HandlerInv
  <2> HIDE DEF h
  <2>6. BufInv'
    BY <1>2, <2>1, <2>4, <2>5 DEF AckInv, BufInv
  <2>7. HandlerInv'
    BY <1>2, <2>1, <2>2 DEF AckInv, HandlerInv, NoAck
  <2>8. QED
    BY <1>2, <2>1, <2>6, <2>7 DEF AckInv, WireInv, GotInv, Drawn
<1>7. ASSUME NEW g \in Alive, Respond(g) PROVE AckInv'
  <2>1. UNCHANGED <<nextSeqNum, tgt, handler, buf, got>>
    BY <1>7 DEF Respond
  <2>2. \A m \in wire' : \E n \in wire : m.seq = n.seq
    BY <1>7 DEF Respond, Ack
  <2>3. WireInv'
    BY <2>1, <2>2 DEF AckInv, WireInv, Drawn
  <2>4. QED
    BY <1>2, <2>1, <2>3 DEF AckInv, HandlerInv, BufInv, GotInv
<1>8. CASE \/ \E s \in Seqs : CleanupExpired(s) \/ CloseVisit(s)
           \/ ConsumeResult \/ CloseStart
           \/ CloseFinish \/ UNCHANGED vars
  BY <1>3, <1>8
  DEF CleanupExpired, CloseVisit, ConsumeResult,
      CloseStart, CloseFinish, vars
<1>9. QED
  BY <1>1, <1>4, <1>5, <1>6, <1>7, <1>8 DEF Next, Step

(* Whatever the targets and the interleaving, the timestamps of a result   *)
(* come from ACKs of its own probe or of one with a matching flow label.   *)
THEOREM Provenance == Spec => []AckProvenance
<1>1. AckInv => AckProvenance
  BY DEF AckInv, GotInv, Matched, AckProvenance
<1>2. QED
  BY <1>1, TypeInit, TypeStep, SessionInit, SessionStep, AckInit, AckStep, PTL
  DEF Spec

(* Where no received flow label equals that of a target (RoCEv2 over IPv4, *)
(* pinglist labels other than 0 and no service flows), HandleIncoming-     *)
(* RDMAPacket finds sessions by sequence number only, and every result is  *)
(* computed from the ACKs of its own probe.                                *)
THEOREM OwnAcks ==
  ASSUME \A t, u \in Targets : AckLabel(t) # u.label
  PROVE  Spec => []OwnAcksOnly
<1>1. TypeOK /\ SessionInv /\ AckInv /\ Aimed => OwnAcksOnly
  BY Domains DEF AckInv, GotInv, Matched, MayAnswer, OwnAcksOnly, Aimed, Drawn,
     TypeOK, CallTypes
<1>2. Init => Aimed
  BY BoundsAssumption DEF Init, Aimed, Drawn, Seqs
<1>3. TypeOK /\ Aimed /\ [Next]_vars => Aimed'
  <2>1. TypeOK /\ Aimed /\ UNCHANGED <<nextSeqNum, tgt>> => Aimed'
    BY DEF Aimed, Drawn
  <2>2. ASSUME TypeOK, Aimed, NEW t \in Targets, Begin(t) PROVE Aimed'
    BY <2>2, NextSeqNum DEF Begin, Aimed, Drawn, TypeOK, CallTypes
  <2>3. QED
    BY <2>1, <2>2
    DEF Next, Step, ClusterProbe, ServiceProbe, vars, CallStep, IndexSession, SendProbe, NoSenderQueue, AckTimeout,
        ReceiveAck, ReceiveClosed, Report, RemoveSession, FinishRemoval, CleanupExpired, FindSession, DeliverAck, Respond,
        ConsumeResult, CloseStart, CloseVisit, CloseFinish
<1>4. QED
  BY <1>1, <1>2, <1>3, TypeInit, TypeStep, SessionInit, SessionStep, AckInit,
     AckStep, PTL DEF Spec

-----------------------------------------------------------------------------
(* The prober implements ProbeService.  The mapping forgets the ACKs of a  *)
(* call that gave up; before it waits, a call has none, and before it is   *)
(* decided it has no status.                                               *)
DecideInv ==
  \A s \in Seqs :
    /\ pc[s] \in {"none", "indexing", "sending", "waiting"} => status[s] = "UNKNOWN"
    /\ pc[s] \in {"none", "indexing", "sending"} =>
         \A k \in AckTypes : got[s][k] = Idle

PhaseBar == [s \in Seqs |-> PhaseOf(pc[s])]
AcksBar  == [s \in Seqs |-> AcksOf(s)]

(* No call is decided at the start.                                        *)
LEMMA DecideInit == Init => DecideInv
  BY DEF Init, DecideInv, NoEvents

(* A step of a call decides it only as it leaves the wait or the send.     *)
LEMMA DecideCallStep ==
  ASSUME TypeOK, DecideInv, NEW s \in Seqs, CallStep(s)
  PROVE  DecideInv'
<1> USE DEF TypeOK, CallTypes, DecideInv
<1>1. CASE IndexSession(s)
  BY <1>1 DEF IndexSession
<1>2. CASE SendProbe(s) \/ NoSenderQueue(s)
  BY <1>2 DEF SendProbe, NoSenderQueue
<1>3. CASE AckTimeout(s) \/ \E k \in AckTypes : ReceiveClosed(s, k)
  BY <1>3 DEF AckTimeout, ReceiveClosed
<1>4. ASSUME NEW k \in AckTypes, ReceiveAck(s, k) PROVE DecideInv'
  BY <1>4 DEF ReceiveAck
<1>5. CASE Report(s)
  BY <1>5 DEF Report
<1>6. CASE RemoveSession(s) \/ FinishRemoval(s)
  BY <1>6 DEF RemoveSession, FinishRemoval, Return, NoEvents
<1>7. QED
  BY <1>1, <1>2, <1>3, <1>4, <1>5, <1>6 DEF CallStep

(* Every step of the prober keeps the invariant of the mapping.            *)
LEMMA DecideStep == TypeOK /\ SessionInv /\ DecideInv /\ [Next]_vars => DecideInv'
<1> SUFFICES ASSUME TypeOK, SessionInv, DecideInv, [Next]_vars PROVE DecideInv'
  OBVIOUS
<1>1. ASSUME NEW t \in Targets, Begin(t) PROVE DecideInv'
  <2> DEFINE s == nextSeqNum + 1
  <2>1. s \in Seqs /\ pc[s] = "none"
    BY <1>1, NextSeqNum DEF Begin, SessionInv, Fresh
  <2>2. pc' = [pc EXCEPT ![s] = "indexing"] /\ UNCHANGED <<status, got>>
    BY <1>1 DEF Begin
  <2> HIDE DEF s
  <2>3. QED
    BY <2>1, <2>2 DEF DecideInv, TypeOK, CallTypes
<1>2. CASE UNCHANGED <<pc, status, got>>
  BY <1>2 DEF DecideInv
<1>3. QED
  BY <1>1, <1>2, DecideCallStep
  DEF Next, Step, ClusterProbe, ServiceProbe, CleanupExpired,
      FindSession, DeliverAck, Respond, ConsumeResult, CloseStart,
      CloseVisit, CloseFinish, vars

(* How the mapped variables follow a step that changes one call.           *)
LEMMA BarsAt ==
  ASSUME TypeOK, NEW s \in Seqs, NEW l \in Labels,
         pc' = [pc EXCEPT ![s] = l],
         \A x \in Seqs : x # s => status'[x] = status[x] /\ got'[x] = got[x]
  PROVE  /\ PhaseBar' = [PhaseBar EXCEPT ![s] = PhaseOf(l)]
         /\ AcksBar' = [AcksBar EXCEPT ![s] = AcksOf(s)']
<1>1. PhaseBar' = [PhaseBar EXCEPT ![s] = PhaseOf(l)]
  BY DEF PhaseBar, TypeOK, CallTypes
<1>2. \A x \in Seqs : x # s => AcksOf(x)' = AcksOf(x)
  BY DEF AcksOf, TypeOK, CallTypes
<1>3. AcksBar' = [AcksBar EXCEPT ![s] = AcksOf(s)']
  BY <1>2 DEF AcksBar
<1>4. QED
  BY <1>1, <1>3

(* A call that is decided without two ACKs gives up.                       *)
LEMMA GivesUp ==
  ASSUME TypeOK, NEW s \in Seqs, NEW reason \in {"TIMEOUT", "ERROR"},
         pc[s] \in {"sending", "waiting"},
         pc' = [pc EXCEPT ![s] = "report"],
         status' = [status EXCEPT ![s] = reason],
         UNCHANGED <<nextSeqNum, got, results, closing>>
  PROVE  Service!Next
<1>1. "report" \in Labels
  BY DEF Labels
<1>2. /\ PhaseBar' = [PhaseBar EXCEPT ![s] = "decided"]
      /\ AcksBar' = [AcksBar EXCEPT ![s] = AcksOf(s)']
  <2>1. PhaseOf("report") = "decided"
    BY DEF PhaseOf
  <2>2. QED
    BY <1>1, <2>1, BarsAt DEF TypeOK, CallTypes
<1>3. AcksOf(s)' = {}
  BY DEF AcksOf, TypeOK, CallTypes
<1>4. PhaseBar[s] = "pending"
  BY DEF PhaseBar, PhaseOf
<1>5. Service!GiveUp(s, reason)
  BY <1>2, <1>3, <1>4 DEF Service!GiveUp, PhaseBar, AcksBar
<1>6. QED
  BY <1>5 DEF Service!Next, Service!Calls, Seqs

(* A step of one call that leaves its phase and its ACKs is no step of the *)
(* service.                                                                *)
LEMMA CallStutters ==
  ASSUME TypeOK, NEW s \in Seqs, NEW l \in Labels,
         pc' = [pc EXCEPT ![s] = l],
         PhaseOf(l) = PhaseOf(pc[s]),
         AcksOf(s)' = AcksOf(s),
         \A x \in Seqs : x # s => got'[x] = got[x],
         UNCHANGED <<nextSeqNum, status, results, closing>>
  PROVE  UNCHANGED Service!vars
<1>1. /\ PhaseBar' = [PhaseBar EXCEPT ![s] = PhaseOf(l)]
      /\ AcksBar' = [AcksBar EXCEPT ![s] = AcksOf(s)']
  BY BarsAt
<1>2. PhaseBar' = PhaseBar /\ AcksBar' = AcksBar
  BY <1>1 DEF PhaseBar, AcksBar
<1>3. QED
  BY <1>2 DEF Service!vars, PhaseBar, AcksBar

(* A step of a call is a step of the service or none.                      *)
LEMMA CallRefines ==
  ASSUME TypeOK, DecideInv, NEW s \in Seqs, CallStep(s)
  PROVE  [Service!Next]_(Service!vars)
<1>1. CASE IndexSession(s)
  <2>1. /\ pc[s] = "indexing" /\ pc' = [pc EXCEPT ![s] = "sending"]
        /\ UNCHANGED <<nextSeqNum, status, got, results, closing>>
    BY <1>1 DEF IndexSession
  <2>2. AcksOf(s) = {} /\ AcksOf(s)' = {}
    BY <2>1 DEF AcksOf, DecideInv, TypeOK, CallTypes
  <2>3. "sending" \in Labels /\ PhaseOf("sending") = PhaseOf(pc[s])
    BY <2>1 DEF Labels, PhaseOf
  <2>4. QED
    BY <2>1, <2>2, <2>3, CallStutters
<1>2. CASE SendProbe(s)
  <2>1. /\ pc[s] = "sending"
        /\ UNCHANGED <<nextSeqNum, got, results, closing>>
        /\ \/ pc' = [pc EXCEPT ![s] = "waiting"] /\ UNCHANGED status
           \/ /\ pc' = [pc EXCEPT ![s] = "report"]
              /\ status' = [status EXCEPT ![s] = "ERROR"]
    BY <1>2 DEF SendProbe
  <2>2. CASE pc' = [pc EXCEPT ![s] = "waiting"] /\ UNCHANGED status
    <3>1. AcksOf(s) = {} /\ AcksOf(s)' = {}
      BY <2>1, <2>2 DEF AcksOf, DecideInv, TypeOK, CallTypes
    <3>2. "waiting" \in Labels /\ PhaseOf("waiting") = PhaseOf(pc[s])
      BY <2>1 DEF Labels, PhaseOf
    <3>3. QED
      BY <2>1, <2>2, <3>1, <3>2, CallStutters
  <2>3. QED
    BY <2>1, <2>2, GivesUp
<1>3. CASE \/ NoSenderQueue(s) \/ AckTimeout(s)
           \/ \E k \in AckTypes : ReceiveClosed(s, k)
  <2>1. /\ pc[s] \in {"sending", "waiting"}
        /\ pc' = [pc EXCEPT ![s] = "report"]
        /\ \E reason \in {"TIMEOUT", "ERROR"} :
             status' = [status EXCEPT ![s] = reason]
        /\ UNCHANGED <<nextSeqNum, got, results, closing>>
    BY <1>3 DEF NoSenderQueue, AckTimeout, ReceiveClosed
  <2>2. QED
    BY <2>1, GivesUp
<1>4. ASSUME NEW k \in AckTypes, ReceiveAck(s, k)
      PROVE  [Service!Next]_(Service!vars)
  <2> USE <1>4
  <2>0. k \in {1, 2} /\ 3 - k \in {1, 2} /\ 3 - k # k
    BY DEF AckTypes
  <2>1. /\ pc[s] = "waiting"
        /\ buf[s][k] # Idle
        /\ UNCHANGED <<nextSeqNum, results, closing>>
    BY DEF ReceiveAck
  <2>2. CASE got[s][k] # Idle
    <3>1. UNCHANGED <<got, status, pc>>
      BY <2>2 DEF ReceiveAck
    <3>2. QED
      BY <2>1, <3>1 DEF Service!vars, AcksOf
  <2>3. CASE got[s][k] = Idle
    <3>1. got' = [got EXCEPT ![s] = [@ EXCEPT ![k] = buf[s][k]]]
      BY <2>3 DEF ReceiveAck
    <3>2. /\ \A x \in Seqs : x # s => got'[x] = got[x]
          /\ \A j \in AckTypes : got'[s][j] = IF j = k THEN buf[s][k] ELSE got[s][j]
      BY <3>1 DEF TypeOK, CallTypes
    <3>3. AcksOf(s) = {j \in AckTypes : got[s][j] # Idle} /\ k \notin AcksOf(s)
      BY <2>1, <2>3 DEF AcksOf
    <3>4. PhaseBar[s] = "pending" /\ AcksBar[s] = AcksOf(s)
      BY <2>1 DEF PhaseBar, PhaseOf, AcksBar
    <3>5. CASE got[s][3 - k] = Idle
      <4>1. UNCHANGED <<status, pc>>
        BY <2>3, <3>5 DEF ReceiveAck
      <4>2. AcksOf(s)' = AcksOf(s) \cup {k}
        BY <2>1, <3>2, <3>3, <4>1 DEF AcksOf
      <4>3. AcksOf(s) \cup {k} # AckTypes
        BY <2>0, <3>3, <3>5 DEF AckTypes
      <4>4. AcksBar' = [AcksBar EXCEPT ![s] = AcksOf(s) \cup {k}]
        <5>1. pc' = [pc EXCEPT ![s] = "waiting"] /\ "waiting" \in Labels
          BY <2>1, <4>1 DEF TypeOK, CallTypes, Labels
        <5>2. QED
          BY <5>1, <4>1, <4>2, <3>2, BarsAt
      <4>5. PhaseBar' = PhaseBar
        BY <4>1 DEF PhaseBar
      <4>6. Service!TakeAck(s, k)
        BY <2>1, <3>3, <3>4, <4>1, <4>3, <4>4, <4>5
        DEF Service!TakeAck, PhaseBar, AcksBar
      <4>7. QED
        BY <4>6 DEF Service!Next, Service!Calls, Seqs
    <3>6. CASE got[s][3 - k] # Idle
      <4>1. /\ pc' = [pc EXCEPT ![s] = "report"]
            /\ status' = [status EXCEPT ![s] = "OK"]
        BY <2>3, <3>6 DEF ReceiveAck
      <4>2. AcksOf(s)' = AckTypes
        BY <4>1 DEF AcksOf, TypeOK, CallTypes
      <4>3. AcksOf(s) \cup {k} = AckTypes
        BY <2>0, <3>3, <3>6 DEF AckTypes
      <4>4. "report" \in Labels /\ PhaseOf("report") = "decided"
        BY DEF Labels, PhaseOf
      <4>5. /\ PhaseBar' = [PhaseBar EXCEPT ![s] = "decided"]
            /\ AcksBar' = [AcksBar EXCEPT ![s] = AcksOf(s) \cup {k}]
        BY <4>1, <4>2, <4>3, <4>4, <3>2, BarsAt DEF TypeOK, CallTypes
      <4>6. Service!TakeAck(s, k)
        BY <2>1, <3>3, <3>4, <4>1, <4>3, <4>5
        DEF Service!TakeAck, PhaseBar, AcksBar
      <4>7. QED
        BY <4>6 DEF Service!Next, Service!Calls, Seqs
    <3>7. QED
      BY <3>5, <3>6
  <2>4. QED
    BY <2>2, <2>3
<1>5. CASE Report(s)
  <2>1. CASE closing = "done"
    <3>1. UNCHANGED <<nextSeqNum, pc, status, got, results, closing>>
      BY <1>5, <2>1 DEF Report
    <3>2. QED
      BY <3>1 DEF Service!vars, AcksOf
  <2>2. CASE closing # "done"
    <3>1. /\ pc[s] = "report" /\ pc' = [pc EXCEPT ![s] = "remove"]
          /\ Len(results) < ResultCap
          /\ results' = Append(results, s)
          /\ UNCHANGED <<nextSeqNum, status, got, closing>>
      BY <1>5, <2>2 DEF Report
    <3>2. "remove" \in Labels /\ PhaseOf("remove") = "reported"
      BY DEF Labels, PhaseOf
    <3>3. AcksOf(s)' = AcksOf(s)
      BY <3>1 DEF AcksOf, TypeOK, CallTypes
    <3>4. /\ PhaseBar' = [PhaseBar EXCEPT ![s] = "reported"]
          /\ AcksBar' = [AcksBar EXCEPT ![s] = AcksOf(s)]
      BY <3>1, <3>2, <3>3, BarsAt
    <3>5. AcksBar' = AcksBar
      BY <3>4 DEF AcksBar
    <3>6. PhaseBar[s] = "decided"
      BY <3>1 DEF PhaseBar, PhaseOf
    <3>7. Service!Report(s)
      BY <2>2, <3>1, <3>4, <3>5, <3>6 DEF Service!Report, PhaseBar, AcksBar
    <3>8. QED
      BY <3>7 DEF Service!Next, Service!Calls, Seqs
  <2>3. QED
    BY <2>1, <2>2
<1>6. CASE RemoveSession(s) \/ FinishRemoval(s)
  <2>1. /\ UNCHANGED <<nextSeqNum, status, results, closing>>
        /\ \/ UNCHANGED <<pc, got>>
           \/ /\ pc[s] \in {"remove", "removing"}
              /\ \E l \in {"removing", "done"} : pc' = [pc EXCEPT ![s] = l]
              /\ \A x \in Seqs : x # s => got'[x] = got[x]
    BY <1>6 DEF RemoveSession, FinishRemoval, Return, TypeOK, CallTypes
  <2>2. CASE UNCHANGED <<pc, got>>
    BY <2>1, <2>2 DEF Service!vars, AcksOf
  <2>3. ASSUME pc[s] \in {"remove", "removing"}, NEW l \in {"removing", "done"},
               pc' = [pc EXCEPT ![s] = l],
               \A x \in Seqs : x # s => got'[x] = got[x]
        PROVE  UNCHANGED Service!vars
    <3>1. AcksOf(s)' = AcksOf(s)
      BY <2>1, <2>3 DEF AcksOf, TypeOK, CallTypes
    <3>2. l \in Labels /\ PhaseOf(l) = PhaseOf(pc[s])
      BY <2>3 DEF Labels, PhaseOf
    <3>3. QED
      BY <2>1, <2>3, <3>1, <3>2, CallStutters
  <2>4. QED
    BY <2>1, <2>2, <2>3
<1>7. QED
  BY <1>1, <1>2, <1>3, <1>4, <1>5, <1>6 DEF CallStep

(* Every step of the prober is a step of the service or none.              *)
LEMMA StepRefines ==
  TypeOK /\ SessionInv /\ DecideInv /\ [Next]_vars
    => [Service!Next]_(Service!vars)
<1> SUFFICES ASSUME TypeOK, SessionInv, DecideInv, [Next]_vars
             PROVE  [Service!Next]_(Service!vars)
  OBVIOUS
<1>1. ASSUME NEW t \in Targets, Begin(t) PROVE Service!Next
  <2>1. PICK s \in Seqs : s = nextSeqNum + 1 /\ pc[s] = "none"
    BY <1>1, NextSeqNum DEF Begin, SessionInv, Fresh
  <2>2. /\ nextSeqNum < MaxSeq
        /\ nextSeqNum' = s
        /\ pc' = [pc EXCEPT ![s] = "indexing"]
        /\ UNCHANGED <<status, got, results, closing>>
    BY <1>1, <2>1 DEF Begin
  <2>4. "indexing" \in Labels /\ PhaseOf("indexing") = "pending"
    BY DEF Labels, PhaseOf
  <2>5. AcksOf(s) = {} /\ AcksOf(s)' = {}
    BY <2>1, <2>2 DEF AcksOf, DecideInv, TypeOK, CallTypes
  <2>6. /\ PhaseBar' = [PhaseBar EXCEPT ![s] = "pending"]
        /\ AcksBar' = [AcksBar EXCEPT ![s] = {}]
    BY <2>1, <2>2, <2>4, <2>5, BarsAt
  <2>7. AcksBar' = AcksBar
    BY <2>1, <2>5, <2>6 DEF AcksBar
  <2>8. Service!Call
    BY <2>1, <2>2, <2>6, <2>7 DEF Service!Call, PhaseBar, AcksBar
  <2>9. QED
    BY <2>8 DEF Service!Next
<1>2. CASE UNCHANGED <<nextSeqNum, pc, status, got, results, closing>>
  BY <1>2 DEF Service!vars, AcksOf
<1>3. CASE ConsumeResult
  <2>1. Service!Read
    BY <1>3 DEF ConsumeResult, Service!Read, AcksOf
  <2>2. QED
    BY <2>1 DEF Service!Next
<1>5. CASE CloseStart
  BY <1>5 DEF CloseStart, Service!vars, AcksOf
<1>6. CASE CloseFinish
  <2>1. /\ closing = "range" /\ closing' = "done"
        /\ UNCHANGED <<nextSeqNum, pc, status, got, results>>
    BY <1>6 DEF CloseFinish
  <2>2. PhaseBar' = PhaseBar /\ AcksBar' = AcksBar
    BY <2>1 DEF PhaseBar, AcksBar, AcksOf
  <2>3. Service!CloseQueue
    BY <2>1, <2>2 DEF Service!CloseQueue, PhaseBar, AcksBar
  <2>4. QED
    BY <2>3 DEF Service!Next
<1>7. QED
  BY <1>1, <1>2, <1>3, <1>5, <1>6, CallRefines
  DEF Next, Step, ClusterProbe, ServiceProbe, CleanupExpired,
      FindSession, DeliverAck, Respond, CloseVisit, vars

(* The prober implements its abstract specification, for all targets,      *)
(* RNICs and bounds: however calls, ACKs, cleanup and Close interleave,    *)
(* each call is decided once, OK with one ACK of each type only, and       *)
(* reported once, to a channel that is open.                               *)
THEOREM Refinement == Spec => ImplementsProbeService
<1>1. Init => Service!Init
  <2> SUFFICES ASSUME Init PROVE Service!Init
    OBVIOUS
  <2>1. \A s \in Seqs : PhaseOf(pc[s]) = "none" /\ AcksOf(s) = {}
    BY DEF Init, PhaseOf, AcksOf
  <2>2. QED
    BY <2>1 DEF Init, Service!Init, Service!Calls, Seqs
<1>2. QED
  BY <1>1, TypeInit, TypeStep, SessionInit, SessionStep, DecideInit,
     DecideStep, StepRefines, PTL
  DEF Spec, ImplementsProbeService, Service!Spec

-----------------------------------------------------------------------------
(* The counters of outcomes and the calls they count.                      *)
OkCalls      == {s \in Seqs : status[s] = "OK"}
TimeoutCalls == {s \in Seqs : status[s] = "TIMEOUT"}
FailedCalls  == {s \in Seqs : status[s] = "ERROR" /\ tgt[s].src \in Queued}
CreatedCalls == {s \in Seqs : pc[s] \notin {"none", "indexing"}}

Counted ==
  /\ stats["SuccessfulProbes"] = Cardinality(OkCalls)
  /\ stats["AckTimeouts"] = Cardinality(TimeoutCalls)
  /\ stats["FailedProbes"] = Cardinality(FailedCalls)
  /\ stats["SessionsCreated"] = Cardinality(CreatedCalls)

(* A call that waits for its ACKs has sent its probe, through a queue.     *)
WaitsQueued == \A s \in Seqs : pc[s] = "waiting" => tgt[s].src \in Queued

(* One more call of a kind is one more in its count.                       *)
LEMMA OneMore ==
  ASSUME NEW C \in SUBSET Seqs, NEW s \in Seqs, s \notin C
  PROVE  Cardinality(C \cup {s}) = Cardinality(C) + 1
<1>1. IsFiniteSet(Seqs)
  BY FS_Interval, BoundsAssumption DEF Seqs
<1>2. IsFiniteSet(C)
  BY <1>1, FS_Subset
<1>3. QED
  BY <1>2, FS_AddElement

(* Nothing is counted at the start.                                        *)
LEMMA CountInit == Init => Counted /\ WaitsQueued
<1> SUFFICES ASSUME Init PROVE Counted /\ WaitsQueued
  OBVIOUS
<1>1. OkCalls = {} /\ TimeoutCalls = {} /\ FailedCalls = {} /\ CreatedCalls = {}
  BY DEF Init, OkCalls, TimeoutCalls, FailedCalls, CreatedCalls
<1>2. Cardinality({}) = 0
  BY FS_EmptySet
<1>3. QED
  BY <1>1, <1>2 DEF Init, Counted, WaitsQueued, Stats

(* A step that decides no call and creates no session counts none.         *)
LEMMA CountsKept ==
  ASSUME Counted, UNCHANGED status,
         \A c \in Stats : stats'[c] = stats[c],
         \A s \in Seqs : status[s] = "ERROR" => tgt'[s] = tgt[s],
         \A s \in Seqs : pc'[s] \in {"none", "indexing"} <=> pc[s] \in {"none", "indexing"}
  PROVE  Counted'
<1>1. /\ OkCalls' = OkCalls /\ TimeoutCalls' = TimeoutCalls
      /\ CreatedCalls' = CreatedCalls
  BY DEF OkCalls, TimeoutCalls, CreatedCalls
<1>2. FailedCalls' = FailedCalls
  BY DEF FailedCalls
<1>3. QED
  BY <1>1, <1>2 DEF Counted, Stats

(* A call is counted once, as it is decided.                               *)
LEMMA CountDecided ==
  ASSUME TypeOK, DecideInv, Counted, NEW s \in Seqs,
         NEW verdict \in {"OK", "TIMEOUT", "ERROR"}, NEW c \in Stats,
         pc[s] \in {"sending", "waiting"},
         pc' = [pc EXCEPT ![s] = "report"],
         status' = [status EXCEPT ![s] = verdict],
         verdict = "OK" => c = "SuccessfulProbes",
         verdict = "TIMEOUT" => c = "AckTimeouts",
         verdict = "ERROR" => c = "FailedProbes" /\ tgt[s].src \in Queued,
         Count(c), UNCHANGED tgt
  PROVE  Counted'
<1> USE DEF TypeOK, CallTypes, NetTypes
<1>1. status[s] = "UNKNOWN"
  BY DEF DecideInv
<1>2. CreatedCalls' = CreatedCalls
  BY DEF CreatedCalls
<1>3. /\ OkCalls' = IF verdict = "OK" THEN OkCalls \cup {s} ELSE OkCalls
      /\ s \notin OkCalls /\ OkCalls \in SUBSET Seqs
  BY <1>1 DEF OkCalls
<1>4. /\ TimeoutCalls' = IF verdict = "TIMEOUT" THEN TimeoutCalls \cup {s}
                                               ELSE TimeoutCalls
      /\ s \notin TimeoutCalls /\ TimeoutCalls \in SUBSET Seqs
  BY <1>1 DEF TimeoutCalls
<1>5. /\ FailedCalls' = IF verdict = "ERROR" THEN FailedCalls \cup {s} ELSE FailedCalls
      /\ s \notin FailedCalls /\ FailedCalls \in SUBSET Seqs
  BY <1>1 DEF FailedCalls
<1>6. \A d \in Stats : stats'[d] = IF d = c THEN stats[d] + 1 ELSE stats[d]
  OBVIOUS
<1>7. CASE verdict = "OK"
  BY <1>2, <1>3, <1>4, <1>5, <1>6, <1>7, OneMore DEF Counted, Stats
<1>8. CASE verdict = "TIMEOUT"
  BY <1>2, <1>3, <1>4, <1>5, <1>6, <1>8, OneMore DEF Counted, Stats
<1>9. CASE verdict = "ERROR"
  BY <1>2, <1>3, <1>4, <1>5, <1>6, <1>9, OneMore DEF Counted, Stats
<1>10. QED
  BY <1>7, <1>8, <1>9

(* A step of a call keeps the counts.                                      *)
LEMMA CountCallStep ==
  ASSUME TypeOK, DecideInv, Counted, WaitsQueued, NEW s \in Seqs, CallStep(s)
  PROVE  Counted' /\ WaitsQueued'
<1> USE DEF TypeOK, CallTypes, NetTypes
<1>0. "FailedProbes" \in Stats /\ "AckTimeouts" \in Stats /\ "SuccessfulProbes" \in Stats
  BY DEF Stats
<1>1. WaitsQueued'
  <2>1. UNCHANGED tgt
    BY DEF CallStep, IndexSession, SendProbe, NoSenderQueue, AckTimeout,
           ReceiveAck, ReceiveClosed, Report, RemoveSession, FinishRemoval
  <2>2. \A x \in Seqs : pc'[x] = "waiting" => pc[x] = "waiting" \/ tgt[x].src \in Queued
    BY DEF CallStep, IndexSession, SendProbe, NoSenderQueue, AckTimeout,
           ReceiveAck, ReceiveClosed, Report, RemoveSession, FinishRemoval, Return
  <2>3. QED
    BY <2>1, <2>2 DEF WaitsQueued
<1>2. CASE IndexSession(s)
  <2>1. /\ pc[s] = "indexing" /\ pc' = [pc EXCEPT ![s] = "sending"]
        /\ UNCHANGED <<tgt, status>> /\ Count("SessionsCreated")
    BY <1>2 DEF IndexSession
  <2>2. /\ CreatedCalls' = CreatedCalls \cup {s}
        /\ s \notin CreatedCalls /\ CreatedCalls \in SUBSET Seqs
    BY <2>1 DEF CreatedCalls
  <2>3. /\ OkCalls' = OkCalls /\ TimeoutCalls' = TimeoutCalls
        /\ FailedCalls' = FailedCalls
    BY <2>1 DEF OkCalls, TimeoutCalls, FailedCalls
  <2>4. Counted'
    BY <2>1, <2>2, <2>3, OneMore DEF Counted, Stats
  <2>5. QED
    BY <1>1, <2>4
<1>3. CASE SendProbe(s)
  <2>1. CASE pc' = [pc EXCEPT ![s] = "waiting"] /\ UNCHANGED <<status, stats>>
    <3>1. pc[s] = "sending" /\ UNCHANGED tgt
      BY <1>3 DEF SendProbe
    <3>2. Counted'
      BY <2>1, <3>1, CountsKept
    <3>3. QED
      BY <1>1, <3>2
  <2>2. CASE /\ pc' = [pc EXCEPT ![s] = "report"] /\ Count("FailedProbes")
             /\ status' = [status EXCEPT ![s] = "ERROR"]
    <3>1. pc[s] = "sending" /\ tgt[s].src \in Queued /\ UNCHANGED tgt
      BY <1>3 DEF SendProbe
    <3>2. Counted'
      BY <1>0, <2>2, <3>1, CountDecided
    <3>3. QED
      BY <1>1, <3>2
  <2>3. QED
    BY <1>3, <2>1, <2>2 DEF SendProbe
<1>4. CASE NoSenderQueue(s)
  <2>1. /\ pc[s] = "sending" /\ pc' = [pc EXCEPT ![s] = "report"]
        /\ status' = [status EXCEPT ![s] = "ERROR"]
        /\ tgt[s].src \notin Queued /\ UNCHANGED <<tgt, stats>>
    BY <1>4 DEF NoSenderQueue
  <2>2. status[s] = "UNKNOWN"
    BY <2>1 DEF DecideInv
  <2>3. OkCalls' = OkCalls /\ TimeoutCalls' = TimeoutCalls
    BY <2>1, <2>2 DEF OkCalls, TimeoutCalls
  <2>4. FailedCalls' = FailedCalls /\ CreatedCalls' = CreatedCalls
    BY <2>1, <2>2 DEF FailedCalls, CreatedCalls
  <2>5. QED
    BY <1>1, <2>1, <2>3, <2>4 DEF Counted
<1>5. CASE AckTimeout(s)
  <2>1. /\ pc[s] = "waiting" /\ pc' = [pc EXCEPT ![s] = "report"]
        /\ status' = [status EXCEPT ![s] = "TIMEOUT"]
        /\ Count("AckTimeouts") /\ UNCHANGED tgt
    BY <1>5 DEF AckTimeout
  <2>2. Counted'
    BY <1>0, <2>1, CountDecided
  <2>3. QED
    BY <1>1, <2>2
<1>6. ASSUME NEW k \in AckTypes, ReceiveClosed(s, k) PROVE Counted' /\ WaitsQueued'
  <2>1. /\ pc[s] = "waiting" /\ pc' = [pc EXCEPT ![s] = "report"]
        /\ status' = [status EXCEPT ![s] = "ERROR"]
        /\ Count("FailedProbes") /\ UNCHANGED tgt
    BY <1>6 DEF ReceiveClosed
  <2>2. tgt[s].src \in Queued
    BY <2>1 DEF WaitsQueued
  <2>3. Counted'
    BY <1>0, <2>1, <2>2, CountDecided
  <2>4. QED
    BY <1>1, <2>3
<1>7. ASSUME NEW k \in AckTypes, ReceiveAck(s, k) PROVE Counted' /\ WaitsQueued'
  <2>1. CASE UNCHANGED <<status, pc, stats>>
    <3>1. UNCHANGED tgt
      BY <1>7 DEF ReceiveAck
    <3>2. Counted'
      BY <2>1, <3>1, CountsKept
    <3>3. QED
      BY <1>1, <3>2
  <2>2. CASE ~UNCHANGED <<status, pc, stats>>
    <3>1. /\ pc[s] = "waiting" /\ pc' = [pc EXCEPT ![s] = "report"]
          /\ status' = [status EXCEPT ![s] = "OK"]
          /\ Count("SuccessfulProbes") /\ UNCHANGED tgt
      BY <1>7, <2>2 DEF ReceiveAck
    <3>2. Counted'
      BY <1>0, <3>1, CountDecided
    <3>3. QED
      BY <1>1, <3>2
  <2>3. QED
    BY <2>1, <2>2
<1>8. CASE Report(s) \/ RemoveSession(s) \/ FinishRemoval(s)
  <2>1. /\ UNCHANGED <<status, stats, tgt>>
        /\ \A x \in Seqs : pc'[x] \in {"none", "indexing"} <=> pc[x] \in {"none", "indexing"}
    BY <1>8 DEF Report, RemoveSession, FinishRemoval, Return
  <2>2. Counted'
    BY <2>1, CountsKept
  <2>3. QED
    BY <1>1, <2>2
<1>9. QED
  BY <1>2, <1>3, <1>4, <1>5, <1>6, <1>7, <1>8 DEF CallStep

(* Every step counts what it decides, and nothing else.                    *)
LEMMA CountStep ==
  TypeOK /\ SessionInv /\ DecideInv /\ Counted /\ WaitsQueued /\ [Next]_vars
    => Counted' /\ WaitsQueued'
<1> SUFFICES ASSUME TypeOK, SessionInv, DecideInv, Counted, WaitsQueued, [Next]_vars
             PROVE  Counted' /\ WaitsQueued'
  OBVIOUS
<1> USE DEF TypeOK, CallTypes, NetTypes
<1>1. ASSUME NEW t \in Targets, Begin(t) PROVE Counted' /\ WaitsQueued'
  <2>1. PICK s \in Seqs : s = nextSeqNum + 1 /\ pc[s] = "none"
    BY <1>1, NextSeqNum DEF Begin, SessionInv, Fresh
  <2>2. /\ pc' = [pc EXCEPT ![s] = "indexing"] /\ tgt' = [tgt EXCEPT ![s] = t]
        /\ UNCHANGED <<status, stats>>
    BY <1>1, <2>1 DEF Begin
  <2>3. status[s] = "UNKNOWN"
    BY <2>1 DEF DecideInv
  <2>4. Counted'
    BY <2>1, <2>2, <2>3, CountsKept
  <2>5. WaitsQueued'
    BY <2>1, <2>2 DEF WaitsQueued
  <2>6. QED
    BY <2>4, <2>5
<1>2. CASE UNCHANGED <<pc, status, tgt, stats>>
  BY <1>2, CountsKept DEF WaitsQueued
<1>4. QED
  BY <1>1, <1>2, CountCallStep
  DEF Next, Step, ClusterProbe, ServiceProbe, CleanupExpired,
      FindSession, DeliverAck, Respond, ConsumeResult, CloseStart,
      CloseVisit, CloseFinish, vars

(* The counters of the diagnostics agree with the results, however many    *)
(* calls run at once: none is missed, counted twice or under two outcomes. *)
THEOREM StatsCorrect == Spec => []StatsMatchResults
<1>1. Counted => StatsMatchResults
  BY DEF Counted, StatsMatchResults, OkCalls, TimeoutCalls, FailedCalls, CreatedCalls
<1>2. QED
  BY <1>1, TypeInit, TypeStep, SessionInit, SessionStep, DecideInit, DecideStep,
     CountInit, CountStep, PTL DEF Spec

=============================================================================
