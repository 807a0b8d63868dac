------------------------------- MODULE Prober -------------------------------
(***************************************************************************)
(* The prober of an agent (internal/probe/prober.go): concurrent           *)
(* ProbeTarget calls, the session table they share with the ACK handler    *)
(* that the CQ pollers call back, the session cleanup loop and Close,      *)
(* together with the responder loops of the probed agents and the          *)
(* unreliable datagrams between them.                                      *)
(*                                                                         *)
(* A call of ProbeTarget is identified by the sequence number it draws,    *)
(* which is also the distinguishing part of its session key.  A packet     *)
(* is abstracted to the fields by which the code routes it, a timestamp    *)
(* to the ACK that it is taken from.                                       *)
(***************************************************************************)
EXTENDS Integers, Sequences, FiniteSets

CONSTANTS
  Targets,          \* the PingTargets the agent is asked to probe
  Gids,             \* GIDs of the probed RNICs
  Alive,            \* those whose agent runs and answers probes
  Rnics,            \* local RNICs, one sender queue and one CQ poller each
  Queued,           \* local RNICs whose sender UDQueue was created
  CarriesFlowLabel, \* the GRH of a received packet has a flow label (IPv6)
  NoTarget,
  MaxSeq,           \* bound: ProbeTarget calls in a behaviour
  MayStop,          \* bound: whether a behaviour may include the shutdown
  ResultCap         \* probeResultChanBufferSize

(* A target: gid is PingTarget.GID, dst the GID the packet really goes to  *)
(* (ServiceFlowTuple.DstGID for a service flow), src the local RNIC.       *)
ASSUME TargetsAssumption ==
  /\ Targets \subseteq [gid : Gids, dst : Gids, label : Nat, src : Rnics,
                        service : BOOLEAN]
  /\ NoTarget \notin Targets
ASSUME BoundsAssumption ==
  /\ MaxSeq \in Nat
  /\ ResultCap \in Nat \ {0}
  /\ CarriesFlowLabel \in BOOLEAN
  /\ MayStop \in BOOLEAN
  /\ Queued \subseteq Rnics
  /\ Alive \subseteq Gids

VARIABLES
  nextSeqNum,    \* Prober.nextSeqNum
  tgt,           \* the target of each call
  pc,            \* where each call of ProbeTarget stands
  status,        \* ProbeResult.Status of each call
  sessions,      \* Prober.sessions: calls whose session is in the map
  seqNumIndex,   \* Prober.seqNumIndex
  closed,        \* sessions whose closed, Ack1Chan, Ack2Chan are closed
  removal,       \* progress of the removeSession that took the session out
  torn,          \* history: sessions taken out between addSession's stores
  buf,           \* Ack1Chan and Ack2Chan: the ACK buffered, by its seqNum
  got,           \* ack1Event and ack2Event of the waiting call
  stats,         \* Prober.stats
  handler,       \* the ACK each CQ poller is dispatching
  wire,          \* datagrams in flight
  results,       \* Prober.probeResults
  closing,       \* progress of Prober.Close; done: probeResults is closed
  rangedTo,      \* the last call whose session Close's Range must visit
  crashed        \* the panic that ended the process

callVars    == <<nextSeqNum, tgt, pc, status, got>>
tableVars   == <<sessions, seqNumIndex, closed, removal, torn, buf>>
closeVars   == <<closing, rangedTo>>
vars == <<callVars, tableVars, wire, results, closeVars,
          stats, handler, crashed>>

Seqs     == 1..MaxSeq
AckTypes == 1..2
Idle     == 0
SeqsOrIdle  == Seqs \cup {Idle}
TypesOrIdle == AckTypes \cup {Idle}

NoEvents == [k \in AckTypes |-> Idle]
NoAck    == [seq |-> Idle, type |-> Idle, session |-> Idle]

Packets == [kind : {"probe", "ack"}, seq : Seqs, type : TypesOrIdle]
Probe(s)  == [kind |-> "probe", seq |-> s, type |-> Idle]
Ack(s, k) == [kind |-> "ack", seq |-> s, type |-> k]

(* The counters of outcomes; those of how a session was found and of       *)
(* cleanups are left out.                                                  *)
Stats == {"SessionsCreated", "AckTimeouts", "SuccessfulProbes", "FailedProbes"}
Count(c) == stats' = [stats EXCEPT ![c] = @ + 1]

Panics == {"no", "send on closed AckChan", "send on closed probeResults"}

Init ==
  /\ nextSeqNum = 0
  /\ tgt = [s \in Seqs |-> NoTarget]
  /\ pc = [s \in Seqs |-> "none"]
  /\ status = [s \in Seqs |-> "UNKNOWN"]
  /\ sessions = {}
  /\ seqNumIndex = {}
  /\ closed = {}
  /\ removal = [s \in Seqs |-> "no"]
  /\ torn = {}
  /\ buf = [s \in Seqs |-> NoEvents]
  /\ got = [s \in Seqs |-> NoEvents]
  /\ stats = [c \in Stats |-> 0]
  /\ handler = [r \in Rnics |-> NoAck]
  /\ wire = {}
  /\ results = <<>>
  /\ closing = "no"
  /\ rangedTo = 0
  /\ crashed = "no"

-----------------------------------------------------------------------------
(* ProbeTarget, one action per interaction with the shared state.          *)

Goto(s, l) == pc' = [pc EXCEPT ![s] = l]

(* Draw a sequence number and store the session; the index follows later.  *)
Begin(t) ==
  /\ nextSeqNum < MaxSeq
  /\ LET s == nextSeqNum + 1
     IN  /\ nextSeqNum' = s
         /\ tgt' = [tgt EXCEPT ![s] = t]
         /\ Goto(s, "indexing")
         /\ sessions' = sessions \cup {s}
  /\ UNCHANGED <<status, got, seqNumIndex, closed, removal, torn, buf,
                 stats, handler, wire, results, closeVars, crashed>>

ClusterWorkerIdle ==
  \A s \in Seqs : pc[s] \notin {"none", "done"} => tgt[s].service

(* processNextProbe: the one worker of the cluster monitor probes its      *)
(* targets one after the other.  Agent.Stop stops it before it closes the  *)
(* prober, unless Stop overtakes Start and the worker begins behind it.    *)
ClusterProbe(t) ==
  /\ ~t.service
  /\ t.src \in Queued
  /\ ClusterWorkerIdle
  /\ Begin(t)

(* runServiceProbingLoop launches a goroutine per service flow at every    *)
(* tick until Close; the goroutine may begin its call at any time, after   *)
(* Close too, and there is no limit to how many have not yet begun.        *)
ServiceProbe(t) ==
  /\ t.service
  /\ Begin(t)

IndexSession(s) ==
  /\ pc[s] = "indexing"
  /\ seqNumIndex' = seqNumIndex \cup {s}
  /\ Count("SessionsCreated")
  /\ Goto(s, "sending")
  /\ UNCHANGED <<nextSeqNum, tgt, status, got, sessions, closed, removal,
                 torn, buf, handler, wire, results, closeVars,
                 crashed>>

(* SendProbePacket: the call may see the completion of the send, an error  *)
(* or its deadline, and in each case the packet may have left.  A packet   *)
(* that is lost, or that never left, is one that stays on the wire.        *)
SendProbe(s) ==
  /\ pc[s] = "sending"
  /\ tgt[s].src \in Queued
  /\ wire' = wire \cup {Probe(s)}
  /\ \/ /\ Goto(s, "waiting")
        /\ UNCHANGED <<status, stats>>
     \/ /\ status' = [status EXCEPT ![s] = "ERROR"]
        /\ Count("FailedProbes")
        /\ Goto(s, "report")
  /\ UNCHANGED <<nextSeqNum, tgt, got, tableVars, handler,
                 results, closeVars, crashed>>

NoSenderQueue(s) ==
  /\ pc[s] = "sending"
  /\ tgt[s].src \notin Queued
  /\ status' = [status EXCEPT ![s] = "ERROR"]
  /\ Goto(s, "report")
  /\ UNCHANGED <<nextSeqNum, tgt, got, tableVars, wire, stats, handler,
                 results, closeVars, crashed>>

(* Mutant: a timed out probe is counted as a failed one.                   *)
AckTimeoutMiscounted(s) ==
  /\ pc[s] = "waiting"
  /\ status' = [status EXCEPT ![s] = "TIMEOUT"]
  /\ Count("FailedProbes")
  /\ Goto(s, "report")
  /\ UNCHANGED <<nextSeqNum, tgt, got, tableVars, wire, handler,
                 results, closeVars, crashed>>

(* Mutant: the wait loop has no deadline.                                  *)
NoAckTimeout(s) ==
  /\ pc[s] = "waiting"
  /\ UNCHANGED vars

(* The select of the wait loop: ctx.Done, ...                              *)
AckTimeout(s) ==
  /\ pc[s] = "waiting"
  /\ status' = [status EXCEPT ![s] = "TIMEOUT"]
  /\ Count("AckTimeouts")
  /\ Goto(s, "report")
  /\ UNCHANGED <<nextSeqNum, tgt, got, tableVars, wire, handler,
                 results, closeVars, crashed>>

(* Mutant: a call that one ACK satisfies.                                 *)
ReceiveOneAck(s, k) ==
  /\ pc[s] = "waiting"
  /\ buf[s][k] # Idle
  /\ buf' = [buf EXCEPT ![s] = [@ EXCEPT ![k] = Idle]]
  /\ got' = [got EXCEPT ![s] = [@ EXCEPT ![k] = buf[s][k]]]
  /\ status' = [status EXCEPT ![s] = "OK"]
  /\ Count("SuccessfulProbes")
  /\ Goto(s, "report")
  /\ UNCHANGED <<nextSeqNum, tgt, sessions, seqNumIndex, closed, removal,
                 torn, wire, handler, results, closeVars,
                 crashed>>

(* ... an event in Ack1Chan or Ack2Chan (a second one of a type is         *)
(* ignored), the last of which ends the loop with an OK result, ...        *)
ReceiveAck(s, k) ==
  /\ pc[s] = "waiting"
  /\ buf[s][k] # Idle
  /\ buf' = [buf EXCEPT ![s] = [@ EXCEPT ![k] = Idle]]
  /\ IF got[s][k] # Idle
     THEN UNCHANGED <<got, status, pc, stats>>
     ELSE /\ got' = [got EXCEPT ![s] = [@ EXCEPT ![k] = buf[s][k]]]
          /\ IF got[s][3 - k] = Idle
             THEN UNCHANGED <<status, pc, stats>>
             ELSE /\ status' = [status EXCEPT ![s] = "OK"]
                  /\ Count("SuccessfulProbes")
                  /\ Goto(s, "report")
  /\ UNCHANGED <<nextSeqNum, tgt, sessions, seqNumIndex, closed, removal,
                 torn, wire, handler, results, closeVars,
                 crashed>>

(* ... or a channel that is closed and empty.                              *)
ReceiveClosed(s, k) ==
  /\ pc[s] = "waiting"
  /\ s \in closed
  /\ buf[s][k] = Idle
  /\ status' = [status EXCEPT ![s] = "ERROR"]
  /\ Count("FailedProbes")
  /\ Goto(s, "report")
  /\ UNCHANGED <<nextSeqNum, tgt, got, tableVars, wire, handler,
                 results, closeVars, crashed>>

(* p.probeResults <- result blocks while the channel is full.              *)
Report(s) ==
  /\ pc[s] = "report"
  /\ \/ /\ closing # "done"
        /\ Len(results) < ResultCap
        /\ results' = Append(results, s)
        /\ Goto(s, "remove")
        /\ UNCHANGED crashed
     \/ /\ closing = "done"
        /\ crashed' = "send on closed probeResults"
        /\ UNCHANGED <<results, pc>>
  /\ UNCHANGED <<nextSeqNum, tgt, status, got, tableVars, wire, stats,
                 handler, closeVars>>

-----------------------------------------------------------------------------
(* removeSession: LoadAndDelete decides who removes the session; that one  *)
(* then deletes the index entry and closes the channels under closeOnce.   *)

TakeOut(s) ==
  /\ sessions' = sessions \ {s}
  /\ torn' = IF pc[s] = "indexing" THEN torn \cup {s} ELSE torn

LoadAndDelete(s) ==
  /\ TakeOut(s)
  /\ removal' = [removal EXCEPT ![s] = "begun"]

(* ProbeTarget returns: its variables are gone, and so is the session.     *)
Return(s) ==
  /\ Goto(s, "done")
  /\ got' = [got EXCEPT ![s] = NoEvents]
  /\ buf' = [buf EXCEPT ![s] = NoEvents]

(* The deferred removeSession of ProbeTarget.                              *)
RemoveSession(s) ==
  /\ pc[s] = "remove"
  /\ \/ /\ s \in sessions
        /\ LoadAndDelete(s)
        /\ Goto(s, "removing")
        /\ UNCHANGED <<got, buf>>
     \/ /\ s \notin sessions
        /\ Return(s)
        /\ UNCHANGED <<sessions, torn, removal>>
  /\ UNCHANGED <<nextSeqNum, tgt, status, seqNumIndex, closed, wire, stats,
                 handler, results, closeVars, crashed>>

(* Mutant: removeSession forgets the index.                                *)
KeepIndex(s) == UNCHANGED seqNumIndex

DeleteIndex(s) == seqNumIndex' = seqNumIndex \ {s}

(* sync.Once makes a second close of the channels do nothing.              *)
CloseOnce(s) == closed' = closed \cup {s}

(* The rest of a removeSession, one step because nobody can reach the      *)
(* channels by an index entry whose session is not in the map.             *)
FinishRemoval(s) ==
  /\ removal[s] = "begun"
  /\ DeleteIndex(s)
  /\ CloseOnce(s)
  /\ removal' = [removal EXCEPT ![s] = "done"]
  /\ \/ /\ pc[s] = "removing"
        /\ Return(s)
     \/ /\ pc[s] # "removing"
        /\ UNCHANGED <<pc, got, buf>>
  /\ UNCHANGED <<nextSeqNum, tgt, status, sessions, torn, wire, stats,
                 handler, results, closeVars, crashed>>

(* cleanupExpiredSessions, which goes by the age of the session alone: a   *)
(* call may have been held up anywhere for longer than sessionTimeout, in  *)
(* the send of its result to a full channel or by the scheduler.           *)
CleanupExpired(s) ==
  /\ closing = "no"
  /\ s \in sessions
  /\ LoadAndDelete(s)
  /\ UNCHANGED <<callVars, seqNumIndex, closed, buf, wire, stats,
                 handler, results, closeVars, crashed>>

-----------------------------------------------------------------------------
(* HandleIncomingRDMAPacket, called back by the CQ poller of a sender      *)
(* queue: first the search for a session, then the send to its channel.    *)

AckLabel(t) == IF CarriesFlowLabel THEN t.label ELSE 0

(* Mutant: the search by flow label takes the first session it meets.      *)
SessionsByAnyLabel(label) == sessions

SessionsByFlowLabel(label) == {s \in sessions : tgt[s].label = label}

(* Mutant: the search by packet info compares the GID only.                *)
SessionsBySourceGid(seqNum, sourceGid) ==
  {s \in sessions : tgt[s].gid = sourceGid}

(* findSessionByPacketInfo: the index and the linear search behind it      *)
(* accept the same session.                                                *)
SessionsByPacketInfo(seqNum, sourceGid) ==
  {s \in sessions : s = seqNum /\ tgt[s].gid = sourceGid}

FindSession(r) ==
  /\ handler[r].session = Idle
  /\ \E m \in wire :
       LET t       == tgt[m.seq]
           byLabel == SessionsByFlowLabel(AckLabel(t))
           bySeq   == SessionsByPacketInfo(m.seq, t.dst)
           Take(s) == handler' = [handler EXCEPT
                        ![r] = [seq |-> m.seq, type |-> m.type, session |-> s]]
       IN  /\ m.kind = "ack"
           /\ t.src = r
           /\ wire' = wire \ {m}
           /\ \/ /\ \E s \in byLabel : Take(s)
              \/ /\ byLabel = {}
                 /\ \E s \in bySeq : Take(s)
              \/ /\ byLabel = {}
                 /\ bySeq = {}
                 /\ UNCHANGED handler
  /\ UNCHANGED <<callVars, tableVars, stats, results,
                 closeVars, crashed>>

(* select { <-session.closed; targetChan <- event; default }: a send to a  *)
(* closed channel counts as ready, and choosing it panics.                 *)
DeliverAck(r) ==
  LET h == handler[r]
      s == h.session
      k == h.type
  IN  /\ s # Idle
      /\ handler' = [handler EXCEPT ![r] = NoAck]
      /\ \/ /\ s \notin closed
            /\ buf[s][k] = Idle
            /\ buf' = [buf EXCEPT ![s] = [@ EXCEPT ![k] = h.seq]]
            /\ UNCHANGED crashed
         \/ /\ s \in closed \/ buf[s][k] # Idle
            /\ UNCHANGED <<buf, crashed>>
         \/ /\ s \in closed
            /\ crashed' = "send on closed AckChan"
            /\ UNCHANGED buf
      /\ UNCHANGED <<callVars, sessions, seqNumIndex, closed, removal, torn,
                     wire, stats, results, closeVars>>

-----------------------------------------------------------------------------
(* responderLoop of the agent that owns the probed RNIC: the first ACK,    *)
(* then, if its completion was seen in time, the second.  An ACK that is   *)
(* not sent is one that is lost, and the wire keeps no order, so that the  *)
(* two sends are one step here.                                            *)
Respond(g) ==
  /\ \E m \in wire :
       /\ m.kind = "probe"
       /\ tgt[m.seq].dst = g
       /\ wire' = (wire \ {m}) \cup {Ack(m.seq, 1), Ack(m.seq, 2)}
  /\ UNCHANGED <<callVars, tableVars, stats, handler, results,
                 closeVars, crashed>>

-----------------------------------------------------------------------------
(* Agent.resultHandler and Prober.Close.                                   *)

ConsumeResult ==
  /\ results # <<>>
  /\ results' = Tail(results)
  /\ UNCHANGED <<callVars, tableVars, wire, stats, handler, 
                 closeVars, crashed>>

(* Prober.Close, once wg.Wait has seen the loops end, and with them a      *)
(* cleanup under way.  The goroutines of service probes are in no wait     *)
(* group, and the result handler need not have ended yet.                  *)
CloseStart ==
  /\ MayStop
  /\ closing = "no"
  /\ \A s \in Seqs : removal[s] = "begun" => pc[s] = "removing"
  /\ closing' = "range"
  /\ rangedTo' = nextSeqNum
  /\ UNCHANGED <<callVars, tableVars, wire, stats, handler, results,
                 crashed>>

(* The Range of Close at a session: since closeOnce and Delete do nothing  *)
(* to a session that its call removes meanwhile, this is one step.         *)
CloseVisit(s) ==
  /\ closing = "range"
  /\ s \in sessions
  /\ CloseOnce(s)
  /\ TakeOut(s)
  /\ UNCHANGED <<callVars, seqNumIndex, removal, buf, wire, stats,
                 handler, results, closeVars, crashed>>

(* sync.Map.Range visits every key that was there when it began and may    *)
(* miss those stored meanwhile, in the table and then in the index.        *)
CloseFinish ==
  /\ closing = "range"
  /\ \A s \in sessions : s > rangedTo
  /\ \E missed \in SUBSET {s \in seqNumIndex : s > rangedTo} :
       seqNumIndex' = missed
  /\ closing' = "done"
  /\ UNCHANGED <<callVars, sessions, closed, removal, torn, buf, wire, stats,
                 handler, results, rangedTo, crashed>>

-----------------------------------------------------------------------------
CallStep(s) ==
  \/ IndexSession(s)
  \/ SendProbe(s)
  \/ NoSenderQueue(s)
  \/ AckTimeout(s)
  \/ \E k \in AckTypes : ReceiveAck(s, k)
  \/ \E k \in AckTypes : ReceiveClosed(s, k)
  \/ Report(s)
  \/ RemoveSession(s)
  \/ FinishRemoval(s)

Step ==
  \/ \E t \in Targets : ClusterProbe(t)
  \/ \E t \in Targets : ServiceProbe(t)
  \/ \E s \in Seqs : CallStep(s)
  \/ \E s \in Seqs : CleanupExpired(s)
  \/ \E r \in Rnics : FindSession(r)
  \/ \E r \in Rnics : DeliverAck(r)
  \/ \E g \in Alive : Respond(g)
  \/ ConsumeResult
  \/ CloseStart
  \/ \E s \in Seqs : CloseVisit(s)
  \/ CloseFinish

Next == crashed = "no" /\ Step

(* Goroutines are scheduled fairly and contexts expire.  The result        *)
(* handler reads on while the agent is not being stopped; once it is, the  *)
(* handler may end at any time.                                            *)
Fairness ==
  /\ \A s \in Seqs : WF_vars(crashed = "no" /\ CallStep(s))
  /\ WF_vars(crashed = "no" /\ closing = "no" /\ ConsumeResult)

Spec == Init /\ [][Next]_vars /\ Fairness

-----------------------------------------------------------------------------
Labels == {"none", "indexing", "sending", "waiting", "report", "remove",
           "removing", "done"}

CallTypes ==
  /\ nextSeqNum \in 0..MaxSeq
  /\ tgt \in [Seqs -> Targets \cup {NoTarget}]
  /\ pc \in [Seqs -> Labels]
  /\ status \in [Seqs -> {"UNKNOWN", "OK", "TIMEOUT", "ERROR"}]
  /\ got \in [Seqs -> [AckTypes -> SeqsOrIdle]]

TableTypes ==
  /\ sessions \subseteq Seqs
  /\ seqNumIndex \subseteq Seqs
  /\ closed \subseteq Seqs
  /\ removal \in [Seqs -> {"no", "begun", "done"}]
  /\ torn \subseteq Seqs
  /\ buf \in [Seqs -> [AckTypes -> SeqsOrIdle]]

NetTypes ==
  /\ handler \in [Rnics -> [seq : SeqsOrIdle, type : TypesOrIdle,
                          session : SeqsOrIdle]]
  /\ wire \subseteq Packets
  /\ stats \in [Stats -> Nat]

ResultTypes ==
  /\ results \in Seq(Seqs)
  /\ Len(results) <= ResultCap
  /\ closing \in {"no", "range", "done"}
  /\ rangedTo \in 0..MaxSeq
  /\ crashed \in Panics

(* Every variable of the prober has its type; in particular a channel      *)
(* never holds more than its capacity.                                     *)
TypeOK == CallTypes /\ TableTypes /\ NetTypes /\ ResultTypes

(* No leak: a session in the map belongs to a call that has not returned,  *)
(* and an index entry to such a session or to one being taken out          *)
(* (addSession, removeSession), whatever cleanup and Close do, with two    *)
(* exceptions: a session that they took out between the two stores of      *)
(* addSession, and an entry stored while Close was ranging over the index. *)
NoSessionLeak ==
  /\ \A s \in sessions :
       pc[s] \in {"indexing", "sending", "waiting", "report", "remove"}
  /\ \A s \in seqNumIndex :
       \/ s \in sessions
       \/ removal[s] = "begun"
       \/ s \in torn
       \/ closing = "range"
       \/ closing = "done" /\ s > rangedTo

(* q is a probe whose ACKs HandleIncomingRDMAPacket may give to session s: *)
(* that of s itself or one with a matching flow label.                     *)
MayAnswer(q, s) == q = s \/ AckLabel(tgt[q]) = tgt[s].label

(* Every ACK that a call has taken T3 or T4 from answers its own probe or  *)
(* a probe whose flow label, as received, equals that of its session.      *)
AckProvenance ==
  \A s \in Seqs, k \in AckTypes :
    got[s][k] # Idle => MayAnswer(got[s][k], s)

(* The ACKs that a call takes its timestamps from are those of its own     *)
(* probe (HandleIncomingRDMAPacket dispatches to the correct session).     *)
OwnAcksOnly ==
  \A s \in Seqs, k \in AckTypes : got[s][k] \in {Idle, s}

(* The diagnostic counters agree with the results: each call is counted    *)
(* under its outcome, except that an ERROR for want of a sender queue is   *)
(* not counted as failed.                                                  *)
StatsMatchResults ==
  LET Calls(P(_)) == Cardinality({s \in Seqs : P(s)})
  IN  /\ stats["SuccessfulProbes"] = Calls(LAMBDA s : status[s] = "OK")
      /\ stats["AckTimeouts"] = Calls(LAMBDA s : status[s] = "TIMEOUT")
      /\ stats["FailedProbes"] =
           Calls(LAMBDA s : status[s] = "ERROR" /\ tgt[s].src \in Queued)
      /\ stats["SessionsCreated"] =
           Calls(LAMBDA s : pc[s] \notin {"none", "indexing"})

(* Every call of ProbeTarget returns, having reported its result, unless   *)
(* the process panics or the agent is being stopped, and with it the       *)
(* handler that reads the results.                                         *)
EveryProbeEnds ==
  \A s \in Seqs :
    pc[s] = "indexing" ~> pc[s] = "done" \/ crashed # "no" \/ closing # "no"

-----------------------------------------------------------------------------
(* The prober as the service it implements.                                *)

PhaseOf(label) ==
  CASE label = "none" -> "none"
    [] label \in {"indexing", "sending", "waiting"} -> "pending"
    [] label = "report" -> "decided"
    [] OTHER -> "reported"

(* The types of ACK a call has taken; those of a call that gave up are     *)
(* forgotten.                                                              *)
AcksOf(s) ==
  CASE pc[s] = "waiting" -> {k \in AckTypes : got[s][k] # Idle}
    [] pc[s] # "waiting" /\ status[s] = "OK" -> AckTypes
    [] OTHER -> {}

Service == INSTANCE ProbeService WITH
  MaxCalls  <- MaxSeq,
  calls     <- nextSeqNum,
  phase     <- [s \in Seqs |-> PhaseOf(pc[s])],
  acks      <- [s \in Seqs |-> AcksOf(s)],
  outcome   <- status,
  queue     <- results,
  queueOpen <- (closing # "done")

(* Whatever the wire, the cleanup loop and Close do, a call is decided     *)
(* once, OK with one ACK of each type, and reported once, in an order that *)
(* the reader sees, and never to a closed channel.                         *)
ImplementsProbeService == Service!Spec

=============================================================================
