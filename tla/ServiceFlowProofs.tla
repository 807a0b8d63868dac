------------------------- MODULE ServiceFlowProofs -------------------------
(***************************************************************************)
(* Proofs about service tracing, for any devices, queue pairs, clocks and  *)
(* capacities: its types, that the prober's list is the table of flows,    *)
(* which service probes there can be, that Stop leaves everything alone,   *)
(* that a host whose clock is more than an hour past 1970 traces nothing   *)
(* at all, and that the table is exact for the queue pairs of which no     *)
(* event went wrong.                                                       *)
(***************************************************************************)
EXTENDS ServiceFlow, SequenceTheorems, TLAPS

LEMMA AppendType ==
  ASSUME NEW S, NEW q \in Seq(S), NEW e \in S
  PROVE  Append(q, e) \in Seq(S)
  OBVIOUS

LEMMA TailType ==
  ASSUME NEW S, NEW q \in Seq(S), q # <<>>
  PROVE  Tail(q) \in Seq(S) /\ Head(q) \in S
  OBVIOUS

(* What a goroutine holds when it has got that far, and that the loop has  *)
(* ended when ServiceFlowMonitor.Stop has returned; the prober's list is   *)
(* the table until a notification is due.                                  *)
Carries ==
  /\ proc.at = "send" => proc.event \in Events
  /\ monitor.at = "check" => monitor.event \in Events
  /\ monitor.at = "lookup" => monitor.flow \in Flows
  /\ monitor.at # "notify" => targets = activeFlows
  /\ sfm = "stopped" => monitor.at = "ended"

Inv == TypeOK /\ Carries

LEMMA IdleType == Idle.event \in Events \cup {NoEvent} /\ Idle.time \in Times
                  /\ Idle.flow \in Flows \cup {NoFlow} /\ Idle.at = "idle"
  BY TimeAssumption DEF Idle, NoTime, Times

(* A monitor record is what Idle EXCEPT its changed fields is.             *)
MonitorAt == {"idle", "check", "lookup", "notify", "ended"}
Monitors == [at : MonitorAt, event : Events \cup {NoEvent}, time : Times,
             flow : Flows \cup {NoFlow}]

LEMMA MonitorFacts ==
  /\ Idle \in Monitors
  /\ \A l \in MonitorAt : [Idle EXCEPT !.at = l] \in Monitors
                          /\ [Idle EXCEPT !.at = l].at = l
  /\ \A m \in Monitors, l \in MonitorAt :
       [m EXCEPT !.at = l] \in Monitors /\ [m EXCEPT !.at = l].at = l
  /\ \A e \in Events, t \in Times :
       LET m == [Idle EXCEPT !.at = "check", !.event = e, !.time = t]
       IN  m \in Monitors /\ m.at = "check" /\ m.event = e
  /\ \A f \in Flows :
       LET m == [Idle EXCEPT !.at = "lookup", !.flow = f]
       IN  m \in Monitors /\ m.at = "lookup" /\ m.flow = f
<1>1. Idle \in Monitors
  BY IdleType, TimeAssumption DEF Idle, Monitors, MonitorAt
<1> QED BY <1>1 DEF Monitors, MonitorAt

LEMMA InitInv == Init => Inv
<1> SUFFICES ASSUME Init PROVE Inv
  OBVIOUS
<1>1. ring \in Seq(Events) /\ eventCh \in Seq(Events)
  BY EmptySeq DEF Init
<1>2. monitor \in Monitors /\ monitor.at = "idle"
  BY MonitorFacts, IdleType DEF Init
<1>c. ctxDone \in BOOLEAN
  BY Zenon DEF Init
<1>3. TypeOK
  BY <1>1, <1>2, <1>c, HooksAssumption, BoundsAssumption
  DEF Init, TypeOK, Monitors, MonitorAt
<1> QED BY <1>2, <1>3 DEF Init, Inv, Carries

-----------------------------------------------------------------------------
(* The services and the kernel: only kernelVars and tainted change.        *)

LEMMA CallType ==
  ASSUME TypeOK, NEW fault \in BOOLEAN, Call(fault)
  PROVE  ops' \in 0..MaxOps /\ faults' \in 0..MaxFaults
<1>1. ops \in 0..MaxOps /\ faults \in 0..MaxFaults /\ MaxOps \in Nat
      /\ MaxFaults \in Nat
  BY BoundsAssumption DEF TypeOK
<1>2. ops' \in 0..MaxOps
  BY <1>1 DEF Call
<1>3. CASE fault
  BY <1>1, <1>2, <1>3 DEF Call
<1>4. CASE ~fault
  BY <1>1, <1>2, <1>4 DEF Call
<1> QED BY <1>3, <1>4

LEMMA SubmitType ==
  ASSUME TypeOK, NEW kind \in {"modify", "destroy"}, NEW q \in Qps,
         NEW gid \in Devices \cup {ZeroGid}, NEW dst \in Dests,
         NEW truthful, Submit(kind, q, gid, dst, truthful)
  PROVE  ring' \in Seq(Events) /\ tainted' \subseteq Qps
<1> DEFINE e == [kind |-> kind, qp |-> q, src |-> gid, dst |-> dst]
<1>1. e \in Events
  BY DEF Events
<1>2. Append(ring, e) \in Seq(Events)
  BY <1>1, AppendType DEF TypeOK
<1>3. ring' \in {ring, Append(ring, e)} /\ tainted' \in {tainted, tainted \cup {q}}
  BY DEF Submit
<1> QED BY <1>2, <1>3 DEF TypeOK

LEMMA KernelStep ==
  ASSUME Inv,
         ops' \in 0..MaxOps, faults' \in 0..MaxFaults,
         qp' \in [Qps -> {"none", "new", "ready"} \cup Dests],
         left' \subseteq Qps,
         ring' \in Seq(Events), tainted' \subseteq Qps,
         UNCHANGED <<hooks, procVars, stopVars, flowVars, crashed>>
  PROVE  Inv'
<1>1. ctxDone' \in BOOLEAN
  BY Zenon DEF Inv, TypeOK, procVars
<1>2. Carries'
  BY DEF Inv, Carries, procVars, stopVars, flowVars
<1>3. TypeOK'
  BY <1>1, ZenonT(60) DEF Inv, TypeOK, procVars, stopVars, flowVars
<1> QED BY <1>2, <1>3 DEF Inv

LEMMA ServicesInv == Inv /\ Services => Inv'
<1> SUFFICES ASSUME Inv, Services PROVE Inv'
  OBVIOUS
<1>t. TypeOK
  BY DEF Inv
<1>1. ASSUME NEW q \in Qps, CreateQP(q) PROVE Inv'
  <2>1. qp' \in [Qps -> {"none", "new", "ready"} \cup Dests]
    BY <1>1, <1>t DEF CreateQP, TypeOK
  <2> QED BY <2>1, <1>1, <1>t, KernelStep DEF CreateQP, TypeOK
<1>2. ASSUME NEW q \in Qps, NEW dst \in DestsOf[q], ModifyQP(q, dst)
      PROVE  Inv'
  <2>1. dst \in Dests /\ q[1] \in Devices
    BY QpsAssumption DEF Dests
  <2>2. PICK gid \in ReadGids(q), ok \in BOOLEAN :
          /\ Call(gid = ZeroGid \/ ~ok)
          /\ qp' = IF ok THEN [qp EXCEPT ![q] = dst] ELSE qp
          /\ left' = IF ok THEN left \ {q} ELSE left
          /\ Submit("modify", q, gid, dst,
                    gid # ZeroGid /\ ok /\ qp[q] \in {"ready", dst})
    BY <1>2, Zenon DEF ModifyQP
  <2>3. gid \in Devices \cup {ZeroGid}
    BY <2>1 DEF ReadGids
  <2>4. ops' \in 0..MaxOps /\ faults' \in 0..MaxFaults
    BY <2>2, <1>t, CallType
  <2>5. ring' \in Seq(Events) /\ tainted' \subseteq Qps
    BY <2>1, <2>2, <2>3, <1>t, SubmitType
  <2>6. qp' \in [Qps -> {"none", "new", "ready"} \cup Dests]
    BY <2>1, <2>2, <1>t DEF TypeOK
  <2>7. left' \subseteq Qps
    BY <2>2, <1>t DEF TypeOK
  <2> QED BY <2>4, <2>5, <2>6, <2>7, <1>2, KernelStep DEF ModifyQP
<1>3. ASSUME NEW q \in Qps, DestroyQP(q) PROVE Inv'
  <2>1. NoDst \in Dests /\ q[1] \in Devices
    BY QpsAssumption DEF Dests
  <2>2. PICK gid \in ReadGids(q), ok \in BOOLEAN :
          /\ Call(gid = ZeroGid \/ ~ok)
          /\ qp' = IF ok THEN [qp EXCEPT ![q] = "none"] ELSE qp
          /\ left' = IF ok THEN left \ {q} ELSE left
          /\ IF qp[q] = "new"
             THEN UNCHANGED <<ring, tainted>>
             ELSE Submit("destroy", q, gid, NoDst, gid # ZeroGid /\ ok)
    BY <1>3, Zenon DEF DestroyQP
  <2>3. gid \in Devices \cup {ZeroGid}
    BY <2>1 DEF ReadGids
  <2>4. ops' \in 0..MaxOps /\ faults' \in 0..MaxFaults
    BY <2>2, <1>t, CallType
  <2>5. ring' \in Seq(Events) /\ tainted' \subseteq Qps
    <3>1. CASE qp[q] = "new"
      BY <3>1, <2>2, <1>t DEF TypeOK
    <3>2. CASE qp[q] # "new"
      BY <3>2, <2>1, <2>2, <2>3, <1>t, SubmitType
    <3> QED BY <3>1, <3>2
  <2>6. qp' \in [Qps -> {"none", "new", "ready"} \cup Dests]
    BY <2>2, <1>t DEF TypeOK
  <2>7. left' \subseteq Qps
    BY <2>2, <1>t DEF TypeOK
  <2> QED BY <2>4, <2>5, <2>6, <2>7, <1>3, KernelStep DEF DestroyQP
<1>4. ASSUME NEW q \in Qps, LeaveRTR(q) PROVE Inv'
  <2>1. ops' \in 0..MaxOps /\ faults' \in 0..MaxFaults
    BY <1>4, <1>t, CallType DEF LeaveRTR
  <2>2. /\ qp' \in [Qps -> {"none", "new", "ready"} \cup Dests]
        /\ left' \subseteq Qps
        /\ ring' \in Seq(Events)
        /\ tainted' \subseteq Qps
    BY <1>4, <1>t DEF LeaveRTR, TypeOK
  <2> QED BY <2>1, <2>2, <1>4, KernelStep DEF LeaveRTR
<1> QED BY <1>1, <1>2, <1>3, <1>4 DEF Services

-----------------------------------------------------------------------------
(* ServiceTracer: its goroutine, Stop, and the context.                    *)

Procs == [at : {"top", "read", "send", "ended"}, event : Events \cup {NoEvent}]

LEMMA TracerStep ==
  ASSUME Inv,
         hooks' \subseteq {"modify", "destroy"},
         ring' \in Seq(Events), eventCh' \in Seq(Events),
         reader' \in {"open", "closed", "nil"},
         proc' \in Procs, proc'.at = "send" => proc'.event \in Events,
         ctxDone' \in BOOLEAN,
         stopping' \in {"no", "detached", "reader closed", "done"},
         crashed' \in {"no", "nil reader"},
         UNCHANGED <<ops, faults, qp, left, sfm, flowVars, tainted>>
  PROVE  Inv'
  BY DEF Inv, TypeOK, Carries, flowVars, Procs

LEMMA ProcessEventsInv == Inv /\ ProcessEvents => Inv'
<1> SUFFICES ASSUME Inv, ProcessEvents PROVE Inv'
  OBVIOUS
<1>t. /\ TypeOK
      /\ proc \in Procs
      /\ proc.at = "send" => proc.event \in Events
  BY DEF Inv, TypeOK, Carries, Procs
<1>p. \A l \in {"top", "read", "ended"} :
        [proc EXCEPT !.at = l] \in Procs /\ [proc EXCEPT !.at = l].at = l
  BY <1>t DEF Procs
<1>n. [at |-> "top", event |-> NoEvent] \in Procs
  BY DEF Procs
<1>1. CASE CallRead
  <2>1. /\ proc' \in Procs
        /\ proc'.at = "send" => proc'.event \in Events
        /\ crashed' \in {"no", "nil reader"}
    BY <1>1, <1>t, <1>p DEF CallRead, TypeOK
  <2> QED BY <2>1, <1>1, <1>t, TracerStep
          DEF CallRead, ProcUnchanged, TypeOK, stopVars
<1>2. CASE ReadEvent
  <2>1. Tail(ring) \in Seq(Events) /\ Head(ring) \in Events
    BY <1>2, <1>t, TailType DEF ReadEvent, TypeOK
  <2>2. proc' \in Procs /\ proc'.event \in Events
    BY <2>1, <1>2 DEF ReadEvent, Procs
  <2> QED BY <2>1, <2>2, <1>2, <1>t, TracerStep
          DEF ReadEvent, ProcUnchanged, TypeOK, stopVars
<1>3. CASE ReadFails
  <2>1. proc' \in Procs /\ proc'.at # "send"
    BY <1>3, <1>p DEF ReadFails
  <2> QED BY <2>1, <1>3, <1>t, TracerStep
          DEF ReadFails, ProcUnchanged, TypeOK, stopVars
<1>4. CASE SendEvent
  <2>1. eventCh' \in Seq(Events)
    BY <1>4, <1>t, AppendType DEF SendEvent, TypeOK
  <2>2. proc' \in Procs /\ proc'.at # "send"
    BY <1>4, <1>n DEF SendEvent
  <2> QED BY <2>1, <2>2, <1>4, <1>t, TracerStep
          DEF SendEvent, ProcUnchanged, TypeOK, stopVars
<1>5. CASE SendCancelled
  <2>1. proc' \in Procs /\ proc'.at # "send"
    BY <1>5, <1>p DEF SendCancelled
  <2> QED BY <2>1, <1>5, <1>t, TracerStep
          DEF SendCancelled, ProcUnchanged, TypeOK, stopVars
<1> QED BY <1>1, <1>2, <1>3, <1>4, <1>5 DEF ProcessEvents

LEMMA StopInv == Inv /\ (CancelOnStop \/ StopTracer) => Inv'
<1> SUFFICES ASSUME Inv, CancelOnStop \/ StopTracer PROVE Inv'
  OBVIOUS
<1>t. /\ TypeOK
      /\ proc \in Procs
      /\ proc.at = "send" => proc.event \in Events
  BY DEF Inv, TypeOK, Carries, Procs
<1>1. CASE CancelOnStop
  BY <1>1, <1>t, TracerStep DEF CancelOnStop, ProcUnchanged, TypeOK, stopVars
<1>2. CASE StopTracer
  BY <1>2, <1>t, TracerStep DEF StopTracer, TypeOK
<1> QED BY <1>1, <1>2

-----------------------------------------------------------------------------
(* ServiceFlowMonitor.                                                     *)

LEMMA MonitorStep ==
  ASSUME Inv,
         eventCh' \in Seq(Events),
         monitor' \in Monitors,
         monitor'.at = "check" => monitor'.event \in Events,
         monitor'.at = "lookup" => monitor'.flow \in Flows,
         activeFlows' \subseteq Flows, targets' \subseteq Flows,
         monitor'.at # "notify" => targets' = activeFlows',
         tainted' \subseteq Qps,
         sfm # "stopped",
         MonitorUnchanged
  PROVE  Inv'
  BY DEF Inv, TypeOK, Carries, MonitorUnchanged, Monitors,
         MonitorAt, kernelVars, stopVars

(* A flow that HandleModify makes of an event.                             *)
LEMMA FlowType ==
  ASSUME NEW e \in Events, NEW src \in SrcTexts(e), e.dst # NoDst
  PROVE  [src |-> src, qpn |-> e.qp[2], dst |-> e.dst, of |-> e.qp] \in Flows
<1>1. e.qp \in Qps /\ e.src \in Devices \cup {ZeroGid} /\ e.dst \in Peers
  BY DEF Events, Dests
<1>2. e.qp[2] \in QpnSet
  BY <1>1 DEF QpnSet
<1>3. src \in Texts
  <2>1. \/ src = Hex(e.src)
        \/ src = Hex(ZeroGid)
        \/ \E d \in Devices : src = Text(d)
    BY DEF SrcTexts
  <2> QED BY <2>1, <1>1 DEF Hex, Text, Texts
<1> QED BY <1>1, <1>2, <1>3 DEF Flows

LEMMA EventLoopInv == Inv /\ EventLoop => Inv'
<1> SUFFICES ASSUME Inv, EventLoop PROVE Inv'
  OBVIOUS
<1>t. /\ eventCh \in Seq(Events)
      /\ monitor \in Monitors
      /\ activeFlows \subseteq Flows
      /\ targets \subseteq Flows
      /\ tainted \subseteq Qps
      /\ monitor.at = "check" => monitor.event \in Events
      /\ monitor.at = "lookup" => monitor.flow \in Flows
      /\ monitor.at # "ended" => sfm # "stopped"
      /\ monitor.at # "notify" => targets = activeFlows
  BY DEF Inv, TypeOK, Carries, Monitors, MonitorAt
<1>i. Idle.at = "idle" /\ Idle \in Monitors
  BY IdleType, MonitorFacts
<1>n. LET m == [Idle EXCEPT !.at = "notify"]
      IN  m \in Monitors /\ m.at = "notify"
  BY MonitorFacts DEF MonitorAt
<1>1. CASE Receive
  <2>1. Tail(eventCh) \in Seq(Events) /\ Head(eventCh) \in Events
    BY <1>1, <1>t, TailType DEF Receive
  <2>2. PICK t \in Times : monitor' =
          [Idle EXCEPT !.at = "check", !.event = Head(eventCh), !.time = t]
    BY <1>1 DEF Receive
  <2>3. monitor' \in Monitors /\ monitor'.at = "check"
        /\ monitor'.event \in Events
    <3>1. \A e \in Events, x \in Times :
            LET m == [Idle EXCEPT !.at = "check", !.event = e, !.time = x]
            IN  m \in Monitors /\ m.at = "check" /\ m.event = e
      BY MonitorFacts
    <3> HIDE DEF Idle
    <3> QED BY <3>1, <2>1, <2>2, Zenon
  <2> QED BY <2>1, <2>3, <1>1, <1>t, MonitorStep DEF Receive
<1>2. CASE SkipEvent
  <2>1. monitor.event.qp \in Qps
    BY <1>2, <1>t DEF SkipEvent, Events
  <2> QED BY <2>1, <1>2, <1>t, <1>i, MonitorStep DEF SkipEvent, Checked
<1>3. CASE HandleModify
  <2>1. PICK src \in SrcTexts(monitor.event) :
          monitor' = IF src = Hex(ZeroGid) \/ monitor.event.dst = NoDst THEN Idle
                     ELSE [Idle EXCEPT
                             !.at = "lookup",
                             !.flow = [src |-> src, qpn |-> monitor.event.qp[2],
                                       dst |-> monitor.event.dst,
                                       of |-> monitor.event.qp]]
    BY <1>3 DEF HandleModify
  <2>2. \/ monitor' = Idle
        \/ monitor' \in Monitors /\ monitor'.at = "lookup" /\ monitor'.flow \in Flows
    <3>1. CASE src = Hex(ZeroGid) \/ monitor.event.dst = NoDst
      BY <3>1, <2>1
    <3>2. CASE ~(src = Hex(ZeroGid) \/ monitor.event.dst = NoDst)
      <4>1. PICK f \in Flows :
              f = [src |-> src, qpn |-> monitor.event.qp[2],
                   dst |-> monitor.event.dst, of |-> monitor.event.qp]
        BY <3>2, <1>3, <1>t, FlowType DEF HandleModify
      <4>2. monitor' = [Idle EXCEPT !.at = "lookup", !.flow = f]
        BY <4>1, <3>2, <2>1
      <4>3. LET m == [Idle EXCEPT !.at = "lookup", !.flow = f]
            IN  m \in Monitors /\ m.at = "lookup" /\ m.flow = f
        BY MonitorFacts
      <4> QED BY <4>2, <4>3, Zenon
    <3> QED BY <3>1, <3>2
  <2> QED BY <2>2, <1>3, <1>t, <1>i, MonitorStep DEF HandleModify, Checked
<1>4. CASE AddFlow
  <2>1. activeFlows' \subseteq Flows
    BY <1>4, <1>t DEF AddFlow
  <2> QED BY <2>1, <1>4, <1>t, <1>n, MonitorStep DEF AddFlow
<1>5. CASE HandleDestroy
  <2>1. \/ monitor' = Idle /\ UNCHANGED activeFlows
        \/ activeFlows' \subseteq activeFlows
           /\ monitor' = [Idle EXCEPT !.at = "notify"]
    BY <1>5 DEF HandleDestroy
  <2> QED BY <2>1, <1>5, <1>t, <1>i, <1>n, MonitorStep DEF HandleDestroy, Checked
<1>6. CASE NotifyProber
  <2>1. monitor' \in Monitors /\ monitor'.at = "idle"
    BY <1>6, <1>t, MonitorFacts DEF NotifyProber, MonitorAt
  <2> QED BY <2>1, <1>6, <1>t, MonitorStep DEF NotifyProber
<1>7. CASE EndLoop
  <2>1. monitor' \in Monitors /\ monitor'.at = "ended"
    BY <1>7, <1>t, MonitorFacts DEF EndLoop, MonitorAt
  <2> QED BY <2>1, <1>7, <1>t, MonitorStep DEF EndLoop
<1> QED BY <1>1, <1>2, <1>3, <1>4, <1>5, <1>6, <1>7 DEF EventLoop

LEMMA StopMonitorInv == Inv /\ StopMonitor => Inv'
<1> SUFFICES ASSUME Inv, StopMonitor PROVE Inv'
  OBVIOUS
<1>1. ctxDone' \in BOOLEAN
  BY Zenon DEF Inv, TypeOK, StopMonitor, procVars
<1>2. Carries'
  BY DEF Inv, Carries, StopMonitor, procVars, flowVars
<1>3. TypeOK'
  BY <1>1, ZenonT(60) DEF Inv, TypeOK, StopMonitor, kernelVars, procVars, flowVars
<1> QED BY <1>2, <1>3 DEF Inv

LEMMA NextInv == Inv /\ [Next]_vars => Inv'
<1> SUFFICES ASSUME Inv, [Next]_vars PROVE Inv'
  OBVIOUS
<1>1. CASE Next
  BY <1>1, ServicesInv, ProcessEventsInv, StopInv, EventLoopInv, StopMonitorInv
  DEF Next, Step
<1>2. CASE UNCHANGED vars
  <2>1. ctxDone' \in BOOLEAN
    BY <1>2, Zenon DEF Inv, TypeOK, vars, procVars
  <2>2. Carries'
    BY <1>2 DEF Inv, Carries, vars, procVars, stopVars, flowVars
  <2>3. TypeOK'
    BY <2>1, <1>2, ZenonT(60) DEF Inv, TypeOK, vars, kernelVars, procVars, stopVars, flowVars
  <2> QED BY <2>2, <2>3 DEF Inv
<1> QED BY <1>1, <1>2

(* The invariant that the theorems below rest on is one of every step of   *)
(* the services, the tracer, the monitor and Stop.                         *)
THEOREM Invariance == Spec => []Inv
  BY InitInv, NextInv, PTL DEF Spec

(* Whatever the services, the kernel and Stop do in which order, every     *)
(* variable of service tracing has its type; in particular the loop adds   *)
(* only complete flows, and only the reader that Stop sets to nil can make *)
(* processEvents panic.                                                    *)
THEOREM TypeCorrect == Spec => []TypeOK
<1>1. Inv => TypeOK
  BY DEF Inv
<1> QED BY <1>1, Invariance, PTL

(* The prober's list of targets is the monitor's table of flows outside of *)
(* handleEbpfEvent.                                                        *)
THEOREM ProberKnowsTable == Spec => []ProberKnows
<1>1. Inv => ProberKnows
  BY DEF Inv, Carries, ProberKnows
<1> QED BY <1>1, Invariance, PTL

(* ServiceFlowMonitor.Stop waits long enough: nothing of service tracing   *)
(* touches the table or the prober's list once it has returned.            *)
THEOREM StopQuiet == Spec => QuietAfterStop
<1>1. Inv /\ [Next]_vars => [sfm = "stopped" => UNCHANGED <<activeFlows, targets>>]_vars
  <2> SUFFICES ASSUME Inv, Next, sfm = "stopped"
               PROVE  UNCHANGED <<activeFlows, targets>>
    OBVIOUS
  <2>1. monitor.at = "ended"
    BY DEF Inv, Carries
  <2>2. ASSUME EventLoop PROVE FALSE
    BY <2>1, <2>2 DEF EventLoop, Receive, SkipEvent, HandleModify, AddFlow,
       HandleDestroy, NotifyProber, EndLoop
  <2>3. CASE Services
    BY <2>3 DEF Services
  <2>4. CASE ProcessEvents
    BY <2>4 DEF ProcessEvents, CallRead, ReadEvent, ReadFails, SendEvent,
       SendCancelled, ProcUnchanged, flowVars
  <2>5. CASE CancelOnStop \/ StopTracer \/ StopMonitor
    BY <2>5 DEF CancelOnStop, StopTracer, StopMonitor, ProcUnchanged, flowVars
  <2> QED BY <2>2, <2>3, <2>4, <2>5 DEF Next, Step
<1> QED BY <1>1, Invariance, PTL DEF Spec, QuietAfterStop

-----------------------------------------------------------------------------
(* Which flows have a source that the prober recognises.                   *)

Attributed(f) ==
  \A d \in Devices : f.src = Text(d) => d # f.of[1] /\ f.qpn \in OwnQpns[d]

AttributionInv ==
  /\ \A f \in activeFlows \cup targets : Attributed(f)
  /\ monitor.at = "lookup" => Attributed(monitor.flow)

LEMMA FlowAttributed ==
  ASSUME NEW e \in Events, NEW src \in SrcTexts(e)
  PROVE  Attributed([src |-> src, qpn |-> e.qp[2], dst |-> e.dst, of |-> e.qp])
<1> SUFFICES ASSUME NEW d \in Devices, src = Text(d)
             PROVE  d # e.qp[1] /\ e.qp[2] \in OwnQpns[d]
  BY DEF Attributed
<1>1. e.qp \in Qps
  BY DEF Events
<1>2. \A x : Hex(x) # Text(d)
  BY DEF Hex, Text
<1>3. PICK o \in Devices : e.qp[2] \in OwnQpns[o] /\ src = Text(o)
  BY <1>2 DEF SrcTexts
<1>4. o = d
  BY <1>3 DEF Text
<1> QED BY <1>1, <1>3, <1>4, QpsAssumption

LEMMA AttributionStep ==
  ASSUME Inv, AttributionInv, [Next]_vars PROVE AttributionInv'
<1>1. CASE EventLoop
  <2>1. CASE HandleModify
    <3>1. monitor.event \in Events
      BY <2>1 DEF HandleModify, Inv, Carries
    <3>2. PICK src \in SrcTexts(monitor.event) :
            monitor' = IF src = Hex(ZeroGid) \/ monitor.event.dst = NoDst THEN Idle
                       ELSE [Idle EXCEPT
                               !.at = "lookup",
                               !.flow = [src |-> src, qpn |-> monitor.event.qp[2],
                                         dst |-> monitor.event.dst,
                                         of |-> monitor.event.qp]]
      BY <2>1 DEF HandleModify
    <3>3. monitor'.at = "lookup" => Attributed(monitor'.flow)
      <4>1. CASE src = Hex(ZeroGid) \/ monitor.event.dst = NoDst
        BY <4>1, <3>2, IdleType
      <4>2. CASE ~(src = Hex(ZeroGid) \/ monitor.event.dst = NoDst)
        <5>1. monitor'.flow = [src |-> src, qpn |-> monitor.event.qp[2],
                               dst |-> monitor.event.dst,
                               of |-> monitor.event.qp]
          BY <4>2, <3>2 DEF Idle
        <5> QED BY <5>1, <3>1, FlowAttributed
      <4> QED BY <4>1, <4>2
    <3>4. UNCHANGED <<activeFlows, targets>>
      BY <2>1 DEF HandleModify, Checked
    <3> QED BY <3>3, <3>4 DEF AttributionInv, Attributed
  <2>2. CASE AddFlow
    <3>1. monitor'.at # "lookup"
      BY <2>2, MonitorFacts DEF AddFlow, MonitorAt
    <3>2. /\ activeFlows' \subseteq activeFlows \cup {monitor.flow}
          /\ targets' = targets
          /\ monitor.at = "lookup"
      BY <2>2 DEF AddFlow
    <3> QED BY <3>1, <3>2 DEF AttributionInv, Attributed
  <2>3. CASE HandleDestroy
    <3>1. monitor' = Idle \/ monitor' = [Idle EXCEPT !.at = "notify"]
      BY <2>3 DEF HandleDestroy
    <3>2. monitor'.at # "lookup"
      BY <3>1, IdleType, MonitorFacts DEF MonitorAt
    <3>3. activeFlows' \subseteq activeFlows /\ targets' = targets
      BY <2>3 DEF HandleDestroy, Checked
    <3> QED BY <3>2, <3>3 DEF AttributionInv, Attributed
  <2>4. CASE NotifyProber \/ EndLoop
    <3>1. monitor'.at # "lookup"
      <4>1. monitor \in Monitors
        BY DEF Inv, TypeOK, Monitors, MonitorAt
      <4> QED BY <4>1, <2>4, MonitorFacts DEF NotifyProber, EndLoop, MonitorAt
    <3> QED BY <3>1, <2>4 DEF NotifyProber, EndLoop, AttributionInv, Attributed
  <2>5. CASE Receive \/ SkipEvent
    <3>1. monitor'.at # "lookup"
      BY <2>5, IdleType DEF Receive, SkipEvent, Idle
    <3> QED BY <3>1, <2>5 DEF Receive, SkipEvent, Checked, AttributionInv, Attributed
  <2> QED BY <1>1, <2>1, <2>2, <2>3, <2>4, <2>5 DEF EventLoop
<1>2. CASE UNCHANGED flowVars
  BY <1>2 DEF flowVars, AttributionInv, Attributed
<1>3. Next => EventLoop \/ UNCHANGED flowVars
  BY DEF Next, Step, Services, CreateQP, ModifyQP, LeaveRTR, DestroyQP, ProcessEvents,
     CallRead, ReadEvent, ReadFails, SendEvent, SendCancelled, ProcUnchanged,
     CancelOnStop, StopTracer, StopMonitor
<1> QED BY <1>1, <1>2, <1>3 DEF vars

(* The prober recognises the source of a flow only by the text that        *)
(* fillMissingSrcGID gives it, so that every service probe is for the      *)
(* queue pair of another device than the one it leaves from.               *)
THEOREM Misattribution == Spec => []ProbesMisattributed
<1>1. Init => AttributionInv
  BY IdleType DEF Init, AttributionInv
<1>2. AttributionInv => ProbesMisattributed
  BY DEF AttributionInv, Attributed, ProbesMisattributed, ServiceProbes, RnicOf
<1> QED BY <1>1, <1>2, AttributionStep, Invariance, PTL DEF Spec

-----------------------------------------------------------------------------
(* On a real host: the wall clock was past its first hour at boot.         *)

LEMMA ModSmall ==
  ASSUME NEW n \in Nat, NEW w \in Nat, n < w PROVE n % w = n
  OBVIOUS

LEMMA NeverValid ==
  ASSUME BootTime > Hour, NEW t \in Times PROVE ~Valid(t)
<1>1. /\ t.ts \in Nat
      /\ t.uptime \in Nat
      /\ t.ts <= t.uptime
      /\ t.uptime <= MaxUptime
  BY TimeAssumption DEF Times
<1>2. PICK now \in Nat : now = BootTime + t.uptime
  BY <1>1, TimeAssumption
<1>3. now - Hour \in Nat /\ now - Hour < Word /\ t.ts < now - Hour
  BY <1>1, <1>2, TimeAssumption
<1>4. (now - Hour) % Word = now - Hour
  BY <1>3, ModSmall, TimeAssumption
<1> QED BY <1>1, <1>2, <1>3, <1>4 DEF Valid

NothingKnown ==
  activeFlows = {} /\ targets = {} /\ monitor.at \notin {"lookup", "notify"}

(* ValidateStructAlignment compares the kernel's time since boot with the  *)
(* wall clock: on a host that was booted later than an hour after 1970, it *)
(* rejects every event, no flow is ever known and no service probe sent.   *)
THEOREM NothingTraced ==
  ASSUME BootTime > Hour
  PROVE  Spec => [](activeFlows = {} /\ ServiceProbes = {})
<1>1. Init => NothingKnown
  BY IdleType DEF Init, NothingKnown
<1>2. Inv /\ NothingKnown /\ [Next]_vars => NothingKnown'
  <2> SUFFICES ASSUME Inv, NothingKnown, [Next]_vars PROVE NothingKnown'
    OBVIOUS
  <2>1. monitor \in Monitors /\ monitor.time \in Times
    BY DEF Inv, TypeOK, Monitors, MonitorAt
  <2>2. ~Valid(monitor.time)
    BY <2>1, NeverValid
  <2>3. CASE Receive \/ SkipEvent
    <3>1. monitor'.at \in {"idle", "check"}
      BY <2>3, IdleType DEF Receive, SkipEvent, Idle
    <3> QED BY <3>1, <2>3 DEF Receive, SkipEvent, Checked, NothingKnown
  <2>4. CASE EndLoop
    BY <2>1, <2>4, MonitorFacts DEF EndLoop, NothingKnown, MonitorAt
  <2>5. ~HandleModify /\ ~HandleDestroy /\ ~AddFlow /\ ~NotifyProber
    BY <2>2 DEF HandleModify, HandleDestroy, AddFlow, NotifyProber, NothingKnown
  <2>6. CASE UNCHANGED flowVars
    BY <2>6 DEF flowVars, NothingKnown
  <2>7. Next => EventLoop \/ UNCHANGED flowVars
    BY DEF Next, Step, Services, CreateQP, ModifyQP, LeaveRTR, DestroyQP, ProcessEvents,
       CallRead, ReadEvent, ReadFails, SendEvent, SendCancelled, ProcUnchanged,
       CancelOnStop, StopTracer, StopMonitor
  <2> QED BY <2>3, <2>4, <2>5, <2>6, <2>7 DEF EventLoop, vars
<1>3. NothingKnown => activeFlows = {} /\ ServiceProbes = {}
  BY DEF NothingKnown, ServiceProbes
<1> QED BY <1>1, <1>2, <1>3, Invariance, PTL DEF Spec

-----------------------------------------------------------------------------
(* The table of flows and the kernel's queue pairs.                        *)

(* The events that are submitted and not handled yet, in their order.      *)
Current == IF monitor.at = "check" THEN <<monitor.event>> ELSE <<>>
Unhandled == Current \o Pipeline

(* The destinations that the table has, or is about to have, for q.        *)
Table(q) ==
  FlowsOf(q) \cup
    (IF monitor.at = "lookup" /\ monitor.flow.of = q THEN {monitor.flow.dst}
     ELSE {})

(* What the table should have for a queue pair after one of its events,    *)
(* and what it may have before one: a queue pair that is connected is not  *)
(* connected to something else.                                            *)
After(e) == IF e.kind = "modify" THEN {e.dst} \cap Peers ELSE {}
Allows(t, e) == e.kind = "modify" => t \subseteq {e.dst}

(* t, then the events of q in w, end in c.                                 *)
TableAt(w, t, i) == IF i = 0 THEN t ELSE After(w[i])
NoneBetween(w, q, i, j) == \A k \in (i + 1)..(j - 1) : w[k].qp # q
Chain(w, q, t, c) ==
  \A i \in 0..Len(w) :
    i = 0 \/ w[i].qp = q =>
      /\ \A j \in (i + 1)..Len(w) :
           w[j].qp = q /\ NoneBetween(w, q, i, j) => Allows(TableAt(w, t, i), w[j])
      /\ NoneBetween(w, q, i, Len(w) + 1) => TableAt(w, t, i) = c

(* An event has the GID of its queue pair, or none and taints it.          *)
Honest(e, t) ==
  /\ e.src \in {e.qp[1], ZeroGid}
  /\ e.src = ZeroGid => e.qp \in t

(* So does a flow.                                                         *)
Origin(f) ==
  /\ f.qpn = f.of[2]
  /\ f.src = Hex(f.of[1]) \/ (f.of \in tainted /\ \E d \in Devices : f.src = Text(d))

(* Read ahead of the events that are submitted later: the reader carries   *)
(* an event only to the channel.                                           *)
ReaderEmpty == proc.at \in {"top", "read"} => proc.event = NoEvent
HonestEvents == \A i \in 1..Len(Unhandled) : Honest(Unhandled[i], tainted)
Origins ==
  /\ \A f \in activeFlows : Origin(f)
  /\ monitor.at = "lookup" => Origin(monitor.flow)

(* The table and the events to come lead to what the kernel has for q.     *)
OnTrack(q) ==
  /\ \A x, y \in Table(q) : x = y
  /\ Chain(Unhandled, q, Table(q), ConnectionsOf(q))

TableInv ==
  /\ ReaderEmpty
  /\ HonestEvents
  /\ Origins
  /\ \A q \in Qps \ tainted : OnTrack(q)

(* One more event of q, or of another queue pair.                          *)
LEMMA ChainOwn ==
  ASSUME NEW w \in Seq(Events), NEW q, NEW t, NEW c, Chain(w, q, t, c),
         NEW e \in Events, e.qp = q, Allows(c, e)
  PROVE  Chain(Append(w, e), q, t, After(e))
<1> DEFINE v == Append(w, e)
<1>1. PICK n \in Nat : n = Len(w)
  BY LenProperties
<1>2. Len(v) = n + 1 /\ v[n + 1] = e /\ \A i \in 1..n : v[i] = w[i]
  BY <1>1
<1> HIDE DEF v
<1>3. \A i \in 0..n : TableAt(v, t, i) = TableAt(w, t, i)
  BY <1>2 DEF TableAt
<1>4. \A i \in 0..n : \A j \in 0..(n + 1) :
        NoneBetween(v, q, i, j) <=> NoneBetween(w, q, i, j)
  BY <1>2 DEF NoneBetween
<1>5. ASSUME NEW i \in 0..(n + 1), i = 0 \/ v[i].qp = q, NEW j \in (i + 1)..(n + 1),
             v[j].qp = q, NoneBetween(v, q, i, j)
      PROVE  Allows(TableAt(v, t, i), v[j])
  <2>1. i \in 0..n /\ (i = 0 \/ w[i].qp = q)
    BY <1>2, <1>5
  <2>2. NoneBetween(w, q, i, j) /\ TableAt(v, t, i) = TableAt(w, t, i)
    BY <1>3, <1>4, <1>5, <2>1
  <2>3. CASE j = n + 1
    <3>1. TableAt(w, t, i) = c
      BY <1>1, <2>1, <2>2, <2>3 DEF Chain
    <3> QED BY <1>2, <2>2, <2>3, <3>1
  <2>4. CASE j # n + 1
    <3>1. j \in (i + 1)..n /\ v[j] = w[j]
      BY <1>2, <1>5, <2>1, <2>4
    <3> QED BY <1>1, <1>5, <2>1, <2>2, <3>1 DEF Chain
  <2> QED BY <2>3, <2>4
<1>6. ASSUME NEW i \in 0..(n + 1), NoneBetween(v, q, i, n + 2)
      PROVE  TableAt(v, t, i) = After(e)
  <2>1. i = n + 1
    <3> SUFFICES ASSUME i # n + 1 PROVE FALSE
      OBVIOUS
    <3>1. n + 1 \in (i + 1)..((n + 2) - 1)
      OBVIOUS
    <3> QED BY <1>2, <1>6, <3>1 DEF NoneBetween
  <2> QED BY <1>2, <2>1 DEF TableAt
<1>7. Len(v) + 1 = n + 2
  BY <1>2
<1> QED BY <1>2, <1>5, <1>6, <1>7 DEF Chain, v

LEMMA ChainOther ==
  ASSUME NEW w \in Seq(Events), NEW q, NEW t, NEW c, Chain(w, q, t, c),
         NEW e \in Events, e.qp # q
  PROVE  Chain(Append(w, e), q, t, c)
<1> DEFINE v == Append(w, e)
<1>1. PICK n \in Nat : n = Len(w)
  BY LenProperties
<1>2. Len(v) = n + 1 /\ v[n + 1] = e /\ \A i \in 1..n : v[i] = w[i]
  BY <1>1
<1> HIDE DEF v
<1>3. \A i \in 0..n : TableAt(v, t, i) = TableAt(w, t, i)
  BY <1>2 DEF TableAt
<1>4. \A i \in 0..n : \A j \in 0..(n + 1) :
        NoneBetween(v, q, i, j) => NoneBetween(w, q, i, j)
  BY <1>2 DEF NoneBetween
<1>5. ASSUME NEW i \in 0..(n + 1), i = 0 \/ v[i].qp = q, NEW j \in (i + 1)..(n + 1),
             v[j].qp = q, NoneBetween(v, q, i, j)
      PROVE  Allows(TableAt(v, t, i), v[j])
  <2>1. i \in 0..n /\ j \in (i + 1)..n /\ (i = 0 \/ w[i].qp = q) /\ v[j] = w[j]
    BY <1>2, <1>5
  <2>2. NoneBetween(w, q, i, j) /\ TableAt(v, t, i) = TableAt(w, t, i)
    BY <1>3, <1>4, <1>5, <2>1
  <2> QED BY <1>1, <1>5, <2>1, <2>2 DEF Chain
<1>6. ASSUME NEW i \in 0..(n + 1), i = 0 \/ v[i].qp = q, NoneBetween(v, q, i, n + 2)
      PROVE  TableAt(v, t, i) = c
  <2>1. i \in 0..n /\ (i = 0 \/ w[i].qp = q)
    BY <1>2, <1>6
  <2>2. NoneBetween(w, q, i, n + 1)
    BY <1>2, <1>6, <2>1 DEF NoneBetween
  <2> QED BY <1>1, <1>3, <2>1, <2>2 DEF Chain
<1>7. Len(v) + 1 = n + 2
  BY <1>2
<1> QED BY <1>2, <1>5, <1>6, <1>7 DEF Chain, v

(* The first event is handled: the table is what it leaves.                *)
LEMMA ChainHandled ==
  ASSUME NEW w \in Seq(Events), w # <<>>, NEW t, NEW c,
         Chain(w, Head(w).qp, t, c)
  PROVE  /\ Allows(t, Head(w))
         /\ Chain(Tail(w), Head(w).qp, After(Head(w)), c)
<1> DEFINE v == Tail(w)
<1>1. PICK n \in Nat : Len(w) = n + 1
  <2>1. Len(w) \in Nat /\ Len(w) # 0
    BY LenProperties, EmptySeq
  <2>2. Len(w) - 1 \in Nat /\ Len(w) = (Len(w) - 1) + 1
    BY <2>1
  <2> QED BY <2>2
<1>2. Len(v) = n /\ Head(w) = w[1] /\ \A i \in 1..n : v[i] = w[i + 1]
  BY <1>1
<1> HIDE DEF v
<1>3. PICK q : q = w[1].qp
  OBVIOUS
<1>4. Allows(t, w[1])
  <2>1. 1 \in (0 + 1)..Len(w) /\ 0 \in 0..Len(w)
    BY <1>1
  <2>2. NoneBetween(w, q, 0, 1) /\ TableAt(w, t, 0) = t
    BY DEF NoneBetween, TableAt
  <2> QED BY <1>2, <1>3, <2>1, <2>2 DEF Chain
<1>5. \A i \in 0..n : TableAt(v, After(w[1]), i) = TableAt(w, t, i + 1)
  BY <1>2 DEF TableAt
<1>6. ASSUME NEW i \in 0..n, NEW j \in 0..(n + 1), NoneBetween(v, q, i, j)
      PROVE  NoneBetween(w, q, i + 1, j + 1)
  <2> SUFFICES ASSUME NEW k \in ((i + 1) + 1)..((j + 1) - 1) PROVE w[k].qp # q
    BY DEF NoneBetween
  <2>1. k - 1 \in (i + 1)..(j - 1) /\ k - 1 \in 1..n /\ (k - 1) + 1 = k
    OBVIOUS
  <2> QED BY <1>2, <1>6, <2>1 DEF NoneBetween
<1>7. ASSUME NEW i \in 0..n, i = 0 \/ v[i].qp = q
      PROVE  i + 1 \in 0..Len(w) /\ w[i + 1].qp = q
  BY <1>1, <1>2, <1>3, <1>7
<1>8. ASSUME NEW i \in 0..n, i = 0 \/ v[i].qp = q, NEW j \in (i + 1)..n,
             v[j].qp = q, NoneBetween(v, q, i, j)
      PROVE  Allows(TableAt(v, After(w[1]), i), v[j])
  <2>1. NoneBetween(w, q, i + 1, j + 1)
    BY <1>6, <1>8
  <2>2. j + 1 \in ((i + 1) + 1)..Len(w) /\ v[j] = w[j + 1]
    BY <1>1, <1>2
  <2> QED BY <1>2, <1>3, <1>5, <1>7, <1>8, <2>1, <2>2 DEF Chain
<1>9. ASSUME NEW i \in 0..n, i = 0 \/ v[i].qp = q, NoneBetween(v, q, i, n + 1)
      PROVE  TableAt(v, After(w[1]), i) = c
  <2>1. NoneBetween(w, q, i + 1, Len(w) + 1)
    BY <1>1, <1>6, <1>9
  <2> QED BY <1>2, <1>3, <1>5, <1>7, <1>9, <2>1 DEF Chain
<1>10. Chain(v, q, After(w[1]), c)
  BY <1>2, <1>8, <1>9 DEF Chain
<1> QED BY <1>2, <1>3, <1>4, <1>10 DEF v

LEMMA ChainPasses ==
  ASSUME NEW w \in Seq(Events), w # <<>>, NEW q, Head(w).qp # q, NEW t, NEW c,
         Chain(w, q, t, c)
  PROVE  Chain(Tail(w), q, t, c)
<1> DEFINE v == Tail(w)
<1>1. PICK n \in Nat : Len(w) = n + 1
  <2>1. Len(w) \in Nat /\ Len(w) # 0
    BY LenProperties, EmptySeq
  <2>2. Len(w) - 1 \in Nat /\ Len(w) = (Len(w) - 1) + 1
    BY <2>1
  <2> QED BY <2>2
<1>2. Len(v) = n /\ Head(w) = w[1] /\ \A i \in 1..n : v[i] = w[i + 1]
  BY <1>1
<1> HIDE DEF v
<1> DEFINE At(i) == IF i = 0 THEN 0 ELSE i + 1
<1>5. \A i \in 0..n : TableAt(v, t, i) = TableAt(w, t, At(i))
  BY <1>2 DEF TableAt
<1>6. ASSUME NEW i \in 0..n, NEW j \in 0..(n + 1), NoneBetween(v, q, i, j)
      PROVE  NoneBetween(w, q, At(i), j + 1)
  <2> SUFFICES ASSUME NEW k \in (At(i) + 1)..((j + 1) - 1) PROVE w[k].qp # q
    BY DEF NoneBetween
  <2>1. CASE k = 1
    BY <1>2, <2>1
  <2>2. CASE k # 1
    <3>1. k - 1 \in (i + 1)..(j - 1) /\ k - 1 \in 1..n /\ (k - 1) + 1 = k
      BY <2>2
    <3> QED BY <1>2, <1>6, <3>1 DEF NoneBetween
  <2> QED BY <2>1, <2>2
<1>7. ASSUME NEW i \in 0..n, i = 0 \/ v[i].qp = q
      PROVE  At(i) \in 0..Len(w) /\ (At(i) = 0 \/ w[At(i)].qp = q)
  BY <1>1, <1>2, <1>7
<1>8. ASSUME NEW i \in 0..n, i = 0 \/ v[i].qp = q, NEW j \in (i + 1)..n,
             v[j].qp = q, NoneBetween(v, q, i, j)
      PROVE  Allows(TableAt(v, t, i), v[j])
  <2>1. NoneBetween(w, q, At(i), j + 1)
    BY <1>6, <1>8
  <2>2. j + 1 \in (At(i) + 1)..Len(w) /\ v[j] = w[j + 1]
    BY <1>1, <1>2
  <2>3. TableAt(v, t, i) = TableAt(w, t, At(i)) /\ w[j + 1].qp = q
    BY <1>5, <1>8, <2>2
  <2> HIDE DEF At
  <2> QED BY <1>7, <1>8, <2>1, <2>2, <2>3 DEF Chain
<1>9. ASSUME NEW i \in 0..n, i = 0 \/ v[i].qp = q, NoneBetween(v, q, i, n + 1)
      PROVE  TableAt(v, t, i) = c
  <2>1. NoneBetween(w, q, At(i), Len(w) + 1)
    BY <1>1, <1>6, <1>9
  <2>2. TableAt(v, t, i) = TableAt(w, t, At(i))
    BY <1>5
  <2> HIDE DEF At
  <2> QED BY <1>7, <1>9, <2>1, <2>2 DEF Chain
<1> HIDE DEF At
<1>10. Chain(v, q, t, c)
  BY <1>2, <1>8, <1>9 DEF Chain
<1> QED BY <1>10 DEF v

(* No event is left.                                                       *)
LEMMA ChainDone ==
  ASSUME NEW w \in Seq(Events), NEW q, NEW t, NEW c, Chain(w, q, t, c),
         \A i \in 1..Len(w) : w[i].qp # q
  PROVE  t = c
<1>1. Len(w) \in Nat /\ 0 \in 0..Len(w)
  BY LenProperties
<1>2. NoneBetween(w, q, 0, Len(w) + 1)
  BY <1>1 DEF NoneBetween
<1> QED BY <1>1, <1>2 DEF Chain, TableAt

-----------------------------------------------------------------------------
(* How a step changes the sequence of events that are not handled yet.     *)

LEMMA OneElement ==
  ASSUME NEW S, NEW e \in S PROVE <<e>> \in Seq(S)
  OBVIOUS

LEMMA ConcatAppend ==
  ASSUME NEW S, NEW s \in Seq(S), NEW t \in Seq(S), NEW e \in S
  PROVE  s \o Append(t, e) = Append(s \o t, e)
<1>1. Append(t, e) = t \o <<e>> /\ <<e>> \in Seq(S)
  BY AppendIsConcat
<1>2. s \o t \in Seq(S)
  BY ConcatProperties
<1>3. Append(s \o t, e) = (s \o t) \o <<e>>
  BY <1>2, AppendIsConcat
<1>4. (s \o t) \o <<e>> = s \o (t \o <<e>>)
  BY <1>1, ConcatAssociative
<1> QED BY <1>1, <1>3, <1>4

LEMMA HeadThenTail ==
  ASSUME NEW S, NEW s \in Seq(S), s # <<>>
  PROVE  <<Head(s)>> \o Tail(s) = s
<1>1. Head(s) \in S /\ Tail(s) \in Seq(S) /\ Len(Tail(s)) = Len(s) - 1
      /\ \A i \in 1..Len(Tail(s)) : Tail(s)[i] = s[i + 1]
  BY HeadTailProperties
<1>2. PICK h \in S, u \in Seq(S) : h = Head(s) /\ u = Tail(s)
  BY <1>1
<1>3. Len(s) \in Nat /\ Len(s) # 0 /\ s[1] = h
  BY <1>2, EmptySeq, LenProperties
<1>4. <<h>> \in Seq(S) /\ Len(<<h>>) = 1 /\ <<h>>[1] = h
  OBVIOUS
<1>5. <<h>> \o u \in Seq(S) /\ Len(<<h>> \o u) = Len(s)
      /\ \A i \in 1..Len(s) : (<<h>> \o u)[i] = IF i <= 1 THEN <<h>>[i] ELSE u[i - 1]
  BY <1>1, <1>2, <1>3, <1>4, ConcatProperties
<1>6. \A i \in 1..Len(s) : (<<h>> \o u)[i] = s[i]
  <2> SUFFICES ASSUME NEW i \in 1..Len(s) PROVE (<<h>> \o u)[i] = s[i]
    OBVIOUS
  <2>1. CASE i = 1
    BY <1>3, <1>4, <1>5, <2>1
  <2>2. CASE i # 1
    <3>1. i - 1 \in 1..Len(u) /\ (i - 1) + 1 = i
      BY <1>1, <1>2, <1>3, <2>2
    <3>2. u[i - 1] = s[i]
      BY <1>1, <1>2, <3>1
    <3> QED BY <1>5, <2>2, <3>2
  <2> QED BY <2>1, <2>2
<1>7. <<h>> \o u = s
  BY <1>5, <1>6, SeqEqual
<1> QED BY <1>2, <1>7

LEMMA FirstAndRest ==
  ASSUME NEW S, NEW s \in Seq(S), NEW e \in S
  PROVE  /\ <<e>> \o s # <<>>
         /\ Head(<<e>> \o s) = e
         /\ Tail(<<e>> \o s) = s
<1>1. <<e>> \in Seq(S) /\ Len(<<e>>) = 1 /\ <<e>>[1] = e
  OBVIOUS
<1>2. PICK w \in Seq(S) : w = <<e>> \o s
  BY <1>1, ConcatProperties
<1>3. Len(s) \in Nat /\ Len(w) = 1 + Len(s)
      /\ \A i \in 1..(1 + Len(s)) : w[i] = IF i <= 1 THEN <<e>>[i] ELSE s[i - 1]
  BY <1>1, <1>2, ConcatProperties, LenProperties
<1>4. w # <<>> /\ w[1] = e
  BY <1>1, <1>3, EmptySeq
<1>5. Tail(w) \in Seq(S) /\ Len(Tail(w)) = Len(s)
      /\ \A i \in 1..Len(s) : Tail(w)[i] = w[i + 1]
  BY <1>3, <1>4, HeadTailProperties
<1>6. \A i \in 1..Len(s) : Tail(w)[i] = s[i]
  <2> SUFFICES ASSUME NEW i \in 1..Len(s) PROVE Tail(w)[i] = s[i]
    OBVIOUS
  <2>1. i + 1 \in 1..(1 + Len(s)) /\ ~(i + 1 <= 1) /\ (i + 1) - 1 = i
    BY <1>3
  <2>2. w[i + 1] = s[(i + 1) - 1]
    BY <1>3, <2>1
  <2> QED BY <1>5, <2>1, <2>2
<1>7. Tail(w) = s
  BY <1>5, <1>6, SeqEqual
<1> QED BY <1>2, <1>4, <1>7

LEMMA HeadOfConcat ==
  ASSUME NEW S, NEW s \in Seq(S), NEW t \in Seq(S), s # <<>>
  PROVE  /\ s \o t # <<>>
         /\ Head(s \o t) = Head(s)
         /\ Tail(s \o t) = Tail(s) \o t
<1>1. PICK w \in Seq(S) : w = s \o t
  BY ConcatProperties
<1>2. PICK m \in Nat, n \in Nat : m = Len(s) /\ n = Len(t)
  BY LenProperties
<1>3. m # 0
  BY <1>2, EmptySeq
<1>4. Len(w) = m + n /\ \A i \in 1..(m + n) : w[i] = IF i <= m THEN s[i] ELSE t[i - m]
  BY <1>1, <1>2, ConcatProperties
<1>5. w # <<>>
  BY <1>3, <1>4, EmptySeq
<1>6. Head(w) = w[1] /\ Head(s) = s[1] /\ w[1] = s[1]
  BY <1>3, <1>4
<1>7. /\ Tail(w) \in Seq(S) /\ Len(Tail(w)) = (m + n) - 1
      /\ \A i \in 1..((m + n) - 1) : Tail(w)[i] = w[i + 1]
  BY <1>4, <1>5, HeadTailProperties
<1>8. PICK u \in Seq(S) : u = Tail(s)
  BY HeadTailProperties
<1>9. Len(u) = m - 1 /\ \A i \in 1..(m - 1) : u[i] = s[i + 1]
  BY <1>2, <1>8, HeadTailProperties
<1>10. /\ u \o t \in Seq(S) /\ Len(u \o t) = (m - 1) + n
       /\ \A i \in 1..((m - 1) + n) :
            (u \o t)[i] = IF i <= m - 1 THEN u[i] ELSE t[i - (m - 1)]
  <2>1. /\ u \o t \in Seq(S) /\ Len(u \o t) = Len(u) + Len(t)
        /\ \A i \in 1..(Len(u) + Len(t)) :
             (u \o t)[i] = IF i <= Len(u) THEN u[i] ELSE t[i - Len(u)]
    BY <1>8, ConcatProperties
  <2>2. Len(u) = m - 1 /\ Len(t) = n
    BY <1>2, <1>9
  <2> QED BY <2>1, <2>2
<1>11. \A i \in 1..((m + n) - 1) : Tail(w)[i] = (u \o t)[i]
  <2> SUFFICES ASSUME NEW i \in 1..((m + n) - 1) PROVE Tail(w)[i] = (u \o t)[i]
    OBVIOUS
  <2>1. i + 1 \in 1..(m + n) /\ i \in 1..((m - 1) + n)
    BY <1>2
  <2>2. CASE i <= m - 1
    <3>1. i \in 1..(m - 1) /\ i + 1 <= m
      BY <1>2, <2>2
    <3>2. w[i + 1] = s[i + 1]
      BY <1>4, <2>1, <3>1
    <3>3. (u \o t)[i] = s[i + 1]
      BY <1>9, <1>10, <2>1, <2>2, <3>1
    <3> QED BY <1>7, <3>2, <3>3
  <2>3. CASE ~(i <= m - 1)
    <3>1. ~(i + 1 <= m) /\ (i + 1) - m = i - (m - 1)
      BY <1>2, <2>3
    <3>2. w[i + 1] = t[(i + 1) - m]
      BY <1>4, <2>1, <3>1
    <3>3. (u \o t)[i] = t[i - (m - 1)]
      BY <1>10, <2>1, <2>3
    <3> QED BY <1>7, <3>1, <3>2, <3>3
  <2> QED BY <2>2, <2>3
<1>12. Len(Tail(w)) = Len(u \o t)
  BY <1>7, <1>10
<1>13. Tail(w) = u \o t
  BY <1>7, <1>10, <1>11, <1>12, SeqEqual
<1> QED BY <1>1, <1>5, <1>6, <1>8, <1>13

LEMMA UnhandledType ==
  ASSUME Inv
  PROVE  /\ Current \in Seq(Events) /\ eventCh \in Seq(Events)
         /\ Carried \in Seq(Events) /\ ring \in Seq(Events)
         /\ eventCh \o Carried \in Seq(Events)
         /\ Pipeline \in Seq(Events) /\ Unhandled \in Seq(Events)
<1>1. Current \in Seq(Events)
  BY EmptySeq DEF Current, Inv, Carries
<1>2. Carried \in Seq(Events)
  <2>1. proc.event \in Events \cup {NoEvent}
    BY DEF Inv, TypeOK
  <2>2. CASE proc.event = NoEvent
    BY <2>2, EmptySeq DEF Carried
  <2>3. CASE proc.event # NoEvent
    BY <2>1, <2>3, OneElement DEF Carried
  <2> QED BY <2>2, <2>3
<1>3. eventCh \in Seq(Events) /\ ring \in Seq(Events)
  BY DEF Inv, TypeOK
<1>4. eventCh \o Carried \in Seq(Events)
  BY <1>2, <1>3, ConcatProperties
<1>5. Pipeline \in Seq(Events)
  BY <1>3, <1>4, ConcatProperties DEF Pipeline
<1>6. Unhandled \in Seq(Events)
  BY <1>1, <1>5, ConcatProperties DEF Unhandled
<1> QED BY <1>1, <1>2, <1>3, <1>4, <1>5, <1>6

LEMMA Submitted ==
  ASSUME Inv, NEW e \in Events, ring' = Append(ring, e),
         UNCHANGED <<eventCh, proc, monitor>>
  PROVE  Unhandled' = Append(Unhandled, e)
<1>1. /\ Current \in Seq(Events) /\ ring \in Seq(Events)
      /\ eventCh \o Carried \in Seq(Events) /\ Pipeline \in Seq(Events)
  BY UnhandledType
<1>2. Current' = Current /\ Carried' = Carried
  BY DEF Current, Carried
<1>3. (eventCh \o Carried) \o Append(ring, e) = Append((eventCh \o Carried) \o ring, e)
  BY <1>1, ConcatAppend
<1>4. Pipeline' = Append(Pipeline, e)
  BY <1>2, <1>3 DEF Pipeline
<1>5. Current \o Append(Pipeline, e) = Append(Current \o Pipeline, e)
  BY <1>1, ConcatAppend
<1> QED BY <1>2, <1>4, <1>5 DEF Unhandled

LEMMA NoEventIsNone == NoEvent \notin Events
<1>1. NoEvent.kind = "none"
  BY DEF NoEvent
<1>2. \A e \in Events : e.kind # "none"
  BY DEF Events
<1> QED BY <1>1, <1>2

LEMMA ReadMoves ==
  ASSUME Inv, ReadEvent, proc.event = NoEvent PROVE Unhandled' = Unhandled
<1>1. /\ eventCh \in Seq(Events) /\ ring \in Seq(Events) /\ ring # <<>>
      /\ Head(ring) \in Events /\ Tail(ring) \in Seq(Events)
  BY UnhandledType, TailType DEF ReadEvent
<1>2. Carried = <<>> /\ eventCh \o <<>> = eventCh
  BY <1>1, ConcatEmptySeq DEF Carried
<1>3. Carried' = <<Head(ring)>> /\ ring' = Tail(ring) /\ eventCh' = eventCh
  BY <1>1, NoEventIsNone DEF Carried, ReadEvent
<1>4. PICK h \in Seq(Events), u \in Seq(Events) : h = <<Head(ring)>> /\ u = Tail(ring)
  <2>1. <<Head(ring)>> \in Seq(Events)
    BY <1>1, OneElement
  <2> QED BY Zenon, <1>1, <2>1
<1>5. h \o u = ring
  BY <1>1, <1>4, HeadThenTail
<1>6. (eventCh \o h) \o u = eventCh \o (h \o u)
  BY <1>1, ConcatAssociative
<1>7. Pipeline' = Pipeline
  BY <1>2, <1>3, <1>4, <1>5, <1>6 DEF Pipeline
<1>8. Current' = Current
  BY DEF ReadEvent, ProcUnchanged, flowVars, Current
<1> QED BY <1>7, <1>8 DEF Unhandled

LEMMA SendMoves ==
  ASSUME Inv, SendEvent PROVE Unhandled' = Unhandled
<1>1. /\ eventCh \in Seq(Events) /\ ring \in Seq(Events) /\ proc.event \in Events
  BY UnhandledType DEF SendEvent, Inv, Carries
<1>2. PICK h \in Seq(Events) : h = <<proc.event>>
  <2>1. <<proc.event>> \in Seq(Events)
    BY <1>1, OneElement
  <2> QED BY Zenon, <2>1
<1>3. Carried = h /\ Carried' = <<>>
  BY <1>1, <1>2, NoEventIsNone DEF Carried, SendEvent
<1>4. eventCh' = eventCh \o h /\ ring' = ring
  BY <1>1, <1>2, AppendIsConcat DEF SendEvent
<1>5. eventCh \o h \in Seq(Events)
  BY <1>1, <1>2, ConcatProperties
<1>6. (eventCh \o h) \o <<>> = eventCh \o h
  BY <1>5, ConcatEmptySeq
<1>7. Pipeline' = Pipeline
  BY <1>3, <1>4, <1>6 DEF Pipeline
<1>8. Current' = Current
  BY DEF SendEvent, ProcUnchanged, flowVars, Current
<1> QED BY <1>7, <1>8 DEF Unhandled

LEMMA ReceiveMoves ==
  ASSUME Inv, Receive PROVE Unhandled' = Unhandled
<1>1. /\ eventCh \in Seq(Events) /\ ring \in Seq(Events) /\ eventCh # <<>>
      /\ Carried \in Seq(Events) /\ eventCh \o Carried \in Seq(Events)
      /\ Pipeline \in Seq(Events)
  BY UnhandledType DEF Receive
<1>2. monitor'.at = "check" /\ monitor'.event = Head(eventCh) /\ monitor.at = "idle"
  BY DEF Receive, Idle
<1>3. Current = <<>> /\ Current' = <<Head(eventCh)>>
  BY <1>2 DEF Current
<1>4. Carried' = Carried /\ ring' = ring /\ eventCh' = Tail(eventCh)
  BY DEF Carried, Receive, MonitorUnchanged, kernelVars
<1>5. PICK w \in Seq(Events) : w = eventCh \o Carried
  BY <1>1
<1>6. w # <<>> /\ Head(w) = Head(eventCh) /\ Tail(w) = Tail(eventCh) \o Carried
  BY <1>1, <1>5, HeadOfConcat
<1>7. w \o ring # <<>> /\ Head(w \o ring) = Head(w) /\ Tail(w \o ring) = Tail(w) \o ring
  BY <1>1, <1>6, HeadOfConcat
<1>8. Pipeline = w \o ring /\ Pipeline' = Tail(w) \o ring
  BY <1>4, <1>5, <1>6 DEF Pipeline
<1>9. <<Head(Pipeline)>> \o Tail(Pipeline) = Pipeline
  BY <1>1, <1>7, <1>8, HeadThenTail
<1>10. <<>> \o Pipeline = Pipeline
  BY <1>1, ConcatEmptySeq
<1> QED BY <1>3, <1>6, <1>7, <1>8, <1>9, <1>10 DEF Unhandled

LEMMA HandledFirst ==
  ASSUME Inv, monitor.at = "check", monitor'.at # "check",
         UNCHANGED <<eventCh, proc, ring>>
  PROVE  /\ monitor.event \in Events
         /\ Unhandled # <<>> /\ Head(Unhandled) = monitor.event
         /\ Tail(Unhandled) = Unhandled'
<1>1. monitor.event \in Events /\ Pipeline \in Seq(Events)
  BY UnhandledType DEF Inv, Carries
<1>2. Current = <<monitor.event>> /\ Current' = <<>>
  BY DEF Current
<1>3. Pipeline' = Pipeline
  BY DEF Pipeline, Carried
<1>4. <<>> \o Pipeline = Pipeline
  BY <1>1, ConcatEmptySeq
<1> QED BY <1>1, <1>2, <1>3, <1>4, FirstAndRest DEF Unhandled

LEMMA UnhandledSame ==
  ASSUME UNCHANGED <<eventCh, proc, ring>>,
         monitor' = monitor \/ (monitor.at # "check" /\ monitor'.at # "check")
  PROVE  Unhandled' = Unhandled
<1>1. Current' = Current
  BY DEF Current
<1> QED BY <1>1 DEF Unhandled, Pipeline, Carried

-----------------------------------------------------------------------------
(* Every step keeps the table on track.                                    *)

(* The tables that a step leaves alone.                                    *)
LEMMA OnTrackSame ==
  ASSUME NEW q, OnTrack(q), Unhandled' = Unhandled, Table(q)' = Table(q),
         ConnectionsOf(q)' = ConnectionsOf(q)
  PROVE  OnTrack(q)'
  BY DEF OnTrack

LEMMA TableSame ==
  ASSUME NEW q, activeFlows' = activeFlows,
         monitor' = monitor \/ (monitor.at # "lookup" /\ monitor'.at # "lookup")
  PROVE  Table(q)' = Table(q)
  BY DEF Table, FlowsOf

LEMMA TableQuiet ==
  ASSUME TableInv, ReaderEmpty', Unhandled' = Unhandled,
         UNCHANGED <<activeFlows, tainted>>,
         monitor' = monitor \/ (monitor.at # "lookup" /\ monitor'.at # "lookup"),
         \A q \in Qps : ConnectionsOf(q)' = ConnectionsOf(q)
  PROVE  TableInv'
<1>1. HonestEvents'
  BY DEF TableInv, HonestEvents, Honest
<1>2. Origins'
  BY DEF TableInv, Origins, Origin
<1>3. ASSUME NEW q \in Qps \ tainted PROVE OnTrack(q)'
  <2>1. OnTrack(q) /\ ConnectionsOf(q)' = ConnectionsOf(q)
    BY DEF TableInv
  <2>2. Table(q)' = Table(q)
    BY TableSame
  <2> QED BY <2>1, <2>2, OnTrackSame
<1> QED BY <1>1, <1>2, <1>3 DEF TableInv

(* More queue pairs are tainted.                                           *)
LEMMA OriginsTainted ==
  ASSUME Origins, tainted \subseteq tainted', UNCHANGED activeFlows,
         monitor' = monitor \/ monitor'.at # "lookup"
  PROVE  Origins'
  BY DEF Origins, Origin

(* A hooked call that is not what its event says, or has none.             *)
LEMMA UntruthTable ==
  ASSUME Inv, TableInv, NEW e \in Events, e.src \in {e.qp[1], ZeroGid},
         ring' = ring \/ ring' = Append(ring, e),
         tainted' = tainted \cup {e.qp},
         UNCHANGED <<eventCh, proc, monitor, activeFlows>>,
         \A r \in Qps : r # e.qp => qp'[r] = qp[r]
  PROVE  TableInv'
<1>0. Unhandled \in Seq(Events)
  BY UnhandledType
<1>1. Unhandled' = Unhandled \/ Unhandled' = Append(Unhandled, e)
  BY Submitted, UnhandledSame
<1>2. HonestEvents'
  <2>1. Honest(e, tainted')
    BY DEF Honest
  <2>2. \A i \in 1..Len(Unhandled) : Honest(Unhandled[i], tainted')
    BY DEF TableInv, HonestEvents, Honest
  <2>3. CASE Unhandled' = Unhandled
    BY <2>2, <2>3 DEF HonestEvents, Honest
  <2>4. CASE Unhandled' = Append(Unhandled, e)
    <3>1. \A i \in 1..Len(Append(Unhandled, e)) :
            Append(Unhandled, e)[i] = e \/ \E j \in 1..Len(Unhandled) :
                                             Append(Unhandled, e)[i] = Unhandled[j]
      BY <1>0
    <3> QED BY <2>1, <2>2, <2>4, <3>1 DEF HonestEvents, Honest
  <2> QED BY <1>1, <2>3, <2>4
<1>3. Origins'
  BY OriginsTainted DEF TableInv
<1>4. ASSUME NEW q \in Qps \ tainted' PROVE OnTrack(q)'
  <2>1. OnTrack(q) /\ q # e.qp
    BY DEF TableInv
  <2>2. Table(q)' = Table(q) /\ ConnectionsOf(q)' = ConnectionsOf(q)
    BY <2>1, TableSame DEF ConnectionsOf
  <2>3. CASE Unhandled' = Unhandled
    BY <2>1, <2>2, <2>3, OnTrackSame
  <2>4. CASE Unhandled' = Append(Unhandled, e)
    <3>1. PICK t, c : t = Table(q) /\ c = ConnectionsOf(q)
      OBVIOUS
    <3>2. Chain(Unhandled, q, t, c)
      BY <2>1, <3>1 DEF OnTrack
    <3>3. Chain(Append(Unhandled, e), q, t, c)
      BY <1>0, <2>1, <3>2, ChainOther
    <3> QED BY <2>1, <2>2, <2>4, <3>1, <3>3 DEF OnTrack
  <2> QED BY <1>1, <2>3, <2>4
<1>5. ReaderEmpty'
  BY DEF TableInv, ReaderEmpty
<1> QED BY <1>2, <1>3, <1>4, <1>5 DEF TableInv

(* A hooked call that is what its event says.                              *)
LEMMA TruthTable ==
  ASSUME Inv, TableInv, NEW e \in Events, e.src = e.qp[1], e.src # ZeroGid,
         ring' = Append(ring, e),
         UNCHANGED <<eventCh, proc, monitor, activeFlows, tainted>>,
         \A r \in Qps : r # e.qp => qp'[r] = qp[r],
         Allows(ConnectionsOf(e.qp), e), ConnectionsOf(e.qp)' = After(e)
  PROVE  TableInv'
<1>0. Unhandled \in Seq(Events)
  BY UnhandledType
<1>1. Unhandled' = Append(Unhandled, e)
  BY Submitted
<1>2. HonestEvents'
  <2>1. Honest(e, tainted')
    BY DEF Honest
  <2>2. \A i \in 1..Len(Unhandled) : Honest(Unhandled[i], tainted')
    BY DEF TableInv, HonestEvents, Honest
  <2>3. \A i \in 1..Len(Append(Unhandled, e)) :
          Append(Unhandled, e)[i] = e \/ \E j \in 1..Len(Unhandled) :
                                           Append(Unhandled, e)[i] = Unhandled[j]
    BY <1>0
  <2> QED BY <1>1, <2>1, <2>2, <2>3 DEF HonestEvents, Honest
<1>3. Origins'
  BY OriginsTainted DEF TableInv
<1>4. ASSUME NEW q \in Qps \ tainted PROVE OnTrack(q)'
  <2>1. OnTrack(q) /\ Table(q)' = Table(q)
    BY TableSame DEF TableInv
  <2>2. PICK t, c : t = Table(q) /\ c = ConnectionsOf(q)
    OBVIOUS
  <2>3. Chain(Unhandled, q, t, c)
    BY <2>1, <2>2 DEF OnTrack
  <2>4. CASE q = e.qp
    <3>1. Chain(Append(Unhandled, e), q, t, After(e))
      BY <1>0, <2>2, <2>3, <2>4, ChainOwn
    <3> QED BY <1>1, <2>1, <2>2, <2>4, <3>1 DEF OnTrack
  <2>5. CASE q # e.qp
    <3>1. Chain(Append(Unhandled, e), q, t, c)
      BY <1>0, <2>3, <2>5, ChainOther
    <3>2. ConnectionsOf(q)' = ConnectionsOf(q)
      BY <2>5 DEF ConnectionsOf
    <3> QED BY <1>1, <2>1, <2>2, <3>1, <3>2 DEF OnTrack
  <2> QED BY <2>4, <2>5
<1>5. ReaderEmpty'
  BY DEF TableInv, ReaderEmpty
<1> QED BY <1>2, <1>3, <1>4, <1>5 DEF TableInv

LEMMA ServicesTable ==
  ASSUME Inv, TableInv, Services PROVE TableInv'
<1>0. qp \in [Qps -> {"none", "new", "ready"} \cup Dests]
  BY DEF Inv, TypeOK
<1>p. "none" \notin Peers /\ "new" \notin Peers /\ "ready" \notin Peers
  BY QpsAssumption
<1>1. ASSUME NEW q \in Qps, CreateQP(q) PROVE TableInv'
  <2>1. /\ UNCHANGED <<eventCh, proc, ring, monitor, activeFlows, tainted>>
        /\ qp[q] = "none" /\ \E s \in {"new", "ready"} : qp' = [qp EXCEPT ![q] = s]
    BY <1>1 DEF CreateQP, procVars, flowVars
  <2>2. \A r \in Qps : ConnectionsOf(r)' = ConnectionsOf(r)
    BY <1>0, <1>p, <2>1 DEF ConnectionsOf
  <2>3. Unhandled' = Unhandled
    BY <2>1, UnhandledSame
  <2>4. ReaderEmpty'
    BY <2>1 DEF TableInv, ReaderEmpty
  <2> QED BY <2>1, <2>2, <2>3, <2>4, TableQuiet
<1>2. ASSUME NEW q \in Qps, NEW dst \in DestsOf[q], ModifyQP(q, dst)
      PROVE  TableInv'
  <2>1. dst \in Dests /\ q[1] \in Devices
    BY QpsAssumption DEF Dests
  <2>2. PICK gid \in ReadGids(q), ok \in BOOLEAN :
          /\ qp' = IF ok THEN [qp EXCEPT ![q] = dst] ELSE qp
          /\ Submit("modify", q, gid, dst,
                    gid # ZeroGid /\ ok /\ qp[q] \in {"ready", dst})
    BY <1>2, Zenon DEF ModifyQP
  <2>3. PICK e \in Events : e = [kind |-> "modify", qp |-> q, src |-> gid, dst |-> dst]
    BY <2>1, <2>2 DEF ReadGids, Events
  <2>4. e.qp = q /\ e.src = gid /\ e.kind = "modify" /\ e.dst = dst
        /\ gid \in {q[1], ZeroGid}
    BY <2>2, <2>3 DEF ReadGids
  <2>5. UNCHANGED <<eventCh, proc, monitor, activeFlows>>
    BY <1>2 DEF ModifyQP, procVars, flowVars
  <2>6. \A r \in Qps : r # q => qp'[r] = qp[r]
    BY <1>0, <2>2
  <2>7. CASE /\ ring' = ring \/ ring' = Append(ring, e)
             /\ tainted' = tainted \cup {q}
    BY <2>4, <2>5, <2>6, <2>7, UntruthTable
  <2>8. CASE /\ gid # ZeroGid /\ ok /\ qp[q] \in {"ready", dst}
             /\ ring' = Append(ring, e) /\ tainted' = tainted
    <3>1. qp'[q] = dst
      BY <1>0, <2>1, <2>2, <2>8
    <3>2. ConnectionsOf(q)' = After(e)
      BY <2>4, <3>1 DEF ConnectionsOf, After
    <3>3. Allows(ConnectionsOf(q), e)
      BY <1>p, <2>4, <2>8 DEF ConnectionsOf, Allows
    <3> QED BY <2>4, <2>5, <2>6, <2>8, <3>2, <3>3, TruthTable
  <2> QED BY Zenon, <2>2, <2>3, <2>7, <2>8 DEF Submit
<1>3. ASSUME NEW q \in Qps, DestroyQP(q) PROVE TableInv'
  <2>1. NoDst \in Dests /\ q[1] \in Devices
    BY QpsAssumption DEF Dests
  <2>2. PICK gid \in ReadGids(q), ok \in BOOLEAN :
          /\ qp' = IF ok THEN [qp EXCEPT ![q] = "none"] ELSE qp
          /\ IF qp[q] = "new"
             THEN UNCHANGED <<ring, tainted>>
             ELSE Submit("destroy", q, gid, NoDst, gid # ZeroGid /\ ok)
    BY <1>3, Zenon DEF DestroyQP
  <2>3. PICK e \in Events : e = [kind |-> "destroy", qp |-> q, src |-> gid, dst |-> NoDst]
    BY <2>1, <2>2 DEF ReadGids, Events
  <2>4. e.qp = q /\ e.src = gid /\ e.kind = "destroy" /\ gid \in {q[1], ZeroGid}
    BY <2>2, <2>3 DEF ReadGids
  <2>5. UNCHANGED <<eventCh, proc, monitor, activeFlows>>
    BY <1>3 DEF DestroyQP, procVars, flowVars
  <2>6. \A r \in Qps : r # q => qp'[r] = qp[r]
    BY <1>0, <2>2
  <2>7. CASE qp[q] = "new"
    <3>1. UNCHANGED <<ring, tainted>>
      BY <2>2, <2>7
    <3>2. qp'[q] \in {"new", "none"}
      BY <1>0, <2>2, <2>7
    <3>3. \A r \in Qps : ConnectionsOf(r)' = ConnectionsOf(r)
      BY <1>p, <2>6, <2>7, <3>2 DEF ConnectionsOf
    <3>4. Unhandled' = Unhandled
      BY <2>5, <3>1, UnhandledSame
    <3>5. ReaderEmpty'
      BY <2>5 DEF TableInv, ReaderEmpty
    <3> QED BY <2>5, <3>1, <3>3, <3>4, <3>5, TableQuiet
  <2>8. CASE /\ ring' = ring \/ ring' = Append(ring, e)
             /\ tainted' = tainted \cup {q}
    BY <2>4, <2>5, <2>6, <2>8, UntruthTable
  <2>9. CASE gid # ZeroGid /\ ok /\ ring' = Append(ring, e) /\ tainted' = tainted
    <3>1. qp'[q] = "none"
      BY <1>0, <2>2, <2>9
    <3>2. ConnectionsOf(q)' = After(e)
      BY <1>p, <2>4, <3>1 DEF ConnectionsOf, After
    <3>3. Allows(ConnectionsOf(q), e)
      BY <2>4 DEF Allows
    <3> QED BY <2>4, <2>5, <2>6, <2>9, <3>2, <3>3, TruthTable
  <2> QED BY Zenon, <2>2, <2>3, <2>7, <2>8, <2>9 DEF Submit
<1>4. ASSUME NEW q \in Qps, LeaveRTR(q) PROVE TableInv'
  <2>1. UNCHANGED <<eventCh, proc, ring, monitor, activeFlows, tainted, qp>>
    BY <1>4 DEF LeaveRTR, procVars, flowVars
  <2>2. Unhandled' = Unhandled /\ ReaderEmpty'
    BY <2>1, UnhandledSame DEF TableInv, ReaderEmpty
  <2>3. \A r \in Qps : ConnectionsOf(r)' = ConnectionsOf(r)
    BY <2>1 DEF ConnectionsOf
  <2> QED BY <2>1, <2>2, <2>3, TableQuiet
<1> QED BY <1>1, <1>2, <1>3, <1>4 DEF Services

(* The steps that only move an event, or nothing.                          *)
LEMMA ProcessTable ==
  ASSUME Inv, TableInv, ProcessEvents \/ CancelOnStop \/ StopTracer \/ StopMonitor
  PROVE  TableInv'
<1>1. UNCHANGED <<activeFlows, monitor, tainted, qp>>
  BY DEF ProcessEvents, CallRead, ReadEvent, ReadFails, SendEvent, SendCancelled,
     CancelOnStop, StopTracer, StopMonitor, ProcUnchanged, flowVars, kernelVars
<1>2. \A q \in Qps : ConnectionsOf(q)' = ConnectionsOf(q)
  BY <1>1 DEF ConnectionsOf
<1>3. proc \in Procs /\ ReaderEmpty
  BY DEF Inv, TypeOK, Procs, TableInv
<1>4. CASE ReadEvent
  <2>1. ReaderEmpty' /\ proc.event = NoEvent
    BY <1>3, <1>4 DEF ReadEvent, ReaderEmpty
  <2>2. Unhandled' = Unhandled
    BY <1>4, <2>1, ReadMoves
  <2> QED BY <1>1, <1>2, <2>1, <2>2, TableQuiet
<1>5. CASE SendEvent
  <2>1. ReaderEmpty'
    BY <1>5 DEF SendEvent, ReaderEmpty
  <2>2. Unhandled' = Unhandled
    BY <1>5, SendMoves
  <2> QED BY <1>1, <1>2, <2>1, <2>2, TableQuiet
<1>6. CASE CallRead \/ ReadFails \/ SendCancelled \/ CancelOnStop \/ StopTracer
           \/ StopMonitor
  <2>1. UNCHANGED <<eventCh, ring>>
    BY <1>6 DEF CallRead, ReadFails, SendCancelled, CancelOnStop, StopTracer,
       StopMonitor, kernelVars, procVars
  <2>2. proc'.event = proc.event
    BY <1>3, <1>6 DEF CallRead, ReadFails, SendCancelled, CancelOnStop, StopTracer,
       StopMonitor, procVars, Procs
  <2>3. proc'.at \in {"top", "read"} => proc.at \in {"top", "read"}
    BY <1>3, <1>6 DEF CallRead, ReadFails, SendCancelled, CancelOnStop, StopTracer,
       StopMonitor, procVars, Procs
  <2>4. ReaderEmpty'
    BY <1>3, <2>2, <2>3 DEF ReaderEmpty
  <2>5. Current' = Current /\ Carried' = Carried
    BY <1>1, <2>2 DEF Current, Carried
  <2>6. Unhandled' = Unhandled
    BY <2>1, <2>5 DEF Unhandled, Pipeline
  <2> QED BY <1>1, <1>2, <2>4, <2>6, TableQuiet
<1> QED BY <1>4, <1>5, <1>6 DEF ProcessEvents

LEMMA MonitorMoves ==
  ASSUME Inv, TableInv, Receive \/ NotifyProber \/ EndLoop PROVE TableInv'
<1>1. UNCHANGED <<activeFlows, tainted, qp, proc>>
  BY DEF Receive, NotifyProber, EndLoop, MonitorUnchanged, kernelVars
<1>2. \A q \in Qps : ConnectionsOf(q)' = ConnectionsOf(q)
  BY <1>1 DEF ConnectionsOf
<1>3. ReaderEmpty'
  BY <1>1 DEF TableInv, ReaderEmpty
<1>4. monitor \in Monitors
  BY DEF Inv, TypeOK, Monitors, MonitorAt
<1>5. monitor.at \in {"idle", "notify"} /\ monitor'.at \in {"check", "idle", "ended"}
  BY <1>4 DEF Receive, NotifyProber, EndLoop, Idle, Monitors
<1>6. Unhandled' = Unhandled
  <2>1. CASE Receive
    BY <2>1, ReceiveMoves
  <2>2. CASE NotifyProber \/ EndLoop
    <3>1. monitor'.at # "check"
      BY <1>4, <2>2 DEF NotifyProber, EndLoop, Monitors
    <3>2. UNCHANGED <<eventCh, proc, ring>>
      BY <2>2 DEF NotifyProber, EndLoop, MonitorUnchanged, kernelVars
    <3> QED BY <1>5, <3>1, <3>2, UnhandledSame
  <2> QED BY <2>1, <2>2
<1> QED BY <1>1, <1>2, <1>3, <1>5, <1>6, TableQuiet

(* The first event is handled: what is left of it to show.                 *)
LEMMA HandledTable ==
  ASSUME Inv, TableInv, monitor.at = "check", monitor'.at # "check",
         UNCHANGED <<eventCh, proc, ring, qp>>, tainted \subseteq tainted',
         Origins',
         \A q \in Qps \ tainted' :
           Table(q)' = IF q = monitor.event.qp THEN After(monitor.event) ELSE Table(q)
  PROVE  TableInv'
<1>1. /\ monitor.event \in Events /\ Unhandled \in Seq(Events)
      /\ Unhandled # <<>> /\ Head(Unhandled) = monitor.event
      /\ Tail(Unhandled) = Unhandled'
  BY HandledFirst, UnhandledType
<1>2. HonestEvents'
  <2>1. \A i \in 1..Len(Tail(Unhandled)) : i + 1 \in 1..Len(Unhandled)
          /\ Tail(Unhandled)[i] = Unhandled[i + 1]
    BY <1>1
  <2> QED BY <1>1, <2>1 DEF TableInv, HonestEvents, Honest
<1>3. ASSUME NEW q \in Qps \ tainted' PROVE OnTrack(q)'
  <2>1. OnTrack(q) /\ ConnectionsOf(q)' = ConnectionsOf(q)
    BY DEF TableInv, ConnectionsOf
  <2>a. PICK t, c : t = Table(q) /\ c = ConnectionsOf(q)
    OBVIOUS
  <2>b. PICK w \in Seq(Events), e \in Events : w = Unhandled /\ e = monitor.event
    BY <1>1
  <2>2. w = Unhandled /\ e = monitor.event /\ t = Table(q) /\ c = ConnectionsOf(q)
    BY <2>a, <2>b
  <2>3. Chain(w, q, t, c) /\ w # <<>> /\ Head(w) = e
    BY <1>1, <2>1, <2>2 DEF OnTrack
  <2>4. CASE q = e.qp
    <3>1. Chain(Tail(w), q, After(e), c)
      BY <2>3, <2>4, ChainHandled
    <3>2. Table(q)' = After(e)
      BY <2>2, <2>4
    <3>3. \A x, y \in After(e) : x = y
      BY DEF After
    <3> QED BY <1>1, <2>1, <2>2, <3>1, <3>2, <3>3 DEF OnTrack
  <2>5. CASE q # e.qp
    <3>1. Chain(Tail(w), q, t, c)
      BY <2>3, <2>5, ChainPasses
    <3>2. Table(q)' = t
      BY <2>2, <2>5
    <3> QED BY <1>1, <2>1, <2>2, <3>1, <3>2 DEF OnTrack
  <2> QED BY <2>4, <2>5
<1>4. ReaderEmpty'
  BY DEF TableInv, ReaderEmpty
<1> QED BY <1>2, <1>3, <1>4 DEF TableInv

(* What the invariant says of the event that is handled.                   *)
LEMMA EventFacts ==
  ASSUME Inv, TableInv, monitor.at = "check"
  PROVE  /\ monitor.event \in Events
         /\ Honest(monitor.event, tainted)
         /\ monitor.event.qp \notin tainted =>
              Allows(Table(monitor.event.qp), monitor.event)
<1>1. monitor.event \in Events /\ Pipeline \in Seq(Events) /\ Unhandled \in Seq(Events)
  BY UnhandledType DEF Inv, Carries
<1>2. Unhandled = <<monitor.event>> \o Pipeline
  BY DEF Unhandled, Current
<1>3. Unhandled # <<>> /\ Head(Unhandled) = monitor.event
  BY <1>1, <1>2, FirstAndRest
<1>4. Len(Unhandled) \in Nat \ {0} /\ Unhandled[1] = monitor.event
  BY <1>1, <1>3, EmptySeq
<1>5. Honest(monitor.event, tainted)
  BY <1>4 DEF TableInv, HonestEvents
<1>6. ASSUME monitor.event.qp \notin tainted
      PROVE  Allows(Table(monitor.event.qp), monitor.event)
  <2>1. monitor.event.qp \in Qps
    BY <1>1 DEF Events
  <2>a. PICK w \in Seq(Events), e \in Events : w = Unhandled /\ e = monitor.event
    BY <1>1
  <2>b. PICK t, c : t = Table(e.qp) /\ c = ConnectionsOf(e.qp)
    OBVIOUS
  <2>2. w = Unhandled /\ e = monitor.event /\ t = Table(e.qp) /\ c = ConnectionsOf(e.qp)
    BY <2>a, <2>b
  <2>3. Chain(w, e.qp, t, c) /\ w # <<>> /\ Head(w) = e
    BY <1>3, <1>6, <2>1, <2>2 DEF TableInv, OnTrack
  <2>4. Allows(t, e)
    BY <2>3, ChainHandled
  <2> QED BY <2>2, <2>4
<1> QED BY <1>1, <1>5, <1>6

LEMMA SkipTable ==
  ASSUME Inv, TableInv, SkipEvent PROVE TableInv'
<1>1. /\ monitor.at = "check" /\ monitor'.at = "idle"
      /\ tainted' = tainted \cup {monitor.event.qp}
      /\ UNCHANGED <<eventCh, proc, ring, qp, activeFlows>>
  BY IdleType DEF SkipEvent, Checked, MonitorUnchanged, kernelVars
<1>2. Origins'
  BY <1>1, OriginsTainted DEF TableInv
<1>3. \A q \in Qps \ tainted' : q # monitor.event.qp /\ Table(q)' = Table(q)
  BY <1>1, TableSame
<1> QED BY <1>1, <1>2, <1>3, HandledTable

(* Different texts are of different GIDs.                                  *)
LEMMA TextFacts ==
  /\ \A c, d : Hex(c) = Hex(d) => c = d
  /\ \A c, d : Hex(c) # Text(d)
  BY DEF Hex, Text

(* A queue pair is its device and its number.                              *)
LEMMA QpFacts ==
  ASSUME NEW q \in Qps, NEW r \in Qps, q[1] = r[1], q[2] = r[2]
  PROVE  q = r
<1>1. q = <<q[1], q[2]>> /\ r = <<r[1], r[2]>>
  BY QpsAssumption
<1> QED BY <1>1

(* A flow that a modify_qp leads to tells of its queue pair.               *)
LEMMA ModifyTable ==
  ASSUME Inv, TableInv, HandleModify PROVE TableInv'
<1>1. /\ monitor.at = "check" /\ monitor.event.kind = "modify"
      /\ UNCHANGED <<eventCh, proc, ring, qp, activeFlows, tainted>>
  BY DEF HandleModify, Checked, MonitorUnchanged, kernelVars
<1>2. PICK e \in Events : e = monitor.event
  BY <1>1, EventFacts
<1>3. Honest(e, tainted) /\ (e.qp \notin tainted => Allows(Table(e.qp), e))
  BY <1>1, <1>2, EventFacts
<1>4. PICK src \in SrcTexts(e) :
        monitor' = IF src = Hex(ZeroGid) \/ e.dst = NoDst THEN Idle
                   ELSE [Idle EXCEPT !.at = "lookup",
                           !.flow = [src |-> src, qpn |-> e.qp[2],
                                     dst |-> e.dst, of |-> e.qp]]
  BY <1>2 DEF HandleModify
<1>5. e.qp \in Qps /\ e.dst \in Dests /\ e.kind = "modify"
  BY <1>1, <1>2 DEF Events
<1>6. \A q \in Qps : FlowsOf(q)' = FlowsOf(q) /\ Table(q) = FlowsOf(q)
  BY <1>1 DEF FlowsOf, Table
<1>7. e.qp \notin tainted => src # Hex(ZeroGid)
  <2> SUFFICES ASSUME e.qp \notin tainted PROVE src # Hex(ZeroGid)
    OBVIOUS
  <2>1. e.src # ZeroGid
    BY <1>3 DEF Honest
  <2>2. src = Hex(e.src)
    BY <2>1 DEF SrcTexts
  <2> QED BY <2>1, <2>2, TextFacts
<1>8. FlowsOf(e.qp) \subseteq Peers
  <2>1. \A f \in activeFlows : f \in Flows
    BY DEF Inv, TypeOK
  <2>2. \A f \in activeFlows : f.dst \in Peers
    BY <2>1 DEF Flows
  <2> QED BY <2>2 DEF FlowsOf
<1>9. CASE src = Hex(ZeroGid) \/ e.dst = NoDst
  <2>1. monitor'.at = "idle"
    BY <1>4, <1>9, IdleType
  <2>2. Origins'
    BY <1>1, <2>1, OriginsTainted DEF TableInv
  <2>3. ASSUME NEW q \in Qps \ tainted
        PROVE  Table(q)' = IF q = e.qp THEN After(e) ELSE Table(q)
    <3>1. Table(q)' = Table(q)
      BY <1>1, <2>1, TableSame
    <3>2. CASE q # e.qp
      BY <3>1, <3>2
    <3>3. CASE q = e.qp
      <4>1. e.dst = NoDst
        BY <1>7, <1>9, <3>3
      <4>2. Table(q) \subseteq {NoDst} /\ Table(q) \subseteq Peers /\ NoDst \notin Peers
        BY <1>3, <1>5, <1>6, <1>8, <3>3, <4>1, QpsAssumption DEF Allows
      <4>3. After(e) = {}
        BY <4>1, <4>2 DEF After
      <4> QED BY <3>1, <3>3, <4>2, <4>3
    <3> QED BY <3>2, <3>3
  <2> QED BY <1>1, <1>2, <2>1, <2>2, <2>3, HandledTable
<1>10. CASE ~(src = Hex(ZeroGid) \/ e.dst = NoDst)
  <2>1. PICK f : f = [src |-> src, qpn |-> e.qp[2], dst |-> e.dst, of |-> e.qp]
    OBVIOUS
  <2>2. f.src = src /\ f.qpn = e.qp[2] /\ f.dst = e.dst /\ f.of = e.qp
    BY <2>1
  <2>3. monitor'.at = "lookup" /\ monitor'.flow = f
    BY <1>4, <1>10, <2>1 DEF Idle
  <2>4. \/ src = Hex(e.qp[1])
        \/ e.qp \in tainted /\ \E d \in Devices : src = Text(d)
    <3>1. CASE e.src # ZeroGid
      BY <1>3, <3>1 DEF SrcTexts, Honest
    <3>2. CASE e.src = ZeroGid
      BY <1>3, <1>10, <3>2 DEF SrcTexts, Honest
    <3> QED BY <3>1, <3>2
  <2>5. Origins'
    BY <1>1, <2>2, <2>3, <2>4 DEF TableInv, Origins, Origin
  <2>6. ASSUME NEW q \in Qps \ tainted
        PROVE  Table(q)' = IF q = e.qp THEN After(e) ELSE Table(q)
    <3>1. Table(q)' = FlowsOf(q) \cup (IF e.qp = q THEN {e.dst} ELSE {})
      BY <1>6, <2>2, <2>3 DEF Table
    <3>2. CASE q # e.qp
      BY <1>6, <3>1, <3>2
    <3>3. CASE q = e.qp
      <4>1. FlowsOf(q) \subseteq {e.dst}
        BY <1>3, <1>5, <1>6, <3>3 DEF Allows
      <4>2. After(e) = {e.dst}
        BY <1>5, <1>10 DEF After, Dests
      <4> QED BY <3>1, <3>3, <4>1, <4>2
    <3> QED BY <3>2, <3>3
  <2> QED BY <1>1, <1>2, <2>3, <2>5, <2>6, HandledTable
<1> QED BY <1>9, <1>10

(* The flow that takes the place of another in the map is of the same      *)
(* queue pair, or of a tainted one.                                        *)
LEMMA AddTable ==
  ASSUME Inv, TableInv, AddFlow PROVE TableInv'
<1>1. /\ monitor.at = "lookup" /\ monitor'.at = "notify"
      /\ UNCHANGED <<eventCh, proc, ring, qp, tainted>>
  BY MonitorFacts DEF AddFlow, MonitorUnchanged, kernelVars, MonitorAt
<1>2. PICK m \in Flows : m = monitor.flow
  BY <1>1 DEF Inv, Carries
<1>3. activeFlows' = {f \in activeFlows : ~SameKey(f, m)} \cup {m}
  BY <1>2 DEF AddFlow
<1>4. activeFlows \subseteq Flows /\ Origin(m) /\ \A f \in activeFlows : Origin(f)
  BY <1>1, <1>2 DEF Inv, TypeOK, TableInv, Origins
<1>5. ASSUME NEW f \in activeFlows, SameKey(f, m), f.of \notin tainted
      PROVE  f.of = m.of /\ f.dst = m.dst
  <2>1. f.src = m.src /\ f.qpn = m.qpn /\ f.dst = m.dst
    BY <1>5 DEF SameKey
  <2>2. f.of \in Qps /\ m.of \in Qps
    BY <1>4 DEF Flows
  <2>3. f.src = Hex(f.of[1])
    BY <1>4, <1>5 DEF Origin
  <2>4. m.src = Hex(m.of[1])
    BY <1>4, <2>1, <2>3, TextFacts DEF Origin
  <2>5. f.of[1] = m.of[1] /\ f.of[2] = m.of[2]
    BY <1>4, <2>1, <2>3, <2>4, TextFacts DEF Origin
  <2> QED BY <2>1, <2>2, <2>5, QpFacts
<1>6. ASSUME NEW q \in Qps \ tainted PROVE Table(q)' = Table(q)
  <2>1. Table(q)' = {f.dst : f \in {g \in activeFlows' : g.of = q}}
    BY <1>1 DEF Table, FlowsOf
  <2>2. Table(q) = {f.dst : f \in {g \in activeFlows : g.of = q}}
                     \cup (IF m.of = q THEN {m.dst} ELSE {})
    BY <1>1, <1>2 DEF Table, FlowsOf
  <2>3. ASSUME NEW x \in Table(q) PROVE x \in Table(q)'
    <3>1. CASE m.of = q /\ x = m.dst
      BY <1>3, <2>1, <3>1
    <3>2. ASSUME NEW f \in activeFlows, f.of = q, x = f.dst
          PROVE  x \in Table(q)'
      <4>1. CASE SameKey(f, m)
        BY <1>3, <1>5, <2>1, <3>2, <4>1
      <4>2. CASE ~SameKey(f, m)
        BY <1>3, <2>1, <3>2, <4>2
      <4> QED BY <4>1, <4>2
    <3> QED BY <2>2, <3>1, <3>2
  <2>4. Table(q)' \subseteq Table(q)
    BY <1>3, <2>1, <2>2
  <2> QED BY <2>3, <2>4
<1>7. Unhandled' = Unhandled
  BY <1>1, UnhandledSame
<1>8. HonestEvents'
  BY <1>1, <1>7 DEF TableInv, HonestEvents
<1>9. Origins'
  BY <1>1, <1>3, <1>4 DEF Origins, Origin
<1>10. \A q \in Qps \ tainted : OnTrack(q)'
  <2> SUFFICES ASSUME NEW q \in Qps \ tainted PROVE OnTrack(q)'
    OBVIOUS
  <2>1. OnTrack(q) /\ ConnectionsOf(q)' = ConnectionsOf(q)
    BY <1>1 DEF TableInv, ConnectionsOf
  <2> QED BY <1>6, <1>7, <2>1, OnTrackSame
<1>11. ReaderEmpty'
  BY <1>1 DEF TableInv, ReaderEmpty
<1> QED BY <1>1, <1>8, <1>9, <1>10, <1>11 DEF TableInv

(* The flow that a destroy_qp removes is the one of its queue pair.        *)
LEMMA DestroyTable ==
  ASSUME Inv, TableInv, HandleDestroy PROVE TableInv'
<1>1. /\ monitor.at = "check" /\ monitor.event.kind = "destroy"
      /\ UNCHANGED <<eventCh, proc, ring, qp, tainted>>
  BY DEF HandleDestroy, Checked, MonitorUnchanged, kernelVars
<1>2. PICK e \in Events : e = monitor.event
  BY <1>1, EventFacts
<1>3. Honest(e, tainted) /\ e.qp \in Qps /\ After(e) = {}
  BY <1>1, <1>2, EventFacts DEF Events, After
<1>4. PICK src \in SrcTexts(e) :
        \/ /\ {f \in activeFlows : Matches(f, e, src)} = {}
           /\ monitor' = Idle
           /\ UNCHANGED activeFlows
        \/ \E f \in {g \in activeFlows : Matches(g, e, src)} :
             /\ activeFlows' = activeFlows \ {f}
             /\ monitor' = [Idle EXCEPT !.at = "notify"]
  BY <1>2 DEF HandleDestroy
<1>5. monitor'.at \in {"idle", "notify"}
  <2>1. monitor' = Idle \/ monitor' = [Idle EXCEPT !.at = "notify"]
    BY <1>4
  <2> QED BY <2>1 DEF Idle
<1>6. activeFlows \subseteq Flows /\ \A f \in activeFlows : Origin(f)
  BY DEF Inv, TypeOK, TableInv, Origins
<1>7. ASSUME NEW f \in activeFlows, Matches(f, e, src)
      PROVE  f.of = e.qp \/ f.of \in tainted
  <2> SUFFICES ASSUME f.of \notin tainted PROVE f.of = e.qp
    OBVIOUS
  <2>1. f.src = Hex(f.of[1]) /\ f.qpn = f.of[2] /\ f.of \in Qps
    BY <1>6 DEF Origin, Flows
  <2>2. f.qpn = e.qp[2] /\ f.src = src
    BY <1>7 DEF Matches
  <2>3. f.of[1] \in Devices /\ ZeroGid \notin Devices
    BY <2>1, QpsAssumption
  <2>4. src = Hex(e.src) \/ src = Hex(ZeroGid) \/ \E d \in Devices : src = Text(d)
    BY DEF SrcTexts
  <2>5. f.of[1] = e.src /\ e.src # ZeroGid
    <3>1. src # Hex(ZeroGid) /\ ~\E d \in Devices : src = Text(d)
      BY <2>1, <2>2, <2>3, TextFacts
    <3>2. src = Hex(e.src)
      BY <2>4, <3>1
    <3> QED BY <2>1, <2>2, <3>1, <3>2, TextFacts
  <2>6. e.src = e.qp[1]
    BY <1>3, <2>5 DEF Honest
  <2> QED BY <1>3, <2>1, <2>2, <2>5, <2>6, QpFacts
<1>8. ASSUME e.qp \notin tainted, NEW f \in activeFlows
      PROVE  Matches(f, e, src) <=> f.of = e.qp
  <2>1. CASE Matches(f, e, src)
    <3>1. f.src = src /\ src = Hex(e.qp[1])
      BY <1>3, <1>8, <2>1 DEF Matches, SrcTexts, Honest
    <3>2. f.src = Hex(f.of[1]) /\ f.qpn = f.of[2] /\ f.of \in Qps
      BY <1>6, <3>1, TextFacts DEF Origin, Flows
    <3>3. f.of[1] = e.qp[1] /\ f.of[2] = e.qp[2]
      BY <2>1, <3>1, <3>2, TextFacts DEF Matches
    <3> QED BY <1>3, <2>1, <3>2, <3>3, QpFacts
  <2>2. CASE f.of = e.qp
    <3>1. src = Hex(e.qp[1])
      BY <1>3, <1>8 DEF SrcTexts, Honest
    <3>2. f.src = Hex(f.of[1]) /\ f.qpn = f.of[2]
      BY <1>6, <1>8, <2>2 DEF Origin
    <3> QED BY <2>2, <3>1, <3>2 DEF Matches
  <2> QED BY <2>1, <2>2
<1>9. \A q \in Qps : Table(q) = FlowsOf(q) /\ Table(q)' = FlowsOf(q)'
  BY <1>1, <1>5 DEF Table
<1>10. ASSUME NEW q \in Qps \ tainted
       PROVE  Table(q)' = IF q = e.qp THEN After(e) ELSE Table(q)
  <2>1. CASE q # e.qp
    <3>1. \A f \in activeFlows : f.of = q => f \in activeFlows'
      BY <1>4, <1>7, <2>1
    <3>2. activeFlows' \subseteq activeFlows
      BY <1>4
    <3>3. FlowsOf(q)' = FlowsOf(q)
      BY <3>1, <3>2 DEF FlowsOf
    <3> QED BY <1>9, <2>1, <3>3
  <2>2. CASE q = e.qp
    <3>1. \A f, g \in activeFlows : f.of = q /\ g.of = q => f = g
      <4> SUFFICES ASSUME NEW f \in activeFlows, NEW g \in activeFlows,
                          f.of = q, g.of = q
                   PROVE  f = g
        OBVIOUS
      <4>1. f.dst \in Table(q) /\ g.dst \in Table(q)
        BY <1>9 DEF FlowsOf
      <4>2. f.dst = g.dst
        BY <4>1 DEF TableInv, OnTrack
      <4>3. f.src = g.src /\ f.qpn = g.qpn
        BY <1>8, <2>2 DEF Matches
      <4>4. f \in Flows /\ g \in Flows
        BY <1>6
      <4> QED BY <4>2, <4>3, <4>4 DEF Flows
    <3>2. \A f \in activeFlows' : f.of # q
      BY <1>4, <1>8, <2>2, <3>1
    <3>3. FlowsOf(q)' = {}
      BY <3>2 DEF FlowsOf
    <3> QED BY <1>3, <1>9, <2>2, <3>3
  <2> QED BY <2>1, <2>2
<1>11. Origins'
  BY <1>1, <1>4, <1>5, <1>6 DEF Origins, Origin
<1> QED BY <1>1, <1>2, <1>5, <1>10, <1>11, HandledTable

LEMMA NextTable == Inv /\ TableInv /\ [Next]_vars => TableInv'
<1> SUFFICES ASSUME Inv, TableInv, [Next]_vars PROVE TableInv'
  OBVIOUS
<1>1. CASE UNCHANGED vars
  <2>1. UNCHANGED <<eventCh, proc, ring, monitor, activeFlows, tainted, qp>>
    BY <1>1 DEF vars, kernelVars, procVars, flowVars
  <2>2. Unhandled' = Unhandled /\ ReaderEmpty'
    BY <2>1, UnhandledSame DEF TableInv, ReaderEmpty
  <2>3. \A q \in Qps : ConnectionsOf(q)' = ConnectionsOf(q)
    BY <2>1 DEF ConnectionsOf
  <2> QED BY <2>1, <2>2, <2>3, TableQuiet
<1> QED BY <1>1, ServicesTable, ProcessTable, MonitorMoves, SkipTable, ModifyTable,
           AddTable, DestroyTable DEF Next, Step, EventLoop

LEMMA InitTable == Init => TableInv
<1> SUFFICES ASSUME Init PROVE TableInv
  OBVIOUS
<1>1. /\ eventCh = <<>> /\ ring = <<>> /\ proc.event = NoEvent /\ monitor.at = "idle"
      /\ activeFlows = {} /\ qp = [q \in Qps |-> "none"]
  BY IdleType DEF Init
<1>2. Unhandled = <<>>
  <2>1. Current = <<>> /\ Carried = <<>>
    BY <1>1 DEF Current, Carried
  <2>2. <<>> \in Seq(Events)
    BY EmptySeq
  <2>3. <<>> \o <<>> = <<>>
    BY <2>2, ConcatEmptySeq
  <2> QED BY <1>1, <2>1, <2>3 DEF Unhandled, Pipeline
<1>3. Len(<<>>) = 0
  OBVIOUS
<1>4. \A q \in Qps : Table(q) = {} /\ ConnectionsOf(q) = {}
  BY <1>1, QpsAssumption DEF Table, FlowsOf, ConnectionsOf
<1>5. \A q \in Qps : Chain(<<>>, q, {}, {})
  BY <1>3 DEF Chain, TableAt
<1>6. \A q \in Qps : OnTrack(q)
  BY <1>2, <1>4, <1>5 DEF OnTrack
<1>7. ReaderEmpty /\ HonestEvents /\ Origins
  BY <1>1, <1>2, <1>3 DEF ReaderEmpty, HonestEvents, Origins
<1> QED BY <1>6, <1>7 DEF TableInv

LEMMA TableImplies == Inv /\ TableInv => TableExact
<1> SUFFICES ASSUME Inv, TableInv, NEW q \in Qps \ tainted, Settled(q)
             PROVE  /\ FlowsOf(q) = ConnectionsOf(q)
                    /\ monitor.at \in {"idle", "ended"} =>
                         {f.dst : f \in {g \in targets : g.of = q}} = ConnectionsOf(q)
  BY DEF TableExact
<1>1. /\ Current \in Seq(Events) /\ Pipeline \in Seq(Events)
      /\ Unhandled \in Seq(Events)
  BY UnhandledType
<1>2. \A i \in 1..Len(Unhandled) : Unhandled[i].qp # q
  <2>1. \A i \in 1..Len(Current) : Current[i].qp # q
    BY DEF Settled, Current
  <2>2. \A i \in 1..Len(Pipeline) : Pipeline[i].qp # q
    BY <1>1, LenProperties DEF Settled
  <2>3. PICK s \in Seq(Events), t \in Seq(Events) : s = Current /\ t = Pipeline
    BY <1>1
  <2>4. Unhandled = s \o t /\ Len(s) \in Nat /\ Len(t) \in Nat
    BY <2>3, LenProperties DEF Unhandled
  <2>5. Len(s \o t) = Len(s) + Len(t)
        /\ \A i \in 1..(Len(s) + Len(t)) :
             (s \o t)[i] = IF i <= Len(s) THEN s[i] ELSE t[i - Len(s)]
    BY <2>3, ConcatProperties
  <2>6. ASSUME NEW i \in 1..(Len(s) + Len(t)) PROVE (s \o t)[i].qp # q
    <3>1. CASE i <= Len(s)
      BY <2>1, <2>3, <2>4, <2>5, <3>1
    <3>2. CASE ~(i <= Len(s))
      <4>1. i - Len(s) \in 1..Len(t)
        BY <2>4, <3>2
      <4> QED BY <2>2, <2>3, <2>5, <3>2, <4>1
    <3> QED BY <3>1, <3>2
  <2> QED BY <2>4, <2>5, <2>6
<1>3. PICK t, c : t = Table(q) /\ c = ConnectionsOf(q)
  OBVIOUS
<1>4. Chain(Unhandled, q, t, c)
  BY <1>3 DEF TableInv, OnTrack
<1>5. t = c
  BY <1>1, <1>2, <1>4, ChainDone
<1>6. Table(q) = FlowsOf(q)
  BY DEF Settled, Table
<1>7. monitor.at \in {"idle", "ended"} => targets = activeFlows
  BY DEF Inv, Carries
<1> QED BY <1>3, <1>5, <1>6, <1>7 DEF FlowsOf

(* Once the events of a queue pair are handled, the table of flows says of *)
(* it what the kernel says, for any number of services, connections and    *)
(* reuses of a QPN and any delays between kernel, ring buffer, channel and *)
(* monitor, unless one of its events went wrong (handleEbpfEvent).         *)
THEOREM TableIsExact == Spec => []TableExact
<1> QED BY InitTable, NextTable, TableImplies, Invariance, PTL DEF Spec

=============================================================================
