---------------------------- MODULE ServiceFlow ----------------------------
(***************************************************************************)
(* Service tracing: the eBPF hooks on the kernel's modify_qp and           *)
(* destroy_qp (internal/ebpf/bpf/rdma_tracing.c), the ring buffer and the  *)
(* goroutine that moves its events to a Go channel                         *)
(* (internal/ebpf/rdma_tracing.go), the ServiceFlowMonitor that keeps the  *)
(* table of active flows, and the prober's list and loop of service        *)
(* probes (internal/probe/prober.go).                                      *)
(*                                                                         *)
(* The queue pairs are those of the services on the host, not the agent's. *)
(* A destination GID and QPN is one value, NoDst when either is zero.      *)
(***************************************************************************)
EXTENDS Integers, Sequences

CONSTANTS
  Devices,     \* local RNICs, each standing for its GID
  Qps,         \* queue pairs of services, as <<device, qpn>>
  Peers,       \* destinations (GID and QPN) of connections
  DestsOf,     \* what each queue pair may be connected to
  OwnQpns,     \* the QPNs of the agent's own queues on each device
  Hooks,       \* the kernel functions that a kprobe could be attached to
  NoDst,
  ZeroGid,
  BootTime,    \* the wall clock (UnixNano) when the kernel's clock was 0
  Hour,        \* time.Hour
  Word,        \* 2^64
  RingCap,     \* events that fit into the ring buffer
  ChanCap,     \* capacity of eventCh
  MaxUptime,   \* bound: the kernel's clock
  MaxOps,      \* bound: calls of services that the hooks see
  MaxFaults    \* bound: failed calls and failed reads of the GID

QpnSet == {q[2] : q \in Qps} \cup UNION {OwnQpns[d] : d \in Devices}

(* A QPN is unique on its device, and the agent's queues live longer than  *)
(* the tracer.                                                             *)
ASSUME QpsAssumption ==
  /\ \A q \in Qps : q = <<q[1], q[2]>> /\ q[1] \in Devices
  /\ \A q \in Qps : q[2] \notin OwnQpns[q[1]]
  /\ ZeroGid \notin Devices
  /\ NoDst \notin Peers
  /\ DestsOf \in [Qps -> SUBSET (Peers \cup {NoDst})]
  /\ \A d \in Peers \cup {NoDst} : d \notin {"none", "new", "ready"}
ASSUME HooksAssumption ==
  Hooks \in (SUBSET {"modify", "destroy"}) \ {{}}
ASSUME TimeAssumption ==
  /\ BootTime \in Nat
  /\ Hour \in Nat
  /\ MaxUptime \in Nat
  /\ Word \in Nat
  /\ Word > BootTime + MaxUptime
  /\ Word > Hour
ASSUME BoundsAssumption ==
  /\ RingCap \in Nat \ {0}
  /\ ChanCap \in Nat \ {0}
  /\ MaxOps \in Nat
  /\ MaxFaults \in Nat

VARIABLES
  ops, faults, \* calls of services, and what failed in them, so far
  qp,          \* the kernel's queue pairs and what they were last
               \* connected to
  left,        \* those that were moved to RESET or ERR since
  hooks,       \* the attached kprobes
  ring,        \* rdma_events
  reader,      \* ServiceTracer.reader: open, closed or nil
  proc,        \* the goroutine of processEvents and the event it carries
  ctxDone,     \* the context of processEvents is cancelled
  eventCh,     \* ServiceTracer.eventCh
  stopping,    \* progress of ServiceTracer.Stop
  sfm,         \* ServiceFlowMonitor: on, cancelled, stopped
  monitor,     \* its event loop and the flow it is about to add
  activeFlows, \* ServiceFlowMonitor.activeFlows
  targets,     \* Prober.serviceFlowTargets
  tainted,     \* history: queue pairs of which some event went wrong
  crashed

kernelVars == <<ops, faults, qp, left, hooks, ring>>
procVars   == <<reader, proc, ctxDone, eventCh>>
stopVars   == <<stopping, sfm>>
flowVars   == <<monitor, activeFlows, targets>>
vars == <<kernelVars, procVars, stopVars, flowVars, tainted, crashed>>

Dests == Peers \cup {NoDst}
NoEvent == [kind |-> "none"]
NoFlow  == [qpn |-> 0]
NoTime  == [ts |-> 0, uptime |-> 0]
Idle    == [at |-> "idle", event |-> NoEvent, time |-> NoTime, flow |-> NoFlow]

(* ServiceTracer.Start has attached the kprobes, at least one, and         *)
(* launched processEvents; ServiceFlowMonitor.Start has launched the event *)
(* loop.  Qps are created later than that.                                 *)
Init ==
  /\ ops = 0
  /\ faults = 0
  /\ qp = [q \in Qps |-> "none"]
  /\ left = {}
  /\ hooks = Hooks
  /\ ring = <<>>
  /\ reader = "open"
  /\ proc = [at |-> "top", event |-> NoEvent]
  /\ ctxDone = FALSE
  /\ eventCh = <<>>
  /\ stopping = "no"
  /\ sfm = "on"
  /\ monitor = Idle
  /\ activeFlows = {}
  /\ targets = {}
  /\ tainted = {}
  /\ crashed = "no"

-----------------------------------------------------------------------------
(* The texts of a GID: an event's is the hex code of its bytes, an RNIC's  *)
(* the textual form of the address.                                        *)
Hex(gid)  == <<"hex", gid>>
Text(gid) == <<"text", gid>>

-----------------------------------------------------------------------------
(* External: the services and the kernel.  The hooks run when a call       *)
(* begins, whether or not it then succeeds.                                *)

Call(fault) ==
  /\ ops < MaxOps
  /\ ops' = ops + 1
  /\ fault => faults < MaxFaults
  /\ faults' = IF fault THEN faults + 1 ELSE faults

(* A queue pair is created and, as a rule, given a port (INIT).            *)
CreateQP(q) ==
  /\ qp[q] = "none"
  /\ \E state \in {"new", "ready"} : qp' = [qp EXCEPT ![q] = state]
  /\ UNCHANGED <<ops, faults, left, hooks, ring, procVars, stopVars,
                 flowVars, tainted, crashed>>

(* init_rdma_event and the submit.  Without the hook, or without space in  *)
(* the ring buffer, there is no event.  What makes an event less than the  *)
(* truth about its queue pair taints that.                                 *)
Submit(kind, q, gid, dst, truthful) ==
  LET event == [kind |-> kind, qp |-> q, src |-> gid, dst |-> dst]
      submitted == kind \in hooks /\ Len(ring) < RingCap
  IN  /\ ring' = IF submitted THEN Append(ring, event) ELSE ring
      /\ tainted' = IF submitted /\ truthful THEN tainted
                    ELSE tainted \cup {q}

(* read_source_gid_core: the GID, or zero if some structure is not as      *)
(* expected.                                                               *)
ReadGids(q) == {q[1], ZeroGid}

(* trace_modify_qp of a transition to RTR, which a queue pair can make     *)
(* that is not connected or has been reset.                                *)
ModifyQP(q, dst) ==
  /\ qp[q] # "none"
  /\ \E gid \in ReadGids(q), ok \in BOOLEAN :
       /\ Call(gid = ZeroGid \/ ~ok)
       /\ ok => qp[q] = "ready" \/ q \in left
       /\ qp' = IF ok THEN [qp EXCEPT ![q] = dst] ELSE qp
       /\ left' = IF ok THEN left \ {q} ELSE left
       /\ Submit("modify", q, gid, dst,
                 gid # ZeroGid /\ ok /\ qp[q] \in {"ready", dst})
  /\ UNCHANGED <<hooks, procVars, stopVars, flowVars, crashed>>

(* trace_modify_qp of a transition to RESET or ERR: the hook returns and   *)
(* there is no event.                                                      *)
LeaveRTR(q) ==
  /\ qp[q] \in Dests
  /\ q \notin left
  /\ Call(FALSE)
  /\ left' = left \cup {q}
  /\ UNCHANGED <<qp, hooks, ring, procVars, stopVars, flowVars, tainted, crashed>>

(* trace_destroy_qp_user; a queue pair without a port is not reported.     *)
DestroyQP(q) ==
  /\ qp[q] # "none"
  /\ \E gid \in ReadGids(q), ok \in BOOLEAN :
       /\ Call(gid = ZeroGid \/ ~ok)
       /\ qp' = IF ok THEN [qp EXCEPT ![q] = "none"] ELSE qp
       /\ left' = IF ok THEN left \ {q} ELSE left
       /\ IF qp[q] = "new"
          THEN UNCHANGED <<ring, tainted>>
          ELSE Submit("destroy", q, gid, NoDst, gid # ZeroGid /\ ok)
  /\ UNCHANGED <<hooks, procVars, stopVars, flowVars, crashed>>

-----------------------------------------------------------------------------
(* ServiceTracer.                                                          *)

ProcUnchanged == UNCHANGED <<ops, faults, qp, left, hooks, stopVars,
                             flowVars, tainted>>

(* The loop of processEvents calls t.reader.Read(), which waits for an     *)
(* event or for the reader to be closed; on an error the loop only ends    *)
(* when the context is done.                                               *)
CallRead ==
  /\ proc.at = "top"
  /\ \/ /\ reader = "nil"
        /\ crashed' = "nil reader"
        /\ UNCHANGED proc
     \/ /\ reader # "nil"
        /\ proc' = [proc EXCEPT !.at = "read"]
        /\ UNCHANGED crashed
  /\ UNCHANGED <<ring, reader, ctxDone, eventCh>>
  /\ ProcUnchanged

ReadEvent ==
  /\ proc.at = "read"
  /\ reader = "open"
  /\ ring # <<>>
  /\ proc' = [at |-> "send", event |-> Head(ring)]
  /\ ring' = Tail(ring)
  /\ UNCHANGED <<reader, ctxDone, eventCh, crashed>>
  /\ ProcUnchanged

ReadFails ==
  /\ proc.at = "read"
  /\ reader # "open"
  /\ proc' = [proc EXCEPT !.at = IF ctxDone THEN "ended" ELSE "top"]
  /\ UNCHANGED <<ring, reader, ctxDone, eventCh, crashed>>
  /\ ProcUnchanged

(* Mutant: an event is dropped while the channel is full.                  *)
SendOrDrop ==
  /\ proc.at = "send"
  /\ eventCh' = IF Len(eventCh) < ChanCap THEN Append(eventCh, proc.event)
                ELSE eventCh
  /\ proc' = [at |-> "top", event |-> NoEvent]
  /\ UNCHANGED <<ring, reader, ctxDone, crashed>>
  /\ ProcUnchanged

(* The send blocks while the channel is full, ...                          *)
SendEvent ==
  /\ proc.at = "send"
  /\ Len(eventCh) < ChanCap
  /\ eventCh' = Append(eventCh, proc.event)
  /\ proc' = [at |-> "top", event |-> NoEvent]
  /\ UNCHANGED <<ring, reader, ctxDone, crashed>>
  /\ ProcUnchanged

(* Mutant: the send does not look at the context.                          *)
SendUncancelled ==
  /\ FALSE
  /\ UNCHANGED vars

(* ... or until the context is done.                                       *)
SendCancelled ==
  /\ proc.at = "send"
  /\ ctxDone
  /\ proc' = [proc EXCEPT !.at = "ended"]
  /\ UNCHANGED <<ring, reader, ctxDone, eventCh, crashed>>
  /\ ProcUnchanged

(* The goroutine that waits for stopCh and cancels the context.            *)
CancelOnStop ==
  /\ stopping # "no"
  /\ ~ctxDone
  /\ ctxDone' = TRUE
  /\ UNCHANGED <<ring, reader, proc, eventCh, crashed>>
  /\ ProcUnchanged

(* Stop, called after ServiceFlowMonitor.Stop: stopCh is closed and the    *)
(* hooks are detached, then the reader is closed and at last set to nil.   *)
StopTracer ==
  /\ \/ /\ stopping = "no"
        /\ sfm = "stopped"
        /\ stopping' = "detached"
        /\ hooks' = {}
        /\ UNCHANGED reader
     \/ /\ stopping = "detached"
        /\ stopping' = "reader closed"
        /\ reader' = "closed"
        /\ UNCHANGED hooks
     \/ /\ stopping = "reader closed"
        /\ stopping' = "done"
        /\ reader' = "nil"
        /\ UNCHANGED hooks
  /\ UNCHANGED <<ops, faults, qp, left, ring, proc, ctxDone, eventCh, sfm,
                 flowVars, tainted, crashed>>

-----------------------------------------------------------------------------
(* ServiceFlowMonitor.eventLoop and handleEbpfEvent.                       *)

MonitorUnchanged == UNCHANGED <<kernelVars, reader, proc, ctxDone, stopVars, crashed>>

(* The kernel's clock is not kept in the state: an event that is received  *)
(* may have any timestamp, and any time may have passed since.             *)
Times == {t \in [ts : 0..MaxUptime, uptime : 0..MaxUptime] : t.ts <= t.uptime}

Receive ==
  /\ monitor.at = "idle"
  /\ sfm \in {"on", "cancelled"}
  /\ eventCh # <<>>
  /\ \E t \in Times : monitor' =
         [Idle EXCEPT !.at = "check", !.event = Head(eventCh), !.time = t]
  /\ eventCh' = Tail(eventCh)
  /\ UNCHANGED <<activeFlows, targets, tainted>>
  /\ MonitorUnchanged

(* ValidateStructAlignment: the timestamp must not be later than now or    *)
(* more than an hour earlier, in unsigned arithmetic.  It is the kernel's  *)
(* time since boot, now is the wall clock.                                 *)
Valid(t) ==
  LET now == BootTime + t.uptime
  IN  t.ts <= now /\ t.ts >= (now - Hour) % Word

(* fillMissingSrcGID and its callers: the text of the source GID, which    *)
(* stays that of the zero GID if no own queue has the QPN.                 *)
SrcTexts(e) ==
  LET owners == {d \in Devices : e.qp[2] \in OwnQpns[d]}
  IN  CASE e.src # ZeroGid -> {Hex(e.src)}
        [] e.src = ZeroGid /\ owners # {} -> {Text(d) : d \in owners}
        [] e.src = ZeroGid /\ owners = {} -> {Hex(ZeroGid)}

Checked == UNCHANGED <<eventCh, targets>> /\ MonitorUnchanged

SkipEvent ==
  /\ monitor.at = "check"
  /\ ~Valid(monitor.time)
  /\ tainted' = tainted \cup {monitor.event.qp}
  /\ monitor' = Idle
  /\ UNCHANGED activeFlows
  /\ Checked

(* MODIFY_QP: a flow needs a source GID and a destination.  of is history: *)
(* the queue pair the flow comes from.                                     *)
HandleModify ==
  LET e == monitor.event
  IN  /\ monitor.at = "check"
      /\ Valid(monitor.time)
      /\ e.kind = "modify"
      /\ \E src \in SrcTexts(e) :
           monitor' = IF src = Hex(ZeroGid) \/ e.dst = NoDst THEN Idle
                      ELSE [Idle EXCEPT
                              !.at = "lookup",
                              !.flow = [src |-> src, qpn |-> e.qp[2],
                                        dst |-> e.dst, of |-> e.qp]]
      /\ UNCHANGED <<activeFlows, tainted>>
      /\ Checked

(* The flows are a map keyed by everything but the history.                *)
SameKey(f, g) == f.src = g.src /\ f.qpn = g.qpn /\ f.dst = g.dst

(* GetTargetRnicInfo returns, with or without an answer; then the flow is  *)
(* added.                                                                  *)
AddFlow ==
  /\ monitor.at = "lookup"
  /\ activeFlows' = {f \in activeFlows : ~SameKey(f, monitor.flow)}
                      \cup {monitor.flow}
  /\ monitor' = [Idle EXCEPT !.at = "notify"]
  /\ UNCHANGED <<eventCh, targets, tainted>>
  /\ MonitorUnchanged

Matches(f, e, src) == f.qpn = e.qp[2] /\ f.src = src

(* Mutant: the prober is notified under activeFlowsMutex, which it needs.  *)
HandleDestroyDeadlocks ==
  /\ monitor.at = "check"
  /\ Valid(monitor.time)
  /\ monitor.event.kind = "destroy"
  /\ \A f \in activeFlows, src \in SrcTexts(monitor.event) :
       ~Matches(f, monitor.event, src)
  /\ monitor' = Idle
  /\ UNCHANGED <<activeFlows, tainted>>
  /\ Checked

(* DESTROY_QP removes the first matching flow it meets in the map.         *)
HandleDestroy ==
  LET e == monitor.event
  IN  /\ monitor.at = "check"
      /\ Valid(monitor.time)
      /\ e.kind = "destroy"
      /\ \E src \in SrcTexts(e) :
           LET found == {f \in activeFlows : Matches(f, e, src)}
           IN  \/ /\ found = {}
                  /\ monitor' = Idle
                  /\ UNCHANGED activeFlows
               \/ \E f \in found :
                    /\ activeFlows' = activeFlows \ {f}
                    /\ monitor' = [Idle EXCEPT !.at = "notify"]
      /\ UNCHANGED tainted
      /\ Checked

(* notifyProberUpdate.                                                     *)
NotifyProber ==
  /\ monitor.at = "notify"
  /\ targets' = activeFlows
  /\ monitor' = [monitor EXCEPT !.at = "idle"]
  /\ UNCHANGED <<activeFlows, eventCh, tainted>>
  /\ MonitorUnchanged

EndLoop ==
  /\ monitor.at = "idle"
  /\ sfm = "cancelled"
  /\ monitor' = [monitor EXCEPT !.at = "ended"]
  /\ UNCHANGED <<activeFlows, targets, eventCh, tainted>>
  /\ MonitorUnchanged

(* ServiceFlowMonitor.Stop cancels the context and waits for the loop.     *)
StopMonitor ==
  /\ \/ sfm = "on" /\ sfm' = "cancelled"
     \/ sfm = "cancelled" /\ monitor.at = "ended" /\ sfm' = "stopped"
  /\ UNCHANGED <<kernelVars, procVars, stopping, flowVars, tainted,
                 crashed>>

-----------------------------------------------------------------------------
(* Prober.runServiceProbingLoop: at each tick it copies the list and       *)
(* launches a probe for each flow whose source GID, by its text, is that   *)
(* of a local RNIC.                                                        *)
RnicOf(f) == {d \in Devices : f.src = Text(d)}

ServiceProbes ==
  {p \in [rnic : Devices, flow : targets] : p.rnic \in RnicOf(p.flow)}

-----------------------------------------------------------------------------
(* Bound: the services make no more calls once tracing is being stopped;   *)
(* their events would stay unread.                                         *)
Services ==
  /\ sfm = "on"
  /\ \/ \E q \in Qps : CreateQP(q)
     \/ \E q \in Qps : \E dst \in DestsOf[q] : ModifyQP(q, dst)
     \/ \E q \in Qps : LeaveRTR(q)
     \/ \E q \in Qps : DestroyQP(q)

ProcessEvents ==
  \/ CallRead
  \/ ReadEvent
  \/ ReadFails
  \/ SendEvent
  \/ SendCancelled

EventLoop ==
  \/ Receive
  \/ SkipEvent
  \/ HandleModify
  \/ AddFlow
  \/ HandleDestroy
  \/ NotifyProber
  \/ EndLoop

Step ==
  \/ Services
  \/ ProcessEvents
  \/ CancelOnStop
  \/ StopTracer
  \/ EventLoop
  \/ StopMonitor

Next == crashed = "no" /\ Step

(* The Go scheduler runs each goroutine that is not blocked; the services, *)
(* the clock and the signal that stops the agent are not forced.           *)
Fairness ==
  /\ WF_vars(crashed = "no" /\ ProcessEvents)
  /\ WF_vars(crashed = "no" /\ CancelOnStop)
  /\ WF_vars(crashed = "no" /\ EventLoop)
  /\ WF_vars(crashed = "no" /\ StopTracer)

Spec == Init /\ [][Next]_vars /\ Fairness

-----------------------------------------------------------------------------
Texts  == {"hex", "text"} \X (Devices \cup {ZeroGid})
Events == [kind : {"modify", "destroy"}, qp : Qps,
           src : Devices \cup {ZeroGid}, dst : Dests]
Flows  == [src : Texts, qpn : QpnSet, dst : Peers, of : Qps]

TypeOK ==
  /\ ops \in 0..MaxOps
  /\ faults \in 0..MaxFaults
  /\ qp \in [Qps -> {"none", "new", "ready"} \cup Dests]
  /\ left \subseteq Qps
  /\ hooks \subseteq {"modify", "destroy"}
  /\ ring \in Seq(Events)
  /\ reader \in {"open", "closed", "nil"}
  /\ proc \in [at : {"top", "read", "send", "ended"},
               event : Events \cup {NoEvent}]
  /\ ctxDone \in BOOLEAN
  /\ eventCh \in Seq(Events)
  /\ stopping \in {"no", "detached", "reader closed", "done"}
  /\ sfm \in {"on", "cancelled", "stopped"}
  /\ monitor \in [at : {"idle", "check", "lookup", "notify", "ended"},
                  event : Events \cup {NoEvent}, time : Times,
                  flow : Flows \cup {NoFlow}]
  /\ activeFlows \subseteq Flows
  /\ targets \subseteq Flows
  /\ tainted \subseteq Qps
  /\ crashed \in {"no", "nil reader"}

Carried  == IF proc.event = NoEvent THEN <<>> ELSE <<proc.event>>
Pipeline == eventCh \o Carried \o ring

(* The destinations the table has for a queue pair, and the ones the       *)
(* kernel has.                                                             *)
FlowsOf(q) == {f.dst : f \in {g \in activeFlows : g.of = q}}
ConnectionsOf(q) == {qp[q]} \cap Peers

Settled(q) ==
  /\ \A i \in DOMAIN Pipeline : Pipeline[i].qp # q
  /\ monitor.at = "check" => monitor.event.qp # q
  /\ monitor.at = "lookup" => monitor.flow.of # q

(* Once the events of a queue pair are handled, the table of flows, and    *)
(* between two events the prober's list as well, says of it what the       *)
(* kernel says, also after its QPN was used again, unless one of its       *)
(* events was lost, rejected or read without its GID, its hook is missing, *)
(* a hooked call failed, or it was connected again to something else.  A   *)
(* queue pair that was moved to RESET or ERR counts as connected: the hook *)
(* only knows the transition to RTR, and the flow stays until the queue    *)
(* pair is destroyed.                                                      *)
TableExact ==
  \A q \in Qps \ tainted :
    Settled(q) => /\ FlowsOf(q) = ConnectionsOf(q)
                  /\ monitor.at \in {"idle", "ended"} =>
                       {f.dst : f \in {g \in targets : g.of = q}}
                         = ConnectionsOf(q)

(* Outside of an event's handling the prober's list is the table.          *)
ProberKnows ==
  monitor.at \in {"idle", "ended"} => targets = activeFlows

(* What fillMissingSrcGID comes to: the text of an event's GID is never    *)
(* that of an RNIC's, so that the only service probes the prober launches  *)
(* are for queue pairs whose GID the hook could not read and whose QPN one *)
(* of the agent's queues has on another RNIC, and they leave from there.   *)
(* The code intends the opposite: it means to correlate the QPN with the   *)
(* local GID of the flow.                                                  *)
ProbesMisattributed ==
  \A p \in ServiceProbes :
    p.rnic # p.flow.of[1] /\ p.flow.qpn \in OwnQpns[p.rnic]

(* After ServiceFlowMonitor.Stop has returned, neither the table nor the   *)
(* prober's list changes.                                                  *)
QuietAfterStop ==
  [][sfm = "stopped" => UNCHANGED <<activeFlows, targets>>]_vars

(* processEvents ends after ServiceTracer.Stop, or panics on the reader    *)
(* that Stop has set to nil.                                               *)
ReaderEnds ==
  stopping # "no" ~> proc.at = "ended" \/ crashed # "no"

(* A destroyed queue pair leaves the prober's list, unless its QPN is in   *)
(* use again, one of its events went wrong or tracing has been stopped.    *)
DestroyedForgotten ==
  \A q \in Qps :
    qp[q] = "none" ~> \/ \A f \in targets : f.of # q
                      \/ qp[q] # "none"
                      \/ q \in tainted
                      \/ sfm \in {"cancelled", "stopped"}
                      \/ crashed # "no"

(* An event that the monitor handles within an hour of the call it reports *)
(* is recent.                                                              *)
RecentAccepted ==
  monitor.at = "check" /\ monitor.time.uptime - monitor.time.ts <= Hour
    => Valid(monitor.time)
=============================================================================
