--------------------------- MODULE AgentLifecycle ---------------------------
(***************************************************************************)
(* The agent (internal/agent/agent.go): Run starts the components in a     *)
(* goroutine of its own (Start) and stops them on the first signal (Stop), *)
(* whether or not Start has returned. (A second signal ends the process,   *)
(* at any moment, and is not modelled.) In between, the cluster monitor's  *)
(* worker and the goroutines of service probes report to the prober's      *)
(* channel of results, the result handler forwards results and paths to    *)
(* the uploader, and the pinglist updater feeds the cluster monitor. The   *)
(* tracer is the one of PathTracer.                                        *)
(*                                                                         *)
(* A component is known here by its field of the Agent (made), by what it  *)
(* keeps running or holds (up) and by having been stopped (closed). What   *)
(* it does inside is the subject of its own module.                        *)
(***************************************************************************)
EXTENDS PathTracer

CONSTANTS
  Configs,     \* the configurations considered
  ServiceProbers, \* goroutines that the service probing loop may start
  ResultCap,   \* capacity of the prober's probeResults
  MaxProbes    \* bound: probes of the cluster monitor

Options == {"tracer", "periodic", "onTimeout", "ebpf", "flows", "metrics",
            "analyzer"}

ASSUME ConfigsAssumption == Configs \subseteq SUBSET Options
ASSUME ResultCapAssumption == ResultCap \in Nat \ {0}
ASSUME MaxProbesAssumption == MaxProbes \in Nat

VARIABLES
  cfg,        \* the options switched on (ebpf: and the programs loaded)
  start,      \* the next step of Start, "ok" or "failed"
  stop,       \* the next step of Stop, "none" or "returned"
  made,       \* the components that Start has created: fields that are not nil
  up,         \* what runs or is held
  closed,     \* the components that have been stopped
  held,       \* Stop has locked the uploader's mutex and waits
  wg,         \* Agent.wg
  handler,    \* resultHandler
  tracesNil,  \* its traceResults is nil
  updater,    \* runPinglistUpdater
  targets,    \* the cluster monitor has targets
  probes,     \* its probes so far
  worker,     \* its worker: between probes or in one
  service,    \* the goroutines of service probes
  pending,    \* results in the prober's channel
  flowTargets, \* the prober has targets of service flows
  flowsAsking, \* the ServiceFlowMonitor has tested the client and will use it
  raced       \* history: the signal came before Start returned

startVars == <<start, made>>
probeVars == <<probes, worker, service, pending>>
flowVars  == <<flowTargets, flowsAsking>>
loopVars  == <<handler, tracesNil, updater, targets, probeVars, flowVars>>
agentVars == <<cfg, startVars, stop, up, closed, held, wg, loopVars, raced>>
vars == <<agentVars, ctxDone, tracerVars, crash>>

StartSteps == {"infra", "newProber", "queues", "startProber", "newFlows",
               "startEbpf", "startFlows", "connect", "register", "registerCall",
               "metrics", "newMonitor", "startMonitor", "traceTargets",
               "traceCall", "newUploader", "startUploader", "background"}
StopSteps == {"cancel", "uploader", "tracer", "flows", "ebpf", "monitor",
              "monitorWait", "prober", "client", "metrics", "state", "pollers",
              "wait"}
Parts == {"devices", "queues", "prober", "flows", "ebpf", "client", "dialled",
          "metrics", "monitor", "uploader"}

TypeOK ==
  /\ TracerTypeOK
  /\ crash \in {"no", "periodicTrace", "onDemandTrace", "nilQueues",
                "startClient", "updaterClient", "flowsClient",
                "workerResult", "serviceResult"}
  /\ cfg \in Configs
  /\ start \in StartSteps \cup {"ok", "failed"}
  /\ stop \in StopSteps \cup {"none", "returned"}
  /\ made \subseteq Parts
  /\ up \subseteq Parts
  /\ closed \subseteq Parts \cup {"state"}
  /\ held \in BOOLEAN
  /\ wg \in 0..2
  /\ handler \in {"none", "select", "forwardProbe", "forwardPath", "done"}
  /\ tracesNil \in BOOLEAN
  /\ updater \in {"none", "check", "call", "idle", "done"}
  /\ targets \in BOOLEAN
  /\ probes \in 0..MaxProbes
  /\ worker \in {"idle", "report"}
  /\ service \in [ServiceProbers -> {"none", "report", "done"}]
  /\ pending \in 0..ResultCap
  /\ flowTargets \in BOOLEAN
  /\ flowsAsking \in BOOLEAN
  /\ raced \in BOOLEAN

(* New.                                                                    *)
Init ==
  /\ NewTracer
  /\ crash = "no"
  /\ cfg \in Configs
  /\ start = "infra"
  /\ stop = "none"
  /\ made = {}
  /\ up = {}
  /\ closed = {}
  /\ held = FALSE
  /\ wg = 0
  /\ handler = "none"
  /\ tracesNil = ("tracer" \notin cfg)
  /\ updater = "none"
  /\ targets = FALSE
  /\ probes = 0
  /\ worker = "idle"
  /\ service = [s \in ServiceProbers |-> "none"]
  /\ pending = 0
  /\ flowTargets = FALSE
  /\ flowsAsking = FALSE
  /\ raced = FALSE

-----------------------------------------------------------------------------
(* Start. A step is one call; those that can fail return the error, which  *)
(* Run only logs.                                                          *)

(* What a step of Start leaves alone unless it says otherwise.             *)
StartOnly == UNCHANGED <<cfg, stop, closed, held, wg, loopVars, raced,
                         ctxDone, tracerVars>>

Goes(from, to) == start = from /\ start' = to

Fails(from) ==
  /\ Goes(from, "failed")
  /\ UNCHANGED <<made, up, crash>>
  /\ StartOnly

(* AgentState.Close has reset the devices and the maps of queues. Devices  *)
(* that are up again were opened after it.                                 *)
NoDevices == "state" \in closed /\ "devices" \notin up

InitializeRDMAInfrastructure ==
  \/ Fails("infra")
  \/ /\ Goes("infra", "newProber")
     /\ up' = up \cup {"devices"}
     /\ UNCHANGED <<made, crash>>
     /\ StartOnly

(* NewProber and SetAckHandler. The devices that Start looks for first may *)
(* be gone.                                                                *)
NewProber ==
  \/ NoDevices /\ Fails("newProber")
  \/ /\ ~NoDevices
     /\ Goes("newProber", "queues")
     /\ made' = made \cup {"prober"}
     /\ UNCHANGED <<up, crash>>
     /\ StartOnly

(* No devices is an error. A queue that cannot be created is only logged;  *)
(* one that can be is stored in a map that AgentState.Close set to nil.    *)
InitializeUDQueues ==
  \/ NoDevices /\ Fails("queues")
  \/ /\ ~NoDevices
     /\ "state" \notin closed
     /\ Goes("queues", "startProber")
     /\ up' = up \cup {"queues"}
     /\ UNCHANGED <<made, crash>>
     /\ StartOnly
  \/ /\ ~NoDevices
     /\ "state" \in closed
     /\ start = "queues"
     /\ crash' = "nilQueues"
     /\ UNCHANGED <<startVars, up>>
     /\ StartOnly

(* The loops of a prober that is already closed end at once.               *)
StartProber ==
  /\ Goes("startProber", "newFlows")
  /\ up' = IF "prober" \in closed THEN up ELSE up \cup {"prober"}
  /\ UNCHANGED <<made, crash>>
  /\ StartOnly

(* The ServiceFlowMonitor needs the option and a tracer.                   *)
NewServiceFlowMonitor ==
  /\ IF {"flows", "ebpf"} \subseteq cfg
       THEN /\ Goes("newFlows", "startEbpf")
            /\ made' = made \cup {"flows"}
       ELSE /\ Goes("newFlows", "connect")
            /\ UNCHANGED made
  /\ UNCHANGED <<up, crash>>
  /\ StartOnly

(* ServiceTracer.Start attaches kprobes or fails, and fails when Stop has  *)
(* unloaded the programs; the monitor is then not started.                 *)
StartServiceTracer ==
  \/ /\ "ebpf" \notin closed
     /\ Goes("startEbpf", "startFlows")
     /\ up' = up \cup {"ebpf"}
     /\ UNCHANGED <<made, crash>>
     /\ StartOnly
  \/ /\ Goes("startEbpf", "connect")
     /\ UNCHANGED <<made, up, crash>>
     /\ StartOnly

StartServiceFlowMonitor ==
  /\ Goes("startFlows", "connect")
  /\ up' = up \cup {"flows"}
  /\ UNCHANGED <<made, crash>>
  /\ StartOnly

(* A connection that does not become ready in time is not closed.          *)
Connect ==
  \/ /\ Goes("connect", "register")
     /\ up' = up \cup {"client"}
     /\ UNCHANGED <<made, crash>>
     /\ StartOnly
  \/ /\ Goes("connect", "failed")
     /\ up' = up \cup {"dialled"}
     /\ UNCHANGED <<made, crash>>
     /\ StartOnly

(* A call of the controller, in two steps: c.client is tested, a request   *)
(* is built, and c.client is used.                                         *)
ClientNil == "client" \notin up

RegisterAgent ==
  \/ Fails("register")
  \/ /\ ~ClientNil
     /\ Goes("register", "registerCall")
     /\ UNCHANGED <<made, up, crash>>
     /\ StartOnly

UseOfNilClient(from) ==
  /\ start = from
  /\ ClientNil
  /\ crash' = "startClient"
  /\ UNCHANGED <<startVars, up>>
  /\ StartOnly

(* The call fails, registers the agent, or finds no client any more.       *)
RegisterAgentCall ==
  \/ UseOfNilClient("registerCall")
  \/ ~ClientNil /\ Fails("registerCall")
  \/ /\ ~ClientNil
     /\ Goes("registerCall", "metrics")
     /\ UNCHANGED <<made, up, crash>>
     /\ StartOnly

(* No primary RNIC is an error. Metrics that cannot be initialised are     *)
(* like metrics that are switched off.                                     *)
InitMetrics ==
  \/ NoDevices /\ Fails("metrics")
  \/ /\ ~NoDevices
     /\ Goes("metrics", "newMonitor")
     /\ made' = made \cup (cfg \cap {"metrics"})
     /\ up' = up \cup (cfg \cap {"metrics"})
     /\ UNCHANGED crash
     /\ StartOnly

NewClusterMonitor ==
  /\ Goes("newMonitor", "startMonitor")
  /\ made' = made \cup {"monitor"}
  /\ UNCHANGED <<up, crash>>
  /\ StartOnly

StartClusterMonitor ==
  /\ Goes("startMonitor", "traceTargets")
  /\ up' = up \cup {"monitor"}
  /\ UNCHANGED <<made, crash>>
  /\ StartOnly

-----------------------------------------------------------------------------
(* Periodic tracing: the pinglist of the primary RNIC, or localhost if the *)
(* controller does not give one.                                           *)
TracingOn == {"tracer", "periodic"} \subseteq cfg

StartedTracing ==
  /\ start' = "newUploader"
  /\ UNCHANGED <<made, up, cfg, stop, closed, held, wg, loopVars, raced,
                 ctxDone, traceResults, traceClosed, crash>>

TraceTargets ==
  /\ start = "traceTargets"
  /\ \/ /\ "periodic" \notin cfg \/ NoDevices
        /\ UNCHANGED <<tracing, runs>>
        /\ StartedTracing
     \/ /\ "periodic" \in cfg
        /\ ~NoDevices
        /\ ClientNil
        /\ IF TracingOn THEN StartPeriodicTracingToLocalhost
                        ELSE UNCHANGED <<tracing, runs>>
        /\ StartedTracing
     \/ /\ "periodic" \in cfg
        /\ ~NoDevices
        /\ ~ClientNil
        /\ start' = "traceCall"
        /\ UNCHANGED <<made, up, crash>>
        /\ StartOnly

TraceTargetsCall ==
  \/ UseOfNilClient("traceCall")
  \/ /\ start = "traceCall"
     /\ ~ClientNil
     /\ IF TracingOn
          THEN \/ StartPeriodicTracingToLocalhost
               \/ /\ \E n \in Periodic \cup {0} : StartPeriodicTracing(n)
                  /\ UNCHANGED runs
          ELSE UNCHANGED <<tracing, runs>>
     /\ StartedTracing

-----------------------------------------------------------------------------
NewUploader ==
  /\ Goes("newUploader", "startUploader")
  /\ made' = made \cup {"uploader"}
  /\ UNCHANGED <<up, crash>>
  /\ StartOnly

(* Its Start never fails: a connection that fails is tried again later.    *)
StartUploader ==
  /\ Goes("startUploader", "background")
  /\ up' = IF "analyzer" \in cfg THEN up \cup {"uploader"} ELSE up
  /\ UNCHANGED <<made, crash>>
  /\ StartOnly

(* wg.Add(NumBackgroundGoroutines) and the goroutines.                     *)
Background ==
  /\ Goes("background", "ok")
  /\ wg' = wg + 2
  /\ handler' = "select"
  /\ updater' = "check"
  /\ UNCHANGED <<made, up, cfg, stop, closed, held, tracesNil, targets,
                 probeVars, flowVars, raced, ctxDone, tracerVars, crash>>

StartStep ==
  \/ InitializeRDMAInfrastructure
  \/ NewProber
  \/ InitializeUDQueues
  \/ StartProber
  \/ NewServiceFlowMonitor
  \/ StartServiceTracer
  \/ StartServiceFlowMonitor
  \/ Connect
  \/ RegisterAgent
  \/ RegisterAgentCall
  \/ InitMetrics
  \/ NewClusterMonitor
  \/ StartClusterMonitor
  \/ TraceTargets
  \/ TraceTargetsCall
  \/ NewUploader
  \/ StartUploader
  \/ Background

-----------------------------------------------------------------------------
(* The background goroutines.                                              *)

LoopOnly == UNCHANGED <<cfg, startVars, stop, up, closed, held, raced, ctxDone>>

HandlerCancelled ==
  /\ handler = "select"
  /\ ctxDone
  /\ handler' = "done"
  /\ wg' = wg - 1
  /\ LoopOnly
  /\ UNCHANGED <<tracesNil, updater, targets, probeVars, flowVars, tracerVars,
                 crash>>

HandlerTakesProbe ==
  /\ handler = "select"
  /\ pending > 0
  /\ pending' = pending - 1
  /\ handler' = "forwardProbe"
  /\ LoopOnly
  /\ UNCHANGED <<wg, tracesNil, updater, targets, probes, worker, service,
                 flowVars, tracerVars, crash>>

(* AddProbeResult and AddPathInfo lock the uploader's mutex.               *)
CanForward == "analyzer" \in cfg => ~held

(* A result that is a timeout may start a trace on demand.                 *)
HandlerForwardsProbe ==
  /\ handler = "forwardProbe"
  /\ CanForward
  /\ handler' = "select"
  /\ \/ UNCHANGED <<tracing, runs>>
     \/ /\ {"tracer", "onTimeout"} \subseteq cfg
        /\ \E t \in OnDemand : StartOnDemand(t)
  /\ LoopOnly
  /\ UNCHANGED <<wg, tracesNil, updater, targets, probeVars, flowVars,
                 traceResults, traceClosed, crash>>

(* Mutant: the handler goes on after its wg.Done.                          *)
HandlerProbesClosedAgain ==
  /\ handler \in {"select", "done"}
  /\ "prober" \in closed
  /\ pending = 0
  /\ handler' = "done"
  /\ wg' = wg - 1
  /\ LoopOnly
  /\ UNCHANGED <<tracesNil, updater, targets, probeVars, flowVars, tracerVars,
                 crash>>

(* The prober's channel is closed and drained.                             *)
HandlerProbesClosed ==
  /\ handler = "select"
  /\ "prober" \in closed
  /\ pending = 0
  /\ handler' = "done"
  /\ wg' = wg - 1
  /\ LoopOnly
  /\ UNCHANGED <<tracesNil, updater, targets, probeVars, flowVars, tracerVars,
                 crash>>

HandlerTakesPath ==
  /\ handler = "select"
  /\ ~tracesNil
  /\ traceResults # <<>>
  /\ traceResults' = Tail(traceResults)
  /\ handler' = "forwardPath"
  /\ LoopOnly
  /\ UNCHANGED <<wg, tracesNil, updater, targets, probeVars, flowVars, tracing,
                 runs, traceClosed, crash>>

(* Mutant: the handler returns after its first path.                       *)
HandlerForwardsOnePath ==
  /\ handler = "forwardPath"
  /\ CanForward
  /\ handler' = "done"
  /\ wg' = wg - 1
  /\ LoopOnly
  /\ UNCHANGED <<tracesNil, updater, targets, probeVars, flowVars, tracerVars,
                 crash>>

HandlerForwardsPath ==
  /\ handler = "forwardPath"
  /\ CanForward
  /\ handler' = "select"
  /\ LoopOnly
  /\ UNCHANGED <<wg, tracesNil, updater, targets, probeVars, flowVars,
                 tracerVars, crash>>

(* A closed traceResults is set to nil, which the select never picks.      *)
HandlerPathsClosed ==
  /\ handler = "select"
  /\ ~tracesNil
  /\ traceClosed
  /\ traceResults = <<>>
  /\ tracesNil' = TRUE
  /\ LoopOnly
  /\ UNCHANGED <<wg, handler, updater, targets, probeVars, flowVars,
                 tracerVars, crash>>

HandlerStep ==
  \/ HandlerCancelled
  \/ HandlerTakesProbe
  \/ HandlerForwardsProbe
  \/ HandlerProbesClosed
  \/ HandlerTakesPath
  \/ HandlerForwardsPath
  \/ HandlerPathsClosed

-----------------------------------------------------------------------------
(* updatePinglist: without RNICs it changes nothing; an RNIC whose request *)
(* fails contributes no targets, and the monitor gets what there is.       *)
UpdaterChecks ==
  /\ updater = "check"
  /\ IF ~NoDevices /\ ~ClientNil
       THEN updater' = "call" /\ UNCHANGED targets
       ELSE /\ updater' = "idle"
            /\ targets' = (targets /\ NoDevices)
  /\ LoopOnly
  /\ UNCHANGED <<wg, handler, tracesNil, probeVars, flowVars, tracerVars,
                 crash>>

UpdaterCalls ==
  /\ updater = "call"
  /\ IF ClientNil
       THEN crash' = "updaterClient" /\ UNCHANGED <<updater, targets>>
       ELSE /\ updater' = "idle"
            /\ targets' \in BOOLEAN
            /\ UNCHANGED crash
  /\ LoopOnly
  /\ UNCHANGED <<wg, handler, tracesNil, probeVars, flowVars, tracerVars>>

UpdaterTicks ==
  /\ updater = "idle"
  /\ updater' = "check"
  /\ LoopOnly
  /\ UNCHANGED <<wg, handler, tracesNil, targets, probeVars, flowVars,
                 tracerVars, crash>>

(* Nothing calls wg.Done for the updater.                                  *)
UpdaterEnds ==
  /\ updater = "idle"
  /\ ctxDone
  /\ updater' = "done"
  /\ LoopOnly
  /\ UNCHANGED <<wg, handler, tracesNil, targets, probeVars, flowVars,
                 tracerVars, crash>>

UpdaterStep == UpdaterChecks \/ UpdaterCalls \/ UpdaterTicks \/ UpdaterEnds

-----------------------------------------------------------------------------
(* Probes. ProbeTarget always ends in a result, which it sends to the      *)
(* prober's channel: the send waits while the channel is full and panics   *)
(* once Prober.Close has closed it.                                        *)
ProbesOnly ==
  UNCHANGED <<wg, handler, tracesNil, updater, targets, flowVars, tracerVars>>

Reports(panic) ==
  IF "prober" \in closed
    THEN crash' = panic /\ UNCHANGED pending
    ELSE /\ pending < ResultCap
         /\ pending' = pending + 1
         /\ UNCHANGED crash

(* The cluster monitor's worker, unless its stopCh is closed, probes the   *)
(* next target. Without queues it finds no RNIC to probe from.             *)
WorkerProbes ==
  /\ "monitor" \in up
  /\ stop # "monitorWait"
  /\ worker = "idle"
  /\ targets
  /\ probes < MaxProbes
  /\ "queues" \in up
  /\ probes' = probes + 1
  /\ worker' = "report"
  /\ LoopOnly
  /\ ProbesOnly
  /\ UNCHANGED <<service, pending, crash>>

WorkerReports ==
  /\ worker = "report"
  /\ worker' = "idle"
  /\ Reports("workerResult")
  /\ LoopOnly
  /\ ProbesOnly
  /\ UNCHANGED <<probes, service>>

(* The service probing loop, which Prober.Close waits for, starts a        *)
(* goroutine per target, which it does not wait for.                       *)
ServiceProbes(s) ==
  /\ "prober" \in up
  /\ flowTargets
  /\ ~NoDevices
  /\ service[s] = "none"
  /\ service' = [service EXCEPT ![s] = "report"]
  /\ LoopOnly
  /\ ProbesOnly
  /\ UNCHANGED <<probes, worker, pending, crash>>

ServiceReports(s) ==
  /\ service[s] = "report"
  /\ service' = [service EXCEPT ![s] = "done"]
  /\ Reports("serviceResult")
  /\ LoopOnly
  /\ ProbesOnly
  /\ UNCHANGED <<probes, worker>>

ProbeStep ==
  \/ WorkerProbes
  \/ WorkerReports
  \/ \E s \in ServiceProbers : ServiceProbes(s) \/ ServiceReports(s)

-----------------------------------------------------------------------------
(* The event loop of the ServiceFlowMonitor.                               *)
FlowsOnly ==
  UNCHANGED <<cfg, startVars, stop, closed, held, raced, ctxDone, wg, handler,
              tracesNil, updater, targets, probeVars, tracerVars>>

(* A new flow: the controller is asked for its target, unless there is no  *)
(* client. The last flow is gone: the prober gets an empty list.           *)
FlowsHandleEvent ==
  /\ "flows" \in up
  /\ ~flowsAsking
  /\ \/ ~ClientNil /\ flowsAsking' = TRUE /\ UNCHANGED flowTargets
     \/ ClientNil /\ flowTargets' = TRUE /\ UNCHANGED flowsAsking
     \/ flowTargets' = FALSE /\ UNCHANGED flowsAsking
  /\ FlowsOnly
  /\ UNCHANGED <<up, crash>>

(* Answered or not, the flow goes to the prober.                           *)
FlowsAsk ==
  /\ flowsAsking
  /\ IF ClientNil
       THEN crash' = "flowsClient" /\ UNCHANGED flowVars
       ELSE /\ flowsAsking' = FALSE
            /\ flowTargets' = TRUE
            /\ UNCHANGED crash
  /\ FlowsOnly
  /\ UNCHANGED up

(* Mutant: the event loop ends only with the tracer.                       *)
FlowsLoopOutlives ==
  /\ "flows" \in up
  /\ ~flowsAsking
  /\ ctxDone
  /\ "ebpf" \in closed
  /\ up' = up \ {"flows"}
  /\ FlowsOnly
  /\ UNCHANGED <<flowVars, crash>>

(* It sees the context cancelled.                                          *)
FlowsLoopEnds ==
  /\ "flows" \in up
  /\ ~flowsAsking
  /\ ctxDone
  /\ up' = up \ {"flows"}
  /\ FlowsOnly
  /\ UNCHANGED <<flowVars, crash>>

FlowsStep == FlowsHandleEvent \/ FlowsAsk \/ FlowsLoopEnds

-----------------------------------------------------------------------------
(* Run and Stop.                                                           *)

Signal ==
  /\ stop = "none"
  /\ stop' = "cancel"
  /\ raced' = (start \notin {"ok", "failed"})
  /\ UNCHANGED <<cfg, startVars, up, closed, held, wg, loopVars, ctxDone,
                 tracerVars, crash>>

StopOnly == UNCHANGED <<cfg, startVars, wg, loopVars, raced, crash>>

Cancel ==
  /\ stop = "cancel"
  /\ stop' = "uploader"
  /\ ctxDone' = TRUE
  /\ StopOnly
  /\ UNCHANGED <<up, closed, held, tracerVars>>

(* Close of an uploader that runs locks its mutex and waits for the loop,  *)
(* whose last upload begins by locking it: no step leads on from there.    *)
CloseUploader ==
  /\ stop = "uploader"
  /\ ~held
  /\ IF "analyzer" \in cfg /\ "uploader" \in made \cap up
       THEN held' = TRUE /\ UNCHANGED stop
       ELSE stop' = "tracer" /\ UNCHANGED held
  /\ StopOnly
  /\ UNCHANGED <<up, closed, ctxDone, tracerVars>>

StopTracer ==
  /\ stop = "tracer"
  /\ stop' = "flows"
  /\ IF "tracer" \in cfg THEN CloseTracer ELSE UNCHANGED tracerVars
  /\ StopOnly
  /\ UNCHANGED <<up, closed, held, ctxDone>>

(* A step that stops the component c if the agent has it, and goes on.     *)
Stops(c, here, next, has) ==
  /\ stop = here
  /\ stop' = next
  /\ up' = IF has THEN up \ {c} ELSE up
  /\ closed' = IF has THEN closed \cup {c} ELSE closed
  /\ StopOnly
  /\ UNCHANGED <<held, ctxDone, tracerVars>>

(* ServiceFlowMonitor.Stop waits for its event loop.                       *)
StopFlows ==
  /\ "flows" \in made => "flows" \notin up
  /\ Stops("flows", "flows", "ebpf", "flows" \in made)

StopServiceTracer == Stops("ebpf", "ebpf", "monitor", "ebpf" \in cfg)

(* ClusterMonitor.Stop closes stopCh and waits for the worker, which may   *)
(* be in a probe. A monitor that is not running yet is left alone.         *)
StopMonitor ==
  /\ stop = "monitor"
  /\ stop' = IF "monitor" \in made \cap up THEN "monitorWait" ELSE "prober"
  /\ StopOnly
  /\ UNCHANGED <<up, closed, held, ctxDone, tracerVars>>

(* Mutant: Stop does not wait for the worker.                              *)
MonitorLeft == Stops("monitor", "monitorWait", "prober", TRUE)

MonitorStopped ==
  /\ worker = "idle"
  /\ Stops("monitor", "monitorWait", "prober", TRUE)

(* Close waits for the loops of the prober and closes the channel.         *)
CloseProber == Stops("prober", "prober", "client", "prober" \in made)

CloseClient == Stops("client", "client", "metrics", TRUE)

ShutdownMetrics == Stops("metrics", "metrics", "state", "metrics" \in made)

(* Mutant: the queues of an agent that has no monitor are left.            *)
CloseStateLate ==
  /\ stop = "state"
  /\ IF "queues" \in up /\ "monitor" \in made
       THEN stop' = "pollers" /\ UNCHANGED <<up, closed>>
       ELSE /\ stop' = "wait"
            /\ up' = up \ {"devices"}
            /\ closed' = closed \cup {"state"}
  /\ StopOnly
  /\ UNCHANGED <<held, ctxDone, tracerVars>>

(* AgentState.Close: the queues, each after its CQ poller, then the        *)
(* devices.                                                                *)
CloseState ==
  /\ stop = "state"
  /\ IF "queues" \in up
       THEN stop' = "pollers" /\ UNCHANGED <<up, closed>>
       ELSE /\ stop' = "wait"
            /\ up' = up \ {"devices"}
            /\ closed' = closed \cup {"state"}
  /\ StopOnly
  /\ UNCHANGED <<held, ctxDone, tracerVars>>

(* A poller sees its done channel closed only between two events: one that *)
(* is blocked in ibv_get_cq_event ends when a completion wakes it, if one  *)
(* does.                                                                   *)
PollersEnd ==
  /\ stop = "pollers"
  /\ stop' = "wait"
  /\ up' = up \ {"queues", "devices"}
  /\ closed' = closed \cup {"state"}
  /\ StopOnly
  /\ UNCHANGED <<held, ctxDone, tracerVars>>

(* wg.Wait; then Run returns and the process ends.                         *)
Returns ==
  /\ stop = "wait"
  /\ wg = 0
  /\ stop' = "returned"
  /\ StopOnly
  /\ UNCHANGED <<up, closed, held, ctxDone, tracerVars>>

StopStep ==
  \/ Cancel
  \/ CloseUploader
  \/ StopTracer
  \/ StopFlows
  \/ StopServiceTracer
  \/ StopMonitor
  \/ MonitorStopped
  \/ CloseProber
  \/ CloseClient
  \/ ShutdownMetrics
  \/ CloseState
  \/ Returns

-----------------------------------------------------------------------------
Tracing(t) == TracerStep(t) /\ UNCHANGED agentVars

Alive == crash = "no" /\ stop # "returned"

Next ==
  /\ Alive
  /\ \/ StartStep
     \/ HandlerStep
     \/ UpdaterStep
     \/ ProbeStep
     \/ FlowsStep
     \/ \E t \in Tracers : Tracing(t)
     \/ Signal
     \/ StopStep
     \/ PollersEnd

(* The goroutines of Start, of Stop, of the handler, of the worker, of the *)
(* event loop and of each trace are scheduled; a command that the tracer   *)
(* runs ends, and so does a probe. The event loop's select chooses at      *)
(* random, so events that keep coming do not keep it from the cancelled    *)
(* context. No signal has to come, no service to connect, and no           *)
(* completion to wake a poller.                                            *)
Fairness ==
  /\ WF_vars(Alive /\ StartStep)
  /\ WF_vars(Alive /\ HandlerStep)
  /\ WF_vars(Alive /\ WorkerReports)
  /\ WF_vars(Alive /\ FlowsAsk)
  /\ SF_vars(Alive /\ FlowsLoopEnds)
  /\ WF_vars(Alive /\ StopStep)
  /\ \A t \in Tracers : WF_vars(Alive /\ Tracing(t))

Spec == Init /\ [][Next]_vars /\ Fairness

-----------------------------------------------------------------------------
(* Properties.                                                             *)

(* What ends the agent in a panic. A periodic trace never meets the closed *)
(* channel, even when Start goes on behind Stop: the context is cancelled  *)
(* first, and a trace begun after that runs no command. And unless the     *)
(* signal overtook Start, Stop waits for whoever uses a component before   *)
(* it closes it (the worker before the channel of results, the event loop  *)
(* before the client), except for goroutines that it does not wait for:    *)
(* the trace of a timed-out probe, a service probe and the updater.        *)
PanicCauses ==
  /\ crash # "periodicTrace"
  /\ ~raced => crash \in {"no", "onDemandTrace", "serviceResult",
                          "updaterClient"}

(* A Stop that returns, and that did not overtake Start, leaves nothing    *)
(* running or held, at whichever step Start failed, except the connection  *)
(* to a controller that did not answer.                                    *)
ReturnsReleased == stop = "returned" /\ ~raced => up \subseteq {"dialled"}

(* agent.go:650 "Wait for goroutines to complete": once the goroutines     *)
(* that Start has added to the wait group have ended, Stop returns.        *)
StopReturns ==
  stop = "wait" /\ handler = "done" /\ updater = "done" ~> stop = "returned"

(* A periodic trace cannot send its path: the channel is full.             *)
PathBlocked ==
  /\ Len(traceResults) = TraceCap
  /\ \E t \in Periodic : tracing[t] = "send"

(* The worker cannot report: the channel is full and its reader has ended. *)
ReportBlocked == worker = "report" /\ pending = ResultCap /\ handler = "done"

(* Stop gets as far as the wait for the goroutines, unless it waits with   *)
(* the uploader's mutex locked, or forever for a periodic trace whose path *)
(* or for the worker whose result no one takes from the full channel, or   *)
(* for a poller that no completion wakes.                                  *)
StopGetsThrough ==
  stop = "cancel" ~>
    \/ stop \in {"wait", "returned"}
    \/ crash # "no"
    \/ held
    \/ [](stop = "tracer" /\ PathBlocked)
    \/ [](stop = "monitorWait" /\ ReportBlocked)
    \/ [](stop = "pollers")

(* While the agent is not being stopped, every finished trace gets its     *)
(* path into the channel, and the handler takes what is in it.             *)
PathsForwarded ==
  (\E t \in Tracers : tracing[t] = "send") \/ traceResults # <<>> ~>
    \/ traceResults = <<>> /\ \A t \in Tracers : tracing[t] # "send"
    \/ ctxDone
    \/ ~Alive
=============================================================================
