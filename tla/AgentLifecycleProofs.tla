------------------------ MODULE AgentLifecycleProofs ------------------------
(***************************************************************************)
(* Proofs about the agent, for any set of configurations, any number of    *)
(* traced targets, of traces on demand and of probes, and any capacities:  *)
(* the types; what may end the agent in a panic; and that a Stop that      *)
(* returns has released everything. The argument is one inductive          *)
(* invariant, AgentInv: how far Start and Stop have got says what runs,    *)
(* what is counted, what is closed and who may still be using it.          *)
(***************************************************************************)
EXTENDS AgentLifecycle, SequenceTheorems, TLAPS

(* The steps of Stop after the one that stops a component.                 *)
PastState   == {"wait", "returned"}
PastMetrics == PastState \cup {"pollers", "state"}
PastClient  == PastMetrics \cup {"metrics"}
PastProber  == PastClient \cup {"client"}
PastMonitor == PastProber \cup {"prober"}
PastEbpf    == PastMonitor \cup {"monitorWait", "monitor"}
PastFlows   == PastEbpf \cup {"ebpf"}

(* The goroutines are counted when Start is done, and the updater stays    *)
(* counted; Stop returns when none is. A trace that runs or sends has a    *)
(* number.                                                                 *)
Counted ==
  /\ probes \in 0..MaxProbes
  /\ pending \in 0..ResultCap
  /\ start # "ok" => handler = "none" /\ updater = "none" /\ wg = 0
  /\ start = "ok" => /\ handler # "none"
                     /\ updater # "none"
                     /\ wg = IF handler = "done" THEN 1 ELSE 2

Ended == stop = "returned" => wg = 0

Numbered == \A t \in Tracers : tracing[t] \in {"command", "send"} => runs[t] # 0

(* What runs was created, and only a Start that got to its end has an      *)
(* uploader that runs.                                                     *)
Created ==
  /\ "prober" \in up => "prober" \in made
  /\ "flows" \in up => "flows" \in made
  /\ "ebpf" \in up => "ebpf" \in cfg
  /\ "metrics" \in up => "metrics" \in made
  /\ "monitor" \in up => "monitor" \in made
  /\ "uploader" \in up => start \in {"background", "ok"}
  /\ start = "startEbpf" => "ebpf" \in cfg
  /\ start \in {"queues", "startProber"} => "prober" \in made
  /\ start \in {"startEbpf", "startFlows"} => "flows" \in made
  /\ start = "startMonitor" => "monitor" \in made

(* A component is closed only by its step of Stop. Unless the signal       *)
(* overtook Start, nothing that a step of Stop has stopped runs again.     *)
Ordered ==
  /\ "ebpf" \in closed => stop \in PastEbpf
  /\ "prober" \in closed => stop \in PastProber
  /\ "client" \in closed => stop \in PastClient
  /\ "state" \in closed => stop \in PastState
  /\ ~raced /\ stop # "none" => start \in {"ok", "failed"}
  /\ ~raced /\ stop \in PastFlows => "flows" \notin up
  /\ ~raced /\ stop \in PastEbpf => "ebpf" \notin up
  /\ ~raced /\ stop \in PastMonitor => "monitor" \notin up
  /\ ~raced /\ stop \in PastProber => "prober" \notin up
  /\ ~raced /\ stop \in PastClient => "client" \notin up
  /\ ~raced /\ stop \in PastMetrics => "metrics" \notin up
  /\ ~raced /\ stop \in PastState => "devices" \notin up /\ "queues" \notin up

(* The steps of Start after Connect.                                       *)
Connected == {"register", "registerCall", "metrics", "newMonitor",
              "startMonitor", "traceTargets", "traceCall", "newUploader",
              "startUploader", "background", "ok"}

(* The context is cancelled before the tracer is closed, and then no       *)
(* periodic trace has a path to send or a command that may give one.       *)
Quiet ==
  /\ stop \notin {"none", "cancel"} => ctxDone
  /\ traceClosed => stop \notin {"none", "cancel"}
  /\ traceClosed => \A t \in Periodic : tracing[t] \notin {"command", "send"}

(* A client that Start or the event loop may use and that is gone was      *)
(* closed by Stop.                                                         *)
ClientKept ==
  start \in Connected \/ flowsAsking => "client" \in up \/ "client" \in closed

(* What the worker and the event loop belong to runs while they are in a   *)
(* probe or a request: Stop waits for them.                                *)
Belong ==
  /\ worker = "report" => "monitor" \in up
  /\ flowsAsking => "flows" \in up

-----------------------------------------------------------------------------
(* What the groups of actions leave alone.                                 *)
LEMMA StartFrame ==
  StartStep => UNCHANGED <<cfg, stop, closed, held, raced, ctxDone>>
<1> SUFFICES ASSUME StartStep
             PROVE  UNCHANGED <<cfg, stop, closed, held, raced, ctxDone>>
  OBVIOUS
<1>1. CASE TraceTargets \/ TraceTargetsCall
  BY <1>1 DEF TraceTargets, TraceTargetsCall, UseOfNilClient, StartedTracing,
     StartOnly
<1>2. CASE Background
  BY <1>2 DEF Background
<1>3. CASE /\ ~(TraceTargets \/ TraceTargetsCall)
           /\ ~Background
  BY <1>3 DEF StartStep, InitializeRDMAInfrastructure, NewProber,
     InitializeUDQueues, StartProber, NewServiceFlowMonitor,
     StartServiceTracer, StartServiceFlowMonitor, Connect, RegisterAgent,
     RegisterAgentCall, UseOfNilClient, InitMetrics, NewClusterMonitor,
     StartClusterMonitor, NewUploader, StartUploader, Fails, StartOnly
<1> QED BY <1>1, <1>2, <1>3

LEMMA LoopFrame == HandlerStep \/ UpdaterStep \/ ProbeStep => LoopOnly
  BY
  DEF HandlerStep, HandlerCancelled, HandlerTakesProbe, HandlerForwardsProbe,
      HandlerProbesClosed, HandlerTakesPath, HandlerForwardsPath,
      HandlerPathsClosed, UpdaterStep, UpdaterChecks, UpdaterCalls,
      UpdaterTicks, UpdaterEnds, ProbeStep, WorkerProbes, WorkerReports,
      ServiceProbes, ServiceReports, Reports, ProbesOnly

LEMMA StopFrame == StopStep \/ PollersEnd => StopOnly
  BY
  DEF StopStep, Cancel, CloseUploader, StopTracer, StopFlows,
      StopServiceTracer, StopMonitor, CloseProber, CloseClient,
      ShutdownMetrics, CloseState, PollersEnd, MonitorStopped, Returns, Stops

(* Nothing but a step of Start or of Stop, or the end of the event loop of *)
(* the ServiceFlowMonitor, changes what runs.                              *)
LEMMA Others ==
  ASSUME NEW t \in Tracers,
         HandlerStep \/ UpdaterStep \/ ProbeStep \/ Tracing(t)
  PROVE  UNCHANGED <<cfg, start, made, stop, up, closed, held, raced>>
         /\ ctxDone' = ctxDone
<1>1. CASE HandlerStep \/ UpdaterStep \/ ProbeStep
  BY <1>1, LoopFrame DEF LoopOnly, startVars
<1>2. CASE Tracing(t)
  BY <1>2 DEF Tracing, agentVars, startVars, TracerStep, TraceBegins,
     TraceFails, TraceParsed, SendPath, PeriodicEnds
<1> QED BY <1>1, <1>2

(* The probes and the requests of the event loop take only their own       *)
(* steps.                                                                  *)
LEMMA ProbesKept ==
  ASSUME NEW t \in Tracers,
         \/ StartStep \/ HandlerStep \/ UpdaterStep \/ Tracing(t)
         \/ Signal \/ StopStep \/ PollersEnd
  PROVE  UNCHANGED <<worker, service, flowTargets, flowsAsking>>
<1>1. CASE StartStep
  BY <1>1
  DEF StartOnly, loopVars, probeVars, flowVars, StartStep, Fails,
      InitializeRDMAInfrastructure, NewProber, InitializeUDQueues,
      StartProber, NewServiceFlowMonitor, StartServiceTracer,
      StartServiceFlowMonitor, Connect, RegisterAgent, RegisterAgentCall,
      UseOfNilClient, InitMetrics, NewClusterMonitor, StartClusterMonitor,
      TraceTargets, TraceTargetsCall, StartedTracing, NewUploader,
      StartUploader, Background
<1>2. CASE HandlerStep \/ UpdaterStep
  BY <1>2
  DEF probeVars, flowVars, HandlerStep, HandlerCancelled, HandlerTakesProbe,
      HandlerForwardsProbe, HandlerProbesClosed, HandlerTakesPath,
      HandlerForwardsPath, HandlerPathsClosed, UpdaterStep, UpdaterChecks,
      UpdaterCalls, UpdaterTicks, UpdaterEnds
<1>3. CASE Tracing(t) \/ Signal
  BY <1>3 DEF Tracing, Signal, agentVars, loopVars, probeVars, flowVars
<1>4. CASE StopStep \/ PollersEnd
  BY <1>4, StopFrame DEF StopOnly, loopVars, probeVars, flowVars
<1> QED BY <1>1, <1>2, <1>3, <1>4

(* The only steps that change what a trace does.                           *)
LEMMA TracingSteps ==
  ASSUME Next
  PROVE  \/ UNCHANGED <<tracing, runs>>
         \/ StartPeriodicTracingToLocalhost
         \/ \E n \in Periodic \cup {0} : StartPeriodicTracing(n) /\ runs' = runs
         \/ \E t \in OnDemand : StartOnDemand(t)
         \/ \E t \in Tracers : TracerStep(t)
<1>1. CASE StartStep
  <2>1. CASE TraceTargets \/ TraceTargetsCall
    BY <2>1 DEF TraceTargets, TraceTargetsCall, UseOfNilClient,
       StartedTracing, StartOnly, tracerVars
  <2>2. CASE Background
    BY <2>2 DEF Background, tracerVars
  <2>3. CASE /\ ~(TraceTargets \/ TraceTargetsCall)
             /\ ~Background
    BY <1>1, <2>3 DEF StartStep, InitializeRDMAInfrastructure, NewProber,
       InitializeUDQueues, StartProber, NewServiceFlowMonitor,
       StartServiceTracer, StartServiceFlowMonitor, Connect, RegisterAgent,
       RegisterAgentCall, UseOfNilClient, InitMetrics, NewClusterMonitor,
       StartClusterMonitor, NewUploader, StartUploader, Fails, StartOnly,
       tracerVars
  <2> QED BY <2>1, <2>2, <2>3
<1>2. CASE HandlerStep
  BY <1>2 DEF HandlerStep, HandlerCancelled, HandlerTakesProbe,
     HandlerForwardsProbe, HandlerProbesClosed, HandlerTakesPath,
     HandlerForwardsPath, HandlerPathsClosed, tracerVars
<1>3. CASE UpdaterStep \/ ProbeStep \/ FlowsStep \/ Signal
  BY <1>3
  DEF UpdaterStep, UpdaterChecks, UpdaterCalls, UpdaterTicks, UpdaterEnds,
      ProbeStep, WorkerProbes, WorkerReports, ServiceProbes, ServiceReports,
      Reports, ProbesOnly, FlowsStep, FlowsHandleEvent, FlowsAsk,
      FlowsLoopEnds, FlowsOnly, Signal, tracerVars
<1>4. CASE \E t \in Tracers : Tracing(t)
  BY <1>4 DEF Tracing
<1>5. CASE StopStep \/ PollersEnd
  BY <1>5
  DEF StopStep, Cancel, CloseUploader, StopTracer, CloseTracer, StopFlows,
      StopServiceTracer, StopMonitor, CloseProber, CloseClient,
      ShutdownMetrics, CloseState, PollersEnd, MonitorStopped, Returns, Stops,
      tracerVars
<1> QED BY <1>1, <1>2, <1>3, <1>4, <1>5 DEF Next

-----------------------------------------------------------------------------
(* Types.                                                                  *)

(* A trace that is begun under a cancelled context runs no command.        *)
LEMMA TracedTypes ==
  ASSUME NEW t \in Tracers
  PROVE  /\ AfterTrace(t) \in {"idle", "done"}
         /\ Traced(t) \in {"command", "idle", "done"}
         /\ ctxDone => Traced(t) \in {"idle", "done"}
  BY DEF AfterTrace, Traced

LEMMA OneIsTraced ==
  /\ 1 \in Periodic /\ 1 \in Tracers /\ 1 \in 0..MaxRuns
  /\ Periodic \subseteq Tracers /\ OnDemand \subseteq Tracers
  BY LimitAssumption, MaxRunsAssumption DEF Periodic, Tracers

TracesTyped ==
  /\ tracing \in [Tracers -> TracingStates]
  /\ runs \in [Tracers -> 0..MaxRuns]

LEMMA TracesNext ==
  ASSUME TracesTyped, Numbered, Next
  PROVE  TracesTyped' /\ Numbered'
<1>1. CASE UNCHANGED <<tracing, runs>>
  BY <1>1 DEF TracesTyped, Numbered
<1>2. CASE StartPeriodicTracingToLocalhost
  BY <1>2, OneIsTraced, TracedTypes
  DEF TracesTyped, Numbered, StartPeriodicTracingToLocalhost, TracingStates
<1>3. ASSUME NEW n \in Periodic \cup {0}, StartPeriodicTracing(n), runs' = runs
      PROVE  TracesTyped' /\ Numbered'
  BY <1>3 DEF TracesTyped, Numbered, StartPeriodicTracing, TracingStates
<1>4. ASSUME NEW t \in OnDemand, StartOnDemand(t)
      PROVE  TracesTyped' /\ Numbered'
  BY <1>4, OneIsTraced, TracedTypes
  DEF TracesTyped, Numbered, StartOnDemand, TracingStates
<1>5. ASSUME NEW t \in Tracers, TracerStep(t)
      PROVE  TracesTyped' /\ Numbered'
  <2>1. CASE TraceBegins(t)
    <3>1. runs[t] + 1 \in 0..MaxRuns /\ runs[t] + 1 # 0
      BY <2>1, MaxRunsAssumption DEF TraceBegins, TracesTyped
    <3> QED BY <2>1, <3>1, TracedTypes
            DEF TraceBegins, TracesTyped, Numbered, TracingStates
  <2>2. CASE TraceFails(t) \/ TraceParsed(t)
    BY <2>2, TracedTypes
    DEF TraceFails, TraceParsed, TracesTyped, Numbered, TracingStates
  <2>3. CASE SendPath(t)
    BY <2>3, TracedTypes DEF SendPath, TracesTyped, Numbered, TracingStates
  <2>4. CASE PeriodicEnds(t)
    BY <2>4 DEF PeriodicEnds, TracesTyped, Numbered, TracingStates
  <2> QED BY <1>5, <2>1, <2>2, <2>3, <2>4 DEF TracerStep
<1> QED BY <1>1, <1>2, <1>3, <1>4, <1>5, TracingSteps

Paths == Tracers \X (1..MaxRuns)

PathsTyped ==
  /\ traceResults \in Seq(Paths)
  /\ Len(traceResults) <= TraceCap

(* The only steps that change the channel of paths.                        *)
LEMMA PathSteps ==
  ASSUME Next
  PROVE  \/ traceResults' = traceResults
         \/ traceResults # <<>> /\ traceResults' = Tail(traceResults)
         \/ \E t \in Tracers : SendPath(t)
<1>1. CASE StartStep
  <2>1. CASE TraceTargets \/ TraceTargetsCall
    BY <2>1 DEF TraceTargets, TraceTargetsCall, UseOfNilClient,
       StartedTracing, StartOnly, tracerVars
  <2>2. CASE Background
    BY <2>2 DEF Background, tracerVars
  <2>3. CASE /\ ~(TraceTargets \/ TraceTargetsCall)
             /\ ~Background
    BY <1>1, <2>3 DEF StartStep, InitializeRDMAInfrastructure, NewProber,
       InitializeUDQueues, StartProber, NewServiceFlowMonitor,
       StartServiceTracer, StartServiceFlowMonitor, Connect, RegisterAgent,
       RegisterAgentCall, UseOfNilClient, InitMetrics, NewClusterMonitor,
       StartClusterMonitor, NewUploader, StartUploader, Fails, StartOnly,
       tracerVars
  <2> QED BY <2>1, <2>2, <2>3
<1>2. CASE HandlerStep
  BY <1>2 DEF HandlerStep, HandlerCancelled, HandlerTakesProbe,
     HandlerForwardsProbe, HandlerProbesClosed, HandlerTakesPath,
     HandlerForwardsPath, HandlerPathsClosed, tracerVars
<1>3. CASE UpdaterStep \/ ProbeStep \/ FlowsStep \/ Signal
  BY <1>3
  DEF UpdaterStep, UpdaterChecks, UpdaterCalls, UpdaterTicks, UpdaterEnds,
      ProbeStep, WorkerProbes, WorkerReports, ServiceProbes, ServiceReports,
      Reports, ProbesOnly, FlowsStep, FlowsHandleEvent, FlowsAsk,
      FlowsLoopEnds, FlowsOnly, Signal, tracerVars
<1>4. ASSUME NEW t \in Tracers, Tracing(t)
      PROVE  traceResults' = traceResults \/ SendPath(t)
  BY <1>4 DEF Tracing, TracerStep, TraceBegins, TraceFails, TraceParsed,
     PeriodicEnds
<1>5. CASE StopStep \/ PollersEnd
  BY <1>5
  DEF StopStep, Cancel, CloseUploader, StopTracer, CloseTracer, StopFlows,
      StopServiceTracer, StopMonitor, CloseProber, CloseClient,
      ShutdownMetrics, CloseState, PollersEnd, MonitorStopped, Returns, Stops,
      tracerVars
<1> QED BY <1>1, <1>2, <1>3, <1>4, <1>5 DEF Next

LEMMA PathsNext ==
  ASSUME TracesTyped, Numbered, PathsTyped, Next
  PROVE  PathsTyped'
<1>1. TraceCap \in Nat /\ Len(traceResults) \in Nat
  BY TraceCapAssumption DEF PathsTyped
<1>2. CASE traceResults' = traceResults
  BY <1>2 DEF PathsTyped
<1>3. CASE traceResults # <<>> /\ traceResults' = Tail(traceResults)
  BY <1>1, <1>3, HeadTailProperties DEF PathsTyped
<1>4. ASSUME NEW t \in Tracers, SendPath(t) PROVE PathsTyped'
  <2>1. <<t, runs[t]>> \in Paths
    BY <1>4, MaxRunsAssumption DEF SendPath, TracesTyped, Numbered, Paths
  <2>2. CASE traceClosed
    BY <1>4, <2>2 DEF SendPath, PathsTyped
  <2>3. CASE ~traceClosed
    <3>1. /\ Len(traceResults) < TraceCap
          /\ traceResults' = Append(traceResults, <<t, runs[t]>>)
      BY <1>4, <2>3 DEF SendPath
    <3> HIDE DEF Paths
    <3> QED BY <1>1, <2>1, <3>1, AppendProperties DEF PathsTyped
  <2> QED BY <2>2, <2>3
<1> QED BY <1>2, <1>3, <1>4, PathSteps

(* The types of the rest, but for the counters.                            *)
SetsTyped ==
  /\ made \subseteq Parts
  /\ up \subseteq Parts
  /\ closed \subseteq Parts \cup {"state"}

StepsTyped ==
  /\ cfg \in Configs
  /\ start \in StartSteps \cup {"ok", "failed"}
  /\ stop \in StopSteps \cup {"none", "returned"}

LoopsTyped ==
  /\ crash \in {"no", "periodicTrace", "onDemandTrace", "nilQueues",
                "startClient", "updaterClient", "flowsClient",
                "workerResult", "serviceResult"}
  /\ worker \in {"idle", "report"}
  /\ handler \in {"none", "select", "forwardProbe", "forwardPath", "done"}
  /\ updater \in {"none", "check", "call", "idle", "done"}

SwitchesTyped ==
  /\ ctxDone \in BOOLEAN
  /\ traceClosed \in BOOLEAN
  /\ held \in BOOLEAN
  /\ tracesNil \in BOOLEAN
  /\ targets \in BOOLEAN
  /\ flowTargets \in BOOLEAN
  /\ flowsAsking \in BOOLEAN
  /\ raced \in BOOLEAN

ServiceTyped == service \in [ServiceProbers -> {"none", "report", "done"}]

LEMMA SetsNext == SetsTyped /\ Next => SetsTyped'
<1> SUFFICES ASSUME SetsTyped, Next PROVE SetsTyped'
  OBVIOUS
<1>1. CASE StartStep
  BY <1>1, StartFrame
  DEF SetsTyped, Parts, startVars, StartStep, InitializeRDMAInfrastructure,
      NewProber, InitializeUDQueues, StartProber, NewServiceFlowMonitor,
      StartServiceTracer, StartServiceFlowMonitor, Connect, RegisterAgent,
      RegisterAgentCall, UseOfNilClient, InitMetrics, NewClusterMonitor,
      StartClusterMonitor, TraceTargets, TraceTargetsCall, StartedTracing,
      NewUploader, StartUploader, Background, Fails
<1>2. ASSUME NEW t \in Tracers,
             HandlerStep \/ UpdaterStep \/ ProbeStep \/ Tracing(t)
      PROVE  SetsTyped'
  BY <1>2, Others DEF SetsTyped
<1>3. CASE FlowsStep \/ Signal
  BY <1>3
  DEF SetsTyped, FlowsStep, FlowsHandleEvent, FlowsAsk, FlowsLoopEnds,
      FlowsOnly, Signal, startVars
<1>4. CASE StopStep \/ PollersEnd
  BY <1>4, StopFrame
  DEF SetsTyped, Parts, StopOnly, startVars, StopStep, Cancel, CloseUploader,
      StopTracer, StopFlows, StopServiceTracer, StopMonitor, CloseProber,
      CloseClient, ShutdownMetrics, CloseState, PollersEnd, MonitorStopped,
      Returns, Stops
<1> QED BY <1>1, <1>2, <1>3, <1>4, OneIsTraced DEF Next

LEMMA StepsNext == StepsTyped /\ Next => StepsTyped'
<1> SUFFICES ASSUME StepsTyped, Next PROVE StepsTyped'
  OBVIOUS
<1>1. CASE StartStep
  BY <1>1, StartFrame
  DEF StepsTyped, StartSteps, startVars, StartStep, Goes, Fails,
      InitializeRDMAInfrastructure, NewProber, InitializeUDQueues,
      StartProber, NewServiceFlowMonitor, StartServiceTracer,
      StartServiceFlowMonitor, Connect, RegisterAgent, RegisterAgentCall,
      UseOfNilClient, InitMetrics, NewClusterMonitor, StartClusterMonitor,
      TraceTargets, TraceTargetsCall, StartedTracing, NewUploader,
      StartUploader, Background
<1>2. ASSUME NEW t \in Tracers,
             HandlerStep \/ UpdaterStep \/ ProbeStep \/ Tracing(t)
      PROVE  StepsTyped'
  BY <1>2, Others DEF StepsTyped
<1>3. CASE FlowsStep \/ Signal
  BY <1>3
  DEF StepsTyped, StopSteps, FlowsStep, FlowsHandleEvent, FlowsAsk,
      FlowsLoopEnds, FlowsOnly, Signal, startVars
<1>4. CASE StopStep \/ PollersEnd
  BY <1>4, StopFrame
  DEF StepsTyped, StopSteps, StopOnly, startVars, StopStep, Cancel,
      CloseUploader, StopTracer, StopFlows, StopServiceTracer, StopMonitor,
      CloseProber, CloseClient, ShutdownMetrics, CloseState, PollersEnd,
      MonitorStopped, Returns, Stops
<1> QED BY <1>1, <1>2, <1>3, <1>4, OneIsTraced DEF Next

LEMMA LoopsNext == LoopsTyped /\ Next => LoopsTyped'
<1> SUFFICES ASSUME LoopsTyped, Next PROVE LoopsTyped'
  OBVIOUS
<1>1. CASE StartStep
  BY <1>1
  DEF LoopsTyped, StartOnly, loopVars, probeVars, flowVars, StartStep, Fails,
      InitializeRDMAInfrastructure, NewProber, InitializeUDQueues,
      StartProber, NewServiceFlowMonitor, StartServiceTracer,
      StartServiceFlowMonitor, Connect, RegisterAgent, RegisterAgentCall,
      UseOfNilClient, InitMetrics, NewClusterMonitor, StartClusterMonitor,
      TraceTargets, TraceTargetsCall, StartedTracing, NewUploader,
      StartUploader, Background
<1>2. CASE HandlerStep
  BY <1>2
  DEF LoopsTyped, HandlerStep, HandlerCancelled, HandlerTakesProbe,
      HandlerForwardsProbe, HandlerProbesClosed, HandlerTakesPath,
      HandlerForwardsPath, HandlerPathsClosed, probeVars, flowVars
<1>3. CASE UpdaterStep \/ ProbeStep
  BY <1>3
  DEF LoopsTyped, UpdaterStep, UpdaterChecks, UpdaterCalls, UpdaterTicks,
      UpdaterEnds, ProbeStep, WorkerProbes, WorkerReports, ServiceProbes,
      ServiceReports, Reports, ProbesOnly, probeVars, flowVars
<1>4. CASE FlowsStep \/ Signal
  BY <1>4
  DEF LoopsTyped, FlowsStep, FlowsHandleEvent, FlowsAsk, FlowsLoopEnds,
      FlowsOnly, Signal, loopVars, probeVars, flowVars
<1>5. ASSUME NEW t \in Tracers, Tracing(t) PROVE LoopsTyped'
  BY <1>5
  DEF LoopsTyped, Tracing, agentVars, loopVars, probeVars, flowVars,
      TracerStep, TraceBegins, TraceFails, TraceParsed, SendPath, PeriodicEnds
<1>6. CASE StopStep \/ PollersEnd
  BY <1>6, StopFrame
  DEF LoopsTyped, StopOnly, loopVars, probeVars, flowVars
<1> QED BY <1>1, <1>2, <1>3, <1>4, <1>5, <1>6 DEF Next

LEMMA SwitchesNext == SwitchesTyped /\ Next => SwitchesTyped'
<1> SUFFICES ASSUME SwitchesTyped, Next PROVE SwitchesTyped'
  OBVIOUS
<1>1. CASE StartStep
  BY <1>1
  DEF SwitchesTyped, StartOnly, loopVars, probeVars, flowVars, tracerVars,
      StartStep, Fails, InitializeRDMAInfrastructure, NewProber,
      InitializeUDQueues, StartProber, NewServiceFlowMonitor,
      StartServiceTracer, StartServiceFlowMonitor, Connect, RegisterAgent,
      RegisterAgentCall, UseOfNilClient, InitMetrics, NewClusterMonitor,
      StartClusterMonitor, TraceTargets, TraceTargetsCall, StartedTracing,
      NewUploader, StartUploader, Background
<1>2. CASE HandlerStep
  BY <1>2, LoopFrame
  DEF SwitchesTyped, LoopOnly, tracerVars, HandlerStep, HandlerCancelled,
      HandlerTakesProbe, HandlerForwardsProbe, HandlerProbesClosed,
      HandlerTakesPath, HandlerForwardsPath, HandlerPathsClosed, probeVars,
      flowVars
<1>3. CASE UpdaterStep \/ ProbeStep
  <2>1. UNCHANGED <<held, raced, ctxDone>>
    BY <1>3, LoopFrame DEF LoopOnly
  <2>2. CASE UpdaterStep
    <3>1. UNCHANGED <<tracesNil, traceClosed, flowTargets, flowsAsking>>
      BY <2>2
      DEF tracerVars, flowVars, UpdaterStep, UpdaterChecks, UpdaterCalls,
          UpdaterTicks, UpdaterEnds
    <3>2. targets' \in BOOLEAN
      BY <2>2
      DEF SwitchesTyped, UpdaterStep, UpdaterChecks, UpdaterCalls,
          UpdaterTicks, UpdaterEnds
    <3> QED BY <2>1, <3>1, <3>2 DEF SwitchesTyped
  <2>3. CASE ProbeStep
    <3>1. ProbesOnly
      BY <2>3 DEF ProbeStep, WorkerProbes, WorkerReports, ServiceProbes,
         ServiceReports
    <3>2. UNCHANGED <<tracesNil, traceClosed, targets, flowTargets,
                      flowsAsking>>
      BY <3>1 DEF ProbesOnly, tracerVars, flowVars
    <3> QED BY <2>1, <3>2 DEF SwitchesTyped
  <2> QED BY <1>3, <2>2, <2>3
<1>4. CASE FlowsStep \/ Signal
  BY <1>4
  DEF SwitchesTyped, FlowsStep, FlowsHandleEvent, FlowsAsk, FlowsLoopEnds,
      FlowsOnly, Signal, loopVars, probeVars, flowVars, tracerVars
<1>5. ASSUME NEW t \in Tracers, Tracing(t) PROVE SwitchesTyped'
  BY <1>5
  DEF SwitchesTyped, Tracing, agentVars, loopVars, probeVars, flowVars,
      TracerStep, TraceBegins, TraceFails, TraceParsed, SendPath, PeriodicEnds
<1>6. CASE StopStep \/ PollersEnd
  <2>1. UNCHANGED <<tracesNil, targets, flowTargets, flowsAsking, raced>>
    BY <1>6, StopFrame DEF StopOnly, loopVars, flowVars
  <2>2. ctxDone' \in BOOLEAN /\ traceClosed' \in BOOLEAN /\ held' \in BOOLEAN
    BY <1>6
    DEF SwitchesTyped, tracerVars, StopStep, Cancel, CloseUploader, StopTracer,
        CloseTracer, StopFlows, StopServiceTracer, StopMonitor,
        MonitorStopped, CloseProber, CloseClient, ShutdownMetrics,
        CloseState, PollersEnd, Returns, Stops
  <2> QED BY <2>1, <2>2 DEF SwitchesTyped
<1> QED BY <1>1, <1>2, <1>3, <1>4, <1>5, <1>6 DEF Next

-----------------------------------------------------------------------------
(* The parts of the invariant, step by step.                               *)

LEMMA CountedNext == Counted /\ LoopsTyped /\ Next => Counted'
<1> SUFFICES ASSUME Counted, LoopsTyped, Next PROVE Counted'
  OBVIOUS
<1>1. MaxProbes \in Nat /\ ResultCap \in Nat
  BY MaxProbesAssumption, ResultCapAssumption
<1>2. CASE StartStep
  <2>1. CASE Background
    BY <2>1
    DEF Counted, Background, Goes, probeVars, flowVars
  <2>2. CASE ~Background
    BY <1>2, <2>2
    DEF Counted, StartOnly, loopVars, probeVars, flowVars, startVars,
        StartStep, Goes, Fails, InitializeRDMAInfrastructure, NewProber,
        InitializeUDQueues, StartProber, NewServiceFlowMonitor,
        StartServiceTracer, StartServiceFlowMonitor, Connect, RegisterAgent,
        RegisterAgentCall, UseOfNilClient, InitMetrics, NewClusterMonitor,
        StartClusterMonitor, TraceTargets, TraceTargetsCall, StartedTracing,
        NewUploader, StartUploader
  <2> QED BY <2>1, <2>2
<1>3. CASE HandlerStep
  BY <1>1, <1>3, LoopFrame
  DEF Counted, LoopOnly, startVars, HandlerStep, HandlerCancelled,
      HandlerTakesProbe, HandlerForwardsProbe, HandlerProbesClosed,
      HandlerTakesPath, HandlerForwardsPath, HandlerPathsClosed, probeVars,
      flowVars
<1>4. CASE UpdaterStep
  BY <1>4, LoopFrame
  DEF Counted, LoopOnly, startVars, UpdaterStep, UpdaterChecks, UpdaterCalls,
      UpdaterTicks, UpdaterEnds, probeVars, flowVars
<1>5. CASE ProbeStep
  BY <1>1, <1>5, LoopFrame
  DEF Counted, LoopOnly, startVars, ProbeStep, WorkerProbes, WorkerReports,
      ServiceProbes, ServiceReports, Reports, ProbesOnly, probeVars, flowVars
<1>6. CASE FlowsStep \/ Signal
  BY <1>6
  DEF Counted, FlowsStep, FlowsHandleEvent, FlowsAsk, FlowsLoopEnds,
      FlowsOnly, Signal, loopVars, probeVars, flowVars, startVars
<1>7. ASSUME NEW t \in Tracers, Tracing(t) PROVE Counted'
  BY <1>7
  DEF Counted, Tracing, agentVars, loopVars, probeVars, flowVars, startVars
<1>8. CASE StopStep \/ PollersEnd
  BY <1>8, StopFrame
  DEF Counted, StopOnly, loopVars, probeVars, flowVars, startVars
<1> QED BY <1>2, <1>3, <1>4, <1>5, <1>6, <1>7, <1>8 DEF Next

LEMMA EndedNext == Next => Ended'
<1> SUFFICES ASSUME Next, stop' = "returned" PROVE wg' = 0
  BY DEF Ended
<1>1. stop # "returned"
  BY DEF Next, Alive
<1>2. ~StartStep /\ ~FlowsStep /\ ~Signal
  BY <1>1, StartFrame
  DEF FlowsStep, FlowsHandleEvent, FlowsAsk, FlowsLoopEnds, FlowsOnly, Signal
<1>3. ASSUME NEW t \in Tracers
      PROVE  ~(HandlerStep \/ UpdaterStep \/ ProbeStep \/ Tracing(t))
  BY <1>1, Others
<1>4. StopStep \/ PollersEnd
  BY <1>2, <1>3, OneIsTraced DEF Next
<1>5. Returns
  BY <1>1, <1>4
  DEF StopStep, Cancel, CloseUploader, StopTracer, StopFlows,
      StopServiceTracer, StopMonitor, CloseProber, CloseClient,
      ShutdownMetrics, CloseState, PollersEnd, MonitorStopped, Stops
<1> QED BY <1>5 DEF Returns, StopOnly

LEMMA CreatedNext == Created /\ Next => Created'
<1> SUFFICES ASSUME Created, Next PROVE Created'
  OBVIOUS
<1>1. CASE StartStep
  BY <1>1, StartFrame
  DEF Created, startVars, StartStep, Goes, Fails,
      InitializeRDMAInfrastructure, NewProber, InitializeUDQueues,
      StartProber, NewServiceFlowMonitor, StartServiceTracer,
      StartServiceFlowMonitor, Connect, RegisterAgent, RegisterAgentCall,
      UseOfNilClient, InitMetrics, NewClusterMonitor, StartClusterMonitor,
      TraceTargets, TraceTargetsCall, StartedTracing, NewUploader,
      StartUploader, Background
<1>2. ASSUME NEW t \in Tracers,
             HandlerStep \/ UpdaterStep \/ ProbeStep \/ Tracing(t)
      PROVE  Created'
  BY <1>2, Others DEF Created
<1>3. CASE FlowsStep \/ Signal
  BY <1>3
  DEF Created, FlowsStep, FlowsHandleEvent, FlowsAsk, FlowsLoopEnds,
      FlowsOnly, Signal, startVars
<1>4. CASE StopStep \/ PollersEnd
  BY <1>4, StopFrame
  DEF Created, StopOnly, startVars, StopStep, Cancel, CloseUploader,
      StopTracer, StopFlows, StopServiceTracer, StopMonitor, CloseProber,
      CloseClient, ShutdownMetrics, CloseState, PollersEnd, MonitorStopped,
      Returns, Stops
<1> QED BY <1>1, <1>2, <1>3, <1>4, OneIsTraced DEF Next

(* A step of Start that changes what runs needs a Start that is not done,  *)
(* which is under way at Stop only when the signal overtook it.            *)
LEMMA OrderedNext == SwitchesTyped /\ Created /\ Ordered /\ Next => Ordered'
<1> SUFFICES ASSUME SwitchesTyped, Created, Ordered, Next PROVE Ordered'
  OBVIOUS
<1>1. CASE StartStep
  <2>1. start \notin {"ok", "failed"}
    BY <1>1
    DEF StartStep, Goes, Fails, InitializeRDMAInfrastructure, NewProber,
        InitializeUDQueues, StartProber, NewServiceFlowMonitor,
        StartServiceTracer, StartServiceFlowMonitor, Connect, RegisterAgent,
        RegisterAgentCall, UseOfNilClient, InitMetrics, NewClusterMonitor,
        StartClusterMonitor, TraceTargets, TraceTargetsCall, NewUploader,
        StartUploader, Background
  <2>2. raced \/ stop = "none"
    BY <2>1 DEF Ordered
  <2>3. UNCHANGED <<stop, closed, raced>>
    BY <1>1, StartFrame
  <2>4. CASE raced
    BY <2>3, <2>4 DEF Ordered
  <2>5. CASE stop = "none"
    BY <2>3, <2>5
    DEF Ordered, PastState, PastMetrics, PastClient, PastProber, PastMonitor,
        PastEbpf, PastFlows
  <2> QED BY <2>2, <2>4, <2>5
<1>2. ASSUME NEW t \in Tracers,
             HandlerStep \/ UpdaterStep \/ ProbeStep \/ Tracing(t)
      PROVE  Ordered'
  BY <1>2, Others DEF Ordered
<1>3. CASE FlowsStep
  BY <1>3
  DEF Ordered, FlowsStep, FlowsHandleEvent, FlowsAsk, FlowsLoopEnds,
      FlowsOnly, startVars
<1>4. CASE Signal
  BY <1>4
  DEF Ordered, Signal, startVars, PastState, PastMetrics, PastClient,
      PastProber, PastMonitor, PastEbpf, PastFlows
<1>5. CASE StopStep \/ PollersEnd
  <2> USE DEF StopOnly, startVars, Ordered, PastState, PastMetrics,
              PastClient, PastProber, PastMonitor, PastEbpf, PastFlows
  <2>1. CASE Cancel \/ CloseUploader \/ StopTracer \/ Returns
    BY <2>1 DEF Cancel, CloseUploader, StopTracer, Returns
  <2>2. CASE StopFlows
    BY <2>2 DEF StopFlows, Stops, Created
  <2>3. CASE StopServiceTracer
    BY <2>3 DEF StopServiceTracer, Stops, Created
  <2>4. CASE StopMonitor
    BY <2>4 DEF StopMonitor, Stops, Created
  <2>5. CASE CloseProber
    BY <2>5 DEF CloseProber, Stops, Created
  <2>6. CASE CloseClient
    BY <2>6 DEF CloseClient, Stops
  <2>7. CASE ShutdownMetrics
    BY <2>7 DEF ShutdownMetrics, Stops, Created
  <2>8. CASE CloseState
    BY <2>8 DEF CloseState
  <2>9. CASE MonitorStopped \/ PollersEnd
    BY <2>9 DEF MonitorStopped, PollersEnd, Stops
  <2> QED BY <1>5, <2>1, <2>2, <2>3, <2>4, <2>5, <2>6, <2>7, <2>8, <2>9
          DEF StopStep
<1> QED BY <1>1, <1>2, <1>3, <1>4, <1>5, OneIsTraced DEF Next

LEMMA ClientNext == ClientKept /\ Next => ClientKept'
<1> SUFFICES ASSUME ClientKept, Next PROVE ClientKept'
  OBVIOUS
<1>1. CASE StartStep
  <2>1. flowsAsking' = flowsAsking /\ closed' = closed
    BY <1>1, StartFrame, ProbesKept, OneIsTraced
  <2>2. "client" \in up => "client" \in up'
    BY <1>1
    DEF startVars, StartStep, Fails, InitializeRDMAInfrastructure, NewProber,
        InitializeUDQueues, StartProber, NewServiceFlowMonitor,
        StartServiceTracer, StartServiceFlowMonitor, Connect, RegisterAgent,
        RegisterAgentCall, UseOfNilClient, InitMetrics, NewClusterMonitor,
        StartClusterMonitor, TraceTargets, TraceTargetsCall, StartedTracing,
        NewUploader, StartUploader, Background
  <2>3. start' \in Connected => start \in Connected \/ "client" \in up'
    BY <1>1
    DEF Connected, startVars, StartStep, Goes, Fails,
        InitializeRDMAInfrastructure, NewProber, InitializeUDQueues,
        StartProber, NewServiceFlowMonitor, StartServiceTracer,
        StartServiceFlowMonitor, Connect, RegisterAgent, RegisterAgentCall,
        UseOfNilClient, InitMetrics, NewClusterMonitor, StartClusterMonitor,
        TraceTargets, TraceTargetsCall, StartedTracing, NewUploader,
        StartUploader, Background
  <2> QED BY <2>1, <2>2, <2>3 DEF ClientKept
<1>2. ASSUME NEW t \in Tracers, HandlerStep \/ UpdaterStep \/ Tracing(t)
      PROVE  ClientKept'
  BY <1>2, Others, ProbesKept DEF ClientKept
<1>3. CASE ProbeStep
  <2>1. UNCHANGED <<start, up, closed>>
    BY <1>3, Others, OneIsTraced
  <2>2. flowsAsking' = flowsAsking
    BY <1>3
    DEF ProbeStep, WorkerProbes, WorkerReports, ServiceProbes,
        ServiceReports, ProbesOnly, flowVars
  <2> QED BY <2>1, <2>2 DEF ClientKept
<1>4. CASE FlowsStep
  BY <1>4
  DEF ClientKept, ClientNil, FlowsStep, FlowsHandleEvent, FlowsAsk,
      FlowsLoopEnds, FlowsOnly, startVars, flowVars
<1>5. CASE Signal
  BY <1>5 DEF ClientKept, Signal, startVars, loopVars, flowVars
<1>6. CASE StopStep \/ PollersEnd
  <2>1. UNCHANGED <<start, flowsAsking>>
    BY <1>6, StopFrame DEF StopOnly, startVars, loopVars, flowVars
  <2>2. "client" \in up \/ "client" \in closed =>
          "client" \in up' \/ "client" \in closed'
    BY <1>6
    DEF StopStep, Cancel, CloseUploader, StopTracer, StopFlows,
        StopServiceTracer, StopMonitor, MonitorStopped, CloseProber,
        CloseClient, ShutdownMetrics, CloseState, PollersEnd, Returns, Stops
  <2> QED BY <2>1, <2>2 DEF ClientKept
<1> QED BY <1>1, <1>2, <1>3, <1>4, <1>5, <1>6, OneIsTraced DEF Next

LEMMA BelongNext == LoopsTyped /\ Created /\ Belong /\ Next => Belong'
<1> SUFFICES ASSUME LoopsTyped, Created, Belong, Next PROVE Belong'
  OBVIOUS
<1>1. CASE StartStep
  <2>1. UNCHANGED <<worker, flowsAsking>>
    BY <1>1, ProbesKept, OneIsTraced
  <2>2. up \subseteq up'
    BY <1>1
    DEF startVars, StartStep, Fails, InitializeRDMAInfrastructure, NewProber,
        InitializeUDQueues, StartProber, NewServiceFlowMonitor,
        StartServiceTracer, StartServiceFlowMonitor, Connect, RegisterAgent,
        RegisterAgentCall, UseOfNilClient, InitMetrics, NewClusterMonitor,
        StartClusterMonitor, TraceTargets, TraceTargetsCall, StartedTracing,
        NewUploader, StartUploader, Background
  <2> QED BY <2>1, <2>2 DEF Belong
<1>2. ASSUME NEW t \in Tracers, HandlerStep \/ UpdaterStep \/ Tracing(t)
      PROVE  Belong'
  BY <1>2, Others, ProbesKept DEF Belong
<1>3. CASE ProbeStep
  <2>1. up' = up
    BY <1>3, Others, OneIsTraced
  <2>2. flowsAsking' = flowsAsking /\ (worker' = "report" => "monitor" \in up)
    BY <1>3
    DEF Belong, ProbeStep, WorkerProbes, WorkerReports, ServiceProbes,
        ServiceReports, ProbesOnly, flowVars
  <2> QED BY <2>1, <2>2 DEF Belong
<1>4. CASE FlowsStep
  BY <1>4
  DEF Belong, FlowsStep, FlowsHandleEvent, FlowsAsk, FlowsLoopEnds, FlowsOnly,
      probeVars, flowVars
<1>5. CASE Signal
  BY <1>5 DEF Belong, Signal, loopVars, probeVars, flowVars
<1>6. CASE StopStep \/ PollersEnd
  <2>1. UNCHANGED <<worker, flowsAsking>>
    BY <1>6, StopFrame DEF StopOnly, loopVars, probeVars, flowVars
  <2>2. CASE MonitorStopped
    BY <2>1, <2>2 DEF Belong, MonitorStopped, Stops
  <2>3. CASE StopFlows
    BY <2>1, <2>3 DEF Belong, Created, StopFlows, Stops
  <2>4. CASE ~MonitorStopped /\ ~StopFlows
    BY <1>6, <2>1, <2>4
    DEF Belong, StopStep, Cancel, CloseUploader, StopTracer,
        StopServiceTracer, StopMonitor, CloseProber, CloseClient,
        ShutdownMetrics, CloseState, PollersEnd, Returns, Stops
  <2> QED BY <2>2, <2>3, <2>4
<1> QED BY <1>1, <1>2, <1>3, <1>4, <1>5, <1>6, OneIsTraced DEF Next

LEMMA ServiceNext == ServiceTyped /\ Next => ServiceTyped'
<1> SUFFICES ASSUME ServiceTyped, Next PROVE ServiceTyped'
  OBVIOUS
<1>1. ASSUME NEW t \in Tracers,
             \/ StartStep \/ HandlerStep \/ UpdaterStep \/ Tracing(t)
             \/ Signal \/ StopStep \/ PollersEnd
      PROVE  ServiceTyped'
  BY <1>1, ProbesKept DEF ServiceTyped
<1>2. CASE ProbeStep
  BY <1>2
  DEF ServiceTyped, ProbeStep, WorkerProbes, WorkerReports, ServiceProbes,
      ServiceReports
<1>3. CASE FlowsStep
  BY <1>3
  DEF ServiceTyped, FlowsStep, FlowsHandleEvent, FlowsAsk, FlowsLoopEnds,
      FlowsOnly, probeVars
<1> QED BY <1>1, <1>2, <1>3, OneIsTraced DEF Next

(* Under a cancelled context no trace gets a command to run.               *)
LEMMA NoneBegins ==
  ASSUME TracesTyped, Next, ctxDone, NEW t \in Periodic,
         tracing[t] \notin {"command", "send"}
  PROVE  tracing'[t] \notin {"command", "send"}
<1>1. t \in Tracers
  BY OneIsTraced
<1>2. CASE UNCHANGED <<tracing, runs>>
  BY <1>2
<1>3. CASE StartPeriodicTracingToLocalhost
  BY <1>1, <1>3, OneIsTraced, TracedTypes
  DEF TracesTyped, StartPeriodicTracingToLocalhost
<1>4. ASSUME NEW n \in Periodic \cup {0}, StartPeriodicTracing(n)
      PROVE  tracing'[t] \notin {"command", "send"}
  BY <1>1, <1>4 DEF StartPeriodicTracing
<1>5. ASSUME NEW s \in OnDemand, StartOnDemand(s)
      PROVE  tracing'[t] \notin {"command", "send"}
  BY <1>1, <1>5, OnDemandAssumption DEF TracesTyped, StartOnDemand
<1>6. ASSUME NEW s \in Tracers, TracerStep(s)
      PROVE  tracing'[t] \notin {"command", "send"}
  BY <1>1, <1>6, TracedTypes
  DEF TracesTyped, TracerStep, TraceBegins, TraceFails, TraceParsed,
      SendPath, PeriodicEnds
<1> QED BY <1>2, <1>3, <1>4, <1>5, <1>6, TracingSteps

(* Stop, the context and the channel of paths move only in Signal, Cancel  *)
(* and StopTracer, which waits for the periodic traces.                    *)
LEMMA ClosingSteps ==
  ASSUME SwitchesTyped, Next
  PROVE  /\ ctxDone => ctxDone'
         /\ \/ UNCHANGED <<stop, traceClosed>>
            \/ stop = "none" /\ stop' = "cancel" /\ traceClosed' = traceClosed
            \/ stop = "cancel" /\ ctxDone' /\ traceClosed' = traceClosed
            \/ /\ stop \notin {"none", "cancel"}
               /\ stop' \notin {"none", "cancel"}
               /\ \/ traceClosed' = traceClosed
                  \/ \A t \in Periodic : tracing'[t] \in {"none", "done"}
<1>1. CASE StartStep
  <2>1. stop' = stop /\ ctxDone' = ctxDone
    BY <1>1, StartFrame
  <2>2. traceClosed' = traceClosed
    BY <1>1
    DEF StartOnly, tracerVars, StartStep, Fails,
        InitializeRDMAInfrastructure, NewProber, InitializeUDQueues,
        StartProber, NewServiceFlowMonitor, StartServiceTracer,
        StartServiceFlowMonitor, Connect, RegisterAgent, RegisterAgentCall,
        UseOfNilClient, InitMetrics, NewClusterMonitor, StartClusterMonitor,
        TraceTargets, TraceTargetsCall, StartedTracing, NewUploader,
        StartUploader, Background
  <2> QED BY <2>1, <2>2
<1>2. ASSUME NEW t \in Tracers,
             HandlerStep \/ UpdaterStep \/ ProbeStep \/ Tracing(t)
      PROVE  UNCHANGED <<stop, traceClosed>> /\ ctxDone' = ctxDone
  <2>1. stop' = stop /\ ctxDone' = ctxDone
    BY <1>2, Others
  <2>2. traceClosed' = traceClosed
    BY <1>2
    DEF tracerVars, HandlerStep, HandlerCancelled, HandlerTakesProbe,
        HandlerForwardsProbe, HandlerProbesClosed, HandlerTakesPath,
        HandlerForwardsPath, HandlerPathsClosed, UpdaterStep, UpdaterChecks,
        UpdaterCalls, UpdaterTicks, UpdaterEnds, ProbeStep, WorkerProbes,
        WorkerReports, ServiceProbes, ServiceReports, Reports, ProbesOnly,
        Tracing, TracerStep, TraceBegins, TraceFails, TraceParsed, SendPath,
        PeriodicEnds
  <2> QED BY <2>1, <2>2
<1>3. CASE FlowsStep \/ Signal
  BY <1>3
  DEF FlowsStep, FlowsHandleEvent, FlowsAsk, FlowsLoopEnds, FlowsOnly, Signal,
      tracerVars
<1>4. CASE StopStep \/ PollersEnd
  <2>1. CASE Cancel
    BY <2>1 DEF Cancel, tracerVars
  <2>2. CASE StopTracer
    BY <2>2 DEF StopTracer, CloseTracer, tracerVars
  <2>3. CASE ~Cancel /\ ~StopTracer
    BY <1>4, <2>3
    DEF StopStep, CloseUploader, StopFlows, StopServiceTracer, StopMonitor,
        CloseProber, CloseClient, ShutdownMetrics, CloseState, PollersEnd,
        MonitorStopped, Returns, Stops, tracerVars
  <2> QED BY <2>1, <2>2, <2>3
<1> QED BY <1>1, <1>2, <1>3, <1>4, OneIsTraced DEF Next

LEMMA QuietNext == TracesTyped /\ SwitchesTyped /\ Quiet /\ Next => Quiet'
<1> SUFFICES ASSUME TracesTyped, SwitchesTyped, Quiet, Next PROVE Quiet'
  OBVIOUS
<1>1. stop' \notin {"none", "cancel"} => ctxDone'
  BY ClosingSteps DEF Quiet
<1>2. traceClosed' => stop' \notin {"none", "cancel"}
  BY ClosingSteps DEF Quiet
<1>3. ASSUME traceClosed', NEW t \in Periodic
      PROVE  tracing'[t] \notin {"command", "send"}
  <2>1. CASE traceClosed
    <3>1. ctxDone /\ tracing[t] \notin {"command", "send"}
      BY <2>1 DEF Quiet
    <3> QED BY <3>1, NoneBegins
  <2>2. CASE ~traceClosed
    BY <1>3, <2>2, ClosingSteps
  <2> QED BY <2>1, <2>2
<1> QED BY <1>1, <1>2, <1>3 DEF Quiet

(* What a step that ends the agent in a panic was. Where it does not say,  *)
(* the panic is one that PanicCauses allows.                               *)
Allowed == {"no", "serviceResult", "updaterClient"}

LEMMA PanicSteps ==
  ASSUME Next
  PROVE  \/ crash' \in Allowed
         \/ /\ crash' = "nilQueues" /\ start = "queues" /\ "state" \in closed
            /\ raced' = raced
         \/ /\ crash' = "startClient" /\ start \in Connected \ {"ok"}
            /\ "client" \notin up /\ raced' = raced
         \/ /\ crash' = "flowsClient" /\ flowsAsking
            /\ "client" \notin up /\ raced' = raced
         \/ /\ crash' = "workerResult" /\ worker = "report"
            /\ "prober" \in closed /\ raced' = raced
         \/ \E t \in Tracers :
              /\ traceClosed /\ tracing[t] = "send" /\ tracing' = tracing
              /\ crash' = IF t \in Periodic THEN "periodicTrace"
                                           ELSE "onDemandTrace"
<1>1. crash = "no"
  BY DEF Next, Alive
<1>2. CASE StartStep
  BY <1>1, <1>2
  DEF Allowed, Connected, ClientNil, StartOnly, StartStep, Fails,
      InitializeRDMAInfrastructure, NewProber, InitializeUDQueues,
      StartProber, NewServiceFlowMonitor, StartServiceTracer,
      StartServiceFlowMonitor, Connect, RegisterAgent, RegisterAgentCall,
      UseOfNilClient, InitMetrics, NewClusterMonitor, StartClusterMonitor,
      TraceTargets, TraceTargetsCall, StartedTracing, NewUploader,
      StartUploader, Background
<1>3. CASE HandlerStep
  BY <1>1, <1>3
  DEF Allowed, HandlerStep, HandlerCancelled, HandlerTakesProbe,
      HandlerForwardsProbe, HandlerProbesClosed, HandlerTakesPath,
      HandlerForwardsPath, HandlerPathsClosed
<1>4. CASE UpdaterStep
  BY <1>1, <1>4
  DEF Allowed, UpdaterStep, UpdaterChecks, UpdaterCalls, UpdaterTicks,
      UpdaterEnds
<1>5. CASE ProbeStep
  BY <1>1, <1>5, LoopFrame
  DEF Allowed, LoopOnly, ProbeStep, WorkerProbes, WorkerReports,
      ServiceProbes, ServiceReports, Reports
<1>6. CASE FlowsStep
  BY <1>1, <1>6
  DEF Allowed, ClientNil, FlowsStep, FlowsHandleEvent, FlowsAsk,
      FlowsLoopEnds, FlowsOnly
<1>7. CASE Signal
  BY <1>1, <1>7 DEF Allowed, Signal
<1>8. ASSUME NEW t \in Tracers, Tracing(t)
      PROVE  \/ crash' = "no"
             \/ /\ traceClosed /\ tracing[t] = "send" /\ tracing' = tracing
                /\ crash' = IF t \in Periodic THEN "periodicTrace"
                                             ELSE "onDemandTrace"
  BY <1>1, <1>8
  DEF Tracing, TracerStep, TraceBegins, TraceFails, TraceParsed, SendPath,
      PeriodicEnds
<1>9. CASE StopStep \/ PollersEnd
  BY <1>1, <1>9, StopFrame DEF Allowed, StopOnly
<1> QED BY <1>2, <1>3, <1>4, <1>5, <1>6, <1>7, <1>8, <1>9 DEF Next, Allowed

(* Unless the signal overtook Start: what Start is still to use is not     *)
(* closed, and the worker and the event loop end before what they use is.  *)
LEMMA OrderFacts ==
  ASSUME Ordered
  PROVE  /\ "state" \in closed => raced \/ start \in {"ok", "failed"}
         /\ "client" \in closed => raced \/ start \in {"ok", "failed"}
         /\ "client" \in closed => raced \/ "flows" \notin up
         /\ "prober" \in closed => raced \/ "monitor" \notin up
  BY DEF Ordered, PastState, PastMetrics, PastClient, PastProber, PastMonitor,
     PastEbpf, PastFlows

LEMMA PanicNext ==
  ASSUME SwitchesTyped, Ordered, ClientKept, Belong, Quiet, Next
  PROVE  PanicCauses'
<1>1. CASE crash' \in Allowed
  BY <1>1 DEF PanicCauses, Allowed
<1>2. CASE /\ crash' = "nilQueues" /\ start = "queues" /\ "state" \in closed
           /\ raced' = raced
  BY <1>2, OrderFacts DEF PanicCauses
<1>3. CASE /\ crash' = "startClient" /\ start \in Connected \ {"ok"}
           /\ "client" \notin up /\ raced' = raced
  BY <1>3, OrderFacts DEF PanicCauses, ClientKept, Connected
<1>4. CASE /\ crash' = "flowsClient" /\ flowsAsking
           /\ "client" \notin up /\ raced' = raced
  BY <1>4, OrderFacts DEF PanicCauses, ClientKept, Belong
<1>5. CASE /\ crash' = "workerResult" /\ worker = "report"
           /\ "prober" \in closed /\ raced' = raced
  BY <1>5, OrderFacts DEF PanicCauses, Belong
<1>6. ASSUME NEW t \in Tracers, traceClosed, tracing[t] = "send",
             crash' = IF t \in Periodic THEN "periodicTrace"
                                        ELSE "onDemandTrace"
      PROVE  PanicCauses'
  <2>1. t \notin Periodic
    BY <1>6 DEF Quiet
  <2> QED BY <1>6, <2>1 DEF PanicCauses
<1> QED BY <1>1, <1>2, <1>3, <1>4, <1>5, <1>6, PanicSteps

-----------------------------------------------------------------------------
AgentInv ==
  /\ TracesTyped /\ PathsTyped
  /\ SetsTyped /\ StepsTyped /\ LoopsTyped /\ SwitchesTyped /\ ServiceTyped
  /\ Counted /\ Numbered /\ Ended
  /\ Created /\ Ordered
  /\ Quiet /\ ClientKept /\ Belong
  /\ PanicCauses

LEMMA AgentInit == Init => AgentInv
<1> SUFFICES ASSUME Init PROVE AgentInv
  OBVIOUS
<1>1. TracesTyped /\ Numbered
  BY MaxRunsAssumption
  DEF Init, NewTracer, TracesTyped, Numbered, TracingStates
<1>2. PathsTyped
  BY TraceCapAssumption, EmptySeq DEF Init, NewTracer, PathsTyped
<1>3. SetsTyped /\ StepsTyped /\ LoopsTyped
  BY DEF Init, SetsTyped, StepsTyped, LoopsTyped, StartSteps
<1>4. SwitchesTyped /\ ServiceTyped
  BY DEF Init, NewTracer, SwitchesTyped, ServiceTyped
<1>5. Counted /\ Ended
  BY MaxProbesAssumption, ResultCapAssumption DEF Init, Counted, Ended
<1>6. Created /\ Ordered
  BY DEF Init, Created, Ordered, PastState, PastMetrics, PastClient,
     PastProber, PastMonitor, PastEbpf, PastFlows
<1>7. Quiet /\ ClientKept /\ Belong
  BY DEF Init, NewTracer, Quiet, ClientKept, Connected, Belong
<1>8. PanicCauses
  BY DEF Init, PanicCauses
<1> QED BY <1>1, <1>2, <1>3, <1>4, <1>5, <1>6, <1>7, <1>8 DEF AgentInv

LEMMA AgentStays == AgentInv /\ UNCHANGED vars => AgentInv'
<1> SUFFICES ASSUME AgentInv, UNCHANGED vars PROVE AgentInv'
  OBVIOUS
<1> USE DEF vars, agentVars, startVars, loopVars, probeVars, flowVars, tracerVars
<1>1. TracesTyped' /\ Numbered' /\ PathsTyped'
  BY DEF AgentInv, TracesTyped, Numbered, PathsTyped
<1>2. /\ SetsTyped' /\ StepsTyped' /\ LoopsTyped' /\ SwitchesTyped'
      /\ ServiceTyped'
  BY DEF AgentInv, SetsTyped, StepsTyped, LoopsTyped, SwitchesTyped,
     ServiceTyped
<1>3. Counted' /\ Ended' /\ Created' /\ Ordered'
  BY DEF AgentInv, Counted, Ended, Created, Ordered
<1>4. Quiet' /\ ClientKept' /\ Belong'
  BY DEF AgentInv, Quiet, ClientKept, Belong
<1>5. PanicCauses'
  BY DEF AgentInv, PanicCauses
<1> QED BY <1>1, <1>2, <1>3, <1>4, <1>5 DEF AgentInv

LEMMA AgentNext == AgentInv /\ [Next]_vars => AgentInv'
<1> SUFFICES ASSUME AgentInv, [Next]_vars PROVE AgentInv'
  OBVIOUS
<1>1. CASE UNCHANGED vars
  BY <1>1, AgentStays
<1>2. CASE Next
  <2>1. TracesTyped' /\ Numbered'
    BY <1>2, TracesNext DEF AgentInv
  <2>2. PathsTyped'
    BY <1>2, PathsNext DEF AgentInv
  <2>3. /\ SetsTyped' /\ StepsTyped' /\ LoopsTyped' /\ SwitchesTyped'
        /\ ServiceTyped'
    BY <1>2, SetsNext, StepsNext, LoopsNext, SwitchesNext, ServiceNext
    DEF AgentInv
  <2>4. Counted' /\ Ended' /\ Created' /\ Ordered'
    BY <1>2, CountedNext, EndedNext, CreatedNext, OrderedNext DEF AgentInv
  <2>5. Quiet' /\ ClientKept' /\ Belong'
    BY <1>2, QuietNext, ClientNext, BelongNext DEF AgentInv
  <2>6. PanicCauses'
    BY <1>2, PanicNext DEF AgentInv
  <2> QED BY <2>1, <2>2, <2>3, <2>4, <2>5, <2>6 DEF AgentInv
<1> QED BY <1>1, <1>2

(* The agent's variables keep their types, for any configurations, targets *)
(* and bounds: wg is 0, 1 or 2, and the channels of results and of paths   *)
(* keep within their capacities.                                           *)
THEOREM AgentTypes == Spec => []TypeOK
<1>1. AgentInv => TypeOK
  <2> SUFFICES ASSUME AgentInv PROVE TypeOK
    OBVIOUS
  <2>1. TracerTypeOK
    BY DEF AgentInv, TracesTyped, PathsTyped, Paths, SwitchesTyped,
       TracerTypeOK
  <2>2. wg \in 0..2 /\ probes \in 0..MaxProbes /\ pending \in 0..ResultCap
    BY DEF AgentInv, Counted
  <2> QED BY <2>1, <2>2 DEF AgentInv, SetsTyped, StepsTyped, LoopsTyped,
             SwitchesTyped, ServiceTyped, TypeOK
<1> QED BY <1>1, AgentInit, AgentNext, PTL DEF Spec

(* Unless the signal overtook Start, only goroutines that Stop does not    *)
(* wait for (a trace on demand, a service probe, the updater) end the      *)
(* agent in a panic, and a periodic trace never does: the worker's results *)
(* and the event loop's requests never meet a closed component.            *)
THEOREM PanicsExplained == Spec => []PanicCauses
<1>1. AgentInv => PanicCauses
  BY DEF AgentInv
<1> QED BY <1>1, AgentInit, AgentNext, PTL DEF Spec

(* A Stop that returns, and did not overtake Start, leaves nothing running *)
(* or held but a connection that was dialled in vain.                      *)
THEOREM StopReleases == Spec => []ReturnsReleased
<1>1. AgentInv => ReturnsReleased
  <2> SUFFICES ASSUME AgentInv, stop = "returned", ~raced
               PROVE  up \subseteq {"dialled"}
    BY DEF ReturnsReleased
  <2>1. start = "failed"
    BY DEF AgentInv, Counted, Ended, Ordered
  <2>2. "uploader" \notin up
    BY <2>1 DEF AgentInv, Created
  <2>3. up \cap (Parts \ {"dialled", "uploader"}) = {}
    BY DEF AgentInv, Ordered, Parts, PastState, PastMetrics, PastClient,
       PastProber, PastMonitor, PastEbpf, PastFlows
  <2> QED BY <2>2, <2>3 DEF AgentInv, SetsTyped
<1> QED BY <1>1, AgentInit, AgentNext, PTL DEF Spec
=============================================================================
