# R-Pingmesh verification project

R-Pingmesh measures the latency of an RDMA (RoCEv2) network. Agents on the hosts
probe each other's RNICs with unreliable datagrams, a controller tells them whom
to probe, and an analyzer collects the results. This directory models the parts
of the program that carry its own logic in TLA+, checks them with TLC on small
instances, and proves their main properties with TLAPS for every value of the
constants. `PROJECT.json` lists components, runs, mutants, findings, hazards,
theorems, and for every definition the lines of source that it models.

## The system

### Components, their state and their operations

| Component | Source | State | Operations | Module |
|---|---|---|---|---|
| Prober | `internal/probe/prober.go` | session table and sequence number index, per-session ACK channels, counters, result channel | `ProbeTarget`, `ProbeServiceFlows`, `HandleIncomingRDMAPacket`, `removeSession`, cleanup loop, responder loop, `Close` | `Prober` |
| UDQueue, receive side | `internal/rdma/{cq,packet,queue}.go` | receive slots, receive queue of the RNIC, completion queue, `recvCompChan` | CQ poller, `handleRecvCompletion`, `PostRecvSlot`, `ReceivePacket` | `RecvQueue` |
| UDQueue, send side | `internal/rdma/{cq,packet}.go` | ring of send slots, send queue, `sendCompChan`, `errChan` | `GetNextSendSlot`, `SendProbePacket`, `SendFirstAckPacket`, `SendSecondAckPacket`, CQ poller | `SendQueue` |
| Cluster monitor | `internal/monitor/cluster_monitor.go` | targets, index, rate limiters, stop channel | `UpdatePinglist`, `GetNextTarget`, `processNextProbe`, `Stop` | `ClusterMonitor` |
| Controller, registry, pinglist generator; the agents' side of the calls | `internal/controller/**`, `internal/agent/{controller_client/client,agent}.go` | table `rnics`; registrations under way; targets of each agent | `RegisterAgent`, `RegisterRNIC`, `GetPinglist`, `CleanupStaleEntries`, `updatePinglist` | `Controller` |
| Uploader | `internal/upload/uploader.go` | queues of results and path infos, uploads under way, connection | `AddProbeResult`, `AddPathInfo`, `uploadData`, `Connect`, `Stop` | `Uploader` |
| Queue and device lifecycle | `internal/rdma/{queue,device,cq}.go`, `internal/state` | devices, objects of the verbs library of each queue, the manager's maps, pollers | `OpenDevice`, `CreateUDQueue`, `CreateSenderAndResponderQueues`, `StartCQPoller`, `StopCQPoller`, `Destroy`, `Close` | `QueueLifecycle` |
| Service flow monitor | `internal/agent/serviceflowmonitor` | table of flows, the prober's list | `eventLoop`, `handleEbpfEvent`, `GetServiceTracingTargets`, `Stop` | `ServiceFlow` |
| eBPF tracer | `internal/ebpf` | ring buffer, event channel, reader, hooks | `trace_modify_qp`, `trace_destroy_qp_user`, `processEvents`, `Stop` | `ServiceFlow` |
| Path tracer | `internal/tracer` | running traces, result channel | `Trace`, `StartPeriodicTracing`, `Close` | `PathTracer` |
| Agent lifecycle | `internal/agent/agent.go`, `internal/state` | wait group, context, the components | `Start`, `resultHandler`, `runPinglistUpdater`, `Stop`, `Run` | `AgentLifecycle`, which composes `PathTracer` |
| Analyzer | `internal/analyzer` | none: storage and analysis are stubs that log | `UploadData` | not modelled |
| Configuration, telemetry, commands, generated code | `internal/config`, `internal/agent/telemetry`, `cmd`, `proto` | - | input and output | not modelled |

### How they interact

The *cluster monitor*'s worker, one goroutine, draws a target and calls the
prober's `ProbeTarget`, which returns after the probe. The service flow monitor
makes the prober start a goroutine per service flow, so that `ProbeTarget` also
runs concurrently. `ProbeTarget` stores a session, sends a probe through the
*send side* of a sender queue, and waits for two ACKs. The CQ poller of the
queue's *receive side* calls back into the prober with every ACK it gets; the
prober finds the session, by sequence number or flow label, and passes the ACK
on through a channel. The probed agent's responder loop reads probes from its
own queue and answers each with two ACKs.

Results go through a channel to the agent's result handler, and from there to the
*uploader*, whose loop (and extra goroutines when its queue is full) sends them to
the analyzer. A timed-out result may start a trace of the *path tracer*, whose paths
come back through a second channel. The pinglist updater asks the *controller* for
the targets of each local RNIC and replaces the cluster monitor's list with the
answers.

The *eBPF tracer* sees services connect and destroy queue pairs in the kernel. A
goroutine moves its events from a ring buffer to a channel; the *service flow
monitor* takes them from there, keeps a table of flows and copies it into the
prober's list of service targets.

The *agent* creates all of them in one goroutine (`Start`) and stops them in another
(`Stop`) as soon as a signal comes, whether or not `Start` is through.

### What is hard

* Sessions are removed by their call, by the cleanup loop and by `Close`, while
  an ACK handler may hold a reference to them.
* Probes and ACKs are lost, late and reordered; late ACKs meet later sessions of
  the same target.
* RNIC and program share buffers: receive slots are reposted while packets wait
  to be read from them, and send slots are written while earlier sends are queued.
* A call that stops waiting for its send completion leaves the completion to the
  next call.
* Locks are held over sleeps (the rate limiter) and over waits (the uploader's
  `Stop`).
* Failed uploads put back slices that share an array with others.
* Registrations are given up by the agent and go on in the controller; agents
  come back with new queue pairs; failed calls replace target lists by nothing.
* Each of a dozen calls to the verbs library can fail half way through the creation
  of a queue, while pollers, responder loops and probes already use others.
* Kernel events are lost, carry no GID, or are rejected; QPNs are used again.
* `Stop` overtakes `Start`; goroutines that are in no wait group use what `Stop` has closed.

What makes each component correct, and what could break it, is in `PROJECT.json`
under `hazards`, each with its line and the properties that would notice.

## The modules

Each module has its state as variables named after the fields they stand for, one
action per step that other goroutines can tell apart, and the properties at its
end. Definitions whose comment begins with "Mutant:" are not part of the model:
each is a plausible mistake in the definition that follows it, used to see that
the properties notice it. `MC` modules hold the values that a `.cfg` cannot
express, and `...Proofs` modules the theorems.

**Prober** (`ClusterProbe`, `ServiceProbe`, `IndexSession`, `SendProbe`, `NoSenderQueue`, `ReceiveAck`,
`ReceiveClosed`, `AckTimeout`, `Report`, `RemoveSession`, `FinishRemoval`; `FindSession`, `DeliverAck`;
`CleanupExpired`; `Respond`; `ConsumeResult`; `CloseStart`, `CloseVisit`, `CloseFinish`). A call of
`ProbeTarget` is its sequence number. The two stores of a session (`ClusterProbe` or
`ServiceProbe`, then `IndexSession`) and the two stages of `removeSession` (`TakeOut` decides
who removes, `FinishRemoval` deletes the index entry and closes the channels) are
separate actions, since other goroutines run in between. The cleanup goes by age alone: it may take the
session of any call, whatever the call is doing. A service probe may begin at any time, after `Close` too; so may a probe of the
cluster monitor, because a `Stop` that overtakes `Start` leaves its worker running. `Close` ranges over the session
table and then over the index, and may miss what was stored while it did (`rangedTo` is the last call that had begun when the
range did). `torn` remembers the sessions that were taken out between the two stores.
A packet is reduced to the fields by which it is routed, a timestamp to the ACK it
was taken from. Datagrams are a set from which any may be taken at any time or
never: loss, delay and reordering. A panic ends the behaviour and is recorded in
`crashed`. The constant `CarriesFlowLabel` says whether the GRH of a received packet
has the sender's flow label (IPv6) or zero (IPv4-mapped GIDs).

**ProbeService** is what the prober promises, without sessions, datagrams or
goroutines: a call is decided once, OK exactly when it took one ACK of each type, and
otherwise for a reason; it then puts one result into a bounded queue that one reader
empties in order, and nothing is put into that queue once it is closed. `Prober`
implements it under the mapping in `Prober.tla` (`Service == INSTANCE ProbeService
WITH ...`): the phase of a call is derived from where its goroutine stands, and all of
the session table is hidden.

**RecvQueue** (`Arrive`, `HandleWCError`, `HandleSmallPacket`, `HandleAck`,
`HandleProbe`, `Repost`, `ReceivePacket`, `ReceivePacketRepost`). A slot's buffer is
the packet last written to it, so that reading a slot late can show another packet.

**SendQueue** (`GetNextSendSlot`, `PostSend`, `Transmit`, `PollSend`, `TakeSendCompletion`,
`TakeError`, `SendTimeout`, `ReceiveError`). A send is its draw of a slot; the packet a slot
holds and the completion a call takes its time from are sends. `MCUDQueue` puts both sides into one run: they share
no variable and no step, so a behaviour runs one of them.

**ClusterMonitor** (`UpdatePinglist`, `ConvertEntry`, `UpdateTargets`; `SelectStop`,
`SelectDefault`, `NoNextTarget`, `DrawTarget`, `Take`, `ProcessNextProbe`, `ProbeReturns`;
`ServiceResult`, `ReadResult`, `ReaderEnds`; `Stop`, `StopReturns`; `Tick`). `GetNextTarget` holds the mutex from `DrawTarget` to
`Take`; an update waits. A probe returns when there is a place for its result in the prober's channel, which service probes fill as
well and which the agent's handler empties until the agent cancels it (`ReaderEnds`). `go.uber.org/ratelimit` is external: a limiter is the time
until its next `Take` may return.

**Controller** (`Start`, `RegisterRNIC`, `RegisterRNICFails`, `RegisterTimeout`, `StopAgent`;
`Poll`, `GetPinglist`, `GetPinglistFails`, `UpdatePinglist`; `CleanupStaleEntries`; `Tick`).
A queue pair number is the incarnation of the agent that created it. The table is
written in one date format and queried with another; the model compares them as the
database does, as text: the dates decide and, on the same date, the time does not.

**Uploader** (`AddProbeResult`, `AddPathInfo`, `Tick`, `NothingToUpload`, `TakeBatch`,
`CheckClient`, `Connect`, `Send`, `Uploaded`, `UploadFails`, `Requeue`, `Reset`, `LoopReset`;
`Stop`, `SelectDone`, `StopReturn`). Batches of results are Go slices (array, offset,
length) over a heap with the semantics of `append`, because uploads in flight and the
queue share arrays. `Next` is the running uploader, `NextWithClose` adds the shutdown.

**QueueLifecycle** (`NewManager`, `OpenDevice`, `DevicesOpened`, `CreateQueues`, `Acquire`, `AcquireFails`,
`UndoNext`, `UndoDone`, `StoreQueue`, `PostRecvSlot`, `PostRecvSlotFails`, `QueueCreated`, `StartProber`,
`RegisterAgent`; `StopCQPoller`, `PollerStopped`, `CloseChannels`, `ReleaseNext`; `StopAgent`, `ResponderEnds`, `CloseProber`,
`CloseStart`, `CloseQueue`, `QueuesClosed`, `CloseDevice`, `DevicesClosed`; `Race`;
`PollerArm`, `PollerCheckDone`, `GetCQEvent`, `GetCQEventFails`; `ServiceProbe`, `ServiceProbeSends`). `Start`
(`phase`) and `Stop` (`closing`) are two programs, and a signal may call `Stop` wherever `Start` stands. A queue is the set
of verbs objects it holds; a creation is the number of its next step. Each step can fail, and its error path
then destroys one object after the other in the order of the code's calls (`CleanedUp`, `UndoNext`). `Destroy` is a program
of ten steps that either program may run, since pollers, responder loops and probes run between them. `Prober.Close` waits for the responder loops and not for service
probes, which may therefore use a destroyed queue. `overtaken` says that `Stop` went on to `AgentState.Close` before `Start` had its queues:
the two then share maps, devices and the manager without a lock, and what comes of it is undefined (`Race`). Calls that
destroy are taken to succeed: the verbs library refuses to destroy an object only while something made from it is left, which
`ResourcesSound` excludes.

**ServiceFlow** (`CreateQP`, `ModifyQP`, `LeaveRTR`, `DestroyQP`; `CallRead`, `ReadEvent`,
`ReadFails`, `SendEvent`, `SendCancelled`, `CancelOnStop`, `StopTracer`; `Receive`,
`SkipEvent`, `HandleModify`, `AddFlow`, `HandleDestroy`, `NotifyProber`, `EndLoop`,
`StopMonitor`). The kernel's queue pairs, the two hooks, ring buffer, channel, table and
the prober's list. A GID is a device together with the form of its text (the tracer
writes 32 hex digits, the agent a textual address), because the code compares texts.
`ValidateStructAlignment` is modelled with its unsigned arithmetic. `tainted` remembers
the queue pairs of which an event went wrong, so that the properties can say exactly
when the table is right. A queue pair that leaves RTR for RESET or ERR (`LeaveRTR`, `left`) raises no event: the hook
ignores those states, as `internal/ebpf/README.md:287` says, and its flow stays in the table until the queue pair is destroyed; the properties count it
as connected. The module takes the hooks to work. The kprobe functions of `rdma_tracing.c` declare the kernel function's
arguments as their own parameters, without the `BPF_KPROBE` macro that unpacks them from the registers; whether they receive
them is a question about the compiled program that a model of the Go code cannot settle.

**PathTracer** (`StartPeriodicTracing`, `StartOnDemand`, `TraceBegins`, `TraceFails`,
`TraceParsed`, `SendPath`, `PeriodicEnds`, `CloseTracer`). A path is its trace.

**AgentLifecycle** composes it with the agent: one action per step of `Start`, with
every way to fail, one per step of `Stop`, the result handler with both channels, the
pinglist updater, the probes of the cluster monitor's worker (`WorkerProbes`, `WorkerReports`) and of service
goroutines (`ServiceProbes`, `ServiceReports`), which send to a bounded channel of results and panic once it is closed, and the event loop of the service
flow monitor (`FlowsHandleEvent`, `FlowsAsk`, `FlowsLoopEnds`). Three steps of `Stop` wait for others: for the event loop (`StopFlows`), for the worker, which may be held by
the full channel (`MonitorStopped`), and for the CQ pollers, which may be blocked in `ibv_get_cq_event` (`PollersEnd`). A component is what the agent's fields show of it (`made`), what it keeps
running or holds (`up`), and whether it was stopped (`closed`); what happens inside is the
subject of its own module.

## The runs

Passing runs:

| Run | Properties | Shows |
|---|---|---|
| `prober_open` | `OwnAcksOnly`, `StatsMatchResults`, `EveryProbeEnds` | Cluster and service targets over IPv4-mapped GIDs, one on an RNIC without a sender queue: calls use their own ACKs only, counters agree with outcomes, and every call ends, whenever the cleanup takes its session away. |
| `prober_close` | `AckProvenance`, `NoSessionLeak`, `ImplementsProbeService` | A cluster and a service target racing with the cleanup and `Close`: no session or index entry stays except through two named windows of the code, a foreign ACK comes only through an equal flow label, and the prober implements `ProbeService`. |
| `udQueue` | `ReceivesConserved`, `SenderSound`, `LagBounded`, `IntactUnlessLapped` | Receive side, both kinds of queue, packets of every kind, full channel, full receive queue: only error completions cost a receive; a sender queue posts no slot twice and hands over the ACK that was announced. Send side, two goroutines: the packet of the send is transmitted unless the ring was lapped; a lone sender's completion lags by at most the abandoned calls. |
| `clusterMonitor` | `RoundRobin`, `ProbesAreSound`, `RateKept`, `UpdateHappens`, `StopEnds` | Pinglists that grow, shrink and hold unusable entries: round robin, rate, soundness of probes, updates get through, `Stop` returns unless the worker is left at a full result channel that nobody reads. |
| `controller` | `RowsCurrent`, `PinglistsFresh`, `OldQpnsVanish` | Two agents, three RNICs, restarts, failures, timeouts, midnight: rows are current, an answer has every RNIC of the window and none older than the window and a day, old queue pairs vanish. |
| `uploader` | `TypeOK`, `PathsConserved`, `ResultsConserved`, `NilClientNeedsRival`, `EveryPathEnds` | The loop and an extra upload, failing connections and calls, a full queue: slices stay in bounds, nothing is lost beyond the limits, the client is nil under an upload only through another upload's reset, every path info arrives. |
| `queueLifecycle` | `ResourcesSound`, `UsersSafe`, `DestroyedOnce`, `AnsweredOrGone`, `CloseEnds` | Every call that makes something may fail, `Stop` comes at any time: unless it overtakes the creation of the queues, objects go in the right order on every error path and all of them go, pollers and responder loops only see whole queues, a published queue is destroyed once, no registered live queue goes unanswered; and `Close` ends unless a poller waits for an event that never comes. |
| `serviceFlow` | `TableExact`, `ReaderEnds`, `DestroyedForgotten` | Services that connect, fail to, reset and destroy, unreadable GIDs, full ring and channel: table and prober's list follow the kernel unless an event went wrong, destroyed flows are forgotten, the reader ends or panics after `Stop`. |
| `agentLifecycle` | `TypeOK`, `PanicCauses`, `ReturnsReleased`, `StopGetsThrough`, `PathsForwarded` | Five configurations, `Start` failing at any step, `Stop` at any moment: panics have known causes, a `Stop` that returns has released everything but a dialled connection, `Stop` gets to its last wait unless one of four named waits holds it for ever, paths are forwarded. |

Runs that violate what a comment says:

| Run | Property | Comment | What the code does |
|---|---|---|---|
| `uploader_stop` | `LoopExits` | `uploader.go:202` "Upload any remaining data before exiting" | `Stop` waits for the loop with the mutex that the loop's last upload needs |
| `serviceFlow_recent` | `RecentAccepted` | `ebpf/rdma_tracing.go:614` "Validate timestamp (should be recent)" | the time since boot is compared with the wall clock: every event is too old |
| `agent_stop` | `StopReturns` | `agent.go:650` "Wait for goroutines to complete" | two goroutines are added to the wait group and one calls `Done`: with both ended, `Stop` does not return |

### Bounds and why they are enough

* *Prober*: two calls (`MaxSeq`), two cluster targets and a service target without a sender queue, or one cluster and one
  service target, result channel of one. Two calls are the least in which an ACK, a removal
  or a cleanup can meet a foreign session; sequence numbers play no other role. A channel of
  one blocks the second result. The session properties are proved for any bounds.
* *RecvQueue*: two slots, a receive queue with one spare place (so that a double posting
  both succeeds and fails), a channel of one and five packets: every slot is reused
  twice. *SendQueue*: two slots and four sends lap the ring once. Both are proved for any bounds.
* *ClusterMonitor*: lists of up to three accepted targets, a target in two entries, a `Period` of
  two, two local RNICs of which one has a queue. Safety is proved for any constants.
* *Controller*: a day of two units, a window of one, a cleanup age of two, and a start before midnight with
  three units to go, so that midnight, the window after it and the cleanup age pass; one agent with two RNICs (a registration can stop half way), whose updater runs, and
  one that may stop and restart once. Updaters only read the registry, so that one shows what any would
  see. Safety is proved for any constants.
* *Uploader*: a queue of two, batches of one, three results: a batch is split off, an extra
  upload starts, a put back overflows the queue and arrays are shared. One path info with a
  limit of one; cutting off more than the limit does not occur at this size, and is
  covered by the proof about path infos, which has no bounds.

* *QueueLifecycle*: one RNIC with its two queues, of which either may be created, fail or be destroyed while the other is in use, and one receive slot; a
  slot more repeats the step. RNICs only follow each other in the loops; without `CloseEnds`, two of them were checked once as well (2.7 million states). Safety is proved for any number of both.
* *ServiceFlow*: three devices, two queue pairs of services, one of which has the QPN of an agent's queue on
  another device (which correlation by QPN needs), ring and channel of one, three calls of
  services and one fault: connect, destroy and connect again, with one of them going wrong. `BootTime` and
  `Hour` are 1 so that events pass the validation and the rest of the code is reached at all;
  `serviceFlow_recent` has a `BootTime` of 3. Time is bounded by `MaxUptime`, and
  the word of 16 leaves room for the wrap of the subtraction.
* *AgentLifecycle*: one periodic trace (which traces twice) and one on demand, a channel of one for paths and one for results, one probe of the worker and one of a service (together one more than the
  channel holds), and five configurations: tracing without the uploader (whose `Close` would hide what comes after it), the
  tracer with the uploader, service flows, an eBPF tracer without monitor, and nothing optional.

`CHECK_DEADLOCK FALSE` is given where the bounds on calls, packets, sends and restarts run
out, or where the modelled process has panicked or shut down; the cluster monitor
has no such bound, and there deadlock is checked.

### Fairness

* *Prober*: each call's own steps, its timeout included, are weakly fair, and so is the result handler while the agent is not being
  stopped: goroutines are scheduled and timers fire. Nothing is assumed of the wire.
* *ClusterMonitor*: the worker, time, the conversion and `Stop` are weakly fair. `UpdateTargets` is strongly fair:
  the worker unlocks and locks the mutex again and again, and a Go mutex passes to a goroutine
  that has waited for a millisecond (starvation mode). `ProbeReturns` is strongly fair: goroutines that wait to send to a channel are
  served in order, so that one gets a place if places go on falling free. The handler reads as long as it runs, and it may end.
* *Controller*: the updater of a running agent is weakly fair; its calls may fail each time.
* *Uploader*: each goroutine is weakly fair. That every path info arrives needs an analyzer that
  is reachable at last: the loop's `Connect` and `Uploaded` are strongly fair.

* *QueueLifecycle*: `Start`, `Stop`, each poller and each responder loop's end, once the prober is being closed, are weakly fair; nothing is assumed of the RNIC, which may
  never raise another event.
* *ServiceFlow*: `processEvents`, its watcher of the stop channel, the event loop and `ServiceTracer.Stop`, once begun, are weakly
  fair. Services and the signal are not forced.
* *AgentLifecycle*: `Start`, `Stop`, the result handler, the worker's report, the event loop's request and each trace are weakly fair: they are
  goroutines, and a traceroute command ends. The end of the event loop is strongly fair: its `select` chooses at random, so events that keep
  coming do not keep it from the cancelled context. The signal need not come, and no completion need wake a poller.

## The proofs

All proofs are by induction over the steps; each invariant below contains the property and
what it needs to survive every action. The assumptions are the named `ASSUME`s of
the modules: ranges of constants, distinct sentinels, and where stated the facts below.

* `ProberProofs`: `TypeCorrect`, `NoLeak`, `Provenance`, `OwnAcks`, `Refinement`, `StatsCorrect`. `SessionInv`
  ties a session to its call: a fresh number is in no table (`Fresh`), a session in the
  map has a call that has not returned (`Owned`), an index entry has a session, a removal on the way or one of the two
  excuses (`Indexed`), and a call between the two stores has its session or lost it there (`Stored`). `AckInv` follows an ACK
  from the wire through the handler and the channel to the call. `OwnAcks` assumes that no
  flow label as received equals a target's; in `prober_open` labels arrive as zero, and only a target that has no queue to probe from, whose calls never wait, has that label. `Refinement` maps every step of the prober to a step of
  `ProbeService` or a stutter; `DecideInv` (a call that still waits has no status, and one that does not wait yet no
  ACK) is what the mapping rests on. `StatsCorrect`
  compares counters with cardinalities: a step that counts moves exactly one call into the set that is counted (`Counted`), for which a call that
  waits must have had a queue to send from (`WaitsQueued`).
* `UDQueueProofs`, on the receive side: `TypeCorrect`, `NeverDry`, `PostedOnce`, `AcksSound`, `SenderIsSound`. The slots held by RNIC, completion queue and
  poller are distinct on a sound sender queue (`Distinct`), and the buffer of a completion's slot
  still has its packet (`Present`). On the send side: `SendTypeCorrect`, `RingSound`, `LagSound`. The ring argument is that two
  sends share a slot only if they are a multiple of the ring apart; the lag argument counts
  the completions that are queued in order. The two sides share no variable, which is why the definitions of `SendQueue` have names of
  their own (`SendInit`, `SendNext`, `qType` for `QueueType`, ...).
* `ClusterMonitorProofs`: `TypeCorrect`, `DrawsAreRoundRobin` (`Waits`: a target before the index has waited for
  the distance to it, one behind it for the distance round the end), `RateIsKept`
  (`Rates`: time to wait and time passed make up the period), `OnlySoundProbes`
  (`Converted`: what was established on conversion stays with the entry). It assumes that the
  controller returns the device name that was sent or none, which is what `service.go` does.
* `ControllerProofs`: `TypeCorrect`, `RegistryCurrent`, `CleanupIsHarmless`, `AnswersAreFresh`. An agent
  that has given no registration up has at most one call under way (`OneCall`), the one it waits for
  (`Waiting`), which has made the RNICs before its position current (`Written`). RNICs belong to one
  agent each. `AnswersAreFresh` rests on division being monotone and on a day making a difference.
* `UploaderProofs`: `PathsAreConserved`, `PathsAreConservedToTheEnd`, `RivalNeeded`, `ResultsAreConserved`, `UploaderTypes`, and the last two
  `ToTheEnd`. Path infos held are among those
  added (`Known`), and only an upload under way holds any (`Idle`), so that taking the queue
  overwrites nothing. Results are slices, so that the argument is about arrays (`SliceInv`): a slice stays within its array and an
  upload that is not under way has none (`SliceTypes`); and, until a batch was put back while another upload held a part of its array (`shared`), an
  upload shares the queue's array only in front of the queue (`Apart`), where `append` in place does not write, so that what the
  analyzer confirms is what the batch still holds (`SentExact`) and every result is somewhere (`Accounted`). Both ways of `append` are lemmas
  (`AppendInPlace`, `AppendGrows`). That there is always an unused array for `append` to move to is counted, and needs a
  finite number of extra uploads (`IsFiniteSet(Workers)`).
* `QueueLifecycleProofs`: `TypeCorrect`, `ResourcesAreSound`, `UsersAreSafe`, `DestroyedOnlyOnce`, `Answered`. `Inv` says where each queue stands: untouched, being built up to a step,
  being undone down to one, whole, being destroyed by one of the two programs, or gone (`QueueStates`). The first `k` objects of a queue in the order of their creation are
  alive (`Alive(k)`) at every call in between, of creations and of error paths, which is what the order of destruction comes down to. Only the creation (`CreatingState`) and the
  destructions (`StartDestroys`, `StopDestroys`) under way hold anything partial; what is published was whole (`PublishedState`), and what `Close` has
  visited is gone (`ClosingState`). None of the properties is inductive without it, because each failure path
  relies on which objects the step had. Once `Stop` has overtaken `Start` only the types are claimed.
* `ServiceFlowProofs`: `TypeCorrect`, `ProberKnowsTable`, `StopQuiet`, `Misattribution`, `NothingTraced`, `TableIsExact`. `Carries` says which event and flow the two
  goroutines carry at each step; `AttributionInv` that the source text of each flow is the hex text of a GID the hook read, or the
  text of an RNIC whose own queue has the flow's QPN, which is never the flow's RNIC since QPNs are unique on a
  device. `NothingTraced`: if the host booted more than an hour after 1970, there is never a flow nor a service
  probe. `TableIsExact` needs an invariant over all events that are between the kernel and the table, in the event loop, the
  channel, the reader and the ring (`Unhandled`): for a queue pair of which nothing went wrong, the table followed by its events in that order
  ends in what the kernel has (`Chain`), no event on the way connects it to a second peer (`Allows`), and a flow has the source text of its own
  device (`Origins`). `Chain` is stated by positions, not by recursion: a new event extends it, a handled one shortens it, a
  move from one buffer to the next leaves it alone.
* `AgentLifecycleProofs`: `AgentTypes`, `PanicsExplained`, `StopReleases`, for any configurations, traces, probes and capacities. `AgentInv`
  says what follows from how far `Start` and `Stop` are: what runs was created (`Created`); the two goroutines are counted at the end of `Start` and the
  updater stays counted (`Counted`); a component is closed only by its step of `Stop` and, unless the signal overtook `Start`, does not
  run after it (`Ordered`: `Stop` moves only when `Start` is over); what the worker and the event loop belong to runs while they are in a probe or a request (`Belong`: `Stop` waits
  for them); the context is cancelled before the tracer is closed, and then no periodic trace
  runs a command or sends (`Quiet`: a trace begun under a cancelled context gives up at once); a client that `Start` or the event loop uses
  and that is gone was closed (`ClientKept`). The properties relate `crash`, `up` and `closed` only, and none is inductive without the position of
  `Start`.

Every invariant and every action property of the passing runs is proved, and so is the refinement. Model-checked only is what the prover
cannot do, liveness under fairness: `EveryProbeEnds`, `UpdateHappens`, `StopEnds`, `OldQpnsVanish`, `EveryPathEnds`,
`CloseEnds`, `ReaderEnds`, `DestroyedForgotten`, `StopGetsThrough`, `PathsForwarded`. So are the three violations. The types of all modules
are proved; only the runs of the uploader and of the agent check them as well.

## What the models show beyond the runs

Behaviours of the code that the models contain and that limit what the properties can say:

* On a responder queue both the poller and `ReceivePacket` repost a slot, so slots are posted
  twice; hence `SenderSound` is about sender queues. For the same reason `ReceivePacket` may copy a later
  packet than the one announced (`packet.go:423` means to avoid it by the copy; `cq.go:136` has reposted the slot before). An undersized datagram has
  the same effect on a sender queue.
* With both ACKs buffered, the `select` may take the second one first, and T5, "first ACK received time"
  (`prober.go:484`, and the comment at `:526`, "If this is the first ACK to arrive (regardless of type), record T5"), is that of the second ACK. The model leaves the choice open, and no property is about T5.
* The check "safely check if session is closed" (`prober.go:955`) does not exclude the send to an ACK channel that
  `removeSession` has closed: the `select` may choose it, and panics.
* With flow labels in the GRH, a late ACK of a timed-out probe is given to a later probe of the same target
  (`AckProvenance` says how far this goes).
* With several goroutines on a sender queue, a call can take the completion of another's send as T2, and a send slot can
  be overwritten when the ring is lapped; hence the conditions of `LagBounded` and `IntactUnlessLapped`.
* Goroutines of service probes are in no wait group: they can outlive `Close`, panic on the
  closed result channel, and send through a queue that has been destroyed.
* The cleanup loop takes a session by its age even while its call waits at a full result channel or is held up before it sends; the call then finds its channels closed
  and fails, and between the two stores the index entry stays for good. `Close` can miss what is stored while it ranges.
* `uploadData` uses `u.client` without the mutex: a concurrent reset makes it nil and the call panics. A
  reset drops the connection without closing it. When two uploads hold parts of an
  array and the earlier one is put back, `append` overwrites the later one's results; hence `~shared` in
  `ResultsConserved`.
* A registration that an agent gave up can finish after the next one and leave the old queue
  pairs in the table until the agent starts again; hence `abandoned` in `RowsCurrent`.
* Running agents are no longer listed after midnight, although the cleanup is off "to prevent agents from receiving empty pinglists"
  (`controller.go:86`): the queries age the rows by themselves, and agents register once.
* The limit of `registry.go:150` is `-5 minutes`, and `registry_test.go:241` expects a stale RNIC to be left out. The two texts differ in
  format after the date, so that rows of the same date always pass: on the day of its registration an RNIC is listed however old it is. `PinglistsFresh` states the limit
  that the code does keep.
* An update in which every call fails empties the target list.
* Agents send the empty ToR ID: all RNICs are in one ToR, the inter-ToR list is always empty and only logged.
* Without targets the cluster monitor's worker spins without a pause.
* A queue whose creation failed after it was put into the manager's map stays there destroyed: `Close` destroys it again and panics on
  its closed channels; and if it was a responder queue, its QPN is registered with the controller.
* `StopCQPoller` waits for a poller that may be blocked in `ibv_get_cq_event`; without a further completion, `Close` never ends.
* `ClusterMonitor.Stop` (`agent.go:618`) waits for a worker that may wait at the full channel of results, whose reader has ended with the context (`agent.go:587`).
* GIDs of flows and of RNICs are texts of different forms that never match. Service probes exist only where `fillMissingSrcGID`
  filled in the text of an RNIC, because an own queue on it has the flow's QPN, and those leave from the wrong RNIC (theorem `Misattribution`), although the log
  says "Successfully correlated SrcQPN to local SrcGID" (`serviceflowmonitor.go:193`, meant at `:133`). In practice the validation of timestamps rejects all events before that.
* `Start` adds two to the wait group and only the handler calls `Done`: `Stop` never returns once the agent is up (`agent_stop`). With the analyzer
  enabled, it does not even get past the uploader.
* A trace on demand is in no wait group and panics on the closed result channel. A periodic one never does, but blocks `Stop` when the channel
  is full and the handler has ended.
* When `Stop` overtakes `Start`, `InitializeUDQueues` may write to a nil map, requests may meet a nil client, and components
  started behind `Stop` stay running. A `Connect` that times out leaves its connection behind.

## Not modelled

* The analyzer's storage and engine are stubs that log. Configuration, metrics, commands and generated code have no
  protocol of their own.
* Packet formats, GRH parsing and the arithmetic of the timestamps are abstracted to the identity of the packet; clocks, latencies
  and the wording of logs are left out. The parsing of the output of `traceroute` is data (a silent hop with `-q 1` is
  dropped by it); how the kernel's structures are walked for a GID, the loading of the eBPF programs, its statistics and the diagnosis of a misaligned event change no state.
* `createQueuePair`'s path for a CQ that cannot be converted (`queue.go:270-274`, where the channel would go before the CQ) is a cast that cannot fail. A second signal ends the process at
  once. The start and stop of the controller's gRPC server are not modelled.
* A reset in the uploader drops the connection unclosed (`uploader.go:336`); connections are not counted, since nothing bounds
  them. `gid[:5]` of a GID text of four characters is out of range (`cluster_monitor.go:286`); GIDs are model values there.
* The RNIC, the kernel, the Go runtime, SQLite's comparison and the rate limiter are external and modelled from how the code uses them.

## Plan

Done first, because everything else feeds or consumes it: `Prober`, then the two halves of the queue under it, then
`ClusterMonitor`, `Controller` and `Uploader`; then the refinement of `ProbeService`, `QueueLifecycle`, `ServiceFlow`, `PathTracer` and
`AgentLifecycle`; then the proofs of every safety property. What is left:

1. Safety halves of the liveness properties, as theorems: that a call that waits has a timeout to wait for, and that a goroutine that
   blocks has someone to wake it.
2. A composition of `RecvQueue` and `SendQueue` with the session table, so that `AckProvenance` starts at the slot that the RNIC wrote.
