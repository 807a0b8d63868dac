--------------------------- MODULE ClusterMonitor ---------------------------
(***************************************************************************)
(* The cluster monitor of an agent (internal/monitor/cluster_monitor.go):  *)
(* the probe scheduler with one rate limiter per target GID, the pinglist  *)
(* updates that replace its targets, the sequential probe worker that      *)
(* draws targets from it, and Stop.                                        *)
(*                                                                         *)
(* GetNextTarget keeps the scheduler's mutex while it sleeps in the rate   *)
(* limiter, so that an update waits for the sleep to end.  A limiter is    *)
(* the time until its next Take may return; time passes in units of which  *)
(* Period make up the interval 1/targetProbeRatePerSec.                    *)
(***************************************************************************)
EXTENDS Integers, Sequences, Functions

CONSTANTS
  Gids,       \* GIDs of RNICs
  LocalGids,  \* those of the agent's own RNICs
  Queued,     \* those of them that have a sender UDQueue
  LinkLocal,  \* GIDs that begin with fe80:
  DeviceOf,   \* the device name of each GID
  LocalHost,  \* the agent's host name
  Pinglists,  \* the pinglists the controller may send, sequences of entries
  NoTarget,
  NoDevice,   \* the empty device name
  Period,     \* the interval of the rate limiters; 0 if unlimited
  ResultCap   \* probeResultChanBufferSize of the prober

(* An entry of a pinglist: complete says that it has both RNICs, device is *)
(* SourceRnic.DeviceName as sent by the controller.                        *)
Entries == [complete : BOOLEAN, src : Gids, gid : Gids, host : STRING,
            device : Range(DeviceOf) \cup {NoDevice}]

ASSUME MonitorAssumption ==
  /\ LocalGids \subseteq Gids
  /\ Queued \subseteq LocalGids
  /\ LinkLocal \subseteq Gids
  /\ DOMAIN DeviceOf = Gids
  /\ NoDevice \notin Range(DeviceOf)
  /\ Pinglists \subseteq Seq(Entries)
  \* the controller returns the device name that the requester sent
  /\ \A pl \in Pinglists : \A i \in DOMAIN pl :
       pl[i].src \in LocalGids =>
         pl[i].device \in {DeviceOf[pl[i].src], NoDevice}
  /\ NoTarget \notin Entries
  /\ Period \in Nat
  /\ ResultCap \in Nat \ {0}

VARIABLES
  targets,       \* ProbeScheduler.targets
  currentIndex,  \* ProbeScheduler.currentIndex
  limiter,       \* ProbeScheduler.targetLimiters: time until the next Take
  worker,        \* where the probe worker stands
  target,        \* the target it has drawn
  updater,       \* idle, or busy with a call of UpdatePinglist
  incoming,      \* the entries of the pinglist that are yet to convert
  update,        \* the targets converted so far
  stopCh,        \* ClusterMonitor.stopCh: open, closed, or joined by Stop
  results,       \* the number of results in the prober's probeResults
  reading,       \* Agent.resultHandler runs
  wait,          \* history: draws since each target was last drawn
  since,         \* history: time since the last Take for each GID
  renewed        \* history: GIDs whose limiter was replaced since then

schedVars == <<targets, currentIndex>>
histVars  == <<wait, since, renewed>>
updVars   == <<updater, incoming, update>>
resVars   == <<results, reading>>
vars == <<schedVars, histVars, updVars, resVars, limiter, worker, target,
          stopCh>>

-----------------------------------------------------------------------------
(* NewClusterMonitor and Start: no targets yet, and the worker runs. *)
Init ==
  /\ targets = <<>>
  /\ currentIndex = 0
  /\ limiter = [g \in Gids |-> 0]
  /\ worker = "select"
  /\ target = NoTarget
  /\ updater = "idle"
  /\ incoming = <<>>
  /\ update = <<>>
  /\ stopCh = "open"
  /\ results = 0
  /\ reading = TRUE
  /\ wait = <<>>
  /\ since = [g \in Gids |-> Period]
  /\ renewed = {}

(* shouldSkipLinkLocalTarget, given the source device by its name or, when *)
(* the controller sent none, by a lookup among the local RNICs.            *)
SourceDevice(e) ==
  CASE e.device # NoDevice -> e.device
    [] e.device = NoDevice /\ e.src \in LocalGids -> DeviceOf[e.src]
    [] OTHER -> NoDevice
ShouldSkipLinkLocal(e) ==
  /\ e.src \in LinkLocal
  /\ e.gid \in LinkLocal
  /\ SourceDevice(e) # DeviceOf[e.gid]

(* Mutant: link-local pairs are not sorted out. *)
AcceptedLinkLocal(e) == e.complete /\ e.host # LocalHost

(* The entries of a pinglist that UpdatePinglist converts. *)
Accepted(e) ==
  /\ e.complete
  /\ e.host # LocalHost
  /\ ~ShouldSkipLinkLocal(e)

(* UpdatePinglist: a pinglist has come from the controller. *)
UpdatePinglist ==
  /\ updater = "idle"
  /\ updater' = "busy"
  /\ incoming' \in Pinglists
  /\ update' = <<>>
  /\ UNCHANGED <<resVars, schedVars, histVars, limiter, worker, target, stopCh>>

(* It converts the entries before it takes the mutex. *)
ConvertEntry ==
  /\ updater = "busy"
  /\ incoming # <<>>
  /\ incoming' = Tail(incoming)
  /\ update' = IF Accepted(Head(incoming))
               THEN Append(update, Head(incoming)) ELSE update
  /\ UNCHANGED <<resVars, schedVars, histVars, limiter, worker, target, updater,
                 stopCh>>

(* Mutant: the worker keeps the mutex from one target to the next. *)
AlwaysLocked == worker # "ended"

(* The worker sleeps in GetNextTarget and has the mutex. *)
Locked == worker = "limited"

FirstIndex == 0

(* UpdateTargets: new targets, a new round and new limiters. *)
UpdateTargets ==
  /\ updater = "busy"
  /\ incoming = <<>>
  /\ ~Locked
  /\ targets' = update
  /\ currentIndex' = FirstIndex
  /\ limiter' = [g \in Gids |-> 0]
  /\ wait' = [i \in 1..Len(update) |-> 0]
  /\ renewed' = Gids
  /\ updater' = "idle"
  /\ update' = <<>>
  /\ UNCHANGED <<resVars, incoming, worker, target, stopCh, since>>

-----------------------------------------------------------------------------
(* Mutant: the worker only ends when it has nothing to probe. *)
SelectStopIdle ==
  /\ worker = "select"
  /\ stopCh = "closed"
  /\ targets = <<>>
  /\ worker' = "ended"
  /\ UNCHANGED <<resVars, schedVars, histVars, limiter, target, updVars, stopCh>>

(* runSequentialProbeWorker: the select takes stopCh once it is closed. *)
SelectStop ==
  /\ worker = "select"
  /\ stopCh = "closed"
  /\ worker' = "ended"
  /\ UNCHANGED <<resVars, schedVars, histVars, limiter, target, updVars, stopCh>>

SelectDefault ==
  /\ worker = "select"
  /\ stopCh = "open"
  /\ worker' = "next"
  /\ UNCHANGED <<resVars, schedVars, histVars, limiter, target, updVars, stopCh>>

(* GetNextTarget without targets returns nil, and the worker turns again   *)
(* at once.                                                                *)
NoNextTarget ==
  /\ worker = "next"
  /\ targets = <<>>
  /\ worker' = "select"
  /\ UNCHANGED <<resVars, schedVars, histVars, limiter, target, updVars, stopCh>>

(* Mutant: the last target is left out of the round. *)
NextIndexShort == IF currentIndex + 2 >= Len(targets) THEN 0
                  ELSE currentIndex + 1

NextIndex == (currentIndex + 1) % Len(targets)

(* GetNextTarget draws the next target under the mutex. *)
DrawTarget ==
  /\ worker = "next"
  /\ targets # <<>>
  /\ target' = targets[currentIndex + 1]
  /\ currentIndex' = NextIndex
  /\ wait' = [i \in DOMAIN wait |->
                IF i = currentIndex + 1 THEN 0 ELSE wait[i] + 1]
  /\ worker' = "limited"
  /\ UNCHANGED <<resVars, targets, limiter, updVars, stopCh, since, renewed>>

(* Mutant: the limiter is not asked. *)
NotLimited == TRUE

Allowed == limiter[target.gid] = 0

(* limiter.Take returns, and the mutex is free again. *)
Take ==
  /\ worker = "limited"
  /\ Allowed
  /\ limiter' = [limiter EXCEPT ![target.gid] = Period]
  /\ since' = [since EXCEPT ![target.gid] = 0]
  /\ renewed' = renewed \ {target.gid}
  /\ worker' = "drawn"
  /\ UNCHANGED <<resVars, schedVars, wait, target, updVars, stopCh>>

(* What processNextProbe requires of a target before it probes it. *)
Probeable(t) ==
  /\ t.src \in LocalGids
  /\ t.gid # t.src
  /\ t.host # LocalHost
  /\ t.src \in Queued

(* processNextProbe calls ProbeTarget, or returns. *)
ProcessNextProbe ==
  /\ worker = "drawn"
  /\ IF Probeable(target)
     THEN worker' = "probing" /\ UNCHANGED target
     ELSE worker' = "select" /\ target' = NoTarget
  /\ UNCHANGED <<resVars, schedVars, histVars, limiter, updVars, stopCh>>

(* ProbeTarget returns (Prober!EveryProbeEnds), the last thing that it     *)
(* waits for being a place for its result in probeResults.                 *)
ProbeReturns ==
  /\ worker = "probing"
  /\ results < ResultCap
  /\ results' = results + 1
  /\ worker' = "select"
  /\ target' = NoTarget
  /\ UNCHANGED <<schedVars, histVars, limiter, updVars, stopCh, reading>>

(* The result of a service probe, which another goroutine makes.           *)
ServiceResult ==
  /\ results < ResultCap
  /\ results' = results + 1
  /\ UNCHANGED <<schedVars, histVars, limiter, worker, target, updVars,
                 stopCh, reading>>

(* Agent.resultHandler takes a result, ...                                 *)
ReadResult ==
  /\ reading
  /\ results > 0
  /\ results' = results - 1
  /\ UNCHANGED <<schedVars, histVars, limiter, worker, target, updVars,
                 stopCh, reading>>

(* ... and ends when Agent.Stop, before it comes to Stop below, cancels    *)
(* the agent's context.                                                    *)
ReaderEnds ==
  /\ reading
  /\ reading' = FALSE
  /\ UNCHANGED <<schedVars, histVars, limiter, worker, target, updVars,
                 stopCh, results>>

-----------------------------------------------------------------------------
(* Stop closes stopCh and waits for the worker. *)
Stop ==
  /\ stopCh = "open"
  /\ stopCh' = "closed"
  /\ UNCHANGED <<resVars, schedVars, histVars, limiter, worker, target, updVars>>

StopReturns ==
  /\ stopCh = "closed"
  /\ worker = "ended"
  /\ stopCh' = "joined"
  /\ UNCHANGED <<resVars, schedVars, histVars, limiter, worker, target, updVars>>

(* Time passes. *)
Tick ==
  /\ \E g \in Gids : limiter[g] > 0 \/ since[g] < Period
  /\ limiter' = [g \in Gids |-> IF limiter[g] > 0 THEN limiter[g] - 1
                                ELSE 0]
  /\ since' = [g \in Gids |-> IF since[g] < Period THEN since[g] + 1
                              ELSE Period]
  /\ UNCHANGED <<resVars, schedVars, wait, renewed, worker, target, updVars, stopCh>>

Worker ==
  \/ SelectStop
  \/ SelectDefault
  \/ NoNextTarget
  \/ DrawTarget
  \/ Take
  \/ ProcessNextProbe
  \/ ProbeReturns

Next ==
  \/ UpdatePinglist
  \/ ConvertEntry
  \/ UpdateTargets
  \/ Worker
  \/ ServiceResult
  \/ ReadResult
  \/ ReaderEnds
  \/ Stop
  \/ StopReturns
  \/ Tick

(* The worker is scheduled, time passes, and the handler reads as long as  *)
(* it runs.  A goroutine that waits for a place in a channel gets one if   *)
(* places go on falling free (waiting senders are served in order), and a  *)
(* waiting update gets the mutex at last: a Go mutex is handed to a        *)
(* goroutine that has waited for it for a millisecond.                     *)
Fairness ==
  /\ WF_vars(Worker)
  /\ SF_vars(ProbeReturns)
  /\ WF_vars(ReadResult)
  /\ WF_vars(Tick)
  /\ WF_vars(ConvertEntry)
  /\ SF_vars(UpdateTargets)
  /\ WF_vars(StopReturns)

Spec == Init /\ [][Next]_vars /\ Fairness

-----------------------------------------------------------------------------
(* Every variable has its type; the index stays within the targets when an *)
(* update shortens the list between two draws.                             *)
TypeOK ==
  /\ targets \in Seq(Entries)
  /\ currentIndex \in Nat
  /\ targets = <<>> => currentIndex = 0
  /\ targets # <<>> => currentIndex < Len(targets)
  /\ limiter \in [Gids -> 0..Period]
  /\ worker \in {"select", "next", "limited", "drawn", "probing", "ended"}
  /\ target \in Entries \cup {NoTarget}
  /\ worker \in {"limited", "drawn", "probing"} <=> target # NoTarget
  /\ updater \in {"idle", "busy"}
  /\ incoming \in Seq(Entries)
  /\ update \in Seq(Entries)
  /\ stopCh \in {"open", "closed", "joined"}
  /\ results \in 0..ResultCap
  /\ reading \in BOOLEAN
  /\ wait \in Seq(Nat) /\ Len(wait) = Len(targets)
  /\ since \in [Gids -> 0..Period]
  /\ renewed \subseteq Gids

(* Round robin: between two updates, any Len(targets) draws in a row       *)
(* include every target.                                                   *)
RoundRobin == \A i \in DOMAIN targets : wait[i] < Len(targets)

(* What is probed is worth probing, whatever the controller sends: a local *)
(* RNIC that has a sender queue probes an RNIC of another host, and        *)
(* link-local GIDs of different devices are not paired.                    *)
ProbesAreSound ==
  worker = "probing" =>
    /\ target.src \in Queued
    /\ target.host # LocalHost
    /\ target.gid # target.src
    /\ {target.src, target.gid} \subseteq LinkLocal =>
         DeviceOf[target.src] = DeviceOf[target.gid]

(* Per-target rate limiting: two probes of a GID, from whichever source    *)
(* RNIC, are a Period apart unless an update replaced the limiters.        *)
RateKept ==
  [][worker = "limited" /\ worker' = "drawn" =>
       since[target.gid] = Period \/ target.gid \in renewed]_vars

(* A pinglist comes into force although the worker holds the     *)
(* mutex most of the time.                                                 *)
UpdateHappens == updater = "busy" ~> updater = "idle"

(* The worker waits for a place in a channel that nobody reads any more.   *)
HeldByResults == worker = "probing" /\ results = ResultCap /\ ~reading

(* Stop returns: the worker leaves the limiter and the probe and sees the  *)
(* closed channel, unless the result handler, which the agent cancels      *)
(* before it calls Stop, has left it with a full result channel.           *)
StopEnds == stopCh = "closed" ~> stopCh = "joined" \/ HeldByResults

=============================================================================
