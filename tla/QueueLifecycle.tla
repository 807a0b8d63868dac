--------------------------- MODULE QueueLifecycle ---------------------------
(***************************************************************************)
(* The life of the RDMA resources of an agent (internal/state/state.go,    *)
(* internal/rdma/{device,queue,cq}.go): AgentState opens the devices and   *)
(* creates a sender and a responder queue for each, any call to the verbs  *)
(* library that makes something may fail on the way, a CQ poller goroutine *)
(* serves each queue, the prober's goroutines use the queues, and Close    *)
(* destroys everything.                                                    *)
(*                                                                         *)
(* Agent.Start (phase) and Agent.Stop (closing) are two goroutines: a      *)
(* signal may call Stop wherever Start stands.  Both destroy queues, Start *)
(* on its error paths.  The libraries' objects are elements of res.        *)
(***************************************************************************)
EXTENDS Integers, Sequences, FiniteSets

CONSTANTS
  Rnics,     \* the devices that pass the name filter, with distinct GIDs
  NumSlots,  \* InitialRecvBuffers
  NoRnic, NoQueue

Kinds    == {"sender", "responder"}
Queues   == Rnics \X Kinds
Programs == {"start", "stop"}

ASSUME RnicsAssumption ==
  /\ NoRnic \notin Rnics
  /\ NoQueue \notin Queues
ASSUME SlotsAssumption == NumSlots \in Nat \ {0}

VARIABLES
  phase,       \* where Agent.Start stands
  todo,        \* what the loop of the phase has still to visit
  detected,    \* AgentState.detectedRNICs
  cur,         \* the RNIC that queues are being created for
  creating,    \* the kind being created and the next step of CreateUDQueue
  undo,        \* what the error path of a step has still to destroy
  closing,     \* where Agent.Stop stands
  left,        \* what the loops of RDMAManager.Close have still to visit
  overtaken,   \* Stop went on to AgentState.Close before Start had the queues
  destroying,  \* the queues that each program has to destroy, in this order
  step,        \* progress of its Destroy of the first of them
  isOpen,      \* RNICs with IsOpen: context and protection domain are live
  res,         \* live objects of each queue
  chans,       \* sendCompChan, recvCompChan and errChan of each queue
  managed,     \* RDMAManager.SenderUDQueues and ResponderUDQueues
  published,   \* AgentState.senderQueues and responderQueues
  fields,      \* RNIC.ProberQueue and RNIC.ResponderQueue
  registered,  \* queues whose QPN the controller was told
  poller,      \* the CQ poller goroutine of each queue
  done,        \* queues whose cqPollerDone is closed
  responding,  \* queues that a responder loop receives on
  probing,     \* a goroutine of a service probe: the queue it holds
  crashed

startVars   == <<phase, todo, detected, cur, creating, undo>>
stopVars    == <<closing, left, overtaken>>
destroyVars == <<destroying, step>>
tableVars   == <<managed, published, fields, registered>>
userVars    == <<responding, probing>>
objectVars  == <<isOpen, res, chans, poller, done>>
vars == <<startVars, stopVars, destroyVars, tableVars, userVars, objectVars, crashed>>

Sender(r)    == <<r, "sender">>
Responder(r) == <<r, "responder">>

Objects == {"channel", "cq", "qp", "sendBuf", "recvBuf", "sendMR", "recvMR"}

(* createQueuePair and allocateMemoryResources; "rts" stands for the three *)
(* state changes of the queue pair.                                        *)
Steps == <<"channel", "cq", "qp", "rts", "sendBuf", "recvBuf", "sendMR", "recvMR">>
StoreStep == 9
PostStep(i) == StoreStep + i
LastStep == PostStep(NumSlots)
UndoStep == LastStep + 2

NotCreating == [kind |-> "sender", at |-> 0]
CreateFrom(k) == [kind |-> k, at |-> 1]
Queue == <<cur, creating.kind>>

Running == {"arm", "busy", "wait"}  \* cqPollerRunning

(* The devices are a list, which every loop visits in the same order.      *)
First(S) == CHOOSE r \in S : TRUE

Init ==
  /\ phase = "manager"
  /\ todo = {}
  /\ detected = {}
  /\ cur = NoRnic
  /\ creating = NotCreating
  /\ undo = <<>>
  /\ closing = "no"
  /\ left = {}
  /\ overtaken = FALSE
  /\ destroying = [p \in Programs |-> <<>>]
  /\ step = [p \in Programs |-> 0]
  /\ isOpen = {}
  /\ res = [q \in Queues |-> {}]
  /\ chans = [q \in Queues |-> "none"]
  /\ managed = {}
  /\ published = {}
  /\ fields = {}
  /\ registered = {}
  /\ poller = [q \in Queues |-> "none"]
  /\ done = {}
  /\ responding = {}
  /\ probing = NoQueue
  /\ crashed = "no"

-----------------------------------------------------------------------------
(* InitializeRDMAInfrastructure: NewRDMAManager lists the devices, or      *)
(* fails, and Start with it.                                               *)
NewManager ==
  /\ phase = "manager"
  /\ \/ phase' = "open" /\ todo' = Rnics
     \/ phase' = "failed" /\ UNCHANGED todo
  /\ UNCHANGED <<detected, cur, creating, undo, stopVars, destroyVars,
                 tableVars, userVars, objectVars, crashed>>

(* OpenDevice succeeds, or it fails and has released what it had; a device *)
(* that fails is skipped.                                                  *)
OpenDevice(r) ==
  /\ phase = "open"
  /\ todo # {} /\ r = First(todo)
  /\ todo' = todo \ {r}
  /\ \/ isOpen' = isOpen \cup {r} /\ detected' = detected \cup {r}
     \/ UNCHANGED <<isOpen, detected>>
  /\ UNCHANGED <<phase, cur, creating, undo, stopVars, destroyVars, tableVars,
                 userVars, res, chans, poller, done, crashed>>

(* Without any device Start fails; otherwise the queues are next.          *)
DevicesOpened ==
  /\ phase = "open"
  /\ todo = {}
  /\ phase' = IF detected = {} THEN "failed" ELSE "queues"
  /\ todo' = detected
  /\ UNCHANGED <<detected, cur, creating, undo, stopVars, destroyVars,
                 tableVars, userVars, objectVars, crashed>>

-----------------------------------------------------------------------------
(* InitializeUDQueues: CreateSenderAndResponderQueues for each RNIC.       *)

CreateQueues(r) ==
  /\ phase = "queues"
  /\ cur = NoRnic
  /\ destroying["start"] = <<>>
  /\ todo # {} /\ r = First(todo)
  /\ todo' = todo \ {r}
  /\ \/ /\ r \in isOpen
        /\ cur' = r
        /\ creating' = CreateFrom("sender")
     \/ /\ r \notin isOpen
        /\ UNCHANGED <<cur, creating>>
  /\ UNCHANGED <<phase, detected, undo, stopVars, destroyVars, tableVars,
                 userVars, objectVars, crashed>>

Acquire ==
  /\ creating.at \in DOMAIN Steps
  /\ creating' = [creating EXCEPT !.at = @ + 1]
  /\ res' = [res EXCEPT ![Queue] = @ \cup ({Steps[creating.at]} \cap Objects)]
  /\ UNCHANGED <<phase, todo, detected, cur, undo, stopVars, destroyVars,
                 tableVars, userVars, isOpen, chans, poller, done, crashed>>

(* Mutant: the failure of the receive MR frees the buffers first.          *)
CleanedUpBuffersFirst(at) ==
  CASE at = 1 -> <<>>
    [] at = 2 -> <<"channel">>
    [] at = 3 -> <<"cq", "channel">>
    [] at \in {4, 5} -> <<"qp", "cq", "channel">>
    [] at = 6 -> <<"sendBuf", "qp", "cq", "channel">>
    [] at = 7 -> <<"recvBuf", "sendBuf", "qp", "cq", "channel">>
    [] at = 8 -> <<"recvBuf", "sendBuf", "sendMR", "qp", "cq", "channel">>

(* What the error path of a step destroys, in the order of its calls; from *)
(* 5 on, CreateUDQueue destroys the queue pair, the CQ and the channel     *)
(* after allocateMemoryResources has freed its own.                        *)
CleanedUp(at) ==
  CASE at = 1 -> <<>>
    [] at = 2 -> <<"channel">>
    [] at = 3 -> <<"cq", "channel">>
    [] at \in {4, 5} -> <<"qp", "cq", "channel">>
    [] at = 6 -> <<"sendBuf", "qp", "cq", "channel">>
    [] at = 7 -> <<"recvBuf", "sendBuf", "qp", "cq", "channel">>
    [] at = 8 -> <<"sendMR", "recvBuf", "sendBuf", "qp", "cq", "channel">>

AcquireFails ==
  /\ creating.at \in DOMAIN Steps
  /\ undo' = CleanedUp(creating.at)
  /\ creating' = [creating EXCEPT !.at = UndoStep]
  /\ UNCHANGED <<phase, todo, detected, cur, stopVars, destroyVars, tableVars,
                 userVars, objectVars, crashed>>

UndoNext ==
  /\ creating.at = UndoStep
  /\ undo # <<>>
  /\ res' = [res EXCEPT ![Queue] = @ \ {Head(undo)}]
  /\ undo' = Tail(undo)
  /\ UNCHANGED <<phase, todo, detected, cur, creating, stopVars, destroyVars,
                 tableVars, userVars, isOpen, chans, poller, done, crashed>>

(* The caller's error path: a sender queue whose responder could not be    *)
(* created is destroyed; the loop goes on with the next RNIC.              *)
CreationFails(first) ==
  /\ cur' = NoRnic
  /\ creating' = NotCreating
  /\ destroying' = [destroying EXCEPT !["start"] =
                      first \o (IF creating.kind = "responder"
                                THEN <<Sender(cur)>> ELSE <<>>)]

UndoDone ==
  /\ creating.at = UndoStep
  /\ undo = <<>>
  /\ CreationFails(<<>>)
  /\ UNCHANGED <<phase, todo, detected, undo, stopVars, step, tableVars,
                 userVars, objectVars, crashed>>

(* The queue is stored in the RNIC and in the manager's map, and only then *)
(* is it made ready to use: StartCQPoller, then the receives.              *)
StoreQueue ==
  /\ creating.at = StoreStep
  /\ creating' = [creating EXCEPT !.at = @ + 1]
  /\ chans' = [chans EXCEPT ![Queue] = "open"]
  /\ fields' = fields \cup {Queue}
  /\ managed' = managed \cup {Queue}
  /\ poller' = [poller EXCEPT ![Queue] = "arm"]
  /\ UNCHANGED <<phase, todo, detected, cur, undo, stopVars, destroyVars,
                 published, registered, userVars, isOpen, res, done, crashed>>

PostRecvSlot ==
  /\ creating.at \in PostStep(1)..LastStep
  /\ creating' = [creating EXCEPT !.at = @ + 1]
  /\ UNCHANGED <<phase, todo, detected, cur, undo, stopVars, destroyVars,
                 tableVars, userVars, objectVars, crashed>>

(* Mutant: a queue that cannot post its receives is not destroyed.         *)
PostRecvSlotFailsKeeps ==
  /\ creating.at \in PostStep(1)..LastStep
  /\ CreationFails(<<>>)
  /\ UNCHANGED <<phase, todo, detected, undo, stopVars, step, tableVars,
                 userVars, objectVars, crashed>>

PostRecvSlotFails ==
  /\ creating.at \in PostStep(1)..LastStep
  /\ CreationFails(<<Queue>>)
  /\ UNCHANGED <<phase, todo, detected, undo, stopVars, step, tableVars,
                 userVars, objectVars, crashed>>

(* Mutant: the sender queue is destroyed on success too.                   *)
QueueCreatedDestroysSender ==
  /\ creating.at = LastStep + 1
  /\ \/ /\ creating.kind = "sender"
        /\ creating' = CreateFrom("responder")
        /\ UNCHANGED <<cur, published, destroying>>
     \/ /\ creating.kind = "responder"
        /\ closing # "done"
        /\ creating' = NotCreating
        /\ cur' = NoRnic
        /\ published' = published \cup {Sender(cur), Responder(cur)}
        /\ destroying' = [destroying EXCEPT !["start"] = <<Sender(cur)>>]
  /\ UNCHANGED <<phase, todo, detected, undo, stopVars, step, managed, fields,
                 registered, userVars, objectVars, crashed>>

(* Both queues are published; AgentState.Close leaves nil maps, which      *)
(* cannot be written.                                                      *)
QueueCreated ==
  /\ creating.at = LastStep + 1
  /\ \/ /\ creating.kind = "sender"
        /\ creating' = CreateFrom("responder")
        /\ UNCHANGED <<cur, published>>
     \/ /\ creating.kind = "responder"
        /\ closing # "done"
        /\ creating' = NotCreating
        /\ cur' = NoRnic
        /\ published' = published \cup {Sender(cur), Responder(cur)}
  /\ UNCHANGED <<phase, todo, detected, undo, stopVars, destroyVars, managed,
                 fields, registered, userVars, objectVars, crashed>>

(* Prober.Start runs a responder loop on each published responder queue.   *)
StartProber ==
  /\ phase = "queues"
  /\ todo = {}
  /\ cur = NoRnic
  /\ destroying["start"] = <<>>
  /\ phase' = "register"
  /\ responding' = {q \in published : q[2] = "responder"}
  /\ UNCHANGED <<todo, detected, cur, creating, undo, stopVars, destroyVars,
                 tableVars, probing, objectVars, crashed>>

(* RegisterAgent tells the responder queue of every detected RNIC; one     *)
(* that has none makes Start fail.                                         *)
RegisterAgent ==
  /\ phase = "register"
  /\ \/ /\ \A r \in detected : Responder(r) \in fields
        /\ registered' = {Responder(r) : r \in detected}
        /\ phase' = "running"
     \/ /\ phase' = "failed"
        /\ UNCHANGED registered
  /\ UNCHANGED <<todo, detected, cur, creating, undo, stopVars, destroyVars,
                 managed, published, fields, userVars, objectVars, crashed>>

(* While AgentState.Close runs in the other goroutine, or after it, Start  *)
(* shares the manager, its maps and the devices with it without a lock: a  *)
(* nil manager or map, a map written while it is ranged over.              *)
Race ==
  /\ overtaken
  /\ closing \in {"queues", "devices", "done"}
  /\ phase = "queues"
  /\ crashed' = "data race"
  /\ UNCHANGED <<startVars, stopVars, destroyVars, tableVars, userVars,
                 objectVars>>

-----------------------------------------------------------------------------
(* UDQueue.Destroy of the first queue that program p has to destroy.       *)

Victim(p) == Head(destroying[p])

(* A running poller is told to end by closing its channel, which a second  *)
(* StopCQPoller at the same time would close again.                        *)
StopCQPoller(p) ==
  /\ destroying[p] # <<>>
  /\ step[p] = 0
  /\ \/ /\ poller[Victim(p)] \in Running
        /\ Victim(p) \in done
        /\ crashed' = "close of closed channel"
        /\ UNCHANGED <<done, step>>
     \/ /\ poller[Victim(p)] \in Running => Victim(p) \notin done
        /\ done' = IF poller[Victim(p)] \in Running
                   THEN done \cup {Victim(p)} ELSE done
        /\ step' = [step EXCEPT ![p] = 1]
        /\ UNCHANGED crashed
  /\ UNCHANGED <<startVars, stopVars, destroying, tableVars, userVars, isOpen,
                 res, chans, poller>>

PollerStopped(p) ==
  /\ destroying[p] # <<>>
  /\ step[p] = 1
  /\ poller[Victim(p)] \notin Running
  /\ step' = [step EXCEPT ![p] = 2]
  /\ UNCHANGED <<startVars, stopVars, destroying, tableVars, userVars,
                 objectVars, crashed>>

(* The channels are never nil again, so that a second Destroy closes them  *)
(* again and panics.                                                       *)
CloseChannels(p) ==
  /\ destroying[p] # <<>>
  /\ step[p] = 2
  /\ \/ /\ chans[Victim(p)] = "open"
        /\ chans' = [chans EXCEPT ![Victim(p)] = "closed"]
        /\ step' = [step EXCEPT ![p] = 3]
        /\ UNCHANGED crashed
     \/ /\ chans[Victim(p)] = "closed"
        /\ crashed' = "close of closed channel"
        /\ UNCHANGED <<chans, step>>
  /\ UNCHANGED <<startVars, stopVars, destroying, tableVars, userVars, isOpen,
                 res, poller, done>>

ReleaseOrder == <<"recvMR", "sendMR", "recvBuf", "sendBuf", "qp", "cq", "channel">>

ReleaseNext(p) ==
  /\ destroying[p] # <<>>
  /\ step[p] \in 3..9
  /\ res' = [res EXCEPT ![Victim(p)] = @ \ {ReleaseOrder[step[p] - 2]}]
  /\ step' = [step EXCEPT ![p] = IF @ = 9 THEN 0 ELSE @ + 1]
  /\ destroying' = [destroying EXCEPT ![p] = IF step[p] = 9 THEN Tail(@) ELSE @]
  /\ UNCHANGED <<startVars, stopVars, tableVars, userVars, isOpen, chans,
                 poller, done, crashed>>

-----------------------------------------------------------------------------
(* Agent.Stop, from Prober.Close on; a signal calls it at any time.        *)

StopAgent ==
  /\ closing = "no"
  /\ closing' = "prober"
  /\ UNCHANGED <<startVars, left, overtaken, destroyVars, tableVars, userVars,
                 objectVars, crashed>>

(* A responder loop finds stopCh closed.                                   *)
ResponderEnds(q) ==
  /\ closing # "no"
  /\ q \in responding
  /\ responding' = responding \ {q}
  /\ UNCHANGED <<startVars, stopVars, destroyVars, tableVars, probing,
                 objectVars, crashed>>

(* Mutant: Prober.Close does not wait for its goroutines.                  *)
CloseProberNoWait ==
  /\ closing = "prober"
  /\ closing' = "state"
  /\ overtaken' = (phase \in {"manager", "open", "queues"})
  /\ UNCHANGED <<startVars, left, destroyVars, tableVars, userVars, objectVars,
                 crashed>>

(* Prober.Close waits for the responder loops and not for the goroutines   *)
(* of service probes; it waits for nothing when Prober.Start is still to   *)
(* come.                                                                   *)
CloseProber ==
  /\ closing = "prober"
  /\ responding = {}
  /\ closing' = "state"
  /\ overtaken' = (phase \in {"manager", "open", "queues"})
  /\ UNCHANGED <<startVars, left, destroyVars, tableVars, userVars, objectVars,
                 crashed>>

(* AgentState.Close, with the manager if there is one.                     *)
CloseStart ==
  /\ closing = "state"
  /\ \/ /\ phase # "manager"
        /\ closing' = "queues"
        /\ left' = managed
     \/ /\ phase = "manager"
        /\ closing' = "done"
        /\ UNCHANGED left
  /\ UNCHANGED <<startVars, overtaken, destroyVars, tableVars, userVars,
                 objectVars, crashed>>

(* The sender queues first, then the responder queues.                     *)
CloseQueue(q) ==
  /\ closing = "queues"
  /\ destroying["stop"] = <<>>
  /\ q \in left
  /\ q[2] = "responder" => \A p \in left : p[2] = "responder"
  /\ left' = left \ {q}
  /\ destroying' = [destroying EXCEPT !["stop"] = <<q>>]
  /\ UNCHANGED <<startVars, closing, overtaken, step, tableVars, userVars,
                 objectVars, crashed>>

QueuesClosed ==
  /\ closing = "queues"
  /\ left = {}
  /\ destroying["stop"] = <<>>
  /\ closing' = "devices"
  /\ left' = Rnics
  /\ managed' = {}
  /\ UNCHANGED <<startVars, overtaken, destroyVars, published, fields,
                 registered, userVars, objectVars, crashed>>

CloseDevice(r) ==
  /\ closing = "devices"
  /\ left # {} /\ r = First(left)
  /\ left' = left \ {r}
  /\ isOpen' = isOpen \ {r}
  /\ UNCHANGED <<startVars, closing, overtaken, destroyVars, tableVars,
                 userVars, res, chans, poller, done, crashed>>

DevicesClosed ==
  /\ closing = "devices"
  /\ left = {}
  /\ closing' = "done"
  /\ published' = {}
  /\ detected' = {}
  /\ UNCHANGED <<phase, todo, cur, creating, undo, left, overtaken,
                 destroyVars, managed, fields, registered, userVars, objectVars,
                 crashed>>

-----------------------------------------------------------------------------
(* The CQ poller goroutine of a queue.                                     *)

Poll(q, from, to) ==
  /\ poller[q] = from
  /\ poller' = [poller EXCEPT ![q] = to]
  /\ UNCHANGED <<startVars, stopVars, destroyVars, tableVars, userVars, isOpen,
                 res, chans, done, crashed>>

(* The first ibv_req_notify_cq; its failure ends the poller.               *)
PollerArm(q) ==
  \E l \in {"busy", "stopped"} : Poll(q, "arm", l)

(* Mutant: the poller does not look at cqPollerDone.                       *)
PollerNeverDone(q) == Poll(q, "busy", "wait")

(* The poller processes what it has found on the CQ, reading the buffers   *)
(* and sending to the queue's channels, and looks at cqPollerDone again.   *)
PollerCheckDone(q) ==
  Poll(q, "busy", IF q \in done THEN "stopped" ELSE "wait")

(* ibv_get_cq_event returns when the RNIC raises an event, if ever.        *)
GetCQEvent(q) == Poll(q, "wait", "busy")

(* ... or it fails, which ends the poller.                                 *)
GetCQEventFails(q) == Poll(q, "wait", "stopped")

-----------------------------------------------------------------------------
(* The prober's use of the queues: the responder loops in responding       *)
(* receive on theirs all the time, a goroutine of a service probe looks    *)
(* its queue up and later sends through it.                                *)

Usable(q) == res[q] = Objects /\ chans[q] = "open"

ServiceProbe(q) ==
  /\ phase \in {"register", "running", "failed"}
  /\ probing = NoQueue
  /\ q[2] = "sender"
  /\ q \in published
  /\ probing' = q
  /\ UNCHANGED <<startVars, stopVars, destroyVars, tableVars, responding,
                 objectVars, crashed>>

ServiceProbeSends ==
  /\ probing # NoQueue
  /\ probing' = NoQueue
  /\ crashed' = IF Usable(probing) THEN crashed
                ELSE "service probe used a destroyed queue"
  /\ UNCHANGED <<startVars, stopVars, destroyVars, tableVars, responding,
                 objectVars>>

-----------------------------------------------------------------------------
Destroy(p) ==
  \/ StopCQPoller(p)
  \/ PollerStopped(p)
  \/ CloseChannels(p)
  \/ ReleaseNext(p)

(* What the goroutines of Start and Stop do by themselves.                 *)
Start ==
  \/ NewManager
  \/ \E r \in Rnics : OpenDevice(r)
  \/ DevicesOpened
  \/ \E r \in Rnics : CreateQueues(r)
  \/ Acquire
  \/ AcquireFails
  \/ UndoNext
  \/ UndoDone
  \/ StoreQueue
  \/ PostRecvSlot
  \/ PostRecvSlotFails
  \/ QueueCreated
  \/ StartProber
  \/ RegisterAgent
  \/ Destroy("start")

Stop ==
  \/ CloseProber
  \/ CloseStart
  \/ \E q \in Queues : CloseQueue(q)
  \/ QueuesClosed
  \/ \E r \in Rnics : CloseDevice(r)
  \/ DevicesClosed
  \/ Destroy("stop")

Poller(q) ==
  \/ PollerArm(q)
  \/ PollerCheckDone(q)

Step ==
  \/ Start
  \/ Race
  \/ StopAgent
  \/ Stop
  \/ \E q \in Queues : ResponderEnds(q)
  \/ \E q \in Queues : Poller(q)
  \/ \E q \in Queues : GetCQEvent(q)
  \/ \E q \in Queues : GetCQEventFails(q)
  \/ \E q \in Queues : ServiceProbe(q)
  \/ ServiceProbeSends

Next == crashed = "no" /\ Step

(* The Go scheduler runs every goroutine that is not blocked.  Nothing is  *)
(* assumed of the RNIC: it may never raise another event.                  *)
Fairness ==
  /\ WF_vars(crashed = "no" /\ Start)
  /\ WF_vars(crashed = "no" /\ Stop)
  /\ \A q \in Queues : WF_vars(crashed = "no" /\ ResponderEnds(q))
  /\ \A q \in Queues : WF_vars(crashed = "no" /\ Poller(q))

Spec == Init /\ [][Next]_vars /\ Fairness

-----------------------------------------------------------------------------
Phases == {"manager", "open", "queues", "register", "running", "failed"}
StopPhases == {"no", "prober", "state", "queues", "devices", "done"}
Panics == {"no", "close of closed channel", "data race",
           "service probe used a destroyed queue"}

TypeOK ==
  /\ phase \in Phases
  /\ todo \subseteq Rnics
  /\ detected \subseteq Rnics
  /\ cur \in Rnics \cup {NoRnic}
  /\ creating \in [kind : Kinds, at : 0..UndoStep]
  /\ undo \in Seq(Objects)
  /\ closing \in StopPhases
  /\ left \subseteq Rnics \cup Queues
  /\ overtaken \in BOOLEAN
  /\ destroying \in [Programs -> Seq(Queues)]
  /\ step \in [Programs -> 0..9]
  /\ isOpen \subseteq Rnics
  /\ res \in [Queues -> SUBSET Objects]
  /\ chans \in [Queues -> {"none", "open", "closed"}]
  /\ managed \subseteq Queues
  /\ published \subseteq Queues
  /\ fields \subseteq Queues
  /\ registered \subseteq Queues
  /\ poller \in [Queues -> Running \cup {"none", "stopped"}]
  /\ done \subseteq Queues
  /\ responding \subseteq Queues
  /\ probing \in Queues \cup {NoQueue}
  /\ crashed \in Panics

(* No object is destroyed while another that was made from it is left, at  *)
(* any call of a creation, of an error path or of Destroy: a buffer        *)
(* outlives its memory region, the CQ its queue pair, the channel its CQ   *)
(* and the open device all of them.                                        *)
DependenciesHeld ==
  \A q \in Queues :
    /\ "sendMR" \in res[q] => "sendBuf" \in res[q]
    /\ "recvMR" \in res[q] => "recvBuf" \in res[q]
    /\ "qp" \in res[q] => "cq" \in res[q]
    /\ "cq" \in res[q] => "channel" \in res[q]
    /\ res[q] # {} => q[1] \in isOpen

(* Every object of the verbs library is owned: by a queue in the manager's *)
(* maps or by the creation under way; and after Close there is none.       *)
NothingLeaks ==
  /\ \A q \in Queues :
       res[q] # {} => \/ q \in managed
                      \/ creating.at > 0 /\ q = Queue
  /\ closing = "done" => isOpen = {} /\ \A q \in Queues : res[q] = {}

(* Unless Stop overtook Start, the objects of the verbs library are        *)
(* destroyed in the right order on every path, and all of them.            *)
ResourcesSound == overtaken \/ (DependenciesHeld /\ NothingLeaks)

(* A CQ poller that has not ended finds all objects of its queue alive and *)
(* its Go channels open, whatever failed and whoever destroys the queue.   *)
PollerSafe ==
  \A q \in Queues : poller[q] \in Running => Usable(q)

(* The same for the queues that a responder loop receives on.              *)
RespondersSafe ==
  \A q \in responding : Usable(q)

(* Unless Stop overtook Start, the goroutines that read a queue never see  *)
(* one that is being destroyed: StopCQPoller waits for the poller, and     *)
(* Prober.Close for the responder loops, which Agent.Stop calls first.     *)
UsersSafe == overtaken \/ (PollerSafe /\ RespondersSafe)

(* Unless Stop overtook Start, only Stop closes a channel again, and only  *)
(* one of a queue that could not be completed: the error paths destroy     *)
(* that queue and leave it in the manager's maps.  A published queue is    *)
(* destroyed once.                                                         *)
DestroyedOnce ==
  crashed = "close of closed channel" /\ ~overtaken =>
    /\ destroying["start"] = <<>>
    /\ Victim("stop") \notin published

(* The controller is told no QPN of a live queue that no responder loop    *)
(* reads: what is registered and not answered has been destroyed.          *)
AnsweredOrGone ==
  phase = "running" /\ closing = "no" =>
    \A q \in registered : q \in responding \/ res[q] = {}

(* Stop gets through AgentState.Close, unless it waits forever for a       *)
(* poller that waits for an event: the completion channel is only          *)
(* destroyed after the poller has ended, so that without a further         *)
(* completion nothing wakes it.                                            *)
CloseEnds ==
  \/ <>[](destroying["stop"] # <<>> /\ poller[Victim("stop")] = "wait")
  \/ closing = "prober" ~> (closing = "done" \/ crashed # "no")
=============================================================================
