----------------------- MODULE QueueLifecycleProofs -----------------------
(***************************************************************************)
(* Proofs about the life of the RDMA resources, for any set of RNICs and   *)
(* any number of receive slots: the types, and that unless Stop overtakes  *)
(* Start nothing is used after its destruction, destroyed in a wrong       *)
(* order, destroyed twice or left behind, whatever call of the library     *)
(* fails.                                                                  *)
(***************************************************************************)
EXTENDS QueueLifecycle, SequenceTheorems, TLAPS

LEMMA TailFacts ==
  ASSUME NEW S, NEW q \in Seq(S), q # <<>>
  PROVE  /\ Tail(q) \in Seq(S)
         /\ Head(q) \in S
         /\ Head(q) = q[1]
         /\ 1 \in DOMAIN q
         /\ \A i \in DOMAIN Tail(q) : i + 1 \in DOMAIN q /\ Tail(q)[i] = q[i + 1]
  OBVIOUS

LEMMA SingleTail ==
  ASSUME NEW S, NEW s \in Seq(S), s # <<>>, \A i \in DOMAIN s : i = 1
  PROVE  Tail(s) = <<>>
<1>1. Len(s) \in Nat /\ DOMAIN s = 1..Len(s)
  BY LenProperties
<1>2. \A i \in 1..Len(s) : i = 1
  BY <1>1, Zenon
<1>3. ~(Len(s) >= 2)
  <2> SUFFICES ASSUME Len(s) >= 2 PROVE FALSE
    OBVIOUS
  <2>1. 2 \in 1..Len(s)
    BY <1>1
  <2> QED BY <2>1, <1>2
<1>4. Len(s) # 0
  BY EmptySeq
<1>5. Len(s) = 1
  BY <1>1, <1>3, <1>4
<1>6. Tail(s) \in Seq(S) /\ Len(Tail(s)) = 0
  BY <1>5, HeadTailProperties
<1> QED BY <1>6, EmptySeq

LEMMA StepBounds ==
  /\ LastStep \in Nat
  /\ LastStep >= 10
  /\ DOMAIN Steps = 1..8
  /\ StoreStep = 9
  /\ PostStep(1) = 10
  /\ UndoStep = LastStep + 2
  BY SlotsAssumption DEF LastStep, PostStep, StoreStep, Steps, UndoStep

(* What CreationFails leaves to Start to destroy.                          *)
LEMMA FailureLeaves ==
  ASSUME NEW first \in Seq(Queues), first = <<>> \/ first = <<Queue>>,
         cur \in Rnics, creating.kind \in Kinds,
         destroying \in [Programs -> Seq(Queues)], CreationFails(first)
  PROVE  /\ destroying' \in [Programs -> Seq(Queues)]
         /\ DOMAIN destroying'["start"] \subseteq {1, 2}
         /\ destroying'["stop"] = destroying["stop"]
         /\ \A i \in DOMAIN destroying'["start"] :
              \/ destroying'["start"][i] = Queue /\ first # <<>>
              \/ /\ destroying'["start"][i] = Sender(cur)
                 /\ creating.kind = "responder"
         /\ \A i \in DOMAIN destroying'["start"] : i # 1 =>
              /\ destroying'["start"][i] = Sender(cur)
              /\ destroying'["start"][1] = Queue
              /\ creating.kind = "responder"
         /\ cur' = NoRnic /\ creating' = NotCreating
         /\ first # <<>> =>
              \E i \in DOMAIN destroying'["start"] : destroying'["start"][i] = Queue
<1>1. Queue \in Queues /\ Sender(cur) \in Queues
  BY DEF Queue, Queues, Sender, Kinds
<1>2. cur' = NoRnic /\ creating' = NotCreating
  BY DEF CreationFails
<1> DEFINE rest == IF creating.kind = "responder" THEN <<Sender(cur)>> ELSE <<>>
<1>3. destroying' = [destroying EXCEPT !["start"] = first \o rest]
  BY DEF CreationFails
<1>4. CASE creating.kind = "responder"
  <2>1. rest = <<Sender(cur)>>
    BY <1>4
  <2>2. CASE first = <<>>
    <3>1. first \o rest = <<Sender(cur)>>
      BY <2>1, <2>2
    <3>2. destroying'["start"] = <<Sender(cur)>>
          /\ destroying'["stop"] = destroying["stop"]
          /\ destroying' \in [Programs -> Seq(Queues)]
      BY <1>1, <1>3, <3>1 DEF Programs
    <3>3. DOMAIN <<Sender(cur)>> = {1} /\ <<Sender(cur)>>[1] = Sender(cur)
      OBVIOUS
    <3> QED BY <3>2, <3>3, <2>2, <1>1, <1>2, <1>4
  <2>3. CASE first = <<Queue>>
    <3> DEFINE a == Queue
               b == Sender(cur)
    <3>1. a \in Queues /\ b \in Queues
      BY <1>1
    <3>2. first \o rest = <<a>> \o <<b>>
      BY <2>1, <2>3
    <3> HIDE DEF a, b
    <3>3. <<a>> \in Seq(Queues) /\ <<b>> \in Seq(Queues)
          /\ Len(<<a>>) = 1 /\ Len(<<b>>) = 1 /\ <<a>>[1] = a /\ <<b>>[1] = b
      BY <3>1
    <3>4. /\ <<a>> \o <<b>> \in Seq(Queues)
          /\ DOMAIN (<<a>> \o <<b>>) = 1..2
          /\ (<<a>> \o <<b>>)[1] = a
          /\ (<<a>> \o <<b>>)[2] = b
      BY <3>3, ConcatProperties
    <3> DEFINE d == <<a>> \o <<b>>
    <3>5. /\ d \in Seq(Queues) /\ DOMAIN d = 1..2 /\ d[1] = a /\ d[2] = b
          /\ destroying' = [destroying EXCEPT !["start"] = d]
      BY <3>2, <3>4, <1>3
    <3> HIDE DEF d
    <3>6. /\ destroying'["start"] = d
          /\ destroying'["stop"] = destroying["stop"]
          /\ destroying' \in [Programs -> Seq(Queues)]
      BY <3>5 DEF Programs
    <3>7. first # <<>>
      BY <2>3
    <3> QED BY <3>5, <3>6, <3>7, <1>2, <1>4 DEF a, b
  <2> QED BY <2>2, <2>3
<1>5. CASE creating.kind # "responder"
  <2>1. first \o rest = first
    BY <1>5
  <2>2. /\ destroying'["start"] = first
        /\ destroying'["stop"] = destroying["stop"]
        /\ destroying' \in [Programs -> Seq(Queues)]
    BY <2>1, <1>3 DEF Programs
  <2>3. DOMAIN first \subseteq {1} /\ (first # <<>> => 1 \in DOMAIN first)
        /\ \A i \in DOMAIN first : first[i] = Queue /\ first # <<>>
    OBVIOUS
  <2> QED BY <2>2, <2>3, <1>1, <1>2, <1>5
<1> QED BY <1>4, <1>5

LEMMA CleanedUpType == \A at \in 1..8 : CleanedUp(at) \in Seq(Objects)
<1> SUFFICES ASSUME NEW at \in 1..8 PROVE CleanedUp(at) \in Seq(Objects)
  OBVIOUS
<1>o. /\ "channel" \in Objects /\ "cq" \in Objects /\ "qp" \in Objects
      /\ "sendBuf" \in Objects /\ "recvBuf" \in Objects /\ "sendMR" \in Objects
  BY DEF Objects
<1>1. CASE at = 1
  <2>1. CleanedUp(at) = <<>>
    BY <1>1 DEF CleanedUp
  <2> QED BY <2>1, EmptySeq
<1>6. CASE at = 2
  <2>1. CleanedUp(at) = <<"channel">>
    BY <1>6 DEF CleanedUp
  <2> QED BY <2>1, <1>o
<1>7. CASE at = 3
  <2>1. CleanedUp(at) = <<"cq", "channel">>
    BY <1>7 DEF CleanedUp
  <2> QED BY <2>1, <1>o
<1>2. CASE at \in {4, 5}
  <2>1. CleanedUp(at) = <<"qp", "cq", "channel">>
    BY <1>2 DEF CleanedUp
  <2> QED BY <2>1, <1>o
<1>3. CASE at = 6
  <2>1. CleanedUp(at) = <<"sendBuf", "qp", "cq", "channel">>
    BY <1>3 DEF CleanedUp
  <2> QED BY <2>1, <1>o
<1>4. CASE at = 7
  <2>1. CleanedUp(at) = <<"recvBuf", "sendBuf", "qp", "cq", "channel">>
    BY <1>4 DEF CleanedUp
  <2> QED BY <2>1, <1>o
<1>5. CASE at = 8
  <2>1. CleanedUp(at) = <<"sendMR", "recvBuf", "sendBuf", "qp", "cq", "channel">>
    BY <1>5 DEF CleanedUp
  <2> QED BY <2>1, <1>o
<1> QED BY <1>1, <1>2, <1>3, <1>4, <1>5, <1>6, <1>7

LEMMA EmptyDomain == \A i : i \notin DOMAIN <<>>
  OBVIOUS

-----------------------------------------------------------------------------
(* Types.  A creation under way has an RNIC, and Stop overtakes Start only *)
(* past Prober.Close.                                                      *)

Inv0 ==
  /\ TypeOK
  /\ creating.at > 0 => cur \in Rnics
  /\ closing \in {"no", "prober"} => ~overtaken

LEMMA InitInv0 == Init => Inv0
<1> SUFFICES ASSUME Init PROVE Inv0
  OBVIOUS
<1>1. destroying \in [Programs -> Seq(Queues)] /\ undo \in Seq(Objects)
      /\ step \in [Programs -> 0..9]
  BY EmptySeq DEF Init
<1>2. creating \in [kind : Kinds, at : 0..UndoStep] /\ creating.at = 0
  BY StepBounds DEF Init, NotCreating, Kinds
<1>3. crashed \in Panics
  BY DEF Init, Panics
<1>6. overtaken \in BOOLEAN /\ ~overtaken
  BY Zenon DEF Init
<1>4. /\ phase \in Phases /\ closing \in StopPhases
      /\ res \in [Queues -> SUBSET Objects]
      /\ chans \in [Queues -> {"none", "open", "closed"}]
      /\ poller \in [Queues -> Running \cup {"none", "stopped"}]
  BY DEF Init, Phases, StopPhases
<1>5. /\ todo = {} /\ detected = {} /\ left = {} /\ isOpen = {} /\ managed = {}
      /\ published = {} /\ fields = {} /\ registered = {} /\ done = {}
      /\ responding = {} /\ cur = NoRnic /\ probing = NoQueue
  BY DEF Init
<1>7. closing \in {"no", "prober"} => ~overtaken
  BY <1>6
<1> QED BY <1>1, <1>2, <1>3, <1>4, <1>5, <1>6, <1>7 DEF Inv0, TypeOK

(* The steps that create queues.                                           *)
CreateStep ==
  \/ \E r \in Rnics : CreateQueues(r)
  \/ Acquire \/ AcquireFails \/ UndoNext \/ UndoDone \/ StoreQueue
  \/ PostRecvSlot \/ PostRecvSlotFails \/ QueueCreated

LEMMA CreateInv0 ==
  ASSUME Inv0, CreateStep
  PROVE  Inv0'
<1>t. TypeOK /\ creating \in [kind : Kinds, at : 0..UndoStep]
      /\ creating.kind \in Kinds /\ creating.at \in Int
      /\ res \in [Queues -> SUBSET Objects]
      /\ destroying \in [Programs -> Seq(Queues)]
      /\ (creating.at > 0 => cur \in Rnics)
  BY StepBounds DEF Inv0, TypeOK
<1>n. NotCreating \in [kind : Kinds, at : 0..UndoStep]
      /\ NotCreating.at = 0
  BY StepBounds DEF NotCreating, Kinds
<1>f. \A k \in Kinds : CreateFrom(k) \in [kind : Kinds, at : 0..UndoStep]
  BY StepBounds DEF CreateFrom, Kinds
<1>u. ASSUME creating.at \in 1..LastStep,
             creating' = [creating EXCEPT !.at = @ + 1], UNCHANGED cur
      PROVE  /\ creating' \in [kind : Kinds, at : 0..UndoStep]
             /\ creating'.at > 0 => cur' \in Rnics
  BY <1>u, <1>t, StepBounds
<1>1. ASSUME NEW r \in Rnics, CreateQueues(r) PROVE Inv0'
  <2>1. /\ creating' \in [kind : Kinds, at : 0..UndoStep]
        /\ cur' \in Rnics \cup {NoRnic}
        /\ creating'.at > 0 => cur' \in Rnics
        /\ todo' \subseteq Rnics
    BY <1>1, <1>f, <1>t DEF CreateQueues, Kinds, TypeOK
  <2> QED BY <2>1, <1>1, <1>t DEF Inv0, TypeOK, CreateQueues, stopVars, destroyVars,
             tableVars, userVars, objectVars
<1>2. CASE Acquire
  <2>1. res' \in [Queues -> SUBSET Objects]
    BY <1>2, <1>t DEF Acquire
  <2>2. /\ creating' \in [kind : Kinds, at : 0..UndoStep]
        /\ creating'.at > 0 => cur' \in Rnics
    BY <1>2, <1>u, StepBounds DEF Acquire
  <2> QED BY <2>1, <2>2, <1>2, <1>t DEF Inv0, TypeOK, Acquire, stopVars, destroyVars,
             tableVars, userVars
<1>3. CASE AcquireFails
  <2>1. creating.at \in 1..8 /\ undo' \in Seq(Objects)
    BY <1>3, StepBounds, CleanedUpType DEF AcquireFails
  <2>2. /\ creating' \in [kind : Kinds, at : 0..UndoStep]
        /\ creating'.at > 0 => cur' \in Rnics
    BY <2>1, <1>3, <1>t, StepBounds DEF AcquireFails
  <2> QED BY <2>1, <2>2, <1>3, <1>t
          DEF Inv0, TypeOK, AcquireFails, stopVars, destroyVars, tableVars,
              userVars, objectVars
<1>8. CASE UndoNext
  <2>1. res' \in [Queues -> SUBSET Objects]
    BY <1>8, <1>t DEF UndoNext
  <2>2. undo' \in Seq(Objects)
    BY <1>8, <1>t, TailFacts DEF UndoNext, TypeOK
  <2> QED BY <2>1, <2>2, <1>8, <1>t
          DEF Inv0, TypeOK, UndoNext, stopVars, destroyVars, tableVars, userVars
<1>9. CASE UndoDone
  <2>1. /\ destroying' \in [Programs -> Seq(Queues)]
        /\ cur' = NoRnic /\ creating' = NotCreating
    <3>1. cur \in Rnics /\ <<>> \in Seq(Queues) /\ CreationFails(<<>>)
      BY <1>9, <1>t, StepBounds, EmptySeq DEF UndoDone
    <3> QED BY <3>1, <1>t, FailureLeaves
  <2> QED BY <2>1, <1>9, <1>t, <1>n
          DEF Inv0, TypeOK, UndoDone, stopVars, tableVars, userVars, objectVars
<1>4. CASE StoreQueue
  <2>1. creating.at = 9 /\ cur \in Rnics
    BY <1>4, <1>t, StepBounds DEF StoreQueue
  <2>2. Queue \in Queues
    BY <2>1, <1>t DEF Queue, Queues
  <2>3. /\ creating' \in [kind : Kinds, at : 0..UndoStep]
        /\ creating'.at > 0 => cur' \in Rnics
    BY <2>1, <1>4, <1>u, StepBounds DEF StoreQueue
  <2>4. /\ chans' \in [Queues -> {"none", "open", "closed"}]
        /\ poller' \in [Queues -> Running \cup {"none", "stopped"}]
        /\ fields' \subseteq Queues
        /\ managed' \subseteq Queues
    BY <2>2, <1>4, <1>t DEF StoreQueue, TypeOK, Running
  <2> QED BY <2>3, <2>4, <1>4, <1>t
          DEF Inv0, TypeOK, StoreQueue, stopVars, destroyVars, userVars
<1>5. CASE PostRecvSlot
  <2>1. creating.at \in 1..LastStep
    BY <1>5, <1>t, StepBounds DEF PostRecvSlot
  <2>2. /\ creating' \in [kind : Kinds, at : 0..UndoStep]
        /\ creating'.at > 0 => cur' \in Rnics
    BY <2>1, <1>5, <1>u DEF PostRecvSlot
  <2> QED BY <2>2, <1>5, <1>t DEF Inv0, TypeOK, PostRecvSlot, stopVars, destroyVars,
             tableVars, userVars, objectVars
<1>6. CASE PostRecvSlotFails
  <2>1. cur \in Rnics /\ CreationFails(<<Queue>>)
    BY <1>6, <1>t, StepBounds DEF PostRecvSlotFails
  <2>2. Queue \in Queues
    BY <2>1, <1>t DEF Queue, Queues
  <2>3. <<Queue>> \in Seq(Queues)
    BY <2>2
  <2>4. /\ destroying' \in [Programs -> Seq(Queues)]
        /\ cur' = NoRnic /\ creating' = NotCreating
    BY <2>1, <2>3, <1>t, FailureLeaves
  <2> QED BY <2>4, <1>6, <1>t, <1>n
          DEF Inv0, TypeOK, PostRecvSlotFails, stopVars, tableVars, userVars, objectVars
<1>7. CASE QueueCreated
  <2>1. cur \in Rnics
    BY <1>7, <1>t, StepBounds DEF QueueCreated
  <2>2. Sender(cur) \in Queues /\ Responder(cur) \in Queues
    BY <2>1 DEF Sender, Responder, Queues, Kinds
  <2>3. /\ creating' \in [kind : Kinds, at : 0..UndoStep]
        /\ creating'.at > 0 => cur' \in Rnics
        /\ cur' \in Rnics \cup {NoRnic}
    BY <2>1, <1>7, <1>n, <1>f DEF QueueCreated, Kinds
  <2>4. published' \subseteq Queues
    BY <2>2, <1>7, <1>t DEF QueueCreated, TypeOK
  <2> QED BY <2>3, <2>4, <1>7, <1>t
          DEF Inv0, TypeOK, QueueCreated, stopVars, destroyVars, userVars, objectVars
<1> QED BY <1>1, <1>2, <1>3, <1>4, <1>5, <1>6, <1>7, <1>8, <1>9 DEF CreateStep

(* The steps of UDQueue.Destroy.                                           *)
LEMMA DestroyInv0 ==
  ASSUME Inv0, NEW p \in Programs, Destroy(p)
  PROVE  Inv0'
<1>t. TypeOK /\ destroying \in [Programs -> Seq(Queues)] /\ step \in [Programs -> 0..9]
  BY DEF Inv0, TypeOK
<1>v. destroying[p] # <<>> => Victim(p) \in Queues /\ Tail(destroying[p]) \in Seq(Queues)
  <2>1. destroying[p] \in Seq(Queues)
    BY <1>t
  <2> QED BY <2>1, TailFacts DEF Victim
<1>1. CASE StopCQPoller(p)
  <2>3. \/ done' = done /\ step' = step
        \/ /\ done' = IF poller[Victim(p)] \in Running
                      THEN done \cup {Victim(p)} ELSE done
           /\ step' = [step EXCEPT ![p] = 1]
    BY <1>1, Zenon DEF StopCQPoller
  <2>4. destroying[p] # <<>>
    BY <1>1, Zenon DEF StopCQPoller
  <2>5. done \subseteq Queues /\ Victim(p) \in Queues
    BY <1>v, <1>t, <2>4 DEF TypeOK
  <2>6. done' = done \/ done' = done \cup {Victim(p)}
    BY <2>3, Zenon
  <2>7. step' = step \/ step' = [step EXCEPT ![p] = 1]
    BY <2>3, Zenon
  <2>8. step' \in [Programs -> 0..9]
    BY <2>7, <1>t
  <2>1. done' \subseteq Queues /\ step' \in [Programs -> 0..9]
    BY <2>5, <2>6, <2>8
  <2>2. crashed' \in Panics
    <3>1. crashed \in Panics
      BY <1>t DEF TypeOK
    <3>2. crashed' = crashed \/ crashed' = "close of closed channel"
      BY <1>1, Zenon DEF StopCQPoller
    <3>3. "close of closed channel" \in Panics
      BY Zenon DEF Panics
    <3> QED BY <3>1, <3>2, <3>3
  <2> QED BY <2>1, <2>2, <1>1 DEF Inv0, TypeOK, StopCQPoller, startVars, stopVars, tableVars,
             userVars
<1>2. CASE PollerStopped(p)
  <2>1. step' \in [Programs -> 0..9]
    BY <1>2, <1>t DEF PollerStopped
  <2> QED BY <2>1, <1>2 DEF Inv0, TypeOK, PollerStopped, startVars, stopVars, tableVars,
             userVars, objectVars
<1>3. CASE CloseChannels(p)
  <2>1. chans' \in [Queues -> {"none", "open", "closed"}]
    BY <1>3, <1>t DEF CloseChannels, TypeOK
  <2>4. step' = step \/ step' = [step EXCEPT ![p] = 3]
    BY <1>3, Zenon DEF CloseChannels
  <2>2. step' \in [Programs -> 0..9]
    BY <2>4, <1>t
  <2>3. crashed' \in Panics
    <3>1. crashed \in Panics
      BY <1>t DEF TypeOK
    <3>2. crashed' = crashed \/ crashed' = "close of closed channel"
      BY <1>3, Zenon DEF CloseChannels
    <3>3. "close of closed channel" \in Panics
      BY Zenon DEF Panics
    <3> QED BY <3>1, <3>2, <3>3
  <2> QED BY <2>1, <2>2, <2>3, <1>3 DEF Inv0, TypeOK, CloseChannels, startVars, stopVars,
             tableVars, userVars
<1>4. CASE ReleaseNext(p)
  <2>1. res' \in [Queues -> SUBSET Objects]
    BY <1>4, <1>t DEF ReleaseNext, TypeOK
  <2>2. destroying' \in [Programs -> Seq(Queues)]
    BY <1>4, <1>t, <1>v DEF ReleaseNext
  <2>3. step' \in [Programs -> 0..9]
    BY <1>4, <1>t DEF ReleaseNext
  <2> QED BY <2>1, <2>2, <2>3, <1>4 DEF Inv0, TypeOK, ReleaseNext, startVars, stopVars,
             tableVars, userVars
<1> QED BY <1>1, <1>2, <1>3, <1>4 DEF Destroy

(* The steps of Start and Stop outside.                                    *)
PhaseStep ==
  \/ NewManager
  \/ \E r \in Rnics : OpenDevice(r)
  \/ DevicesOpened \/ StartProber \/ RegisterAgent
  \/ Race \/ StopAgent \/ CloseProber \/ CloseStart
  \/ \E q \in Queues : CloseQueue(q)
  \/ QueuesClosed
  \/ \E r \in Rnics : CloseDevice(r)
  \/ DevicesClosed
  \/ \E q \in Queues : ResponderEnds(q)

LEMMA PhaseInv0 ==
  ASSUME Inv0, PhaseStep
  PROVE  Inv0'
<1>t. TypeOK
  BY DEF Inv0
<1> USE DEF startVars, stopVars, destroyVars, tableVars, userVars, objectVars
<1>1. ASSUME NEW r \in Rnics, OpenDevice(r) PROVE Inv0'
  <2>1. isOpen' \subseteq Rnics /\ detected' \subseteq Rnics /\ todo' \subseteq Rnics
    BY <1>1, <1>t DEF OpenDevice, TypeOK
  <2> QED BY <2>1, <1>1 DEF Inv0, TypeOK, OpenDevice
<1>2. CASE DevicesOpened
  <2>1. phase' \in Phases /\ todo' \subseteq Rnics
    BY <1>2, <1>t DEF DevicesOpened, TypeOK, Phases
  <2> QED BY <2>1, <1>2 DEF Inv0, TypeOK, DevicesOpened
<1>3. CASE StartProber
  <2>1. phase' \in Phases /\ responding' \subseteq Queues
    BY <1>3, <1>t DEF StartProber, TypeOK, Phases
  <2> QED BY <2>1, <1>3 DEF Inv0, TypeOK, StartProber
<1>4. CASE RegisterAgent
  <2>1. \A r \in detected : Responder(r) \in Queues
    BY <1>t DEF TypeOK, Responder, Queues, Kinds
  <2>2. phase' \in Phases /\ registered' \subseteq Queues
    BY <2>1, <1>4, <1>t DEF RegisterAgent, TypeOK, Phases
  <2> QED BY <2>2, <1>4 DEF Inv0, TypeOK, RegisterAgent
<1>5. CASE CloseStart
  <2>1. closing' \in StopPhases /\ left' \subseteq Rnics \cup Queues
    BY <1>5, <1>t DEF CloseStart, TypeOK, StopPhases
  <2> QED BY <2>1, <1>5 DEF Inv0, TypeOK, CloseStart
<1>6. ASSUME NEW q \in Queues, CloseQueue(q) PROVE Inv0'
  <2>1. <<q>> \in Seq(Queues)
    OBVIOUS
  <2>2. destroying' \in [Programs -> Seq(Queues)] /\ left' \subseteq Rnics \cup Queues
    BY <2>1, <1>6, <1>t DEF CloseQueue, TypeOK
  <2> QED BY <2>2, <1>6 DEF Inv0, TypeOK, CloseQueue
<1>7. CASE QueuesClosed
  <2>1. closing' \in StopPhases /\ left' \subseteq Rnics \cup Queues
    BY <1>7, <1>t DEF QueuesClosed, TypeOK, StopPhases
  <2> QED BY <2>1, <1>7 DEF Inv0, TypeOK, QueuesClosed
<1>8. ASSUME NEW r \in Rnics, CloseDevice(r) PROVE Inv0'
  <2>1. isOpen' \subseteq Rnics /\ left' \subseteq Rnics \cup Queues
    BY <1>8, <1>t DEF CloseDevice, TypeOK
  <2> QED BY <2>1, <1>8 DEF Inv0, TypeOK, CloseDevice
<1>9. CASE DevicesClosed
  BY <1>9 DEF Inv0, TypeOK, DevicesClosed, StopPhases
<1>10. CASE NewManager
  <2>1. phase' \in Phases /\ todo' \subseteq Rnics
    BY <1>10, <1>t DEF NewManager, TypeOK, Phases
  <2> QED BY <2>1, <1>10 DEF Inv0, TypeOK, NewManager
<1>11. CASE Race
  <2>1. crashed' \in Panics
    BY <1>11, Zenon DEF Race, Panics
  <2> QED BY <2>1, <1>11 DEF Inv0, TypeOK, Race
<1>12. CASE StopAgent
  BY <1>12 DEF Inv0, TypeOK, StopAgent, StopPhases
<1>13. CASE CloseProber
  <2>1. closing' \in StopPhases /\ closing' = "state"
    BY <1>13 DEF CloseProber, StopPhases
  <2>2. overtaken' = (phase \in {"manager", "open", "queues"})
    BY <1>13 DEF CloseProber
  <2>3. overtaken' \in BOOLEAN
    <3> DEFINE early == phase \in {"manager", "open", "queues"}
    <3>1. early = TRUE \/ early = FALSE
      OBVIOUS
    <3>2. overtaken' = early
      BY <2>2
    <3> HIDE DEF early
    <3> QED BY <3>1, <3>2, Zenon
  <2> QED BY <2>1, <2>3, <1>13 DEF Inv0, TypeOK, CloseProber
<1>14. ASSUME NEW q \in Queues, ResponderEnds(q) PROVE Inv0'
  <2>1. responding' \subseteq Queues
    BY <1>14, <1>t DEF ResponderEnds, TypeOK
  <2> QED BY <2>1, <1>14 DEF Inv0, TypeOK, ResponderEnds
<1> QED BY <1>1, <1>2, <1>3, <1>4, <1>5, <1>6, <1>7, <1>8, <1>9, <1>10, <1>11, <1>12,
           <1>13, <1>14 DEF PhaseStep

(* The pollers and the service probes.                                     *)
PollerStep(q) == Poller(q) \/ GetCQEvent(q) \/ GetCQEventFails(q)
ProbeStep == (\E q \in Queues : ServiceProbe(q)) \/ ServiceProbeSends

(* A step of a poller changes only its own location, and a poller that has *)
(* ended does not come back.                                               *)
LEMMA PollerMoves ==
  ASSUME NEW q \in Queues, PollerStep(q)
  PROVE  /\ poller[q] \in Running
         /\ \E l \in Running \cup {"stopped"} : poller' = [poller EXCEPT ![q] = l]
         /\ UNCHANGED <<startVars, stopVars, destroyVars, tableVars, userVars,
                        isOpen, res, chans, done, crashed>>
  BY DEF PollerStep, Poller, PollerArm, PollerCheckDone, GetCQEvent,
         GetCQEventFails, Poll, Running

LEMMA OthersInv0 ==
  ASSUME Inv0, (\E q \in Queues : PollerStep(q)) \/ ProbeStep
  PROVE  Inv0'
<1> USE DEF startVars, stopVars, destroyVars, tableVars, userVars, objectVars
<1>1. ASSUME NEW q \in Queues, PollerStep(q) PROVE Inv0'
  <2>1. poller' \in [Queues -> Running \cup {"none", "stopped"}]
    BY <1>1, PollerMoves DEF Inv0, TypeOK
  <2> QED BY <2>1, <1>1, PollerMoves DEF Inv0, TypeOK
<1>2. CASE ProbeStep
  <2>1. probing' \in Queues \cup {NoQueue} /\ crashed' \in Panics
    BY <1>2 DEF ProbeStep, ServiceProbe, ServiceProbeSends, Inv0, TypeOK, Panics
  <2>2. UNCHANGED <<startVars, stopVars, destroyVars, tableVars, responding, objectVars>>
    BY <1>2 DEF ProbeStep, ServiceProbe, ServiceProbeSends
  <2> QED BY <2>1, <2>2 DEF Inv0, TypeOK
<1> QED BY <1>1, <1>2

LEMMA NextInv0 == Inv0 /\ [Next]_vars => Inv0'
<1> SUFFICES ASSUME Inv0, [Next]_vars PROVE Inv0'
  OBVIOUS
<1>1. CASE UNCHANGED vars
  BY <1>1 DEF Inv0, TypeOK, vars, startVars, stopVars, destroyVars, tableVars,
     userVars, objectVars
<1>2. CASE Next
  <2>1. "start" \in Programs /\ "stop" \in Programs
    BY DEF Programs
  <2> QED BY <1>2, <2>1, CreateInv0, DestroyInv0, PhaseInv0, OthersInv0
      DEF Next, Step, Start, Stop, CreateStep, PhaseStep, PollerStep, ProbeStep
<1> QED BY <1>1, <1>2

(* Whatever fails, every variable has its type: the step of a creation     *)
(* stays in its range and a destruction only meets queues of known RNICs.  *)
THEOREM TypeCorrect == Spec => []TypeOK
<1>1. Inv0 => TypeOK
  BY DEF Inv0
<1> QED BY <1>1, InitInv0, NextInv0, PTL DEF Spec

-----------------------------------------------------------------------------
(* The inductive invariant: where each queue stands.                       *)

(* Creation makes the objects of a queue in one order, and its error paths *)
(* and Destroy remove them in the reverse order: the first k of them are   *)
(* alive.                                                                  *)
Alive(k) ==
  CASE k = 0 -> {}
    [] k = 1 -> {"channel"}
    [] k = 2 -> {"channel", "cq"}
    [] k = 3 -> {"channel", "cq", "qp"}
    [] k = 4 -> {"channel", "cq", "qp", "sendBuf"}
    [] k = 5 -> {"channel", "cq", "qp", "sendBuf", "recvBuf"}
    [] k = 6 -> {"channel", "cq", "qp", "sendBuf", "recvBuf", "sendMR"}
    [] k = 7 -> Objects

(* How many there are before a step of the creation.                       *)
MadeBefore(at) == IF at <= 4 THEN at - 1 ELSE at - 2

(* What is left of an error path when k are alive.                         *)
UndoOf(k) ==
  CASE k = 0 -> <<>>
    [] k = 1 -> <<"channel">>
    [] k = 2 -> <<"cq", "channel">>
    [] k = 3 -> <<"qp", "cq", "channel">>
    [] k = 4 -> <<"sendBuf", "qp", "cq", "channel">>
    [] k = 5 -> <<"recvBuf", "sendBuf", "qp", "cq", "channel">>
    [] k = 6 -> <<"sendMR", "recvBuf", "sendBuf", "qp", "cq", "channel">>

Making(q)   == creating.at \in 1..9 /\ q = Queue
Undoing(q)  == creating.at = UndoStep /\ q = Queue
Dying(p, q) == destroying[p] # <<>> /\ step[p] >= 3 /\ q = Victim(p)
Whole(q)    == Usable(q) /\ q \in managed /\ q[1] \in isOpen
Gone(q)     == res[q] = {} /\ chans[q] # "open" /\ poller[q] \notin Running
Fresh(q)    == Gone(q) /\ chans[q] = "none" /\ q \notin published /\ q \notin done
Untouched(q) ==
  \/ phase \in {"manager", "open"}
  \/ phase = "queues" /\ q[1] \in todo
  \/ creating.at > 0 /\ creating.kind = "sender" /\ q = Responder(cur)
Listed(p, q) == \E i \in DOMAIN destroying[p] : destroying[p][i] = q
Up == {"register", "running", "failed"}

Control ==
  /\ creating.at > 0 => /\ phase = "queues"
                        /\ cur \in isOpen
                        /\ cur \notin todo
                        /\ destroying["start"] = <<>>
  /\ creating.at = 0 => cur = NoRnic
  /\ destroying["start"] # <<>> => phase = "queues"
  /\ destroying["stop"] # <<>> => closing = "queues"
  /\ \A p \in Programs : step[p] > 0 => destroying[p] # <<>>
  /\ closing \notin {"no", "prober"} => phase \in Up /\ responding = {}
  /\ closing = "queues" => left \subseteq managed
  /\ closing = "devices" => isOpen \subseteq left
  /\ closing = "done" => isOpen = {}

MakingState(q) ==
  Making(q) => /\ res[q] = Alive(MadeBefore(creating.at))
               /\ chans[q] = "none"
               /\ poller[q] \notin Running
               /\ q \notin done

UndoingState(q) ==
  Undoing(q) => /\ \E k \in 0..6 : undo = UndoOf(k) /\ res[q] = Alive(k)
                /\ chans[q] = "none"
                /\ poller[q] \notin Running

DyingState(p, q) ==
  Dying(p, q) => /\ res[q] = Alive(10 - step[p])
                 /\ chans[q] = "closed"
                 /\ poller[q] \notin Running
                 /\ q[1] \in isOpen

Settled(q) == ~Making(q) /\ ~Undoing(q) /\ \A p \in Programs : ~Dying(p, q)

QueueState(q) ==
  /\ MakingState(q)
  /\ UndoingState(q)
  /\ \A p \in Programs : DyingState(p, q)
  /\ Settled(q) => Whole(q) \/ Gone(q)
  /\ Untouched(q) => Fresh(q)
QueueStates == \A q \in Queues : QueueState(q)

CreatingState ==
  creating.at > 0 =>
    /\ creating.at > 9 /\ creating.at # UndoStep => Whole(Queue)
    /\ creating.kind = "responder" => Whole(Sender(cur))
    /\ Sender(cur) \notin published
    /\ Responder(cur) \notin published

StartDestroys ==
  /\ DOMAIN destroying["start"] \subseteq {1, 2}
  /\ \A i \in DOMAIN destroying["start"] :
       /\ destroying["start"][i] \in managed
       /\ destroying["start"][i] \notin published
       /\ i # 1 => destroying["start"][i] # destroying["start"][1]
       /\ i # 1 \/ step["start"] < 3 => Whole(destroying["start"][i])
  /\ step["start"] = 2 => poller[Victim("start")] \notin Running

StopDestroys ==
  /\ \A i \in DOMAIN destroying["stop"] :
       /\ i = 1
       /\ destroying["stop"][i] \in managed
       /\ destroying["stop"][i] \notin left
  /\ step["stop"] = 2 => poller[Victim("stop")] \notin Running
  /\ destroying["stop"] # <<>> /\ step["stop"] < 3 /\ Victim("stop") \in published
       => Whole(Victim("stop"))

DoneState ==
  \A q \in done : poller[q] \in Running =>
    \E p \in Programs : destroying[p] # <<>> /\ Victim(p) = q /\ step[p] = 1

ClosingState ==
  /\ closing = "queues" =>
       \A q \in Queues :
         /\ q \in left /\ q \in published => Whole(q)
         /\ q \in left \/ Listed("stop", q) \/ Gone(q)
  /\ closing \in {"devices", "done"} => \A q \in Queues : Gone(q)

PublishedState ==
  /\ closing \in {"no", "prober", "state"} => \A q \in published : Whole(q)
  /\ closing \in {"no", "prober", "state"} =>
       \A q \in Queues :
         q[2] = "responder" /\ res[q] # {} =>
           q \in published \/ Listed("start", q) \/ (creating.at > 0 /\ q = Queue)
  /\ responding # {} => phase \in Up /\ responding \subseteq published
  /\ closing = "no" /\ phase \in Up =>
       \A q \in published : q[2] = "responder" => q \in responding
  /\ \A q \in registered : q[2] = "responder"

Safe ==
  /\ Control
  /\ QueueStates
  /\ CreatingState
  /\ StartDestroys
  /\ StopDestroys
  /\ DoneState
  /\ ClosingState
  /\ PublishedState

Inv == Inv0 /\ (overtaken \/ (Safe /\ DestroyedOnce))

LEMMA AliveMade ==
  ASSUME NEW at \in 1..8
  PROVE  /\ Alive(MadeBefore(at)) \cup ({Steps[at]} \cap Objects) = Alive(MadeBefore(at + 1))
         /\ MadeBefore(at) \in 0..6
         /\ CleanedUp(at) = UndoOf(MadeBefore(at))
<1> at \in {1, 2, 3, 4, 5, 6, 7, 8}
  OBVIOUS
<1>0. /\ MadeBefore(1) = 0 /\ MadeBefore(2) = 1 /\ MadeBefore(3) = 2
      /\ MadeBefore(4) = 3 /\ MadeBefore(5) = 3 /\ MadeBefore(6) = 4
      /\ MadeBefore(7) = 5 /\ MadeBefore(8) = 6 /\ MadeBefore(9) = 7
  BY DEF MadeBefore
<1>1. CASE at = 1
  <2>3. Steps[1] = "channel" /\ {"channel"} \cap Objects = {"channel"}
    BY DEF Steps, Objects
  <2>1. Alive(0) \cup {"channel"} = Alive(1)
    BY DEF Alive
  <2>2. CleanedUp(1) = UndoOf(0)
    BY DEF CleanedUp, UndoOf
  <2> QED BY <1>0, <1>1, <2>1, <2>2, <2>3
<1>2. CASE at = 2
  <2>1. Alive(1) \cup ({Steps[2]} \cap Objects) = Alive(2)
    BY DEF Alive, Steps, Objects
  <2>2. CleanedUp(2) = UndoOf(1)
    BY DEF CleanedUp, UndoOf
  <2> QED BY <1>0, <1>2, <2>1, <2>2
<1>3. CASE at = 3
  <2>1. Alive(2) \cup ({Steps[3]} \cap Objects) = Alive(3)
    BY DEF Alive, Steps, Objects
  <2>2. CleanedUp(3) = UndoOf(2)
    BY DEF CleanedUp, UndoOf
  <2> QED BY <1>0, <1>3, <2>1, <2>2
<1>4. CASE at = 4
  <2>1. Alive(3) \cup ({Steps[4]} \cap Objects) = Alive(3)
    BY DEF Steps, Objects
  <2>2. CleanedUp(4) = UndoOf(3)
    BY DEF CleanedUp, UndoOf
  <2> QED BY <1>0, <1>4, <2>1, <2>2
<1>5. CASE at = 5
  <2>1. Steps[5] = "sendBuf" /\ {"sendBuf"} \cap Objects = {"sendBuf"}
    BY DEF Steps, Objects
  <2>3. Alive(3) \cup {"sendBuf"} = Alive(4)
    BY DEF Alive
  <2>2. CleanedUp(5) = UndoOf(3)
    BY DEF CleanedUp, UndoOf
  <2> QED BY <1>0, <1>5, <2>1, <2>2, <2>3
<1>6. CASE at = 6
  <2>1. Steps[6] = "recvBuf" /\ {"recvBuf"} \cap Objects = {"recvBuf"}
    BY DEF Steps, Objects
  <2>3. Alive(4) \cup {"recvBuf"} = Alive(5)
    BY DEF Alive
  <2>2. CleanedUp(6) = UndoOf(4)
    BY DEF CleanedUp, UndoOf
  <2> QED BY <1>0, <1>6, <2>1, <2>2, <2>3
<1>7. CASE at = 7
  <2>1. Steps[7] = "sendMR" /\ {"sendMR"} \cap Objects = {"sendMR"}
    BY DEF Steps, Objects
  <2>3. Alive(5) \cup {"sendMR"} = Alive(6)
    BY DEF Alive
  <2>2. CleanedUp(7) = UndoOf(5)
    BY DEF CleanedUp, UndoOf
  <2> QED BY <1>0, <1>7, <2>1, <2>2, <2>3
<1>8. CASE at = 8
  <2>1. Steps[8] = "recvMR" /\ {"recvMR"} \cap Objects = {"recvMR"}
    BY DEF Steps, Objects
  <2>3. Alive(6) \cup {"recvMR"} = Alive(7)
    BY DEF Alive, Objects
  <2>2. CleanedUp(8) = UndoOf(6)
    BY DEF CleanedUp, UndoOf
  <2> QED BY <1>0, <1>8, <2>1, <2>2, <2>3
<1> QED BY <1>1, <1>2, <1>3, <1>4, <1>5, <1>6, <1>7, <1>8

LEMMA AliveEnds == Alive(0) = {} /\ Alive(7) = Objects /\ MadeBefore(1) = 0 /\ MadeBefore(9) = 7
  BY DEF Alive, MadeBefore

(* One call of an error path.                                              *)
LEMMA AliveUndo ==
  ASSUME NEW k \in 0..6
  PROVE  /\ UndoOf(k) = <<>> <=> k = 0
         /\ k # 0 => /\ Alive(k) \ {Head(UndoOf(k))} = Alive(k - 1)
                     /\ Tail(UndoOf(k)) = UndoOf(k - 1)
                     /\ k - 1 \in 0..6
<1> k \in {0, 1, 2, 3, 4, 5, 6}
  OBVIOUS
<1>0. CASE k = 0
  BY <1>0 DEF UndoOf
<1>1. CASE k = 1
  <2> DEFINE s == <<"channel">>
             t == <<>>
  <2>1. UndoOf(1) = s /\ UndoOf(0) = t
    BY DEF UndoOf
  <2>2. Head(s) = "channel" /\ Tail(s) = t /\ s # <<>>
    OBVIOUS
  <2>3. Alive(1) \ {"channel"} = Alive(0)
    BY DEF Alive
  <2> HIDE DEF s, t
  <2>4. Head(UndoOf(1)) = "channel" /\ Tail(UndoOf(1)) = UndoOf(0) /\ UndoOf(1) # <<>>
    BY <2>1, <2>2, Zenon
  <2> QED BY <1>1, <2>3, <2>4
<1>2. CASE k = 2
  <2> DEFINE s == <<"cq", "channel">>
             t == <<"channel">>
  <2>1. UndoOf(2) = s /\ UndoOf(1) = t
    BY DEF UndoOf
  <2>2. Head(s) = "cq" /\ Tail(s) = t /\ s # <<>>
    OBVIOUS
  <2>3. Alive(2) \ {"cq"} = Alive(1)
    BY DEF Alive
  <2> HIDE DEF s, t
  <2>4. Head(UndoOf(2)) = "cq" /\ Tail(UndoOf(2)) = UndoOf(1) /\ UndoOf(2) # <<>>
    BY <2>1, <2>2, Zenon
  <2> QED BY <1>2, <2>3, <2>4
<1>3. CASE k = 3
  <2> DEFINE s == <<"qp", "cq", "channel">>
             t == <<"cq", "channel">>
  <2>1. UndoOf(3) = s /\ UndoOf(2) = t
    BY DEF UndoOf
  <2>2. Head(s) = "qp" /\ Tail(s) = t /\ s # <<>>
    OBVIOUS
  <2>3. Alive(3) \ {"qp"} = Alive(2)
    BY DEF Alive
  <2> HIDE DEF s, t
  <2>4. Head(UndoOf(3)) = "qp" /\ Tail(UndoOf(3)) = UndoOf(2) /\ UndoOf(3) # <<>>
    BY <2>1, <2>2, Zenon
  <2> QED BY <1>3, <2>3, <2>4
<1>4. CASE k = 4
  <2> DEFINE s == <<"sendBuf", "qp", "cq", "channel">>
             t == <<"qp", "cq", "channel">>
  <2>1. UndoOf(4) = s /\ UndoOf(3) = t
    BY DEF UndoOf
  <2>2. Head(s) = "sendBuf" /\ Tail(s) = t /\ s # <<>>
    OBVIOUS
  <2>3. Alive(4) \ {"sendBuf"} = Alive(3)
    BY DEF Alive
  <2> HIDE DEF s, t
  <2>4. Head(UndoOf(4)) = "sendBuf" /\ Tail(UndoOf(4)) = UndoOf(3) /\ UndoOf(4) # <<>>
    BY <2>1, <2>2, Zenon
  <2> QED BY <1>4, <2>3, <2>4
<1>5. CASE k = 5
  <2> DEFINE s == <<"recvBuf", "sendBuf", "qp", "cq", "channel">>
             t == <<"sendBuf", "qp", "cq", "channel">>
  <2>1. UndoOf(5) = s /\ UndoOf(4) = t
    BY DEF UndoOf
  <2>2. Head(s) = "recvBuf" /\ Tail(s) = t /\ s # <<>>
    OBVIOUS
  <2>3. Alive(5) \ {"recvBuf"} = Alive(4)
    BY DEF Alive
  <2> HIDE DEF s, t
  <2>4. Head(UndoOf(5)) = "recvBuf" /\ Tail(UndoOf(5)) = UndoOf(4) /\ UndoOf(5) # <<>>
    BY <2>1, <2>2, Zenon
  <2> QED BY <1>5, <2>3, <2>4
<1>6. CASE k = 6
  <2> DEFINE s == <<"sendMR", "recvBuf", "sendBuf", "qp", "cq", "channel">>
             t == <<"recvBuf", "sendBuf", "qp", "cq", "channel">>
  <2>1. UndoOf(6) = s /\ UndoOf(5) = t
    BY DEF UndoOf
  <2>2. Head(s) = "sendMR" /\ Tail(s) = t /\ s # <<>>
    OBVIOUS
  <2>3. Alive(6) \ {"sendMR"} = Alive(5)
    BY DEF Alive
  <2> HIDE DEF s, t
  <2>4. Head(UndoOf(6)) = "sendMR" /\ Tail(UndoOf(6)) = UndoOf(5) /\ UndoOf(6) # <<>>
    BY <2>1, <2>2, Zenon
  <2> QED BY <1>6, <2>3, <2>4
<1> QED BY <1>0, <1>1, <1>2, <1>3, <1>4, <1>5, <1>6

(* One call of Destroy.                                                    *)
LEMMA AliveLeft ==
  ASSUME NEW s \in 3..9
  PROVE  Alive(10 - s) \ {ReleaseOrder[s - 2]} = Alive(9 - s)
<1>1. CASE s = 3
  <2>1. Alive(7) \ {"recvMR"} = Alive(6)
    BY DEF Alive, Objects
  <2>2. ReleaseOrder[1] = "recvMR"
    BY DEF ReleaseOrder
  <2> QED BY <1>1, <2>1, <2>2
<1>2. CASE s \in {4, 5}
  BY <1>2 DEF Alive, ReleaseOrder
<1>3. CASE s \in {6, 7}
  BY <1>3 DEF Alive, ReleaseOrder
<1>4. CASE s \in {8, 9}
  BY <1>4 DEF Alive, ReleaseOrder
<1> QED BY <1>1, <1>2, <1>3, <1>4

LEMMA AliveHolds ==
  ASSUME NEW k \in 0..7
  PROVE  /\ "sendMR" \in Alive(k) => "sendBuf" \in Alive(k)
         /\ "recvMR" \in Alive(k) => "recvBuf" \in Alive(k)
         /\ "qp" \in Alive(k) => "cq" \in Alive(k)
         /\ "cq" \in Alive(k) => "channel" \in Alive(k)
<1>1. CASE k \in {0, 1, 2, 3}
  BY <1>1 DEF Alive
<1>2. CASE k \in {4, 5}
  BY <1>2 DEF Alive
<1>3. CASE k \in {6, 7}
  BY <1>3 DEF Alive, Objects
<1> QED BY <1>1, <1>2, <1>3

-----------------------------------------------------------------------------
(* When nothing is being created or destroyed.                             *)
LEMMA Quiet ==
  ASSUME Inv0, Safe
  PROVE  /\ creating.at \in Nat
         /\ \A p \in Programs : step[p] \in 0..9
         /\ phase # "queues" => creating.at = 0 /\ cur = NoRnic
         /\ phase # "queues" => destroying["start"] = <<>>
         /\ closing # "queues" => destroying["stop"] = <<>>
         /\ phase = "queues" => closing \in {"no", "prober"} /\ responding = {}
         /\ cur = NoRnic => creating.at = 0
         /\ \A p \in Programs : destroying[p] = <<>> =>
              /\ step[p] = 0
              /\ \A i : i \notin DOMAIN destroying[p]
              /\ \A q : ~Dying(p, q) /\ ~Listed(p, q)
         /\ creating.at = 0 => \A q : ~Making(q) /\ ~Undoing(q)
<1>1. /\ creating.at \in Nat
      /\ \A p \in Programs : step[p] \in 0..9
      /\ creating.at > 0 => cur \in Rnics
  BY StepBounds DEF Inv0, TypeOK
<1>2. phase = "queues" => closing \in {"no", "prober"} /\ responding = {}
  BY DEF Inv0, TypeOK, StopPhases, Safe, Control, PublishedState, Up
<1>3. ASSUME NEW p \in Programs, destroying[p] = <<>>
      PROVE  /\ step[p] = 0
             /\ \A i : i \notin DOMAIN destroying[p]
             /\ \A q : ~Dying(p, q) /\ ~Listed(p, q)
  <2>1. step[p] = 0
    BY <1>1, <1>3 DEF Safe, Control
  <2>2. \A i : i \notin DOMAIN destroying[p]
    BY <1>3, EmptyDomain
  <2> QED BY <2>1, <2>2, <1>3 DEF Dying, Listed
<1>4. creating.at = 0 => \A q : ~Making(q) /\ ~Undoing(q)
  BY StepBounds DEF Making, Undoing
<1>5. /\ phase # "queues" => creating.at = 0 /\ cur = NoRnic
      /\ phase # "queues" => destroying["start"] = <<>>
      /\ closing # "queues" => destroying["stop"] = <<>>
      /\ cur = NoRnic => creating.at = 0
  BY <1>1, RnicsAssumption DEF Safe, Control
<1> QED BY <1>1, <1>2, <1>3, <1>4, <1>5

(* A queue that is not being created or destroyed is whole or gone.        *)
LEMMA WholeOrGone ==
  ASSUME Inv0, Safe, creating.at = 0, \A p \in Programs : destroying[p] = <<>>
  PROVE  \A q \in Queues : Settled(q) /\ (Whole(q) \/ Gone(q))
  BY Quiet DEF Safe, QueueStates, QueueState, Settled

(* The queue that is being created, and its sibling.                       *)
LEMMA CreationFacts ==
  ASSUME Inv0, Safe, creating.at > 0
  PROVE  /\ phase = "queues"
         /\ closing \in {"no", "prober"}
         /\ cur \in Rnics /\ cur \in isOpen /\ cur \notin todo
         /\ \A p \in Programs : destroying[p] = <<>> /\ step[p] = 0
         /\ creating.kind \in Kinds
         /\ Queue \in Queues /\ Sender(cur) \in Queues /\ Responder(cur) \in Queues
         /\ Queue[1] = cur
         /\ Queue = Sender(cur) \/ Queue = Responder(cur)
         /\ creating.kind = "sender" <=> Queue = Sender(cur)
         /\ creating.kind = "responder" <=> Queue = Responder(cur)
         /\ Sender(cur) # Responder(cur)
         /\ ~Untouched(Queue)
         /\ Queue \notin published
         /\ \A p \in Programs, q \in Queues : ~Dying(p, q) /\ ~Listed(p, q)
<1>1. /\ phase = "queues" /\ cur \in isOpen /\ cur \notin todo
      /\ destroying["start"] = <<>> /\ cur \in Rnics /\ creating.kind \in Kinds
  BY DEF Safe, Control, Inv0, TypeOK
<1>2. closing \in {"no", "prober"} /\ \A p \in Programs : destroying[p] = <<>>
  BY <1>1, Quiet DEF Programs
<1>3. /\ Queue \in Queues /\ Sender(cur) \in Queues /\ Responder(cur) \in Queues
      /\ Queue[1] = cur
      /\ Queue = Sender(cur) \/ Queue = Responder(cur)
      /\ creating.kind = "sender" <=> Queue = Sender(cur)
      /\ creating.kind = "responder" <=> Queue = Responder(cur)
      /\ Sender(cur) # Responder(cur)
  BY <1>1 DEF Queue, Sender, Responder, Queues, Kinds
<1>4. ~Untouched(Queue)
  BY <1>1, <1>3 DEF Untouched
<1>5. Queue \notin published
  BY <1>3 DEF Safe, CreatingState
<1>6. \A p \in Programs : step[p] = 0 /\ \A q : ~Dying(p, q) /\ ~Listed(p, q)
  BY <1>2, Quiet
<1> QED BY <1>1, <1>2, <1>3, <1>4, <1>5, <1>6

(* The queue that a program destroys: the other program destroys nothing.  *)
LEMMA DestructionFacts ==
  ASSUME Inv0, Safe, NEW p \in Programs, destroying[p] # <<>>
  PROVE  /\ creating.at = 0
         /\ destroying[p] \in Seq(Queues)
         /\ Victim(p) \in Queues
         /\ 1 \in DOMAIN destroying[p]
         /\ destroying[p][1] = Victim(p)
         /\ Listed(p, Victim(p))
         /\ Victim(p) \in managed
         /\ p = "start" => /\ phase = "queues" /\ closing \in {"no", "prober"}
                           /\ responding = {}
                           /\ Victim(p) \notin published
         /\ p = "stop" => /\ closing = "queues" /\ phase \in Up
                          /\ responding = {}
                          /\ Victim(p) \notin left
         /\ \A o \in Programs : o # p =>
              /\ destroying[o] = <<>>
              /\ step[o] = 0
              /\ \A q : ~Dying(o, q) /\ ~Listed(o, q)
         /\ \A q : ~Making(q) /\ ~Undoing(q)
<1>1. destroying[p] \in Seq(Queues)
  BY DEF Inv0, TypeOK
<1>2. Victim(p) \in Queues /\ 1 \in DOMAIN destroying[p] /\ destroying[p][1] = Victim(p)
  BY <1>1, TailFacts DEF Victim
<1>3. Listed(p, Victim(p))
  BY <1>2 DEF Listed
<1>4. CASE p = "start"
  <2>1. phase = "queues" /\ closing \in {"no", "prober"} /\ responding = {}
    BY <1>4, Quiet DEF Safe, Control
  <2>2. creating.at = 0
    BY <1>4, Quiet DEF Safe, Control
  <2>3. Victim(p) \in managed /\ Victim(p) \notin published
    BY <1>2, <1>4 DEF Safe, StartDestroys
  <2>4. \A o \in Programs : o # p => o = "stop" /\ destroying[o] = <<>>
    BY <1>4, <2>1, Quiet DEF Programs
  <2> QED BY <1>1, <1>2, <1>3, <1>4, <2>1, <2>2, <2>3, <2>4, Quiet
<1>5. CASE p = "stop"
  <2>1. closing = "queues" /\ phase \in Up /\ responding = {}
    BY <1>5 DEF Safe, Control
  <2>2. creating.at = 0 /\ destroying["start"] = <<>>
    BY <2>1, Quiet DEF Up
  <2>3. Victim(p) \in managed /\ Victim(p) \notin left
    BY <1>2, <1>5 DEF Safe, StopDestroys
  <2>4. \A o \in Programs : o # p => o = "start" /\ destroying[o] = <<>>
    BY <1>5, <2>2 DEF Programs
  <2> QED BY <1>1, <1>2, <1>3, <1>5, <2>1, <2>2, <2>3, <2>4, Quiet
<1> QED BY <1>4, <1>5 DEF Programs

-----------------------------------------------------------------------------
(* The steps of Start and Stop that create and destroy nothing.            *)

coreVars == <<cur, creating, undo, destroying, step, res, chans, poller, done,
              managed, published>>
NoneNewlyUntouched == \A q \in Queues : Untouched(q)' => Untouched(q)

LEMMA CoreFrame ==
  ASSUME Inv0, Safe, UNCHANGED coreVars, isOpen \subseteq isOpen', NoneNewlyUntouched
  PROVE  /\ \A q \in Queues : (Whole(q) => Whole(q)') /\ (Gone(q)' <=> Gone(q))
         /\ QueueStates'
         /\ CreatingState'
         /\ StartDestroys'
         /\ DoneState'
<1>a. UNCHANGED <<cur, creating, undo, destroying, step, res, chans, poller, done,
                  managed, published>>
  BY DEF coreVars
<1>1. \A q : (Whole(q) => Whole(q)') /\ (Gone(q)' <=> Gone(q)) /\ (Fresh(q)' <=> Fresh(q))
  BY <1>a DEF Whole, Gone, Fresh, Usable
<1>2. \A q : /\ Making(q)' <=> Making(q)
             /\ Undoing(q)' <=> Undoing(q)
             /\ \A p \in Programs : Dying(p, q)' <=> Dying(p, q)
             /\ Settled(q)' <=> Settled(q)
  BY <1>a DEF Making, Undoing, Dying, Victim, Queue, Settled
<1>3. QueueStates'
  <2> SUFFICES ASSUME NEW q \in Queues PROVE QueueState(q)'
    BY DEF QueueStates
  <2>1. QueueState(q)
    BY DEF Safe, QueueStates
  <2>2. MakingState(q)' /\ UndoingState(q)'
    BY <2>1, <1>a, <1>2 DEF QueueState, MakingState, UndoingState
  <2>3. \A p \in Programs : DyingState(p, q)'
    BY <2>1, <1>a, <1>2 DEF QueueState, DyingState
  <2>4. Settled(q)' => Whole(q)' \/ Gone(q)'
    BY <2>1, <1>1, <1>2 DEF QueueState
  <2>5. Untouched(q)' => Fresh(q)'
    BY <2>1, <1>1 DEF QueueState, NoneNewlyUntouched
  <2> QED BY <2>2, <2>3, <2>4, <2>5 DEF QueueState
<1>4. CreatingState'
  BY <1>a, <1>1 DEF Safe, CreatingState, Queue
<1>5. StartDestroys'
  BY <1>a, <1>1 DEF Safe, StartDestroys, Victim
<1>6. DoneState'
  BY <1>a DEF Safe, DoneState, Victim
<1> QED BY <1>1, <1>3, <1>4, <1>5, <1>6

(* Of these, the ones of Start.                                            *)
StartOnly ==
  \/ NewManager
  \/ \E r \in Rnics : OpenDevice(r)
  \/ DevicesOpened \/ StartProber \/ RegisterAgent

LEMMA StartOnlySafe ==
  ASSUME Inv0, Safe, StartOnly
  PROVE  Safe'
<1>a. UNCHANGED <<cur, creating, undo, destroying, step, res, chans, poller, done,
                  managed, published, closing, left, overtaken>>
  BY DEF StartOnly, NewManager, OpenDevice, DevicesOpened, StartProber, RegisterAgent,
     stopVars, destroyVars, tableVars, objectVars
<1>b. isOpen \subseteq isOpen'
  BY DEF StartOnly, NewManager, OpenDevice, DevicesOpened, StartProber, RegisterAgent,
     objectVars
<1>c. NoneNewlyUntouched
  BY <1>a DEF NoneNewlyUntouched, Untouched, StartOnly, NewManager, OpenDevice,
     DevicesOpened, StartProber, RegisterAgent
<1>d. /\ \A q \in Queues : (Whole(q) => Whole(q)') /\ (Gone(q)' <=> Gone(q))
      /\ QueueStates' /\ CreatingState' /\ StartDestroys' /\ DoneState'
  <2>1. UNCHANGED coreVars
    BY <1>a DEF coreVars
  <2> QED BY <2>1, <1>b, <1>c, CoreFrame
<1>e. creating.at = 0
  <2>1. phase = "queues" => cur = NoRnic
    BY DEF StartOnly, NewManager, OpenDevice, DevicesOpened, StartProber, RegisterAgent
  <2> QED BY <2>1, Quiet
<1>f. destroying["start"] = <<>>
  <2>1. phase = "queues" => destroying["start"] = <<>>
    BY DEF StartOnly, NewManager, OpenDevice, DevicesOpened, StartProber, RegisterAgent
  <2> QED BY <2>1, Quiet
<1>g. phase \notin Up => closing \in {"no", "prober"} /\ responding = {}
  BY DEF Safe, Control, PublishedState, Inv0, TypeOK, StopPhases
<1>h. \/ /\ phase \notin Up /\ UNCHANGED <<responding, registered>>
         /\ phase' \in Up => phase \in {"manager", "open"}
      \/ /\ phase = "queues" /\ phase' \in Up /\ UNCHANGED <<isOpen, registered>>
         /\ responding' = {q \in published : q[2] = "responder"}
      \/ /\ phase \in Up /\ phase' \in Up /\ UNCHANGED <<isOpen, responding>>
         /\ UNCHANGED registered \/ registered' = {Responder(r) : r \in detected}
  BY DEF StartOnly, NewManager, OpenDevice, DevicesOpened, StartProber, RegisterAgent,
     objectVars, userVars, tableVars, Up
<1>i. phase \in {"manager", "open"} => published = {}
  <2>1. phase \in {"manager", "open"} => \A q \in Queues : q \notin published
    BY DEF Safe, QueueStates, QueueState, Untouched, Fresh
  <2>2. published \subseteq Queues
    BY DEF Inv0, TypeOK
  <2> QED BY <2>1, <2>2
<1>1. Control'
  <2>1. "queues" \notin Up
    BY DEF Up
  <2> QED BY <2>1, <1>a, <1>b, <1>e, <1>f, <1>g, <1>h DEF Safe, Control
<1>2. StopDestroys'
  <2>1. destroying["stop"] # <<>> => Victim("stop") \in Queues
    BY DestructionFacts DEF Programs
  <2>2. Victim("stop")' = Victim("stop")
    BY <1>a DEF Victim
  <2> QED BY <2>1, <2>2, <1>a, <1>d DEF Safe, StopDestroys
<1>3. ClosingState'
  BY <1>a, <1>d DEF Safe, ClosingState, Listed
<1>4. PublishedState'
  <2>0. published \subseteq Queues /\ "queues" \notin Up
    BY DEF Inv0, TypeOK, Up
  <2>1. /\ closing' \in {"no", "prober", "state"} => \A q \in published' : Whole(q)'
        /\ closing' \in {"no", "prober", "state"} =>
             \A q \in Queues :
               q[2] = "responder" /\ res'[q] # {} =>
                 q \in published' \/ Listed("start", q)' \/ (creating'.at > 0 /\ q = Queue')
    BY <2>0, <1>a, <1>d, <1>e DEF Safe, PublishedState, Listed
  <2>2. responding' # {} => phase' \in Up /\ responding' \subseteq published'
    BY <1>a, <1>g, <1>h DEF Safe, PublishedState
  <2>3. closing' = "no" /\ phase' \in Up =>
          \A q \in published' : q[2] = "responder" => q \in responding'
    BY <1>a, <1>h, <1>i DEF Safe, PublishedState
  <2>4. \A q \in registered' : q[2] = "responder"
    BY <1>h DEF Safe, PublishedState, Responder
  <2> QED BY <2>1, <2>2, <2>3, <2>4 DEF PublishedState
<1> QED BY <1>1, <1>2, <1>3, <1>4, <1>d DEF Safe

(* The ones of Stop, and the steps that touch only what the invariant does *)
(* not speak of.                                                           *)
safeVars == <<startVars, stopVars, destroyVars, tableVars, responding, objectVars>>

StopOnly ==
  \/ StopAgent
  \/ \E q \in Queues : ResponderEnds(q)
  \/ CloseProber \/ CloseStart \/ UNCHANGED safeVars

LEMMA StopOnlySafe ==
  ASSUME Inv0, Safe, StopOnly, ~overtaken'
  PROVE  Safe'
<1>a. UNCHANGED <<cur, creating, undo, destroying, step, res, chans, poller, done,
                  managed, published, isOpen, phase, todo, registered>>
  BY DEF StopOnly, StopAgent, ResponderEnds, CloseProber, CloseStart, safeVars,
     startVars, stopVars, destroyVars, tableVars, objectVars
<1>d. /\ \A q \in Queues : (Whole(q) => Whole(q)') /\ (Gone(q)' <=> Gone(q))
      /\ QueueStates' /\ CreatingState' /\ StartDestroys' /\ DoneState'
  <2>1. UNCHANGED coreVars /\ isOpen \subseteq isOpen'
    BY <1>a DEF coreVars
  <2>2. NoneNewlyUntouched
    BY <1>a DEF NoneNewlyUntouched, Untouched
  <2> QED BY <2>1, <2>2, CoreFrame
<1>f. \/ UNCHANGED <<closing, left, responding>>
      \/ closing = "no" /\ closing' = "prober" /\ UNCHANGED <<left, responding>>
      \/ closing # "no" /\ responding' \subseteq responding /\ UNCHANGED <<closing, left>>
      \/ /\ closing = "prober" /\ responding = {} /\ closing' = "state"
         /\ phase \in Up /\ UNCHANGED <<left, responding>>
      \/ /\ closing = "state" /\ closing' = "queues" /\ left' = managed
         /\ UNCHANGED responding
  <2>1. CASE CloseProber
    <3>1. phase \notin {"manager", "open", "queues"}
      <4>1. overtaken' = (phase \in {"manager", "open", "queues"})
        BY <2>1 DEF CloseProber
      <4>2. CASE phase \in {"manager", "open", "queues"}
        BY <4>1, <4>2
      <4> QED BY <4>2
    <3>2. phase \in Up
      BY <3>1 DEF Inv0, TypeOK, Phases, Up
    <3> QED BY <3>2, <2>1 DEF CloseProber, userVars
  <2>2. CASE CloseStart
    <3>1. phase # "manager"
      BY <2>2 DEF Safe, Control, Up, CloseStart
    <3> QED BY <3>1, <2>2 DEF CloseStart, userVars
  <2>3. CASE StopAgent
    BY <2>3 DEF StopAgent, userVars
  <2>4. ASSUME NEW q \in Queues, ResponderEnds(q)
        PROVE  closing # "no" /\ responding' \subseteq responding /\ UNCHANGED <<closing, left>>
    BY <2>4 DEF ResponderEnds, stopVars
  <2>5. CASE UNCHANGED safeVars
    BY <2>5 DEF safeVars, stopVars
  <2> QED BY <2>1, <2>2, <2>3, <2>4, <2>5 DEF StopOnly
<1>g. closing = "state" => /\ creating.at = 0
                           /\ \A p \in Programs : destroying[p] = <<>>
                           /\ \A q \in Queues : Whole(q) \/ Gone(q)
  <2> SUFFICES ASSUME closing = "state"
               PROVE  /\ creating.at = 0
                      /\ \A p \in Programs : destroying[p] = <<>>
                      /\ \A q \in Queues : Whole(q) \/ Gone(q)
    OBVIOUS
  <2>1. phase \in Up
    BY DEF Safe, Control
  <2>2. creating.at = 0 /\ \A p \in Programs : destroying[p] = <<>>
    BY <2>1, Quiet DEF Up, Programs
  <2> QED BY <2>2, WholeOrGone
<1>1. Control'
  BY <1>a, <1>f DEF Safe, Control
<1>2. StopDestroys'
  <2>1. destroying["stop"] # <<>> => Victim("stop") \in Queues /\ closing = "queues"
    BY DestructionFacts DEF Programs
  <2>2. Victim("stop")' = Victim("stop")
    BY <1>a DEF Victim
  <2>3. destroying["stop"] = <<>> => \A i : i \notin DOMAIN destroying["stop"]
    BY EmptyDomain
  <2>4. closing = "queues" => UNCHANGED left
    BY <1>f
  <2> QED BY <2>1, <2>2, <2>3, <2>4, <1>a, <1>d DEF Safe, StopDestroys
<1>3. ClosingState'
  <2>1. CASE UNCHANGED <<closing, left>>
    BY <2>1, <1>a, <1>d DEF Safe, ClosingState, Listed
  <2>2. CASE closing' \notin {"queues", "devices", "done"}
    BY <2>2 DEF ClosingState
  <2>3. CASE closing = "state" /\ closing' = "queues" /\ left' = managed
    <3>1. \A q \in Queues : Whole(q) \/ Gone(q)
      BY <2>3, <1>g
    <3>2. \A q \in published : Whole(q)
      BY <2>3 DEF Safe, PublishedState
    <3>3. \A q \in Queues : Whole(q) => q \in managed
      BY DEF Whole
    <3> QED BY <2>3, <3>1, <3>2, <3>3, <1>a, <1>d DEF ClosingState
  <2> QED BY <2>1, <2>2, <2>3, <1>f
<1>4. PublishedState'
  <2>0. published \subseteq Queues
    BY DEF Inv0, TypeOK
  <2>1. /\ closing' \in {"no", "prober", "state"} => \A q \in published' : Whole(q)'
        /\ closing' \in {"no", "prober", "state"} =>
             \A q \in Queues :
               q[2] = "responder" /\ res'[q] # {} =>
                 q \in published' \/ Listed("start", q)' \/ (creating'.at > 0 /\ q = Queue')
    BY <2>0, <1>a, <1>d, <1>f DEF Safe, PublishedState, Listed, Queue
  <2>2. /\ responding' # {} => phase' \in Up /\ responding' \subseteq published'
        /\ closing' = "no" /\ phase' \in Up =>
             \A q \in published' : q[2] = "responder" => q \in responding'
        /\ \A q \in registered' : q[2] = "responder"
    BY <1>a, <1>f DEF Safe, PublishedState
  <2> QED BY <2>1, <2>2 DEF PublishedState
<1> QED BY <1>1, <1>2, <1>3, <1>4, <1>d DEF Safe

LEMMA CloseQueueSafe ==
  ASSUME Inv0, Safe, NEW q \in Queues, CloseQueue(q)
  PROVE  Safe'
<1>a. /\ closing = "queues" /\ closing' = "queues" /\ destroying["stop"] = <<>>
      /\ q \in left /\ left' = left \ {q} /\ phase \in Up /\ phase \notin {"manager", "open", "queues"}
      /\ UNCHANGED <<cur, creating, undo, step, res, chans, poller, done,
                     managed, published, isOpen, phase, todo, registered, responding>>
  BY DEF CloseQueue, startVars, tableVars, objectVars, userVars, Safe, Control, Up
<1>b. /\ creating.at = 0 /\ destroying["start"] = <<>>
      /\ \A p \in Programs : destroying[p] = <<>> /\ step[p] = 0 /\ step'[p] = 0
      /\ \A p \in Programs : \A i : i \notin DOMAIN destroying[p]
  BY <1>a, Quiet DEF Programs
<1>c. /\ destroying'["stop"] = <<q>> /\ destroying'["start"] = destroying["start"]
      /\ \A i : i \notin DOMAIN destroying'["start"]
      /\ DOMAIN destroying'["stop"] = {1}
      /\ destroying'["stop"][1] = q
      /\ Victim("stop")' = q
      /\ destroying'["stop"] # <<>>
  <2>1. destroying' = [destroying EXCEPT !["stop"] = <<q>>]
        /\ destroying \in [Programs -> Seq(Queues)]
    BY DEF CloseQueue, Inv0, TypeOK
  <2>2. destroying'["stop"] = <<q>> /\ destroying'["start"] = destroying["start"]
    BY <2>1 DEF Programs
  <2>3. Head(<<q>>) = q /\ DOMAIN <<q>> = {1} /\ <<q>>[1] = q /\ <<q>> # <<>>
    OBVIOUS
  <2> QED BY <2>2, <2>3, <1>b DEF Victim, Programs
<1>d. \A o \in Queues : Whole(o) \/ Gone(o)
  BY <1>b, WholeOrGone
<1>e. \A o \in Queues : (Whole(o) <=> Whole(o)') /\ (Gone(o)' <=> Gone(o))
  BY <1>a DEF Whole, Gone, Usable
<1>1. Control'
  BY <1>a, <1>b, <1>c DEF Safe, Control, Programs
<1>2. QueueStates'
  <2> SUFFICES ASSUME NEW o \in Queues PROVE QueueState(o)'
    BY DEF QueueStates
  <2>1. ~Making(o)' /\ ~Undoing(o)' /\ ~Untouched(o)' /\ \A p \in Programs : ~Dying(p, o)'
    BY <1>a, <1>b, StepBounds DEF Making, Undoing, Untouched, Dying
  <2> QED BY <2>1, <1>d, <1>e DEF QueueState, MakingState, UndoingState, DyingState
<1>3. CreatingState'
  BY <1>a, <1>b DEF CreatingState
<1>4. StartDestroys'
  BY <1>b, <1>c DEF StartDestroys, Programs
<1>5. StopDestroys'
  <2>1. q \in managed /\ (q \in published => Whole(q))
    BY <1>a DEF Safe, Control, ClosingState
  <2> QED BY <2>1, <1>a, <1>b, <1>c, <1>e DEF StopDestroys, Programs
<1>6. DoneState'
  BY <1>a, <1>b DEF Safe, DoneState
<1>7. ClosingState'
  <2>1. Listed("stop", q)'
    BY <1>c DEF Listed
  <2>2. \A o \in Queues : ~Listed("stop", o)
    BY <1>b DEF Listed, Programs
  <2> QED BY <2>1, <2>2, <1>a, <1>e DEF Safe, ClosingState
<1>8. PublishedState'
  BY <1>a DEF Safe, PublishedState
<1> QED BY <1>1, <1>2, <1>3, <1>4, <1>5, <1>6, <1>7, <1>8 DEF Safe

(* The queues are all gone, and so are the devices in the end.             *)
CloseRest == QueuesClosed \/ (\E r \in Rnics : CloseDevice(r)) \/ DevicesClosed

LEMMA CloseRestSafe ==
  ASSUME Inv0, Safe, CloseRest
  PROVE  Safe'
<1>a. /\ closing \in {"queues", "devices"} /\ closing' \in {"devices", "done"}
      /\ phase \in Up /\ phase \notin {"manager", "open", "queues"} /\ responding = {}
      /\ UNCHANGED <<cur, creating, undo, destroying, step, res, chans, poller, done,
                     phase, todo, registered, responding>>
      /\ destroying["stop"] = <<>>
  BY Quiet DEF CloseRest, QueuesClosed, CloseDevice, DevicesClosed, startVars,
     destroyVars, tableVars, objectVars, userVars, Safe, Control, Up
<1>b. /\ creating.at = 0
      /\ \A p \in Programs : destroying[p] = <<>> /\ step[p] = 0
      /\ \A p \in Programs : \A i : i \notin DOMAIN destroying[p]
  BY <1>a, Quiet DEF Programs
<1>c. \A q \in Queues : Gone(q) /\ Gone(q)'
  <2>1. closing = "devices" => \A q \in Queues : Gone(q)
    BY DEF Safe, ClosingState
  <2>2. closing = "queues" => left = {}
    BY DEF CloseRest, QueuesClosed, CloseDevice, DevicesClosed
  <2>3. \A q \in Queues : ~Listed("stop", q)
    BY <1>b DEF Listed, Programs
  <2>4. closing = "queues" => \A q \in Queues : Gone(q)
    BY <2>2, <2>3 DEF Safe, ClosingState
  <2> QED BY <2>1, <2>4, <1>a DEF Gone
<1>1. Control'
  <2>1. closing' = "devices" => isOpen' \subseteq left'
    <3>1. CASE QueuesClosed
      BY <3>1 DEF QueuesClosed, objectVars, Inv0, TypeOK
    <3>2. ASSUME NEW r \in Rnics, CloseDevice(r)
          PROVE  closing' = "devices" => isOpen' \subseteq left'
      <4>1. isOpen \subseteq left /\ isOpen' = isOpen \ {r} /\ left' = left \ {r}
        BY <3>2 DEF CloseDevice, Safe, Control
      <4> QED BY <4>1
    <3> QED BY <3>1, <3>2 DEF CloseRest, DevicesClosed
  <2>2. closing' = "done" => isOpen' = {}
    <3>1. DevicesClosed => isOpen \subseteq {} /\ isOpen' = isOpen
      BY DEF DevicesClosed, Safe, Control, objectVars
    <3> QED BY <3>1 DEF CloseRest, QueuesClosed, CloseDevice
  <2> QED BY <2>1, <2>2, <1>a, <1>b DEF Safe, Control, Programs
<1>2. QueueStates'
  <2> SUFFICES ASSUME NEW q \in Queues PROVE QueueState(q)'
    BY DEF QueueStates
  <2>1. ~Making(q)' /\ ~Undoing(q)' /\ ~Untouched(q)' /\ \A p \in Programs : ~Dying(p, q)'
    BY <1>a, <1>b, StepBounds DEF Making, Undoing, Untouched, Dying
  <2> QED BY <2>1, <1>c DEF QueueState, MakingState, UndoingState, DyingState
<1>3. CreatingState' /\ StartDestroys' /\ StopDestroys'
  BY <1>a, <1>b DEF CreatingState, StartDestroys, StopDestroys, Programs
<1>4. DoneState'
  BY <1>a, <1>b DEF Safe, DoneState
<1>5. ClosingState'
  BY <1>a, <1>c DEF ClosingState
<1>6. PublishedState'
  BY <1>a DEF Safe, PublishedState
<1> QED BY <1>1, <1>2, <1>3, <1>4, <1>5, <1>6 DEF Safe

-----------------------------------------------------------------------------
(* The steps of a creation.  Only the queue x that is being created is     *)
(* touched by those that go on with it.                                    *)

createFrame == <<phase, closing, left, step, isOpen, responding, registered>>

LEMMA CreationFrame ==
  ASSUME Inv0, Safe, phase = "queues", UNCHANGED createFrame,
         destroying'["stop"] = destroying["stop"]
  PROVE  ClosingState' /\ StopDestroys'
<1>1. /\ closing \in {"no", "prober"} /\ closing' = closing
      /\ destroying["stop"] = <<>> /\ step["stop"] = 0 /\ step' = step
  BY Quiet DEF createFrame, Programs
<1>2. \A i : i \notin DOMAIN destroying'["stop"]
  BY <1>1, EmptyDomain
<1> QED BY <1>1, <1>2 DEF ClosingState, StopDestroys

OthersKept(x) ==
  \A q \in Queues : q # x =>
    /\ res'[q] = res[q] /\ chans'[q] = chans[q] /\ poller'[q] = poller[q]
    /\ q \in managed' <=> q \in managed

Advances(x) ==
  /\ UNCHANGED <<createFrame, todo, cur, destroying, published, done>>
  /\ creating'.kind = creating.kind
  /\ creating'.at > 0
  /\ OthersKept(x)

LEMMA AdvanceSafe ==
  ASSUME Inv0, Safe, creating.at > 0, NEW x \in Queues, x = Queue, Advances(x),
         QueueState(x)',
         creating'.at > 9 /\ creating'.at # UndoStep => Whole(x)',
         x \in done => poller'[x] \notin Running
  PROVE  Safe'
<1>a. /\ UNCHANGED <<phase, todo, cur, closing, left, destroying, step, isOpen,
                     published, responding, registered, done>>
      /\ creating'.kind = creating.kind /\ creating'.at > 0
      /\ Queue' = Queue
  BY DEF Advances, createFrame, Queue
<1>b. \A q \in Queues : q # x =>
        /\ res'[q] = res[q] /\ chans'[q] = chans[q] /\ poller'[q] = poller[q]
        /\ q \in managed' <=> q \in managed
        /\ Whole(q)' <=> Whole(q)
        /\ Gone(q)' <=> Gone(q)
        /\ Fresh(q)' <=> Fresh(q)
  BY <1>a DEF Advances, OthersKept, Whole, Gone, Fresh, Usable
<1>c. /\ \A p \in Programs : destroying[p] = <<>> /\ step[p] = 0
      /\ \A p \in Programs : \A i : i \notin DOMAIN destroying[p]
      /\ phase = "queues" /\ x \notin published /\ published \subseteq Queues
      /\ closing \in {"no", "prober"}
  BY CreationFacts, Quiet DEF Inv0, TypeOK
<1>1. Control'
  BY <1>a, <1>c DEF Safe, Control, Programs
<1>2. QueueStates'
  <2> SUFFICES ASSUME NEW q \in Queues, q # x PROVE QueueState(q)'
    BY DEF QueueStates
  <2>1. /\ ~Making(q)' /\ ~Undoing(q)' /\ ~Making(q) /\ ~Undoing(q)
        /\ \A p \in Programs : ~Dying(p, q)' /\ ~Dying(p, q)
    BY <1>a, <1>c DEF Making, Undoing, Dying
  <2>2. Untouched(q)' => Untouched(q)
    BY <1>a DEF Untouched
  <2>3. Settled(q) /\ QueueState(q)
    BY <2>1 DEF Settled, Safe, QueueStates
  <2> QED BY <2>1, <2>2, <2>3, <1>b
          DEF QueueState, MakingState, UndoingState, DyingState
<1>3. CreatingState'
  <2>1. creating.kind = "responder" => Sender(cur) # x /\ Sender(cur) \in Queues
    BY CreationFacts
  <2>2. PICK s : s = Sender(cur)
    OBVIOUS
  <2>3. creating.kind = "responder" => Whole(s)'
    BY <2>1, <2>2, <1>b DEF Safe, CreatingState
  <2> QED BY <2>2, <2>3, <1>a DEF Safe, CreatingState
<1>4. StartDestroys'
  BY <1>a, <1>c DEF StartDestroys, Programs
<1>5. DoneState'
  <2>1. \A q \in done : poller[q] \notin Running
    BY <1>c DEF Safe, DoneState
  <2>2. done \subseteq Queues
    BY DEF Inv0, TypeOK
  <2> QED BY <2>1, <2>2, <1>a, <1>b DEF DoneState
<1>6. ClosingState' /\ StopDestroys'
  BY <1>c, CreationFrame DEF Advances
<1>7. PublishedState'
  <2>1. \A q \in Queues : ~Listed("start", q)
    BY <1>c DEF Listed, Programs
  <2> QED BY <2>1, <1>a, <1>b, <1>c DEF Safe, PublishedState
<1> QED BY <1>1, <1>2, <1>3, <1>4, <1>5, <1>6, <1>7 DEF Safe

(* What is known of the queue under creation.                              *)
LEMMA MakingFacts ==
  ASSUME Inv0, Safe, creating.at > 0, NEW x \in Queues, x = Queue
  PROVE  /\ QueueState(x)
         /\ creating.at \in 1..9 =>
              /\ res[x] = Alive(MadeBefore(creating.at))
              /\ chans[x] = "none"
              /\ poller[x] \notin Running
              /\ x \notin done
         /\ creating.at = UndoStep =>
              /\ \E k \in 0..6 : undo = UndoOf(k) /\ res[x] = Alive(k)
              /\ chans[x] = "none"
              /\ poller[x] \notin Running
         /\ creating.at > 9 /\ creating.at # UndoStep => Whole(x)
         /\ x[1] = cur /\ cur \in isOpen
         /\ x \in done => poller[x] \notin Running
<1>1. QueueState(x)
  BY DEF Safe, QueueStates
<1>2. x[1] = cur /\ cur \in isOpen /\ \A p \in Programs : destroying[p] = <<>>
  BY CreationFacts
<1>3. creating.at > 9 /\ creating.at # UndoStep => Whole(x)
  BY DEF Safe, CreatingState
<1>4. x \in done => poller[x] \notin Running
  BY <1>2 DEF Safe, DoneState
<1>5. creating.at = UndoStep => Undoing(x)
  BY DEF Undoing
<1>6. creating.at \in 1..9 => Making(x)
  BY DEF Making
<1> QED BY <1>1, <1>2, <1>3, <1>4, <1>5, <1>6 DEF QueueState, MakingState, UndoingState

(* Nothing else is said of the queue under creation in the next state.     *)
LEMMA MadeState ==
  ASSUME Inv0, Safe, creating.at > 0, NEW x \in Queues, x = Queue, Advances(x),
         MakingState(x)', UndoingState(x)',
         ~Making(x)' /\ ~Undoing(x)' => Whole(x)'
  PROVE  QueueState(x)'
<1>1. /\ \A p \in Programs : destroying[p] = <<>>
      /\ cur \notin todo /\ phase = "queues" /\ x[1] = cur
      /\ creating.kind = "sender" => x # Responder(cur)
  BY CreationFacts
<1>2. UNCHANGED <<phase, todo, cur, destroying>> /\ creating'.kind = creating.kind
  BY DEF Advances, createFrame
<1>3. \A p \in Programs : ~Dying(p, x)'
  BY <1>1, <1>2 DEF Dying
<1>4. ~Untouched(x)'
  BY <1>1, <1>2 DEF Untouched
<1> QED BY <1>3, <1>4 DEF QueueState, Settled, DyingState

LEMMA AcquireSafe ==
  ASSUME Inv0, Safe, Acquire
  PROVE  Safe'
<1>a. creating.at \in 1..8 /\ creating.at > 0
  BY StepBounds DEF Acquire
<1>x. PICK x \in Queues : x = Queue
  BY <1>a, CreationFacts
<1>b. /\ creating'.at = creating.at + 1 /\ creating'.kind = creating.kind
      /\ Queue' = x
      /\ res' = [res EXCEPT ![x] = @ \cup ({Steps[creating.at]} \cap Objects)]
      /\ res \in [Queues -> SUBSET Objects]
      /\ UNCHANGED <<chans, poller, done, managed>>
  BY <1>x DEF Acquire, Queue, tableVars, Inv0, TypeOK
<1>c. Advances(x)
  BY <1>a, <1>b DEF Advances, OthersKept, createFrame, Acquire, stopVars, destroyVars,
     tableVars, userVars
<1>d. /\ res[x] = Alive(MadeBefore(creating.at)) /\ chans[x] = "none"
      /\ poller[x] \notin Running /\ x \notin done
  BY <1>a, <1>x, MakingFacts
<1>e. res'[x] = Alive(MadeBefore(creating'.at))
  BY <1>a, <1>b, <1>d, AliveMade
<1>f. MakingState(x)' /\ Making(x)' /\ creating'.at <= 9
  BY <1>a, <1>b, <1>d, <1>e DEF MakingState, Making
<1>g. UndoingState(x)'
  BY <1>f, StepBounds DEF UndoingState, Undoing
<1>h. QueueState(x)'
  BY <1>a, <1>x, <1>c, <1>f, <1>g, MadeState
<1>i. /\ creating'.at > 9 /\ creating'.at # UndoStep => Whole(x)'
      /\ x \in done => poller'[x] \notin Running
  BY <1>a, <1>b, <1>d
<1> QED BY <1>a, <1>x, <1>c, <1>h, <1>i, AdvanceSafe

LEMMA AcquireFailsSafe ==
  ASSUME Inv0, Safe, AcquireFails
  PROVE  Safe'
<1>a. creating.at \in 1..8 /\ creating.at > 0
  BY StepBounds DEF AcquireFails
<1>x. PICK x \in Queues : x = Queue
  BY <1>a, CreationFacts
<1>b. /\ creating'.at = UndoStep /\ creating'.kind = creating.kind
      /\ Queue' = x
      /\ undo' = CleanedUp(creating.at)
      /\ UNCHANGED <<res, chans, poller, done, managed>>
  BY <1>x DEF AcquireFails, Queue, tableVars, objectVars, Inv0, TypeOK
<1>c. Advances(x)
  BY <1>a, <1>b, StepBounds DEF Advances, OthersKept, createFrame, AcquireFails,
     stopVars, destroyVars, tableVars, userVars, objectVars
<1>d. /\ res[x] = Alive(MadeBefore(creating.at)) /\ chans[x] = "none"
      /\ poller[x] \notin Running /\ x \notin done
  BY <1>a, <1>x, MakingFacts
<1>e. PICK k \in 0..6 : undo' = UndoOf(k) /\ res'[x] = Alive(k)
  BY <1>a, <1>b, <1>d, AliveMade
<1>f. UndoingState(x)' /\ Undoing(x)'
  BY <1>b, <1>d, <1>e DEF UndoingState, Undoing
<1>g. MakingState(x)'
  BY <1>b, StepBounds DEF MakingState, Making
<1>h. QueueState(x)'
  BY <1>a, <1>x, <1>c, <1>f, <1>g, MadeState
<1>i. /\ creating'.at > 9 /\ creating'.at # UndoStep => Whole(x)'
      /\ x \in done => poller'[x] \notin Running
  BY <1>b, <1>d
<1> QED BY <1>a, <1>x, <1>c, <1>h, <1>i, AdvanceSafe

LEMMA UndoNextSafe ==
  ASSUME Inv0, Safe, UndoNext
  PROVE  Safe'
<1>a. creating.at = UndoStep /\ creating.at > 0
  BY StepBounds DEF UndoNext
<1>x. PICK x \in Queues : x = Queue
  BY <1>a, CreationFacts
<1>b. /\ creating' = creating
      /\ Queue' = x
      /\ undo # <<>> /\ undo' = Tail(undo)
      /\ res' = [res EXCEPT ![x] = @ \ {Head(undo)}]
      /\ res \in [Queues -> SUBSET Objects]
      /\ UNCHANGED <<chans, poller, done, managed>>
  BY <1>x DEF UndoNext, Queue, tableVars, Inv0, TypeOK
<1>c. Advances(x)
  BY <1>a, <1>b DEF Advances, OthersKept, createFrame, UndoNext,
     stopVars, destroyVars, tableVars, userVars
<1>d. /\ chans[x] = "none" /\ poller[x] \notin Running
      /\ \E k \in 0..6 : undo = UndoOf(k) /\ res[x] = Alive(k)
  BY <1>a, <1>x, MakingFacts
<1>k. PICK k \in 0..6 : undo = UndoOf(k) /\ res[x] = Alive(k)
  BY <1>d
<1>e. /\ k # 0 /\ k - 1 \in 0..6
      /\ undo' = UndoOf(k - 1) /\ res'[x] = Alive(k - 1)
  <2>1. k # 0
    BY <1>b, <1>k, AliveUndo
  <2>2. /\ Alive(k) \ {Head(UndoOf(k))} = Alive(k - 1)
        /\ Tail(UndoOf(k)) = UndoOf(k - 1) /\ k - 1 \in 0..6
    BY <2>1, AliveUndo
  <2>3. res'[x] = res[x] \ {Head(undo)}
    BY <1>b
  <2> QED BY <2>1, <2>2, <2>3, <1>b, <1>k
<1>f. UndoingState(x)' /\ Undoing(x)'
  BY <1>a, <1>b, <1>d, <1>e DEF UndoingState, Undoing
<1>g. MakingState(x)'
  BY <1>a, <1>b, StepBounds DEF MakingState, Making
<1>h. QueueState(x)'
  BY <1>a, <1>x, <1>c, <1>f, <1>g, MadeState
<1>i. /\ creating'.at > 9 /\ creating'.at # UndoStep => Whole(x)'
      /\ x \in done => poller'[x] \notin Running
  BY <1>a, <1>b, <1>d
<1> QED BY <1>a, <1>x, <1>c, <1>h, <1>i, AdvanceSafe

LEMMA StoreQueueSafe ==
  ASSUME Inv0, Safe, StoreQueue
  PROVE  Safe'
<1>a. creating.at = 9 /\ creating.at > 0
  BY StepBounds DEF StoreQueue
<1>x. PICK x \in Queues : x = Queue
  BY <1>a, CreationFacts
<1>b. /\ creating'.at = 10 /\ creating'.kind = creating.kind
      /\ Queue' = x
      /\ chans' = [chans EXCEPT ![x] = "open"]
      /\ poller' = [poller EXCEPT ![x] = "arm"]
      /\ managed' = managed \cup {x}
      /\ DOMAIN chans = Queues /\ DOMAIN poller = Queues
      /\ UNCHANGED <<res, done, isOpen>>
  BY <1>a, <1>x DEF StoreQueue, Queue, Inv0, TypeOK
<1>c. Advances(x)
  BY <1>a, <1>b DEF Advances, OthersKept, createFrame, StoreQueue, stopVars, destroyVars,
     userVars
<1>d. /\ res[x] = Alive(MadeBefore(creating.at)) /\ x \notin done
      /\ x[1] = cur /\ cur \in isOpen
  BY <1>a, <1>x, MakingFacts
<1>e. Whole(x)'
  <2>1. res'[x] = Objects
    BY <1>a, <1>b, <1>d, AliveEnds
  <2> QED BY <2>1, <1>b, <1>d DEF Whole, Usable
<1>f. MakingState(x)' /\ UndoingState(x)'
  BY <1>b, StepBounds DEF MakingState, Making, UndoingState, Undoing
<1>h. QueueState(x)'
  BY <1>a, <1>x, <1>c, <1>e, <1>f, MadeState
<1> QED BY <1>a, <1>x, <1>c, <1>d, <1>e, <1>h, AdvanceSafe

LEMMA PostRecvSlotSafe ==
  ASSUME Inv0, Safe, PostRecvSlot
  PROVE  Safe'
<1>a. creating.at \in 10..LastStep /\ creating.at > 0 /\ creating.at # UndoStep
  BY StepBounds DEF PostRecvSlot
<1>x. PICK x \in Queues : x = Queue
  BY <1>a, CreationFacts
<1>b. /\ creating'.at = creating.at + 1 /\ creating'.kind = creating.kind
      /\ Queue' = x
      /\ UNCHANGED <<res, chans, poller, done, managed, isOpen>>
  BY <1>x DEF PostRecvSlot, Queue, tableVars, objectVars, Inv0, TypeOK
<1>c. Advances(x)
  BY <1>a, <1>b, StepBounds DEF Advances, OthersKept, createFrame, PostRecvSlot,
     stopVars, destroyVars, tableVars, userVars, objectVars
<1>d. Whole(x) /\ (x \in done => poller[x] \notin Running)
  BY <1>a, <1>x, StepBounds, MakingFacts
<1>e. Whole(x)'
  BY <1>b, <1>d DEF Whole, Usable
<1>f. MakingState(x)' /\ UndoingState(x)'
  BY <1>a, <1>b, StepBounds DEF MakingState, Making, UndoingState, Undoing
<1>h. QueueState(x)'
  BY <1>a, <1>x, <1>c, <1>e, <1>f, MadeState
<1> QED BY <1>a, <1>x, <1>b, <1>c, <1>d, <1>e, <1>h, AdvanceSafe

(* The steps that start and end a creation.                                *)

LEMMA CreateQueuesSafe ==
  ASSUME Inv0, Safe, NEW r \in Rnics, CreateQueues(r)
  PROVE  Safe'
<1>a. /\ phase = "queues" /\ cur = NoRnic /\ destroying["start"] = <<>>
      /\ todo' \subseteq todo /\ r \notin todo'
      /\ UNCHANGED <<phase, undo, closing, left, destroying, step, isOpen, responding,
                     registered, managed, published, res, chans, poller, done>>
      /\ \/ cur' = r /\ r \in isOpen /\ creating'.at = 1 /\ creating'.kind = "sender"
         \/ UNCHANGED <<cur, creating>>
  BY DEF CreateQueues, CreateFrom, stopVars, destroyVars, tableVars, userVars, objectVars
<1>r. r \in todo
  BY DEF CreateQueues, First
<1>b. /\ creating.at = 0 /\ closing \in {"no", "prober"}
      /\ \A p \in Programs : destroying[p] = <<>> /\ step[p] = 0
      /\ \A p \in Programs : \A i : i \notin DOMAIN destroying[p]
  BY <1>a, Quiet DEF Programs
<1>c. /\ Sender(r) \in Queues /\ Responder(r) \in Queues
      /\ Sender(r)[1] = r /\ Responder(r)[1] = r /\ Sender(r) # Responder(r)
      /\ creating'.at = 1 => Queue' = Sender(r)
  BY <1>a, <1>b DEF Queue, Sender, Responder, Queues, Kinds
<1>d. \A q \in Queues : q[1] = r => Fresh(q)
  BY <1>a, <1>r DEF Untouched, Safe, QueueStates, QueueState
<1>e. \A q \in Queues : Settled(q) /\ (Whole(q) \/ Gone(q))
  BY <1>b, WholeOrGone
<1>f. \A q \in Queues : /\ Whole(q) <=> Whole(q)'
                        /\ Gone(q) <=> Gone(q)'
                        /\ Fresh(q) <=> Fresh(q)'
  BY <1>a DEF Whole, Gone, Fresh, Usable
<1>1. Control'
  BY <1>a, <1>b, RnicsAssumption DEF Safe, Control, Programs
<1>2. QueueStates'
  <2> SUFFICES ASSUME NEW q \in Queues PROVE QueueState(q)'
    BY DEF QueueStates
  <2>1. (\A p \in Programs : ~Dying(p, q)') /\ ~Undoing(q)'
    BY <1>a, <1>b, StepBounds DEF Dying, Undoing
  <2>2. MakingState(q)'
    <3> SUFFICES ASSUME Making(q)' PROVE MakingState(q)'
      BY DEF MakingState
    <3>1. creating'.at = 1 /\ q = Sender(r)
      BY <1>a, <1>b, <1>c DEF Making
    <3>2. Fresh(q) /\ res[q] = {}
      BY <3>1, <1>c, <1>d DEF Fresh, Gone
    <3> QED BY <3>1, <3>2, <1>a, AliveEnds DEF MakingState, Fresh, Gone
  <2>3. Untouched(q)' => Fresh(q)'
    <3>1. CASE Untouched(q)
      BY <3>1, <1>f DEF Safe, QueueStates, QueueState
    <3>2. CASE Untouched(q)' /\ ~Untouched(q)
      BY <3>2, <1>a, <1>b, <1>c, <1>d, <1>f DEF Untouched
    <3> QED BY <3>1, <3>2
  <2> QED BY <2>1, <2>2, <2>3, <1>e, <1>f DEF QueueState, UndoingState, DyingState
<1>3. CreatingState'
  BY <1>a, <1>b, <1>c, <1>d DEF CreatingState, Fresh
<1>4. StartDestroys'
  BY <1>a, <1>b DEF StartDestroys, Programs
<1>5. DoneState'
  BY <1>a, <1>b DEF Safe, DoneState
<1>6. ClosingState' /\ StopDestroys'
  BY <1>a, CreationFrame DEF createFrame
<1>7. PublishedState'
  <2>1. published \subseteq Queues
    BY DEF Inv0, TypeOK
  <2> QED BY <2>1, <1>a, <1>b, <1>f DEF Safe, PublishedState, Listed
<1> QED BY <1>1, <1>2, <1>3, <1>4, <1>5, <1>6, <1>7 DEF Safe

(* A creation that fails leaves whole queues to destroy, or none.          *)
LEMMA CreationEndsSafe ==
  ASSUME Inv0, Safe, UndoDone \/ PostRecvSlotFails
  PROVE  Safe'
<1>a. creating.at > 9 /\ creating.at > 0
  BY StepBounds DEF UndoDone, PostRecvSlotFails
<1>x. PICK x \in Queues : x = Queue
  BY <1>a, CreationFacts
<1>b. UNCHANGED <<phase, todo, closing, left, step, isOpen, responding, registered,
                  managed, published, res, chans, poller, done>>
  BY DEF UndoDone, PostRecvSlotFails, stopVars, tableVars, userVars, objectVars
<1>c. /\ phase = "queues" /\ closing \in {"no", "prober"} /\ cur \in Rnics
      /\ \A p \in Programs : destroying[p] = <<>> /\ step[p] = 0
      /\ \A p \in Programs : \A i : i \notin DOMAIN destroying[p]
      /\ creating.kind = "responder" =>
           Whole(Sender(cur)) /\ Sender(cur) \in Queues /\ x = Responder(cur)
      /\ Sender(cur) \notin published /\ Sender(cur) # Responder(cur) /\ x \notin published
  BY <1>a, <1>x, CreationFacts, Quiet DEF Safe, CreatingState
<1>d. /\ Whole(x) \/ (Gone(x) /\ UndoDone)
      /\ PostRecvSlotFails => Whole(x)
      /\ QueueState(x)
  <2>1. QueueState(x)
    BY <1>a, <1>x, MakingFacts
  <2>2. CASE PostRecvSlotFails
    <3>1. creating.at # UndoStep
      BY <2>2, StepBounds DEF PostRecvSlotFails
    <3> QED BY <3>1, <2>1, <2>2, <1>a, <1>x, MakingFacts
  <2>3. CASE UndoDone
    <3>1. /\ creating.at = UndoStep /\ undo = <<>>
          /\ chans[x] = "none" /\ poller[x] \notin Running
          /\ \E k \in 0..6 : undo = UndoOf(k) /\ res[x] = Alive(k)
      BY <2>3, <1>a, <1>x, MakingFacts DEF UndoDone
    <3>2. PICK k \in 0..6 : undo = UndoOf(k) /\ res[x] = Alive(k)
      BY <3>1
    <3>3. k = 0
      BY <3>1, <3>2, AliveUndo
    <3>4. Gone(x)
      BY <3>1, <3>2, <3>3, AliveEnds DEF Gone
    <3>5. ~PostRecvSlotFails
      BY <3>1, StepBounds DEF PostRecvSlotFails
    <3> QED BY <2>1, <2>3, <3>4, <3>5
  <2> QED BY <2>2, <2>3
<1>e. /\ destroying'["stop"] = destroying["stop"]
      /\ DOMAIN destroying'["start"] \subseteq {1, 2}
      /\ cur' = NoRnic /\ creating' = NotCreating /\ creating'.at = 0
      /\ \A i \in DOMAIN destroying'["start"] :
           \/ destroying'["start"][i] = x /\ Whole(x)
           \/ destroying'["start"][i] = Sender(cur) /\ creating.kind = "responder"
      /\ \A i \in DOMAIN destroying'["start"] :
           i # 1 => destroying'["start"][i] # destroying'["start"][1]
      /\ Whole(x) => \E i \in DOMAIN destroying'["start"] : destroying'["start"][i] = x
  <2>1. /\ cur \in Rnics /\ creating.kind \in Kinds
        /\ destroying \in [Programs -> Seq(Queues)]
    BY <1>c DEF Inv0, TypeOK
  <2>2. NotCreating.at = 0
    BY DEF NotCreating
  <2>3. CASE PostRecvSlotFails
    <3>1. CreationFails(<<Queue>>) /\ <<Queue>> # <<>> /\ Whole(x)
      BY <2>3, <1>d DEF PostRecvSlotFails
    <3>2. <<Queue>> \in Seq(Queues)
      BY <1>x
    <3>3. /\ destroying'["stop"] = destroying["stop"]
          /\ DOMAIN destroying'["start"] \subseteq {1, 2}
          /\ \A i \in DOMAIN destroying'["start"] :
               \/ destroying'["start"][i] = Queue
               \/ /\ destroying'["start"][i] = Sender(cur)
                  /\ creating.kind = "responder"
          /\ \A i \in DOMAIN destroying'["start"] : i # 1 =>
               /\ destroying'["start"][i] = Sender(cur)
               /\ destroying'["start"][1] = Queue
               /\ creating.kind = "responder"
          /\ cur' = NoRnic /\ creating' = NotCreating
          /\ \E i \in DOMAIN destroying'["start"] : destroying'["start"][i] = Queue
      BY <2>1, <3>1, <3>2, FailureLeaves
    <3> QED BY <2>2, <3>1, <3>3, <1>x, <1>c
  <2>4. CASE UndoDone /\ ~PostRecvSlotFails
    <3>1. CreationFails(<<>>) /\ <<>> \in Seq(Queues) /\ creating.at = UndoStep
      BY <2>4, EmptySeq DEF UndoDone
    <3>2. /\ destroying'["stop"] = destroying["stop"]
          /\ DOMAIN destroying'["start"] \subseteq {1, 2}
          /\ \A i \in DOMAIN destroying'["start"] :
               /\ destroying'["start"][i] = Sender(cur)
               /\ creating.kind = "responder"
          /\ \A i \in DOMAIN destroying'["start"] : i # 1 =>
               /\ destroying'["start"][i] = Sender(cur)
               /\ destroying'["start"][1] = Queue
               /\ creating.kind = "responder"
          /\ cur' = NoRnic /\ creating' = NotCreating
      BY <2>1, <3>1, FailureLeaves
    <3>3. ~Whole(x)
      BY <3>1, <1>a, <1>x, MakingFacts DEF Whole, Usable
    <3> QED BY <2>2, <3>2, <3>3, <1>x, <1>c
  <2> QED BY <2>3, <2>4
<1>f. \A q \in Queues : /\ Whole(q) <=> Whole(q)'
                        /\ Gone(q) <=> Gone(q)'
                        /\ Fresh(q) <=> Fresh(q)'
  BY <1>b DEF Whole, Gone, Fresh, Usable
<1>1. Control'
  BY <1>b, <1>c, <1>e DEF Safe, Control, Programs
<1>2. QueueStates'
  <2> SUFFICES ASSUME NEW q \in Queues PROVE QueueState(q)'
    BY DEF QueueStates
  <2>1. (\A p \in Programs : ~Dying(p, q)') /\ ~Undoing(q)' /\ ~Making(q)'
    BY <1>b, <1>c, <1>e, StepBounds DEF Dying, Undoing, Making
  <2>2. Untouched(q)' => Untouched(q)
    BY <1>b, <1>e DEF Untouched
  <2>3. Whole(q) \/ Gone(q)
    <3>1. CASE q = x
      BY <3>1, <1>d
    <3>2. CASE q # x
      <4>1. Settled(q)
        BY <3>2, <1>x, <1>c DEF Settled, Making, Undoing, Dying
      <4> QED BY <4>1 DEF Safe, QueueStates, QueueState
    <3> QED BY <3>1, <3>2
  <2>4. Untouched(q)' => Fresh(q)'
    BY <2>2, <1>f DEF Safe, QueueStates, QueueState
  <2> QED BY <2>1, <2>3, <2>4, <1>f DEF QueueState, MakingState, UndoingState, DyingState
<1>3. CreatingState'
  BY <1>e DEF CreatingState
<1>4. StartDestroys'
  <2>1. PICK s : s = Sender(cur)
    OBVIOUS
  <2>2. /\ Whole(x) => Whole(x)' /\ x \in managed
        /\ creating.kind = "responder" => Whole(s)' /\ s \in managed
    BY <2>1, <1>c, <1>f DEF Whole
  <2>3. step'["start"] = 0
    BY <1>b, <1>c DEF Programs
  <2> QED BY <2>1, <2>2, <2>3, <1>b, <1>c, <1>e DEF StartDestroys
<1>5. DoneState'
  BY <1>b, <1>c DEF Safe, DoneState
<1>6. ClosingState' /\ StopDestroys'
  BY <1>b, <1>c, <1>e, CreationFrame DEF createFrame
<1>7. PublishedState'
  <2>1. published \subseteq Queues
    BY DEF Inv0, TypeOK
  <2>2. \A q : ~Listed("start", q)
    BY <1>c DEF Listed, Programs
  <2>3. Whole(x) => Listed("start", x)'
    BY <1>e DEF Listed
  <2>4. Gone(x) => res[x] = {}
    BY DEF Gone
  <2> QED BY <2>1, <2>2, <2>3, <2>4, <1>x, <1>b, <1>c, <1>d, <1>f DEF Safe, PublishedState
<1> QED BY <1>1, <1>2, <1>3, <1>4, <1>5, <1>6, <1>7 DEF Safe

LEMMA QueueCreatedSafe ==
  ASSUME Inv0, Safe, QueueCreated
  PROVE  Safe'
<1>a. creating.at > 9 /\ creating.at > 0 /\ creating.at # UndoStep
  BY StepBounds DEF QueueCreated
<1>x. PICK x \in Queues : x = Queue
  BY <1>a, CreationFacts
<1>b. UNCHANGED <<phase, todo, closing, left, destroying, step, isOpen, responding,
                  registered, managed, res, chans, poller, done>>
  BY DEF QueueCreated, stopVars, destroyVars, userVars, objectVars
<1>c. \/ /\ creating.kind = "sender" /\ creating'.at = 1
         /\ creating'.kind = "responder" /\ UNCHANGED <<cur, published>>
      \/ /\ creating.kind = "responder" /\ creating'.at = 0 /\ cur' = NoRnic
         /\ published' = published \cup {Sender(cur), Responder(cur)}
  BY DEF QueueCreated, CreateFrom, NotCreating
<1>d. /\ Whole(x)
      /\ creating.kind = "responder" => x = Responder(cur) /\ Whole(Sender(cur))
      /\ creating.kind = "sender" => x = Sender(cur) /\ x # Responder(cur)
      /\ Sender(cur) \notin published /\ Responder(cur) \notin published
  BY <1>a, <1>x, CreationFacts DEF Safe, CreatingState
<1>e. /\ phase = "queues" /\ closing \in {"no", "prober"}
      /\ cur \notin todo /\ cur \in isOpen /\ cur \in Rnics
      /\ Sender(cur) \in Queues /\ Responder(cur) \in Queues
      /\ Sender(cur)[1] = cur /\ Responder(cur)[1] = cur
      /\ \A p \in Programs : destroying[p] = <<>> /\ step[p] = 0
      /\ \A p \in Programs : \A i : i \notin DOMAIN destroying[p]
  BY <1>a, CreationFacts, Quiet DEF Sender, Responder
<1>f. \A q \in Queues : (Whole(q) <=> Whole(q)') /\ (Gone(q) <=> Gone(q)')
  BY <1>b DEF Whole, Gone, Usable
<1>1. Control'
  BY <1>b, <1>c, <1>e DEF Safe, Control, Programs
<1>2. QueueStates'
  <2> SUFFICES ASSUME NEW q \in Queues PROVE QueueState(q)'
    BY DEF QueueStates
  <2>1. (\A p \in Programs : ~Dying(p, q)') /\ ~Undoing(q)' /\ ~Making(q)
    BY <1>a, <1>b, <1>c, <1>e, StepBounds DEF Dying, Undoing, Making
  <2>2. Untouched(q)' => Untouched(q) /\ q \notin {Sender(cur), Responder(cur)}
    BY <1>b, <1>c, <1>e DEF Untouched
  <2>3. MakingState(q)'
    <3> SUFFICES ASSUME Making(q)' PROVE MakingState(q)'
      BY DEF MakingState
    <3>1. creating.kind = "sender" /\ q = Responder(cur) /\ creating'.at = 1
      BY <1>c DEF Making, Queue, Responder
    <3>2. Fresh(q) /\ res[q] = {}
      BY <3>1, <1>a DEF Safe, QueueStates, QueueState, Untouched, Fresh, Gone
    <3> QED BY <3>1, <3>2, <1>b, AliveEnds DEF MakingState, Fresh, Gone
  <2>4. Whole(q) \/ Gone(q)
    <3>1. CASE q = x
      BY <3>1, <1>d
    <3>2. CASE q # x
      <4>1. Settled(q)
        BY <3>2, <1>x, <1>e DEF Settled, Making, Undoing, Dying
      <4> QED BY <4>1 DEF Safe, QueueStates, QueueState
    <3> QED BY <3>1, <3>2
  <2>5. Untouched(q)' => Fresh(q)'
    BY <2>2, <1>b, <1>c, <1>f DEF Safe, QueueStates, QueueState, Fresh
  <2> QED BY <2>1, <2>3, <2>4, <2>5, <1>f DEF QueueState, UndoingState, DyingState
<1>3. CreatingState'
  <2>1. CASE creating.kind = "sender"
    <3>1. PICK s \in Queues : s = Sender(cur)
      BY <1>e
    <3>2. Whole(s)'
      BY <2>1, <3>1, <1>d, <1>f
    <3> QED BY <2>1, <3>1, <3>2, <1>c, <1>d DEF CreatingState
  <2>2. CASE creating.kind # "sender"
    BY <2>2, <1>c DEF CreatingState
  <2> QED BY <2>1, <2>2
<1>4. StartDestroys'
  BY <1>b, <1>e DEF StartDestroys, Programs
<1>5. DoneState'
  BY <1>b, <1>e DEF Safe, DoneState
<1>6. ClosingState' /\ StopDestroys'
  BY <1>b, <1>e, CreationFrame DEF createFrame
<1>7. PublishedState'
  <2>1. published \subseteq Queues
    BY DEF Inv0, TypeOK
  <2>2. \A q : ~Listed("start", q)
    BY <1>e DEF Listed, Programs
  <2>3. CASE creating.kind = "sender"
    <3>1. x[2] = "sender"
      BY <2>3, <1>d DEF Sender
    <3> QED BY <2>1, <2>2, <2>3, <3>1, <1>x, <1>b, <1>c, <1>e, <1>f DEF Safe, PublishedState, Up
  <2>4. CASE creating.kind = "responder"
    BY <2>1, <2>2, <2>4, <1>x, <1>b, <1>c, <1>d, <1>e, <1>f DEF Safe, PublishedState, Up
  <2> QED BY <2>3, <2>4, <1>c
<1> QED BY <1>1, <1>2, <1>3, <1>4, <1>5, <1>6, <1>7 DEF Safe

-----------------------------------------------------------------------------
(* The steps of Destroy.                                                   *)

destroyFrame == <<phase, todo, cur, creating, undo, closing, left, isOpen, managed,
                  published, responding, registered>>

(* Up to the closing of the channels the objects are untouched.            *)
StopMoves(p) ==
  /\ UNCHANGED <<destroyFrame, destroying, res, chans, poller>>
  /\ \/ /\ step[p] = 0 /\ step' = [step EXCEPT ![p] = 1]
        /\ \/ done' = done
           \/ done' = done \cup {Victim(p)}
     \/ /\ step[p] = 1 /\ step' = [step EXCEPT ![p] = 2]
        /\ poller[Victim(p)] \notin Running
        /\ done' = done

LEMMA StopMovesSafe ==
  ASSUME Inv0, Safe, NEW p \in Programs, destroying[p] # <<>>, StopMoves(p)
  PROVE  Safe'
<1>a. UNCHANGED <<phase, todo, cur, creating, undo, closing, left, isOpen, managed,
                  published, responding, registered, destroying, res, chans, poller>>
  BY DEF StopMoves, destroyFrame
<1>v. PICK v \in Queues : v = Victim(p)
  BY DestructionFacts
<1>b. /\ step[p] \in {0, 1} /\ step'[p] = step[p] + 1
      /\ step'[p] = 2 => poller[v] \notin Running
      /\ \A o \in Programs : o # p => step'[o] = step[o] /\ step[o] = 0 /\ destroying[o] = <<>>
      /\ done' \subseteq done \cup {v}
      /\ step'[p] = 2 => done' = done
      /\ done \subseteq done'
  BY <1>v, DestructionFacts DEF StopMoves, Inv0, TypeOK
<1>c. creating.at = 0 /\ v \in managed /\ Listed(p, v)
  BY <1>v, DestructionFacts
<1>d. /\ \A q \in Queues : Settled(q) /\ (Whole(q) \/ Gone(q))
      /\ \A q \in Queues : ~Making(q)' /\ ~Undoing(q)' /\ \A o \in Programs : ~Dying(o, q)'
  <2>1. \A q \in Queues : ~Making(q) /\ ~Undoing(q)
    BY DestructionFacts
  <2>2. \A q \in Queues : \A o \in Programs : ~Dying(o, q) /\ ~Dying(o, q)'
    BY <1>b DEF Dying
  <2>3. \A q \in Queues : ~Making(q)' /\ ~Undoing(q)'
    BY <1>a, <1>c, StepBounds DEF Making, Undoing
  <2> QED BY <2>1, <2>2, <2>3 DEF Safe, QueueStates, QueueState, Settled
<1>e. \A q \in Queues : (Whole(q) <=> Whole(q)') /\ (Gone(q) <=> Gone(q)')
  BY <1>a DEF Whole, Gone, Usable
<1>f. \A o \in Programs : Victim(o)' = Victim(o)
  BY <1>a DEF Victim
<1>g. ~Untouched(v)
  <2>1. p = "start" => Whole(v)
    BY <1>b, <1>v, DestructionFacts DEF Safe, StartDestroys
  <2>2. Whole(v) => ~Gone(v)
    BY DEF Whole, Gone, Usable
  <2>3. Untouched(v) => Gone(v)
    BY DEF Safe, QueueStates, QueueState, Fresh
  <2>4. p = "stop" => ~Untouched(v)
    BY <1>c, DestructionFacts DEF Untouched, Up
  <2> QED BY <2>1, <2>2, <2>3, <2>4 DEF Programs
<1>1. Control'
  <2>1. \A o \in Programs : step'[o] > 0 => destroying'[o] # <<>>
    BY <1>a, <1>b
  <2> QED BY <2>1, <1>a DEF Safe, Control
<1>2. QueueStates'
  <2> SUFFICES ASSUME NEW q \in Queues PROVE QueueState(q)'
    BY DEF QueueStates
  <2>1. Untouched(q)' => Untouched(q)
    BY <1>a DEF Untouched
  <2>2. Untouched(q)' => Fresh(q)'
    BY <2>1, <1>a, <1>b, <1>e, <1>g DEF Safe, QueueStates, QueueState, Fresh
  <2> QED BY <2>2, <1>d, <1>e DEF QueueState, MakingState, UndoingState, DyingState
<1>3. CreatingState'
  BY <1>a, <1>c DEF CreatingState
<1>4. StartDestroys'
  <2>1. CASE p = "start"
    <3>1. /\ step["start"] < 3 /\ step'["start"] < 3
          /\ step'["start"] = 2 => poller[v] \notin Running
          /\ v = Victim("start") /\ Victim("start")' = Victim("start")
      BY <2>1, <1>b, <1>v, <1>f DEF Programs
    <3>2. \A i \in DOMAIN destroying["start"] : destroying["start"][i] \in Queues
      BY <2>1, DestructionFacts
    <3> QED BY <3>1, <3>2, <1>a, <1>e DEF Safe, StartDestroys
  <2>2. CASE p = "stop"
    <3>1. step'["start"] = 0 /\ destroying["start"] = <<>>
      BY <2>2, <1>b DEF Programs
    <3> QED BY <3>1, <1>a, EmptyDomain DEF StartDestroys
  <2> QED BY <2>1, <2>2 DEF Programs
<1>5. StopDestroys'
  <2>1. CASE p = "stop"
    <3>1. /\ step["stop"] < 3 /\ step'["stop"] < 3
          /\ step'["stop"] = 2 => poller[v] \notin Running
          /\ v = Victim("stop") /\ Victim("stop")' = Victim("stop")
      BY <2>1, <1>b, <1>v, <1>f DEF Programs
    <3> QED BY <3>1, <1>a, <1>e DEF Safe, StopDestroys
  <2>2. CASE p = "start"
    <3>1. step'["stop"] = 0 /\ destroying["stop"] = <<>>
      BY <2>2, <1>b DEF Programs
    <3> QED BY <3>1, <1>a, EmptyDomain DEF StopDestroys
  <2> QED BY <2>1, <2>2 DEF Programs
<1>6. DoneState'
  <2>1. CASE step'[p] = 1
    <3>1. \A q \in done : poller[q] \notin Running
      BY <2>1, <1>b DEF Safe, DoneState
    <3>2. Victim(p)' = v /\ destroying'[p] # <<>>
      BY <1>a, <1>f, <1>v
    <3> QED BY <2>1, <3>1, <3>2, <1>a, <1>b DEF DoneState
  <2>2. CASE step'[p] = 2
    <3>1. \A q \in done : poller[q] \in Running => q = v
      BY <1>b, <1>v DEF Safe, DoneState
    <3> QED BY <2>2, <3>1, <1>a, <1>b DEF DoneState
  <2> QED BY <2>1, <2>2, <1>b
<1>7. ClosingState'
  BY <1>a, <1>e DEF Safe, ClosingState, Listed
<1>8. PublishedState'
  <2>1. published \subseteq Queues
    BY DEF Inv0, TypeOK
  <2> QED BY <2>1, <1>a, <1>c, <1>e DEF Safe, PublishedState, Listed
<1> QED BY <1>1, <1>2, <1>3, <1>4, <1>5, <1>6, <1>7, <1>8 DEF Safe

(* From there on only the victim v changes.                                *)
VictimChanges(p, v) ==
  /\ UNCHANGED <<destroyFrame, poller, done>>
  /\ \A q \in Queues : q # v => res'[q] = res[q] /\ chans'[q] = chans[q]
  /\ \A o \in Programs : o # p => step'[o] = step[o] /\ destroying'[o] = destroying[o]

(* Before and after such a step v is whole, dying or gone, and no other    *)
(* queue is dying.                                                         *)
LEMMA VictimSafe ==
  ASSUME Inv0, Safe, NEW p \in Programs, destroying[p] # <<>>, step[p] >= 2,
         NEW v \in Queues, v = Victim(p), VictimChanges(p, v),
         ~Untouched(v), p = "start" => v \notin published,
         \/ /\ destroying' = destroying /\ step'[p] \in 3..9
            /\ DyingState(p, v)'
         \/ /\ destroying'[p] = Tail(destroying[p]) /\ step'[p] = 0
            /\ Gone(v)'
  PROVE  Safe'
<1>a. /\ UNCHANGED <<phase, todo, cur, creating, undo, closing, left, isOpen, managed,
                     published, responding, registered, poller, done>>
      /\ \A q \in Queues : q # v => res'[q] = res[q] /\ chans'[q] = chans[q]
      /\ \A o \in Programs : o # p => step'[o] = step[o] /\ destroying'[o] = destroying[o]
  BY DEF VictimChanges, destroyFrame
<1>b. /\ creating.at = 0 /\ v \in managed
      /\ \A o \in Programs : o # p => destroying[o] = <<>> /\ step[o] = 0
      /\ \A o \in Programs : o # p => \A i : i \notin DOMAIN destroying[o]
      /\ destroying[p] \in Seq(Queues) /\ destroying[p][1] = v /\ 1 \in DOMAIN destroying[p]
      /\ p = "start" => phase = "queues" /\ closing \in {"no", "prober"}
      /\ p = "stop" => closing = "queues" /\ phase \in Up /\ v \notin left
  BY DestructionFacts, Quiet
<1>c. \A q \in Queues : q # v =>
        /\ Whole(q) <=> Whole(q)'
        /\ Gone(q) <=> Gone(q)'
        /\ Fresh(q) <=> Fresh(q)'
  BY <1>a DEF Whole, Gone, Fresh, Usable
<1>d. /\ \A q \in Queues : ~Making(q)' /\ ~Undoing(q)' /\ ~Making(q) /\ ~Undoing(q)
      /\ \A q \in Queues : \A o \in Programs : o # p => ~Dying(o, q)' /\ ~Dying(o, q)
      /\ \A q \in Queues : q # v => ~Dying(p, q) /\ ~Dying(p, q)'
  <2>1. \A q \in Queues : ~Making(q)' /\ ~Undoing(q)' /\ ~Making(q) /\ ~Undoing(q)
    BY <1>a, <1>b, StepBounds DEF Making, Undoing
  <2>2. \A q \in Queues : \A o \in Programs : o # p => ~Dying(o, q)' /\ ~Dying(o, q)
    BY <1>a, <1>b DEF Dying
  <2>3. destroying' = destroying => Victim(p)' = v
    BY DEF Victim
  <2>4. \A q \in Queues : q # v => ~Dying(p, q) /\ ~Dying(p, q)'
    BY <2>3 DEF Dying
  <2> QED BY <2>1, <2>2, <2>4
<1>e. /\ \A i \in DOMAIN destroying'[p] :
           \/ destroying' = destroying /\ i \in DOMAIN destroying[p]
                /\ destroying'[p][i] = destroying[p][i] /\ step'[p] \in 3..9
           \/ /\ i + 1 \in DOMAIN destroying[p] /\ step'[p] = 0
              /\ destroying'[p][i] = destroying[p][i + 1] /\ i + 1 # 1
      /\ destroying'[p] = <<>> => step'[p] = 0
  <2>1. CASE destroying' = destroying /\ step'[p] \in 3..9
    BY <2>1
  <2>2. CASE destroying'[p] = Tail(destroying[p]) /\ step'[p] = 0
    <3>1. PICK s \in Seq(Queues) : s = destroying[p]
      BY <1>b
    <3>2. \A i \in DOMAIN Tail(s) : i + 1 \in DOMAIN s /\ Tail(s)[i] = s[i + 1] /\ i + 1 # 1
      BY <3>1
    <3> QED BY <2>2, <3>1, <3>2
  <2> QED BY <2>1, <2>2
<1>f. \A q \in Queues : Listed(p, q) /\ q # v => Listed(p, q)'
  <2>1. CASE destroying' = destroying
    BY <2>1 DEF Listed
  <2>2. CASE destroying'[p] = Tail(destroying[p])
    <3>1. PICK s \in Seq(Queues) : s = destroying[p]
      BY <1>b
    <3>2. \A i \in DOMAIN s : i # 1 => i - 1 \in DOMAIN Tail(s) /\ Tail(s)[i - 1] = s[i]
      BY <3>1
    <3> SUFFICES ASSUME NEW q \in Queues, Listed(p, q), q # v PROVE Listed(p, q)'
      OBVIOUS
    <3>3. PICK i \in DOMAIN s : s[i] = q
      BY <3>1 DEF Listed
    <3>4. i # 1
      BY <3>1, <3>3, <1>b
    <3>5. PICK j \in DOMAIN Tail(s) : Tail(s)[j] = q
      BY <3>2, <3>3, <3>4
    <3> QED BY <2>2, <3>1, <3>5 DEF Listed
  <2> QED BY <2>1, <2>2
<1>g. \A i \in DOMAIN destroying[p] : i # 1 /\ p = "start" => destroying[p][i] # v
  BY <1>b DEF Safe, StartDestroys
<1>1. Control'
  <2>1. \A o \in Programs : step'[o] > 0 => destroying'[o] # <<>>
    BY <1>a, <1>b, <1>e
  <2>2. /\ destroying'["start"] # <<>> => phase = "queues"
        /\ destroying'["stop"] # <<>> => closing = "queues"
    BY <1>a, <1>b DEF Programs
  <2> QED BY <2>1, <2>2, <1>a, <1>b DEF Safe, Control
<1>2. QueueStates'
  <2> SUFFICES ASSUME NEW q \in Queues PROVE QueueState(q)'
    BY DEF QueueStates
  <2>1. Untouched(q)' => Untouched(q) /\ q # v
    BY <1>a, <1>b DEF Untouched
  <2>2. Untouched(q)' => Fresh(q)'
    BY <2>1, <1>c DEF Safe, QueueStates, QueueState
  <2>3. CASE q # v
    <3>1. Settled(q)
      BY <2>3, <1>d DEF Settled
    <3> QED BY <2>2, <2>3, <3>1, <1>c, <1>d
            DEF Safe, QueueStates, QueueState, MakingState, UndoingState, DyingState
  <2>4. CASE q = v
    <3>1. CASE destroying' = destroying /\ step'[p] \in 3..9 /\ DyingState(p, v)'
      <4>1. Dying(p, v)'
        BY <3>1 DEF Dying, Victim
      <4> QED BY <2>2, <2>4, <3>1, <4>1, <1>d
              DEF QueueState, MakingState, UndoingState, DyingState, Settled
    <3>2. CASE step'[p] = 0 /\ Gone(v)'
      <4>1. ~Dying(p, v)'
        BY <3>2 DEF Dying
      <4> QED BY <2>2, <2>4, <3>2, <4>1, <1>d
              DEF QueueState, MakingState, UndoingState, DyingState
    <3> QED BY <3>1, <3>2
  <2> QED BY <2>3, <2>4
<1>3. CreatingState'
  BY <1>a, <1>b DEF CreatingState
<1>4. StartDestroys'
  <2>1. CASE p = "start"
    <3>1. \A i \in DOMAIN destroying["start"] :
            i # 1 => /\ destroying["start"][i] \in Queues
                     /\ destroying["start"][i] # v
                     /\ Whole(destroying["start"][i])
      BY <2>1, <1>b, <1>g DEF Safe, StartDestroys
    <3>2. \A i \in DOMAIN destroying["start"] :
            /\ destroying["start"][i] \in managed
            /\ destroying["start"][i] \notin published
            /\ i # 1 => destroying["start"][i] # destroying["start"][1]
      BY DEF Safe, StartDestroys
    <3>3. step'["start"] # 2 /\ DOMAIN destroying["start"] \subseteq {1, 2}
      BY <2>1 DEF Safe, StartDestroys
    <3>4. CASE destroying' = destroying /\ step'[p] \in 3..9
      BY <2>1, <3>1, <3>2, <3>3, <3>4, <1>a, <1>c DEF StartDestroys
    <3>5. CASE destroying'[p] = Tail(destroying[p]) /\ step'[p] = 0
      <4>0. \A i \in DOMAIN destroying'["start"] :
              i = 1 /\ destroying'["start"][i] = destroying["start"][2] /\ 2 \in DOMAIN destroying["start"]
        <5>1. DOMAIN destroying["start"] \subseteq {1, 2}
          BY DEF Safe, StartDestroys
        <5>2. PICK s \in Seq(Queues) : s = destroying["start"]
          BY <2>1, <1>b
        <5>3. \A i \in DOMAIN Tail(s) : i + 1 \in DOMAIN s /\ Tail(s)[i] = s[i + 1] /\ i \in Nat \ {0}
          BY <5>2
        <5>4. \A i \in DOMAIN Tail(s) : i = 1 /\ Tail(s)[i] = s[2] /\ 2 \in DOMAIN s
          BY <5>1, <5>2, <5>3
        <5> QED BY <2>1, <3>5, <5>2, <5>4
      <4>1. DOMAIN destroying'["start"] \subseteq {1, 2}
        BY <4>0
      <4> QED BY <2>1, <3>1, <3>2, <3>3, <3>5, <4>0, <4>1, <1>a, <1>c DEF StartDestroys
    <3> QED BY <3>4, <3>5
  <2>2. CASE p = "stop"
    <3>1. step'["start"] = 0 /\ \A i : i \notin DOMAIN destroying'["start"]
      BY <2>2, <1>a, <1>b DEF Programs
    <3> QED BY <3>1 DEF StartDestroys
  <2> QED BY <2>1, <2>2 DEF Programs
<1>5. StopDestroys'
  <2>1. CASE p = "stop"
    <3>1. \A i \in DOMAIN destroying["stop"] :
             i = 1 /\ destroying["stop"][i] \in managed /\ destroying["stop"][i] \notin left
      BY DEF Safe, StopDestroys
    <3>2. step'["stop"] # 2
      BY <2>1
    <3>3. destroying'["stop"] # <<>> => step'["stop"] \in 3..9
      <4>1. CASE destroying'["stop"] = Tail(destroying["stop"])
        <5>1. PICK s \in Seq(Queues) : s = destroying["stop"]
          BY <2>1, <1>b
        <5>2. s # <<>> /\ \A i \in DOMAIN s : i = 1
          BY <5>1, <3>1, <2>1
        <5>3. Tail(s) = <<>>
          BY <5>1, <5>2, SingleTail
        <5> QED BY <4>1, <5>1, <5>3
      <4> QED BY <4>1, <2>1
    <3> QED BY <2>1, <3>1, <3>2, <3>3, <1>a, <1>e DEF StopDestroys
  <2>2. CASE p = "start"
    <3>1. /\ step'["stop"] = 0 /\ destroying'["stop"] = <<>>
          /\ \A i : i \notin DOMAIN destroying'["stop"]
      BY <2>2, <1>a, <1>b DEF Programs
    <3> QED BY <3>1 DEF StopDestroys
  <2> QED BY <2>1, <2>2 DEF Programs
<1>6. DoneState'
  <2>1. \A q \in done : poller[q] \notin Running
    BY <1>b DEF Safe, DoneState
  <2> QED BY <2>1, <1>a DEF DoneState
<1>7. ClosingState'
  <2>1. CASE p = "start"
    BY <2>1, <1>a, <1>b DEF ClosingState
  <2>2. CASE p = "stop"
    <3>1. \A q \in Queues : q \in left => q # v
      BY <2>2, <1>b
    <3>2. Listed("stop", v)' \/ Gone(v)'
      <4>1. destroying' = destroying => Listed("stop", v)'
        BY <2>2, <1>b DEF Listed
      <4> QED BY <4>1
    <3>3. \A q \in Queues : q # v /\ Listed("stop", q) => Listed("stop", q)'
      BY <2>2, <1>f
    <3> QED BY <2>2, <3>1, <3>2, <3>3, <1>a, <1>b, <1>c DEF Safe, ClosingState
  <2> QED BY <2>1, <2>2 DEF Programs
<1>8. PublishedState'
  <2>0. published \subseteq Queues /\ "queues" \notin Up
    BY DEF Inv0, TypeOK, Up
  <2>1. CASE p = "start"
    <3>1. v \notin published
      BY <2>1
    <3>2. Listed("start", v)' \/ res'[v] = {}
      <4>1. destroying' = destroying => Listed("start", v)'
        BY <2>1, <1>b DEF Listed
      <4> QED BY <4>1 DEF Gone
    <3>3. \A q \in Queues : q # v /\ Listed("start", q) => Listed("start", q)'
      BY <2>1, <1>f
    <3> QED BY <2>0, <2>1, <3>1, <3>2, <3>3, <1>a, <1>b, <1>c DEF Safe, PublishedState
  <2>2. CASE p = "stop"
    BY <2>2, <1>a, <1>b DEF Safe, PublishedState
  <2> QED BY <2>1, <2>2 DEF Programs
<1> QED BY <1>1, <1>2, <1>3, <1>4, <1>5, <1>6, <1>7, <1>8 DEF Safe

LEMMA DestroySafe ==
  ASSUME Inv0, Safe, NEW p \in Programs, Destroy(p)
  PROVE  Safe' \/ UNCHANGED safeVars
<1>a. destroying[p] # <<>>
  BY Zenon DEF Destroy, StopCQPoller, PollerStopped, CloseChannels, ReleaseNext
<1>v. PICK v \in Queues : v = Victim(p)
  BY <1>a, DestructionFacts
<1>f. v \in managed /\ (p = "start" => v \notin published)
  BY <1>a, <1>v, DestructionFacts
<1>t. /\ step \in [Programs -> 0..9] /\ destroying \in [Programs -> Seq(Queues)]
      /\ res \in [Queues -> SUBSET Objects]
      /\ chans \in [Queues -> {"none", "open", "closed"}]
  BY DEF Inv0, TypeOK
<1>1. CASE StopCQPoller(p)
  <2>1. \/ UNCHANGED <<done, step>>
        \/ /\ \/ done' = done
              \/ done' = done \cup {Victim(p)}
           /\ step' = [step EXCEPT ![p] = 1]
    BY <1>1, Zenon DEF StopCQPoller
  <2>2. /\ step[p] = 0
        /\ UNCHANGED <<startVars, stopVars, destroying, tableVars, userVars, isOpen, res,
                       chans, poller>>
    BY <1>1, Zenon DEF StopCQPoller
  <2>3. UNCHANGED <<done, step>> => UNCHANGED safeVars
    BY <2>2 DEF safeVars, destroyVars, userVars, objectVars
  <2>4. UNCHANGED <<done, step>> \/ StopMoves(p)
    BY <2>1, <2>2 DEF StopMoves, destroyFrame, startVars, stopVars, tableVars, userVars
  <2> QED BY <2>3, <2>4, <1>a, StopMovesSafe
<1>2. CASE PollerStopped(p)
  <2>1. StopMoves(p)
    BY <1>2 DEF PollerStopped, StopMoves, destroyFrame, startVars, stopVars, tableVars,
       userVars, objectVars
  <2> QED BY <2>1, <1>a, StopMovesSafe
<1>3. CASE CloseChannels(p)
  <2>1. \/ UNCHANGED <<chans, step>>
        \/ /\ chans[Victim(p)] = "open"
           /\ chans' = [chans EXCEPT ![Victim(p)] = "closed"]
           /\ step' = [step EXCEPT ![p] = 3]
    BY <1>3, Zenon DEF CloseChannels
  <2>2. /\ step[p] = 2
        /\ UNCHANGED <<startVars, stopVars, destroying, tableVars, userVars, isOpen, res,
                       poller, done>>
    BY <1>3, Zenon DEF CloseChannels
  <2>3. CASE UNCHANGED <<chans, step>>
    BY <2>2, <2>3 DEF safeVars, destroyVars, userVars, objectVars
  <2>4. CASE ~UNCHANGED <<chans, step>>
    <3>1. /\ chans[v] = "open"
          /\ chans' = [chans EXCEPT ![v] = "closed"]
          /\ step' = [step EXCEPT ![p] = 3]
      BY <2>1, <2>4, <1>v
    <3>2. Whole(v) /\ ~Untouched(v) /\ poller[v] \notin Running
      <4>1. Settled(v)
        <5>1. ~Making(v) /\ ~Undoing(v)
          BY <1>a, DestructionFacts
        <5>2. \A o \in Programs : ~Dying(o, v)
          BY <1>a, <2>2, DestructionFacts DEF Dying
        <5> QED BY <5>1, <5>2 DEF Settled
      <4>2. ~Gone(v)
        BY <3>1 DEF Gone
      <4>3. Whole(v) /\ ~Untouched(v)
        BY <4>1, <4>2 DEF Safe, QueueStates, QueueState, Fresh
      <4>4. p = "start" \/ p = "stop"
        BY DEF Programs
      <4>5. poller[v] \notin Running
        BY <4>4, <2>2, <1>v DEF Safe, StartDestroys, StopDestroys
      <4> QED BY <4>3, <4>5
    <3>3. /\ step'[p] = 3 /\ \A o \in Programs : o # p => step'[o] = step[o]
          /\ chans'[v] = "closed"
          /\ \A q \in Queues : q # v => chans'[q] = chans[q]
      BY <3>1, <1>t
    <3>4. VictimChanges(p, v)
      BY <2>2, <3>3 DEF VictimChanges, destroyFrame, startVars, stopVars, tableVars, userVars
    <3>5. DyingState(p, v)'
      <4>1. Alive(10 - 3) = Objects
        BY AliveEnds
      <4>2. res'[v] = Objects /\ v[1] \in isOpen
        BY <2>2, <3>2 DEF Whole, Usable
      <4> QED BY <4>1, <4>2, <2>2, <3>2, <3>3 DEF DyingState
    <3>6. destroying' = destroying /\ step[p] >= 2 /\ step'[p] \in 3..9
      BY <2>2, <3>3
    <3> QED BY <1>a, <1>v, <1>f, <3>2, <3>4, <3>5, <3>6, VictimSafe
  <2> QED BY <2>3, <2>4
<1>4. CASE ReleaseNext(p)
  <2>1. /\ step[p] \in 3..9
        /\ res' = [res EXCEPT ![v] = @ \ {ReleaseOrder[step[p] - 2]}]
        /\ step' = [step EXCEPT ![p] = IF @ = 9 THEN 0 ELSE @ + 1]
        /\ destroying' = [destroying EXCEPT ![p] = IF step[p] = 9 THEN Tail(@) ELSE @]
        /\ UNCHANGED <<startVars, stopVars, tableVars, userVars, isOpen, chans, poller, done>>
    BY <1>4, <1>v DEF ReleaseNext
  <2>2. /\ res[v] = Alive(10 - step[p]) /\ chans[v] = "closed"
        /\ poller[v] \notin Running /\ v[1] \in isOpen
    <3>1. Dying(p, v)
      BY <2>1, <1>a, <1>v DEF Dying
    <3> QED BY <3>1 DEF Safe, QueueStates, QueueState, DyingState
  <2>3. /\ res'[v] = Alive(9 - step[p])
        /\ \A q \in Queues : q # v => res'[q] = res[q]
        /\ \A o \in Programs : o # p => step'[o] = step[o] /\ destroying'[o] = destroying[o]
    <3>1. PICK s \in 3..9 : s = step[p]
      BY <2>1
    <3>2. Alive(10 - s) \ {ReleaseOrder[s - 2]} = Alive(9 - s)
      BY AliveLeft
    <3>3. res'[v] = res[v] \ {ReleaseOrder[step[p] - 2]}
      BY <2>1, <1>t
    <3>4. \A q \in Queues : q # v => res'[q] = res[q]
      BY <2>1, <1>t
    <3>5. \A o \in Programs : o # p => step'[o] = step[o] /\ destroying'[o] = destroying[o]
      BY <2>1, <1>t
    <3> QED BY <2>2, <3>1, <3>2, <3>3, <3>4, <3>5
  <2>4. VictimChanges(p, v)
    BY <2>1, <2>3 DEF VictimChanges, destroyFrame, startVars, stopVars, tableVars, userVars
  <2>5. ~Untouched(v)
    BY <2>2 DEF Safe, QueueStates, QueueState, Fresh
  <2>6. step[p] >= 2
    BY <2>1
  <2>7. CASE step[p] = 9
    <3>1. destroying'[p] = Tail(destroying[p]) /\ step'[p] = 0
      BY <2>1, <2>7, <1>t
    <3>2. res'[v] = Alive(0)
      BY <2>3, <2>7
    <3>3. Gone(v)'
      BY <2>1, <2>2, <3>2, AliveEnds DEF Gone
    <3> QED BY <1>a, <1>v, <1>f, <2>4, <2>5, <2>6, <3>1, <3>3, VictimSafe
  <2>8. CASE step[p] # 9
    <3>1. destroying' = destroying /\ step'[p] = step[p] + 1 /\ step'[p] \in 3..9
      BY <2>1, <2>8, <1>t
    <3>2. res'[v] = Alive(10 - step'[p])
      <4>1. 10 - step'[p] = 9 - step[p]
        BY <2>1, <3>1
      <4> QED BY <4>1, <2>3
    <3>3. DyingState(p, v)'
      BY <2>1, <2>2, <3>2 DEF DyingState
    <3> QED BY <1>a, <1>v, <1>f, <2>4, <2>5, <2>6, <3>1, <3>3, VictimSafe
  <2> QED BY <2>7, <2>8
<1> QED BY <1>1, <1>2, <1>3, <1>4 DEF Destroy

(* A poller moves only while its queue is whole.                           *)
LEMMA PollerStepSafe ==
  ASSUME Inv0, Safe, NEW q \in Queues, PollerStep(q)
  PROVE  Safe'
<1>a. /\ poller[q] \in Running
      /\ UNCHANGED <<startVars, stopVars, destroyVars, tableVars, userVars, isOpen, res,
                     chans, done>>
      /\ \A o \in Queues : o # q => poller'[o] = poller[o]
  BY PollerMoves DEF Inv0, TypeOK
<1>b. /\ UNCHANGED <<phase, todo, cur, creating, undo, closing, left, isOpen, managed,
                     published, responding, registered, destroying, step, res, chans, done>>
      /\ \A p \in Programs : Victim(p)' = Victim(p)
  BY <1>a DEF startVars, stopVars, destroyVars, tableVars, userVars, Victim
<1>c. /\ Whole(q) /\ ~Making(q) /\ ~Undoing(q) /\ ~Untouched(q) /\ ~Gone(q)
      /\ \A p \in Programs : ~Dying(p, q)
  <2>1. QueueState(q)
    BY DEF Safe, QueueStates
  <2>2. ~Making(q) /\ ~Undoing(q) /\ ~Gone(q) /\ ~Untouched(q)
    BY <2>1, <1>a DEF QueueState, MakingState, UndoingState, Gone, Fresh
  <2>3. \A p \in Programs : ~Dying(p, q)
    BY <2>1, <1>a DEF QueueState, DyingState
  <2> QED BY <2>1, <2>2, <2>3 DEF QueueState, Settled
<1>d. \A o \in Queues : (Whole(o) <=> Whole(o)') /\ (Gone(o) => Gone(o)')
  BY <1>a, <1>b, <1>c DEF Whole, Gone, Usable
<1>1. Control'
  BY <1>b DEF Safe, Control
<1>2. QueueStates'
  <2> SUFFICES ASSUME NEW o \in Queues PROVE QueueState(o)'
    BY DEF QueueStates
  <2>1. /\ QueueState(o)
        /\ Making(o)' <=> Making(o)
        /\ Undoing(o)' <=> Undoing(o)
        /\ \A p \in Programs : Dying(p, o)' <=> Dying(p, o)
        /\ Untouched(o)' <=> Untouched(o)
    BY <1>b DEF Safe, QueueStates, Making, Undoing, Dying, Untouched, Queue
  <2>2. CASE o = q
    BY <2>1, <2>2, <1>c, <1>d DEF QueueState, MakingState, UndoingState, DyingState, Settled
  <2>3. CASE o # q
    <3>1. MakingState(o)' /\ UndoingState(o)'
      BY <2>1, <2>3, <1>a, <1>b DEF QueueState, MakingState, UndoingState
    <3>2. \A p \in Programs : DyingState(p, o)'
      BY <2>1, <2>3, <1>a, <1>b DEF QueueState, DyingState
    <3>3. Untouched(o)' => Fresh(o)'
      BY <2>1, <1>b, <1>d DEF QueueState, Fresh
    <3>4. Settled(o)' => Whole(o)' \/ Gone(o)'
      BY <2>1, <1>d DEF QueueState, Settled
    <3> QED BY <3>1, <3>2, <3>3, <3>4 DEF QueueState
  <2> QED BY <2>2, <2>3
<1>3. CreatingState'
  <2>1. creating.at > 0 => Queue \in Queues /\ Sender(cur) \in Queues
    BY CreationFacts
  <2>2. Queue' = Queue /\ Sender(cur)' = Sender(cur)
    BY <1>b DEF Queue, Sender
  <2> QED BY <2>1, <2>2, <1>b, <1>d DEF Safe, CreatingState, Whole, Usable
<1>v. \A p \in Programs : step[p] = 2 => Victim(p) # q /\ Victim(p) \in Queues
  <2> SUFFICES ASSUME NEW p \in Programs, step[p] = 2
               PROVE  Victim(p) # q /\ Victim(p) \in Queues
    OBVIOUS
  <2>1. destroying[p] # <<>>
    BY DEF Safe, Control
  <2>2. p = "start" \/ p = "stop"
    BY DEF Programs
  <2>3. poller[Victim(p)] \notin Running
    BY <2>2 DEF Safe, StartDestroys, StopDestroys
  <2> QED BY <2>1, <2>3, <1>a, DestructionFacts
<1>4. StartDestroys'
  <2>1. Victim("start")' = Victim("start") /\ "start" \in Programs
    BY <1>b DEF Programs
  <2>2. step["start"] = 2 => poller'[Victim("start")] = poller[Victim("start")]
    BY <2>1, <1>a, <1>v
  <2> QED BY <2>1, <2>2, <1>b DEF Safe, StartDestroys, Whole, Usable
<1>5. StopDestroys'
  <2>1. Victim("stop")' = Victim("stop") /\ "stop" \in Programs
    BY <1>b DEF Programs
  <2>2. step["stop"] = 2 => poller'[Victim("stop")] = poller[Victim("stop")]
    BY <2>1, <1>a, <1>v
  <2> QED BY <2>1, <2>2, <1>b DEF Safe, StopDestroys, Whole, Usable
<1>6. DoneState'
  <2>1. done \subseteq Queues
    BY DEF Inv0, TypeOK
  <2> QED BY <2>1, <1>a, <1>b DEF Safe, DoneState
<1>7. ClosingState'
  BY <1>b, <1>d DEF Safe, ClosingState, Listed
<1>8. PublishedState'
  <2>1. published \subseteq Queues
    BY DEF Inv0, TypeOK
  <2>2. Queue' = Queue
    BY <1>b DEF Queue
  <2> QED BY <2>1, <2>2, <1>b, <1>d DEF Safe, PublishedState, Listed
<1> QED BY <1>1, <1>2, <1>3, <1>4, <1>5, <1>6, <1>7, <1>8 DEF Safe

-----------------------------------------------------------------------------
(* The panics of Destroy.                                                  *)

LEMMA ClosedAgain ==
  ASSUME Inv0, Safe, DestroyedOnce, NEW p \in Programs, Destroy(p), crashed = "no"
  PROVE  DestroyedOnce'
<1>0. crashed' = "no" => DestroyedOnce'
  BY Zenon DEF DestroyedOnce
<1>1. CASE StopCQPoller(p)
  <2>1. destroying[p] # <<>> /\ step[p] = 0
    BY <1>1, Zenon DEF StopCQPoller
  <2>2. Victim(p) \in done => poller[Victim(p)] \notin Running
    <3>1. \A o \in Programs : step[o] # 1
      BY <2>1, DestructionFacts
    <3> QED BY <3>1 DEF Safe, DoneState
  <2>3. crashed' = crashed
    BY <1>1, <2>2, Zenon DEF StopCQPoller
  <2> QED BY <2>3, <1>0
<1>2. CASE CloseChannels(p)
  <2>1. /\ destroying[p] # <<>> /\ step[p] = 2 /\ destroying' = destroying
        /\ published' = published
    BY <1>2, Zenon DEF CloseChannels, tableVars
  <2>2. crashed' = crashed \/ chans[Victim(p)] = "closed"
    BY <1>2, Zenon DEF CloseChannels
  <2>3. CASE crashed' = crashed
    BY <2>3, <1>0
  <2>4. CASE chans[Victim(p)] = "closed"
    <3>1. ~Whole(Victim(p))
      BY <2>4 DEF Whole, Usable
    <3>2. p # "start"
      <4> SUFFICES ASSUME p = "start" PROVE FALSE
        OBVIOUS
      <4>1. 1 \in DOMAIN destroying["start"] /\ destroying["start"][1] = Victim("start")
        BY <2>1, DestructionFacts
      <4>2. Whole(Victim("start"))
        BY <4>1, <2>1 DEF Safe, StartDestroys
      <4> QED BY <3>1, <4>2
    <3>3. p = "stop"
      BY <3>2 DEF Programs
    <3>4. destroying["start"] = <<>>
      BY <2>1, <3>3, DestructionFacts DEF Programs
    <3>5. Victim("stop") \notin published
      BY <2>1, <3>1, <3>3 DEF Safe, StopDestroys
    <3>6. Victim("stop")' = Victim("stop")
      BY <2>1 DEF Victim
    <3> QED BY <2>1, <3>4, <3>5, <3>6, Zenon DEF DestroyedOnce
  <2> QED BY <2>2, <2>3, <2>4
<1>3. CASE PollerStopped(p) \/ ReleaseNext(p)
  <2>1. crashed' = crashed
    BY <1>3 DEF PollerStopped, ReleaseNext
  <2> QED BY <2>1, <1>0
<1> QED BY <1>1, <1>2, <1>3 DEF Destroy

LEMMA OtherPanics ==
  ASSUME CreateStep \/ PhaseStep \/ (\E q \in Queues : PollerStep(q)) \/ ProbeStep,
         crashed = "no"
  PROVE  DestroyedOnce'
<1>1. \/ crashed' = "no" \/ crashed' = "data race"
      \/ crashed' = "service probe used a destroyed queue"
  <2>1. CreateStep => crashed' = crashed
    BY DEF CreateStep, CreateQueues, Acquire, AcquireFails, UndoNext, UndoDone, StoreQueue,
       PostRecvSlot, PostRecvSlotFails, QueueCreated
  <2>2. (\E q \in Queues : PollerStep(q)) => crashed' = crashed
    BY PollerMoves
  <2>3. ProbeStep => \/ crashed' = crashed
                     \/ crashed' = "service probe used a destroyed queue"
    BY Zenon DEF ProbeStep, ServiceProbe, ServiceProbeSends
  <2>4. PhaseStep /\ ~Race => crashed' = crashed
    BY DEF PhaseStep, NewManager, OpenDevice, DevicesOpened, StartProber, RegisterAgent,
       StopAgent, CloseProber, CloseStart, CloseQueue, QueuesClosed, CloseDevice,
       DevicesClosed, ResponderEnds
  <2>5. Race => crashed' = "data race"
    BY Zenon DEF Race
  <2> QED BY <2>1, <2>2, <2>3, <2>4, <2>5
<1> QED BY <1>1, Zenon DEF DestroyedOnce

LEMMA InitInv == Init => Inv
<1> SUFFICES ASSUME Init PROVE Inv
  OBVIOUS
<1>1. Inv0
  BY InitInv0
<1>2. \A q \in Queues : Fresh(q) /\ Gone(q)
  BY DEF Init, Gone, Fresh, Running
<1>3. /\ creating.at = 0 /\ phase = "manager" /\ closing = "no" /\ responding = {}
      /\ cur = NoRnic /\ published = {} /\ registered = {} /\ done = {}
      /\ \A p \in Programs : destroying[p] = <<>> /\ step[p] = 0
      /\ \A q \in Queues : res[q] = {}
  BY DEF Init, NotCreating
<1>4. \A p \in Programs : \A i : i \notin DOMAIN destroying[p]
  BY <1>3, EmptyDomain
<1>5. Control
  BY <1>3 DEF Control, Programs
<1>6. QueueStates
  <2>1. \A q \in Queues : ~Making(q) /\ ~Undoing(q) /\ \A p \in Programs : ~Dying(p, q)
    BY <1>3, StepBounds DEF Making, Undoing, Dying
  <2> QED BY <2>1, <1>2 DEF QueueStates, QueueState, MakingState, UndoingState, DyingState
<1>7. CreatingState /\ StartDestroys /\ StopDestroys /\ DoneState /\ ClosingState
  BY <1>3, <1>4 DEF CreatingState, StartDestroys, StopDestroys, DoneState, ClosingState, Programs
<1>8. PublishedState
  BY <1>3 DEF PublishedState
<1>9. DestroyedOnce
  BY Zenon DEF Init, DestroyedOnce
<1> QED BY <1>1, <1>5, <1>6, <1>7, <1>8, <1>9 DEF Inv, Safe

(* Once Stop has overtaken Start, it stays so.                             *)
LEMMA OvertakenStays ==
  ASSUME Inv0, [Next]_vars, overtaken
  PROVE  overtaken'
<1>1. ~CloseProber
  BY DEF Inv0, CloseProber
<1>2. CASE UNCHANGED vars
  BY <1>2 DEF vars, stopVars
<1>3. CASE Next
  <2>1. ASSUME NEW p \in Programs, Destroy(p) PROVE UNCHANGED overtaken
    BY <2>1, Zenon DEF Destroy, StopCQPoller, PollerStopped, CloseChannels, ReleaseNext, stopVars
  <2>2. CreateStep => UNCHANGED overtaken
    BY DEF CreateStep, CreateQueues, Acquire, AcquireFails, UndoNext, UndoDone, StoreQueue,
       PostRecvSlot, PostRecvSlotFails, QueueCreated, stopVars
  <2>3. PhaseStep => UNCHANGED overtaken
    BY <1>1, Zenon DEF PhaseStep, NewManager, OpenDevice, DevicesOpened, StartProber,
       RegisterAgent, Race, StopAgent, CloseStart, CloseQueue, QueuesClosed, CloseDevice,
       DevicesClosed, ResponderEnds, stopVars
  <2>4. (\E q \in Queues : PollerStep(q)) => UNCHANGED overtaken
    BY PollerMoves DEF stopVars
  <2>5. ProbeStep => UNCHANGED overtaken
    BY Zenon DEF ProbeStep, ServiceProbe, ServiceProbeSends, stopVars
  <2>6. "start" \in Programs /\ "stop" \in Programs
    BY DEF Programs
  <2> QED BY <1>3, <2>1, <2>2, <2>3, <2>4, <2>5, <2>6
      DEF Next, Step, Start, Stop, CreateStep, PhaseStep, PollerStep, ProbeStep
<1> QED BY <1>2, <1>3

LEMMA NextInv == Inv /\ [Next]_vars => Inv'
<1> SUFFICES ASSUME Inv, [Next]_vars PROVE Inv'
  OBVIOUS
<1>0. Inv0 /\ Inv0'
  BY NextInv0 DEF Inv
<1>1. CASE overtaken'
  BY <1>0, <1>1 DEF Inv
<1>2. CASE ~overtaken'
  <2>0. Safe /\ DestroyedOnce
    BY <1>0, <1>2, OvertakenStays DEF Inv
  <2>s. UNCHANGED safeVars => Safe'
    BY <1>0, <1>2, <2>0, StopOnlySafe DEF StopOnly
  <2>1. CASE UNCHANGED vars
    <3>1. UNCHANGED safeVars
      BY <2>1 DEF vars, safeVars, userVars
    <3>2. DestroyedOnce'
      BY <2>0, <2>1, Zenon DEF DestroyedOnce, vars, stopVars, destroyVars, tableVars, Victim
    <3> QED BY <3>1, <3>2, <2>s, <1>0 DEF Inv
  <2>2. CASE Next
    <3>0. crashed = "no" /\ Step
      BY <2>2 DEF Next
    <3>1. ASSUME NEW p \in Programs, Destroy(p) PROVE Safe' /\ DestroyedOnce'
      BY <1>0, <2>0, <2>s, <3>0, <3>1, DestroySafe, ClosedAgain
    <3>2. CreateStep => Safe'
      BY <1>0, <2>0, CreateQueuesSafe, AcquireSafe, AcquireFailsSafe, UndoNextSafe,
         CreationEndsSafe, StoreQueueSafe, PostRecvSlotSafe, QueueCreatedSafe DEF CreateStep
    <3>3. PhaseStep => Safe'
      <4>1. ~Race
        <5>1. ~overtaken
          BY <1>0, <1>2, OvertakenStays
        <5> QED BY <5>1 DEF Race
      <4> QED BY <1>0, <1>2, <2>0, <4>1, StartOnlySafe, StopOnlySafe, CloseQueueSafe,
             CloseRestSafe DEF PhaseStep, StartOnly, StopOnly, CloseRest
    <3>4. (\E q \in Queues : PollerStep(q)) => Safe'
      BY <1>0, <2>0, PollerStepSafe
    <3>5. ProbeStep => Safe'
      <4>1. ProbeStep => UNCHANGED safeVars
        BY DEF ProbeStep, ServiceProbe, ServiceProbeSends, safeVars
      <4> QED BY <4>1, <2>s
    <3>6. "start" \in Programs /\ "stop" \in Programs
      BY DEF Programs
    <3>7. \/ Destroy("start") \/ Destroy("stop") \/ CreateStep \/ PhaseStep
          \/ (\E q \in Queues : PollerStep(q)) \/ ProbeStep
      BY <3>0 DEF Step, Start, Stop, CreateStep, PhaseStep, PollerStep, ProbeStep
    <3>8. Safe' /\ DestroyedOnce'
      BY <3>0, <3>1, <3>2, <3>3, <3>4, <3>5, <3>6, <3>7, OtherPanics
    <3> QED BY <3>8, <1>0 DEF Inv
  <2> QED BY <2>1, <2>2
<1> QED BY <1>1, <1>2

(* The invariant that the theorems below rest on: where each queue stands  *)
(* between its creation and its destruction, as long as Stop has not       *)
(* overtaken Start.                                                        *)
THEOREM Invariance == Spec => []Inv
  BY InitInv, NextInv, PTL DEF Spec

-----------------------------------------------------------------------------
LEMMA InvHolds ==
  ASSUME Inv0, Safe, NEW q \in Queues
  PROVE  /\ \E k \in 0..7 : res[q] = Alive(k)
         /\ res[q] # {} => q[1] \in isOpen
         /\ res[q] # {} => q \in managed \/ (creating.at > 0 /\ q = Queue)
<1>0. QueueState(q)
  BY DEF Safe, QueueStates
<1>1. CASE Making(q)
  <2>1. PICK at \in 1..9 : at = creating.at /\ q = Queue
    BY <1>1 DEF Making
  <2>2. res[q] = Alive(MadeBefore(at))
    BY <1>0, <1>1, <2>1 DEF QueueState, MakingState
  <2>3. MadeBefore(at) \in 0..7
    BY DEF MadeBefore
  <2>4. creating.at > 0 /\ q[1] \in isOpen
    BY <2>1, CreationFacts
  <2> QED BY <2>1, <2>2, <2>3, <2>4
<1>2. CASE Undoing(q)
  <2>1. creating.at > 0 /\ q = Queue
    BY <1>2, StepBounds DEF Undoing
  <2>2. q[1] \in isOpen
    BY <2>1, CreationFacts
  <2>3. PICK k \in 0..6 : res[q] = Alive(k)
    BY <1>0, <1>2 DEF QueueState, UndoingState
  <2> QED BY <2>1, <2>2, <2>3
<1>3. ASSUME NEW p \in Programs, Dying(p, q)
      PROVE  /\ \E k \in 0..7 : res[q] = Alive(k)
             /\ q[1] \in isOpen /\ q \in managed
  <2>1. /\ destroying[p] # <<>> /\ q = Victim(p) /\ step[p] \in 3..9
        /\ res[q] = Alive(10 - step[p]) /\ q[1] \in isOpen
    BY <1>0, <1>3, Quiet DEF QueueState, DyingState, Dying
  <2>2. 10 - step[p] \in 0..7
    BY <2>1
  <2> QED BY <2>1, <2>2, DestructionFacts
<1>4. CASE Settled(q)
  BY <1>0, <1>4, AliveEnds DEF QueueState, Whole, Gone, Usable
<1> QED BY <1>1, <1>2, <1>3, <1>4 DEF Settled

(* For any RNICs and number of receive slots, and whichever call of a      *)
(* creation fails: unless Stop overtakes Start, no call of an error path   *)
(* or of Destroy takes away what another object was made from, and Close   *)
(* leaves nothing behind.                                                  *)
THEOREM ResourcesAreSound == Spec => []ResourcesSound
<1>1. Inv => ResourcesSound
  <2> SUFFICES ASSUME Inv, ~overtaken PROVE DependenciesHeld /\ NothingLeaks
    BY DEF ResourcesSound
  <2>0. Inv0 /\ Safe
    BY DEF Inv
  <2>1. ASSUME NEW q \in Queues
        PROVE  /\ "sendMR" \in res[q] => "sendBuf" \in res[q]
               /\ "recvMR" \in res[q] => "recvBuf" \in res[q]
               /\ "qp" \in res[q] => "cq" \in res[q]
               /\ "cq" \in res[q] => "channel" \in res[q]
               /\ res[q] # {} => q[1] \in isOpen
    <3>1. /\ \E k \in 0..7 : res[q] = Alive(k)
          /\ res[q] # {} => q[1] \in isOpen
      BY <2>0, InvHolds
    <3>2. PICK k \in 0..7 : res[q] = Alive(k)
      BY <3>1
    <3> QED BY <3>1, <3>2, AliveHolds
  <2>2. closing = "done" => isOpen = {} /\ \A q \in Queues : res[q] = {}
    BY <2>0 DEF Safe, Control, ClosingState, Gone
  <2>3. \A q \in Queues : res[q] # {} => q \in managed \/ (creating.at > 0 /\ q = Queue)
    BY <2>0, InvHolds
  <2> QED BY <2>1, <2>2, <2>3 DEF DependenciesHeld, NothingLeaks
<1> QED BY <1>1, Invariance, PTL

(* A CQ poller and a responder loop never meet a queue that is being       *)
(* destroyed: Destroy waits for the poller, Prober.Close for the loops,    *)
(* and the error paths of Start destroy only what nobody was given.        *)
THEOREM UsersAreSafe == Spec => []UsersSafe
<1>1. Inv => UsersSafe
  <2> SUFFICES ASSUME Inv, ~overtaken PROVE PollerSafe /\ RespondersSafe
    BY DEF UsersSafe
  <2>0. Inv0 /\ Safe
    BY DEF Inv
  <2>1. PollerSafe
    <3> SUFFICES ASSUME NEW q \in Queues, poller[q] \in Running PROVE Usable(q)
      BY DEF PollerSafe
    <3>1. QueueState(q)
      BY <2>0 DEF Safe, QueueStates
    <3>2. ~Making(q) /\ ~Undoing(q) /\ ~Gone(q)
      BY <3>1 DEF QueueState, MakingState, UndoingState, Gone
    <3>3. \A p \in Programs : ~Dying(p, q)
      BY <3>1 DEF QueueState, DyingState
    <3> QED BY <3>1, <3>2, <3>3 DEF QueueState, Settled, Whole
  <2>2. RespondersSafe
    <3> SUFFICES ASSUME NEW q \in responding PROVE Usable(q)
      BY DEF RespondersSafe
    <3>1. closing \in {"no", "prober"} /\ q \in published
      BY <2>0 DEF Safe, Control, PublishedState
    <3> QED BY <2>0, <3>1 DEF Safe, PublishedState, Whole
  <2> QED BY <2>1, <2>2
<1> QED BY <1>1, Invariance, PTL

(* Unless Stop overtakes Start, the error paths of Start never close a     *)
(* channel twice, and Stop only those of a queue that was not published.   *)
THEOREM DestroyedOnlyOnce == Spec => []DestroyedOnce
<1>1. Inv => DestroyedOnce
  <2>1. CASE overtaken
    BY <2>1, Zenon DEF DestroyedOnce
  <2>2. CASE ~overtaken
    BY <2>2 DEF Inv
  <2> QED BY <2>1, <2>2
<1> QED BY <1>1, Invariance, PTL

(* While the agent runs, a responder queue that it registered is read by a *)
(* responder loop or has been destroyed on an error path.                  *)
THEOREM Answered == Spec => []AnsweredOrGone
<1>1. Inv => AnsweredOrGone
  <2> SUFFICES ASSUME Inv, phase = "running", closing = "no", NEW q \in registered,
                      res[q] # {}
               PROVE  q \in responding
    BY DEF AnsweredOrGone
  <2>0. Inv0 /\ Safe
    BY DEF Inv, Inv0
  <2>1. q \in Queues /\ q[2] = "responder"
    BY <2>0 DEF Safe, Inv0, TypeOK, PublishedState
  <2>2. creating.at = 0 /\ destroying["start"] = <<>>
    BY <2>0, Quiet
  <2>3. ~Listed("start", q)
    BY <2>0, <2>2, Quiet DEF Programs
  <2> QED BY <2>0, <2>1, <2>2, <2>3 DEF Safe, PublishedState, Up
<1> QED BY <1>1, Invariance, PTL
=============================================================================
