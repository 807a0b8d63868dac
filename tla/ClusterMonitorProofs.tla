------------------------ MODULE ClusterMonitorProofs ------------------------
(***************************************************************************)
(* Proofs about the cluster monitor, for any RNICs, pinglists and rate:    *)
(* its types, that the scheduler is a round robin, that the limiters keep  *)
(* the rate, and that only sound targets are probed.                       *)
(***************************************************************************)
EXTENDS ClusterMonitor, SequenceTheorems, TLAPS

(* Advancing the index of a round robin over n targets.                    *)
LEMMA ModStep ==
  ASSUME NEW n \in Nat \ {0}, NEW i \in Nat, i < n
  PROVE  (i + 1) % n = IF i + 1 < n THEN i + 1 ELSE 0
  OBVIOUS

LEMMA AppendFacts ==
  ASSUME NEW S, NEW q \in Seq(S), NEW e \in S
  PROVE  /\ Append(q, e) \in Seq(S)
         /\ Len(Append(q, e)) = Len(q) + 1
         /\ \A i \in 1..Len(q) : Append(q, e)[i] = q[i]
         /\ Append(q, e)[Len(q) + 1] = e
  OBVIOUS

LEMMA TailFacts ==
  ASSUME NEW S, NEW q \in Seq(S), q # <<>>
  PROVE  /\ Tail(q) \in Seq(S)
         /\ Head(q) \in S
         /\ Head(q) = q[1]
         /\ Len(q) >= 1
         /\ Len(Tail(q)) = Len(q) - 1
         /\ \A i \in 1..Len(Tail(q)) : Tail(q)[i] = q[i + 1]
  OBVIOUS

(* What a draw reads and how it moves the index.                           *)
LEMMA DrawFacts ==
  ASSUME TypeOK, DrawTarget
  PROVE  /\ Len(targets) \in Nat \ {0}
         /\ currentIndex \in Nat
         /\ currentIndex < Len(targets)
         /\ currentIndex + 1 \in 1..Len(targets)
         /\ target' = targets[currentIndex + 1]
         /\ target' \in Entries
         /\ currentIndex' = IF currentIndex + 1 < Len(targets)
                            THEN currentIndex + 1 ELSE 0
<1>1. targets \in Seq(Entries) /\ targets # <<>> /\ currentIndex \in Nat
      /\ currentIndex < Len(targets)
  BY DEF TypeOK, DrawTarget
<1>2. Len(targets) \in Nat \ {0} /\ currentIndex + 1 \in 1..Len(targets)
  BY <1>1, LenProperties, EmptySeq
<1>3. target' = targets[currentIndex + 1] /\ target' \in Entries
  BY <1>1, <1>2, ElementOfSeq DEF DrawTarget
<1>4. currentIndex' = IF currentIndex + 1 < Len(targets)
                      THEN currentIndex + 1 ELSE 0
  BY <1>1, <1>2, ModStep DEF DrawTarget, NextIndex
<1> QED BY <1>1, <1>2, <1>3, <1>4

(* The element that a conversion looks at.                                 *)
LEMMA ConvertFacts ==
  ASSUME TypeOK, ConvertEntry
  PROVE  /\ incoming' \in Seq(Entries)
         /\ update' \in Seq(Entries)
<1>1. incoming \in Seq(Entries) /\ incoming # <<>> /\ update \in Seq(Entries)
  BY DEF TypeOK, ConvertEntry
<1>2. Tail(incoming) \in Seq(Entries) /\ Head(incoming) \in Entries
  BY <1>1, TailFacts
<1>3. Append(update, Head(incoming)) \in Seq(Entries)
  BY <1>1, <1>2, AppendFacts
<1> QED BY <1>1, <1>2, <1>3 DEF ConvertEntry

LEMMA InitType == Init => TypeOK
<1> SUFFICES ASSUME Init PROVE TypeOK
  OBVIOUS
<1>1. Period \in Nat /\ Period \in 0..Period /\ 0 \in 0..Period
  BY MonitorAssumption
<1>2. limiter \in [Gids -> 0..Period] /\ since \in [Gids -> 0..Period]
  BY <1>1 DEF Init
<1>3. targets \in Seq(Entries) /\ incoming \in Seq(Entries)
      /\ update \in Seq(Entries) /\ wait \in Seq(Nat)
      /\ Len(wait) = Len(targets)
  BY EmptySeq DEF Init
<1> QED BY <1>2, <1>3, MonitorAssumption DEF Init, TypeOK

(* Every step keeps the types and the index within the targets.            *)
LEMMA NextType == TypeOK /\ [Next]_vars => TypeOK'
<1> SUFFICES ASSUME TypeOK, [Next]_vars PROVE TypeOK'
  OBVIOUS
<1> USE DEF resVars
<1>0. Period \in Nat /\ NoTarget \notin Entries /\ Pinglists \subseteq Seq(Entries)
  BY MonitorAssumption
<1>1. CASE UpdatePinglist
  <2>1. incoming' \in Seq(Entries) /\ update' \in Seq(Entries)
    BY <1>0, <1>1, EmptySeq DEF UpdatePinglist
  <2> QED BY <1>1, <2>1 DEF UpdatePinglist, TypeOK, schedVars, histVars
<1>2. CASE ConvertEntry
  BY <1>2, ConvertFacts DEF ConvertEntry, TypeOK, schedVars, histVars
<1>3. CASE UpdateTargets
  <2>1. targets' \in Seq(Entries) /\ currentIndex' = 0
        /\ (targets' # <<>> => currentIndex' < Len(targets'))
    BY <1>3, LenProperties, EmptySeq DEF UpdateTargets, TypeOK, FirstIndex
  <2>2. wait' \in Seq(Nat) /\ Len(wait') = Len(targets')
    <3>1. Len(update) \in Nat /\ wait' = [i \in 1..Len(update) |-> 0]
      BY <1>3, LenProperties DEF UpdateTargets, TypeOK
    <3>2. wait' \in [1..Len(update) -> Nat]
      BY <3>1
    <3>3. wait' \in Seq(Nat) /\ Len(wait') = Len(update)
      BY <3>1, <3>2, IsASeq, LenProperties
    <3> QED BY <1>3, <3>3 DEF UpdateTargets
  <2>3. limiter' \in [Gids -> 0..Period] /\ renewed' \subseteq Gids
    BY <1>0, <1>3 DEF UpdateTargets
  <2>4. update' \in Seq(Entries)
    BY <1>3, EmptySeq DEF UpdateTargets
  <2> QED BY <1>3, <2>1, <2>2, <2>3, <2>4 DEF UpdateTargets, TypeOK
<1>4. CASE SelectStop
  BY <1>4 DEF SelectStop, TypeOK, schedVars, histVars, updVars
<1>5. CASE SelectDefault
  BY <1>5 DEF SelectDefault, TypeOK, schedVars, histVars, updVars
<1>6. CASE NoNextTarget
  BY <1>6 DEF NoNextTarget, TypeOK, schedVars, histVars, updVars
<1>7. CASE DrawTarget
  <2>1. wait' \in Seq(Nat) /\ Len(wait') = Len(wait)
    <3>1. wait \in Seq(Nat) /\ Len(wait) \in Nat /\ DOMAIN wait = 1..Len(wait)
      BY LenProperties DEF TypeOK
    <3>2. \A i \in 1..Len(wait) : wait[i] \in Nat
      BY <3>1, ElementOfSeq
    <3>3. wait' \in [1..Len(wait) -> Nat]
      BY <1>7, <3>1, <3>2 DEF DrawTarget
    <3> QED BY <3>1, <3>3, IsASeq, LenProperties
  <2>2. worker' = "limited" /\ target' # NoTarget /\ target' \in Entries
    BY <1>0, <1>7, DrawFacts DEF DrawTarget
  <2>3. currentIndex' \in Nat /\ (targets' = <<>> => currentIndex' = 0)
        /\ (targets' # <<>> => currentIndex' < Len(targets'))
    BY <1>7, DrawFacts DEF DrawTarget
  <2> QED BY <1>7, <2>1, <2>2, <2>3 DEF DrawTarget, TypeOK, updVars
<1>8. CASE Take
  <2>1. target \in Entries /\ target.gid \in Gids
    BY <1>8 DEF Take, TypeOK, Entries
  <2>2. limiter' \in [Gids -> 0..Period] /\ since' \in [Gids -> 0..Period]
    BY <1>0, <1>8, <2>1 DEF Take, TypeOK
  <2>3. renewed' \subseteq Gids
    BY <1>8 DEF Take, TypeOK
  <2> QED BY <1>8, <2>1, <2>2, <2>3 DEF Take, TypeOK, schedVars, updVars
<1>9. CASE ProcessNextProbe
  BY <1>9 DEF ProcessNextProbe, TypeOK, schedVars, histVars, updVars
<1>10. CASE ProbeReturns
  <2>1. results' \in 0..ResultCap
    BY <1>10, MonitorAssumption DEF ProbeReturns, TypeOK
  <2> QED BY <1>10, <2>1 DEF ProbeReturns, TypeOK, schedVars, histVars, updVars
<1>11. CASE Stop
  BY <1>11 DEF Stop, TypeOK, schedVars, histVars, updVars
<1>12. CASE StopReturns
  BY <1>12 DEF StopReturns, TypeOK, schedVars, histVars, updVars
<1>13. CASE Tick
  <2>1. limiter' \in [Gids -> 0..Period] /\ since' \in [Gids -> 0..Period]
    BY <1>0, <1>13 DEF Tick, TypeOK
  <2> QED BY <1>13, <2>1 DEF Tick, TypeOK, schedVars, updVars
<1>14. CASE ServiceResult \/ ReadResult \/ ReaderEnds
  <2>1. results' \in 0..ResultCap
    BY <1>14, MonitorAssumption DEF ServiceResult, ReadResult, ReaderEnds, TypeOK
  <2>3. reading' \in BOOLEAN
    BY <1>14, Zenon DEF ServiceResult, ReadResult, ReaderEnds, TypeOK
  <2>2. UNCHANGED <<schedVars, histVars, limiter, worker, target, updVars, stopCh>>
    BY <1>14 DEF ServiceResult, ReadResult, ReaderEnds
  <2> QED BY <2>1, <2>2, <2>3 DEF TypeOK, schedVars, histVars, updVars
<1>15. CASE UNCHANGED vars
  BY <1>15 DEF vars, TypeOK, schedVars, histVars, updVars
<1> QED BY <1>1, <1>2, <1>3, <1>4, <1>5, <1>6, <1>7, <1>8, <1>9, <1>10,
           <1>11, <1>12, <1>13, <1>14, <1>15 DEF Next, Worker

(* Every variable has its type, and GetNextTarget never reads beyond the   *)
(* targets, whichever pinglists come between two draws.                    *)
THEOREM TypeCorrect == Spec => []TypeOK
<1> QED BY InitType, NextType, PTL DEF Spec

-----------------------------------------------------------------------------
(* How long each target may have waited: those before the index were drawn *)
(* in this round, the others in the one before.                            *)
Waits ==
  /\ \A i \in 1..Len(targets) : i <= currentIndex =>
       wait[i] <= currentIndex - i
  /\ \A i \in 1..Len(targets) : i > currentIndex =>
       wait[i] <= Len(targets) - i + currentIndex

RoundInv == TypeOK /\ Waits

LEMMA InitRound == Init => RoundInv
<1> SUFFICES ASSUME Init PROVE Waits
  BY InitType DEF RoundInv
<1>1. Len(targets) = 0
  BY EmptySeq DEF Init
<1> QED BY <1>1 DEF Waits

LEMMA NextRound == RoundInv /\ [Next]_vars => RoundInv'
<1> SUFFICES ASSUME RoundInv, [Next]_vars PROVE Waits'
  BY NextType DEF RoundInv
<1> USE DEF RoundInv
<1>1. CASE UNCHANGED <<targets, currentIndex, wait>>
  BY <1>1 DEF Waits
<1>2. CASE UpdateTargets
  <2>1. /\ Len(update) \in Nat
        /\ targets' = update
        /\ currentIndex' = 0
        /\ \A i \in 1..Len(update) : wait'[i] = 0
    BY <1>2, LenProperties DEF UpdateTargets, TypeOK, FirstIndex
  <2> QED BY <2>1 DEF Waits
<1>3. CASE DrawTarget
  <2> DEFINE n == Len(targets)
             k == currentIndex
  <2>1. /\ n \in Nat \ {0} /\ k \in Nat /\ k < n
        /\ currentIndex' = IF k + 1 < n THEN k + 1 ELSE 0
        /\ targets' = targets
    BY <1>3, DrawFacts DEF DrawTarget
  <2>2. DOMAIN wait = 1..n /\ \A i \in 1..n : wait[i] \in Nat
    BY LenProperties, ElementOfSeq DEF TypeOK
  <2>3. \A i \in 1..n : wait'[i] = IF i = k + 1 THEN 0 ELSE wait[i] + 1
    BY <1>3, <2>2 DEF DrawTarget
  <2>4. \A i \in 1..n : (i <= k => wait[i] <= k - i)
                        /\ (i > k => wait[i] <= n - i + k)
    BY DEF Waits
  <2> HIDE DEF n, k
  <2>5. CASE k + 1 < n
    <3>1. currentIndex' = k + 1
      BY <2>1, <2>5
    <3>2. \A i \in 1..n : i <= k + 1 => wait'[i] <= (k + 1) - i
      <4> SUFFICES ASSUME NEW i \in 1..n, i <= k + 1
                   PROVE  wait'[i] <= (k + 1) - i
        OBVIOUS
      <4>1. CASE i = k + 1
        <5>1. wait'[i] = 0
          BY <2>3, <4>1
        <5> QED BY <2>1, <4>1, <5>1
      <4>2. CASE i <= k
        <5>1. wait'[i] = wait[i] + 1 /\ wait[i] <= k - i /\ wait[i] \in Nat
          BY <2>1, <2>2, <2>3, <2>4, <4>2
        <5> QED BY <2>1, <5>1
      <4> QED BY <2>1, <4>1, <4>2
    <3>3. \A i \in 1..n : i > k + 1 => wait'[i] <= n - i + (k + 1)
      BY <2>1, <2>2, <2>3, <2>4, <2>5
    <3> QED BY <2>1, <3>1, <3>2, <3>3 DEF Waits, n
  <2>6. CASE k + 1 = n
    <3>1. currentIndex' = 0
      BY <2>1, <2>6
    <3>2. \A i \in 1..n : wait'[i] <= n - i
      BY <2>1, <2>2, <2>3, <2>4, <2>6
    <3>3. \A i \in 1..n : wait'[i] <= n - i + 0 /\ ~(i <= 0)
      BY <2>1, <3>2
    <3> QED BY <2>1, <3>1, <3>3 DEF Waits, n
  <2> QED BY <2>1, <2>5, <2>6
<1> QED BY <1>1, <1>2, <1>3
  DEF Next, Worker, UpdatePinglist, ConvertEntry, SelectStop, SelectDefault,
      NoNextTarget, Take, ProcessNextProbe, ProbeReturns, ServiceResult, ReadResult, ReaderEnds,
      Stop, StopReturns,
      Tick, vars, schedVars, histVars

(* GetNextTarget is a round robin: between two updates, any Len(targets)   *)
(* draws in a row include every target.                                    *)
THEOREM DrawsAreRoundRobin == Spec => []RoundRobin
<1>1. RoundInv => RoundRobin
  <2> SUFFICES ASSUME RoundInv, NEW i \in DOMAIN targets
               PROVE  wait[i] < Len(targets)
    BY DEF RoundRobin
  <2>1. i \in 1..Len(targets) /\ Len(targets) \in Nat
    BY LenProperties DEF RoundInv, TypeOK
  <2>2. wait[i] \in Nat /\ currentIndex \in Nat
    BY <2>1, ElementOfSeq DEF RoundInv, TypeOK
  <2>3. currentIndex < Len(targets)
    BY <2>1, EmptySeq DEF RoundInv, TypeOK
  <2> QED BY <2>1, <2>2, <2>3 DEF RoundInv, Waits
<1> QED BY <1>1, InitRound, NextRound, PTL DEF Spec

-----------------------------------------------------------------------------
(* What the limiter of a GID still has to wait, and what has passed since  *)
(* its last Take, make up the Period, unless the limiter was replaced.     *)
Rates == \A g \in Gids \ renewed : limiter[g] + since[g] >= Period

RateInv == TypeOK /\ Rates

LEMMA InitRate == Init => RateInv
<1> SUFFICES ASSUME Init PROVE Rates
  BY InitType DEF RateInv
<1> QED BY MonitorAssumption DEF Init, Rates

LEMMA NextRate == RateInv /\ [Next]_vars => RateInv'
<1> SUFFICES ASSUME RateInv, [Next]_vars PROVE Rates'
  BY NextType DEF RateInv
<1> USE DEF RateInv
<1>0. Period \in Nat /\ \A g \in Gids : limiter[g] \in 0..Period
                                        /\ since[g] \in 0..Period
  BY MonitorAssumption DEF TypeOK
<1>1. CASE UNCHANGED <<limiter, since, renewed>>
  BY <1>1 DEF Rates
<1>2. CASE UpdateTargets
  BY <1>2 DEF UpdateTargets, Rates
<1>3. CASE Take
  <2> SUFFICES ASSUME NEW g \in Gids \ renewed'
               PROVE  limiter'[g] + since'[g] >= Period
    BY DEF Rates
  <2>1. target.gid \in Gids
    BY <1>3 DEF Take, TypeOK, Entries
  <2>2. CASE g = target.gid
    BY <1>0, <1>3, <2>1, <2>2 DEF Take, TypeOK
  <2>3. CASE g # target.gid
    <3>1. g \notin renewed /\ limiter'[g] = limiter[g] /\ since'[g] = since[g]
      BY <1>3, <2>1, <2>3 DEF Take, TypeOK
    <3> QED BY <3>1 DEF Rates
  <2> QED BY <2>2, <2>3
<1>4. CASE Tick
  <2> SUFFICES ASSUME NEW g \in Gids \ renewed'
               PROVE  limiter'[g] + since'[g] >= Period
    BY DEF Rates
  <2>1. limiter[g] + since[g] >= Period
    BY <1>4 DEF Tick, Rates
  <2>2. /\ limiter'[g] = IF limiter[g] > 0 THEN limiter[g] - 1 ELSE 0
        /\ since'[g] = IF since[g] < Period THEN since[g] + 1 ELSE Period
    BY <1>4 DEF Tick
  <2> QED BY <1>0, <2>1, <2>2
<1> QED BY <1>1, <1>2, <1>3, <1>4
  DEF Next, Worker, UpdatePinglist, ConvertEntry, SelectStop, SelectDefault,
      NoNextTarget, DrawTarget, ProcessNextProbe, ProbeReturns, ServiceResult, ReadResult, ReaderEnds,
      Stop,
      StopReturns, vars, histVars

(* Two probes of a GID are a Period apart, from whichever source RNIC and  *)
(* under whatever list it was drawn, unless an update has replaced the     *)
(* limiters (GetNextTarget).                                               *)
THEOREM RateIsKept == Spec => RateKept
<1>1. ASSUME RateInv, [Next]_vars
      PROVE  [worker = "limited" /\ worker' = "drawn" =>
                since[target.gid] = Period \/ target.gid \in renewed]_vars
  <2> SUFFICES ASSUME worker = "limited", worker' = "drawn",
                      target.gid \notin renewed
               PROVE  since[target.gid] = Period
    OBVIOUS
  <2>1. Take
    BY <1>1 DEF Next, Worker, UpdatePinglist, ConvertEntry, UpdateTargets,
                SelectStop, SelectDefault, NoNextTarget, DrawTarget,
                ProcessNextProbe, ProbeReturns, ServiceResult, ReadResult, ReaderEnds,
      Stop, StopReturns, Tick, vars
  <2>2. target.gid \in Gids
    BY <1>1, <2>1 DEF Take, RateInv, TypeOK, Entries
  <2>3. limiter[target.gid] = 0
    BY <2>1 DEF Take, Allowed
  <2>4. /\ Period \in Nat /\ since[target.gid] \in 0..Period
        /\ limiter[target.gid] + since[target.gid] >= Period
    BY <1>1, <2>2, MonitorAssumption DEF RateInv, TypeOK, Rates
  <2> QED BY <2>3, <2>4
<1> QED BY <1>1, InitRate, NextRate, PTL DEF Spec, RateKept

-----------------------------------------------------------------------------
(* The controller sends the device of a local RNIC or none.                *)
DeviceTold(e) ==
  e.src \in LocalGids => e.device \in {DeviceOf[e.src], NoDevice}

Good(e) == Accepted(e) /\ DeviceTold(e)

(* Entries keep what the conversion has established about them, on their   *)
(* way to the probe.                                                       *)
Converted ==
  /\ \A i \in 1..Len(incoming) : DeviceTold(incoming[i])
  /\ \A i \in 1..Len(update) : Good(update[i])
  /\ \A i \in 1..Len(targets) : Good(targets[i])
  /\ target # NoTarget => Good(target)
  /\ worker = "probing" => Probeable(target)

ConvertedInv == TypeOK /\ Converted

LEMMA InitConverted == Init => ConvertedInv
<1> SUFFICES ASSUME Init PROVE Converted
  BY InitType DEF ConvertedInv
<1>1. Len(incoming) = 0 /\ Len(update) = 0 /\ Len(targets) = 0
  BY EmptySeq DEF Init
<1> QED BY <1>1 DEF Converted, Init

LEMMA NextConverted == ConvertedInv /\ [Next]_vars => ConvertedInv'
<1> SUFFICES ASSUME ConvertedInv, [Next]_vars PROVE Converted'
  BY NextType DEF ConvertedInv
<1> USE DEF ConvertedInv
<1>1. CASE UpdatePinglist
  <2>1. Len(update') = 0
    BY <1>1, EmptySeq DEF UpdatePinglist
  <2>2. \A i \in 1..Len(incoming') : DeviceTold(incoming'[i])
    <3> SUFFICES ASSUME NEW i \in 1..Len(incoming')
                 PROVE  DeviceTold(incoming'[i])
      OBVIOUS
    <3>1. incoming' \in Pinglists /\ incoming' \in Seq(Entries)
      BY <1>1, MonitorAssumption DEF UpdatePinglist
    <3>2. i \in DOMAIN incoming'
      BY <3>1, LenProperties
    <3> QED BY <3>1, <3>2, MonitorAssumption DEF DeviceTold
  <2> QED BY <1>1, <2>1, <2>2 DEF UpdatePinglist, Converted, schedVars
<1>2. CASE ConvertEntry
  <2>1. /\ incoming \in Seq(Entries) /\ incoming # <<>>
        /\ update \in Seq(Entries) /\ incoming' = Tail(incoming)
    BY <1>2 DEF TypeOK, ConvertEntry
  <2>2. Head(incoming) \in Entries /\ Head(incoming) = incoming[1]
        /\ 1 \in 1..Len(incoming) /\ Len(incoming) \in Nat
        /\ Len(incoming') = Len(incoming) - 1
        /\ \A i \in 1..Len(incoming') : incoming'[i] = incoming[i + 1]
    BY <2>1, TailFacts, LenProperties
  <2>3. \A i \in 1..Len(incoming') : DeviceTold(incoming'[i])
    BY <2>2 DEF Converted
  <2>4. \A i \in 1..Len(update') : Good(update'[i])
    <3>1. CASE Accepted(Head(incoming))
      <4>1. update' = Append(update, Head(incoming))
        BY <1>2, <3>1 DEF ConvertEntry
      <4>2. /\ Len(update) \in Nat
            /\ Len(update') = Len(update) + 1
            /\ \A i \in 1..Len(update) : update'[i] = update[i]
            /\ update'[Len(update) + 1] = Head(incoming)
        BY <2>1, <2>2, <4>1, AppendFacts, LenProperties
      <4>3. Good(Head(incoming))
        BY <2>2, <3>1 DEF Good, Converted
      <4> QED BY <4>2, <4>3 DEF Converted
    <3>2. CASE ~Accepted(Head(incoming))
      BY <1>2, <3>2 DEF ConvertEntry, Converted
    <3> QED BY <3>1, <3>2
  <2> QED BY <1>2, <2>3, <2>4 DEF ConvertEntry, Converted, schedVars
<1>3. CASE UpdateTargets
  <2>1. Len(update') = 0
    BY <1>3, EmptySeq DEF UpdateTargets
  <2> QED BY <1>3, <2>1 DEF UpdateTargets, Converted
<1>4. CASE DrawTarget
  <2>1. Good(target')
    BY <1>4, DrawFacts DEF Converted
  <2> QED BY <1>4, <2>1 DEF DrawTarget, Converted, updVars
<1>5. CASE ProcessNextProbe
  BY <1>5 DEF ProcessNextProbe, Converted, schedVars, updVars
<1>6. CASE /\ UNCHANGED <<incoming, update, targets>>
           /\ target' \in {target, NoTarget}
           /\ worker' = "probing" => worker = "probing" /\ target' = target
  BY <1>6 DEF Converted
<1> QED BY <1>1, <1>2, <1>3, <1>4, <1>5, <1>6
  DEF Next, Worker, SelectStop, SelectDefault, NoNextTarget, Take,
      ProbeReturns, ServiceResult, ReadResult, ReaderEnds,
      Stop, StopReturns, Tick, vars, schedVars, updVars

(* Whatever the controller sends, only an RNIC of the agent that has a     *)
(* queue probes, and only RNICs of other hosts that it can reach           *)
(* (UpdatePinglist, processNextProbe).                                     *)
THEOREM OnlySoundProbes == Spec => []ProbesAreSound
<1>1. ConvertedInv => ProbesAreSound
  <2> SUFFICES ASSUME ConvertedInv, worker = "probing"
               PROVE  /\ target.src \in Queued
                      /\ target.host # LocalHost
                      /\ target.gid # target.src
                      /\ {target.src, target.gid} \subseteq LinkLocal =>
                           DeviceOf[target.src] = DeviceOf[target.gid]
    BY DEF ProbesAreSound
  <2>1. Probeable(target) /\ Good(target)
    BY DEF ConvertedInv, Converted, TypeOK
  <2>2. target.src \in LocalGids /\ LocalGids \subseteq Gids
    BY <2>1, MonitorAssumption DEF Probeable
  <2>3. NoDevice # DeviceOf[target.src]
    BY <2>2, MonitorAssumption DEF Range
  <2>4. SourceDevice(target) = DeviceOf[target.src]
    BY <2>1, <2>2, <2>3 DEF Good, DeviceTold, SourceDevice
  <2> QED BY <2>1, <2>4 DEF Probeable, Good, Accepted, ShouldSkipLinkLocal
<1> QED BY <1>1, InitConverted, NextConverted, PTL DEF Spec
=============================================================================
