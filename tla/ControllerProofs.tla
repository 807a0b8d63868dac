-------------------------- MODULE ControllerProofs --------------------------
(***************************************************************************)
(* Proofs about the control plane, for any agents, RNICs, day, window and  *)
(* age of the cleanup: its types, that the registry is current for running *)
(* agents, what a pinglist holds, and that the cleanup harms no query.     *)
(***************************************************************************)
EXTENDS Controller, SequenceTheorems, TLAPS

(* Days do not run backwards, and a day makes a difference.                *)
LEMMA DayMonotone ==
  ASSUME NEW d \in Nat \ {0}, NEW x \in Int, NEW y \in Int, x <= y
  PROVE  x \div d <= y \div d
  OBVIOUS

LEMMA DayLater ==
  ASSUME NEW d \in Nat \ {0}, NEW x \in Int, NEW y \in Int, x + d <= y
  PROVE  x \div d < y \div d
  OBVIOUS

LEMMA DayInt ==
  ASSUME NEW d \in Nat \ {0}, NEW x \in Int
  PROVE  x \div d \in Int
  OBVIOUS

LEMMA Bounds ==
  /\ DayLen \in Nat \ {0} /\ Window \in Nat /\ CleanupAge \in Nat
  /\ MaxTime \in Nat /\ MaxInc \in Nat
  /\ StartTime \in 0..MaxTime
  /\ Window < CleanupAge
  BY ControllerAssumption

(* The RNICs of an agent.                                                  *)
LEMMA RnicsFacts ==
  ASSUME NEW a \in Agents
  PROVE  /\ RnicsOf[a] \in Seq(Rnics)
         /\ Len(RnicsOf[a]) \in Nat \ {0}
         /\ DOMAIN RnicsOf[a] = 1..Len(RnicsOf[a])
         /\ \A i \in DOMAIN RnicsOf[a] : RnicsOf[a][i] \in Rnics
<1>1. RnicsOf[a] \in Seq(Rnics) /\ RnicsOf[a] # <<>>
  BY ControllerAssumption
<1>2. Len(RnicsOf[a]) \in Nat \ {0} /\ DOMAIN RnicsOf[a] = 1..Len(RnicsOf[a])
  BY <1>1, LenProperties, EmptySeq
<1>3. \A i \in DOMAIN RnicsOf[a] : RnicsOf[a][i] \in Rnics
  BY <1>1, <1>2, ElementOfSeq
<1> QED BY <1>1, <1>2, <1>3

(* A call of RegisterAgent in progress, and what is left of it.            *)
LEMMA HandlerFacts ==
  ASSUME TypeOK, NEW h \in handlers
  PROVE  /\ h \in Handler /\ h.agent \in Agents /\ h.qpn \in Incs
         /\ h.next \in Nat /\ h.next \in DOMAIN RnicsOf[h.agent]
         /\ RnicsOf[h.agent][h.next] \in Rnics
<1>1. h \in Handler /\ h.next \in DOMAIN RnicsOf[h.agent]
  BY DEF TypeOK
<1>2. h.agent \in Agents /\ h.qpn \in Incs /\ h.next \in Nat
  BY <1>1 DEF Handler
<1> QED BY <1>1, <1>2, RnicsFacts

LEMMA ProceedFacts ==
  ASSUME TypeOK, NEW h \in handlers, Proceed(h)
  PROVE  /\ handlers' \subseteq Handler
         /\ \A k \in handlers' : k.next \in DOMAIN RnicsOf[k.agent]
         /\ agent' \in [Agents -> {"down", "registering", "up"}]
<1>1. /\ h \in Handler /\ h.agent \in Agents /\ h.qpn \in Incs
      /\ h.next \in Nat /\ h.next \in DOMAIN RnicsOf[h.agent]
  BY HandlerFacts
<1>2. agent' \in [Agents -> {"down", "registering", "up"}]
  BY <1>1 DEF Proceed, TypeOK
<1>3. CASE LastRnic(h)
  <2>1. handlers' \subseteq handlers
    BY <1>3 DEF Proceed
  <2> QED BY <1>2, <2>1 DEF TypeOK
<1>4. CASE ~LastRnic(h)
  <2> DEFINE k == [h EXCEPT !.next = @ + 1]
  <2>1. handlers' = (handlers \ {h}) \cup {k}
    BY <1>4 DEF Proceed
  <2>2. k \in Handler /\ k.agent = h.agent /\ k.next = h.next + 1
    BY <1>1 DEF Handler
  <2>3. k.next \in DOMAIN RnicsOf[k.agent]
    BY <1>1, <1>4, <2>2, RnicsFacts DEF LastRnic
  <2> HIDE DEF k
  <2> QED BY <1>2, <2>1, <2>2, <2>3 DEF TypeOK
<1> QED BY <1>3, <1>4

LEMMA InitType == Init => TypeOK
<1> SUFFICES ASSUME Init PROVE TypeOK
  OBVIOUS
<1>1. now \in 0..MaxTime /\ inc \in [Agents -> 0..MaxInc]
  BY Bounds DEF Init
<1>2. polling \in [Agents -> Nat] /\ \A a \in Agents : polling[a] <= Len(RnicsOf[a]) + 1
  BY RnicsFacts DEF Init
<1>3. collected \in [Agents -> SUBSET Target] /\ pinglist \in [Agents -> SUBSET Target]
  BY DEF Init
<1> QED BY <1>1, <1>2, <1>3 DEF Init, TypeOK

(* The targets of an answer.                                               *)
LEMMA TorMeshType ==
  ASSUME TypeOK, NEW g \in Rnics
  PROVE  TorMesh(g) \subseteq Target
<1> SUFFICES ASSUME NEW h \in Rnics \ {g}, rows[h] # NoRow
             PROVE  [src |-> g, gid |-> h, qpn |-> rows[h].qpn] \in Target
  BY DEF TorMesh
<1>1. rows[h] \in Row
  BY DEF TypeOK
<1> QED BY <1>1 DEF Row, Target

LEMMA NextType == TypeOK /\ [Next]_vars => TypeOK'
<1> SUFFICES ASSUME TypeOK, [Next]_vars PROVE TypeOK'
  OBVIOUS
<1>1. ASSUME NEW h \in handlers, RegisterRNIC(h) PROVE TypeOK'
  <2>1. RnicsOf[h.agent][h.next] \in Rnics /\ h.qpn \in Incs
    BY HandlerFacts
  <2>2. [qpn |-> h.qpn, updated |-> now] \in Row
    BY <2>1 DEF Row, TypeOK
  <2>3. rows' \in [Rnics -> Row \cup {NoRow}]
    BY <1>1, <2>1, <2>2 DEF RegisterRNIC, TypeOK
  <2>4. Proceed(h)
    BY <1>1 DEF RegisterRNIC
  <2> QED BY <1>1, <2>3, <2>4, ProceedFacts DEF RegisterRNIC, TypeOK, agentVars
<1>2. ASSUME NEW h \in handlers, RegisterRNICFails(h) PROVE TypeOK'
  <2>1. h.agent \in Agents
    BY HandlerFacts
  <2>2. agent' \in [Agents -> {"down", "registering", "up"}]
    BY <1>2, <2>1 DEF RegisterRNICFails, TypeOK
  <2> QED BY <1>2, <2>2 DEF RegisterRNICFails, TypeOK, agentVars
<1>3. ASSUME NEW a \in Agents, Start(a) PROVE TypeOK'
  <2> DEFINE k == [agent |-> a, qpn |-> inc[a] + 1, next |-> 1]
  <2>1. inc[a] \in 0..MaxInc /\ inc[a] < MaxInc /\ inc[a] + 1 \in 1..MaxInc
    BY <1>3, Bounds DEF Start, TypeOK
  <2>2. k \in Handler /\ k.next \in DOMAIN RnicsOf[k.agent]
    BY <2>1, RnicsFacts DEF Handler, Incs
  <2>3. handlers' = handlers \cup {k}
    BY <1>3 DEF Start
  <2> HIDE DEF k
  <2>4. handlers' \subseteq Handler /\ \A h \in handlers' : h.next \in DOMAIN RnicsOf[h.agent]
    BY <2>2, <2>3 DEF TypeOK
  <2>5. inc' \in [Agents -> 0..MaxInc]
    BY <1>3, <2>1 DEF Start, TypeOK
  <2>6. agent' \in [Agents -> {"down", "registering", "up"}]
    BY <1>3 DEF Start, TypeOK
  <2> QED BY <1>3, <2>4, <2>5, <2>6 DEF Start, TypeOK, agentVars
<1>4. ASSUME NEW a \in Agents, RegisterTimeout(a) PROVE TypeOK'
  BY <1>4 DEF RegisterTimeout, TypeOK, agentVars
<1>5. ASSUME NEW a \in Agents, StopAgent(a) PROVE TypeOK'
  <2>1. agent' \in [Agents -> {"down", "registering", "up"}]
    BY <1>5 DEF StopAgent, TypeOK
  <2>2. polling' \in [Agents -> Nat] /\ \A b \in Agents : polling'[b] <= Len(RnicsOf[b]) + 1
    BY <1>5, RnicsFacts DEF StopAgent, TypeOK
  <2>3. collected' \in [Agents -> SUBSET Target] /\ pinglist' \in [Agents -> SUBSET Target]
    BY <1>5 DEF StopAgent, TypeOK
  <2> QED BY <1>5, <2>1, <2>2, <2>3 DEF StopAgent, TypeOK
<1>6. ASSUME NEW a \in Agents, Poll(a) PROVE TypeOK'
  <2>1. polling' \in [Agents -> Nat] /\ \A b \in Agents : polling'[b] <= Len(RnicsOf[b]) + 1
    BY <1>6, RnicsFacts DEF Poll, TypeOK
  <2>2. collected' \in [Agents -> SUBSET Target]
    BY <1>6 DEF Poll, TypeOK
  <2> QED BY <1>6, <2>1, <2>2 DEF Poll, TypeOK
<1>7. ASSUME NEW a \in Agents, Asking(a),
             polling' = [polling EXCEPT ![a] = @ + 1]
      PROVE  /\ polling' \in [Agents -> Nat]
             /\ \A b \in Agents : polling'[b] <= Len(RnicsOf[b]) + 1
             /\ AskedFor(a) \in Rnics
  BY <1>7, RnicsFacts DEF Asking, AskedFor, TypeOK
<1>8. ASSUME NEW a \in Agents, GetPinglist(a) PROVE TypeOK'
  <2>1. Asking(a) /\ polling' = [polling EXCEPT ![a] = @ + 1]
    BY <1>8 DEF GetPinglist
  <2>2. TorMesh(AskedFor(a)) \subseteq Target
    BY <1>7, <2>1, TorMeshType
  <2>3. collected' \in [Agents -> SUBSET Target]
    BY <1>8, <2>2 DEF GetPinglist, TypeOK
  <2> QED BY <1>7, <1>8, <2>1, <2>3 DEF GetPinglist, TypeOK
<1>9. ASSUME NEW a \in Agents, GetPinglistFails(a) PROVE TypeOK'
  BY <1>7, <1>9 DEF GetPinglistFails, TypeOK
<1>10. ASSUME NEW a \in Agents, UpdatePinglist(a) PROVE TypeOK'
  <2>1. polling' \in [Agents -> Nat] /\ \A b \in Agents : polling'[b] <= Len(RnicsOf[b]) + 1
    BY <1>10, RnicsFacts DEF UpdatePinglist, TypeOK
  <2>2. collected' \in [Agents -> SUBSET Target] /\ pinglist' \in [Agents -> SUBSET Target]
    BY <1>10 DEF UpdatePinglist, NewTargets, TypeOK
  <2> QED BY <1>10, <2>1, <2>2 DEF UpdatePinglist, TypeOK
<1>11. ASSUME CleanupStaleEntries PROVE TypeOK'
  <2>1. rows' \in [Rnics -> Row \cup {NoRow}]
    BY <1>11 DEF CleanupStaleEntries, TypeOK
  <2> QED BY <1>11, <2>1 DEF CleanupStaleEntries, TypeOK, agentVars
<1>12. ASSUME Tick PROVE TypeOK'
  <2>1. now' \in 0..MaxTime
    BY <1>12, Bounds DEF Tick, TypeOK
  <2> QED BY <1>12, <2>1 DEF Tick, TypeOK, agentVars
<1>13. CASE UNCHANGED vars
  BY <1>13 DEF vars, TypeOK
<1> QED BY <1>1, <1>2, <1>3, <1>4, <1>5, <1>6, <1>8, <1>9, <1>10, <1>11,
           <1>12, <1>13 DEF Next, Update

(* Every variable has its type, and the loops over the RNICs of an agent   *)
(* stay within them.                                                       *)
THEOREM TypeCorrect == Spec => []TypeOK
<1> QED BY InitType, NextType, PTL DEF Spec

-----------------------------------------------------------------------------
(* The row of an RNIC, if it has one, is of the running incarnation.       *)
Current(a, i) ==
  rows[RnicsOf[a][i]] = NoRow \/ rows[RnicsOf[a][i]].qpn = inc[a]

(* The only call of an agent that has given none up is the one it waits    *)
(* for, and the RNICs that this call has dealt with are current.           *)
Waiting ==
  \A h \in handlers : h.agent \notin abandoned =>
    agent[h.agent] = "registering" /\ h.qpn = inc[h.agent]
OneCall ==
  \A h, k \in handlers : h.agent = k.agent /\ h.agent \notin abandoned => h = k
Written ==
  \A h \in handlers : h.agent \notin abandoned =>
    \A i \in DOMAIN RnicsOf[h.agent] : i < h.next => Current(h.agent, i)
Running ==
  \A a \in Agents \ abandoned : agent[a] = "up" =>
    \A i \in DOMAIN RnicsOf[a] : Current(a, i)

RegInv == TypeOK /\ Waiting /\ OneCall /\ Written /\ Running

LEMMA InitReg == Init => RegInv
  BY InitType DEF Init, RegInv, Waiting, OneCall, Written, Running

(* Rows and incarnations alone decide what is current.                     *)
LEMMA CurrentKept ==
  ASSUME NEW a \in Agents, NEW i \in DOMAIN RnicsOf[a], Current(a, i),
         inc'[a] = inc[a],
         rows'[RnicsOf[a][i]] \in {rows[RnicsOf[a][i]], NoRow}
  PROVE  Current(a, i)'
  BY DEF Current

(* A write makes its own RNIC current and leaves every other as it was.    *)
LEMMA WriteCurrent ==
  ASSUME TypeOK, NEW h \in handlers, RegisterRNIC(h),
         NEW a \in Agents, NEW i \in DOMAIN RnicsOf[a]
  PROVE  /\ a = h.agent /\ i = h.next /\ h.qpn = inc[a] => Current(a, i)'
         /\ ~(a = h.agent /\ i = h.next) /\ Current(a, i) => Current(a, i)'
<1> DEFINE g == RnicsOf[h.agent][h.next]
<1>1. /\ h.agent \in Agents /\ h.next \in DOMAIN RnicsOf[h.agent]
      /\ g \in Rnics /\ RnicsOf[a][i] \in Rnics
  BY HandlerFacts, RnicsFacts
<1>2. /\ rows' = [rows EXCEPT ![g] = [qpn |-> h.qpn, updated |-> now]]
      /\ inc' = inc
  BY DEF RegisterRNIC
<1>3. RnicsOf[a][i] = g => a = h.agent /\ i = h.next
  BY <1>1, ControllerAssumption
<1>4. rows \in [Rnics -> Row \cup {NoRow}]
  BY DEF TypeOK
<1>5. rows'[g].qpn = h.qpn
  BY <1>1, <1>2, <1>4
<1>6. RnicsOf[a][i] # g => rows'[RnicsOf[a][i]] = rows[RnicsOf[a][i]]
  BY <1>1, <1>2, <1>4
<1>7. ASSUME a = h.agent, i = h.next, h.qpn = inc[a] PROVE Current(a, i)'
  BY <1>2, <1>5, <1>7 DEF Current
<1>8. ASSUME ~(a = h.agent /\ i = h.next), Current(a, i) PROVE Current(a, i)'
  BY <1>2, <1>3, <1>6, <1>8 DEF Current
<1> QED BY <1>7, <1>8

LEMMA NextReg == RegInv /\ [Next]_vars => RegInv'
<1> SUFFICES ASSUME RegInv, [Next]_vars
             PROVE  Waiting' /\ OneCall' /\ Written' /\ Running'
  BY NextType DEF RegInv
<1> USE DEF RegInv
<1>0. \A h \in handlers : h.agent \in Agents
  BY HandlerFacts
<1>1. ASSUME NEW h \in handlers, RegisterRNIC(h)
      PROVE  Waiting' /\ OneCall' /\ Written' /\ Running'
  <2> DEFINE k == [h EXCEPT !.next = @ + 1]
  <2>1. /\ h.agent \in Agents /\ h.next \in DOMAIN RnicsOf[h.agent]
        /\ k.agent = h.agent /\ k.qpn = h.qpn /\ k.next = h.next + 1
    BY HandlerFacts DEF Handler
  <2>2. /\ handlers' = (handlers \ {h}) \cup (IF LastRnic(h) THEN {} ELSE {k})
        /\ agent' = IF LastRnic(h) /\ Awaited(h)
                    THEN [agent EXCEPT ![h.agent] = "up"] ELSE agent
        /\ inc' = inc /\ abandoned' = abandoned
    BY <1>1 DEF RegisterRNIC, Proceed
  <2> HIDE DEF k
  <2>3. agent \in [Agents -> {"down", "registering", "up"}]
    BY DEF TypeOK
  <2>4. \A b \in Agents : b # h.agent => agent'[b] = agent[b]
    BY <2>1, <2>2, <2>3
  <2>5. ASSUME h.agent \notin abandoned, LastRnic(h)
        PROVE  \A l \in handlers' : l.agent # h.agent
    BY <2>2, <2>5 DEF OneCall
  <2>6. ASSUME h.agent \notin abandoned
        PROVE  \A l \in handlers' : l.agent = h.agent => l = k /\ ~LastRnic(h)
    BY <2>2, <2>6 DEF OneCall
  <2>7. ~LastRnic(h) => agent' = agent
    BY <2>2
  <2>8. Waiting'
    <3> SUFFICES ASSUME NEW l \in handlers', l.agent \notin abandoned
                 PROVE  agent'[l.agent] = "registering" /\ l.qpn = inc[l.agent]
      BY <2>2 DEF Waiting
    <3>1. CASE l.agent = h.agent
      BY <2>1, <2>6, <2>7, <3>1 DEF Waiting
    <3>2. CASE l.agent # h.agent
      <4>1. l \in handlers
        BY <2>1, <2>2, <3>2
      <4> QED BY <1>0, <2>4, <3>2, <4>1 DEF Waiting
    <3> QED BY <3>1, <3>2
  <2>9. OneCall'
    <3> SUFFICES ASSUME NEW l \in handlers', NEW m \in handlers',
                        l.agent = m.agent, l.agent \notin abandoned
                 PROVE  l = m
      BY <2>2 DEF OneCall
    <3>1. CASE l.agent = h.agent
      BY <2>6, <3>1
    <3>2. CASE l.agent # h.agent
      BY <2>1, <2>2, <3>2 DEF OneCall
    <3> QED BY <3>1, <3>2
  <2>10. Written'
    <3> SUFFICES ASSUME NEW l \in handlers', l.agent \notin abandoned,
                        NEW i \in DOMAIN RnicsOf[l.agent], i < l.next
                 PROVE  Current(l.agent, i)'
      BY <2>2 DEF Written
    <3>1. CASE l.agent = h.agent
      <4>1. l = k /\ l.next = h.next + 1
        BY <2>1, <2>6, <3>1
      <4>2. h.qpn = inc[h.agent]
        BY <3>1 DEF Waiting
      <4>3. i = h.next \/ i < h.next
        BY <2>1, <3>1, <4>1, RnicsFacts
      <4>4. i < h.next => i # h.next /\ Current(h.agent, i)
        BY <2>1, <3>1, RnicsFacts DEF Written
      <4> QED BY <1>1, <2>1, <3>1, <4>2, <4>3, <4>4, WriteCurrent
    <3>2. CASE l.agent # h.agent
      <4>1. l \in handlers
        BY <2>1, <2>2, <3>2
      <4>2. Current(l.agent, i)
        BY <4>1 DEF Written
      <4> QED BY <1>0, <1>1, <3>2, <4>1, <4>2, WriteCurrent
    <3> QED BY <3>1, <3>2
  <2>11. Running'
    <3> SUFFICES ASSUME NEW a \in Agents, a \notin abandoned, agent'[a] = "up",
                        NEW i \in DOMAIN RnicsOf[a]
                 PROVE  Current(a, i)'
      BY <2>2 DEF Running
    <3>1. CASE a # h.agent
      <4>1. Current(a, i)
        BY <2>4, <3>1 DEF Running
      <4> QED BY <1>1, <3>1, <4>1, WriteCurrent
    <3>2. CASE a = h.agent
      <4>1. agent[a] = "registering" /\ h.qpn = inc[a]
        BY <3>2 DEF Waiting
      <4>2. LastRnic(h)
        BY <2>7, <4>1
      <4>3. i = h.next \/ i < h.next
        BY <2>1, <3>2, <4>2, RnicsFacts DEF LastRnic
      <4>4. i < h.next => i # h.next /\ Current(a, i)
        BY <2>1, <3>2, RnicsFacts DEF Written
      <4> QED BY <1>1, <3>2, <4>1, <4>3, <4>4, WriteCurrent
    <3> QED BY <3>1, <3>2
  <2> QED BY <2>8, <2>9, <2>10, <2>11
<1>2. ASSUME NEW h \in handlers, RegisterRNICFails(h)
      PROVE  Waiting' /\ OneCall' /\ Written' /\ Running'
  <2>1. /\ handlers' = handlers \ {h}
        /\ agent' = IF Awaited(h) THEN [agent EXCEPT ![h.agent] = "down"] ELSE agent
        /\ rows' = rows /\ inc' = inc /\ abandoned' = abandoned
    BY <1>2 DEF RegisterRNICFails
  <2>2. agent \in [Agents -> {"down", "registering", "up"}]
    BY DEF TypeOK
  <2>3. \A b \in Agents : /\ b # h.agent => agent'[b] = agent[b]
                          /\ agent'[b] = "up" => agent[b] = "up"
    BY <1>0, <2>1, <2>2
  <2>4. Waiting'
    <3> SUFFICES ASSUME NEW l \in handlers', l.agent \notin abandoned
                 PROVE  agent'[l.agent] = "registering" /\ l.qpn = inc[l.agent]
      BY <2>1 DEF Waiting
    <3>1. l \in handlers /\ l.agent # h.agent
      BY <2>1 DEF OneCall
    <3> QED BY <1>0, <2>3, <3>1 DEF Waiting
  <2>5. OneCall'
    BY <2>1 DEF OneCall
  <2>6. Written'
    BY <2>1 DEF Written, Current
  <2>7. Running'
    BY <2>1, <2>3 DEF Running, Current
  <2> QED BY <2>4, <2>5, <2>6, <2>7
<1>3. ASSUME NEW a \in Agents, Start(a)
      PROVE  Waiting' /\ OneCall' /\ Written' /\ Running'
  <2> DEFINE k == [agent |-> a, qpn |-> inc[a] + 1, next |-> 1]
  <2>1. /\ handlers' = handlers \cup {k}
        /\ agent' = [agent EXCEPT ![a] = "registering"]
        /\ inc' = [inc EXCEPT ![a] = inc[a] + 1]
        /\ agent[a] = "down"
        /\ rows' = rows /\ abandoned' = abandoned
    BY <1>3 DEF Start
  <2>2. k.agent = a /\ k.qpn = inc[a] + 1 /\ k.next = 1
    OBVIOUS
  <2> HIDE DEF k
  <2>3. /\ agent'[a] = "registering" /\ inc'[a] = inc[a] + 1
        /\ \A b \in Agents : b # a => agent'[b] = agent[b] /\ inc'[b] = inc[b]
    BY <2>1 DEF TypeOK
  <2>4. a \notin abandoned => \A h \in handlers : h.agent # a
    BY <2>1 DEF Waiting
  <2>5. \A l \in handlers' : l.agent \notin abandoned =>
          \/ l = k
          \/ l \in handlers /\ l.agent \in Agents /\ l.agent # a
    BY <1>0, <2>1, <2>4
  <2>6. Waiting'
    BY <2>1, <2>2, <2>3, <2>5 DEF Waiting
  <2>7. OneCall'
    BY <2>1, <2>2, <2>5 DEF OneCall
  <2>8. Written'
    <3> SUFFICES ASSUME NEW l \in handlers', l.agent \notin abandoned,
                        NEW i \in DOMAIN RnicsOf[l.agent], i < l.next
                 PROVE  Current(l.agent, i)'
      BY <2>1 DEF Written
    <3>1. l # k
      BY <2>2, RnicsFacts
    <3>2. l \in handlers /\ l.agent \in Agents /\ l.agent # a
      BY <2>5, <3>1
    <3>3. Current(l.agent, i)
      BY <3>2 DEF Written
    <3> QED BY <2>1, <2>3, <3>2, <3>3, CurrentKept
  <2>9. Running'
    <3> SUFFICES ASSUME NEW b \in Agents, b \notin abandoned, agent'[b] = "up",
                        NEW i \in DOMAIN RnicsOf[b]
                 PROVE  Current(b, i)'
      BY <2>1 DEF Running
    <3>1. b # a /\ agent[b] = "up"
      BY <2>3
    <3>2. Current(b, i)
      BY <3>1 DEF Running
    <3> QED BY <2>1, <2>3, <3>1, <3>2, CurrentKept
  <2> QED BY <2>6, <2>7, <2>8, <2>9
<1>4. ASSUME NEW a \in Agents, RegisterTimeout(a)
      PROVE  Waiting' /\ OneCall' /\ Written' /\ Running'
  <2>1. /\ handlers' = handlers /\ rows' = rows /\ inc' = inc
        /\ abandoned' = abandoned \cup {a}
        /\ \A b \in Agents : b # a => agent'[b] = agent[b]
    BY <1>4 DEF RegisterTimeout, TypeOK
  <2>2. Waiting'
    BY <1>0, <2>1 DEF Waiting
  <2>3. OneCall'
    BY <2>1 DEF OneCall
  <2>4. Written' /\ Running'
    BY <2>1 DEF Written, Running, Current
  <2> QED BY <2>2, <2>3, <2>4
<1>5. ASSUME NEW a \in Agents, StopAgent(a)
      PROVE  Waiting' /\ OneCall' /\ Written' /\ Running'
  <2>1. /\ handlers' = handlers /\ rows' = rows /\ inc' = inc
        /\ abandoned' = abandoned /\ agent[a] = "up" /\ agent'[a] = "down"
        /\ \A b \in Agents : b # a => agent'[b] = agent[b]
    BY <1>5 DEF StopAgent, TypeOK
  <2>2. Waiting'
    BY <1>0, <2>1 DEF Waiting
  <2>3. OneCall'
    BY <2>1 DEF OneCall
  <2>4. Written' /\ Running'
    BY <2>1 DEF Written, Running, Current
  <2> QED BY <2>2, <2>3, <2>4
<1>6. CASE UNCHANGED <<rows, agent, inc, handlers, abandoned>>
  BY <1>6 DEF Waiting, OneCall, Written, Running, Current
<1>7. ASSUME CleanupStaleEntries
      PROVE  Waiting' /\ OneCall' /\ Written' /\ Running'
  <2>1. /\ UNCHANGED <<agent, inc, handlers, abandoned>>
        /\ \A g \in Rnics : rows'[g] \in {rows[g], NoRow}
    BY <1>7 DEF CleanupStaleEntries
  <2>2. \A a \in Agents : \A i \in DOMAIN RnicsOf[a] :
          Current(a, i) => Current(a, i)'
    BY <2>1, RnicsFacts, CurrentKept
  <2>3. Waiting' /\ OneCall'
    BY <2>1 DEF Waiting, OneCall
  <2>4. Written'
    BY <1>0, <2>1, <2>2 DEF Written
  <2>5. Running'
    BY <2>1, <2>2 DEF Running
  <2> QED BY <2>3, <2>4, <2>5
<1>8. ASSUME NEW a \in Agents, Update(a)
      PROVE  UNCHANGED <<rows, agent, inc, handlers, abandoned>>
  BY <1>8 DEF Update, Poll, GetPinglist, GetPinglistFails, UpdatePinglist
<1>9. Tick \/ UNCHANGED vars => UNCHANGED <<rows, agent, inc, handlers, abandoned>>
  BY DEF Tick, vars
<1> QED BY <1>1, <1>2, <1>3, <1>4, <1>5, <1>6, <1>7, <1>8, <1>9 DEF Next

(* While an agent is up, the registry has no outdated queue pair for its   *)
(* RNICs, unless it once gave a registration up: RegisterAgent has written *)
(* them all, in the order of the request, before Start returns.            *)
THEOREM RegistryCurrent == Spec => []RowsCurrent
<1>1. RegInv => RowsCurrent
  BY DEF RegInv, Running, Current, RowsCurrent
<1> QED BY <1>1, InitReg, NextReg, PTL DEF Spec

-----------------------------------------------------------------------------
(* CleanupStaleEntries only removes rows that no query returns any more:   *)
(* both compare text, and the age of the cleanup exceeds the window.       *)
THEOREM CleanupIsHarmless == Spec => CleanupHarmless
<1>1. ASSUME TypeOK, [Next]_vars
      PROVE  [\A g \in Rnics : rows[g] # NoRow /\ rows'[g] = NoRow =>
                ~TextAfter(rows[g], Window)]_vars
  <2> SUFFICES ASSUME NEW g \in Rnics, rows[g] # NoRow, rows'[g] = NoRow
               PROVE  ~TextAfter(rows[g], Window)
    OBVIOUS
  <2>1. ASSUME NEW h \in handlers, RegisterRNIC(h) PROVE FALSE
    <3> DEFINE r == [qpn |-> h.qpn, updated |-> now]
    <3>1. h.qpn \in Nat /\ now \in Nat
      BY <1>1, HandlerFacts, Bounds DEF TypeOK, Incs
    <3>2. r # NoRow
      BY <3>1, ControllerAssumption
    <3>3. rows'[g] \in {r, rows[g]}
      BY <1>1, <2>1 DEF RegisterRNIC, TypeOK
    <3> QED BY <3>2, <3>3
  <2>2. CASE rows' = rows
    BY <2>2
  <2>3. CASE CleanupStaleEntries
    <3>1. Stale(g)
      BY <2>3 DEF CleanupStaleEntries
    <3>2. now \in Int /\ rows[g] \in Row /\ rows[g].updated \in Int
      BY <1>1, Bounds DEF TypeOK, Row
    <3>3. now - CleanupAge \in Int /\ now - Window \in Int
          /\ now - CleanupAge <= now - Window
      BY <3>2, Bounds
    <3>4. Day(now - CleanupAge) <= Day(now - Window)
      BY <3>3, Bounds, DayMonotone DEF Day
    <3>5. Day(rows[g].updated) \in Int /\ Day(now - CleanupAge) \in Int
          /\ Day(now - Window) \in Int
      BY <3>2, <3>3, Bounds, DayInt DEF Day
    <3>6. Day(rows[g].updated) < Day(now - CleanupAge)
      BY <3>1 DEF Stale, TextBefore
    <3> QED BY <3>4, <3>5, <3>6 DEF TextAfter
  <2> QED BY <1>1, <2>1, <2>2, <2>3
    DEF Next, RegisterRNICFails, Start, RegisterTimeout, StopAgent, Update,
        Poll, GetPinglist, GetPinglistFails, UpdatePinglist, Tick, vars
<1> QED BY <1>1, InitType, NextType, PTL DEF Spec, CleanupHarmless

(* An answer has every other RNIC registered within the window, whatever   *)
(* the length of the day and the time of midnight, and none registered a   *)
(* day and the window ago (GetRNICsByToR).                                 *)
THEOREM AnswersAreFresh == Spec => PinglistsFresh
<1>1. ASSUME TypeOK, NEW a \in Agents, GetPinglist(a),
             NEW g \in Rnics \ {AskedFor(a)}, rows[g] # NoRow
      PROVE  LET t == [src |-> AskedFor(a), gid |-> g, qpn |-> rows[g].qpn]
             IN  /\ now - rows[g].updated <= Window => t \in collected'[a]
                 /\ now - rows[g].updated >= DayLen + Window =>
                      t \notin TorMesh(AskedFor(a))
  <2> DEFINE t == [src |-> AskedFor(a), gid |-> g, qpn |-> rows[g].qpn]
  <2>1. now \in Int /\ rows[g].updated \in Int /\ now - Window \in Int
    BY <1>1, Bounds DEF TypeOK, Row
  <2>2. Day(rows[g].updated) \in Int /\ Day(now - Window) \in Int
    BY <2>1, Bounds, DayInt DEF Day
  <2>4. ASSUME now - rows[g].updated <= Window PROVE t \in collected'[a]
    <3>0. now - Window <= rows[g].updated
      BY <2>1, <2>4, Bounds
    <3>1. TextAfter(rows[g], Window)
      BY <2>1, <2>2, <3>0, Bounds, DayMonotone DEF TextAfter, Day
    <3>2. t \in TorMesh(AskedFor(a))
      BY <1>1, <3>1 DEF TorMesh
    <3> QED BY <1>1, <3>2 DEF GetPinglist, TypeOK
  <2>5. ASSUME now - rows[g].updated >= DayLen + Window
        PROVE  t \notin TorMesh(AskedFor(a))
    <3>1. rows[g].updated + DayLen <= now - Window
      BY <2>1, <2>5, Bounds
    <3>2. Day(rows[g].updated) < Day(now - Window)
      BY <2>1, <3>1, Bounds, DayLater DEF Day
    <3>3. ~TextAfter(rows[g], Window)
      BY <2>2, <3>2 DEF TextAfter
    <3> QED BY <3>3 DEF TorMesh
  <2> QED BY <2>4, <2>5
<1>2. TypeOK => [\A a \in Agents : GetPinglist(a) =>
                  \A g \in Rnics \ {AskedFor(a)} : rows[g] # NoRow =>
                    LET t == [src |-> AskedFor(a), gid |-> g, qpn |-> rows[g].qpn]
                    IN  /\ now - rows[g].updated <= Window => t \in collected'[a]
                        /\ now - rows[g].updated >= DayLen + Window =>
                             t \notin TorMesh(AskedFor(a))]_vars
  BY <1>1
<1> QED BY <1>2, TypeCorrect, PTL DEF PinglistsFresh
=============================================================================
