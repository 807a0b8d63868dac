----------------------------- MODULE Controller -----------------------------
(***************************************************************************)
(* The control plane: agents that register their RNICs with the controller *)
(* when they start, the RNIC registry and the pinglists generated from it  *)
(* (internal/controller), and the pinglist updater of the agents           *)
(* (internal/agent), with agents that stop, crash and come back, calls     *)
(* that fail or time out, and registrations that the controller goes on    *)
(* with after the agent has given them up.                                 *)
(*                                                                         *)
(* The queue pair number of an RNIC stands for the incarnation of its      *)
(* agent.  Every agent sends the empty ToR ID, so that all RNICs are in    *)
(* one ToR, the ToR mesh is the whole registry and the inter-ToR list,     *)
(* which the updater only logs, is always empty.                           *)
(*                                                                         *)
(* Time is in units of which DayLen make up a day (UTC).                   *)
(***************************************************************************)
EXTENDS Integers, Sequences, FiniteSets

CONSTANTS
  Agents,
  Rnics,       \* GIDs
  RnicsOf,     \* the RNICs of each agent, in the order it detects them
  NoRow,
  DayLen,      \* a day
  Window,      \* the 5 minutes of the queries
  CleanupAge,  \* the 15 minutes of CleanupStaleEntries
  StartTime,   \* when the controller starts, by the time of its first day
  MaxTime,     \* bound: when a behaviour ends
  MaxInc,      \* bound: starts of an agent
  Restarting,  \* bound: the agents that stop, and start more than once
  Polling      \* bound: the agents whose pinglist updater runs

ASSUME ControllerAssumption ==
  /\ RnicsOf \in [Agents -> Seq(Rnics)]
  /\ \A a, b \in Agents : \A i \in DOMAIN RnicsOf[a], j \in DOMAIN RnicsOf[b] :
       RnicsOf[a][i] = RnicsOf[b][j] => a = b /\ i = j
  /\ \A a \in Agents : RnicsOf[a] # <<>>
  /\ {DayLen, Window, CleanupAge, MaxTime, MaxInc} \subseteq Nat
  /\ StartTime \in 0..MaxTime
  /\ NoRow \notin [qpn : Nat, updated : Nat]
  /\ Restarting \subseteq Agents /\ Polling \subseteq Agents
  /\ Window < CleanupAge /\ CleanupAge <= DayLen

VARIABLES
  now,
  rows,       \* the table rnics: queue pair number and last_updated
  agent,      \* down, registering, or up (Start has returned)
  inc,        \* incarnation of each agent
  handlers,   \* calls of RegisterAgent the controller is working on
  polling,    \* the RNIC the updater asks for next; 0 between updates
  collected,  \* updatePinglist: allTorTargets so far
  pinglist,   \* the targets given to the cluster monitor
  abandoned   \* history: agents that gave a registration up

vars == <<now, rows, agent, inc, handlers, polling, collected, pinglist,
          abandoned>>
agentVars == <<polling, collected, pinglist>>

Incs    == 1..MaxInc
Row     == [qpn : Incs, updated : 0..MaxTime]
Target  == [src : Rnics, gid : Rnics, qpn : Incs]
Handler == [agent : Agents, qpn : Incs, next : Nat]

(* last_updated has the form 2006-01-02T15:04:05Z and is compared, as a    *)
(* text, with datetime(...) of the form 2006-01-02 15:04:05.  The first    *)
(* ten characters decide; when they are equal, the T is greater than the   *)
(* blank, whatever the time of day.                                        *)
Day(t) == t \div DayLen

(* Mutant: the modifier of datetime('now', ...) is lost. *)
SameDay(r, age) == Day(r.updated) >= Day(now)

TextAfter(r, age)  == Day(r.updated) >= Day(now - age)
TextBefore(r, age) == Day(r.updated) < Day(now - age)

-----------------------------------------------------------------------------
Init ==
  /\ now = StartTime
  /\ rows = [g \in Rnics |-> NoRow]
  /\ agent = [a \in Agents |-> "down"]
  /\ inc = [a \in Agents |-> 0]
  /\ handlers = {}
  /\ polling = [a \in Agents |-> 0]
  /\ collected = [a \in Agents |-> {}]
  /\ pinglist = [a \in Agents |-> {}]
  /\ abandoned = {}

(* Agent.Start: new queue pairs, and a call of RegisterAgent. *)
Start(a) ==
  /\ agent[a] = "down"
  /\ inc[a] < MaxInc
  /\ a \in Restarting \/ inc[a] = 0
  /\ inc' = [inc EXCEPT ![a] = @ + 1]
  /\ agent' = [agent EXCEPT ![a] = "registering"]
  /\ handlers' = handlers \cup {[agent |-> a, qpn |-> inc[a] + 1, next |-> 1]}
  /\ UNCHANGED <<now, rows, agentVars, abandoned>>

(* The agent waits for the answer to this call. *)
Awaited(h) == agent[h.agent] = "registering" /\ inc[h.agent] = h.qpn

LastRnic(h) == h.next = Len(RnicsOf[h.agent])

(* What is left of a call after one RNIC, and what its answer does. *)
Proceed(h) ==
  /\ handlers' = (handlers \ {h}) \cup
                 (IF LastRnic(h) THEN {} ELSE {[h EXCEPT !.next = @ + 1]})
  /\ agent' = IF LastRnic(h) /\ Awaited(h)
              THEN [agent EXCEPT ![h.agent] = "up"] ELSE agent

(* RegisterRNIC: the row is inserted or replaced.  After the last RNIC the *)
(* call is answered.                                                       *)
RegisterRNIC(h) ==
  /\ rows' = [rows EXCEPT ![RnicsOf[h.agent][h.next]] =
                [qpn |-> h.qpn, updated |-> now]]
  /\ Proceed(h)
  /\ UNCHANGED <<now, inc, agentVars, abandoned>>

(* Mutant: the failure of a write is only logged. *)
RegisterFailureLogged(h) ==
  /\ Proceed(h)
  /\ UNCHANGED <<now, rows, inc, agentVars, abandoned>>

(* The write fails: the call is answered with Success false and Start      *)
(* returns an error; the rows written before stay.                         *)
RegisterRNICFails(h) ==
  /\ handlers' = handlers \ {h}
  /\ agent' = IF Awaited(h) THEN [agent EXCEPT ![h.agent] = "down"]
              ELSE agent
  /\ UNCHANGED <<now, rows, inc, agentVars, abandoned>>

(* The agent's call times out after 5 s, or the agent is killed; the       *)
(* controller does not look at the context of the call.                    *)
RegisterTimeout(a) ==
  /\ agent[a] = "registering"
  /\ agent' = [agent EXCEPT ![a] = "down"]
  /\ abandoned' = abandoned \cup {a}
  /\ UNCHANGED <<now, rows, inc, handlers, agentVars>>

(* The agent stops or crashes; it does not unregister. *)
StopAgent(a) ==
  /\ agent[a] = "up"
  /\ a \in Restarting
  /\ agent' = [agent EXCEPT ![a] = "down"]
  /\ polling' = [polling EXCEPT ![a] = 0]
  /\ collected' = [collected EXCEPT ![a] = {}]
  /\ pinglist' = [pinglist EXCEPT ![a] = {}]
  /\ UNCHANGED <<now, rows, inc, handlers, abandoned>>

-----------------------------------------------------------------------------
(* runPinglistUpdater starts an update, at once and at every tick. *)
Poll(a) ==
  /\ agent[a] = "up"
  /\ a \in Polling
  /\ polling[a] = 0
  /\ polling' = [polling EXCEPT ![a] = 1]
  /\ collected' = [collected EXCEPT ![a] = {}]
  /\ UNCHANGED <<now, rows, agent, inc, handlers, pinglist, abandoned>>

Asking(a)   == agent[a] = "up" /\ polling[a] \in DOMAIN RnicsOf[a]
AskedFor(a) == RnicsOf[a][polling[a]]

(* GetRNICsByToR and generateTorMeshPinglist for the requester g. *)
TorMesh(g) ==
  {[src |-> g, gid |-> h, qpn |-> rows[h].qpn] :
     h \in {h \in Rnics \ {g} :
              rows[h] # NoRow /\ TextAfter(rows[h], Window)}}

(* GetPinglist for one RNIC; its targets are added to those of the others. *)
GetPinglist(a) ==
  /\ Asking(a)
  /\ collected' = [collected EXCEPT ![a] = @ \cup TorMesh(AskedFor(a))]
  /\ polling' = [polling EXCEPT ![a] = @ + 1]
  /\ UNCHANGED <<now, rows, agent, inc, handlers, pinglist, abandoned>>

(* The call fails: the update goes on with the next RNIC. *)
GetPinglistFails(a) ==
  /\ Asking(a)
  /\ polling' = [polling EXCEPT ![a] = @ + 1]
  /\ UNCHANGED <<now, rows, agent, inc, handlers, collected, pinglist,
                 abandoned>>

(* Mutant: what could not be asked for is kept from the last update. *)
MergeTargets(a) == pinglist[a] \cup collected[a]

NewTargets(a) == collected[a]

(* UpdatePinglist: the targets replace those of the last update, even when *)
(* every call has failed.                                                  *)
UpdatePinglist(a) ==
  /\ agent[a] = "up"
  /\ polling[a] = Len(RnicsOf[a]) + 1
  /\ pinglist' = [pinglist EXCEPT ![a] = NewTargets(a)]
  /\ collected' = [collected EXCEPT ![a] = {}]
  /\ polling' = [polling EXCEPT ![a] = 0]
  /\ UNCHANGED <<now, rows, agent, inc, handlers, abandoned>>

Stale(g) == rows[g] # NoRow /\ TextBefore(rows[g], CleanupAge)

(* CleanupStaleEntries, when somebody runs it. *)
CleanupStaleEntries ==
  /\ \E g \in Rnics : Stale(g)
  /\ rows' = [g \in Rnics |-> IF Stale(g) THEN NoRow ELSE rows[g]]
  /\ UNCHANGED <<now, agent, inc, handlers, agentVars, abandoned>>

Tick ==
  /\ now < MaxTime
  /\ now' = now + 1
  /\ UNCHANGED <<rows, agent, inc, handlers, agentVars, abandoned>>

Update(a) ==
  Poll(a) \/ GetPinglist(a) \/ GetPinglistFails(a) \/ UpdatePinglist(a)

Next ==
  \/ \E h \in handlers : RegisterRNIC(h) \/ RegisterRNICFails(h)
  \/ \E a \in Agents :
       Start(a) \/ RegisterTimeout(a) \/ StopAgent(a) \/ Update(a)
  \/ CleanupStaleEntries
  \/ Tick

(* The updater of a running agent goes on; its calls succeed or fail. *)
Fairness == \A a \in Agents : WF_vars(Update(a))

Spec == Init /\ [][Next]_vars /\ Fairness

-----------------------------------------------------------------------------
(* Every variable has its type. *)
TypeOK ==
  /\ now \in 0..MaxTime
  /\ rows \in [Rnics -> Row \cup {NoRow}]
  /\ agent \in [Agents -> {"down", "registering", "up"}]
  /\ inc \in [Agents -> 0..MaxInc]
  /\ handlers \subseteq Handler
  /\ \A h \in handlers : h.next \in DOMAIN RnicsOf[h.agent]
  /\ polling \in [Agents -> Nat]
  /\ \A a \in Agents : polling[a] <= Len(RnicsOf[a]) + 1
  /\ collected \in [Agents -> SUBSET Target]
  /\ pinglist \in [Agents -> SUBSET Target]
  /\ abandoned \subseteq Agents

(* While an agent is up, the registry has no outdated queue pair for any   *)
(* of its RNICs, unless the agent once gave a registration up, which the   *)
(* controller may then have finished after the next one.                   *)
RowsCurrent ==
  \A a \in Agents \ abandoned :
    agent[a] = "up" =>
      \A i \in DOMAIN RnicsOf[a] :
        LET r == rows[RnicsOf[a][i]] IN r # NoRow => r.qpn = inc[a]

(* The answer to a pinglist request has every other RNIC registered within *)
(* the window, before midnight or after, and the age of those it has is    *)
(* bounded (GetRNICsByToR): by a day more than the window that the query   *)
(* names, since it compares texts of two formats.                          *)
PinglistsFresh ==
  [][\A a \in Agents : GetPinglist(a) =>
       \A g \in Rnics \ {AskedFor(a)} : rows[g] # NoRow =>
         LET t == [src |-> AskedFor(a), gid |-> g, qpn |-> rows[g].qpn]
         IN  /\ now - rows[g].updated <= Window => t \in collected'[a]
             /\ now - rows[g].updated >= DayLen + Window =>
                  t \notin TorMesh(AskedFor(a))]_vars

(* CleanupStaleEntries only removes rows that no query returns any more.   *)
CleanupHarmless ==
  [][\A g \in Rnics : rows[g] # NoRow /\ rows'[g] = NoRow =>
       ~TextAfter(rows[g], Window)]_vars

(* When an agent has come back with new queue pairs, the others stop       *)
(* probing the old ones, however many of their calls fail.                 *)
OldQpnsVanish ==
  \A a \in Restarting, q \in Incs \ {1} :
    agent[a] = "up" /\ inc[a] = q ~>
      \/ inc[a] > q \/ agent[a] # "up" \/ a \in abandoned
      \/ \A b \in Agents : \A t \in pinglist[b] :
           (\E i \in DOMAIN RnicsOf[a] : t.gid = RnicsOf[a][i]) => t.qpn >= q
=============================================================================
