----------------------------- MODULE PathTracer -----------------------------
(***************************************************************************)
(* The tracer (internal/tracer/tracer.go): goroutines that run the         *)
(* traceroute command to a target, parse its output and put the path into  *)
(* the channel traceResults. A periodic goroutine traces its target again  *)
(* and again and is counted in periodicWg; a trace on demand, started for  *)
(* a probe that timed out, is counted nowhere. Close waits for the         *)
(* periodic ones and closes the channel.                                   *)
(*                                                                         *)
(* The actions leave the variables of the agent that uses the tracer       *)
(* alone: AgentLifecycle composes them with its own. A path is its trace,  *)
(* <<goroutine, number>>; the hops are left out.                           *)
(***************************************************************************)
EXTENDS Integers, Sequences, FiniteSets

CONSTANTS
  PeriodicTraceHopLimit, \* targets that are traced periodically
  OnDemand,              \* goroutines that a timed-out probe may start
  TraceCap,              \* capacity of traceResults
  MaxRuns                \* bound: traces of one periodic goroutine

ASSUME LimitAssumption == PeriodicTraceHopLimit \in Nat \ {0}

(* The goroutines of periodic tracing.                                     *)
Periodic == 1..PeriodicTraceHopLimit

ASSUME OnDemandAssumption == Periodic \cap OnDemand = {}
ASSUME TraceCapAssumption == TraceCap \in Nat \ {0}
ASSUME MaxRunsAssumption == MaxRuns \in Nat \ {0}

VARIABLES
  ctxDone,      \* the agent's context is cancelled
  tracing,      \* where each goroutine is
  runs,         \* the traces it has begun
  traceResults, \* Tracer.traceResults
  traceClosed,  \* it is closed
  crash         \* the panic that ended the process, or "no"

tracerVars == <<tracing, runs, traceResults, traceClosed>>

Tracers == Periodic \cup OnDemand

(* A goroutine sleeps before its first trace, runs the command, sends the  *)
(* path, and idles until the next tick.                                    *)
TracingStates == {"none", "sleep", "command", "send", "idle", "done"}

TracerTypeOK ==
  /\ ctxDone \in BOOLEAN
  /\ tracing \in [Tracers -> TracingStates]
  /\ runs \in [Tracers -> 0..MaxRuns]
  /\ traceResults \in Seq(Tracers \X (1..MaxRuns))
  /\ Len(traceResults) <= TraceCap
  /\ traceClosed \in BOOLEAN

NewTracer ==
  /\ ctxDone = FALSE
  /\ tracing = [t \in Tracers |-> "none"]
  /\ runs = [t \in Tracers |-> 0]
  /\ traceResults = <<>>
  /\ traceClosed = FALSE

(* What a goroutine does after a trace.                                    *)
AfterTrace(t) == IF t \in Periodic THEN "idle" ELSE "done"

(* A command is not started under a cancelled context, neither traceroute  *)
(* nor tracepath, and the trace fails at once.                             *)
Traced(t) == IF ctxDone THEN AfterTrace(t) ELSE "command"

(* StartPeriodicTracing starts goroutines for the first n targets, each of *)
(* which sleeps a while; StartPeriodicTracingToLocalhost starts one that   *)
(* traces at once.                                                         *)
StartPeriodicTracing(n) ==
  tracing' = [t \in Tracers |-> IF t \in Periodic /\ t <= n THEN "sleep"
                                                          ELSE tracing[t]]

StartPeriodicTracingToLocalhost ==
  /\ tracing' = [tracing EXCEPT ![1] = Traced(1)]
  /\ runs' = [runs EXCEPT ![1] = 1]

(* The result handler starts a goroutine for a probe that timed out.       *)
StartOnDemand(t) ==
  /\ t \in OnDemand
  /\ tracing[t] = "none"
  /\ tracing' = [tracing EXCEPT ![t] = Traced(t)]
  /\ runs' = [runs EXCEPT ![t] = 1]

(* The initial trace of a periodic goroutine, or one on a tick.            *)
TraceBegins(t) ==
  /\ tracing[t] \in {"sleep", "idle"}
  /\ runs[t] < MaxRuns
  /\ tracing' = [tracing EXCEPT ![t] = Traced(t)]
  /\ runs' = [runs EXCEPT ![t] = @ + 1]
  /\ UNCHANGED <<ctxDone, traceResults, traceClosed, crash>>

(* The commands fail: not installed, or ended or killed by the context     *)
(* without output.                                                         *)
TraceFails(t) ==
  /\ tracing[t] = "command"
  /\ tracing' = [tracing EXCEPT ![t] = AfterTrace(t)]
  /\ UNCHANGED <<ctxDone, runs, traceResults, traceClosed, crash>>

(* A command gave output. Also one that the context killed: its error is   *)
(* an ExitError, and what it printed is parsed.                            *)
TraceParsed(t) ==
  /\ tracing[t] = "command"
  /\ tracing' = [tracing EXCEPT ![t] = "send"]
  /\ UNCHANGED <<ctxDone, runs, traceResults, traceClosed, crash>>

(* t.traceResults <- pathInfo: blocks while the channel is full, panics    *)
(* once it is closed.                                                      *)
SendPath(t) ==
  /\ tracing[t] = "send"
  /\ IF traceClosed
       THEN /\ crash' = IF t \in Periodic THEN "periodicTrace" ELSE "onDemandTrace"
            /\ UNCHANGED <<tracing, traceResults>>
       ELSE /\ Len(traceResults) < TraceCap
            /\ traceResults' = Append(traceResults, <<t, runs[t]>>)
            /\ tracing' = [tracing EXCEPT ![t] = AfterTrace(t)]
            /\ UNCHANGED crash
  /\ UNCHANGED <<ctxDone, runs, traceClosed>>

(* The select of TracePeriodically sees the context cancelled.             *)
PeriodicEnds(t) ==
  /\ tracing[t] = "idle"
  /\ ctxDone
  /\ tracing' = [tracing EXCEPT ![t] = "done"]
  /\ UNCHANGED <<ctxDone, runs, traceResults, traceClosed, crash>>

(* Mutant: Close does not wait for the periodic traces.                    *)
CloseTracerNoWait ==
  /\ traceClosed' = TRUE
  /\ UNCHANGED <<tracing, runs, traceResults>>

(* Close: periodicWg.Wait, then close(traceResults).                       *)
CloseTracer ==
  /\ \A t \in Periodic : tracing[t] \in {"none", "done"}
  /\ traceClosed' = TRUE
  /\ UNCHANGED <<tracing, runs, traceResults>>

TracerStep(t) ==
  \/ TraceBegins(t)
  \/ TraceFails(t)
  \/ TraceParsed(t)
  \/ SendPath(t)
  \/ PeriodicEnds(t)
=============================================================================
