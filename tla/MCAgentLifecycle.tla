------------------------- MODULE MCAgentLifecycle -------------------------
EXTENDS AgentLifecycle

CONSTANTS d, s

(* Tracing without the uploader, whose Close hides what comes after it,    *)
(* and with it; service flows; an eBPF tracer whose events no one wants;   *)
(* and the least.                                                          *)
MCConfigs == {{"tracer", "periodic", "onTimeout", "metrics"},
              {"tracer", "periodic", "analyzer"},
              {"ebpf", "flows", "metrics"},
              {"ebpf", "periodic", "onTimeout"},
              {}}
===========================================================================
