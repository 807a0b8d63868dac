--------------------------- MODULE MCServiceFlow ---------------------------
EXTENDS ServiceFlow, TLC

CONSTANTS d1, d2, d3, n, p

(* Two services and an agent's queue that have the same QPN, each on its   *)
(* own device; one of the services only creates and destroys its own.      *)
MCQps == {<<d1, n>>, <<d2, n>>}
MCDestsOf == <<d1, n>> :> {p, NoDst} @@ <<d2, n>> :> {}
MCOwnQpns == d1 :> {} @@ d2 :> {} @@ d3 :> {n}
=============================================================================
