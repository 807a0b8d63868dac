------------------------------ MODULE MCProber ------------------------------
(* Instances of the prober: one or two probed RNICs, cluster targets with  *)
(* the non-zero flow labels of a pinglist, and service targets whose label *)
(* is 0 because eBPF does not report one.                                  *)
EXTENDS Prober

CONSTANTS g1, g2, r1, r2

MCGids == {g1, g2}
MCRnics == {r1}
MCTwoRnics == {r1, r2}

ClusterTo(g, l) ==
  [gid |-> g, dst |-> g, label |-> l, src |-> r1, service |-> FALSE]
ServiceTo(g) ==
  [gid |-> g, dst |-> g, label |-> 0, src |-> r1, service |-> TRUE]

(* The second local RNIC has no sender queue. *)
Three == {ClusterTo(g1, 1), ClusterTo(g2, 2), [ServiceTo(g2) EXCEPT !.src = r2]}
Mixed == {ClusterTo(g1, 1), ServiceTo(g2)}
=============================================================================
