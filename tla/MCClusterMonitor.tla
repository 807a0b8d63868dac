-------------------------- MODULE MCClusterMonitor --------------------------
(* An instance of the cluster monitor: two local RNICs, one with a sender  *)
(* queue, two remote ones, and pinglists that grow, shrink, name a target  *)
(* twice and hold entries to be left out.                                  *)
EXTENDS ClusterMonitor

CONSTANTS l1, l2, q1, q2, d1, d2

MCGids == {l1, l2, q1, q2}
MCLocal == {l1, l2}
MCQueued == {l1}
MCLinkLocal == {l1, q1, q2}
MCDeviceOf == [g \in MCGids |-> IF g = q2 THEN d2 ELSE d1]

Entry(s, g, h, d) ==
  [complete |-> TRUE, src |-> s, gid |-> g, host |-> h, device |-> d]

MCPinglists == {
  <<>>,
  <<Entry(l1, q1, "remote", d1)>>,
  <<Entry(l1, q1, "remote", NoDevice), Entry(l2, q1, "remote", d1),
    Entry(l1, q2, "remote", d1)>>,
  <<Entry(l2, q2, "remote", d1), Entry(l1, l2, "local", d1),
    Entry(l1, q1, "remote", d1),
    [Entry(l1, q1, "remote", d1) EXCEPT !.complete = FALSE]>>,
  <<Entry(l1, q1, "remote", d1), Entry(l1, q1, "remote", d1),
    Entry(q1, q2, "remote", d2)>>}
=============================================================================
