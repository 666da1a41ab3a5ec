----------------------------- MODULE MCKillSwitch -----------------------------
(* KillSwitch for TLC: two processes, so that a release in one and an      *)
(* activation in the other can commit their rows in either order, each with *)
(* two runs whose batches overlap.                                         *)
EXTENDS KillSwitch, TLC

CONSTANTS p1, p2, c1, q1, r1, daily, intraday

Symmetry == Permutations({p1, p2}) \cup Permutations({daily, intraday})
=============================================================================
