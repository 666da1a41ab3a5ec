---------------------------- MODULE MCPaperAccount ----------------------------
(* PaperAccount for TLC.  A capital of 4 at prices of 1 and 2 buys up to   *)
(* three shares, so that a position can be sold in halves, and two         *)
(* positions compete for the cash; every trade costs 1 beside its price.   *)
EXTENDS PaperAccount, TLC

CONSTANTS e1, e2

Symmetry == Permutations({e1, e2})
=============================================================================
