---------------------------- MODULE MCOrderLedgers ----------------------------
(* OrderLedgers for TLC. *)
EXTENDS OrderLedgers

CONSTANTS s1, s2

OneStock == [s \in Signal |-> "A"]
=============================================================================
