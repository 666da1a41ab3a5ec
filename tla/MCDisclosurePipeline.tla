------------------------- MODULE MCDisclosurePipeline -------------------------
(* DisclosurePipeline for TLC, with one filing of the past: two retries,   *)
(* the drain, a request of an operator and a sweep can meet at its         *)
(* document.                                                               *)
EXTENDS DisclosurePipeline

CONSTANTS d1, r1, r2, o1, s1
=============================================================================
