-------------------------- MODULE MCCanonicalLedger --------------------------
(* CanonicalLedger for TLC; the callers are interchangeable. *)
EXTENDS CanonicalLedger, TLC

Symmetry == Permutations(Caller)
=============================================================================
