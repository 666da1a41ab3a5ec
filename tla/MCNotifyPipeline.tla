--------------------------- MODULE MCNotifyPipeline ---------------------------
(* NotifyPipeline for TLC: a signal that two users watch; another signal,  *)
(* an alert and two filings for the first user, enough to pass a cap of    *)
(* one push by more than the two other senders allow.                      *)
EXTENDS NotifyPipeline, TLC

CONSTANTS u1, u2, s1, s2, a1, d1, d2, delta, full

AudienceDef == [r \in Ref |-> IF r = s1 THEN User ELSE {u1}]
ReachDef == [r \in Ref |-> {u1}]

Symmetry == Permutations({delta, full}) \cup Permutations({d1, d2})
=============================================================================
