---------------------------- MODULE MCAiCostGuard ----------------------------
(* AiCostGuard for TLC: a day's limit that one call nearly fills and a     *)
(* month's limit that a second call reaches.                               *)
EXTENDS AiCostGuard

CONSTANTS a1, a2, r1

MCLimit == [w \in Window |-> IF w = "day" THEN 3 ELSE 4]
=============================================================================
