------------------------- MODULE MCStrategyVersions -------------------------
(* StrategyVersions for TLC: three rules, one per required category, and   *)
(* two submissions of which one lacks a category.                          *)
EXTENDS StrategyVersions, TLC

MCRule == {"entry", "exit", "sizing"}
MCCategoryOf == [r \in MCRule |-> CASE r = "entry" -> "ENTRY"
                                    [] r = "exit" -> "EXIT"
                                    [] r = "sizing" -> "SIZING"]

FullSet == {MCRule}
FullAndPartial == {MCRule, {"entry"}}

(* Requests, correlation ids, configurations and approvers are alike.      *)
Symmetry == Permutations(Process) \cup Permutations(Correlation) \cup Permutations(Config)
              \cup Permutations(Approvers)
=============================================================================
