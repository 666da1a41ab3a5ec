------------------------------ MODULE OrderBook ------------------------------
(***************************************************************************)
(* What the canonical paper ledger promises of each paper trade: one order *)
(* with a fixed quantity, filled in steps that never exceed it, and closed *)
(* once.  A closed or completely filled order never changes again.         *)
(***************************************************************************)
EXTENDS Naturals

CONSTANTS Trade, MaxShares

VARIABLE book     \* [Trade -> an order, or nothing]

Nothing == [stage |-> "NOTHING", requested |-> 0, filled |-> 0]

Init == book = [t \in Trade |-> Nothing]

Place(t) == \E n \in 1 .. MaxShares :
  /\ book[t] = Nothing
  /\ book' = [book EXCEPT ![t] = [stage |-> "OPEN", requested |-> n, filled |-> 0]]

Fill(t) == \E total \in 1 .. MaxShares :
  /\ book[t].stage = "OPEN"
  /\ book[t].filled < total /\ total <= book[t].requested
  /\ book' = [book EXCEPT ![t] =
                [stage |-> IF total = book[t].requested THEN "DONE" ELSE "OPEN",
                 requested |-> book[t].requested, filled |-> total]]

End(t) ==
  /\ book[t].stage = "OPEN"
  /\ book' = [book EXCEPT ![t] =
                [stage |-> "CLOSED", requested |-> book[t].requested, filled |-> book[t].filled]]

Next == \E t \in Trade : Place(t) \/ Fill(t) \/ End(t)

Spec == Init /\ [][Next]_book
=============================================================================
