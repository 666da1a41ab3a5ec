--------------------------- MODULE CanonicalLedger ---------------------------
(***************************************************************************)
(* The canonical paper ledger: per paper trade one order plan, one order   *)
(* and its fills, written beside the legacy tables by                      *)
(* src/backend/src/aos/execution/services/canonical-paper-ledger.service.ts *)
(* and guarded by the row triggers of                                      *)
(* src/backend/prisma/migrations/20260801030000_aos_canonical_paper_shadow. *)
(*                                                                         *)
(* Every call is one READ COMMITTED transaction.  Its nested findUnique is *)
(* one SELECT for the order, one for its plan and one for its fills, so    *)
(* another transaction may commit between any two of them, and again       *)
(* before the writes.  tx[c] is what caller c has read so far.  The writes *)
(* and the commit are one action: every call that writes updates the       *)
(* order's row, whose lock puts the calls in a sequence.  The triggers     *)
(* compare each write with the committed row; one refused write rolls the  *)
(* whole transaction back, and the tryRecord wrappers drop the call.       *)
(*                                                                         *)
(* Only quantities are kept of the fills (their sum), and prices, costs    *)
(* and receipts are left out.  The risk decision is the quantity it grants *)
(* (a call it blocks, or that lacks a pinned decision, writes no order).   *)
(***************************************************************************)
EXTENDS Naturals

CONSTANTS
  Trade,       \* paper trades
  Caller,      \* runners that may call the ledger at the same time
  MaxShares    \* bound: shares of an order or a fill

ASSUME ConstantsAssumption == MaxShares \in Nat \ {0}

Shares == 1 .. MaxShares

VARIABLES
  plan,        \* status of the order plan of each trade, "NONE" before its row
  order,       \* status of the order of each trade
  requested,   \* requested quantity of the order, 0 before its row
  filled,      \* sum of the fills recorded for the order
  tx           \* the transaction of each caller

rows == <<plan, order, requested, filled>>
vars == <<rows, tx>>

PlanStatus  == {"APPROVED", "QUEUED", "EXECUTED", "CANCELLED", "EXPIRED"}
OrderStatus == {"NEW", "SUBMITTED", "PARTIAL", "FILLED", "CANCELLED", "REJECTED"}

-----------------------------------------------------------------------------
(* The row triggers: the updates each status admits. *)
PlanUpdate(from, to) ==
  \/ from = to
  \/ from = "APPROVED" /\ to \in {"QUEUED", "CANCELLED", "EXPIRED"}
  \/ from = "QUEUED" /\ to \in {"EXECUTED", "CANCELLED", "EXPIRED"}

LaxOrderUpdate(from, to) ==                \* slip: a fill may reopen a cancelled order
  \/ from = to
  \/ from = "NEW" /\ to \in {"SUBMITTED", "CANCELLED", "REJECTED"}
  \/ from = "SUBMITTED" /\ to \in {"PARTIAL", "FILLED", "CANCELLED", "REJECTED"}
  \/ from \in {"PARTIAL", "CANCELLED"} /\ to \in {"PARTIAL", "FILLED", "CANCELLED"}

OrderUpdate(from, to) ==
  \/ from = to
  \/ from = "NEW" /\ to \in {"SUBMITTED", "CANCELLED", "REJECTED"}
  \/ from = "SUBMITTED" /\ to \in {"PARTIAL", "FILLED", "CANCELLED", "REJECTED"}
  \/ from = "PARTIAL" /\ to \in {"PARTIAL", "FILLED", "CANCELLED"}

(* A transaction, and what it has read of the order it is about: the order *)
(* first, its plan next, and (recordFill only) the fills last.             *)
Idle == [call |-> "idle"]

Transaction ==
  {Idle} \cup
  [call : {"fill", "kill", "stale", "cancel"}, read : {"order", "plan", "fills"},
   trade : Trade, order : OrderStatus \ {"FILLED"}, plan : PlanStatus \cup {"NONE"},
   filled : 0 .. MaxShares, shares : 0 .. MaxShares]

(* The rows of trade t become p and o, through the intermediate updates p1 *)
(* and o1 of the same transaction; otherwise some trigger refuses.         *)
Update(t, p1, p, o1, o) ==
  /\ PlanUpdate(plan[t], p1) /\ PlanUpdate(p1, p)
  /\ OrderUpdate(order[t], o1) /\ OrderUpdate(o1, o)
  /\ plan' = [plan EXCEPT ![t] = p]
  /\ order' = [order EXCEPT ![t] = o]

Close(c) == tx' = [tx EXCEPT ![c] = Idle]

-----------------------------------------------------------------------------
Init ==
  /\ plan = [t \in Trade |-> "NONE"]
  /\ order = [t \in Trade |-> "NONE"]
  /\ requested = [t \in Trade |-> 0]
  /\ filled = [t \in Trade |-> 0]
  /\ tx = [c \in Caller |-> Idle]

(* recordReservation: the risk decision grants n shares; plan and order    *)
(* are inserted together, and skipped if the trade already has them.       *)
Reserve(t, n) ==
  /\ order[t] = "NONE"
  /\ plan' = [plan EXCEPT ![t] = "APPROVED"]
  /\ order' = [order EXCEPT ![t] = "NEW"]
  /\ requested' = [requested EXCEPT ![t] = n]
  /\ UNCHANGED <<filled, tx>>

(* A call that has read the order and goes on; n is what a fill brings. *)
Begin(c, t, call, n) ==
  /\ tx[c] = Idle
  /\ tx' = [tx EXCEPT ![c] = [call |-> call, read |-> "order", trade |-> t,
                              order |-> order[t], plan |-> "NONE", filled |-> 0, shares |-> n]]
  /\ UNCHANGED rows

(* recordFill returns at once without an order, or for a FILLED one. *)
Fillable(t) == order[t] \notin {"NONE", "FILLED"}

(* A trade is filled by the one runner whose insert of the position passed *)
(* the unique index on open positions (paper-simulation.service.ts, 1497). *)
SoleFiller(t) == \A c \in Caller : ~ (tx[c].call = "fill" /\ tx[c].trade = t)

BeginFill(c, t, n) == Fillable(t) /\ SoleFiller(t) /\ Begin(c, t, "fill", n)

(* recordFill with the kill switch on ("kill"), or outside the validity of *)
(* the plan ("stale").                                                     *)
BeginStop(c, t, reason) == Fillable(t) /\ Begin(c, t, reason, 0)

(* recordCancellation *)
BeginCancel(c, t) ==
  /\ order[t] \notin {"NONE", "FILLED", "CANCELLED"}
  /\ Begin(c, t, "cancel", 0)

(* The SELECT of the plan, for whatever is committed by now. *)
ReadPlan(c) ==
  /\ tx[c] # Idle /\ tx[c].read = "order"
  /\ tx' = [tx EXCEPT ![c].read = "plan", ![c].plan = plan[tx[c].trade]]
  /\ UNCHANGED rows

(* The SELECT of the fills. *)
ReadFills(c) ==
  /\ tx[c].call \in {"fill", "kill", "stale"} /\ tx[c].read = "plan"
  /\ tx' = [tx EXCEPT ![c].read = "fills", ![c].filled = filled[tx[c].trade]]
  /\ UNCHANGED rows

(* The shares of a fill of n that the order still takes. *)
UncappedShares(n, size, already) == n      \* slip: the quantity is not clamped
AcceptedShares(n, size, already) ==
  IF size <= already THEN 0 ELSE IF n < size - already THEN n ELSE size - already

CompleteByOneFill(size, accepted, total) == accepted >= size  \* slip: earlier fills ignored
Complete(size, accepted, total) == total >= size

(* The plan is queued, the order submitted, the fill inserted, and then    *)
(* the order and, when it is complete, the plan move on the fresh sum.     *)
CommitFill(c) ==
  /\ tx[c].call = "fill" /\ tx[c].read = "fills"
  /\ LET t == tx[c].trade
         queued == IF tx[c].plan = "APPROVED" THEN "QUEUED" ELSE plan[t]
         submitted == IF tx[c].order = "NEW" THEN "SUBMITTED" ELSE order[t]
         accepted == AcceptedShares(tx[c].shares, requested[t], tx[c].filled)
         total == filled[t] + accepted
         done == Complete(requested[t], accepted, total)
     IN  /\ filled' = [filled EXCEPT ![t] = total]
         /\ IF accepted = 0 THEN Update(t, queued, queued, submitted, submitted)
            ELSE Update(t, queued, IF done THEN "EXECUTED" ELSE queued,
                        submitted, IF done THEN "FILLED" ELSE "PARTIAL")
  /\ Close(c)
  /\ UNCHANGED requested

(* recordFill with the kill switch on, or outside the validity of the      *)
(* plan: what has not started, as far as this call has read, is cancelled  *)
(* or expires.                                                             *)
CommitStop(c) ==
  /\ tx[c].call \in {"kill", "stale"} /\ tx[c].read = "fills"
  /\ LET t == tx[c].trade
         killed == tx[c].call = "kill"
         p == IF tx[c].plan # "APPROVED" THEN plan[t]
              ELSE IF killed THEN "CANCELLED" ELSE "EXPIRED"
         o == IF tx[c].order # "NEW" THEN order[t]
              ELSE IF killed THEN "CANCELLED" ELSE "REJECTED"
     IN  Update(t, p, p, o, o)
  /\ Close(c)
  /\ UNCHANGED <<requested, filled>>

CancelsUnqueued(p) == p = "APPROVED"       \* slip: a queued plan is left alone
CancelsPlan(p) == p \in {"APPROVED", "QUEUED"}

CommitCancel(c) ==
  /\ tx[c].call = "cancel" /\ tx[c].read = "plan"
  /\ LET t == tx[c].trade
         p == IF CancelsPlan(tx[c].plan) THEN "CANCELLED" ELSE plan[t]
     IN  Update(t, p, p, "CANCELLED", "CANCELLED")
  /\ Close(c)
  /\ UNCHANGED <<requested, filled>>

(* A trigger refuses a write, a deadlock, a timeout or a crash: nothing is *)
(* written, and the wrapper swallows the error.                            *)
Abort(c) ==
  /\ tx[c] # Idle
  /\ Close(c)
  /\ UNCHANGED rows

Call(c) ==
  \/ \E t \in Trade, n \in Shares : BeginFill(c, t, n)
  \/ \E t \in Trade, reason \in {"kill", "stale"} : BeginStop(c, t, reason)
  \/ \E t \in Trade : BeginCancel(c, t)
  \/ ReadPlan(c) \/ ReadFills(c)
  \/ CommitFill(c) \/ CommitStop(c) \/ CommitCancel(c)
  \/ Abort(c)

Next ==
  \/ \E t \in Trade, n \in Shares : Reserve(t, n)
  \/ \E c \in Caller : Call(c)

Spec == Init /\ [][Next]_vars

-----------------------------------------------------------------------------
(* The rows are well formed: no transaction leaves an order SUBMITTED or a *)
(* sum of fills that no order can have (recordFill, 326-396).              *)
TypeOK ==
  /\ plan \in [Trade -> PlanStatus \cup {"NONE"}]
  /\ order \in [Trade -> (OrderStatus \ {"SUBMITTED"}) \cup {"NONE"}]
  /\ requested \in [Trade -> 0 .. MaxShares]
  /\ filled \in [Trade -> 0 .. MaxShares]
  /\ tx \in [Caller -> Transaction]

(* Plan and order are two rows, read and moved by separate statements of   *)
(* transactions that overlap; every step leaves them telling the same      *)
(* story, with one exception: a kill that read the order before a partial  *)
(* fill committed and the plan after it cancels the order alone, and leaves *)
(* its plan QUEUED (recordFill, 298-330).                                  *)
Agreeing ==
  {<<"NONE", "NONE">>, <<"NEW", "APPROVED">>, <<"PARTIAL", "QUEUED">>, <<"FILLED", "EXECUTED">>,
   <<"CANCELLED", "CANCELLED">>, <<"REJECTED", "EXPIRED">>}

TornKill(t) ==
  /\ order[t] = "PARTIAL" /\ order'[t] = "CANCELLED" /\ plan'[t] = "QUEUED"
  /\ \E c \in Caller : /\ tx[c].call = "kill" /\ tx[c].trade = t
                      /\ tx[c].order = "NEW" /\ tx[c].plan = "QUEUED"

KeepsAgreement(t) ==
  \/ <<order'[t], plan'[t]>> \in Agreeing
  \/ <<order'[t], plan'[t]>> = <<order[t], plan[t]>>
  \/ TornKill(t)

PlanFollowsOrder == [][\A t \in Trade : KeepsAgreement(t)]_vars

(* The status of an order tells its fills: a complete one has exactly its  *)
(* quantity, an open, cancelled or rejected one less, and one that never   *)
(* started none at all.                                                    *)
FillsTellStatus ==
  \A t \in Trade :
    /\ order[t] = "NONE" <=> requested[t] = 0
    /\ order[t] = "FILLED" <=> filled[t] = requested[t] /\ requested[t] > 0
    /\ filled[t] <= requested[t]
    /\ order[t] = "PARTIAL" => filled[t] > 0
    /\ order[t] \in {"NEW", "REJECTED"} => filled[t] = 0

(* The two tables and the fills implement one order per trade: a fill      *)
(* needs an open order, and a closed or complete order never changes.      *)
Stage(t) ==
  CASE order[t] = "NONE" -> "NOTHING"
    [] order[t] \in {"NEW", "SUBMITTED", "PARTIAL"} -> "OPEN"
    [] order[t] = "FILLED" -> "DONE"
    [] order[t] \in {"CANCELLED", "REJECTED"} -> "CLOSED"

BookOf ==
  [t \in Trade |-> [stage |-> Stage(t), requested |-> requested[t], filled |-> filled[t]]]

Book == INSTANCE OrderBook WITH book <- BookOf

BookSpec == Book!Spec
=============================================================================
