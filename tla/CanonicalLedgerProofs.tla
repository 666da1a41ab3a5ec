----------------------- MODULE CanonicalLedgerProofs -----------------------
(***************************************************************************)
(* Proofs about CanonicalLedger, for any number of trades and callers and  *)
(* any bound on the shares.                                                *)
(*                                                                         *)
(* The heart is StaleReadsBehind: what a transaction in flight has read of *)
(* an order is a past of its present, and its plan a past no older.  With it a commit that the triggers  *)
(* accept is one of few moves of the committed rows (CallMoves), and the   *)
(* invariants and the refinement follow from the moves.                    *)
(***************************************************************************)
EXTENDS CanonicalLedger, TLAPS

(* An order that had status from may now have status to. *)
Ahead(from, to) ==
  \/ from = to
  \/ from = "NEW" /\ to \in OrderStatus \ {"SUBMITTED"}
  \/ from = "PARTIAL" /\ to \in {"FILLED", "CANCELLED"}

(* The committed rows of a trade: in agreement, or torn by a kill. *)
Pairs == Agreeing \cup {<<"CANCELLED", "QUEUED">>}

RowsPaired == \A t \in Trade : <<order[t], plan[t]>> \in Pairs

(* The plan was read when the order was at m, no earlier than the call's   *)
(* own read of the order and no later than now.                            *)
ReadPast(from, p, now) ==
  \E m \in OrderStatus : Ahead(from, m) /\ Ahead(m, now) /\ <<m, p>> \in Pairs

StaleRead(c) ==
  tx[c] # Idle =>
    /\ Ahead(tx[c].order, order[tx[c].trade])
    /\ tx[c].read # "order" => ReadPast(tx[c].order, tx[c].plan, order[tx[c].trade])
    /\ tx[c].call = "fill" =>
         /\ tx[c].read = "fills" => tx[c].filled = filled[tx[c].trade]
         /\ tx[c].shares \in Shares
         /\ \A d \in Caller : tx[d].call = "fill" /\ tx[d].trade = tx[c].trade => d = c

StaleReadsBehind == \A c \in Caller : StaleRead(c)

IInv == TypeOK /\ RowsPaired /\ FillsTellStatus /\ StaleReadsBehind

(* The moves of the committed rows of trade t. *)
Places(t) ==
  /\ order[t] = "NONE"
  /\ \E n \in Shares : requested' = [requested EXCEPT ![t] = n]
  /\ order' = [order EXCEPT ![t] = "NEW"] /\ plan' = [plan EXCEPT ![t] = "APPROVED"]
  /\ UNCHANGED filled

Fills(t) ==
  /\ order[t] \in {"NEW", "PARTIAL"}
  /\ \E total \in Shares :
       /\ filled[t] < total /\ total <= requested[t]
       /\ filled' = [filled EXCEPT ![t] = total]
       /\ order' = [order EXCEPT ![t] = IF total = requested[t] THEN "FILLED" ELSE "PARTIAL"]
       /\ plan' = [plan EXCEPT ![t] = IF total = requested[t] THEN "EXECUTED" ELSE "QUEUED"]
  /\ UNCHANGED requested

Closes(t) ==
  /\ order[t] \in {"NEW", "PARTIAL"}
  /\ \/ /\ order' = [order EXCEPT ![t] = "CANCELLED"]
        /\ plan' = [plan EXCEPT ![t] = "CANCELLED"]
     \/ /\ order[t] = "NEW"
        /\ order' = [order EXCEPT ![t] = "REJECTED"]
        /\ plan' = [plan EXCEPT ![t] = "EXPIRED"]
  /\ UNCHANGED <<requested, filled>>

(* A kill with a torn read cancels the order and leaves its plan queued. *)
Tears(t) ==
  /\ order[t] = "PARTIAL" /\ plan[t] = "QUEUED"
  /\ order' = [order EXCEPT ![t] = "CANCELLED"]
  /\ UNCHANGED <<plan, requested, filled>>

(* A call that read before the tear cancels the queued plan after all. *)
Heals(t) ==
  /\ order[t] = "CANCELLED" /\ plan[t] = "QUEUED"
  /\ plan' = [plan EXCEPT ![t] = "CANCELLED"]
  /\ UNCHANGED <<order, requested, filled>>

Moves(t) == Places(t) \/ Fills(t) \/ Closes(t) \/ Tears(t) \/ Heals(t) \/ UNCHANGED rows

-----------------------------------------------------------------------------
LEMMA OpenTransaction ==
  ASSUME NEW s \in Transaction, s # Idle
  PROVE  /\ s.trade \in Trade /\ s.plan \in PlanStatus \cup {"NONE"}
         /\ s.order \in OrderStatus \ {"FILLED"}
         /\ s.call \in {"fill", "kill", "stale", "cancel"}
         /\ s.filled \in 0 .. MaxShares /\ s.shares \in 0 .. MaxShares
BY DEF Transaction, Idle

(* What a fill adds is positive while the order is incomplete, and stays   *)
(* within its quantity.                                                    *)
LEMMA AcceptedBounds ==
  ASSUME NEW n \in Shares, NEW size \in 0 .. MaxShares, NEW already \in 0 .. MaxShares,
         already <= size
  PROVE  /\ AcceptedShares(n, size, already) \in 0 .. MaxShares
         /\ already + AcceptedShares(n, size, already) <= size
         /\ AcceptedShares(n, size, already) = 0 <=> already = size
BY ConstantsAssumption DEF AcceptedShares, Shares

LEMMA FillMoves ==
  ASSUME IInv, NEW c \in Caller, CommitFill(c)
  PROVE  Moves(tx[c].trade)
<1> DEFINE s == tx[c]
           t == s.trade
           queued == IF s.plan = "APPROVED" THEN "QUEUED" ELSE plan[t]
           submitted == IF s.order = "NEW" THEN "SUBMITTED" ELSE order[t]
           accepted == AcceptedShares(s.shares, requested[t], s.filled)
           total == filled[t] + accepted
           done == Complete(requested[t], accepted, total)
<1>1. /\ s \in Transaction /\ s # Idle /\ s.call = "fill" /\ s.read = "fills"
      /\ StaleRead(c)
  BY DEF IInv, TypeOK, CommitFill, Idle, StaleReadsBehind
<1>2. /\ t \in Trade /\ s.shares \in Shares
      /\ s.order \in OrderStatus \ {"FILLED"}
  BY <1>1, OpenTransaction DEF StaleRead
<1>3. /\ ReadPast(s.order, s.plan, order[t])
      /\ Ahead(s.order, order[t]) /\ s.filled = filled[t]
  BY <1>1 DEF StaleRead
<1>4. /\ <<order[t], plan[t]>> \in Pairs
      /\ order[t] = "NONE" <=> requested[t] = 0
      /\ order[t] = "FILLED" <=> filled[t] = requested[t] /\ requested[t] > 0
      /\ filled[t] <= requested[t]
      /\ order[t] \in {"NEW", "REJECTED"} => filled[t] = 0
      /\ requested[t] \in 0 .. MaxShares /\ filled[t] \in 0 .. MaxShares
      /\ plan \in [Trade -> PlanStatus \cup {"NONE"}]
      /\ order \in [Trade -> (OrderStatus \ {"SUBMITTED"}) \cup {"NONE"}]
      /\ requested \in [Trade -> 0 .. MaxShares] /\ filled \in [Trade -> 0 .. MaxShares]
  BY <1>2 DEF IInv, TypeOK, RowsPaired, FillsTellStatus
<1>5. /\ accepted \in 0 .. MaxShares /\ filled[t] + accepted <= requested[t]
      /\ accepted = 0 <=> filled[t] = requested[t]
  <2>1. accepted = AcceptedShares(s.shares, requested[t], filled[t])
    BY <1>3
  <2>2. /\ requested[t] \in 0 .. MaxShares /\ filled[t] \in 0 .. MaxShares
        /\ filled[t] <= requested[t]
    BY <1>4
  <2>3. /\ AcceptedShares(s.shares, requested[t], filled[t]) \in 0 .. MaxShares
        /\ filled[t] + AcceptedShares(s.shares, requested[t], filled[t]) <= requested[t]
        /\ AcceptedShares(s.shares, requested[t], filled[t]) = 0 <=> filled[t] = requested[t]
    BY <1>2, <2>2, AcceptedBounds
  <2>4. QED
    BY <2>1, <2>3
<1>6. /\ filled' = [filled EXCEPT ![t] = total]
      /\ requested' = requested
      /\ IF accepted = 0 THEN Update(t, queued, queued, submitted, submitted)
         ELSE Update(t, queued, IF done THEN "EXECUTED" ELSE queued,
                     submitted, IF done THEN "FILLED" ELSE "PARTIAL")
  BY DEF CommitFill
<1>7. CASE accepted = 0
  <2>1. filled[t] = requested[t]
    BY <1>5, <1>7
  <2>2. order[t] = "FILLED"
    <3>1. order[t] # "NONE"
      BY <1>2, <1>3 DEF Ahead, OrderStatus
    <3>2. QED
      BY <1>4, <2>1, <3>1, ConstantsAssumption
  <2>3. Update(t, queued, queued, submitted, submitted)
    BY <1>6, <1>7
  <2>4. queued = plan[t] /\ submitted = order[t]
    <3>1. OrderUpdate(order[t], submitted)
      BY <2>3 DEF Update
    <3>2. s.order # "NEW"
      BY <2>2, <3>1 DEF OrderUpdate
    <3>3. s.plan # "APPROVED"
      BY <1>3, <3>2 DEF ReadPast, Ahead, Pairs, Agreeing, OrderStatus
    <3>4. QED
      BY <3>2, <3>3
  <2>5. UNCHANGED rows
    <3>1. filled' = filled
      <4>1. total = filled[t]
        BY <1>4, <1>7
      <4>2. QED
        BY <1>4, <1>6, <4>1
    <3>2. plan' = plan /\ order' = order
      <4>1. plan' = [plan EXCEPT ![t] = plan[t]] /\ order' = [order EXCEPT ![t] = order[t]]
        BY <2>3, <2>4 DEF Update
      <4>2. QED
        BY <1>4, <4>1
    <3>3. QED
      BY <1>6, <3>1, <3>2 DEF rows
  <2>6. QED
    BY <2>5 DEF Moves
<1>8. CASE accepted # 0
  <2>1. Update(t, queued, IF done THEN "EXECUTED" ELSE queued,
               submitted, IF done THEN "FILLED" ELSE "PARTIAL")
    BY <1>6, <1>8
  <2>2. /\ total \in Shares /\ filled[t] < total /\ total <= requested[t]
        /\ filled[t] # requested[t]
    BY <1>4, <1>5, <1>8, ConstantsAssumption DEF Shares
  <2>3. done <=> total = requested[t]
    BY <1>4, <1>5, <2>2, ConstantsAssumption DEF Complete, Shares
  <2>4. order[t] \in {"NEW", "PARTIAL"} /\ queued = "QUEUED"
    <3>1. order[t] # "FILLED"
      BY <1>4, <2>2
    <3>2. OrderUpdate(order[t], submitted) /\ PlanUpdate(plan[t], queued)
          /\ OrderUpdate(submitted, IF done THEN "FILLED" ELSE "PARTIAL")
      BY <2>1 DEF Update
    <3>3. order[t] \in {"NEW", "PARTIAL"}
      BY <1>2, <1>3, <1>4, <3>1, <3>2 DEF OrderUpdate, Pairs, Agreeing, Ahead, OrderStatus
    <3>4. CASE order[t] = "NEW"
      <4>1. s.plan = "APPROVED"
        BY <1>3, <3>4 DEF ReadPast, Ahead, Pairs, Agreeing, OrderStatus
      <4>2. QED
        BY <3>3, <4>1
    <3>5. CASE order[t] = "PARTIAL"
      <4>1. s.order # "NEW"
        BY <3>2, <3>5 DEF OrderUpdate
      <4>2. s.plan # "APPROVED"
        BY <1>3, <4>1 DEF ReadPast, Ahead, Pairs, Agreeing, OrderStatus
      <4>3. plan[t] = "QUEUED"
        BY <1>4, <3>5 DEF Pairs, Agreeing
      <4>4. QED
        BY <3>3, <4>2, <4>3
    <3>6. QED
      BY <3>3, <3>4, <3>5
  <2>5. Fills(t)
    <3>1. /\ order' = [order EXCEPT ![t] = IF total = requested[t] THEN "FILLED" ELSE "PARTIAL"]
          /\ plan' = [plan EXCEPT ![t] = IF total = requested[t] THEN "EXECUTED" ELSE "QUEUED"]
      BY <2>1, <2>3, <2>4 DEF Update
    <3>2. QED
      BY <1>6, <2>2, <2>4, <3>1 DEF Fills
  <2>6. QED
    BY <2>5 DEF Moves
<1>9. QED
  BY <1>7, <1>8

LEMMA StopMoves ==
  ASSUME IInv, NEW c \in Caller, CommitStop(c)
  PROVE  Moves(tx[c].trade)
<1> DEFINE s == tx[c]
           t == s.trade
           killed == s.call = "kill"
           p == IF s.plan # "APPROVED" THEN plan[t] ELSE IF killed THEN "CANCELLED" ELSE "EXPIRED"
           o == IF s.order # "NEW" THEN order[t] ELSE IF killed THEN "CANCELLED" ELSE "REJECTED"
<1>1. /\ s \in Transaction /\ s # Idle /\ s.read = "fills"
      /\ StaleRead(c)
  BY DEF IInv, TypeOK, CommitStop, Idle, StaleReadsBehind
<1>2. /\ t \in Trade /\ Ahead(s.order, order[t])
      /\ ReadPast(s.order, s.plan, order[t])
  BY <1>1, OpenTransaction DEF StaleRead
<1>3. /\ <<order[t], plan[t]>> \in Pairs
      /\ plan \in [Trade -> PlanStatus \cup {"NONE"}]
      /\ order \in [Trade -> (OrderStatus \ {"SUBMITTED"}) \cup {"NONE"}]
  BY <1>2 DEF IInv, TypeOK, RowsPaired
<1>4. Update(t, p, p, o, o) /\ UNCHANGED <<requested, filled>>
  BY DEF CommitStop
<1>5. /\ PlanUpdate(plan[t], p) /\ OrderUpdate(order[t], o)
      /\ plan' = [plan EXCEPT ![t] = p] /\ order' = [order EXCEPT ![t] = o]
  BY <1>4 DEF Update
<1>6. CASE s.order # "NEW"
  <2>1. s.plan # "APPROVED"
    BY <1>2, <1>6 DEF ReadPast, Ahead, Pairs, Agreeing, OrderStatus
  <2>2. UNCHANGED rows
    BY <1>3, <1>4, <1>5, <1>6, <2>1 DEF rows
  <2>3. QED
    BY <2>2 DEF Moves
<1>7. CASE s.order = "NEW" /\ killed
  <2>1. o = "CANCELLED"
    BY <1>7
  <2>2. order[t] \in {"NEW", "PARTIAL", "CANCELLED"}
    BY <1>3, <1>5, <2>1 DEF OrderUpdate, Pairs, Agreeing
  <2>3. CASE s.plan = "APPROVED"
    <3>1. p = "CANCELLED"
      BY <1>7, <2>3
    <3>2. CASE order[t] = "CANCELLED"
      <4>1. order' = order
        BY <1>3, <1>5, <2>1, <3>2
      <4>2. plan[t] = "CANCELLED" \/ plan[t] = "QUEUED"
        BY <1>3, <3>2 DEF Pairs, Agreeing
      <4>3. CASE plan[t] = "CANCELLED"
        <5>1. UNCHANGED rows
          BY <1>3, <1>4, <1>5, <3>1, <4>1, <4>3 DEF rows
        <5>2. QED
          BY <5>1 DEF Moves
      <4>4. CASE plan[t] = "QUEUED"
        BY <1>4, <1>5, <3>1, <3>2, <4>1, <4>4 DEF Moves, Heals
      <4>5. QED
        BY <4>2, <4>3, <4>4
    <3>3. CASE order[t] \in {"NEW", "PARTIAL"}
      BY <1>4, <1>5, <2>1, <3>1, <3>3 DEF Moves, Closes
    <3>4. QED
      BY <2>2, <3>2, <3>3
  <2>4. CASE s.plan # "APPROVED"
    <3>1. p = plan[t]
      BY <2>4
    <3>2. plan' = plan
      BY <1>3, <1>5, <3>1
    <3>3. order[t] # "NEW"
      BY <1>2, <2>4 DEF ReadPast, Ahead, Pairs, Agreeing, OrderStatus
    <3>4. CASE order[t] = "CANCELLED"
      <4>1. UNCHANGED rows
        BY <1>3, <1>4, <1>5, <2>1, <3>2, <3>4 DEF rows
      <4>2. QED
        BY <4>1 DEF Moves
    <3>5. CASE order[t] = "PARTIAL"
      <4>1. plan[t] = "QUEUED"
        BY <1>3, <3>5 DEF Pairs, Agreeing
      <4>2. QED
        BY <1>4, <1>5, <2>1, <3>2, <3>5, <4>1 DEF Moves, Tears
    <3>6. QED
      BY <2>2, <3>3, <3>4, <3>5
  <2>5. QED
    BY <2>3, <2>4
<1>8. CASE s.order = "NEW" /\ ~ killed
  <2>1. o = "REJECTED"
    BY <1>8
  <2>2. order[t] = "NEW" \/ (order[t] = "REJECTED" /\ plan[t] = "EXPIRED")
    BY <1>3, <1>5, <2>1 DEF OrderUpdate, Pairs, Agreeing, OrderStatus
  <2>3. CASE order[t] = "REJECTED" /\ plan[t] = "EXPIRED"
    <3>1. p = "EXPIRED"
      BY <1>8, <2>3
    <3>2. UNCHANGED rows
      BY <1>3, <1>4, <1>5, <2>1, <2>3, <3>1 DEF rows
    <3>3. QED
      BY <3>2 DEF Moves
  <2>4. CASE order[t] = "NEW"
    <3>1. s.plan = "APPROVED"
      BY <1>2, <2>4 DEF ReadPast, Ahead, Pairs, Agreeing, OrderStatus
    <3>2. p = "EXPIRED"
      BY <1>8, <3>1
    <3>3. QED
      BY <1>4, <1>5, <2>1, <2>4, <3>2 DEF Moves, Closes
  <2>5. QED
    BY <2>2, <2>3, <2>4
<1>9. QED
  BY <1>6, <1>7, <1>8

LEMMA CancelMoves ==
  ASSUME IInv, NEW c \in Caller, CommitCancel(c)
  PROVE  Moves(tx[c].trade)
<1> DEFINE s == tx[c]
           t == s.trade
           p == IF CancelsPlan(s.plan) THEN "CANCELLED" ELSE plan[t]
<1>1. /\ s \in Transaction /\ s # Idle /\ s.read = "plan"
      /\ StaleRead(c)
  BY DEF IInv, TypeOK, CommitCancel, Idle, StaleReadsBehind
<1>2. /\ t \in Trade /\ s.order \in OrderStatus \ {"FILLED"}
      /\ ReadPast(s.order, s.plan, order[t])
  BY <1>1, OpenTransaction DEF StaleRead
<1>3. /\ <<order[t], plan[t]>> \in Pairs
      /\ plan \in [Trade -> PlanStatus \cup {"NONE"}]
      /\ order \in [Trade -> (OrderStatus \ {"SUBMITTED"}) \cup {"NONE"}]
  BY <1>2 DEF IInv, TypeOK, RowsPaired
<1>4. /\ PlanUpdate(plan[t], p) /\ OrderUpdate(order[t], "CANCELLED")
      /\ plan' = [plan EXCEPT ![t] = p] /\ order' = [order EXCEPT ![t] = "CANCELLED"]
      /\ UNCHANGED <<requested, filled>>
  BY DEF CommitCancel, Update
<1>5. order[t] \in {"NEW", "PARTIAL"} \/ order[t] = "CANCELLED"
  BY <1>3, <1>4 DEF OrderUpdate, Pairs, Agreeing
<1>6. CASE order[t] = "CANCELLED"
  <2>1. order' = order
    BY <1>3, <1>4, <1>6
  <2>2. p = plan[t] \/ p = "CANCELLED"
    OBVIOUS
  <2>3. CASE p = plan[t]
    <3>1. UNCHANGED rows
      BY <1>3, <1>4, <2>1, <2>3 DEF rows
    <3>2. QED
      BY <3>1 DEF Moves
  <2>4. CASE p = "CANCELLED" /\ p # plan[t]
    <3>1. plan[t] = "QUEUED"
      BY <1>3, <1>6, <2>4 DEF Pairs, Agreeing
    <3>2. QED
      BY <1>4, <1>6, <2>1, <2>4, <3>1 DEF Moves, Heals
  <2>5. QED
    BY <2>2, <2>3, <2>4
<1>7. CASE order[t] \in {"NEW", "PARTIAL"}
  <2>1. s.plan \in {"APPROVED", "QUEUED"}
    BY <1>2, <1>7 DEF ReadPast, Ahead, Pairs, Agreeing, OrderStatus
  <2>2. p = "CANCELLED"
    BY <2>1 DEF CancelsPlan
  <2>3. QED
    BY <1>4, <1>7, <2>2 DEF Moves, Closes
<1>8. QED
  BY <1>5, <1>6, <1>7

-----------------------------------------------------------------------------
(* Every step moves the rows of one trade, in one of the five ways.        *)
LEMMA CallMoves ==
  ASSUME IInv, [Next]_vars
  PROVE  UNCHANGED rows \/ \E t \in Trade : Moves(t)
<1>1. CASE UNCHANGED vars
  BY <1>1 DEF vars
<1>2. ASSUME NEW t \in Trade, NEW n \in Shares, Reserve(t, n) PROVE \E u \in Trade : Moves(u)
  BY <1>2 DEF Reserve, Moves, Places
<1>3. ASSUME NEW c \in Caller, Call(c) PROVE UNCHANGED rows \/ \E t \in Trade : Moves(t)
  <2>1. CASE \/ \E t \in Trade, n \in Shares : BeginFill(c, t, n)
             \/ \E t \in Trade, reason \in {"kill", "stale"} : BeginStop(c, t, reason)
             \/ \E t \in Trade : BeginCancel(c, t)
             \/ ReadPlan(c) \/ ReadFills(c) \/ Abort(c)
    BY <2>1 DEF BeginFill, BeginStop, BeginCancel, Begin, ReadPlan, ReadFills, Abort
  <2>2. CASE CommitFill(c) \/ CommitStop(c) \/ CommitCancel(c)
    <3>1. tx[c].trade \in Trade
      BY <2>2, OpenTransaction DEF IInv, TypeOK, CommitFill, CommitStop, CommitCancel, Idle
    <3>2. QED
      BY <2>2, <3>1, FillMoves, StopMoves, CancelMoves
  <2>3. QED
    BY <1>3, <2>1, <2>2 DEF Call
<1>4. QED
  BY <1>1, <1>2, <1>3 DEF Next

LEMMA MovedRows ==
  ASSUME IInv, NEW t \in Trade, Moves(t)
  PROVE  /\ RowsPaired' /\ FillsTellStatus'
         /\ plan' \in [Trade -> PlanStatus \cup {"NONE"}]
         /\ order' \in [Trade -> (OrderStatus \ {"SUBMITTED"}) \cup {"NONE"}]
         /\ requested' \in [Trade -> 0 .. MaxShares]
         /\ filled' \in [Trade -> 0 .. MaxShares]
         /\ \A u \in Trade : order[u] # "NONE" => Ahead(order[u], order'[u])
<1> USE ConstantsAssumption DEF IInv, TypeOK, RowsPaired, FillsTellStatus, Pairs, Agreeing,
        OrderStatus, PlanStatus, Shares, Ahead
<1>1. CASE UNCHANGED rows
  BY <1>1 DEF rows
<1>2. CASE Places(t)
  <2>1. PICK n \in Shares : requested' = [requested EXCEPT ![t] = n]
    BY <1>2 DEF Places
  <2>2. filled[t] = 0
    BY <1>2 DEF Places
  <2>3. QED
    BY <1>2, <2>1, <2>2 DEF Places
<1>3. CASE Fills(t)
  <2>1. PICK total \in Shares :
          /\ filled[t] < total /\ total <= requested[t]
          /\ filled' = [filled EXCEPT ![t] = total]
          /\ order' = [order EXCEPT ![t] = IF total = requested[t] THEN "FILLED" ELSE "PARTIAL"]
          /\ plan' = [plan EXCEPT ![t] = IF total = requested[t] THEN "EXECUTED" ELSE "QUEUED"]
    BY <1>3 DEF Fills
  <2>2. CASE total = requested[t]
    BY <1>3, <2>1, <2>2 DEF Fills
  <2>3. CASE total # requested[t]
    BY <1>3, <2>1, <2>3 DEF Fills
  <2>4. QED
    BY <2>2, <2>3
<1>4. CASE Closes(t)
  <2>1. filled[t] # requested[t]
    BY <1>4 DEF Closes
  <2>2. order[t] = "NEW" => filled[t] = 0
    OBVIOUS
  <2>3. QED
    BY <1>4, <2>1, <2>2 DEF Closes
<1>5. CASE Tears(t) \/ Heals(t)
  BY <1>5 DEF Tears, Heals
<1>6. QED
  BY <1>1, <1>2, <1>3, <1>4, <1>5 DEF Moves

LEMMA AheadTransitive ==
  ASSUME NEW a, NEW b, NEW d, Ahead(a, b), Ahead(b, d)
  PROVE  Ahead(a, d)
BY DEF Ahead, OrderStatus

(* The fills of an order grow only in the commit of its sole filler. *)
LEMMA FilledByFiller ==
  ASSUME IInv, [Next]_vars, NEW t \in Trade, filled'[t] # filled[t]
  PROVE  \E c \in Caller : tx[c].call = "fill" /\ tx[c].trade = t /\ tx'[c] = Idle
<1>1. PICK c \in Caller : CommitFill(c)
  BY DEF Next, Call, vars, rows, Reserve, BeginFill, BeginStop, BeginCancel, Begin, ReadPlan,
         ReadFills, CommitStop, CommitCancel, Abort
<1>2. tx[c].call = "fill" /\ tx[c].trade = t
  BY <1>1 DEF CommitFill, IInv, TypeOK
<1>3. tx'[c] = Idle
  BY <1>1 DEF CommitFill, Close, IInv, TypeOK
<1>4. QED
  BY <1>2, <1>3

(* What a transaction's own steps do to it. *)
Opens(c) ==
  /\ tx[c] = Idle /\ UNCHANGED rows
  /\ tx'[c] \in Transaction /\ tx'[c].trade \in Trade
  /\ tx'[c].read = "order" /\ tx'[c].order = order[tx'[c].trade]
  /\ tx'[c].call = "fill" =>
       /\ tx'[c].shares \in Shares /\ SoleFiller(tx'[c].trade)
       /\ \A d \in Caller \ {c} : tx'[d] = tx[d]

Reads(c) ==
  /\ tx[c] # Idle /\ UNCHANGED rows
  /\ \/ tx'[c] = [tx[c] EXCEPT !.read = "plan", !.plan = plan[tx[c].trade]]
     \/ /\ tx[c].read = "plan"
        /\ tx'[c] = [tx[c] EXCEPT !.read = "fills", !.filled = filled[tx[c].trade]]
  /\ \A d \in Caller \ {c} : tx'[d] = tx[d]

(* A transaction opens by reading the order as it is, reads the plan and   *)
(* the fills as they are by then, and ends Idle.                           *)
LEMMA TransactionSteps ==
  ASSUME IInv, [Next]_vars, NEW c \in Caller
  PROVE  tx'[c] = tx[c] \/ tx'[c] = Idle \/ Opens(c) \/ Reads(c)
<1> USE DEF IInv, TypeOK
<1>1. CASE UNCHANGED vars \/ \E t \in Trade, n \in Shares : Reserve(t, n)
  BY <1>1 DEF vars, Reserve
<1>2. ASSUME NEW d \in Caller, Call(d), d # c PROVE tx'[c] = tx[c]
  BY <1>2 DEF Call, BeginFill, BeginStop, BeginCancel, Begin, ReadPlan, ReadFills, CommitFill,
              CommitStop, CommitCancel, Abort, Close
<1>3. CASE CommitFill(c) \/ CommitStop(c) \/ CommitCancel(c) \/ Abort(c)
  BY <1>3 DEF CommitFill, CommitStop, CommitCancel, Abort, Close
<1>4. ASSUME NEW t \in Trade, Fillable(t) PROVE order[t] \in OrderStatus \ {"FILLED"}
  BY <1>4 DEF Fillable
<1>5. ASSUME NEW t \in Trade, NEW call \in {"fill", "kill", "stale", "cancel"},
             NEW n \in 0 .. MaxShares, Fillable(t), Begin(c, t, call, n)
      PROVE  /\ tx[c] = Idle /\ UNCHANGED rows
             /\ tx'[c] \in Transaction /\ tx'[c].trade = t /\ tx'[c].call = call
             /\ tx'[c].read = "order" /\ tx'[c].order = order[t] /\ tx'[c].shares = n
             /\ \A d \in Caller \ {c} : tx'[d] = tx[d]
  <2>1. tx'[c] = [call |-> call, read |-> "order", trade |-> t, order |-> order[t],
                  plan |-> "NONE", filled |-> 0, shares |-> n]
    BY <1>5 DEF Begin
  <2>2. tx'[c] \in Transaction
    BY <1>4, <1>5, <2>1, ConstantsAssumption DEF Transaction
  <2>3. QED
    BY <1>5, <2>1, <2>2 DEF Begin
<1>6. ASSUME NEW t \in Trade, NEW n \in Shares, BeginFill(c, t, n) PROVE Opens(c)
  BY <1>5, <1>6 DEF BeginFill, Opens, Shares
<1>7. ASSUME NEW t \in Trade, NEW reason \in {"kill", "stale"}, BeginStop(c, t, reason)
      PROVE  Opens(c)
  BY <1>5, <1>7, ConstantsAssumption DEF BeginStop, Opens
<1>8. ASSUME NEW t \in Trade, BeginCancel(c, t) PROVE Opens(c)
  BY <1>5, <1>8, ConstantsAssumption DEF BeginCancel, Opens, Fillable
<1>9. CASE ReadPlan(c) \/ ReadFills(c)
  BY <1>9 DEF ReadPlan, ReadFills, Reads, Idle
<1>10. QED
  BY <1>1, <1>2, <1>3, <1>6, <1>7, <1>8, <1>9 DEF Next, Call

(* A read leaves a well formed transaction, about the same trade. *)
LEMMA ReadTypes ==
  ASSUME IInv, NEW c \in Caller, Reads(c)
  PROVE  /\ tx'[c] \in Transaction /\ tx[c].trade \in Trade
         /\ tx[c].order \in OrderStatus \ {"FILLED"}
         /\ tx'[c].trade = tx[c].trade /\ tx'[c].call = tx[c].call
         /\ tx'[c].order = tx[c].order /\ tx'[c].shares = tx[c].shares
         /\ \/ tx'[c].read = "plan" /\ tx'[c].plan = plan[tx[c].trade]
            \/ /\ tx[c].read = "plan" /\ tx'[c].read = "fills" /\ tx'[c].plan = tx[c].plan
               /\ tx'[c].filled = filled[tx[c].trade]
<1>1. /\ tx[c] \in Transaction \ {Idle} /\ tx[c].trade \in Trade
      /\ tx[c].order \in OrderStatus \ {"FILLED"}
  BY OpenTransaction DEF IInv, TypeOK, Reads
<1>2. plan[tx[c].trade] \in PlanStatus \cup {"NONE"} /\ filled[tx[c].trade] \in 0 .. MaxShares
  BY <1>1 DEF IInv, TypeOK
<1>3. QED
  BY <1>1, <1>2 DEF Reads, Transaction

-----------------------------------------------------------------------------
LEMMA InitIInv == Init => IInv
BY ConstantsAssumption
   DEF Init, IInv, TypeOK, RowsPaired, FillsTellStatus, StaleReadsBehind, StaleRead, Pairs,
       Agreeing, Transaction, PlanStatus, OrderStatus

LEMMA NextIInv == IInv /\ [Next]_vars => IInv'
<1> SUFFICES ASSUME IInv, [Next]_vars PROVE IInv'
  OBVIOUS
<1>1. /\ RowsPaired' /\ FillsTellStatus'
      /\ plan' \in [Trade -> PlanStatus \cup {"NONE"}]
      /\ order' \in [Trade -> (OrderStatus \ {"SUBMITTED"}) \cup {"NONE"}]
      /\ requested' \in [Trade -> 0 .. MaxShares]
      /\ filled' \in [Trade -> 0 .. MaxShares]
      /\ \A u \in Trade : order[u] # "NONE" => Ahead(order[u], order'[u])
  <2>1. CASE UNCHANGED rows
    BY <2>1 DEF rows, IInv, TypeOK, RowsPaired, FillsTellStatus, Ahead
  <2>2. QED
    BY <2>1, CallMoves, MovedRows
<1>2. tx' \in [Caller -> Transaction]
  <2>1. tx' = [c \in Caller |-> tx'[c]]
    BY DEF IInv, TypeOK, Next, Call, vars, rows, Reserve, BeginFill, BeginStop, BeginCancel, Begin,
           ReadPlan, ReadFills, CommitFill, CommitStop, CommitCancel, Abort, Close
  <2>2. \A c \in Caller : tx'[c] \in Transaction
    BY TransactionSteps, ReadTypes DEF IInv, TypeOK, Transaction, Opens
  <2>3. QED
    BY <2>1, <2>2
<1>3. ASSUME NEW c \in Caller PROVE StaleRead(c)'
  <2>1. CASE tx'[c] = Idle
    BY <2>1 DEF StaleRead
  <2>2. CASE tx'[c] # Idle /\ tx'[c] = tx[c]
    <3> DEFINE t == tx[c].trade
    <3>1. /\ tx[c] # Idle /\ t \in Trade /\ tx[c].order \in OrderStatus \ {"FILLED"}
          /\ StaleRead(c)
      BY <2>2, OpenTransaction DEF IInv, TypeOK, StaleReadsBehind
    <3>2. /\ Ahead(tx[c].order, order'[t])
          /\ tx[c].read # "order" => ReadPast(tx[c].order, tx[c].plan, order'[t])
      <4>1. Ahead(tx[c].order, order[t]) /\ order[t] # "NONE"
        BY <3>1 DEF StaleRead, Ahead, OrderStatus
      <4>2. Ahead(order[t], order'[t])
        BY <1>1, <3>1, <4>1
      <4>3. tx[c].read # "order" => ReadPast(tx[c].order, tx[c].plan, order[t])
        BY <3>1 DEF StaleRead
      <4>4. QED
        BY <4>1, <4>2, <4>3, AheadTransitive DEF ReadPast
    <3>3. ASSUME tx[c].call = "fill" PROVE filled'[t] = filled[t]
      <4>1. SUFFICES ASSUME filled'[t] # filled[t] PROVE FALSE
        OBVIOUS
      <4>2. PICK d \in Caller : tx[d].call = "fill" /\ tx[d].trade = t /\ tx'[d] = Idle
        BY <3>1, <4>1, FilledByFiller
      <4>3. d = c
        BY <3>1, <3>3, <4>2 DEF StaleRead
      <4>4. QED
        BY <2>2, <4>2, <4>3
    <3>4. ASSUME tx[c].call = "fill", NEW d \in Caller, tx'[d].call = "fill", tx'[d].trade = t
          PROVE  d = c
      <4>1. CASE tx[d].call = "fill" /\ tx[d].trade = t
        BY <3>1, <3>4, <4>1 DEF StaleRead
      <4>2. CASE Opens(d)
        BY <3>4, <4>2 DEF Opens, SoleFiller
      <4>3. CASE Reads(d)
        BY <3>4, <4>1, <4>3, ReadTypes
      <4>4. QED
        BY <3>4, <4>1, <4>2, <4>3, TransactionSteps DEF Idle
    <3>5. QED
      BY <2>2, <3>1, <3>2, <3>3, <3>4 DEF StaleRead
  <2>3. CASE tx'[c] # Idle /\ Opens(c)
    <3>1. ASSUME tx'[c].call = "fill", NEW d \in Caller, tx'[d].call = "fill",
                 tx'[d].trade = tx'[c].trade
          PROVE  d = c
      BY <2>3, <3>1 DEF Opens, SoleFiller
    <3>2. QED
      BY <2>3, <3>1 DEF Opens, StaleRead, rows, Ahead
  <2>4. CASE Reads(c)
    <3> DEFINE t == tx[c].trade
    <3>1. /\ UNCHANGED rows /\ tx[c] # Idle /\ StaleRead(c)
          /\ \A d \in Caller \ {c} : tx'[d] = tx[d]
      BY <2>4 DEF Reads, IInv, StaleReadsBehind
    <3>2. /\ t \in Trade /\ tx'[c].trade = t /\ tx'[c].call = tx[c].call
          /\ tx'[c].order = tx[c].order /\ tx'[c].shares = tx[c].shares
          /\ tx[c].order \in OrderStatus \ {"FILLED"}
          /\ \/ tx'[c].read = "plan" /\ tx'[c].plan = plan[t]
             \/ /\ tx[c].read = "plan" /\ tx'[c].read = "fills" /\ tx'[c].plan = tx[c].plan
                /\ tx'[c].filled = filled[t]
      BY <2>4, ReadTypes
    <3>3. Ahead(tx[c].order, order[t])
      BY <3>1 DEF StaleRead
    <3>4. ReadPast(tx[c].order, tx'[c].plan, order[t])
      <4>1. CASE tx'[c].plan = plan[t]
        <5>1. <<order[t], plan[t]>> \in Pairs
          BY <3>2 DEF IInv, RowsPaired
        <5>2. order[t] \in OrderStatus
          BY <3>2, <3>3 DEF Ahead, OrderStatus
        <5>3. QED
          BY <3>3, <4>1, <5>1, <5>2 DEF ReadPast, Ahead
      <4>2. CASE tx[c].read = "plan" /\ tx'[c].plan = tx[c].plan
        BY <3>1, <4>2 DEF StaleRead
      <4>3. QED
        BY <3>2, <4>1, <4>2
    <3>5. ASSUME tx[c].call = "fill", NEW d \in Caller, tx'[d].call = "fill", tx'[d].trade = t
          PROVE  d = c
      BY <3>1, <3>5 DEF StaleRead
    <3>6. order'[t] = order[t] /\ filled'[t] = filled[t]
      BY <3>1 DEF rows
    <3>7. tx[c].call = "fill" => tx[c].shares \in Shares
      BY <3>1 DEF StaleRead
    <3>8. tx'[c].read = "fills" => tx'[c].filled = filled[t]
      BY <3>2
    <3>9. QED
      BY <3>2, <3>3, <3>4, <3>5, <3>6, <3>7, <3>8 DEF StaleRead
  <2>5. QED
    BY <2>1, <2>2, <2>3, <2>4, TransactionSteps
<1>4. QED
  BY <1>1, <1>2, <1>3 DEF IInv, TypeOK, StaleReadsBehind

LEMMA Invariance == Spec => []IInv
BY InitIInv, NextIInv, PTL DEF Spec

(* The rows stay well formed: in particular no order is left SUBMITTED     *)
(* (recordFill, 338-388).                                                  *)
THEOREM TypeCorrect == Spec => []TypeOK
<1>1. IInv => TypeOK
  BY DEF IInv
<1>2. QED
  BY <1>1, Invariance, PTL

(* An order is torn from its plan by a kill alone, one that read them on   *)
(* either side of a partial fill.                                          *)
LEMMA TearsOnlyTorn ==
  ASSUME IInv, [Next]_vars, NEW t \in Trade, Tears(t)
  PROVE  TornKill(t)
<1>1. order[t] = "PARTIAL" /\ order'[t] = "CANCELLED" /\ plan'[t] = "QUEUED" /\ plan[t] = "QUEUED"
  BY DEF Tears, IInv, TypeOK
<1>2. PICK c \in Caller : CommitFill(c) \/ CommitStop(c) \/ CommitCancel(c)
  <2>1. order' # order
    BY <1>1
  <2>2. ASSUME NEW u \in Trade, NEW n \in Shares, Reserve(u, n) PROVE FALSE
    BY <1>1, <2>2 DEF Reserve, IInv, TypeOK
  <2>3. PICK c \in Caller : Call(c)
    BY <2>1, <2>2 DEF Next, vars, rows
  <2>4. QED
    BY <2>1, <2>3 DEF Call, rows, BeginFill, BeginStop, BeginCancel, Begin, ReadPlan, ReadFills,
                      Abort
<1> DEFINE s == tx[c]
<1>3. s \in Transaction /\ s # Idle /\ StaleRead(c) /\ s.read # "order"
  BY <1>2 DEF IInv, TypeOK, CommitFill, CommitStop, CommitCancel, Idle, StaleReadsBehind
<1>4. /\ s.trade \in Trade /\ s.order \in OrderStatus \ {"FILLED"}
      /\ ReadPast(s.order, s.plan, order[s.trade])
  BY <1>3, OpenTransaction DEF StaleRead
<1>5. s.trade = t
  BY <1>1, <1>2, <1>4 DEF CommitFill, CommitStop, CommitCancel, Update, IInv, TypeOK
<1>6. ~ CommitFill(c)
  <2>1. SUFFICES ASSUME CommitFill(c) PROVE FALSE
    OBVIOUS
  <2> DEFINE submitted == IF s.order = "NEW" THEN "SUBMITTED" ELSE order[t]
  <2>2. /\ OrderUpdate(order[t], submitted)
        /\ \E o \in {submitted, "FILLED", "PARTIAL"} : order' = [order EXCEPT ![t] = o]
    BY <1>5, <2>1 DEF CommitFill, Update
  <2>3. order'[t] \in {submitted, "FILLED", "PARTIAL"}
    BY <1>1, <2>2 DEF IInv, TypeOK
  <2>4. QED
    BY <1>1, <2>2, <2>3 DEF OrderUpdate
<1>7. ~ CommitCancel(c)
  <2>1. SUFFICES ASSUME CommitCancel(c) PROVE FALSE
    OBVIOUS
  <2>2. s.plan \in {"APPROVED", "QUEUED"}
    BY <1>1, <1>4, <1>5 DEF ReadPast, Ahead, Pairs, Agreeing, OrderStatus
  <2>3. plan' = [plan EXCEPT ![t] = "CANCELLED"]
    BY <1>5, <2>1, <2>2 DEF CommitCancel, CancelsPlan, Update
  <2>4. QED
    BY <1>1, <2>3 DEF IInv, TypeOK
<1>8. CommitStop(c)
  BY <1>2, <1>6, <1>7
<1> DEFINE killed == s.call = "kill"
           p == IF s.plan # "APPROVED" THEN plan[t] ELSE IF killed THEN "CANCELLED" ELSE "EXPIRED"
           o == IF s.order # "NEW" THEN order[t] ELSE IF killed THEN "CANCELLED" ELSE "REJECTED"
<1>9. plan' = [plan EXCEPT ![t] = p] /\ order' = [order EXCEPT ![t] = o]
  BY <1>5, <1>8 DEF CommitStop, Update
<1>10. plan'[t] = p /\ order'[t] = o
  BY <1>9 DEF IInv, TypeOK
<1>11. s.order = "NEW" /\ killed
  BY <1>1, <1>10
<1>12. s.plan # "APPROVED"
  BY <1>1, <1>10, <1>11
<1>13. s.plan = "QUEUED"
  BY <1>1, <1>4, <1>5, <1>11, <1>12 DEF ReadPast, Ahead, Pairs, Agreeing, OrderStatus
<1>14. QED
  BY <1>1, <1>5, <1>11, <1>13 DEF TornKill

(* Whatever commits between the reads of a call and before its writes,     *)
(* every step keeps plan and order in agreement or leaves the pair as it   *)
(* is, except a kill with a torn read (recordFill, recordCancellation and  *)
(* the two row triggers).                                                  *)
THEOREM PlanAlwaysFollowsOrder == Spec => PlanFollowsOrder
<1>1. ASSUME IInv, [Next]_vars, NEW t \in Trade PROVE KeepsAgreement(t)
  <2>1. CASE UNCHANGED rows
    BY <2>1 DEF rows, KeepsAgreement
  <2>2. ASSUME NEW u \in Trade, u # t, Moves(u) PROVE KeepsAgreement(t)
    <3>1. \/ plan' = plan \/ \E p : plan' = [plan EXCEPT ![u] = p]
      <4>1. CASE Places(u) \/ Fills(u)
        BY <4>1 DEF Places, Fills
      <4>2. CASE Closes(u) \/ Tears(u) \/ Heals(u) \/ UNCHANGED rows
        BY <4>2 DEF Closes, Tears, Heals, rows
      <4>3. QED
        BY <2>2, <4>1, <4>2 DEF Moves
    <3>2. \/ order' = order \/ \E o : order' = [order EXCEPT ![u] = o]
      <4>1. CASE Places(u) \/ Fills(u)
        BY <4>1 DEF Places, Fills
      <4>2. CASE Closes(u) \/ Tears(u) \/ Heals(u) \/ UNCHANGED rows
        BY <4>2 DEF Closes, Tears, Heals, rows
      <4>3. QED
        BY <2>2, <4>1, <4>2 DEF Moves
    <3>3. plan'[t] = plan[t] /\ order'[t] = order[t]
      BY <1>1, <2>2, <3>1, <3>2 DEF IInv, TypeOK
    <3>4. QED
      BY <3>3 DEF KeepsAgreement
  <2>3. CASE Places(t) \/ Closes(t) \/ Heals(t)
    BY <1>1, <2>3 DEF Places, Closes, Heals, KeepsAgreement, Agreeing, IInv, TypeOK
  <2>4. CASE Fills(t)
    <3>1. PICK total \in Shares :
            /\ order' = [order EXCEPT ![t] = IF total = requested[t] THEN "FILLED" ELSE "PARTIAL"]
            /\ plan' = [plan EXCEPT ![t] = IF total = requested[t] THEN "EXECUTED" ELSE "QUEUED"]
      BY <2>4 DEF Fills
    <3>2. /\ order'[t] = IF total = requested[t] THEN "FILLED" ELSE "PARTIAL"
          /\ plan'[t] = IF total = requested[t] THEN "EXECUTED" ELSE "QUEUED"
      BY <1>1, <3>1 DEF IInv, TypeOK
    <3>3. QED
      BY <3>2 DEF KeepsAgreement, Agreeing
  <2>5. CASE Tears(t)
    BY <1>1, <2>5, TearsOnlyTorn DEF KeepsAgreement
  <2>6. QED
    BY <1>1, <2>1, <2>2, <2>3, <2>4, <2>5, CallMoves DEF Moves
<1>2. IInv /\ [Next]_vars => [\A t \in Trade : KeepsAgreement(t)]_vars
  BY <1>1
<1>3. QED
  BY <1>2, Invariance, PTL DEF Spec, PlanFollowsOrder

(* The fills of an order are what its status says (recordFill, 344-388).   *)
THEOREM FillsAlwaysTellStatus == Spec => []FillsTellStatus
<1>1. IInv => FillsTellStatus
  BY DEF IInv
<1>2. QED
  BY <1>1, Invariance, PTL

-----------------------------------------------------------------------------
LEMMA BookInit == Init => Book!Init
BY DEF Init, Book!Init, Book!Nothing, BookOf, Stage

(* An update of the rows of one trade is an update of one entry of the book. *)
LEMMA BookUpdate ==
  ASSUME IInv, NEW t \in Trade, NEW p, NEW o,
         plan' = [plan EXCEPT ![t] = p], order' = [order EXCEPT ![t] = o],
         \A u \in Trade \ {t} : requested'[u] = requested[u] /\ filled'[u] = filled[u]
  PROVE  BookOf' = [BookOf EXCEPT ![t] =
                      [stage |-> Stage(t)', requested |-> requested'[t], filled |-> filled'[t]]]
<1>1. \A u \in Trade \ {t} : order'[u] = order[u]
  BY DEF IInv, TypeOK
<1>2. \A u \in Trade \ {t} : Stage(u)' = Stage(u)
  BY <1>1 DEF Stage
<1>3. \A u \in Trade \ {t} :
        /\ requested'[u] = requested[u] /\ filled'[u] = filled[u] /\ Stage(u)' = Stage(u)
  BY <1>2
<1>4. QED
  BY <1>3 DEF BookOf

LEMMA PlacesInBook ==
  ASSUME IInv, NEW t \in Trade, Places(t)
  PROVE  Book!Place(t)
<1>1. PICK n \in Shares : requested' = [requested EXCEPT ![t] = n]
  BY DEF Places
<1>2. BookOf[t] = [stage |-> "NOTHING", requested |-> 0, filled |-> 0]
  <2>1. requested[t] = 0 /\ filled[t] = 0
    BY DEF IInv, TypeOK, FillsTellStatus, Places
  <2>2. QED
    BY <2>1 DEF BookOf, Stage, Places
<1>3. BookOf' = [BookOf EXCEPT ![t] = [stage |-> Stage(t)', requested |-> requested'[t],
                                       filled |-> filled'[t]]]
  BY <1>1, BookUpdate DEF Places, IInv, TypeOK
<1>4. order'[t] = "NEW" /\ requested'[t] = n /\ filled'[t] = 0
  BY <1>1 DEF Places, IInv, TypeOK, FillsTellStatus
<1>5. Stage(t)' = "OPEN"
  BY <1>4 DEF Stage
<1>6. QED
  BY <1>1, <1>2, <1>3, <1>4, <1>5 DEF Book!Place, Book!Nothing, Shares

LEMMA FillsInBook ==
  ASSUME IInv, NEW t \in Trade, Fills(t)
  PROVE  Book!Fill(t)
<1>1. PICK total \in Shares :
        /\ filled[t] < total /\ total <= requested[t]
        /\ filled' = [filled EXCEPT ![t] = total]
        /\ order' = [order EXCEPT ![t] = IF total = requested[t] THEN "FILLED" ELSE "PARTIAL"]
        /\ plan' = [plan EXCEPT ![t] = IF total = requested[t] THEN "EXECUTED" ELSE "QUEUED"]
        /\ requested' = requested
  BY DEF Fills
<1>2. BookOf[t] = [stage |-> "OPEN", requested |-> requested[t], filled |-> filled[t]]
  BY DEF BookOf, Stage, Fills
<1>3. BookOf' = [BookOf EXCEPT ![t] = [stage |-> Stage(t)', requested |-> requested'[t],
                                       filled |-> filled'[t]]]
  BY <1>1, BookUpdate DEF IInv, TypeOK
<1>4. /\ order'[t] = IF total = requested[t] THEN "FILLED" ELSE "PARTIAL"
      /\ requested'[t] = requested[t] /\ filled'[t] = total
  BY <1>1 DEF IInv, TypeOK
<1>5. Stage(t)' = IF total = requested[t] THEN "DONE" ELSE "OPEN"
  BY <1>4 DEF Stage
<1>6. BookOf' = [BookOf EXCEPT ![t] = [stage |-> IF total = requested[t] THEN "DONE" ELSE "OPEN",
                                       requested |-> requested[t], filled |-> total]]
  BY <1>3, <1>4, <1>5
<1>7. /\ BookOf[t].stage = "OPEN"
      /\ BookOf[t].requested = requested[t] /\ BookOf[t].filled = filled[t]
  BY <1>2
<1>8. /\ total \in 1 .. MaxShares
      /\ BookOf[t].filled < total /\ total <= BookOf[t].requested
  BY <1>1, <1>7 DEF Shares
<1>9. BookOf' = [BookOf EXCEPT ![t] =
                   [stage |-> IF total = BookOf[t].requested THEN "DONE" ELSE "OPEN",
                    requested |-> BookOf[t].requested, filled |-> total]]
  BY <1>6, <1>7
<1>10. QED
  BY <1>7, <1>8, <1>9 DEF Book!Fill

LEMMA ClosesInBook ==
  ASSUME IInv, NEW t \in Trade, Closes(t) \/ Tears(t)
  PROVE  Book!End(t)
<1>1. PICK p \in PlanStatus, o \in {"CANCELLED", "REJECTED"} :
        /\ order' = [order EXCEPT ![t] = o] /\ plan' = [plan EXCEPT ![t] = p]
        /\ requested' = requested /\ filled' = filled
  <2>1. CASE Closes(t)
    BY <2>1 DEF Closes, PlanStatus
  <2>2. CASE Tears(t)
    <3>1. plan' = [plan EXCEPT ![t] = "QUEUED"]
      BY <2>2 DEF Tears, IInv, TypeOK
    <3>2. QED
      BY <2>2, <3>1 DEF Tears, PlanStatus
  <2>3. QED
    BY <2>1, <2>2
<1>2. BookOf[t] = [stage |-> "OPEN", requested |-> requested[t], filled |-> filled[t]]
  BY DEF BookOf, Stage, Closes, Tears
<1>3. BookOf' = [BookOf EXCEPT ![t] = [stage |-> Stage(t)', requested |-> requested'[t],
                                       filled |-> filled'[t]]]
  BY <1>1, BookUpdate
<1>4. order'[t] = o
  BY <1>1 DEF IInv, TypeOK
<1>5. Stage(t)' = "CLOSED"
  BY <1>4 DEF Stage
<1>6. BookOf' = [BookOf EXCEPT ![t] = [stage |-> "CLOSED", requested |-> requested[t],
                                       filled |-> filled[t]]]
  BY <1>1, <1>3, <1>5
<1>7. QED
  BY <1>2, <1>6 DEF Book!End

(* Each move of the rows is a step of the order book. *)
LEMMA BookNext == IInv /\ [Next]_vars => [Book!Next]_BookOf
<1> SUFFICES ASSUME IInv, [Next]_vars PROVE [Book!Next]_BookOf
  OBVIOUS
<1>1. CASE UNCHANGED rows
  BY <1>1 DEF rows, BookOf, Stage
<1>2. ASSUME NEW t \in Trade, Moves(t) PROVE [Book!Next]_BookOf
  <2>1. CASE Places(t) \/ Fills(t) \/ Closes(t) \/ Tears(t)
    BY <1>2, <2>1, PlacesInBook, FillsInBook, ClosesInBook DEF Book!Next
  <2>2. CASE Heals(t)
    BY <2>2 DEF Heals, BookOf, Stage
  <2>3. QED
    BY <1>1, <1>2, <2>1, <2>2 DEF Moves
<1>3. QED
  BY <1>1, <1>2, CallMoves

(* The two tables and the fills implement one order per trade, however     *)
(* many callers overlap and however the triggers refuse them.              *)
THEOREM ImplementsBook == Spec => BookSpec
BY BookInit, BookNext, Invariance, PTL DEF Spec, BookSpec, Book!Spec
=============================================================================
