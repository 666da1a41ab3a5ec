----------------------------- MODULE PaperAccount -----------------------------
(***************************************************************************)
(* The positions of the simulated account and the cash that follows from   *)
(* them (engine5-trading-risk/paper-simulation/paper-simulation.service).  *)
(* Cash is stored nowhere: it is the capital, plus the results of the      *)
(* closed rows, minus the cost of the open ones.  Two runners work on the  *)
(* rows, each reading them once at the start of a stage and writing by id  *)
(* from what it read: the daily cycle and the intraday monitor.  The cron  *)
(* keeps them apart; POST run-once and POST reset do not.                  *)
(*                                                                         *)
(* A sale is three to four statements: the SELL trade; then the row closed *)
(* or, for half of a position at its profit target, a closed row of its    *)
(* own and the open row reduced; then the deferred judgment used up.       *)
(*                                                                         *)
(* A pass of entries also sets aside the commission of what it buys; the   *)
(* account meets it only when the shares are sold, in the result.          *)
(*                                                                         *)
(* How entries are reserved is in OrderLedgers.  Left out: slippage,       *)
(* valuations of open rows, and every trigger of an exit but the profit    *)
(* target and the stop, which the others join as a choice.                 *)
(***************************************************************************)
EXTENDS Integers, FiniteSetsExt

CONSTANTS
  Entry,       \* positions ever opened
  NoEntry,
  Capital, Price,
  Fee,         \* what a trade may cost beside its price: commissions and tax
  MaxShares,   \* bound: shares of an order
  MaxResets,   \* bound: resets of the simulation
  MaxTrouble   \* bound: runs cut off by an error or a crash, and runs and
               \* resets that start while a runner is at work

ASSUME ConstantsAssumption ==
  /\ {Capital, MaxShares, MaxResets, MaxTrouble} \subseteq Nat
  /\ Price \subseteq Nat \ {0} /\ Fee \subseteq Nat
  /\ IsFiniteSet(Entry) /\ NoEntry \notin Entry

Runner == {"daily", "intraday"}

VARIABLES
  pos,         \* the row of each position: a result only once it is closed
  part,        \* closed rows that partial sales added, summed by position
  bought, sold,\* shares of each position in BUY and in SELL trades
  mark,        \* the newest exit judgment, if its sale is deferred
  run,         \* where each runner is, and what it has read
  mixes,       \* runs and resets that started while a runner was at work
  cuts, resets

vars == <<pos, part, bought, sold, mark, run, mixes, cuts, resets>>

NoRow == [status |-> "NONE", cost |-> 0, qty |-> 0, pnl |-> 0]
Gone == [NoRow EXCEPT !.status = "GONE"]
Nothing == [qty |-> 0, pnl |-> 0]
Unread == [cost |-> 0, qty |-> 0, kind |-> "HOLD"]
NoRows == [e \in {} |-> Unread]
Idle == [at |-> "idle", rows |-> NoRows, of |-> NoEntry, row |-> Unread, price |-> 0,
         cash |-> 0, back |-> "idle"]

Init ==
  /\ pos = [e \in Entry |-> NoRow] /\ part = [e \in Entry |-> Nothing]
  /\ bought = [e \in Entry |-> 0] /\ sold = [e \in Entry |-> 0]
  /\ mark = [e \in Entry |-> "HOLD"]
  /\ run = [r \in Runner |-> Idle]
  /\ mixes = 0 /\ cuts = 0 /\ resets = 0

Open == {e \in Entry : pos[e].status = "OPEN"}
Realised(e) == part[e].pnl + IF pos[e].status = "CLOSED" THEN pos[e].pnl ELSE 0
Invested(e) == IF e \in Open THEN pos[e].cost * pos[e].qty ELSE 0
Cash == Capital + SumFunction([e \in Entry |-> Realised(e) - Invested(e)])

Becomes(r, to) == run' = [run EXCEPT ![r] = to]
Goes(r, at) == Becomes(r, [run[r] EXCEPT !.at = at])
(* A stage begins with a reading of the open rows, and takes one after the *)
(* other.                                                                  *)
Reads(r, at, es) ==
  Becomes(r, [Idle EXCEPT !.at = at, !.rows =
    [e \in es |-> [cost |-> pos[e].cost, qty |-> pos[e].qty,
                   kind |-> IF at = "exits" THEN mark[e] ELSE "HOLD"]]])
Without(rows, e) == [f \in DOMAIN rows \ {e} |-> rows[f]]
AtWork == \E r \in Runner : run[r].at # "idle"
Troubled == cuts + mixes < MaxTrouble
Mixes == IF AtWork THEN Troubled /\ mixes' = mixes + 1 ELSE UNCHANGED mixes

-----------------------------------------------------------------------------
(* The stages of the two runners.                                          *)

(* runDailyCycle, runIntradayExitMonitor: a flag of its own keeps each     *)
(* from overlapping itself.  fillPendingEntries reckons the cash once.     *)
Start(r) ==
  /\ run[r].at = "idle"
  /\ Becomes(r, [Idle EXCEPT !.at = "fill", !.cash = Cash])
  /\ Mixes
  /\ UNCHANGED <<pos, part, bought, sold, mark, cuts, resets>>

Lots == 1 .. MaxShares

(* slip: the cash of the pass is not reduced by what it has spent.         *)
Unspent(r, p, n, f) == run[r].cash
Left(r, p, n, f) == run[r].cash - (p * n + f)

(* fillPendingEntries: shares are cut to the cash that is left, from which *)
(* their price and commission are taken; the row has their price only.     *)
Fill(r) ==
  /\ run[r].at = "fill" /\ run[r].cash > 0
  /\ \E e \in Entry, p \in Price, n \in Lots, f \in Fee :
       /\ pos[e] = NoRow /\ p * n <= run[r].cash
       /\ pos' = [pos EXCEPT ![e] = [status |-> "OPEN", cost |-> p, qty |-> n, pnl |-> 0]]
       /\ bought' = [bought EXCEPT ![e] = n]
       /\ Becomes(r, [run[r] EXCEPT !.cash = Left(r, p, n, f)])
  /\ UNCHANGED <<part, sold, mark, mixes, cuts, resets>>

Marked == {e \in Open : mark[e] # "HOLD"}
EndFill(r) ==
  /\ run[r].at = "fill"
  /\ Reads(r, "exits", Marked)
  /\ UNCHANGED <<pos, part, bought, sold, mark, mixes, cuts, resets>>

(* executeSell is called for position e with judgment k at price p.        *)
Sells(r, e, k, p) ==
  Becomes(r, [run[r] EXCEPT !.at = "sell", !.of = e, !.price = p, !.back = run[r].at,
                            !.row = [run[r].rows[e] EXCEPT !.kind = k],
                            !.rows = Without(run[r].rows, e)])
Passes(r, e) == Becomes(r, [run[r] EXCEPT !.rows = Without(run[r].rows, e)])

(* executePendingExits: a position whose newest judgment is deferred is    *)
(* sold at the opening price, if there is one.                             *)
SellDeferred(r) ==
  /\ run[r].at = "exits"
  /\ \E e \in DOMAIN run[r].rows, p \in Price : Sells(r, e, run[r].rows[e].kind, p)
  /\ UNCHANGED <<pos, part, bought, sold, mark, mixes, cuts, resets>>

(* slip: the rows that were closed are valued like the others.             *)
EndExitsAll(r) ==
  /\ run[r].at = "exits"
  /\ Reads(r, IF r = "daily" THEN "value" ELSE "judge",
           {e \in Entry : pos[e].status \in {"OPEN", "CLOSED"}})
  /\ UNCHANGED <<pos, part, bought, sold, mark, mixes, cuts, resets>>

(* The others are carried over; the daily cycle goes on to the valuation.  *)
EndExits(r) ==
  /\ run[r].at = "exits"
  /\ Reads(r, IF r = "daily" THEN "value" ELSE "judge", Open)
  /\ UNCHANGED <<pos, part, bought, sold, mark, mixes, cuts, resets>>

(* snapshotOpenPositions writes a valuation by id, over whatever result a  *)
(* row that was closed meanwhile holds; a row that is gone ends the run.   *)
Value(r) ==
  /\ run[r].at = "value"
  /\ \E e \in DOMAIN run[r].rows, p \in Price :
       IF pos[e] = Gone THEN Becomes(r, Idle) /\ UNCHANGED pos
       ELSE /\ pos' = IF pos[e].status # "CLOSED" THEN pos
                      ELSE [pos EXCEPT ![e] = [@ EXCEPT !.pnl =
                              (p - run[r].rows[e].cost) * run[r].rows[e].qty]]
            /\ Passes(r, e)
  /\ UNCHANGED <<part, bought, sold, mark, mixes, cuts, resets>>

EndValue(r) ==
  /\ run[r].at = "value" /\ DOMAIN run[r].rows = {}
  /\ Reads(r, "judge", Open)
  /\ UNCHANGED <<pos, part, bought, sold, mark, mixes, cuts, resets>>

(* calculateExitScore: the profit target comes before every other trigger, *)
(* and it is looked at anew at every evaluation.                           *)
Judgments(row, p) ==
  IF p > row.cost THEN {"TAKE_PROFIT"}
  ELSE IF p < row.cost THEN {"EXIT"} ELSE {"HOLD", "EXIT"}

(* evaluateExits: the daily cycle defers the sale to the next opening, the *)
(* monitor sells at once, which also makes its judgment the newest.        *)
Judge(r) ==
  /\ run[r].at = "judge"
  /\ \E e \in DOMAIN run[r].rows, p \in Price : \E k \in Judgments(run[r].rows[e], p) :
       IF pos[e] = Gone THEN Becomes(r, Idle) /\ UNCHANGED mark
       ELSE /\ mark' = IF k = "HOLD" THEN mark
                       ELSE [mark EXCEPT ![e] = IF r = "daily" THEN k ELSE "HOLD"]
            /\ IF k = "HOLD" \/ r = "daily" THEN Passes(r, e) ELSE Sells(r, e, k, p)
  /\ UNCHANGED <<pos, part, bought, sold, mixes, cuts, resets>>

EndRun(r) ==
  /\ run[r].at = "judge" /\ DOMAIN run[r].rows = {}
  /\ Becomes(r, Idle)
  /\ UNCHANGED <<pos, part, bought, sold, mark, mixes, cuts, resets>>

-----------------------------------------------------------------------------
(* executeSell, on the row that the stage has read.                        *)

Row(r) == run[r].row
Partial(r) == Row(r).kind = "TAKE_PROFIT" /\ Row(r).qty >= 2
Shares(r) == IF Partial(r) THEN Row(r).qty \div 2 ELSE Row(r).qty
Result(r) == (run[r].price - Row(r).cost) * Shares(r)
(* The commissions and the tax of a sale: a fraction of a percent of what  *)
(* the shares bring.                                                       *)
Charge(r) == {f \in Fee : f <= run[r].price * Shares(r)}
Done(r) == [run[r] EXCEPT !.at = run[r].back, !.of = NoEntry, !.row = Unread, !.price = 0,
                          !.back = "idle"]
Booked(r) == IF run[r].back = "exits" THEN Goes(r, "use") ELSE Becomes(r, Done(r))

(* slip: the trade is always written for half of the position.             *)
SellTradeHalf(r) ==
  /\ run[r].at = "sell"
  /\ sold' = [sold EXCEPT ![run[r].of] = @ + Row(r).qty \div 2]
  /\ Goes(r, IF Partial(r) THEN "split" ELSE "close")
  /\ UNCHANGED <<pos, part, bought, mark, mixes, cuts, resets>>

SellTrade(r) ==
  /\ run[r].at = "sell"
  /\ sold' = [sold EXCEPT ![run[r].of] = @ + Shares(r)]
  /\ Goes(r, IF Partial(r) THEN "split" ELSE "close")
  /\ UNCHANGED <<pos, part, bought, mark, mixes, cuts, resets>>

(* A row that a reset has deleted cannot be updated: the run ends.         *)
CloseRow(r) ==
  /\ run[r].at = "close"
  /\ LET e == run[r].of IN
     IF pos[e] = Gone THEN Becomes(r, Idle) /\ UNCHANGED pos
     ELSE /\ \E f \in Charge(r) :
               pos' = [pos EXCEPT ![e] = [@ EXCEPT !.status = "CLOSED", !.pnl = Result(r) - f]]
          /\ Booked(r)
  /\ UNCHANGED <<part, bought, sold, mark, mixes, cuts, resets>>

(* slip: the shares that were sold get no row of their own.                *)
AddNoPart(r) ==
  /\ run[r].at = "split"
  /\ LET e == run[r].of IN
     pos' = [pos EXCEPT ![e] = [@ EXCEPT !.qty = Row(r).qty - Shares(r)]]
  /\ Goes(r, "shrink")
  /\ UNCHANGED <<part, bought, sold, mark, mixes, cuts, resets>>

AddPart(r) ==
  /\ run[r].at = "split"
  /\ \E f \in Charge(r) :
       part' = [part EXCEPT ![run[r].of] =
                  [qty |-> @.qty + Shares(r), pnl |-> @.pnl + Result(r) - f]]
  /\ Goes(r, "shrink")
  /\ UNCHANGED <<pos, bought, sold, mark, mixes, cuts, resets>>

Shrink(r) ==
  /\ run[r].at = "shrink"
  /\ LET e == run[r].of IN
     IF pos[e] = Gone THEN Becomes(r, Idle) /\ UNCHANGED pos
     ELSE /\ pos' = [pos EXCEPT ![e] = [@ EXCEPT !.qty = Row(r).qty - Shares(r)]]
          /\ Booked(r)
  /\ UNCHANGED <<part, bought, sold, mark, mixes, cuts, resets>>

(* The deferred judgment is used up, unless a newer one has replaced it.   *)
UseMark(r) ==
  /\ run[r].at = "use"
  /\ mark' = [mark EXCEPT ![run[r].of] = IF @ = Row(r).kind THEN "HOLD" ELSE @]
  /\ Becomes(r, Done(r))
  /\ UNCHANGED <<pos, part, bought, sold, mixes, cuts, resets>>

-----------------------------------------------------------------------------
(* resetSimulation: one transaction that no guard holds back.              *)
Reset ==
  /\ resets < MaxResets /\ resets' = resets + 1
  /\ pos' = [e \in Entry |-> IF pos[e] = NoRow THEN NoRow ELSE Gone]
  /\ part' = [e \in Entry |-> Nothing]
  /\ bought' = [e \in Entry |-> 0] /\ sold' = [e \in Entry |-> 0]
  /\ mark' = [e \in Entry |-> "HOLD"]
  /\ Mixes
  /\ UNCHANGED <<run, cuts>>

(* A statement fails or the process ends: the rest of the run is lost.     *)
CutOff(r) ==
  /\ run[r].at # "idle" /\ Troubled
  /\ cuts' = cuts + 1
  /\ Becomes(r, Idle)
  /\ UNCHANGED <<pos, part, bought, sold, mark, mixes, resets>>

Sell(r) == SellTrade(r) \/ CloseRow(r) \/ AddPart(r) \/ Shrink(r) \/ UseMark(r)
Stage(r) ==
  \/ Start(r) \/ Fill(r) \/ EndFill(r) \/ SellDeferred(r) \/ EndExits(r)
  \/ Value(r) \/ EndValue(r) \/ Judge(r) \/ EndRun(r)
Next == Reset \/ \E r \in Runner : Stage(r) \/ Sell(r) \/ CutOff(r)
Spec == Init /\ [][Next]_vars

-----------------------------------------------------------------------------
Kind == {"HOLD", "TAKE_PROFIT", "EXIT"}
PosRow == [status : {"NONE", "OPEN", "CLOSED", "GONE"}, cost : Nat, qty : Nat, pnl : Int]
ReadRow == [cost : Nat, qty : Nat, kind : Kind]
Selling == {"sell", "close", "split", "shrink", "use"}
RunState(reads) ==
  [at : {"idle", "fill", "exits", "value", "judge"} \union Selling,
   rows : reads,
   of : Entry \union {NoEntry}, row : ReadRow, price : Nat, cash : Int,
   back : {"idle", "exits", "judge"}]

TablesOK ==
  /\ pos \in [Entry -> PosRow] /\ part \in [Entry -> [qty : Nat, pnl : Int]]
  /\ bought \in [Entry -> Nat] /\ sold \in [Entry -> Nat]
  /\ mark \in [Entry -> Kind]
  /\ \A e \in Entry : pos[e].status \in {"OPEN", "CLOSED"} => pos[e].qty > 0 /\ pos[e].cost > 0
  /\ mixes \in 0 .. MaxTrouble /\ cuts \in 0 .. MaxTrouble /\ resets \in 0 .. MaxResets
HandOK(r) ==
  /\ run[r].at \in Selling <=> run[r].of \in Entry
  /\ run[r].at \in Selling <=> run[r].back # "idle"
  /\ run[r].at \in {"split", "shrink"} => Partial(r)
  /\ run[r].at = "close" => ~ Partial(r)

(* Types; a runner in a sale has a position in hand, of which it sells     *)
(* half exactly at a profit target (paper-simulation.service.ts:1914).     *)
TypeOK ==
  /\ TablesOK
  /\ run = [r \in Runner |-> run[r]]
  /\ \A r \in Runner :
       /\ run[r] \in RunState({run[r].rows})
       /\ DOMAIN run[r].rows \subseteq Entry
       /\ run[r].rows \in [DOMAIN run[r].rows -> ReadRow]
       /\ HandOK(r)

(* The shares of a position that are held and that were sold in parts are  *)
(* those that were bought.  A cut-off in the middle of a partial sale, or  *)
(* runs that mix, may count some twice; none is ever lost                  *)
(* (paper-simulation.service.ts:1956-1988).                                *)
Splitting(e) == \E r \in Runner : run[r].at = "shrink" /\ run[r].of = e
SharesConserved ==
  \A e \in Entry : pos[e].status \in {"OPEN", "CLOSED"} =>
    /\ pos[e].qty + part[e].qty >= bought[e]
    /\ mixes = 0 /\ cuts = 0 /\ ~Splitting(e) => pos[e].qty + part[e].qty = bought[e]

(* Shares leave a position by a SELL trade only.  As long as no two runs   *)
(* mix, what is closed was sold, and sold once unless a sale was cut off.  *)
(* Whichever runs mix, a part has its trade, and a position that was       *)
(* closed has one more (paper-simulation.service.ts:1921, :1950).          *)
SaleUnderWay(e) == \E r \in Runner : run[r].at \in {"close", "split"} /\ run[r].of = e
ClosedShares(e) == part[e].qty + IF pos[e].status = "CLOSED" THEN pos[e].qty ELSE 0
SalesBacked ==
  \A e \in Entry :
    /\ mixes = 0 => sold[e] >= ClosedShares(e)
    /\ mixes = 0 /\ cuts = 0 /\ ~ SaleUnderWay(e) => sold[e] = ClosedShares(e)
    /\ pos[e] # Gone => sold[e] >= part[e].qty
    /\ pos[e].status = "CLOSED" => sold[e] > part[e].qty

(* As long as no two runs mix: a pass of entries never believes in more    *)
(* cash than the account has; the account has never spent more than it     *)
(* had, unless a run was cut off or half a sale is written; and after a    *)
(* reset with no new entry it is the capital (cash >= 0,                   *)
(* paper-simulation.service.ts:1052, :1575, :370).                         *)
CashSound ==
  mixes = 0 =>
    /\ \A r \in Runner : run[r].at = "fill" => run[r].cash <= Cash
    /\ cuts = 0 /\ (\A e \in Entry : ~ Splitting(e)) => Cash >= 0
    /\ (\A e \in Entry : pos[e].status \in {"NONE", "GONE"}) => Cash = Capital

(* The result of a closed position is final: no valuation and no later     *)
(* sale replaces it, as long as no two runs mix                            *)
(* (paper-simulation.service.ts:1710, :1990).                              *)
ResultIsFinal ==
  [][mixes' = 0 => \A e \in Entry : pos[e].status = "CLOSED" /\ pos'[e].status # "GONE"
                                   => pos'[e] = pos[e]]_vars
=============================================================================
