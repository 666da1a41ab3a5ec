----------------------------- MODULE OrderLedgers -----------------------------
(***************************************************************************)
(* One entry order in four ledgers.  The daily cycle of                    *)
(* paper-simulation.service.ts reserves an entry in the evening (a PENDING *)
(* paper trade); the daily cycle or the intraday monitor fills it on its   *)
(* due day by inserting a position; and order-shadow-ledger.service.ts     *)
(* records every step in an order request, an execution and the canonical  *)
(* order book beside it.  None of this is one transaction: each statement  *)
(* commits alone, the two runners share only the tables, and the process   *)
(* may die between any two statements.                                     *)
(*                                                                         *)
(* The canonical ledger is its specification OrderBook, which              *)
(* CanonicalLedger implements.  Cash, prices, slots and grades only decide *)
(* whether a candidate is taken and how many shares it gets, so they are   *)
(* choices here; the kill switch is a choice at each place that reads it.  *)
(***************************************************************************)
EXTENDS Integers, FiniteSets

CONSTANTS
  Signal,        \* trading signals that are eligible for entry
  StockOf,       \* the stock of each signal
  HasThesis,     \* signals for which a position thesis was written
  Carry,         \* trading days a due reservation may wait (3 in the code)
  MaxDay,        \* bound: last trading day
  MaxTrades,     \* bound: reservations ever made
  MaxShares,     \* bound: shares of an order
  MaxFailures,   \* bound: cut-offs and failed statements of the shadow ledger
  Overlap        \* the daily cycle is run by hand while the monitor runs

ASSUME ConstantsAssumption ==
  /\ IsFiniteSet(Signal) /\ HasThesis \subseteq Signal /\ DOMAIN StockOf = Signal
  /\ {Carry, MaxDay, MaxTrades, MaxShares, MaxFailures} \subseteq Nat
  /\ Overlap \in BOOLEAN

Trade  == 1 .. MaxTrades
Runner == {"daily", "intraday"}

VARIABLES
  day,           \* trading day
  trade,         \* the paper trade rows
  position,      \* status of the position each trade opened: "EXITING" is open
                 \* with an exit signal whose sale is deferred to the next open
  entries,       \* number of positions each trade opened
  request,       \* the order request of each signal (the key is the signal)
  executions,    \* number of order executions recorded for each trade
  book,          \* the canonical order of each trade
  run,           \* where each runner is, and what it has read
  failures

ledgers == <<trade, position, entries, request, executions, book>>
vars == <<day, ledgers, run, failures>>

Orders == INSTANCE OrderBook

NoTrade   == [status |-> "NONE"]
NoRequest == [status |-> "NONE", trade |-> 0, execution |-> 0]
Idle      == [at |-> "idle", todo |-> {}, held |-> {}, trade |-> 0, shares |-> 0, back |-> "idle"]

Filled(t) == trade[t].status \in {"FILLED", "PARTIAL"}
Open(t) == position[t] \in {"OPEN", "EXITING"}
Stock(t) == StockOf[trade[t].signal]
Pending == {t \in Trade : trade[t].status = "PENDING"}
HeldStocks == {Stock(t) : t \in {u \in Trade : Open(u)}}
First(ts) == CHOOSE t \in ts : \A u \in ts : t <= u
AllIdle == \A r \in Runner : run[r] = Idle

(* Runner r goes on at a, having updated the fields of f. *)
Goto(r, a) == run' = [run EXCEPT ![r].at = a]
Return(r) == run' = [run EXCEPT ![r].at = run[r].back]

-----------------------------------------------------------------------------
Init ==
  /\ day = 0
  /\ trade = [t \in Trade |-> NoTrade]
  /\ position = [t \in Trade |-> "NONE"]
  /\ entries = [t \in Trade |-> 0]
  /\ request = [s \in Signal |-> NoRequest]
  /\ executions = [t \in Trade |-> 0]
  /\ Orders!Init
  /\ run = [r \in Runner |-> Idle]
  /\ failures = 0

(* runDailyCycle, runIntradayExitMonitor: each runner has a flag of its    *)
(* own.  The cron runs them at different hours; POST run-once does not.    *)
Start(r) ==
  /\ run[r] = Idle
  /\ Overlap \/ AllIdle
  /\ run' = [run EXCEPT ![r] = [Idle EXCEPT !.at = "due",
               !.todo = {t \in Pending : trade[t].due <= day}]]
  /\ UNCHANGED <<day, ledgers, failures>>

NeverExpired(ts) == {t \in ts : trade[t].due - day > Carry}  \* slip: dates swapped
Expired(ts) == {t \in ts : day - trade[t].due > Carry}

(* fillPendingEntries cancels what waited too long, ... *)
Expire(r) ==
  /\ run[r].at = "due" /\ Expired(run[r].todo) # {}
  /\ LET t == First(Expired(run[r].todo)) IN
     /\ trade' = [trade EXCEPT ![t].status = "CANCELLED"]
     /\ run' = [run EXCEPT ![r].at = "cancel", ![r].back = "due", ![r].trade = t,
                           ![r].todo = @ \ {t}]
  /\ UNCHANGED <<day, position, entries, request, executions, book, failures>>

(* ... stops when the kill switch is on, and else reads what is held. *)
BeginFill(r) ==
  /\ run[r].at = "due" /\ Expired(run[r].todo) = {}
  /\ \/ Goto(r, "exits")
     \/ /\ run[r].todo # {}
        /\ run' = [run EXCEPT ![r].at = "fill", ![r].held = HeldStocks]
  /\ UNCHANGED <<day, ledgers, failures>>

(* The reservation in hand: of a stock that is held, it is cancelled. *)
CancelHeld(r) ==
  /\ run[r].at = "fill" /\ run[r].todo # {}
  /\ LET t == First(run[r].todo) IN
     /\ Stock(t) \in run[r].held
     /\ trade' = [trade EXCEPT ![t].status = "CANCELLED"]
     /\ run' = [run EXCEPT ![r].at = "cancel", ![r].back = "fill", ![r].trade = t,
                           ![r].todo = @ \ {t}]
  /\ UNCHANGED <<day, position, entries, request, executions, book, failures>>

(* Without cash, an opening price or a single share, it is carried over. *)
CarryOver(r) ==
  /\ run[r].at = "fill" /\ run[r].todo # {}
  /\ LET t == First(run[r].todo) IN
     /\ Stock(t) \notin run[r].held
     /\ run' = [run EXCEPT ![r].todo = @ \ {t}]
  /\ UNCHANGED <<day, ledgers, failures>>

(* The two unique indexes of the positions: one open position per stock,   *)
(* and one position, open or closed, per thesis.                           *)
OneOpenPerStock(t) == ~ \E u \in Trade : Open(u) /\ Stock(u) = Stock(t)
OnePerThesis(t) ==
  ~ \E u \in Trade : /\ trade[t].signal \in HasThesis /\ position[u] # "NONE"
                     /\ trade[u].signal = trade[t].signal

OpenOnly(t) == OneOpenPerStock(t)          \* slip: without the unique thesis
Insertable(t) == OneOpenPerStock(t) /\ OnePerThesis(t)

CreatePosition(r) ==
  /\ run[r].at = "fill" /\ run[r].todo # {}
  /\ LET t == First(run[r].todo) IN
     /\ Stock(t) \notin run[r].held
     /\ IF Insertable(t)
        THEN /\ position' = [position EXCEPT ![t] = "OPEN"]
             /\ entries' = [entries EXCEPT ![t] = @ + 1]
             /\ \E n \in 1 .. trade[t].ordered :
                  run' = [run EXCEPT ![r].at = "created", ![r].trade = t, ![r].shares = n,
                                     ![r].back = "fill", ![r].todo = @ \ {t}]
        ELSE /\ run' = [run EXCEPT ![r].at = "refused", ![r].trade = t, ![r].back = "fill",
                                   ![r].todo = @ \ {t}]
             /\ UNCHANGED <<position, entries>>
  /\ UNCHANGED <<day, trade, request, executions, book, failures>>

(* Any unique violation is taken to mean that the stock is held. *)
CancelRefused(r) ==
  /\ run[r].at = "refused"
  /\ trade' = [trade EXCEPT ![run[r].trade].status = "CANCELLED"]
  /\ run' = [run EXCEPT ![r].at = "cancel", ![r].held = @ \cup {Stock(run[r].trade)}]
  /\ UNCHANGED <<day, position, entries, request, executions, book, failures>>

RecordFilled(r) ==
  /\ run[r].at = "created"
  /\ \E st \in {"FILLED", "PARTIAL"} :
       trade' = [trade EXCEPT ![run[r].trade].status = st,
                              ![run[r].trade].shares = run[r].shares,
                              ![run[r].trade].filledOn = day]
  /\ run' = [run EXCEPT ![r].at = "lookup", ![r].held = @ \cup {Stock(run[r].trade)}]
  /\ UNCHANGED <<day, position, entries, request, executions, book, failures>>

-----------------------------------------------------------------------------
(* recordFill of the shadow ledger: request read, execution written,       *)
(* request updated, canonical order filled or, with the kill switch on,    *)
(* closed.  The canonical ledger may be disabled, hold no order, or refuse *)
(* the call; its errors are swallowed.                                     *)
Executable(q) == q.status \notin {"NONE", "EXECUTED"}

LookUp(r) ==
  /\ run[r].at = "lookup"
  /\ IF Executable(request[trade[run[r].trade].signal]) THEN Goto(r, "execute") ELSE Return(r)
  /\ UNCHANGED <<day, ledgers, failures>>

Execute(r) ==
  /\ run[r].at = "execute"
  /\ executions' = [executions EXCEPT ![run[r].trade] = @ + 1]
  /\ Goto(r, "link")
  /\ UNCHANGED <<day, trade, position, entries, request, book, failures>>

Link(r) ==
  /\ run[r].at = "link"
  /\ LET t == run[r].trade IN
     request' = [request EXCEPT ![trade[t].signal] =
                   [status |-> "EXECUTED", trade |-> t, execution |-> t]]
  /\ Goto(r, "book")
  /\ UNCHANGED <<day, trade, position, entries, executions, book, failures>>

Clamped(n, size) == IF n < size THEN n ELSE size

BookFill(r) ==
  /\ run[r].at = "book"
  /\ LET t == run[r].trade
         total == Clamped(book[t].filled + run[r].shares, book[t].requested)
     IN  \/ /\ book[t].stage = "OPEN"
            /\ book' = [book EXCEPT ![t] =
                  [stage |-> IF total >= book[t].requested THEN "DONE" ELSE "OPEN",
                   requested |-> book[t].requested, filled |-> total]]
         \/ Orders!End(t)
         \/ UNCHANGED book
  /\ Return(r)
  /\ UNCHANGED <<day, trade, position, entries, request, executions, failures>>

(* recordCancellation of the shadow ledger. *)
LookUpCancelled(r) ==
  /\ run[r].at = "cancel"
  /\ IF request[trade[run[r].trade].signal].status \in {"NONE", "EXECUTED", "CANCELLED"}
     THEN Return(r)
     ELSE Goto(r, "cancelRequest")
  /\ UNCHANGED <<day, ledgers, failures>>

CancelRequest(r) ==
  /\ run[r].at = "cancelRequest"
  /\ request' = [request EXCEPT ![trade[run[r].trade].signal].status = "CANCELLED"]
  /\ Goto(r, "cancelBook")
  /\ UNCHANGED <<day, trade, position, entries, executions, book, failures>>

CancelBook(r) ==
  /\ run[r].at = "cancelBook"
  /\ Orders!End(run[r].trade) \/ UNCHANGED book
  /\ Return(r)
  /\ UNCHANGED <<day, trade, position, entries, request, executions, failures>>

(* A statement of the shadow ledger fails: the error is swallowed and the   *)
(* trading goes on without the rest of the call.                           *)
Swallow(r) ==
  /\ failures < MaxFailures
  /\ run[r].at \in {"request", "place", "lookup", "execute", "link", "book",
                    "cancel", "cancelRequest", "cancelBook"}
  /\ failures' = failures + 1
  /\ Return(r)
  /\ UNCHANGED <<day, ledgers>>

-----------------------------------------------------------------------------
EndFill(r) ==
  /\ run[r].at = "fill" /\ run[r].todo = {}
  /\ Goto(r, "exits")
  /\ UNCHANGED <<day, ledgers, failures>>

(* executePendingExits sells what an earlier daily cycle marked, all or a  *)
(* part of it; the mark is used up. ...                                    *)
SellDeferred(r) ==
  /\ run[r].at = "exits"
  /\ \E t \in Trade, rest \in {"OPEN", "CLOSED"} :
       position[t] = "EXITING" /\ position' = [position EXCEPT ![t] = rest]
  /\ UNCHANGED <<day, trade, entries, request, executions, book, run, failures>>

EndDeferred(r) ==
  /\ run[r].at = "exits"
  /\ Goto(r, IF r = "daily" THEN "screen" ELSE "evaluate")
  /\ UNCHANGED <<day, ledgers, failures>>

(* ... and evaluateExits sells at once in the intraday monitor (its newer  *)
(* judgment replaces the mark), and marks in the daily cycle.              *)
Evaluate(r) ==
  /\ run[r].at = "evaluate"
  /\ \E t \in Trade, after \in IF r = "daily" THEN {"EXITING"} ELSE {"OPEN", "CLOSED"} :
       Open(t) /\ position' = [position EXCEPT ![t] = after]
  /\ UNCHANGED <<day, trade, entries, request, executions, book, run, failures>>

EndEvaluate(r) ==
  /\ run[r].at = "evaluate"
  /\ run' = [run EXCEPT ![r] = Idle]
  /\ UNCHANGED <<day, ledgers, failures>>

(* openNewPositions reads the open positions, then the reservations, ... *)
Screen(r) ==
  /\ run[r].at = "screen"
  /\ run' = [run EXCEPT ![r].at = "rank", ![r].held = HeldStocks]
  /\ UNCHANGED <<day, ledgers, failures>>

IgnoresPending(r) == run[r].held           \* slip: reservations are not excluded
Excluded(r) == run[r].held \cup {Stock(t) : t \in Pending}

(* ... and takes signals of the other stocks, one per stock. *)
Rank(r) ==
  /\ run[r].at = "rank"
  /\ \E picks \in SUBSET {s \in Signal : StockOf[s] \notin Excluded(r)} :
       /\ \A s1, s2 \in picks : StockOf[s1] = StockOf[s2] => s1 = s2
       /\ Cardinality(picks) <= Cardinality({t \in Trade : trade[t] = NoTrade})
       /\ picks # {} => day + 1 + Carry < MaxDay
       /\ run' = [run EXCEPT ![r].at = "reserve", ![r].todo = picks]
  /\ UNCHANGED <<day, ledgers, failures>>

Reserve(r) ==
  /\ run[r].at = "reserve"
  /\ \E s \in run[r].todo, n \in 1 .. MaxShares :
       LET t == First({u \in Trade : trade[u] = NoTrade}) IN
       /\ trade' = [trade EXCEPT ![t] = [status |-> "PENDING", signal |-> s, due |-> day + 1,
                                         ordered |-> n, shares |-> 0, filledOn |-> 0]]
       /\ run' = [run EXCEPT ![r].at = "request", ![r].trade = t, ![r].back = "reserve",
                             ![r].todo = @ \ {s}]
  /\ UNCHANGED <<day, position, entries, request, executions, book, failures>>

(* recordReservation of the shadow ledger: the request of the signal is    *)
(* created, or updated in place; its status is the new judgment, whatever  *)
(* it was, and a linked execution stays linked.                            *)
NotRelinked(q, t) == [q EXCEPT !.status = "JUDGED"]    \* slip: the link is kept
KeepsExecuted(q, t) ==                     \* slip: an executed request is left alone
  IF q.status = "EXECUTED" THEN q ELSE [q EXCEPT !.status = "JUDGED", !.trade = t]
Judged(q, t) == [q EXCEPT !.status = "JUDGED", !.trade = t]

UpsertRequest(r) ==
  /\ run[r].at = "request"
  /\ LET t == run[r].trade IN
     request' = [request EXCEPT ![trade[t].signal] = Judged(@, t)]
  /\ Goto(r, "place")
  /\ UNCHANGED <<day, trade, position, entries, executions, book, failures>>

PlaceOrder(r) ==
  /\ run[r].at = "place"
  /\ \/ Orders!Place(run[r].trade) /\ book'[run[r].trade].requested <= trade[run[r].trade].ordered
     \/ UNCHANGED book
  /\ Return(r)
  /\ UNCHANGED <<day, trade, position, entries, request, executions, failures>>

EndReserve(r) ==
  /\ run[r].at = "reserve" /\ run[r].todo = {}
  /\ run' = [run EXCEPT ![r] = [Idle EXCEPT !.at = "evaluate"]]
  /\ UNCHANGED <<day, ledgers, failures>>

Step(r) ==
  \/ Expire(r) \/ BeginFill(r) \/ CancelHeld(r) \/ CarryOver(r) \/ CreatePosition(r)
  \/ CancelRefused(r) \/ RecordFilled(r) \/ LookUp(r) \/ Execute(r) \/ Link(r) \/ BookFill(r)
  \/ LookUpCancelled(r) \/ CancelRequest(r) \/ CancelBook(r) \/ EndFill(r) \/ SellDeferred(r)
  \/ EndDeferred(r) \/ Evaluate(r) \/ EndEvaluate(r) \/ Screen(r) \/ Rank(r) \/ Reserve(r)
  \/ UpsertRequest(r) \/ PlaceOrder(r) \/ EndReserve(r) \/ Swallow(r)

(* An exception ends the cycle of a runner, or the process dies; what it   *)
(* had read is gone.                                                       *)
CutOff ==
  /\ failures < MaxFailures
  /\ failures' = failures + 1
  /\ \E cut \in {R \in SUBSET Runner : \E r \in R : run[r] # Idle} :
       run' = [r \in Runner |-> IF r \in cut THEN Idle ELSE run[r]]
  /\ UNCHANGED <<day, ledgers>>

Tick ==
  /\ AllIdle
  /\ day < MaxDay
  /\ day' = day + 1
  /\ UNCHANGED <<ledgers, run, failures>>

Next ==
  \/ \E r \in Runner : Start(r) \/ Step(r)
  \/ CutOff
  \/ Tick

Spec == Init /\ [][Next]_vars

(* The clock runs, cron keeps starting the runners, and a runner goes on.  *)
Fairness ==
  /\ SF_vars(Tick)
  /\ WF_vars(\E r \in Runner : Start(r))
  /\ \A r \in Runner : WF_vars(Step(r))

FairSpec == Spec /\ Fairness
-----------------------------------------------------------------------------
TradeRow == [status : {"PENDING", "FILLED", "PARTIAL", "CANCELLED"}, signal : Signal,
             due : 1 .. MaxDay, ordered : 1 .. MaxShares, shares : 0 .. MaxShares,
             filledOn : 0 .. MaxDay]
RequestRow == [status : {"JUDGED", "EXECUTED", "CANCELLED"}, trade : Trade,
               execution : Trade \cup {0}]

(* The rows are well formed, and what they refer to exists. *)
TypeOK ==
  /\ day \in 0 .. MaxDay /\ failures \in 0 .. MaxFailures
  /\ trade \in [Trade -> {NoTrade} \cup TradeRow]
  /\ position \in [Trade -> {"NONE", "OPEN", "EXITING", "CLOSED"}]
  /\ entries \in [Trade -> Nat] /\ executions \in [Trade -> Nat]
  /\ request \in [Signal -> {NoRequest} \cup RequestRow]
  /\ \A t \in Trade :
       /\ position[t] = "NONE" <=> entries[t] = 0
       /\ entries[t] > 0 => trade[t] # NoTrade
  /\ \A s \in Signal : request[s] # NoRequest =>
       trade[request[s].trade] # NoTrade /\ trade[request[s].trade].signal = s

(* Whatever overlaps or is cut off: a reservation is executed at most as   *)
(* often as it opened a position, and the canonical order is filled only   *)
(* from an execution.  With a thesis it opens one position only, ever, and *)
(* the order is filled with no more than the shares that were bought; a    *)
(* signal without one may be bought again when its first position is sold  *)
(* before its trade is marked (fillPendingEntries, recordFill).            *)
ExecutedOnce ==
  \A t \in Trade :
    /\ executions[t] <= entries[t]
    /\ book[t].filled > 0 => executions[t] > 0
    /\ trade[t] # NoTrade /\ trade[t].signal \in HasThesis =>
         entries[t] <= 1 /\ book[t].filled <= trade[t].shares

(* The trades a runner has left half-way. *)
InHand(t) == \E r \in Runner :
  /\ run[r].trade = t
  /\ run[r].at \in {"created", "refused", "lookup", "execute", "link", "book", "cancel",
                    "cancelRequest", "cancelBook", "request", "place"}

(* While nothing overlaps or fails, the ledgers tell the same story of     *)
(* every trade no runner has in hand: a filled trade has its position and  *)
(* its one execution, and the request says of its latest trade what the    *)
(* trade row says (openNewPositions, fillPendingEntries, shadowCancel and  *)
(* the three calls of the shadow ledger).                                  *)
LedgersAgree ==
  failures = 0 => \A t \in Trade : trade[t] # NoTrade /\ ~ InHand(t) =>
    LET q == request[trade[t].signal] IN
    /\ Filled(t) <=> position[t] # "NONE"
    /\ Filled(t) <=> executions[t] = 1
    /\ trade[t].status = "PENDING" => q.trade = t
    /\ q.trade = t => q.status = CASE trade[t].status = "PENDING" -> "JUDGED"
                                   [] Filled(t) -> "EXECUTED"
                                   [] trade[t].status = "CANCELLED" -> "CANCELLED"

(* At most one trade per stock is pending or held, although runners are    *)
(* cut off, as long as they do not overlap (openNewPositions).             *)
OneEntryPerStock ==
  \A t, u \in Trade : t # u /\ trade[t] # NoTrade /\ trade[u] # NoTrade /\ Stock(t) = Stock(u) =>
    ~ ({t, u} \subseteq Pending \cup {v \in Trade : Open(v)})

(* No reservation waits for ever (PENDING_ENTRY_MAX_CARRY_TRADING_DAYS).   *)
EveryReservationSettles ==
  \A t \in Trade : trade[t].status = "PENDING" ~> trade[t].status # "PENDING"

(* The daily comparison of order-ledger-reconcile.service.ts: the trades   *)
(* filled today are held against those of today's executions.              *)
PaperFills == {t \in Trade : Filled(t) /\ trade[t].filledOn = day}
(* slip: executions of any day.                                            *)
AnyDaysFills ==
  {request[s].trade : s \in {u \in Signal :
     request[u].status = "EXECUTED" /\ request[u].execution # 0}}
LedgerFills ==
  {request[s].trade : s \in {u \in Signal :
     /\ request[u].status = "EXECUTED" /\ request[u].execution # 0
     /\ trade[request[u].execution].filledOn = day}}

(* While nothing overlaps or fails, the comparison reports one thing only: *)
(* a fill whose signal has been reserved again since and whose request now *)
(* stands for the later trade.  It never reports an execution without a    *)
(* fill (order-ledger-reconcile.service.ts:45-86).                         *)
OrphansExplained ==
  failures = 0 /\ AllIdle =>
    /\ LedgerFills \subseteq PaperFills
    /\ \A t \in PaperFills \ LedgerFills : request[trade[t].signal].trade # t
=============================================================================
