-------------------------- MODULE OrderLedgersProofs --------------------------
(***************************************************************************)
(* Proofs about OrderLedgers, for any number of signals, trades, shares,   *)
(* days and failures.                                                      *)
(*                                                                         *)
(* Rows and RunOK say what a runner has in hand at each stage, and Counted *)
(* that every entry is owed one execution at most: these hold whatever     *)
(* overlaps and is cut off.  Alone holds while the runners take turns: who *)
(* is not idle is the only one, so what it has read is still true.  Agreed *)
(* says how far each statement has brought the ledgers of the trade in     *)
(* hand, and holds until the first failure.                                *)
(***************************************************************************)
EXTENDS OrderLedgers, TLAPS, WellFoundedInduction, FiniteSetTheorems

Free == {t \in Trade : trade[t] = NoTrade}

Buying    == {"created", "lookup", "execute"}        \* an entry without its execution
Writing   == {"link", "book"}                        \* an execution to be made known
Dropping  == {"refused", "cancel", "cancelRequest", "cancelBook"}
Reserving == {"reserve", "request", "place"}
Busy      == Buying \cup Writing \cup Dropping       \* a due reservation in hand
Stages    == {"idle", "due", "fill", "exits", "evaluate", "screen", "rank"}
               \cup Busy \cup Reserving

RunRow == [at : Stages, todo : SUBSET (Trade \cup Signal),
           held : SUBSET {StockOf[s] : s \in Signal}, trade : Trade \cup {0},
           shares : 0 .. MaxShares, back : {"idle", "due", "fill", "reserve"}]

(* What a runner has in hand, by its stage. *)
RunOK(r) ==
  /\ run[r].at \in {"due", "fill"} \cup Busy => run[r].todo \subseteq Trade \ Free
  /\ run[r].at \in Busy \cup {"request", "place"} => run[r].trade \in Trade \ Free
  /\ run[r].at \in Busy => run[r].back \in {"due", "fill"}
  /\ run[r].at \in {"request", "place"} => run[r].back = "reserve"
  /\ run[r].at \in Buying \cup Writing => run[r].shares > 0
  /\ run[r].at = "cancelRequest" => request[trade[run[r].trade].signal] # NoRequest
  /\ run[r].at \in {"screen", "rank"} \cup Reserving => r = "daily"
  /\ run[r].at \in Reserving =>
       /\ run[r].todo \subseteq Signal
       /\ Cardinality(run[r].todo) <= Cardinality(Free)
       /\ run[r].todo # {} => day + 1 + Carry < MaxDay

Linked == \A s \in Signal : request[s].status = "EXECUTED" => request[s].execution = request[s].trade

Rows == TypeOK /\ Linked /\ run \in [Runner -> RunRow]
Held == \A r \in Runner : RunOK(r)

-----------------------------------------------------------------------------
(* A set of numbers has a least element. *)
LEMMA LeastNat ==
  ASSUME NEW S, S \subseteq Nat, S # {}
  PROVE  \E x \in S : \A y \in S : x <= y
<1> DEFINE R == OpToRel(<, Nat)
<1>1. IsWellFoundedOn(R, Nat)
  BY NatLessThanWellFounded
<1>2. \A x, y \in Nat : y < x => <<y, x>> \in R
  BY DEF OpToRel
<1> HIDE DEF R
<1>3. PICK x \in S : \A y \in S : ~ (<<y, x>> \in R)
  BY <1>1, WFMin
<1>4. \A y \in S : ~ (y < x)
  BY <1>2, <1>3
<1> QED
  BY <1>3, <1>4

LEMMA FirstIn ==
  ASSUME NEW S, S \subseteq Trade, S # {}
  PROVE  First(S) \in S
<1>1. S \subseteq Nat
  BY ConstantsAssumption DEF Trade
<1>2. \E x \in S : \A y \in S : x <= y
  BY <1>1, LeastNat
<1> QED
  BY <1>2 DEF First

LEMMA Apart ==
  /\ NoTrade \notin TradeRow /\ NoRequest \notin RequestRow
  /\ \A x \in TradeRow : x # NoTrade
  /\ \A x \in RequestRow : x # NoRequest
BY DEF NoTrade, TradeRow, NoRequest, RequestRow

(* Counting free trades: a reservation takes one of them and one pick.     *)
LEMMA FreeFinite == IsFiniteSet(Free) /\ Cardinality(Free) \in Nat
<1>1. IsFiniteSet(Trade)
  BY ConstantsAssumption, FS_Interval DEF Trade
<1>2. Free \subseteq Trade
  BY DEF Free
<1> QED
  BY <1>1, <1>2, FS_Subset, FS_CardinalityType

LEMMA FreeLeft ==
  ASSUME NEW S, S \subseteq Signal, Cardinality(S) <= Cardinality(Free), NEW s \in S
  PROVE  /\ Free # {} /\ First(Free) \in Free
         /\ Cardinality(S \ {s}) <= Cardinality(Free \ {First(Free)})
<1>1. IsFiniteSet(S) /\ Cardinality(S) \in Nat
  BY ConstantsAssumption, FS_Subset, FS_CardinalityType
<1>2. Cardinality(S) # 0
  BY <1>1, FS_EmptySet
<1>3. Free # {}
  BY <1>1, <1>2, FreeFinite, FS_EmptySet
<1>4. First(Free) \in Free
  <2>1. Free \subseteq Trade
    BY DEF Free
  <2> QED
    BY <1>3, <2>1, FirstIn
<1>5. Cardinality(S \ {s}) = Cardinality(S) - 1
  BY <1>1, FS_RemoveElement
<1>6. Cardinality(Free \ {First(Free)}) = Cardinality(Free) - 1
  BY <1>4, FreeFinite, FS_RemoveElement
<1> QED
  BY <1>1, <1>3, <1>4, <1>5, <1>6, FreeFinite

LEMMA RunsApart ==
  ASSUME Rows, NEW r \in Runner
  PROVE  /\ run[r] \in RunRow
         /\ run[r].trade \in Trade \ Free => trade[run[r].trade] \in TradeRow
         /\ \A t \in Trade : position[t] # "NONE" => t \notin Free /\ Stock(t) \in {StockOf[s] : s \in Signal}
         /\ \A t \in Trade \ Free : trade[t] \in TradeRow /\ Stock(t) \in {StockOf[s] : s \in Signal}
         /\ HeldStocks \in SUBSET {StockOf[s] : s \in Signal}
<1> USE DEF Rows, TypeOK
<1>1. run[r] \in RunRow
  OBVIOUS
<1>2. \A t \in Trade \ Free : trade[t] \in TradeRow
  BY DEF Free
<1>3. \A t \in Trade \ Free : Stock(t) \in {StockOf[s] : s \in Signal}
  BY <1>2 DEF Stock, TradeRow
<1>4. \A t \in Trade : position[t] # "NONE" => t \notin Free
  BY DEF Free
<1>5. HeldStocks \in SUBSET {StockOf[s] : s \in Signal}
  BY <1>3, <1>4 DEF HeldStocks, Open
<1> QED
  BY <1>1, <1>2, <1>3, <1>4, <1>5

(* A due reservation in hand is taken from what the runner had read.       *)
LEMMA TodoIsTrade ==
  ASSUME Rows, NEW r \in Runner, RunOK(r)
  PROVE  /\ run[r].at = "due" /\ Expired(run[r].todo) # {} =>
              First(Expired(run[r].todo)) \in run[r].todo \cap (Trade \ Free)
         /\ run[r].at = "fill" /\ run[r].todo # {} =>
              First(run[r].todo) \in run[r].todo \cap (Trade \ Free)
<1>1. ASSUME run[r].at = "due", Expired(run[r].todo) # {}
      PROVE  First(Expired(run[r].todo)) \in run[r].todo \cap (Trade \ Free)
  <2>1. run[r].todo \subseteq Trade \ Free
    BY <1>1 DEF RunOK
  <2>2. Expired(run[r].todo) \subseteq run[r].todo
    BY DEF Expired
  <2>3. First(Expired(run[r].todo)) \in Expired(run[r].todo)
    BY <1>1, <2>1, <2>2, FirstIn
  <2> QED
    BY <2>1, <2>2, <2>3
<1>2. ASSUME run[r].at = "fill", run[r].todo # {}
      PROVE  First(run[r].todo) \in run[r].todo \cap (Trade \ Free)
  <2>1. run[r].todo \subseteq Trade \ Free
    BY <1>2 DEF RunOK
  <2> QED
    BY <1>2, <2>1, FirstIn
<1> QED
  BY <1>1, <1>2

(* What is cancelled is taken out of what the runner had read.             *)
LEMMA Cancels ==
  ASSUME Rows, NEW r \in Runner, RunOK(r), Expire(r) \/ CancelHeld(r)
  PROVE  /\ \E t \in run[r].todo \cap (Trade \ Free), b \in {"due", "fill"} :
              /\ run[r].at = b
              /\ trade' = [trade EXCEPT ![t].status = "CANCELLED"]
              /\ run' = [run EXCEPT ![r].at = "cancel", ![r].back = b, ![r].trade = t,
                                    ![r].todo = @ \ {t}]
         /\ UNCHANGED <<day, position, entries, request, executions, book, failures>>
<1>1. CASE Expire(r)
  <2> DEFINE t == First(Expired(run[r].todo))
  <2>1. t \in run[r].todo \cap (Trade \ Free)
    BY <1>1, TodoIsTrade DEF Expire
  <2>2. /\ run[r].at = "due"
        /\ trade' = [trade EXCEPT ![t].status = "CANCELLED"]
        /\ run' = [run EXCEPT ![r].at = "cancel", ![r].back = "due", ![r].trade = t, ![r].todo = @ \ {t}]
        /\ UNCHANGED <<day, position, entries, request, executions, book, failures>>
    BY <1>1 DEF Expire
  <2> HIDE DEF t
  <2> QED
    BY <2>1, <2>2
<1>2. CASE CancelHeld(r)
  <2> DEFINE t == First(run[r].todo)
  <2>1. t \in run[r].todo \cap (Trade \ Free)
    BY <1>2, TodoIsTrade DEF CancelHeld
  <2>2. /\ run[r].at = "fill"
        /\ trade' = [trade EXCEPT ![t].status = "CANCELLED"]
        /\ run' = [run EXCEPT ![r].at = "cancel", ![r].back = "fill", ![r].trade = t, ![r].todo = @ \ {t}]
        /\ UNCHANGED <<day, position, entries, request, executions, book, failures>>
    BY <1>2 DEF CancelHeld
  <2> HIDE DEF t
  <2> QED
    BY <2>1, <2>2
<1> QED
  BY <1>1, <1>2

(* A position is inserted for a reservation that was read, or refused.     *)
LEMMA Creates ==
  ASSUME Rows, NEW r \in Runner, RunOK(r), CreatePosition(r)
  PROVE  /\ \E t \in run[r].todo \cap (Trade \ Free) :
              \/ /\ Insertable(t)
                 /\ position' = [position EXCEPT ![t] = "OPEN"]
                 /\ entries' = [entries EXCEPT ![t] = @ + 1]
                 /\ \E n \in 1 .. MaxShares :
                      run' = [run EXCEPT ![r].at = "created", ![r].trade = t, ![r].shares = n,
                                         ![r].back = "fill", ![r].todo = @ \ {t}]
              \/ /\ run' = [run EXCEPT ![r].at = "refused", ![r].trade = t, ![r].back = "fill",
                                        ![r].todo = @ \ {t}]
                 /\ UNCHANGED <<position, entries>>
         /\ run[r].at = "fill"
         /\ UNCHANGED <<day, trade, request, executions, book, failures>>
<1> DEFINE t == First(run[r].todo)
<1>1. t \in run[r].todo \cap (Trade \ Free)
  BY TodoIsTrade DEF CreatePosition
<1>2. trade[t].ordered \in 1 .. MaxShares
  BY <1>1, RunsApart DEF TradeRow
<1>3. \/ /\ Insertable(t)
         /\ position' = [position EXCEPT ![t] = "OPEN"]
         /\ entries' = [entries EXCEPT ![t] = @ + 1]
         /\ \E n \in 1 .. trade[t].ordered :
              run' = [run EXCEPT ![r].at = "created", ![r].trade = t, ![r].shares = n,
                                 ![r].back = "fill", ![r].todo = @ \ {t}]
      \/ /\ run' = [run EXCEPT ![r].at = "refused", ![r].trade = t, ![r].back = "fill",
                                ![r].todo = @ \ {t}]
         /\ UNCHANGED <<position, entries>>
  BY DEF CreatePosition
<1>4. run[r].at = "fill" /\ UNCHANGED <<day, trade, request, executions, book, failures>>
  BY DEF CreatePosition
<1> HIDE DEF t
<1>5. (\E n \in 1 .. trade[t].ordered :
         run' = [run EXCEPT ![r].at = "created", ![r].trade = t, ![r].shares = n,
                            ![r].back = "fill", ![r].todo = @ \ {t}]) =>
       \E n \in 1 .. MaxShares :
         run' = [run EXCEPT ![r].at = "created", ![r].trade = t, ![r].shares = n,
                            ![r].back = "fill", ![r].todo = @ \ {t}]
  <2>1. 1 .. trade[t].ordered \subseteq 1 .. MaxShares
    BY <1>2, ConstantsAssumption
  <2> QED
    BY <2>1
<1> QED
  BY <1>1, <1>3, <1>4, <1>5

LEMMA Created ==
  ASSUME Rows, NEW r \in Runner, RunOK(r), CreatePosition(r)
  PROVE  \E t \in run[r].todo \cap (Trade \ Free) :
           /\ run'[r].trade = t /\ run'[r].todo = run[r].todo \ {t}
           /\ \/ /\ run'[r].at = "created" /\ Insertable(t)
                 /\ position' = [position EXCEPT ![t] = "OPEN"]
              \/ run'[r].at = "refused" /\ UNCHANGED position
<1>1. run \in [Runner -> RunRow] /\ run[r] \in RunRow
  BY DEF Rows
<1>2. PICK t \in run[r].todo \cap (Trade \ Free) :
              \/ /\ Insertable(t)
                 /\ position' = [position EXCEPT ![t] = "OPEN"]
                 /\ \E n \in 1 .. MaxShares :
                      run' = [run EXCEPT ![r].at = "created", ![r].trade = t, ![r].shares = n,
                                         ![r].back = "fill", ![r].todo = @ \ {t}]
              \/ /\ run' = [run EXCEPT ![r].at = "refused", ![r].trade = t, ![r].back = "fill",
                                        ![r].todo = @ \ {t}]
                 /\ UNCHANGED position
  BY Creates
<1>3. ASSUME NEW n, run' = [run EXCEPT ![r].at = "created", ![r].trade = t, ![r].shares = n,
                                      ![r].back = "fill", ![r].todo = @ \ {t}]
      PROVE  run'[r].at = "created" /\ run'[r].trade = t /\ run'[r].todo = run[r].todo \ {t}
  BY <1>1, <1>3 DEF RunRow
<1>4. ASSUME run' = [run EXCEPT ![r].at = "refused", ![r].trade = t, ![r].back = "fill",
                                ![r].todo = @ \ {t}]
      PROVE  run'[r].at = "refused" /\ run'[r].trade = t /\ run'[r].todo = run[r].todo \ {t}
  BY <1>1, <1>4 DEF RunRow
<1> QED
  BY <1>2, <1>3, <1>4

(* A step of a runner leaves the other one where it is.                    *)
LEMMA OthersStay ==
  ASSUME Rows, NEW r \in Runner, Start(r) \/ Step(r), NEW q \in Runner, q # r
  PROVE  run'[q] = run[q]
<1> USE DEF Rows, Goto, Return
<1>1. CASE Start(r) \/ Expire(r) \/ BeginFill(r) \/ CancelHeld(r) \/ CarryOver(r)
  BY <1>1 DEF Start, Expire, BeginFill, CancelHeld, CarryOver
<1>2. CASE CreatePosition(r) \/ CancelRefused(r) \/ RecordFilled(r) \/ LookUp(r) \/ Execute(r)
  BY <1>2 DEF CreatePosition, CancelRefused, RecordFilled, LookUp, Execute
<1>3. CASE Link(r) \/ BookFill(r) \/ LookUpCancelled(r) \/ CancelRequest(r) \/ CancelBook(r)
  BY <1>3 DEF Link, BookFill, LookUpCancelled, CancelRequest, CancelBook
<1>4. CASE EndFill(r) \/ SellDeferred(r) \/ EndDeferred(r) \/ Evaluate(r) \/ EndEvaluate(r)
  BY <1>4 DEF EndFill, SellDeferred, EndDeferred, Evaluate, EndEvaluate
<1>5. CASE Screen(r) \/ Rank(r) \/ Reserve(r) \/ UpsertRequest(r) \/ PlaceOrder(r)
  BY <1>5 DEF Screen, Rank, Reserve, UpsertRequest, PlaceOrder
<1>6. CASE EndReserve(r) \/ Swallow(r)
  BY <1>6 DEF EndReserve, Swallow
<1> QED
  BY <1>1, <1>2, <1>3, <1>4, <1>5, <1>6 DEF Step

LEMMA RunTyped ==
  ASSUME Rows, NEW r \in Runner, RunOK(r), Start(r) \/ Step(r)
  PROVE  run' \in [Runner -> RunRow]
<1> USE ConstantsAssumption DEF Goto, Return
<1>1. run \in [Runner -> RunRow] /\ run[r] \in RunRow
  BY DEF Rows
<1>2. \A t \in Trade \ Free : Stock(t) \in {StockOf[s] : s \in Signal}
  BY RunsApart
<1>3. HeldStocks \in SUBSET {StockOf[s] : s \in Signal}
  BY RunsApart
<1>a. CASE Start(r)
  BY <1>a, <1>1 DEF Start, Idle, RunRow, Stages, Busy, Buying, Writing, Dropping, Reserving, Pending
<1>b. CASE Expire(r) \/ CancelHeld(r)
  <2>1. PICK t \in run[r].todo \cap (Trade \ Free), b \in {"due", "fill"} :
          /\ run[r].at = b
          /\ trade' = [trade EXCEPT ![t].status = "CANCELLED"]
          /\ run' = [run EXCEPT ![r].at = "cancel", ![r].back = b, ![r].trade = t,
                                ![r].todo = @ \ {t}]
    BY <1>b, Cancels
  <2> DEFINE next == [run[r] EXCEPT !.at = "cancel", !.back = b, !.trade = t, !.todo = @ \ {t}]
  <2>2. next \in RunRow
    BY <1>1 DEF RunRow, Stages, Busy, Dropping
  <2>3. run' = [run EXCEPT ![r] = next]
    BY <2>1
  <2> QED
    BY <1>1, <2>2, <2>3
<1>c. CASE BeginFill(r) \/ CarryOver(r) \/ EndFill(r) \/ EndDeferred(r) \/ Screen(r)
  BY <1>c, <1>1, <1>3 DEF BeginFill, CarryOver, EndFill, EndDeferred, Screen, RunRow, Stages, Busy, Buying, Writing, Dropping, Reserving
<1>d. CASE CreatePosition(r)
  <2>1. PICK t \in Trade :
          \/ \E n \in 1 .. MaxShares :
               run' = [run EXCEPT ![r].at = "created", ![r].trade = t, ![r].shares = n,
                                  ![r].back = "fill", ![r].todo = @ \ {t}]
          \/ run' = [run EXCEPT ![r].at = "refused", ![r].trade = t, ![r].back = "fill",
                                ![r].todo = @ \ {t}]
    BY <1>d, Creates
  <2>2. CASE \E n \in 1 .. MaxShares :
               run' = [run EXCEPT ![r].at = "created", ![r].trade = t, ![r].shares = n,
                                  ![r].back = "fill", ![r].todo = @ \ {t}]
    <3>1. PICK n \in 1 .. MaxShares :
               run' = [run EXCEPT ![r].at = "created", ![r].trade = t, ![r].shares = n,
                                  ![r].back = "fill", ![r].todo = @ \ {t}]
      BY <2>2
    <3>2. n \in 0 .. MaxShares
      OBVIOUS
    <3> QED
      BY <1>1, <3>1, <3>2 DEF RunRow, Stages, Busy, Buying
  <2>3. CASE run' = [run EXCEPT ![r].at = "refused", ![r].trade = t, ![r].back = "fill",
                                ![r].todo = @ \ {t}]
    BY <1>1, <2>3 DEF RunRow, Stages, Busy, Dropping
  <2> QED
    BY <2>1, <2>2, <2>3
<1>e. CASE CancelRefused(r) \/ RecordFilled(r)
  <2>1. Stock(run[r].trade) \in {StockOf[s] : s \in Signal}
    BY <1>e, <1>2 DEF CancelRefused, RecordFilled, RunOK, Busy, Buying, Dropping
  <2> QED
    BY <1>e, <1>1, <2>1 DEF CancelRefused, RecordFilled, RunRow, Stages, Busy, Buying, Writing, Dropping, Reserving
<1>f. CASE LookUp(r) \/ Execute(r) \/ Link(r) \/ BookFill(r) \/ LookUpCancelled(r)
           \/ CancelRequest(r) \/ CancelBook(r)
  BY <1>f, <1>1 DEF LookUp, Execute, Link, BookFill, LookUpCancelled, CancelRequest, CancelBook,
    RunRow, Stages, Busy, Buying, Writing, Dropping, Reserving
<1>g. CASE SellDeferred(r) \/ Evaluate(r) \/ EndEvaluate(r) \/ EndReserve(r) \/ Swallow(r)
  BY <1>g, <1>1 DEF SellDeferred, Evaluate, EndEvaluate, EndReserve, Swallow, Idle,
    RunRow, Stages, Busy, Buying, Writing, Dropping, Reserving
<1>h. CASE Rank(r)
  <2>1. PICK picks \in SUBSET Signal : run' = [run EXCEPT ![r].at = "reserve", ![r].todo = picks]
    BY <1>h DEF Rank
  <2> QED
    BY <1>1, <2>1 DEF RunRow, Stages, Reserving
<1>j. CASE UpsertRequest(r) \/ PlaceOrder(r)
  BY <1>j, <1>1 DEF UpsertRequest, PlaceOrder, RunRow, Stages, Busy, Buying, Writing, Dropping, Reserving
<1>i. CASE Reserve(r)
  <2>1. PICK s \in run[r].todo : run' = [run EXCEPT ![r].at = "request", ![r].trade = First(Free),
                                            ![r].back = "reserve", ![r].todo = @ \ {s}]
    BY <1>i DEF Reserve, Free
  <2>2. First(Free) \in Trade
    BY <1>i, <2>1, FreeLeft DEF Reserve, RunOK, Reserving, Free
  <2> QED
    BY <1>1, <2>1, <2>2 DEF RunRow, Stages, Busy, Buying, Writing, Dropping, Reserving
<1> QED
  BY <1>a, <1>b, <1>c, <1>d, <1>e, <1>f, <1>g, <1>h, <1>i, <1>j DEF Step

-----------------------------------------------------------------------------
(* No trade or request is deleted, and a trade keeps its signal.           *)
Kept ==
  /\ \A t \in Trade : trade[t] # NoTrade => trade'[t] # NoTrade /\ trade'[t].signal = trade[t].signal
  /\ \A s \in Signal : request[s] # NoRequest => request'[s] # NoRequest

(* Marking a trade row keeps the tables well formed.                       *)
LEMMA MarkTyped ==
  ASSUME Rows, NEW t \in Trade \ Free,
         NEW row \in TradeRow, row.signal = trade[t].signal,
         trade' = [trade EXCEPT ![t] = row],
         UNCHANGED <<day, position, entries, request, executions, failures>>
  PROVE  TypeOK' /\ Linked' /\ Kept
<1> USE DEF Rows
<1>1. \A u \in Trade : trade'[u] = IF u = t THEN row ELSE trade[u]
  BY DEF TypeOK
<1>2. \A u \in Trade : trade[u] # NoTrade => trade'[u] # NoTrade /\ trade'[u].signal = trade[u].signal
  BY <1>1, Apart
<1>3. trade' \in [Trade -> {NoTrade} \cup TradeRow]
  BY DEF TypeOK
<1>4. \A s \in Signal : request[s] # NoRequest => request[s].trade \in Trade
  BY DEF TypeOK, RequestRow
<1>5. Kept
  BY <1>2 DEF Kept
<1>6. Linked'
  BY DEF Linked
<1>7. TypeOK'
  BY <1>2, <1>3, <1>4 DEF TypeOK
<1> QED
  BY <1>5, <1>6, <1>7

LEMMA RequestTyped ==
  ASSUME Rows, NEW s \in Signal, NEW row \in RequestRow,
         trade[row.trade] # NoTrade, trade[row.trade].signal = s,
         row.status = "EXECUTED" => row.execution = row.trade,
         request' = [request EXCEPT ![s] = row],
         UNCHANGED <<day, trade, position, entries, executions, failures>>
  PROVE  TypeOK' /\ Linked' /\ Kept
<1> USE DEF Rows
<1>1. \A u \in Signal : request'[u] = IF u = s THEN row ELSE request[u]
  BY DEF TypeOK
<1>2. request' \in [Signal -> {NoRequest} \cup RequestRow]
  BY DEF TypeOK
<1>3. Kept
  BY <1>1, Apart DEF Kept
<1>4. Linked'
  BY <1>1 DEF Linked
<1>5. TypeOK'
  BY <1>1, <1>2 DEF TypeOK
<1> QED
  BY <1>3, <1>4, <1>5

LEMMA TablesTyped ==
  ASSUME Rows, NEW r \in Runner, RunOK(r), Start(r) \/ Step(r)
  PROVE  TypeOK' /\ Linked' /\ Kept
<1> USE DEF Rows, Goto, Return
<1> DEFINE t == run[r].trade
<1>0. run[r].at \in Busy \cup {"request", "place"} =>
        t \in Trade \ Free /\ trade[t] \in TradeRow /\ trade[t].signal \in Signal
  BY RunsApart DEF RunOK, TradeRow
<1>1. CASE UNCHANGED <<day, ledgers, failures>>
  BY <1>1 DEF TypeOK, Linked, Kept, ledgers
<1>2. CASE Expire(r) \/ CancelHeld(r)
  <2>1. PICK u \in Trade \ Free : trade' = [trade EXCEPT ![u].status = "CANCELLED"]
    BY <1>2, Cancels
  <2>2. trade[u] \in TradeRow
    BY RunsApart
  <2> DEFINE row == [trade[u] EXCEPT !.status = "CANCELLED"]
  <2>3. row \in TradeRow /\ row.signal = trade[u].signal
    BY <2>2 DEF TradeRow
  <2>4. trade' = [trade EXCEPT ![u] = row]
    BY <2>1, <2>2 DEF TypeOK
  <2>5. UNCHANGED <<day, position, entries, request, executions, failures>>
    BY <1>2 DEF Expire, CancelHeld
  <2> HIDE DEF row
  <2> QED
    BY <2>3, <2>4, <2>5, MarkTyped
<1>3. CASE CancelRefused(r)
  <2>1. t \in Trade \ Free /\ trade[t] \in TradeRow
    BY <1>0, <1>3 DEF CancelRefused, Busy, Dropping
  <2> DEFINE row == [trade[t] EXCEPT !.status = "CANCELLED"]
  <2>2. row \in TradeRow /\ row.signal = trade[t].signal
    BY <2>1 DEF TradeRow
  <2>3. trade' = [trade EXCEPT ![t] = row]
    BY <1>3, <2>1 DEF TypeOK, CancelRefused
  <2>4. UNCHANGED <<day, position, entries, request, executions, failures>>
    BY <1>3 DEF CancelRefused
  <2> HIDE DEF row
  <2> QED
    BY <2>1, <2>2, <2>3, <2>4, MarkTyped
<1>4. CASE RecordFilled(r)
  <2>1. t \in Trade \ Free /\ trade[t] \in TradeRow
    BY <1>0, <1>4 DEF RecordFilled, Busy, Buying
  <2>2. run[r].shares \in 0 .. MaxShares /\ day \in 0 .. MaxDay
    BY RunsApart DEF RunRow, TypeOK
  <2>3. PICK st \in {"FILLED", "PARTIAL"} :
          trade' = [trade EXCEPT ![t].status = st, ![t].shares = run[r].shares, ![t].filledOn = day]
    BY <1>4 DEF RecordFilled
  <2> DEFINE row == [trade[t] EXCEPT !.status = st, !.shares = run[r].shares, !.filledOn = day]
  <2>4. row \in TradeRow /\ row.signal = trade[t].signal
    BY <2>1, <2>2 DEF TradeRow
  <2>5. trade' = [trade EXCEPT ![t] = row]
    BY <2>3, <2>1 DEF TypeOK
  <2>6. UNCHANGED <<day, position, entries, request, executions, failures>>
    BY <1>4 DEF RecordFilled
  <2> HIDE DEF row
  <2> QED
    BY <2>1, <2>4, <2>5, <2>6, MarkTyped
<1>5. CASE CreatePosition(r)
  <2>1. UNCHANGED <<day, trade, request, executions, book, failures>>
    BY <1>5 DEF CreatePosition
  <2>2. PICK u \in Trade \ Free : \/ /\ position' = [position EXCEPT ![u] = "OPEN"]
                                     /\ entries' = [entries EXCEPT ![u] = @ + 1]
                                  \/ UNCHANGED <<position, entries>>
    BY <1>5, Creates
  <2> QED
    BY <2>1, <2>2 DEF TypeOK, Linked, Kept, Free
<1>6. CASE SellDeferred(r) \/ Evaluate(r)
  <2>1. UNCHANGED <<day, trade, entries, request, executions, book, failures>>
    BY <1>6 DEF SellDeferred, Evaluate
  <2>2. PICK u \in Trade, st \in {"OPEN", "EXITING", "CLOSED"} :
          position[u] # "NONE" /\ position' = [position EXCEPT ![u] = st]
    BY <1>6 DEF SellDeferred, Evaluate, Open
  <2> QED
    BY <2>1, <2>2 DEF TypeOK, Linked, Kept
<1>7. CASE Execute(r)
  <2>1. UNCHANGED <<day, trade, position, entries, request, book, failures>>
    BY <1>7 DEF Execute
  <2>2. t \in Trade /\ executions' = [executions EXCEPT ![t] = @ + 1]
    BY <1>0, <1>7 DEF Execute, Busy, Buying
  <2> HIDE DEF t
  <2>3. executions' \in [Trade -> Nat]
    BY <2>2 DEF TypeOK
  <2> QED
    BY <2>1, <2>3 DEF TypeOK, Linked, Kept
<1>8. CASE Link(r)
  <2>1. t \in Trade \ Free /\ trade[t] \in TradeRow /\ trade[t].signal \in Signal
    BY <1>0, <1>8 DEF Link, Busy, Writing
  <2> DEFINE row == [status |-> "EXECUTED", trade |-> t, execution |-> t]
  <2>2. row \in RequestRow /\ row.trade = t /\ row.execution = row.trade
    BY <2>1 DEF RequestRow
  <2>3. request' = [request EXCEPT ![trade[t].signal] = row]
    BY <1>8 DEF Link
  <2>4. UNCHANGED <<day, trade, position, entries, executions, failures>>
    BY <1>8 DEF Link
  <2>5. trade[t] # NoTrade
    BY <2>1 DEF Free
  <2> HIDE DEF row
  <2> QED
    BY <2>1, <2>2, <2>3, <2>4, <2>5, RequestTyped
<1>9. CASE CancelRequest(r)
  <2>1. t \in Trade \ Free /\ trade[t].signal \in Signal
    BY <1>0, <1>9 DEF CancelRequest, Busy, Dropping
  <2> DEFINE s == trade[t].signal
  <2>2. request[s] # NoRequest
    BY <1>9 DEF CancelRequest, RunOK
  <2>3. request[s] \in RequestRow
    BY <2>1, <2>2 DEF TypeOK
  <2> DEFINE row == [request[s] EXCEPT !.status = "CANCELLED"]
  <2>4. row \in RequestRow /\ row.trade = request[s].trade /\ row.status # "EXECUTED"
    BY <2>3 DEF RequestRow
  <2>5. request' = [request EXCEPT ![s] = row]
    BY <1>9, <2>1, <2>3 DEF CancelRequest, TypeOK
  <2>6. UNCHANGED <<day, trade, position, entries, executions, failures>>
    BY <1>9 DEF CancelRequest
  <2>7. trade[row.trade] # NoTrade /\ trade[row.trade].signal = s
    BY <2>1, <2>2, <2>4 DEF TypeOK
  <2> HIDE DEF row
  <2> QED
    BY <2>1, <2>4, <2>5, <2>6, <2>7, RequestTyped
<1>10. CASE UpsertRequest(r)
  <2>1. t \in Trade \ Free /\ trade[t].signal \in Signal
    BY <1>0, <1>10 DEF UpsertRequest
  <2> DEFINE s == trade[t].signal
  <2>2. request[s] \in {NoRequest} \cup RequestRow
    BY <2>1 DEF TypeOK
  <2> DEFINE row == Judged(request[s], t)
  <2>3. row \in RequestRow /\ row.trade = t /\ row.status # "EXECUTED"
    <3>1. CASE request[s] \in RequestRow
      BY <2>1, <3>1 DEF RequestRow, Judged
    <3>2. CASE request[s] = NoRequest
      <4>1. NoRequest \in [status : {"NONE"}, trade : {0}, execution : {0}]
        BY DEF NoRequest
      <4> QED
        BY <2>1, <3>2, <4>1 DEF RequestRow, Judged
    <3> QED
      BY <2>2, <3>1, <3>2
  <2>5. request' = [request EXCEPT ![s] = row]
    BY <1>10 DEF UpsertRequest
  <2>6. UNCHANGED <<day, trade, position, entries, executions, failures>>
    BY <1>10 DEF UpsertRequest
  <2>7. trade[row.trade] # NoTrade /\ trade[row.trade].signal = s
    BY <2>1, <2>3 DEF Free
  <2> HIDE DEF row
  <2> QED
    BY <2>1, <2>3, <2>5, <2>6, <2>7, RequestTyped
<1>11. CASE Reserve(r)
  <2>1. PICK s \in run[r].todo, n \in 1 .. MaxShares : trade' = [trade EXCEPT ![First(Free)] =
          [status |-> "PENDING", signal |-> s, due |-> day + 1, ordered |-> n, shares |-> 0, filledOn |-> 0]]
    BY <1>11 DEF Reserve, Free
  <2>2. First(Free) \in Free /\ s \in Signal /\ day + 1 \in 1 .. MaxDay
    <3>1. /\ run[r].todo \subseteq Signal /\ s \in run[r].todo
          /\ Cardinality(run[r].todo) <= Cardinality(Free) /\ day + 1 + Carry < MaxDay
      BY <1>11, <2>1 DEF Reserve, RunOK, Reserving
    <3>2. First(Free) \in Free
      BY <3>1, FreeLeft
    <3> QED
      BY <3>1, <3>2, ConstantsAssumption DEF TypeOK
  <2> DEFINE u == First(Free)
             row == [status |-> "PENDING", signal |-> s, due |-> day + 1, ordered |-> n,
                     shares |-> 0, filledOn |-> 0]
  <2>3. row \in TradeRow
    BY <2>2, ConstantsAssumption DEF TradeRow, TypeOK
  <2>4. trade' = [trade EXCEPT ![u] = row]
    BY <2>1
  <2>5. UNCHANGED <<day, position, entries, request, executions, failures>>
    BY <1>11 DEF Reserve
  <2>6. u \in Trade /\ trade[u] = NoTrade
    BY <2>2 DEF Free
  <2> HIDE DEF u, row
  <2>7. \A v \in Trade : trade[v] # NoTrade => trade'[v] = trade[v]
    BY <2>4, <2>6 DEF TypeOK
  <2>8. Kept
    BY <2>5, <2>7 DEF Kept
  <2>9. \A v \in Trade : entries[v] > 0 => trade[v] # NoTrade
    BY DEF TypeOK
  <2>10. \A q \in Signal : request[q] # NoRequest =>
            request[q].trade \in Trade /\ trade[request[q].trade] # NoTrade /\ trade[request[q].trade].signal = q
    BY DEF TypeOK, RequestRow
  <2>11. trade' \in [Trade -> {NoTrade} \cup TradeRow]
    BY <2>3, <2>4, <2>6 DEF TypeOK
  <2>12. TypeOK'
    BY <2>5, <2>7, <2>9, <2>10, <2>11 DEF TypeOK
  <2> QED
    BY <2>5, <2>8, <2>12 DEF Linked
<1>12. CASE BookFill(r) \/ CancelBook(r) \/ PlaceOrder(r)
  BY <1>12 DEF BookFill, CancelBook, PlaceOrder, TypeOK, Linked, Kept
<1>13. CASE Swallow(r)
  BY <1>13, ConstantsAssumption DEF Swallow, TypeOK, Linked, Kept, ledgers
<1>14. CASE Start(r) \/ BeginFill(r) \/ CarryOver(r) \/ LookUp(r) \/ LookUpCancelled(r) \/ EndFill(r)
            \/ EndDeferred(r) \/ EndEvaluate(r) \/ Screen(r) \/ Rank(r) \/ EndReserve(r)
  BY <1>1, <1>14 DEF Start, BeginFill, CarryOver, LookUp, LookUpCancelled, EndFill, EndDeferred,
    EndEvaluate, Screen, Rank, EndReserve
<1> QED
  BY <1>2, <1>3, <1>4, <1>5, <1>6, <1>7, <1>8, <1>9, <1>10, <1>11, <1>12, <1>13, <1>14 DEF Step

-----------------------------------------------------------------------------
(* Only a reservation takes a free trade, and no runner moves the day.     *)
LEMMA FreeKept ==
  ASSUME Rows, NEW r \in Runner, RunOK(r), Start(r) \/ Step(r), ~ Reserve(r)
  PROVE  Free' = Free
<1>1. CASE UNCHANGED trade
  BY <1>1 DEF Free
<1>2. CASE \E t \in Trade \ Free : trade'[t] # NoTrade /\ \A u \in Trade : u # t => trade'[u] = trade[u]
  BY <1>2 DEF Free
<1>3. CASE Expire(r) \/ CancelHeld(r) \/ CancelRefused(r) \/ RecordFilled(r)
  <2>1. Kept
    BY <1>3, TablesTyped DEF Step
  <2>2. PICK t \in Trade \ Free : \A u \in Trade : u # t => trade'[u] = trade[u]
    <3>1. CASE Expire(r) \/ CancelHeld(r)
      <4>1. PICK t \in Trade \ Free : trade' = [trade EXCEPT ![t].status = "CANCELLED"]
        BY <3>1, Cancels
      <4> QED
        BY <4>1 DEF Rows, TypeOK
    <3>2. CASE CancelRefused(r) \/ RecordFilled(r)
      BY <3>2 DEF CancelRefused, RecordFilled, Rows, TypeOK, RunOK, Busy, Buying, Dropping
    <3> QED
      BY <1>3, <3>1, <3>2
  <2>3. trade'[t] # NoTrade
    BY <2>1, <2>2 DEF Kept, Free
  <2> QED
    BY <1>2, <2>2, <2>3
<1>4. CASE Start(r) \/ BeginFill(r) \/ CarryOver(r) \/ CreatePosition(r) \/ LookUp(r) \/ Execute(r) \/ Link(r)
           \/ BookFill(r) \/ LookUpCancelled(r) \/ CancelRequest(r) \/ CancelBook(r) \/ EndFill(r)
           \/ SellDeferred(r) \/ EndDeferred(r) \/ Evaluate(r) \/ EndEvaluate(r) \/ Screen(r) \/ Rank(r)
           \/ UpsertRequest(r) \/ PlaceOrder(r) \/ EndReserve(r) \/ Swallow(r)
  <2>1. UNCHANGED trade
    BY <1>4 DEF Start, BeginFill, CarryOver, CreatePosition, LookUp, Execute, Link, BookFill,
      LookUpCancelled, CancelRequest, CancelBook, EndFill, SellDeferred, EndDeferred, Evaluate,
      EndEvaluate, Screen, Rank, UpsertRequest, PlaceOrder, EndReserve, Swallow, ledgers
  <2> QED
    BY <1>1, <2>1
<1> QED
  BY <1>3, <1>4 DEF Step

LEMMA DayKept ==
  ASSUME NEW r \in Runner, Start(r) \/ Step(r)
  PROVE  day' = day
BY DEF Step, Start, Expire, BeginFill, CancelHeld, CarryOver, CreatePosition, CancelRefused,
  RecordFilled, LookUp, Execute, Link, BookFill, LookUpCancelled, CancelRequest, CancelBook, EndFill,
  SellDeferred, EndDeferred, Evaluate, EndEvaluate, Screen, Rank, Reserve, UpsertRequest, PlaceOrder,
  EndReserve, Swallow

LEMMA OtherHeld ==
  ASSUME Rows, NEW r \in Runner, RunOK(r), Start(r) \/ Step(r), NEW q \in Runner, q # r, RunOK(q)
  PROVE  RunOK(q)'
<1>1. run'[q] = run[q]
  BY OthersStay
<1>2. Kept /\ day' = day
  BY TablesTyped, DayKept
<1>3. Trade \ Free \subseteq Trade \ Free'
  BY <1>2 DEF Kept, Free
<1>4. run[q].at \in Reserving => Free' = Free
  <2>1. Reserve(r) => r = "daily"
    BY DEF Reserve, RunOK, Reserving
  <2> QED
    BY <2>1, FreeKept DEF RunOK
<1>5. run[q].at = "cancelRequest" => request'[trade'[run'[q].trade].signal] # NoRequest
  <2>1. ASSUME run[q].at = "cancelRequest"
        PROVE  request'[trade'[run'[q].trade].signal] # NoRequest
    <3>1. /\ run[q].trade \in Trade /\ trade[run[q].trade] # NoTrade
          /\ request[trade[run[q].trade].signal] # NoRequest
      BY <2>1 DEF RunOK, Busy, Dropping, Free
    <3>2. trade[run[q].trade].signal \in Signal
      BY <3>1 DEF Rows, TypeOK, TradeRow
    <3> QED
      BY <1>1, <1>2, <3>1, <3>2 DEF Kept
  <2> QED
    BY <2>1
<1> QED
  BY <1>1, <1>2, <1>3, <1>4, <1>5 DEF RunOK

(* The stages at which nothing is in hand.                                 *)
LEMMA EmptyHanded ==
  ASSUME NEW r \in Runner, run'[r].at \in {"idle", "exits", "evaluate"}
  PROVE  RunOK(r)'
BY DEF RunOK, Busy, Buying, Writing, Dropping, Reserving

(* The step to a stage of a call, with the trade in hand and the rest of   *)
(* what was read.                                                          *)
LEMMA CallHeld ==
  ASSUME Rows, NEW r \in Runner, RunOK(r), Start(r) \/ Step(r), ~ Reserve(r),
         run[r].at \in Busy \cup {"request", "place"},
         run'[r].todo = run[r].todo, run'[r].trade = run[r].trade,
         run'[r].shares = run[r].shares, run'[r].back = run[r].back,
         \/ /\ run[r].at \in Busy /\ run'[r].at \in Busy \cup {run[r].back}
            /\ run'[r].at \in Buying \cup Writing => run[r].at \in Buying \cup Writing
            /\ run'[r].at = "cancelRequest" =>
                 request[trade[run[r].trade].signal] # NoRequest
         \/ run[r].at \in {"request", "place"} /\ run'[r].at \in {"place", run[r].back}
  PROVE  RunOK(r)'
<1>1. Free' = Free /\ Kept /\ day' = day
  BY FreeKept, TablesTyped, DayKept
<1>2. run[r].trade \in Trade \ Free /\ trade[run[r].trade].signal \in Signal
  BY RunsApart DEF RunOK, TradeRow
<1>3. CASE run[r].at \in Busy
  <2>1. run[r].back \in {"due", "fill"} /\ run[r].todo \subseteq Trade \ Free
    BY <1>3 DEF RunOK
  <2>2. run'[r].at \in Busy \cup {"due", "fill"}
    BY <1>3, <2>1 DEF Busy, Buying, Writing, Dropping
  <2>3. run'[r].at = "cancelRequest" => request'[trade'[run'[r].trade].signal] # NoRequest
    BY <1>1, <1>2, <1>3, <2>1 DEF Kept, Free, Busy, Buying, Writing, Dropping
  <2>4. run'[r].at \in Buying \cup Writing => run[r].shares > 0
    BY <1>3, <2>1 DEF RunOK, Busy, Buying, Writing, Dropping
  <2> QED
    BY <1>1, <1>2, <2>1, <2>2, <2>3, <2>4 DEF RunOK, Busy, Buying, Writing, Dropping, Reserving
<1>4. CASE run[r].at \in {"request", "place"}
  BY <1>1, <1>2, <1>4 DEF RunOK, Busy, Buying, Writing, Dropping, Reserving
<1> QED
  BY <1>3, <1>4

LEMMA OwnHeld ==
  ASSUME Rows, NEW r \in Runner, RunOK(r), Start(r) \/ Step(r)
  PROVE  RunOK(r)'
<1> USE DEF Goto, Return
<1>1. run \in [Runner -> RunRow] /\ run[r] \in RunRow
  BY DEF Rows
<1>2. Kept /\ day' = day
  BY TablesTyped, DayKept
<1>3. ASSUME UNCHANGED run, ~ Reserve(r), UNCHANGED <<trade, request>> PROVE RunOK(r)'
  BY <1>2, <1>3, FreeKept DEF RunOK
<1>4. CASE Start(r)
  <2>1. run'[r].at = "due" /\ run'[r].todo \subseteq Pending /\ UNCHANGED trade
    BY <1>1, <1>4 DEF Start, Idle, RunRow, ledgers
  <2>2. Pending \subseteq Trade \ Free'
    BY <2>1 DEF Pending, Free, NoTrade
  <2> QED
    BY <2>1, <2>2 DEF RunOK, Busy, Buying, Writing, Dropping, Reserving
<1>5. CASE Expire(r) \/ CancelHeld(r)
  <2>1. PICK t \in Trade \ Free : /\ run'[r].at = "cancel" /\ run'[r].back \in {"due", "fill"}
                                  /\ run'[r].trade = t /\ run'[r].todo = run[r].todo \ {t}
    <3>1. PICK t \in Trade \ Free, b \in {"due", "fill"} :
            run' = [run EXCEPT ![r].at = "cancel", ![r].back = b, ![r].trade = t, ![r].todo = @ \ {t}]
      BY <1>5, Cancels
    <3> QED
      BY <1>1, <3>1 DEF RunRow
  <2>2. run[r].todo \subseteq Trade \ Free
    BY <1>5 DEF Expire, CancelHeld, RunOK
  <2>3. ~ Reserve(r)
    BY <1>5 DEF Expire, CancelHeld, Reserve
  <2> QED
    BY <2>1, <2>2, <2>3, FreeKept DEF RunOK, Busy, Buying, Writing, Dropping, Reserving
<1>6. CASE BeginFill(r) \/ CarryOver(r) \/ EndFill(r)
  <2>1. ~ Reserve(r)
    BY <1>6 DEF BeginFill, CarryOver, EndFill, Reserve
  <2>2. \/ run'[r].at = "exits"
        \/ run'[r].at = "fill" /\ run'[r].todo \subseteq run[r].todo
    BY <1>1, <1>6 DEF BeginFill, CarryOver, EndFill, RunRow
  <2>3. run[r].todo \subseteq Trade \ Free
    BY <1>6 DEF BeginFill, CarryOver, EndFill, RunOK
  <2> QED
    BY <2>1, <2>2, <2>3, FreeKept DEF RunOK, Busy, Buying, Writing, Dropping, Reserving
<1>7. CASE CreatePosition(r)
  <2>1. ~ Reserve(r) /\ run[r].todo \subseteq Trade \ Free
    BY <1>7 DEF CreatePosition, Reserve, RunOK
  <2>2. PICK t \in Trade \ Free :
          /\ run'[r].at \in {"created", "refused"} /\ run'[r].back = "fill"
          /\ run'[r].trade = t /\ run'[r].todo = run[r].todo \ {t}
          /\ run'[r].at = "created" => run'[r].shares > 0
    <3>1. PICK t \in Trade \ Free :
            \/ \E n \in 1 .. MaxShares :
                 run' = [run EXCEPT ![r].at = "created", ![r].trade = t, ![r].shares = n,
                                    ![r].back = "fill", ![r].todo = @ \ {t}]
            \/ run' = [run EXCEPT ![r].at = "refused", ![r].trade = t, ![r].back = "fill",
                                  ![r].todo = @ \ {t}]
      BY <1>7, Creates
    <3>2. CASE \E n \in 1 .. MaxShares :
                 run' = [run EXCEPT ![r].at = "created", ![r].trade = t, ![r].shares = n,
                                    ![r].back = "fill", ![r].todo = @ \ {t}]
      <4>1. PICK n \in 1 .. MaxShares :
                 run' = [run EXCEPT ![r].at = "created", ![r].trade = t, ![r].shares = n,
                                    ![r].back = "fill", ![r].todo = @ \ {t}]
        BY <3>2
      <4>2. n > 0
        OBVIOUS
      <4> QED
        BY <1>1, <4>1, <4>2 DEF RunRow
    <3>3. CASE run' = [run EXCEPT ![r].at = "refused", ![r].trade = t, ![r].back = "fill",
                                  ![r].todo = @ \ {t}]
      BY <1>1, <3>3 DEF RunRow
    <3> QED
      BY <3>1, <3>2, <3>3
  <2> QED
    BY <2>1, <2>2, FreeKept DEF RunOK, Busy, Buying, Writing, Dropping, Reserving
<1>8. CASE CancelRefused(r) \/ RecordFilled(r) \/ LookUp(r) \/ Execute(r) \/ Link(r) \/ BookFill(r)
           \/ LookUpCancelled(r) \/ CancelRequest(r) \/ CancelBook(r)
  <2>1. run[r].at \in Busy /\ ~ Reserve(r)
    BY <1>8 DEF CancelRefused, RecordFilled, LookUp, Execute, Link, BookFill, LookUpCancelled,
      CancelRequest, CancelBook, Busy, Buying, Writing, Dropping, Reserve
  <2>2. /\ run'[r].todo = run[r].todo /\ run'[r].trade = run[r].trade
        /\ run'[r].shares = run[r].shares /\ run'[r].back = run[r].back
    BY <1>1, <1>8 DEF CancelRefused, RecordFilled, LookUp, Execute, Link, BookFill, LookUpCancelled,
      CancelRequest, CancelBook, RunRow
  <2>3. /\ run'[r].at \in Busy \cup {run[r].back}
        /\ run'[r].at \in Buying \cup Writing => run[r].at \in Buying \cup Writing
        /\ run'[r].at = "cancelRequest" => request[trade[run[r].trade].signal] # NoRequest
    <3>1. run[r].back \in {"due", "fill"}
      BY <2>1 DEF RunOK
    <3>2. CASE CancelRefused(r) \/ RecordFilled(r) \/ LookUp(r) \/ Execute(r) \/ Link(r) \/ BookFill(r)
               \/ CancelRequest(r) \/ CancelBook(r)
      BY <1>1, <3>1, <3>2 DEF CancelRefused, RecordFilled, LookUp, Execute, Link, BookFill, CancelRequest,
        CancelBook, Busy, Buying, Writing, Dropping, RunRow
    <3>3. CASE LookUpCancelled(r)
      <4>1. \/ run'[r].at = run[r].back
            \/ /\ run'[r].at = "cancelRequest"
               /\ request[trade[run[r].trade].signal].status # "NONE"
        BY <1>1, <3>3 DEF LookUpCancelled, RunRow
      <4> QED
        BY <3>1, <4>1 DEF NoRequest, Busy, Buying, Writing, Dropping
    <3> QED
      BY <1>8, <3>2, <3>3
  <2> QED
    BY <2>1, <2>2, <2>3, CallHeld
<1>9. CASE UpsertRequest(r) \/ PlaceOrder(r)
  <2>1. run[r].at \in {"request", "place"} /\ ~ Reserve(r)
    BY <1>9 DEF UpsertRequest, PlaceOrder, Reserve
  <2>2. /\ run'[r].todo = run[r].todo /\ run'[r].trade = run[r].trade
        /\ run'[r].shares = run[r].shares /\ run'[r].back = run[r].back
        /\ run'[r].at \in {"place", run[r].back}
    BY <1>1, <1>9 DEF UpsertRequest, PlaceOrder, RunRow
  <2> QED
    BY <2>1, <2>2, CallHeld
<1>10. CASE Swallow(r)
  <2>1. run[r].at \in Busy \cup {"request", "place"} /\ ~ Reserve(r)
    BY <1>10 DEF Swallow, Busy, Buying, Writing, Dropping, Reserve
  <2>2. /\ run'[r].todo = run[r].todo /\ run'[r].trade = run[r].trade
        /\ run'[r].shares = run[r].shares /\ run'[r].back = run[r].back
        /\ run'[r].at = run[r].back
    BY <1>1, <1>10 DEF Swallow, RunRow
  <2>3. run[r].at \in Busy => run[r].back \in {"due", "fill"}
    BY DEF RunOK
  <2> QED
    BY <2>1, <2>2, <2>3, CallHeld DEF Busy, Buying, Writing, Dropping
<1>11. CASE SellDeferred(r) \/ Evaluate(r)
  BY <1>11, <1>3 DEF SellDeferred, Evaluate, Reserve
<1>12. CASE EndEvaluate(r) \/ EndReserve(r)
  <2>1. run'[r].at \in {"idle", "evaluate"}
    BY <1>1, <1>12 DEF EndEvaluate, EndReserve, Idle
  <2> QED
    BY <2>1, EmptyHanded
<1>13. CASE EndDeferred(r) \/ Screen(r)
  <2>1. \/ run'[r].at = "evaluate"
        \/ run'[r].at \in {"screen", "rank"} /\ r = "daily"
    BY <1>1, <1>13 DEF EndDeferred, Screen, RunRow, RunOK
  <2> QED
    BY <2>1, EmptyHanded DEF RunOK, Busy, Buying, Writing, Dropping, Reserving
<1>14. CASE Rank(r)
  <2>1. PICK picks \in SUBSET Signal :
          /\ run' = [run EXCEPT ![r].at = "reserve", ![r].todo = picks]
          /\ Cardinality(picks) <= Cardinality(Free)
          /\ picks # {} => day + 1 + Carry < MaxDay
    BY <1>14 DEF Rank, Free
  <2>2. r = "daily" /\ ~ Reserve(r)
    BY <1>14 DEF Rank, RunOK, Reserve
  <2>3. run'[r].at = "reserve" /\ run'[r].todo = picks
    BY <1>1, <2>1 DEF RunRow
  <2> QED
    BY <1>2, <2>1, <2>2, <2>3, FreeKept DEF RunOK, Busy, Buying, Writing, Dropping, Reserving
<1>15. CASE Reserve(r)
  <2>1. PICK s \in run[r].todo, n \in 1 .. MaxShares :
          /\ trade' = [trade EXCEPT ![First(Free)] =
               [status |-> "PENDING", signal |-> s, due |-> day + 1, ordered |-> n,
                shares |-> 0, filledOn |-> 0]]
          /\ run' = [run EXCEPT ![r].at = "request", ![r].trade = First(Free),
                                ![r].back = "reserve", ![r].todo = @ \ {s}]
    BY <1>15 DEF Reserve, Free
  <2>2. /\ run[r].todo \subseteq Signal /\ s \in run[r].todo /\ r = "daily"
        /\ Cardinality(run[r].todo) <= Cardinality(Free) /\ day + 1 + Carry < MaxDay
    BY <1>15, <2>1 DEF Reserve, RunOK, Reserving
  <2>3. /\ First(Free) \in Free
        /\ Cardinality(run[r].todo \ {s}) <= Cardinality(Free \ {First(Free)})
    BY <2>2, FreeLeft
  <2>4. Free' = Free \ {First(Free)}
    <3> DEFINE u == First(Free)
               row == [status |-> "PENDING", signal |-> s, due |-> day + 1, ordered |-> n,
                       shares |-> 0, filledOn |-> 0]
    <3>1. row # NoTrade
      BY DEF NoTrade
    <3>2. trade' = [trade EXCEPT ![u] = row] /\ u \in Free
      BY <2>1, <2>3
    <3> HIDE DEF u, row
    <3>3. \A t \in Trade : trade'[t] = IF t = u THEN row ELSE trade[t]
      BY <3>2 DEF Rows, TypeOK
    <3>4. Free' = Free \ {u}
      BY <3>1, <3>3 DEF Free
    <3> QED
      BY <3>4 DEF u
  <2> DEFINE u == First(Free)
  <2>5. /\ run'[r].at = "request" /\ run'[r].trade = u /\ run'[r].back = "reserve"
        /\ run'[r].todo = run[r].todo \ {s}
    BY <1>1, <2>1 DEF RunRow
  <2>6. u \in Trade \ Free'
    BY <2>3, <2>4 DEF Free
  <2>7. /\ Cardinality(run'[r].todo) <= Cardinality(Free')
        /\ run'[r].todo \subseteq Signal
    BY <2>2, <2>3, <2>4, <2>5
  <2> HIDE DEF u
  <2> QED
    BY <1>2, <2>2, <2>5, <2>6, <2>7 DEF RunOK, Busy, Buying, Writing, Dropping, Reserving
<1> QED
  BY <1>4, <1>5, <1>6, <1>7, <1>8, <1>9, <1>10, <1>11, <1>12, <1>13, <1>14, <1>15 DEF Step

-----------------------------------------------------------------------------
Base == Rows /\ Held

LEMMA BaseInit ==
  ASSUME Init
  PROVE  Base
<1> USE ConstantsAssumption DEF Init
<1>1. Idle \in RunRow
  BY DEF Idle, RunRow, Stages
<1>2. run \in [Runner -> RunRow]
  BY <1>1
<1>3. TypeOK
  BY DEF TypeOK, NoTrade, NoRequest
<1>4. Linked
  BY DEF Linked, NoRequest
<1>5. Held
  BY DEF Held, RunOK, Idle, Busy, Buying, Writing, Dropping, Reserving
<1> QED
  BY <1>2, <1>3, <1>4, <1>5 DEF Base, Rows

LEMMA CutOffIdles ==
  ASSUME CutOff
  PROVE  /\ \A r \in Runner : run'[r] = Idle \/ run'[r] = run[r]
         /\ DOMAIN run' = Runner /\ failures' = failures + 1 /\ failures < MaxFailures
         /\ UNCHANGED <<day, trade, position, entries, request, executions, book>>
BY DEF CutOff, ledgers

LEMMA BaseStep ==
  ASSUME Base, [Next]_vars
  PROVE  Base'
<1> USE DEF Base, Held
<1>1. ASSUME NEW r \in Runner, Start(r) \/ Step(r)
      PROVE  Base'
  <2>1. RunOK(r)
    OBVIOUS
  <2>2. run' \in [Runner -> RunRow] /\ TypeOK' /\ Linked'
    BY <1>1, <2>1, RunTyped, TablesTyped
  <2>3. \A q \in Runner : RunOK(q)'
    BY <1>1, <2>1, OwnHeld, OtherHeld
  <2> QED
    BY <2>2, <2>3 DEF Rows
<1>2. CASE CutOff
  <2>1. run' \in [Runner -> RunRow]
    <3>1. Idle \in RunRow
      BY ConstantsAssumption DEF Idle, RunRow, Stages
    <3>2. \A r \in Runner : run'[r] \in RunRow
      BY <1>2, <3>1, CutOffIdles DEF Rows
    <3>3. run' = [r \in Runner |-> run'[r]]
      BY <1>2 DEF CutOff
    <3> QED
      BY <3>2, <3>3
  <2>2. TypeOK' /\ Linked'
    BY <1>2, CutOffIdles, ConstantsAssumption DEF Rows, TypeOK, Linked
  <2>3. ASSUME NEW r \in Runner PROVE RunOK(r)'
    <3>1. CASE run'[r] = Idle
      BY <3>1 DEF Idle, RunOK, Busy, Buying, Writing, Dropping, Reserving
    <3>2. CASE run'[r] = run[r]
      BY <1>2, <3>2, CutOffIdles DEF RunOK, Free
    <3> QED
      BY <1>2, <3>1, <3>2, CutOffIdles
  <2> QED
    BY <2>1, <2>2, <2>3 DEF Rows
<1>3. CASE Tick
  <2>1. \A r \in Runner : run'[r].at = "idle"
    BY <1>3 DEF Tick, AllIdle, Idle
  <2>2. Rows'
    BY <1>3, ConstantsAssumption DEF Tick, ledgers, Rows, TypeOK, Linked
  <2> QED
    BY <2>1, <2>2, EmptyHanded
<1>4. CASE UNCHANGED vars
  BY <1>4 DEF vars, ledgers, Rows, TypeOK, Linked, RunOK, Free
<1> QED
  BY <1>1, <1>2, <1>3, <1>4 DEF Next

(* The rows of every ledger are well formed, and every request points to a *)
(* trade of its signal, whatever overlaps and is cut off.                  *)
THEOREM Typed == Spec => []TypeOK
<1>1. Init => Base
  BY BaseInit
<1>2. Base /\ [Next]_vars => Base'
  BY BaseStep
<1>3. Base => TypeOK
  BY DEF Base, Rows
<1> QED
  BY <1>1, <1>2, <1>3, PTL DEF Spec

-----------------------------------------------------------------------------
(* The canonical orders.  An open order has shares left, so a fill of at   *)
(* least one share, clamped to what was ordered, is a fill of OrderBook.   *)
BookRow == [stage : {"NOTHING", "OPEN", "CLOSED", "DONE"}, requested : 0 .. MaxShares,
            filled : 0 .. MaxShares]
BookOK ==
  /\ book \in [Trade -> BookRow]
  /\ \A t \in Trade : book[t].stage = "OPEN" => book[t].filled < book[t].requested

LEMMA ClampedFill ==
  ASSUME BookOK, NEW t \in Trade, NEW n \in 1 .. MaxShares, book[t].stage = "OPEN"
  PROVE  LET total == Clamped(book[t].filled + n, book[t].requested) IN
         /\ total \in 1 .. MaxShares /\ book[t].filled < total /\ total <= book[t].requested
         /\ total <= book[t].filled + n
         /\ total >= book[t].requested <=> total = book[t].requested
<1>1. book[t] \in BookRow /\ book[t].filled < book[t].requested
  BY DEF BookOK
<1>2. book[t].filled \in 0 .. MaxShares /\ book[t].requested \in 0 .. MaxShares
  BY <1>1 DEF BookRow
<1> QED
  BY <1>1, <1>2, ConstantsAssumption DEF Clamped

LEMMA FillMoves ==
  ASSUME Base, BookOK, NEW r \in Runner, BookFill(r)
  PROVE  [Orders!Next]_book
<1> DEFINE t == run[r].trade
<1>1. t \in Trade /\ run[r].shares \in 1 .. MaxShares
  <2>1. t \in Trade /\ run[r].shares > 0
    BY DEF BookFill, Base, Held, RunOK, Busy, Writing
  <2>2. run[r].shares \in 0 .. MaxShares
    BY RunsApart DEF Base, RunRow
  <2> QED
    BY <2>1, <2>2
<1>2. CASE UNCHANGED book
  BY <1>2
<1>3. CASE Orders!End(t)
  BY <1>1, <1>3 DEF Orders!Next
<1>4. CASE book[t].stage = "OPEN" /\ ~ UNCHANGED book /\ ~ Orders!End(t)
  <2> DEFINE total == Clamped(book[t].filled + run[r].shares, book[t].requested)
  <2>1. book' = [book EXCEPT ![t] =
                  [stage |-> IF total >= book[t].requested THEN "DONE" ELSE "OPEN",
                   requested |-> book[t].requested, filled |-> total]]
    BY <1>4 DEF BookFill
  <2>2. /\ total \in 1 .. MaxShares /\ book[t].filled < total /\ total <= book[t].requested
        /\ total >= book[t].requested <=> total = book[t].requested
    BY <1>1, <1>4, ClampedFill
  <2> HIDE DEF total
  <2>3. book' = [book EXCEPT ![t] =
                  [stage |-> IF total = book[t].requested THEN "DONE" ELSE "OPEN",
                   requested |-> book[t].requested, filled |-> total]]
    BY <2>1, <2>2
  <2>4. Orders!Fill(t)
    BY <1>4, <2>2, <2>3 DEF Orders!Fill
  <2> QED
    BY <1>1, <2>4 DEF Orders!Next
<1> QED
  BY <1>2, <1>3, <1>4 DEF BookFill

LEMMA BookMoves ==
  ASSUME Base, BookOK, [Next]_vars
  PROVE  [Orders!Next]_book
<1>1. ASSUME NEW r \in Runner, BookFill(r) PROVE [Orders!Next]_book
  BY <1>1, FillMoves
<1>2. ASSUME NEW r \in Runner, CancelBook(r) PROVE [Orders!Next]_book
  <2>1. run[r].trade \in Trade
    BY <1>2 DEF CancelBook, Base, Held, RunOK, Busy, Dropping
  <2> QED
    BY <1>2, <2>1 DEF CancelBook, Orders!Next
<1>3. ASSUME NEW r \in Runner, PlaceOrder(r) PROVE [Orders!Next]_book
  <2>1. run[r].trade \in Trade
    BY <1>3 DEF PlaceOrder, Base, Held, RunOK
  <2> QED
    BY <1>3, <2>1 DEF PlaceOrder, Orders!Next
<1>4. ASSUME NEW r \in Runner, Start(r) \/ Step(r), ~ BookFill(r), ~ CancelBook(r), ~ PlaceOrder(r)
      PROVE  UNCHANGED book
  BY <1>4 DEF Step, Start, Expire, BeginFill, CancelHeld, CarryOver, CreatePosition, CancelRefused,
    RecordFilled, LookUp, Execute, Link, LookUpCancelled, CancelRequest, EndFill, SellDeferred,
    EndDeferred, Evaluate, EndEvaluate, Screen, Rank, Reserve, UpsertRequest, EndReserve, Swallow, ledgers
<1>5. CutOff \/ Tick \/ UNCHANGED vars => UNCHANGED book
  BY DEF CutOff, Tick, vars, ledgers
<1> QED
  BY <1>1, <1>2, <1>3, <1>4, <1>5 DEF Next

LEMMA BookKept ==
  ASSUME BookOK, [Orders!Next]_book
  PROVE  BookOK'
<1>1. CASE UNCHANGED book
  BY <1>1 DEF BookOK
<1>2. ASSUME NEW t \in Trade, Orders!Place(t) PROVE BookOK'
  BY <1>2, ConstantsAssumption DEF BookOK, BookRow, Orders!Place
<1>3. ASSUME NEW t \in Trade, Orders!Fill(t) PROVE BookOK'
  <2>1. PICK total \in 1 .. MaxShares :
          /\ book[t].filled < total /\ total <= book[t].requested
          /\ book' = [book EXCEPT ![t] =
                [stage |-> IF total = book[t].requested THEN "DONE" ELSE "OPEN",
                 requested |-> book[t].requested, filled |-> total]]
    BY <1>3 DEF Orders!Fill
  <2>2. book[t].requested \in 0 .. MaxShares /\ total \in 0 .. MaxShares
    BY DEF BookOK, BookRow
  <2> QED
    BY <2>1, <2>2 DEF BookOK, BookRow
<1>4. ASSUME NEW t \in Trade, Orders!End(t) PROVE BookOK'
  BY <1>4 DEF BookOK, BookRow, Orders!End
<1> QED
  BY <1>1, <1>2, <1>3, <1>4 DEF Orders!Next

LEMMA BookInit ==
  ASSUME Init
  PROVE  BookOK /\ Orders!Init
BY ConstantsAssumption DEF Init, Orders!Init, Orders!Nothing, BookOK, BookRow

-----------------------------------------------------------------------------
(* An entry is owed one execution until it is written; an execution is     *)
(* written before the canonical order is filled.                           *)
Owed(r, t) == IF run[r].trade = t /\ run[r].at \in Buying THEN 1 ELSE 0
Bought(r, t) == run[r].trade = t /\ run[r].at \in Buying \cup Writing
Thesis(t) == trade[t] # NoTrade /\ trade[t].signal \in HasThesis

Paid(t) ==
  /\ executions[t] + Owed("daily", t) + Owed("intraday", t) <= entries[t]
  /\ book[t].filled > 0 => executions[t] > 0
  /\ \A r \in Runner : run[r].trade = t /\ run[r].at \in Writing => executions[t] > 0

(* With a thesis, one entry: one runner at most is past it, and the order  *)
(* is not filled before that runner fills it.                              *)
Once(t) ==
  /\ entries[t] <= 1
  /\ book[t].filled <= trade[t].shares
  /\ \A r, q \in Runner : Bought(r, t) /\ Bought(q, t) => r = q
  /\ \A r \in Runner : Bought(r, t) =>
       /\ book[t].filled = 0
       /\ run[r].at # "created" => run[r].shares = trade[t].shares

Counted == \A t \in Trade : Paid(t) /\ (Thesis(t) => Once(t))

LEMMA CountedImplies ==
  ASSUME Base, BookOK, Counted
  PROVE  ExecutedOnce
<1> SUFFICES ASSUME NEW t \in Trade
             PROVE  /\ executions[t] <= entries[t]
                    /\ book[t].filled > 0 => executions[t] > 0
                    /\ Thesis(t) => entries[t] <= 1 /\ book[t].filled <= trade[t].shares
  BY DEF ExecutedOnce, Thesis
<1>1. executions[t] \in Nat /\ entries[t] \in Nat
  BY DEF Base, Rows, TypeOK
<1> QED
  BY <1>1 DEF Counted, Paid, Once, Owed

(* A step that opens, executes and fills nothing.                          *)
Quiet ==
  /\ UNCHANGED <<entries, executions>>
  /\ \A t \in Trade : book'[t].filled = book[t].filled
  /\ \A t \in Trade : trade[t] # NoTrade => trade'[t].shares = trade[t].shares
  /\ \A r \in Runner : run'[r].at \in Buying \cup Writing =>
       /\ run'[r].trade = run[r].trade /\ run'[r].shares = run[r].shares
       /\ run'[r].at \in Buying => run[r].at \in Buying
       /\ run'[r].at \in Writing => run[r].at \in Writing
       /\ run'[r].at # "created" => run[r].at # "created"

LEMMA QuietCounted ==
  ASSUME Base, Base', BookOK, Counted, Quiet, Kept
  PROVE  Counted'
<1> SUFFICES ASSUME NEW t \in Trade PROVE Paid(t)' /\ (Thesis(t)' => Once(t)')
  BY DEF Counted
<1>1. /\ executions[t] \in Nat /\ entries[t] \in Nat /\ book[t].filled \in Nat
      /\ executions'[t] = executions[t] /\ entries'[t] = entries[t] /\ book'[t].filled = book[t].filled
  BY DEF Base, Rows, TypeOK, BookOK, BookRow, Quiet
<1>2. "daily" \in Runner /\ "intraday" \in Runner
  BY DEF Runner
<1>3. \A r \in Runner : /\ Owed(r, t) \in 0 .. 1 /\ Owed(r, t)' \in 0 .. 1
                        /\ Owed(r, t)' <= Owed(r, t)
                        /\ Bought(r, t)' => Bought(r, t)
                        /\ run'[r].trade = t /\ run'[r].at \in Writing =>
                             run[r].trade = t /\ run[r].at \in Writing
  BY DEF Quiet, Owed, Bought, Buying, Writing
<1>4. Paid(t)
  BY DEF Counted
<1>5. Paid(t)'
  <2>1. executions'[t] + Owed("daily", t)' + Owed("intraday", t)' <= entries'[t]
    <3>1. executions[t] + Owed("daily", t) + Owed("intraday", t) <= entries[t]
      BY <1>4 DEF Paid
    <3>2. /\ Owed("daily", t) \in 0 .. 1 /\ Owed("daily", t)' \in 0 .. 1
          /\ Owed("daily", t)' <= Owed("daily", t)
      BY <1>2, <1>3
    <3>3. /\ Owed("intraday", t) \in 0 .. 1 /\ Owed("intraday", t)' \in 0 .. 1
          /\ Owed("intraday", t)' <= Owed("intraday", t)
      BY <1>2, <1>3
    <3> QED
      BY <1>1, <3>1, <3>2, <3>3
  <2> QED
    BY <1>1, <1>3, <1>4, <2>1 DEF Paid
<1>6. ASSUME Thesis(t)' PROVE Once(t)'
  <2>1. CASE trade[t] # NoTrade
    <3>1. Thesis(t) /\ trade'[t].shares = trade[t].shares
      BY <1>6, <2>1 DEF Thesis, Kept, Quiet
    <3>2. Once(t)
      BY <3>1 DEF Counted
    <3>3. \A r \in Runner : Bought(r, t)' => /\ Bought(r, t) /\ run'[r].shares = run[r].shares
                                             /\ run'[r].at # "created" => run[r].at # "created"
      BY DEF Bought, Quiet
    <3> QED
      BY <1>1, <3>1, <3>2, <3>3 DEF Once
  <2>2. CASE trade[t] = NoTrade
    <3>1. entries[t] = 0 /\ \A r \in Runner : ~ Bought(r, t)
      <4>1. entries[t] = 0
        BY <1>1, <2>2 DEF Base, Rows, TypeOK
      <4>2. \A r \in Runner : ~ Bought(r, t)
        BY <2>2 DEF Base, Held, RunOK, Bought, Busy, Free
      <4> QED
        BY <4>1, <4>2
    <3>2. executions[t] = 0
      BY <1>1, <1>2, <1>3, <1>4, <3>1 DEF Paid, Owed
    <3>3. book[t].filled = 0
      BY <1>1, <1>4, <3>2 DEF Paid
    <3>4. trade'[t].shares \in Nat
      BY <1>6 DEF Base, Rows, TypeOK, TradeRow, Thesis
    <3> QED
      BY <1>1, <1>3, <3>1, <3>3, <3>4 DEF Once
  <2> QED
    BY <2>1, <2>2
<1> QED
  BY <1>5, <1>6

(* A canonical order that is placed or closed keeps what was filled.       *)
LEMMA BookSame ==
  ASSUME BookOK, NEW t, Orders!Place(t) \/ Orders!End(t) \/ UNCHANGED book
  PROVE  \A u \in Trade : book'[u].filled = book[u].filled
BY DEF BookOK, BookRow, Orders!Place, Orders!End, Orders!Nothing

LEMMA QuietRun ==
  ASSUME Base, NEW r \in Runner, Start(r) \/ Step(r),
         run'[r].at \in Buying \cup Writing =>
           /\ run'[r].trade = run[r].trade /\ run'[r].shares = run[r].shares
           /\ run'[r].at \in Buying => run[r].at \in Buying
           /\ run'[r].at \in Writing => run[r].at \in Writing
           /\ run'[r].at # "created" => run[r].at # "created"
  PROVE  \A q \in Runner : run'[q].at \in Buying \cup Writing =>
           /\ run'[q].trade = run[q].trade /\ run'[q].shares = run[q].shares
           /\ run'[q].at \in Buying => run[q].at \in Buying
           /\ run'[q].at \in Writing => run[q].at \in Writing
           /\ run'[q].at # "created" => run[q].at # "created"
<1> SUFFICES ASSUME NEW q \in Runner, q # r
             PROVE  run'[q] = run[q]
  OBVIOUS
<1> QED
  BY OthersStay DEF Base

LEMMA MostQuiet ==
  ASSUME Base, BookOK, NEW r \in Runner, Start(r) \/ Step(r),
         ~ Execute(r), ~ BookFill(r), ~ RecordFilled(r),
         ~ (CreatePosition(r) /\ run'[r].at = "created")
  PROVE  Quiet
<1> USE DEF Goto, Return
<1>1. run \in [Runner -> RunRow] /\ run[r] \in RunRow /\ RunOK(r) /\ Rows
  BY DEF Base, Rows, Held
<1>2. trade \in [Trade -> {NoTrade} \cup TradeRow]
  BY DEF Base, Rows, TypeOK
<1>3. CASE Expire(r) \/ CancelHeld(r)
  <2>1. PICK t \in Trade \ Free, b \in {"due", "fill"} :
          /\ trade' = [trade EXCEPT ![t].status = "CANCELLED"]
          /\ run' = [run EXCEPT ![r].at = "cancel", ![r].back = b, ![r].trade = t, ![r].todo = @ \ {t}]
    <3>1. PICK t \in run[r].todo \cap (Trade \ Free), b \in {"due", "fill"} :
              /\ run[r].at = b
              /\ trade' = [trade EXCEPT ![t].status = "CANCELLED"]
              /\ run' = [run EXCEPT ![r].at = "cancel", ![r].back = b, ![r].trade = t,
                                    ![r].todo = @ \ {t}]
      BY <1>1, <1>3, Cancels
    <3>2. t \in Trade \ Free
      OBVIOUS
    <3> QED
      BY <3>1, <3>2
  <2>2. UNCHANGED <<entries, executions, book>>
    BY <1>1, <1>3, Cancels
  <2>3. run'[r].at = "cancel"
    BY <1>1, <2>1 DEF RunRow
  <2>4. \A u \in Trade : trade[u] # NoTrade => trade'[u].shares = trade[u].shares
    <3>1. trade[t] \in TradeRow
      BY <1>1, RunsApart
    <3>2. trade'[t] = [trade[t] EXCEPT !.status = "CANCELLED"] /\ \A u \in Trade \ {t} : trade'[u] = trade[u]
      BY <1>2, <2>1
    <3> QED
      BY <3>1, <3>2 DEF TradeRow
  <2> QED
    BY <1>3, <2>2, <2>3, <2>4, QuietRun DEF Quiet, Step, Buying, Writing
<1>4. CASE CreatePosition(r) /\ run'[r].at # "created"
  <2>1. /\ UNCHANGED <<trade, executions, book>>
        /\ run'[r].at = "refused" /\ UNCHANGED entries
    <3>1. PICK t \in Trade \ Free :
            \/ \E n \in 1 .. MaxShares :
                 run' = [run EXCEPT ![r].at = "created", ![r].trade = t, ![r].shares = n,
                                    ![r].back = "fill", ![r].todo = @ \ {t}]
            \/ /\ run' = [run EXCEPT ![r].at = "refused", ![r].trade = t, ![r].back = "fill",
                                     ![r].todo = @ \ {t}]
               /\ UNCHANGED <<position, entries>>
      BY <1>1, <1>4, Creates
    <3>2. run'[r].at = "refused" /\ UNCHANGED entries
      <4>1. ASSUME NEW n, run' = [run EXCEPT ![r].at = "created", ![r].trade = t, ![r].shares = n,
                                            ![r].back = "fill", ![r].todo = @ \ {t}]
            PROVE  FALSE
        BY <1>1, <1>4, <4>1 DEF RunRow
      <4>2. run' = [run EXCEPT ![r].at = "refused", ![r].trade = t, ![r].back = "fill",
                                     ![r].todo = @ \ {t}] /\ UNCHANGED entries
        BY <3>1, <4>1
      <4> QED
        BY <1>1, <4>2 DEF RunRow
    <3>3. run[r].at = "fill" /\ UNCHANGED <<trade, executions, book>>
      BY <1>4 DEF CreatePosition
    <3> QED
      BY <3>2, <3>3
  <2> QED
    BY <1>4, <2>1, QuietRun DEF Quiet, Step, Buying, Writing
<1>5. CASE CancelRefused(r)
  <2>1. run'[r].at = "cancel" /\ UNCHANGED <<entries, executions, book>>
    BY <1>1, <1>5 DEF CancelRefused, RunRow
  <2>2. \A u \in Trade : trade[u] # NoTrade => trade'[u].shares = trade[u].shares
    BY <1>2, <1>5 DEF CancelRefused, TradeRow
  <2> QED
    BY <1>5, <2>1, <2>2, QuietRun DEF Quiet, Step, Buying, Writing
<1>6. CASE LookUp(r) \/ Link(r)
  <2>1. /\ run'[r].trade = run[r].trade /\ run'[r].shares = run[r].shares
        /\ \/ run[r].at = "lookup" /\ run'[r].at \in {"execute", run[r].back}
           \/ run[r].at = "link" /\ run'[r].at = "book"
    BY <1>1, <1>6 DEF LookUp, Link, RunRow
  <2>2. run[r].back \in {"due", "fill"}
    BY <1>1, <2>1 DEF RunOK, Busy, Buying, Writing
  <2>3. UNCHANGED <<trade, entries, executions, book>>
    BY <1>6 DEF LookUp, Link, ledgers
  <2> QED
    BY <1>6, <2>1, <2>2, <2>3, QuietRun DEF Quiet, Step, Buying, Writing
<1>7. CASE Reserve(r)
  <2>1. PICK s \in run[r].todo, n \in 1 .. MaxShares :
          /\ trade' = [trade EXCEPT ![First(Free)] =
               [status |-> "PENDING", signal |-> s, due |-> day + 1, ordered |-> n,
                shares |-> 0, filledOn |-> 0]]
          /\ run' = [run EXCEPT ![r].at = "request", ![r].trade = First(Free),
                                ![r].back = "reserve", ![r].todo = @ \ {s}]
    BY <1>7 DEF Reserve, Free
  <2>2. First(Free) \in Free
    <3>1. run[r].todo \subseteq Signal /\ Cardinality(run[r].todo) <= Cardinality(Free)
      BY <1>1, <1>7 DEF Reserve, RunOK, Reserving
    <3> QED
      BY <2>1, <3>1, FreeLeft
  <2> DEFINE u == First(Free)
             row == [status |-> "PENDING", signal |-> s, due |-> day + 1, ordered |-> n,
                     shares |-> 0, filledOn |-> 0]
  <2>3. trade' = [trade EXCEPT ![u] = row] /\ u \in Trade /\ trade[u] = NoTrade
    BY <2>1, <2>2 DEF Free
  <2>4. run'[r].at = "request"
    BY <1>1, <2>1 DEF RunRow
  <2>5. UNCHANGED <<entries, executions, book>>
    BY <1>7 DEF Reserve
  <2> HIDE DEF u, row
  <2>6. \A v \in Trade : trade[v] # NoTrade => trade'[v] = trade[v]
    BY <1>2, <2>3
  <2> QED
    BY <1>7, <2>4, <2>5, <2>6, QuietRun DEF Quiet, Step, Buying, Writing
<1>8. CASE CancelBook(r) \/ PlaceOrder(r)
  <2>1. UNCHANGED <<trade, entries, executions>> /\ run'[r].at = run[r].back
    BY <1>1, <1>8 DEF CancelBook, PlaceOrder, RunRow
  <2>2. \A u \in Trade : book'[u].filled = book[u].filled
    BY <1>8, BookSame DEF CancelBook, PlaceOrder
  <2>3. run[r].back \in {"due", "fill", "reserve"}
    BY <1>1, <1>8 DEF CancelBook, PlaceOrder, RunOK, Busy, Dropping
  <2> QED
    BY <1>8, <2>1, <2>2, <2>3, QuietRun DEF Quiet, Step, Buying, Writing
<1>9. CASE Swallow(r) \/ LookUpCancelled(r) \/ CancelRequest(r) \/ UpsertRequest(r)
  <2>1. UNCHANGED <<trade, entries, executions, book>>
    BY <1>9 DEF Swallow, LookUpCancelled, CancelRequest, UpsertRequest, ledgers
  <2>2. run[r].back \in {"due", "fill", "reserve"}
    BY <1>1, <1>9 DEF Swallow, LookUpCancelled, CancelRequest, UpsertRequest, RunOK, Busy, Buying,
      Writing, Dropping
  <2>3. run'[r].at \in {run[r].back, "cancelRequest", "cancelBook", "place"}
    BY <1>1, <1>9 DEF Swallow, LookUpCancelled, CancelRequest, UpsertRequest, RunRow
  <2> QED
    BY <1>9, <2>1, <2>2, <2>3, QuietRun DEF Quiet, Step, Buying, Writing
<1>10. CASE SellDeferred(r) \/ Evaluate(r)
  BY <1>10 DEF SellDeferred, Evaluate, Quiet
<1>11. CASE Start(r) \/ BeginFill(r) \/ CarryOver(r) \/ EndFill(r) \/ EndDeferred(r) \/ EndEvaluate(r)
            \/ Screen(r) \/ Rank(r) \/ EndReserve(r)
  <2>1. UNCHANGED <<trade, entries, executions, book>>
    BY <1>11 DEF Start, BeginFill, CarryOver, EndFill, EndDeferred, EndEvaluate, Screen, Rank,
      EndReserve, ledgers
  <2>2. run'[r].at \in {"idle", "due", "fill", "exits", "evaluate", "screen", "rank", "reserve"}
    <3>1. CASE Rank(r)
      <4>1. PICK picks : run' = [run EXCEPT ![r].at = "reserve", ![r].todo = picks]
        BY <3>1 DEF Rank
      <4> QED
        BY <1>1, <4>1 DEF RunRow
    <3>2. CASE Start(r) \/ BeginFill(r) \/ CarryOver(r) \/ EndFill(r) \/ EndDeferred(r)
               \/ EndEvaluate(r) \/ Screen(r) \/ EndReserve(r)
      <4>1. CASE Start(r) \/ EndEvaluate(r) \/ EndReserve(r)
        <5>1. Start(r) => run'[r].at = "due"
          BY <1>1 DEF Start, Idle
        <5>2. EndEvaluate(r) => run'[r].at = "idle"
          BY <1>1 DEF EndEvaluate, Idle
        <5>3. EndReserve(r) => run'[r].at = "evaluate"
          BY <1>1 DEF EndReserve, Idle
        <5> QED
          BY <4>1, <5>1, <5>2, <5>3
      <4>2. CASE BeginFill(r) \/ CarryOver(r) \/ EndFill(r)
        BY <1>1, <4>2 DEF BeginFill, CarryOver, EndFill, RunRow
      <4>3. CASE EndDeferred(r) \/ Screen(r)
        BY <1>1, <4>3 DEF EndDeferred, Screen, RunRow
      <4> QED
        BY <3>2, <4>1, <4>2, <4>3
    <3> QED
      BY <1>11, <3>1, <3>2
  <2> QED
    BY <1>11, <2>1, <2>2, QuietRun DEF Quiet, Step, Buying, Writing
<1> QED
  BY <1>3, <1>4, <1>5, <1>6, <1>7, <1>8, <1>9, <1>10, <1>11 DEF Step

LEMMA TwoRunners ==
  ASSUME NEW r \in Runner
  PROVE  \E q \in Runner \ {r} :
           /\ Runner = {r, q}
           /\ \A t : /\ Owed(r, t) \in 0 .. 1 /\ Owed(q, t) \in 0 .. 1
                     /\ Owed(r, t)' \in 0 .. 1 /\ Owed(q, t)' \in 0 .. 1
                     /\ Owed("daily", t) + Owed("intraday", t) = Owed(r, t) + Owed(q, t)
                     /\ Owed("daily", t)' + Owed("intraday", t)' = Owed(r, t)' + Owed(q, t)'
<1>1. \A t : /\ Owed("daily", t) \in 0 .. 1 /\ Owed("intraday", t) \in 0 .. 1
             /\ Owed("daily", t)' \in 0 .. 1 /\ Owed("intraday", t)' \in 0 .. 1
  BY DEF Owed
<1>2. CASE r = "daily"
  BY <1>1, <1>2 DEF Runner
<1>3. CASE r = "intraday"
  BY <1>1, <1>3 DEF Runner
<1> QED
  BY <1>2, <1>3 DEF Runner

(* What a step of runner r does to the accounts of a trade it does not     *)
(* have in hand, before or after.                                          *)
LEMMA ElsewhereCounted ==
  ASSUME Base, Base', Counted, Kept, NEW r \in Runner, Start(r) \/ Step(r), NEW t \in Trade,
         ~ Bought(r, t), ~ Bought(r, t)',
         entries'[t] = entries[t], executions'[t] = executions[t],
         book'[t].filled = book[t].filled, trade'[t] = trade[t]
  PROVE  Paid(t)' /\ (Thesis(t)' => Once(t)')
<1>1. Paid(t) /\ (Thesis(t) => Once(t)) /\ (Thesis(t)' <=> Thesis(t))
  BY DEF Counted, Thesis
<1>2. \A q \in Runner \ {r} : run'[q] = run[q]
  BY OthersStay DEF Base
<1>3. PICK q \in Runner \ {r} :
           /\ Runner = {r, q}
           /\ Owed(r, t) \in 0 .. 1 /\ Owed(q, t) \in 0 .. 1
           /\ Owed(r, t)' \in 0 .. 1 /\ Owed(q, t)' \in 0 .. 1
           /\ Owed("daily", t) + Owed("intraday", t) = Owed(r, t) + Owed(q, t)
           /\ Owed("daily", t)' + Owed("intraday", t)' = Owed(r, t)' + Owed(q, t)'
  BY TwoRunners
<1>4. Owed(q, t)' = Owed(q, t) /\ Owed(r, t)' = 0 /\ Owed(r, t) = 0
  BY <1>2 DEF Owed, Bought
<1>5. executions[t] \in Nat /\ entries[t] \in Nat
  BY DEF Base, Rows, TypeOK
<1>6. \A x, y \in 0 .. 1 : executions[t] + x + y = executions[t] + (x + y)
  BY <1>5
<1>7. executions'[t] + Owed("daily", t)' + Owed("intraday", t)' <= entries'[t]
  <2>1. Owed("daily", t) \in 0 .. 1 /\ Owed("intraday", t) \in 0 .. 1
        /\ Owed("daily", t)' \in 0 .. 1 /\ Owed("intraday", t)' \in 0 .. 1
    BY DEF Owed
  <2> QED
    BY <1>1, <1>3, <1>4, <1>5, <2>1 DEF Paid
<1>8. Paid(t)'
  BY <1>1, <1>2, <1>7 DEF Paid, Bought
<1>9. ASSUME Thesis(t)' PROVE Once(t)'
  BY <1>1, <1>2, <1>9 DEF Once, Bought
<1> QED
  BY <1>8, <1>9

LEMMA EnterCounted ==
  ASSUME Base, Base', BookOK, Counted, NEW r \in Runner, CreatePosition(r), run'[r].at = "created"
  PROVE  Counted'
<1>1. run \in [Runner -> RunRow] /\ run[r] \in RunRow /\ RunOK(r) /\ Rows /\ Step(r)
  BY DEF Base, Rows, Held, Step
<1>2. PICK t \in Trade \ Free :
        /\ Insertable(t)
        /\ entries' = [entries EXCEPT ![t] = @ + 1]
        /\ \E n \in 1 .. MaxShares :
             run' = [run EXCEPT ![r].at = "created", ![r].trade = t, ![r].shares = n,
                                ![r].back = "fill", ![r].todo = @ \ {t}]
  <2>1. PICK t \in run[r].todo \cap (Trade \ Free) :
              \/ /\ Insertable(t)
                 /\ position' = [position EXCEPT ![t] = "OPEN"]
                 /\ entries' = [entries EXCEPT ![t] = @ + 1]
                 /\ \E n \in 1 .. MaxShares :
                      run' = [run EXCEPT ![r].at = "created", ![r].trade = t, ![r].shares = n,
                                         ![r].back = "fill", ![r].todo = @ \ {t}]
              \/ /\ run' = [run EXCEPT ![r].at = "refused", ![r].trade = t, ![r].back = "fill",
                                        ![r].todo = @ \ {t}]
                 /\ UNCHANGED <<position, entries>>
    BY <1>1, Creates
  <2>2. ~ (run' = [run EXCEPT ![r].at = "refused", ![r].trade = t, ![r].back = "fill",
                              ![r].todo = @ \ {t}])
    BY <1>1 DEF RunRow
  <2> QED
    BY <2>1, <2>2
<1>3. run'[r].at = "created" /\ run'[r].trade = t
  BY <1>1, <1>2 DEF RunRow
<1>4. run[r].at = "fill" /\ UNCHANGED <<trade, executions, book>>
  BY DEF CreatePosition
<1>5. \A u \in Trade : executions[u] \in Nat /\ entries[u] \in Nat
  BY DEF Base, Rows, TypeOK
<1>6. Kept
  BY <1>1, TablesTyped
<1>7. ASSUME NEW u \in Trade, u # t PROVE Paid(u)' /\ (Thesis(u)' => Once(u)')
  <2>1. ~ Bought(r, u) /\ ~ Bought(r, u)'
    BY <1>3, <1>4, <1>7 DEF Bought, Buying, Writing
  <2>2. entries'[u] = entries[u]
    BY <1>2, <1>7 DEF Base, Rows, TypeOK
  <2> QED
    BY <1>1, <1>4, <1>6, <2>1, <2>2, ElsewhereCounted
<1>8. entries'[t] = entries[t] + 1 /\ Paid(t) /\ t \in Trade
  BY <1>2 DEF Base, Rows, TypeOK, Counted
<1>9. \A q \in Runner \ {r} : run'[q] = run[q]
  BY <1>1, OthersStay
<1>10. PICK q \in Runner \ {r} :
           /\ Runner = {r, q}
           /\ Owed(r, t) \in 0 .. 1 /\ Owed(q, t) \in 0 .. 1
           /\ Owed(r, t)' \in 0 .. 1 /\ Owed(q, t)' \in 0 .. 1
           /\ Owed("daily", t) + Owed("intraday", t) = Owed(r, t) + Owed(q, t)
           /\ Owed("daily", t)' + Owed("intraday", t)' = Owed(r, t)' + Owed(q, t)'
  BY TwoRunners
<1>11. Owed(q, t)' = Owed(q, t) /\ Owed(r, t)' = 1 /\ Owed(r, t) = 0
  BY <1>3, <1>4, <1>9 DEF Owed, Buying
<1>12. /\ Owed("daily", t) \in 0 .. 1 /\ Owed("intraday", t) \in 0 .. 1
       /\ Owed("daily", t)' \in 0 .. 1 /\ Owed("intraday", t)' \in 0 .. 1
  BY DEF Owed
<1>13. executions[t] + Owed("daily", t) + Owed("intraday", t) <= entries[t]
  BY <1>8 DEF Paid
<1>14. executions'[t] + Owed("daily", t)' + Owed("intraday", t)' <= entries'[t]
  BY <1>4, <1>5, <1>8, <1>10, <1>11, <1>12, <1>13
<1>15. Paid(t)'
  <2>1. \A p \in Runner : run'[p].trade = t /\ run'[p].at \in Writing => run[p].trade = t /\ run[p].at \in Writing
    BY <1>3, <1>9 DEF Writing
  <2> QED
    BY <1>4, <1>8, <1>14, <2>1 DEF Paid
<1>16. ASSUME Thesis(t)' PROVE Once(t)'
  <2>1. trade[t] # NoTrade /\ trade[t].signal \in HasThesis
    BY <1>4, <1>16 DEF Thesis
  <2>2. position[t] = "NONE"
    BY <1>2, <2>1 DEF Insertable, OnePerThesis
  <2>3. entries[t] = 0
    BY <1>2, <2>2 DEF Base, Rows, TypeOK
  <2>4. executions[t] = 0 /\ Owed(q, t) = 0
    BY <1>5, <1>10, <1>11, <1>12, <1>13, <2>3
  <2>5. ~ Bought(q, t)
    BY <1>8, <2>4, <1>10 DEF Paid, Bought, Owed
  <2>6. ~ Bought(q, t)'
    BY <1>9, <2>5 DEF Bought
  <2>7. book'[t].filled = 0
    <3>1. book[t].filled \in Nat
      BY <1>2 DEF BookOK, BookRow
    <3> QED
      BY <1>4, <1>8, <2>4, <3>1 DEF Paid
  <2>8. trade'[t].shares \in Nat
    BY <1>2, <1>16 DEF Thesis, Base, Rows, TypeOK, TradeRow
  <2> QED
    BY <1>3, <1>8, <1>10, <2>3, <2>6, <2>7, <2>8 DEF Once
<1> QED
  BY <1>7, <1>15, <1>16 DEF Counted

LEMMA MarkCounted ==
  ASSUME Base, Base', BookOK, Counted, NEW r \in Runner, RecordFilled(r)
  PROVE  Counted'
<1>1. run \in [Runner -> RunRow] /\ run[r] \in RunRow /\ RunOK(r) /\ Rows /\ Step(r)
  BY DEF Base, Rows, Held, Step
<1>0. PICK t \in Trade : t = run[r].trade
  BY <1>1 DEF RecordFilled, RunOK, Busy, Buying
<1>2. t \in Trade \ Free /\ trade[t] \in TradeRow
  BY <1>0, <1>1, RunsApart DEF RecordFilled, RunOK, Busy, Buying
<1>3. /\ run[r].at = "created" /\ run'[r].at = "lookup"
      /\ run'[r].trade = t /\ run'[r].shares = run[r].shares
  BY <1>0, <1>1 DEF RecordFilled, RunRow
<1>4. UNCHANGED <<entries, executions, book>>
  BY DEF RecordFilled
<1>5. trade'[t].shares = run[r].shares /\ \A u \in Trade : u # t => trade'[u] = trade[u]
  <2>1. PICK st : trade' = [trade EXCEPT ![t].status = st, ![t].shares = run[r].shares, ![t].filledOn = day]
    BY <1>0 DEF RecordFilled
  <2>2. trade'[t] = [trade[t] EXCEPT !.status = st, !.shares = run[r].shares, !.filledOn = day]
    BY <1>1, <1>2, <2>1 DEF Rows, TypeOK
  <2>3. \A u \in Trade : u # t => trade'[u] = trade[u]
    BY <1>1, <1>2, <2>1 DEF Rows, TypeOK
  <2> QED
    BY <1>2, <2>2, <2>3 DEF TradeRow
<1>6. Kept
  BY <1>1, TablesTyped
<1>7. \A q \in Runner \ {r} : run'[q] = run[q]
  BY <1>1, OthersStay
<1>8. ASSUME NEW u \in Trade, u # t PROVE Paid(u)' /\ (Thesis(u)' => Once(u)')
  <2>1. ~ Bought(r, u) /\ ~ Bought(r, u)'
    BY <1>0, <1>3, <1>8 DEF Bought
  <2> QED
    BY <1>1, <1>4, <1>5, <1>6, <1>8, <2>1, ElsewhereCounted
<1>9. Paid(t)'
  <2>1. Paid(t)
    BY <1>2 DEF Counted
  <2>2. Owed("daily", t)' = Owed("daily", t) /\ Owed("intraday", t)' = Owed("intraday", t)
    BY <1>0, <1>3, <1>7 DEF Owed, Buying, Runner
  <2>3. \A p \in Runner : run'[p].trade = t /\ run'[p].at \in Writing => run[p].trade = t /\ run[p].at \in Writing
    BY <1>3, <1>7 DEF Writing
  <2> QED
    BY <1>4, <2>1, <2>2, <2>3 DEF Paid
<1>10. ASSUME Thesis(t)' PROVE Once(t)'
  <2>1. Thesis(t)
    BY <1>2, <1>6, <1>10 DEF Thesis, Kept, Free
  <2>2. Once(t) /\ Bought(r, t)
    BY <1>0, <1>2, <1>3, <2>1 DEF Counted, Bought, Buying
  <2>3. book[t].filled = 0 /\ \A q \in Runner : Bought(q, t) => q = r
    BY <2>2 DEF Once
  <2>4. \A q \in Runner : Bought(q, t)' => q = r
    BY <1>7, <2>3 DEF Bought
  <2>5. run[r].shares \in Nat
    BY <1>1, ConstantsAssumption DEF RunRow
  <2> QED
    BY <1>3, <1>4, <1>5, <2>2, <2>3, <2>4, <2>5 DEF Once
<1> QED
  BY <1>2, <1>8, <1>9, <1>10 DEF Counted

LEMMA ExecuteCounted ==
  ASSUME Base, Base', BookOK, Counted, NEW r \in Runner, Execute(r)
  PROVE  Counted'
<1>1. run \in [Runner -> RunRow] /\ run[r] \in RunRow /\ RunOK(r) /\ Rows /\ Step(r)
  BY DEF Base, Rows, Held, Step
<1>0. PICK t \in Trade : t = run[r].trade
  BY <1>1 DEF Execute, RunOK, Busy, Buying
<1>2. t \in Trade
  OBVIOUS
<1>3. /\ run[r].at = "execute" /\ run'[r].at = "link"
      /\ run'[r].trade = t /\ run'[r].shares = run[r].shares
  BY <1>0, <1>1 DEF Execute, Goto, RunRow
<1>4. UNCHANGED <<trade, entries, book>> /\ executions' = [executions EXCEPT ![t] = @ + 1]
  BY <1>0 DEF Execute
<1>5. Kept
  BY <1>1, TablesTyped
<1>6. \A q \in Runner \ {r} : run'[q] = run[q]
  BY <1>1, OthersStay
<1>7. \A u \in Trade : executions[u] \in Nat /\ entries[u] \in Nat
  BY DEF Base, Rows, TypeOK
<1>8. executions'[t] = executions[t] + 1 /\ \A u \in Trade : u # t => executions'[u] = executions[u]
  BY <1>1, <1>2, <1>4 DEF Rows, TypeOK
<1>9. ASSUME NEW u \in Trade, u # t PROVE Paid(u)' /\ (Thesis(u)' => Once(u)')
  <2>1. ~ Bought(r, u) /\ ~ Bought(r, u)'
    BY <1>0, <1>3, <1>9 DEF Bought
  <2> QED
    BY <1>1, <1>4, <1>5, <1>8, <1>9, <2>1, ElsewhereCounted
<1>10. Paid(t) /\ (Thesis(t) => Once(t))
  BY <1>2 DEF Counted
<1>11. Paid(t)'
  <2>1. PICK q \in Runner \ {r} :
           /\ Runner = {r, q}
           /\ Owed(r, t) \in 0 .. 1 /\ Owed(q, t) \in 0 .. 1
           /\ Owed(r, t)' \in 0 .. 1 /\ Owed(q, t)' \in 0 .. 1
           /\ Owed("daily", t) + Owed("intraday", t) = Owed(r, t) + Owed(q, t)
           /\ Owed("daily", t)' + Owed("intraday", t)' = Owed(r, t)' + Owed(q, t)'
    BY TwoRunners
  <2>2. Owed(q, t)' = Owed(q, t) /\ Owed(r, t)' = 0 /\ Owed(r, t) = 1
    BY <1>0, <1>3, <1>6 DEF Owed, Buying
  <2>3. /\ Owed("daily", t) \in 0 .. 1 /\ Owed("intraday", t) \in 0 .. 1
        /\ Owed("daily", t)' \in 0 .. 1 /\ Owed("intraday", t)' \in 0 .. 1
    BY DEF Owed
  <2>4. executions[t] + Owed("daily", t) + Owed("intraday", t) <= entries[t]
    BY <1>10 DEF Paid
  <2>5. executions'[t] + Owed("daily", t)' + Owed("intraday", t)' <= entries'[t]
    BY <1>2, <1>4, <1>7, <1>8, <2>1, <2>2, <2>3, <2>4
  <2>6. executions'[t] > 0
    BY <1>2, <1>7, <1>8
  <2> QED
    BY <2>5, <2>6 DEF Paid
<1>12. ASSUME Thesis(t)' PROVE Once(t)'
  <2>1. Once(t) /\ Bought(r, t)
    BY <1>0, <1>3, <1>4, <1>10, <1>12 DEF Thesis, Bought, Buying
  <2>2. \A q \in Runner : Bought(q, t)' => Bought(q, t)
    BY <1>6, <2>1 DEF Bought
  <2>3. run[r].shares = trade[t].shares
    BY <1>3, <2>1 DEF Once
  <2> QED
    BY <1>3, <1>4, <1>6, <2>1, <2>2, <2>3 DEF Once, Bought
<1> QED
  BY <1>9, <1>11, <1>12 DEF Counted

(* The fill adds the shares of the position to the order at most.          *)
LEMMA FillCounted ==
  ASSUME Base, Base', BookOK, Counted, NEW r \in Runner, BookFill(r)
  PROVE  Counted'
<1>1. run \in [Runner -> RunRow] /\ run[r] \in RunRow /\ RunOK(r) /\ Rows /\ Step(r)
  BY DEF Base, Rows, Held, Step
<1>0. PICK t \in Trade : t = run[r].trade
  BY <1>1 DEF BookFill, RunOK, Busy, Writing
<1>2. t \in Trade /\ run[r].shares \in 1 .. MaxShares /\ run[r].back \in {"due", "fill"}
  <2>1. t \in Trade /\ run[r].shares > 0 /\ run[r].back \in {"due", "fill"}
    BY <1>1 DEF BookFill, RunOK, Busy, Writing
  <2>2. run[r].shares \in 0 .. MaxShares
    BY <1>1 DEF RunRow
  <2> QED
    BY <2>1, <2>2
<1>3. run[r].at = "book" /\ run'[r].at = run[r].back
  BY <1>1 DEF BookFill, Return, RunRow
<1>4. UNCHANGED <<trade, entries, executions>>
  BY DEF BookFill
<1>5. Kept
  BY <1>1, TablesTyped
<1>6. \A q \in Runner \ {r} : run'[q] = run[q]
  BY <1>1, OthersStay
<1>7. /\ \A u \in Trade : u # t => book'[u].filled = book[u].filled
      /\ book'[t].filled <= book[t].filled + run[r].shares
  <2>1. CASE Orders!End(t) \/ UNCHANGED book
    <3>1. \A u \in Trade : book'[u].filled = book[u].filled
      BY <2>1, BookSame
    <3>2. book[t].filled \in Nat /\ run[r].shares \in Nat
      BY <1>2 DEF BookOK, BookRow
    <3> QED
      BY <1>2, <3>1, <3>2
  <2>2. CASE book[t].stage = "OPEN" /\ ~ Orders!End(t) /\ ~ UNCHANGED book
    <3> DEFINE total == Clamped(book[t].filled + run[r].shares, book[t].requested)
    <3>1. book' = [book EXCEPT ![t] =
                  [stage |-> IF total >= book[t].requested THEN "DONE" ELSE "OPEN",
                   requested |-> book[t].requested, filled |-> total]]
      BY <1>0, <2>2 DEF BookFill
    <3>2. total <= book[t].filled + run[r].shares
      BY <1>2, <2>2, ClampedFill
    <3> HIDE DEF total
    <3> QED
      BY <1>2, <3>1, <3>2 DEF BookOK
  <2> QED
    BY <1>0, <2>1, <2>2 DEF BookFill
<1>8. ~ Bought(r, t)' /\ \A u \in Trade : ~ Bought(r, u)'
  BY <1>2, <1>3 DEF Bought, Buying, Writing
<1>9. ASSUME NEW u \in Trade, u # t PROVE Paid(u)' /\ (Thesis(u)' => Once(u)')
  <2>1. ~ Bought(r, u) /\ ~ Bought(r, u)'
    BY <1>0, <1>8, <1>9 DEF Bought
  <2> QED
    BY <1>1, <1>4, <1>5, <1>7, <1>9, <2>1, ElsewhereCounted
<1>10. Paid(t) /\ (Thesis(t) => Once(t))
  BY <1>2 DEF Counted
<1>11. Paid(t)'
  <2>1. Owed("daily", t)' = Owed("daily", t) /\ Owed("intraday", t)' = Owed("intraday", t)
    BY <1>2, <1>3, <1>6 DEF Owed, Buying, Runner
  <2>2. executions[t] > 0
    BY <1>0, <1>3, <1>10 DEF Paid, Writing
  <2>3. \A p \in Runner : run'[p].trade = t /\ run'[p].at \in Writing => run[p].trade = t /\ run[p].at \in Writing
    BY <1>2, <1>3, <1>6 DEF Writing
  <2> QED
    BY <1>4, <1>10, <2>1, <2>2, <2>3 DEF Paid
<1>12. ASSUME Thesis(t)' PROVE Once(t)'
  <2>1. Once(t) /\ Bought(r, t)
    BY <1>0, <1>3, <1>4, <1>10, <1>12 DEF Thesis, Bought, Writing
  <2>2. book[t].filled = 0 /\ run[r].shares = trade[t].shares
    BY <1>3, <2>1 DEF Once
  <2>3. \A q \in Runner : ~ Bought(q, t)'
    <3>1. \A q \in Runner : Bought(q, t) => q = r
      BY <2>1 DEF Once
    <3> QED
      BY <1>6, <1>8, <3>1 DEF Bought
  <2>4. book'[t].filled <= trade'[t].shares
    BY <1>2, <1>4, <1>7, <2>2
  <2> QED
    BY <1>4, <2>1, <2>3, <2>4 DEF Once
<1> QED
  BY <1>9, <1>11, <1>12 DEF Counted

LEMMA CountedInit ==
  ASSUME Init
  PROVE  Counted
<1> SUFFICES ASSUME NEW t \in Trade PROVE Paid(t) /\ ~ Thesis(t)
  BY DEF Counted
<1>1. \A r \in Runner : run[r].at = "idle"
  BY DEF Init, Idle
<1>2. executions[t] = 0 /\ entries[t] = 0 /\ book[t].filled = 0 /\ trade[t] = NoTrade
  BY DEF Init, Orders!Init, Orders!Nothing
<1> QED
  BY <1>1, <1>2 DEF Paid, Thesis, Owed, Runner, Buying, Writing

LEMMA CountedStep ==
  ASSUME Base, BookOK, Counted, [Next]_vars
  PROVE  Counted'
<1>0. Base'
  BY BaseStep
<1>1. ASSUME NEW r \in Runner, Start(r) \/ Step(r) PROVE Counted'
  <2>1. Kept
    BY <1>1, TablesTyped DEF Base, Held
  <2>2. CASE Execute(r)
    BY <1>0, <2>2, ExecuteCounted
  <2>3. CASE BookFill(r)
    BY <1>0, <2>3, FillCounted
  <2>4. CASE RecordFilled(r)
    BY <1>0, <2>4, MarkCounted
  <2>5. CASE CreatePosition(r) /\ run'[r].at = "created"
    BY <1>0, <2>5, EnterCounted
  <2>6. CASE /\ ~ Execute(r) /\ ~ BookFill(r) /\ ~ RecordFilled(r)
             /\ ~ (CreatePosition(r) /\ run'[r].at = "created")
    <3>1. Quiet
      BY <1>1, <2>6, MostQuiet
    <3> QED
      BY <1>0, <2>1, <3>1, QuietCounted
  <2> QED
    BY <2>2, <2>3, <2>4, <2>5, <2>6
<1>2. CASE CutOff
  <2>1. Quiet
    BY <1>2, CutOffIdles DEF Quiet, Idle, Buying, Writing
  <2>2. Kept
    BY <1>2, CutOffIdles DEF Kept
  <2> QED
    BY <1>0, <2>1, <2>2, QuietCounted
<1>3. CASE Tick \/ UNCHANGED vars
  <2>1. UNCHANGED <<ledgers, run>>
    BY <1>3 DEF Tick, vars
  <2>2. Quiet /\ Kept
    BY <2>1 DEF Quiet, Kept, ledgers
  <2> QED
    BY <1>0, <2>2, QuietCounted
<1> QED
  BY <1>1, <1>2, <1>3 DEF Next

(* Whatever overlaps or is cut off, a reservation is executed at most as   *)
(* often as it opened a position and its order is filled from executions;  *)
(* with a thesis it opens one position and no more than the shares bought  *)
(* are filled.                                                             *)
THEOREM ExecutedOnceAlways == Spec => []ExecutedOnce
<1>1. Init => Base /\ BookOK /\ Counted
  BY BaseInit, BookInit, CountedInit
<1>2. Base /\ BookOK /\ Counted /\ [Next]_vars => Base' /\ BookOK' /\ Counted'
  BY BaseStep, BookMoves, BookKept, CountedStep
<1>3. Base /\ BookOK /\ Counted => ExecutedOnce
  BY CountedImplies
<1> QED
  BY <1>1, <1>2, <1>3, PTL DEF Spec

-----------------------------------------------------------------------------
(* While the runners take turns, what the one that is not idle has read is *)
(* still so: its reservations are pending, and the stocks of its picks are *)
(* neither reserved nor held.                                              *)
Claimed == Pending \cup {t \in Trade : Open(t)}
OneClaim == \A t, u \in Claimed : Stock(t) = Stock(u) => t = u
Turns == \A r, q \in Runner : run[r] # Idle /\ run[q] # Idle => r = q

Read(r) ==
  /\ run[r].at \in {"due", "fill"} \cup Busy => run[r].todo \subseteq Pending
  /\ run[r].at \in Busy => run[r].trade \notin run[r].todo
  /\ run[r].at = "rank" => HeldStocks \subseteq run[r].held
  /\ run[r].at \in Reserving => \A s \in run[r].todo :
       /\ \A t \in Claimed : Stock(t) # StockOf[s]
       /\ \A u \in run[r].todo : StockOf[u] = StockOf[s] => u = s

Alone == OneClaim /\ Turns /\ \A r \in Runner : Read(r)

LEMMA ClaimedRows ==
  ASSUME Base
  PROVE  Claimed \subseteq Trade \ Free
<1>1. \A t \in Trade : Open(t) => t \notin Free
  BY RunsApart DEF Base, Open, Runner
<1>2. \A t \in Pending : t \notin Free
  BY DEF Pending, Free, NoTrade
<1> QED
  BY <1>1, <1>2 DEF Claimed, Pending

LEMMA AloneImplies ==
  ASSUME OneClaim
  PROVE  OneEntryPerStock
BY DEF OneClaim, Claimed, OneEntryPerStock

LEMMA ClaimsShrink ==
  ASSUME Base, OneClaim, Kept, Claimed' \subseteq Claimed
  PROVE  OneClaim'
<1> SUFFICES ASSUME NEW t \in Claimed', NEW u \in Claimed', Stock(t)' = Stock(u)' PROVE t = u
  BY DEF OneClaim
<1>1. t \in Claimed /\ u \in Claimed
  OBVIOUS
<1>2. Stock(t)' = Stock(t) /\ Stock(u)' = Stock(u)
  BY <1>1, ClaimedRows DEF Kept, Stock, Free
<1> QED
  BY <1>1, <1>2 DEF OneClaim

(* A stage at which nothing that was read is used.                         *)
LEMMA Unread ==
  ASSUME NEW r \in Runner, run'[r].at \in {"idle", "exits", "screen", "evaluate"}
  PROVE  Read(r)'
BY DEF Read, Busy, Buying, Writing, Dropping, Reserving

(* A call of the shadow ledger changes no claim and reads nothing new.     *)
LEMMA CallRead ==
  ASSUME NEW r \in Runner, Read(r), UNCHANGED <<trade, position>>,
         run'[r].todo = run[r].todo, run'[r].trade = run[r].trade,
         \/ run[r].at \in Busy /\ run'[r].at \in Busy \cup {"due", "fill"}
         \/ run[r].at \in Reserving /\ run'[r].at \in Reserving
  PROVE  Read(r)'
<1>1. Pending' = Pending /\ Claimed' = Claimed /\ \A t : Stock(t)' = Stock(t)
  BY DEF Pending, Claimed, Open, Stock
<1>2. CASE run[r].at \in Busy /\ run'[r].at \in Busy \cup {"due", "fill"}
  BY <1>1, <1>2 DEF Read, Busy, Buying, Writing, Dropping, Reserving
<1>3. CASE run[r].at \in Reserving /\ run'[r].at \in Reserving
  BY <1>1, <1>3 DEF Read, Busy, Buying, Writing, Dropping, Reserving
<1> QED
  BY <1>2, <1>3

(* Marking one trade row as not pending.                                   *)
LEMMA MarkPending ==
  ASSUME Base, NEW t \in Trade \ Free, NEW st \in {"FILLED", "PARTIAL", "CANCELLED"},
         trade'[t].status = st, \A u \in Trade : u # t => trade'[u] = trade[u],
         UNCHANGED position
  PROVE  Pending' = Pending \ {t} /\ Claimed' \subseteq Claimed
<1>1. \A u \in Trade : trade'[u].status = "PENDING" <=> u # t /\ trade[u].status = "PENDING"
  OBVIOUS
<1>2. Pending' = Pending \ {t}
  BY <1>1 DEF Pending
<1> QED
  BY <1>2 DEF Claimed, Open

LEMMA ReadStep ==
  ASSUME Base, OneClaim, NEW r \in Runner, Read(r), Start(r) \/ Step(r), ~ Reserve(r)
  PROVE  Read(r)' /\ Claimed' \subseteq Claimed
<1> USE DEF Goto, Return
<1>1. /\ run \in [Runner -> RunRow] /\ run[r] \in RunRow /\ RunOK(r) /\ Rows
      /\ trade \in [Trade -> {NoTrade} \cup TradeRow]
  BY DEF Base, Rows, Held, TypeOK
<1>2. UNCHANGED <<trade, position>> => Claimed' \subseteq Claimed /\ HeldStocks' = HeldStocks
         /\ Pending' = Pending
  BY DEF Claimed, Pending, Open, HeldStocks, Stock
<1>3. CASE Start(r)
  <2>1. run'[r].at = "due" /\ run'[r].todo \subseteq Pending /\ UNCHANGED <<trade, position>>
    BY <1>1, <1>3 DEF Start, Idle, ledgers
  <2> QED
    BY <1>2, <2>1 DEF Read, Busy, Buying, Writing, Dropping, Reserving
<1>4. CASE Expire(r) \/ CancelHeld(r)
  <2>1. /\ \E t \in run[r].todo \cap (Trade \ Free), b \in {"due", "fill"} :
              /\ run[r].at = b
              /\ trade' = [trade EXCEPT ![t].status = "CANCELLED"]
              /\ run' = [run EXCEPT ![r].at = "cancel", ![r].back = b, ![r].trade = t,
                                    ![r].todo = @ \ {t}]
        /\ UNCHANGED position
    BY <1>1, <1>4, Cancels
  <2>2. PICK t \in run[r].todo \cap (Trade \ Free) :
              /\ trade' = [trade EXCEPT ![t].status = "CANCELLED"]
              /\ \E b : run' = [run EXCEPT ![r].at = "cancel", ![r].back = b, ![r].trade = t,
                                           ![r].todo = @ \ {t}]
    BY <2>1
  <2>3. run'[r].at = "cancel" /\ run'[r].trade = t /\ run'[r].todo = run[r].todo \ {t}
    BY <1>1, <2>2 DEF RunRow
  <2>4. trade'[t].status = "CANCELLED" /\ \A u \in Trade : u # t => trade'[u] = trade[u]
    <3>1. trade[t] \in TradeRow
      BY <1>1, RunsApart
    <3>2. trade'[t] = [trade[t] EXCEPT !.status = "CANCELLED"]
      BY <1>1, <2>2
    <3> QED
      BY <1>1, <2>2, <3>1, <3>2 DEF TradeRow
  <2>5. Pending' = Pending \ {t} /\ Claimed' \subseteq Claimed
    BY <2>1, <2>4, MarkPending
  <2>6. run[r].todo \subseteq Pending
    BY <1>4 DEF Expire, CancelHeld, Read
  <2> QED
    BY <2>3, <2>5, <2>6 DEF Read, Busy, Buying, Writing, Dropping, Reserving
<1>5. CASE BeginFill(r) \/ CarryOver(r) \/ EndFill(r)
  <2>1. UNCHANGED <<trade, position>>
    BY <1>5 DEF BeginFill, CarryOver, EndFill, ledgers
  <2>2. run'[r].at \in {"exits", "fill"} /\ run'[r].todo \subseteq run[r].todo
    BY <1>1, <1>5 DEF BeginFill, CarryOver, EndFill, RunRow
  <2>3. run[r].todo \subseteq Pending
    BY <1>5 DEF BeginFill, CarryOver, EndFill, Read
  <2> QED
    BY <1>2, <2>1, <2>2, <2>3 DEF Read, Busy, Buying, Writing, Dropping, Reserving
<1>6. CASE CreatePosition(r)
  <2>1. run[r].todo \subseteq Pending /\ UNCHANGED trade
    BY <1>6 DEF CreatePosition, Read
  <2>2. PICK t \in run[r].todo \cap (Trade \ Free) :
           /\ run'[r].trade = t /\ run'[r].todo = run[r].todo \ {t}
           /\ \/ /\ run'[r].at = "created" /\ Insertable(t)
                 /\ position' = [position EXCEPT ![t] = "OPEN"]
              \/ run'[r].at = "refused" /\ UNCHANGED position
    BY <1>1, <1>6, Created
  <2>3. run'[r].at \in {"created", "refused"} /\ run'[r].trade = t /\ run'[r].todo = run[r].todo \ {t}
    BY <2>2
  <2>4. Pending' = Pending
    BY <2>1 DEF Pending
  <2>5. Claimed' \subseteq Claimed
    <3>1. \A u \in Trade : Open(u)' => Open(u) \/ u = t
      BY <1>1, <2>2 DEF Open, Rows, TypeOK
    <3> QED
      BY <2>1, <2>4, <3>1 DEF Claimed
  <2> QED
    BY <2>1, <2>3, <2>4, <2>5 DEF Read, Busy, Buying, Writing, Dropping, Reserving
<1>7. CASE CancelRefused(r) \/ RecordFilled(r)
  <2>0. PICK t \in Trade \ Free : t = run[r].trade
    BY <1>1, <1>7 DEF CancelRefused, RecordFilled, RunOK, Busy, Buying, Dropping
  <2>1. /\ run'[r].at \in {"cancel", "lookup"} /\ run'[r].trade = t /\ run'[r].todo = run[r].todo
        /\ UNCHANGED position
    BY <1>1, <1>7, <2>0 DEF CancelRefused, RecordFilled, RunRow
  <2>2. trade'[t].status \in {"FILLED", "PARTIAL", "CANCELLED"} /\ \A u \in Trade : u # t => trade'[u] = trade[u]
    <3>1. trade[t] \in TradeRow
      BY <1>1, RunsApart
    <3>2. CASE CancelRefused(r)
      BY <1>1, <2>0, <3>1, <3>2 DEF CancelRefused, TradeRow
    <3>3. CASE RecordFilled(r)
      <4>1. PICK st \in {"FILLED", "PARTIAL"} :
              trade' = [trade EXCEPT ![t].status = st, ![t].shares = run[r].shares, ![t].filledOn = day]
        BY <2>0, <3>3 DEF RecordFilled
      <4>2. trade'[t] = [trade[t] EXCEPT !.status = st, !.shares = run[r].shares, !.filledOn = day]
        BY <1>1, <4>1
      <4> QED
        BY <1>1, <3>1, <4>1, <4>2 DEF TradeRow
    <3> QED
      BY <1>7, <3>2, <3>3
  <2>3. Pending' = Pending \ {t} /\ Claimed' \subseteq Claimed
    BY <2>1, <2>2, MarkPending
  <2>4. run[r].todo \subseteq Pending /\ t \notin run[r].todo
    BY <1>7, <2>0 DEF CancelRefused, RecordFilled, Read, Busy, Buying, Dropping
  <2> QED
    BY <2>1, <2>3, <2>4 DEF Read, Busy, Buying, Writing, Dropping, Reserving
<1>8. CASE LookUp(r) \/ Execute(r) \/ Link(r) \/ BookFill(r) \/ LookUpCancelled(r) \/ CancelRequest(r)
           \/ CancelBook(r) \/ UpsertRequest(r) \/ PlaceOrder(r) \/ Swallow(r)
  <2>1. UNCHANGED <<trade, position>>
    BY <1>8 DEF LookUp, Execute, Link, BookFill, LookUpCancelled, CancelRequest, CancelBook,
      UpsertRequest, PlaceOrder, Swallow, ledgers
  <2>2. run'[r].todo = run[r].todo /\ run'[r].trade = run[r].trade
    BY <1>1, <1>8 DEF LookUp, Execute, Link, BookFill, LookUpCancelled, CancelRequest, CancelBook,
      UpsertRequest, PlaceOrder, Swallow, RunRow
  <2>3. /\ run[r].at \in Busy \cup {"request", "place"}
        /\ run[r].at \in Busy => run'[r].at \in Busy \cup {run[r].back}
        /\ run[r].at \in {"request", "place"} => run'[r].at \in {"place", run[r].back}
    <3>1. CASE LookUp(r) \/ Execute(r) \/ Link(r) \/ BookFill(r)
      BY <1>1, <3>1 DEF LookUp, Execute, Link, BookFill, RunRow, Busy, Buying, Writing, Dropping
    <3>2. CASE LookUpCancelled(r) \/ CancelRequest(r) \/ CancelBook(r)
      BY <1>1, <3>2 DEF LookUpCancelled, CancelRequest, CancelBook, RunRow, Busy, Buying, Writing, Dropping
    <3>3. CASE UpsertRequest(r) \/ PlaceOrder(r) \/ Swallow(r)
      BY <1>1, <3>3 DEF UpsertRequest, PlaceOrder, Swallow, RunRow, Busy, Buying, Writing, Dropping
    <3> QED
      BY <1>8, <3>1, <3>2, <3>3
  <2>4. \/ run[r].at \in Busy /\ run'[r].at \in Busy \cup {"due", "fill"}
        \/ run[r].at \in Reserving /\ run'[r].at \in Reserving
    BY <1>1, <2>3 DEF RunOK, Reserving
  <2> QED
    BY <1>2, <2>1, <2>2, <2>4, CallRead
<1>9. CASE SellDeferred(r) \/ Evaluate(r)
  <2>1. run' = run /\ UNCHANGED trade /\ run[r].at \in {"exits", "evaluate"}
    BY <1>9 DEF SellDeferred, Evaluate
  <2>2. \A u \in Trade : Open(u)' => Open(u)
    BY <1>1, <1>9 DEF SellDeferred, Evaluate, Open, Rows, TypeOK
  <2>3. Claimed' \subseteq Claimed
    BY <2>1, <2>2 DEF Claimed, Pending
  <2> QED
    BY <2>1, <2>3, Unread
<1>10. CASE EndDeferred(r) \/ EndEvaluate(r) \/ EndReserve(r)
  <2>1. run'[r].at \in {"idle", "screen", "evaluate"}
    BY <1>1, <1>10 DEF EndDeferred, EndEvaluate, EndReserve, Idle, RunRow
  <2>2. UNCHANGED <<trade, position>>
    BY <1>10 DEF EndDeferred, EndEvaluate, EndReserve, ledgers
  <2> QED
    BY <1>2, <2>1, <2>2, Unread
<1>11. CASE Screen(r)
  <2>1. run'[r].at = "rank" /\ run'[r].held = HeldStocks /\ UNCHANGED <<trade, position>>
    BY <1>1, <1>11 DEF Screen, RunRow, ledgers
  <2> QED
    BY <1>2, <2>1 DEF Read, Busy, Buying, Writing, Dropping, Reserving
<1>12. CASE Rank(r)
  <2>1. PICK picks \in SUBSET {s \in Signal : StockOf[s] \notin Excluded(r)} :
          /\ \A s1, s2 \in picks : StockOf[s1] = StockOf[s2] => s1 = s2
          /\ run' = [run EXCEPT ![r].at = "reserve", ![r].todo = picks]
    BY <1>12 DEF Rank
  <2>2. run'[r].at = "reserve" /\ run'[r].todo = picks
    BY <1>1, <2>1 DEF RunRow
  <2>3. UNCHANGED <<trade, position>>
    BY <1>12 DEF Rank, ledgers
  <2>4. \A t \in Claimed : Stock(t) \in Excluded(r)
    <3>1. HeldStocks \subseteq run[r].held
      BY <1>12 DEF Rank, Read
    <3> QED
      BY <3>1 DEF Claimed, Excluded, HeldStocks
  <2>5. Claimed' = Claimed /\ \A t : Stock(t)' = Stock(t)
    BY <2>3 DEF Claimed, Pending, Open, Stock
  <2> QED
    BY <2>1, <2>2, <2>4, <2>5 DEF Read, Busy, Buying, Writing, Dropping, Reserving
<1> QED
  BY <1>3, <1>4, <1>5, <1>6, <1>7, <1>8, <1>9, <1>10, <1>11, <1>12 DEF Step

(* A reservation takes a free row for a pick.                              *)
LEMMA Reserves ==
  ASSUME Base, NEW r \in Runner, Reserve(r)
  PROVE  \E s \in run[r].todo \cap Signal, u \in Free :
           /\ trade'[u] \in TradeRow /\ trade'[u].signal = s /\ trade'[u].status = "PENDING"
           /\ \A v \in Trade : v # u => trade'[v] = trade[v]
           /\ run'[r].at = "request" /\ run'[r].trade = u /\ run'[r].todo = run[r].todo \ {s}
           /\ UNCHANGED <<day, position, entries, request, executions, book, failures>>
<1>1. /\ run \in [Runner -> RunRow] /\ run[r] \in RunRow /\ RunOK(r) /\ Rows /\ Step(r)
      /\ trade \in [Trade -> {NoTrade} \cup TradeRow]
  BY DEF Base, Rows, Held, TypeOK, Step
<1>2. PICK s \in run[r].todo, n \in 1 .. MaxShares :
        /\ trade' = [trade EXCEPT ![First(Free)] =
               [status |-> "PENDING", signal |-> s, due |-> day + 1, ordered |-> n,
                shares |-> 0, filledOn |-> 0]]
        /\ run' = [run EXCEPT ![r].at = "request", ![r].trade = First(Free),
                              ![r].back = "reserve", ![r].todo = @ \ {s}]
  BY DEF Reserve, Free
<1>3. run[r].todo \subseteq Signal /\ Cardinality(run[r].todo) <= Cardinality(Free)
  BY <1>1 DEF Reserve, RunOK, Reserving
<1>4. First(Free) \in Free
  BY <1>2, <1>3, FreeLeft
<1>5. PICK u \in Free : u = First(Free)
  BY <1>4
<1>6. u \in Trade
  BY DEF Free
<1> DEFINE row == [status |-> "PENDING", signal |-> s, due |-> day + 1, ordered |-> n,
                   shares |-> 0, filledOn |-> 0]
<1>7. row.signal = s /\ row.status = "PENDING"
  OBVIOUS
<1>8. trade' = [trade EXCEPT ![u] = row]
  BY <1>2, <1>5
<1> HIDE DEF row
<1>9. trade'[u] = row /\ \A v \in Trade : v # u => trade'[v] = trade[v]
  BY <1>1, <1>6, <1>8
<1>10. trade'[u] \in TradeRow
  <2>1. TypeOK'
    BY <1>1, TablesTyped
  <2>2. trade'[u] # NoTrade
    BY <1>7, <1>9 DEF NoTrade
  <2> QED
    BY <1>6, <2>1, <2>2 DEF TypeOK
<1>11. run'[r].at = "request" /\ run'[r].trade = u /\ run'[r].todo = run[r].todo \ {s}
  BY <1>1, <1>2, <1>5 DEF RunRow
<1>12. UNCHANGED <<day, position, entries, request, executions, book, failures>>
  BY DEF Reserve
<1> QED
  BY <1>3, <1>7, <1>9, <1>10, <1>11, <1>12

LEMMA ReserveAlone ==
  ASSUME Base, OneClaim, NEW r \in Runner, Read(r), Reserve(r)
  PROVE  OneClaim' /\ Read(r)'
<1>1. PICK s \in run[r].todo \cap Signal, u \in Free :
           /\ trade'[u] \in TradeRow /\ trade'[u].signal = s /\ trade'[u].status = "PENDING"
           /\ \A v \in Trade : v # u => trade'[v] = trade[v]
           /\ run'[r].at = "request" /\ run'[r].trade = u /\ run'[r].todo = run[r].todo \ {s}
           /\ UNCHANGED <<day, position, entries, request, executions, book, failures>>
  BY Reserves
<1>2. u \in Trade /\ u \notin Claimed
  BY ClaimedRows DEF Free
<1>3. Claimed' = Claimed \cup {u}
  BY <1>1, <1>2 DEF Claimed, Pending, Open
<1>4. Stock(u)' = StockOf[s] /\ \A v \in Claimed : Stock(v)' = Stock(v)
  <2>1. \A v \in Claimed : v \in Trade /\ v # u
    BY <1>2 DEF Claimed, Pending
  <2> QED
    BY <1>1, <2>1 DEF Stock
<1>5. \A p \in run[r].todo : /\ \A t \in Claimed : Stock(t) # StockOf[p]
                             /\ \A q \in run[r].todo : StockOf[q] = StockOf[p] => q = p
  BY DEF Reserve, Read, Reserving
<1>6. OneClaim'
  <2> SUFFICES ASSUME NEW v \in Claimed', NEW w \in Claimed', Stock(v)' = Stock(w)'
               PROVE  v = w
    BY DEF OneClaim
  <2>1. CASE v \in Claimed /\ w \in Claimed
    BY <1>4, <2>1 DEF OneClaim
  <2>2. CASE v = u \/ w = u
    BY <1>1, <1>3, <1>4, <1>5, <2>2
  <2> QED
    BY <1>3, <2>1, <2>2
<1>7. \A p \in run'[r].todo : \A t \in Claimed' : Stock(t)' # StockOf[p]
  BY <1>1, <1>3, <1>4, <1>5
<1>8. Read(r)'
  BY <1>1, <1>5, <1>7 DEF Read, Busy, Buying, Writing, Dropping, Reserving
<1> QED
  BY <1>6, <1>8

LEMMA AloneStep ==
  ASSUME ~ Overlap, Base, Alone, [Next]_vars
  PROVE  Alone'
<1>1. ASSUME NEW r \in Runner, Start(r) \/ Step(r) PROVE Alone'
  <2>1. \A q \in Runner \ {r} : run[q] = Idle
    <3>1. CASE Start(r)
      BY <3>1 DEF Start, AllIdle
    <3>2. CASE Step(r)
      <4>1. run[r].at # "idle"
        BY <3>2 DEF Step, Expire, BeginFill, CancelHeld, CarryOver, CreatePosition, CancelRefused,
          RecordFilled, LookUp, Execute, Link, BookFill, LookUpCancelled, CancelRequest, CancelBook,
          EndFill, SellDeferred, EndDeferred, Evaluate, EndEvaluate, Screen, Rank, Reserve,
          UpsertRequest, PlaceOrder, EndReserve, Swallow
      <4> QED
        BY <4>1 DEF Alone, Turns, Idle
    <3> QED
      BY <1>1, <3>1, <3>2
  <2>2. \A q \in Runner \ {r} : run'[q] = Idle
    BY <1>1, <2>1, OthersStay DEF Base
  <2>3. Turns'
    BY <2>2 DEF Turns
  <2>4. OneClaim' /\ Read(r)'
    <3>1. CASE Reserve(r)
      BY <3>1, ReserveAlone DEF Alone
    <3>2. CASE ~ Reserve(r)
      <4>1. Read(r)' /\ Claimed' \subseteq Claimed
        BY <1>1, <3>2, ReadStep DEF Alone
      <4>2. Kept
        BY <1>1, TablesTyped DEF Base, Held
      <4> QED
        BY <4>1, <4>2, ClaimsShrink DEF Alone
    <3> QED
      BY <3>1, <3>2
  <2>5. \A q \in Runner \ {r} : Read(q)'
    BY <2>2, Unread DEF Idle
  <2> QED
    BY <2>3, <2>4, <2>5 DEF Alone
<1>2. CASE CutOff \/ Tick \/ UNCHANGED vars
  <2>1. /\ \A r \in Runner : run'[r] = Idle \/ run'[r] = run[r]
        /\ UNCHANGED <<trade, position>>
    BY <1>2, CutOffIdles DEF Tick, vars, ledgers
  <2>2. Pending' = Pending /\ Claimed' = Claimed /\ HeldStocks' = HeldStocks /\ \A t : Stock(t)' = Stock(t)
    BY <2>1 DEF Pending, Claimed, Open, HeldStocks, Stock
  <2>3. OneClaim' /\ Turns'
    BY <2>1, <2>2 DEF Alone, OneClaim, Turns
  <2>4. ASSUME NEW r \in Runner PROVE Read(r)'
    <3>1. CASE run'[r] = Idle
      BY <3>1, Unread DEF Idle
    <3>2. CASE run'[r] = run[r]
      BY <2>2, <3>2 DEF Alone, Read
    <3> QED
      BY <2>1, <3>1, <3>2
  <2> QED
    BY <2>3, <2>4 DEF Alone
<1> QED
  BY <1>1, <1>2 DEF Next

LEMMA AloneInit ==
  ASSUME Init
  PROVE  Alone
<1>1. \A r \in Runner : run[r] = Idle
  BY DEF Init
<1>2. Claimed = {}
  BY DEF Init, Claimed, Pending, Open, NoTrade
<1> QED
  BY <1>1, <1>2 DEF Alone, OneClaim, Turns, Read, Idle, Busy, Buying, Writing, Dropping, Reserving

(* While the runners take turns, a stock is reserved or held once, however *)
(* often they are cut off.                                                 *)
THEOREM OneEntry == ~ Overlap => (Spec => []OneEntryPerStock)
<1> SUFFICES ASSUME ~ Overlap PROVE Spec => []OneEntryPerStock
  OBVIOUS
<1>1. Init => Base /\ Alone
  BY BaseInit, AloneInit
<1>2. Base /\ Alone /\ [Next]_vars => Base' /\ Alone'
  BY BaseStep, AloneStep
<1>3. Alone => OneEntryPerStock
  BY AloneImplies DEF Alone
<1> QED
  BY <1>1, <1>2, <1>3, PTL DEF Spec

-----------------------------------------------------------------------------
(* What the ledgers say of a trade no runner has in hand, and how far each *)
(* statement has brought the ledgers of the one in hand.                   *)
Hand == Busy \cup {"request", "place"}
Has(r, t) == run[r].trade = t /\ run[r].at \in Hand

Told(t) ==
  LET q == request[trade[t].signal] IN
  /\ Filled(t) <=> position[t] # "NONE"
  /\ Filled(t) <=> executions[t] = 1
  /\ trade[t].status = "PENDING" => q.trade = t
  /\ q.trade = t => /\ trade[t].status = "PENDING" => q.status = "JUDGED"
                    /\ Filled(t) => q.status = "EXECUTED"
                    /\ trade[t].status = "CANCELLED" => q.status = "CANCELLED"

Unentered(t) == position[t] = "NONE" /\ executions[t] = 0
Request(t, st) == request[trade[t].signal].trade = t /\ request[trade[t].signal].status = st

HalfWay(r, t) ==
  /\ run[r].at = "request" => trade[t].status = "PENDING" /\ Unentered(t)
  /\ run[r].at \in {"refused", "place"} =>
       trade[t].status = "PENDING" /\ Unentered(t) /\ Request(t, "JUDGED")
  /\ run[r].at = "created" =>
       trade[t].status = "PENDING" /\ position[t] # "NONE" /\ executions[t] = 0 /\ Request(t, "JUDGED")
  /\ run[r].at \in {"lookup", "execute"} =>
       Filled(t) /\ position[t] # "NONE" /\ executions[t] = 0 /\ Request(t, "JUDGED")
  /\ run[r].at = "link" =>
       Filled(t) /\ position[t] # "NONE" /\ executions[t] = 1 /\ Request(t, "JUDGED")
  /\ run[r].at = "book" =>
       Filled(t) /\ position[t] # "NONE" /\ executions[t] = 1 /\ Request(t, "EXECUTED")
  /\ run[r].at \in {"cancel", "cancelRequest"} =>
       trade[t].status = "CANCELLED" /\ Unentered(t) /\ Request(t, "JUDGED")
  /\ run[r].at = "cancelBook" =>
       trade[t].status = "CANCELLED" /\ Unentered(t) /\ Request(t, "CANCELLED")

AgreedOn(t) ==
  /\ (\A r \in Runner : ~ Has(r, t)) => Told(t)
  /\ \A r \in Runner : Has(r, t) => HalfWay(r, t)

Agreed == \A t \in Trade : trade[t] # NoTrade => AgreedOn(t)

LEMMA AgreedImplies ==
  ASSUME Base, Agreed
  PROVE  LedgersAgree
<1> SUFFICES ASSUME NEW t \in Trade, trade[t] # NoTrade, ~ InHand(t)
             PROVE  LET q == request[trade[t].signal] IN
                    /\ Filled(t) <=> position[t] # "NONE"
                    /\ Filled(t) <=> executions[t] = 1
                    /\ trade[t].status = "PENDING" => q.trade = t
                    /\ q.trade = t => q.status = CASE trade[t].status = "PENDING" -> "JUDGED"
                                   [] Filled(t) -> "EXECUTED"
                                   [] trade[t].status = "CANCELLED" -> "CANCELLED"
  BY DEF LedgersAgree
<1>1. \A r \in Runner : ~ Has(r, t)
  BY DEF InHand, Has, Hand, Busy, Buying, Writing, Dropping
<1>2. Told(t)
  BY <1>1 DEF Agreed, AgreedOn
<1>3. trade[t].status \in {"PENDING", "FILLED", "PARTIAL", "CANCELLED"}
  BY DEF Base, Rows, TypeOK, TradeRow
<1>4. CASE trade[t].status = "PENDING"
  BY <1>2, <1>4 DEF Told, Filled
<1>5. CASE Filled(t)
  BY <1>2, <1>5 DEF Told, Filled
<1>6. CASE trade[t].status = "CANCELLED"
  BY <1>2, <1>6 DEF Told, Filled
<1> QED
  BY <1>3, <1>4, <1>5, <1>6 DEF Filled

(* A step of runner r about other trades: their rows, and whether they     *)
(* have a position, stay; a request that changes is of another trade.      *)
LEMMA ToldKept ==
  ASSUME NEW t \in Trade, Told(t),
         trade'[t] = trade[t], executions'[t] = executions[t],
         position'[t] # "NONE" <=> position[t] # "NONE",
         \/ request'[trade[t].signal] = request[trade[t].signal]
         \/ request'[trade[t].signal].trade # t /\ trade[t].status # "PENDING"
  PROVE  Told(t)'
<1>1. Filled(t)' <=> Filled(t)
  BY DEF Filled
<1>2. CASE request'[trade[t].signal] = request[trade[t].signal]
  BY <1>1, <1>2 DEF Told
<1>3. CASE request'[trade[t].signal].trade # t /\ trade[t].status # "PENDING"
  BY <1>1, <1>3 DEF Told
<1> QED
  BY <1>2, <1>3

LEMMA ElsewhereAgreed ==
  ASSUME Agreed, NEW r \in Runner, \A q \in Runner \ {r} : run[q] = Idle /\ run'[q] = Idle,
         NEW t \in Trade, trade[t] # NoTrade, ~ Has(r, t), ~ Has(r, t)',
         trade'[t] = trade[t], executions'[t] = executions[t],
         position'[t] # "NONE" <=> position[t] # "NONE",
         \/ request'[trade[t].signal] = request[trade[t].signal]
         \/ request'[trade[t].signal].trade # t /\ trade[t].status # "PENDING"
  PROVE  AgreedOn(t)'
<1>1. \A q \in Runner : ~ Has(q, t) /\ ~ Has(q, t)'
  BY DEF Has, Hand, Idle, Busy, Buying, Writing, Dropping
<1>2. Told(t)
  BY <1>1 DEF Agreed, AgreedOn
<1>3. Told(t)'
  BY <1>2, ToldKept
<1> QED
  BY <1>1, <1>3 DEF AgreedOn

(* The trade runner r has, or has had, in hand.                            *)
LEMMA InHandAgreed ==
  ASSUME NEW r \in Runner, \A q \in Runner \ {r} : run'[q] = Idle, NEW t \in Trade,
         Has(r, t)' => HalfWay(r, t)', ~ Has(r, t)' => Told(t)'
  PROVE  AgreedOn(t)'
<1>1. \A q \in Runner \ {r} : ~ Has(q, t)'
  BY DEF Has, Hand, Idle, Busy, Buying, Writing, Dropping
<1> QED
  BY <1>1 DEF AgreedOn

(* A pending trade that is not in hand.                                    *)
LEMMA PendingTold ==
  ASSUME Base, BookOK, Counted, NEW t \in Trade, Told(t), trade[t].status = "PENDING"
  PROVE  Unentered(t) /\ Request(t, "JUDGED")
<1>1. position[t] = "NONE"
  BY DEF Told, Filled
<1>2. entries[t] = 0 /\ executions[t] \in Nat
  BY <1>1 DEF Base, Rows, TypeOK
<1>3. executions[t] <= entries[t]
  BY CountedImplies DEF ExecutedOnce
<1> QED
  BY <1>1, <1>2, <1>3 DEF Told, Unentered, Request

LEMMA FreeUnentered ==
  ASSUME Base, BookOK, Counted, NEW t \in Free
  PROVE  Unentered(t)
<1>1. t \in Trade /\ trade[t] = NoTrade
  BY DEF Free
<1>2. entries[t] = 0 /\ position[t] = "NONE" /\ executions[t] \in Nat
  BY <1>1 DEF Base, Rows, TypeOK
<1>3. executions[t] <= entries[t]
  BY <1>1, CountedImplies DEF ExecutedOnce
<1> QED
  BY <1>2, <1>3 DEF Unentered

(* Nothing is in hand before or after.                                     *)
LEMMA IdleAgreed ==
  ASSUME Base, Agreed, NEW r \in Runner, \A q \in Runner \ {r} : run[q] = Idle /\ run'[q] = Idle,
         run[r].at \notin Hand, run'[r].at \notin Hand,
         UNCHANGED <<trade, executions, request>>,
         \A t \in Trade : position'[t] # "NONE" <=> position[t] # "NONE"
  PROVE  Agreed'
<1> SUFFICES ASSUME NEW t \in Trade, trade'[t] # NoTrade PROVE AgreedOn(t)'
  BY DEF Agreed
<1>1. ~ Has(r, t) /\ ~ Has(r, t)'
  BY DEF Has
<1> QED
  BY <1>1, ElsewhereAgreed

LEMMA CancelsAgreed ==
  ASSUME Base, BookOK, Counted, Agreed, NEW r \in Runner, Read(r), Expire(r) \/ CancelHeld(r),
         \A q \in Runner \ {r} : run[q] = Idle /\ run'[q] = Idle
  PROVE  Agreed'
<1>1. /\ run \in [Runner -> RunRow] /\ run[r] \in RunRow /\ RunOK(r) /\ Rows
      /\ trade \in [Trade -> {NoTrade} \cup TradeRow]
  BY DEF Base, Rows, Held, TypeOK
<1>2. PICK t \in run[r].todo \cap (Trade \ Free), b \in {"due", "fill"} :
        /\ run[r].at = b
        /\ trade' = [trade EXCEPT ![t].status = "CANCELLED"]
        /\ run' = [run EXCEPT ![r].at = "cancel", ![r].back = b, ![r].trade = t, ![r].todo = @ \ {t}]
  BY <1>1, Cancels
<1>3. UNCHANGED <<position, executions, request>>
  BY <1>1, Cancels
<1>4. run'[r].at = "cancel" /\ run'[r].trade = t /\ run[r].at \notin Hand
  BY <1>1, <1>2 DEF RunRow, Hand, Busy, Buying, Writing, Dropping
<1>5. trade[t] \in TradeRow /\ trade[t] # NoTrade /\ trade[t].status = "PENDING"
  <2>1. t \in Pending
    BY <1>2 DEF Expire, CancelHeld, Read
  <2> QED
    BY <1>1, <2>1, RunsApart DEF Pending, Free
<1>6. trade'[t] = [trade[t] EXCEPT !.status = "CANCELLED"] /\ \A u \in Trade : u # t => trade'[u] = trade[u]
  BY <1>1, <1>2
<1>7. trade'[t].status = "CANCELLED" /\ trade'[t].signal = trade[t].signal
  BY <1>5, <1>6 DEF TradeRow
<1>8. Unentered(t) /\ Request(t, "JUDGED")
  <2>1. \A q \in Runner : ~ Has(q, t)
    BY <1>4 DEF Has, Hand, Idle, Busy, Buying, Writing, Dropping
  <2>2. Told(t)
    BY <1>5, <2>1 DEF Agreed, AgreedOn
  <2> QED
    BY <1>5, <2>2, PendingTold
<1>9. ASSUME NEW u \in Trade, trade'[u] # NoTrade PROVE AgreedOn(u)'
  <2>1. CASE u = t
    <3>1. Unentered(t)' /\ Request(t, "JUDGED")'
      BY <1>3, <1>7, <1>8 DEF Unentered, Request
    <3>2. HalfWay(r, t)' /\ Has(r, t)'
      BY <1>4, <1>7, <3>1 DEF HalfWay, Has, Hand, Busy, Dropping
    <3> QED
      BY <2>1, <3>2, InHandAgreed
  <2>2. CASE u # t
    <3>1. ~ Has(r, u) /\ ~ Has(r, u)' /\ trade[u] # NoTrade
      BY <1>4, <1>6, <1>9, <2>2 DEF Has
    <3> QED
      BY <1>3, <1>6, <2>2, <3>1, ElsewhereAgreed
  <2> QED
    BY <2>1, <2>2
<1> QED
  BY <1>9 DEF Agreed

LEMMA EnterAgreed ==
  ASSUME Base, BookOK, Counted, Agreed, NEW r \in Runner, Read(r), CreatePosition(r),
         \A q \in Runner \ {r} : run[q] = Idle /\ run'[q] = Idle
  PROVE  Agreed'
<1>1. /\ run \in [Runner -> RunRow] /\ run[r] \in RunRow /\ RunOK(r) /\ Rows
      /\ position \in [Trade -> {"NONE", "OPEN", "EXITING", "CLOSED"}]
  BY DEF Base, Rows, Held, TypeOK
<1>2. PICK t \in run[r].todo \cap (Trade \ Free) :
           /\ run'[r].trade = t /\ run'[r].todo = run[r].todo \ {t}
           /\ \/ /\ run'[r].at = "created" /\ Insertable(t)
                 /\ position' = [position EXCEPT ![t] = "OPEN"]
              \/ run'[r].at = "refused" /\ UNCHANGED position
  BY <1>1, Created
<1>3. run[r].at = "fill" /\ run[r].at \notin Hand /\ UNCHANGED <<trade, executions, request>>
  BY DEF CreatePosition, Hand, Busy, Buying, Writing, Dropping
<1>4. trade[t] # NoTrade /\ trade[t].status = "PENDING" /\ t \in Trade
  BY <1>2, <1>3 DEF Read, Pending, Free
<1>5. Unentered(t) /\ Request(t, "JUDGED")
  <2>1. \A q \in Runner : ~ Has(q, t)
    BY <1>3 DEF Has, Hand, Idle, Busy, Buying, Writing, Dropping
  <2>2. Told(t)
    BY <1>4, <2>1 DEF Agreed, AgreedOn
  <2> QED
    BY <1>4, <2>2, PendingTold
<1>6. /\ \A u \in Trade : u # t => position'[u] = position[u]
      /\ run'[r].at = "created" => position'[t] # "NONE"
      /\ run'[r].at = "refused" => position'[t] = position[t]
      /\ run'[r].at \in {"created", "refused"}
  BY <1>1, <1>2
<1>7. ASSUME NEW u \in Trade, trade'[u] # NoTrade PROVE AgreedOn(u)'
  <2>1. CASE u = t
    <3>1. Request(t, "JUDGED")' /\ executions'[t] = 0 /\ trade'[t].status = "PENDING"
      BY <1>3, <1>4, <1>5 DEF Unentered, Request
    <3>2. run'[r].at = "refused" => Unentered(t)'
      BY <1>5, <1>6, <3>1 DEF Unentered
    <3>3. HalfWay(r, t)' /\ Has(r, t)'
      BY <1>2, <1>6, <3>1, <3>2 DEF HalfWay, Has, Hand, Busy, Buying, Dropping
    <3> QED
      BY <2>1, <3>3, InHandAgreed
  <2>2. CASE u # t
    <3>1. ~ Has(r, u) /\ ~ Has(r, u)'
      BY <1>2, <1>3, <2>2 DEF Has
    <3> QED
      BY <1>3, <1>6, <1>7, <2>2, <3>1, ElsewhereAgreed
  <2> QED
    BY <2>1, <2>2
<1> QED
  BY <1>7 DEF Agreed

LEMMA ReserveAgreed ==
  ASSUME Base, BookOK, Counted, Agreed, NEW r \in Runner, Reserve(r),
         \A q \in Runner \ {r} : run[q] = Idle /\ run'[q] = Idle
  PROVE  Agreed'
<1>1. PICK s \in run[r].todo \cap Signal, t \in Free :
           /\ trade'[t] \in TradeRow /\ trade'[t].signal = s /\ trade'[t].status = "PENDING"
           /\ \A v \in Trade : v # t => trade'[v] = trade[v]
           /\ run'[r].at = "request" /\ run'[r].trade = t /\ run'[r].todo = run[r].todo \ {s}
           /\ UNCHANGED <<day, position, entries, request, executions, book, failures>>
  BY Reserves
<1>2. run[r].at \notin Hand /\ t \in Trade
  BY DEF Reserve, Hand, Busy, Buying, Writing, Dropping, Free
<1>3. Unentered(t)
  BY FreeUnentered
<1>4. ASSUME NEW u \in Trade, trade'[u] # NoTrade PROVE AgreedOn(u)'
  <2>1. CASE u = t
    <3>1. Unentered(t)'
      BY <1>1, <1>3 DEF Unentered
    <3>2. HalfWay(r, t)' /\ Has(r, t)'
      BY <1>1, <3>1 DEF HalfWay, Has, Hand
    <3> QED
      BY <1>2, <2>1, <3>2, InHandAgreed
  <2>2. CASE u # t
    <3>1. ~ Has(r, u) /\ ~ Has(r, u)' /\ trade[u] # NoTrade /\ trade'[u] = trade[u]
      BY <1>1, <1>2, <1>4, <2>2 DEF Has
    <3> QED
      BY <1>1, <3>1, ElsewhereAgreed
  <2> QED
    BY <2>1, <2>2
<1> QED
  BY <1>4 DEF Agreed

(* A step of the runner that has trade h in hand.                          *)
LEMMA HandAgreed ==
  ASSUME Agreed, NEW r \in Runner, \A q \in Runner \ {r} : run[q] = Idle /\ run'[q] = Idle,
         NEW h \in Trade, Has(r, h), run'[r].trade = h,
         \A u \in Trade : u # h =>
           /\ trade'[u] = trade[u] /\ executions'[u] = executions[u] /\ position'[u] = position[u]
           /\ trade[u] # NoTrade =>
                \/ request'[trade[u].signal] = request[trade[u].signal]
                \/ request'[trade[u].signal].trade # u /\ trade[u].status # "PENDING",
         Has(r, h)' => HalfWay(r, h)', ~ Has(r, h)' => Told(h)'
  PROVE  Agreed'
<1> SUFFICES ASSUME NEW u \in Trade, trade'[u] # NoTrade PROVE AgreedOn(u)'
  BY DEF Agreed
<1>1. CASE u = h
  BY <1>1, InHandAgreed
<1>2. CASE u # h
  <2>1. ~ Has(r, u) /\ ~ Has(r, u)' /\ trade[u] # NoTrade
    BY <1>2 DEF Has
  <2> QED
    BY <1>2, <2>1, ElsewhereAgreed
<1> QED
  BY <1>1, <1>2

LEMMA MarkedAgreed ==
  ASSUME Base, Agreed, NEW r \in Runner, \A q \in Runner \ {r} : run[q] = Idle /\ run'[q] = Idle,
         CancelRefused(r) \/ RecordFilled(r)
  PROVE  Agreed'
<1>1. /\ run \in [Runner -> RunRow] /\ run[r] \in RunRow /\ RunOK(r) /\ Rows
      /\ trade \in [Trade -> {NoTrade} \cup TradeRow]
  BY DEF Base, Rows, Held, TypeOK
<1>2. PICK h \in Trade \ Free : h = run[r].trade
  BY <1>1 DEF CancelRefused, RecordFilled, RunOK, Busy, Buying, Dropping
<1>3. trade[h] \in TradeRow /\ trade[h] # NoTrade /\ h \in Trade
  BY <1>1, RunsApart DEF Free
<1>4. UNCHANGED <<position, executions, request>> /\ run'[r].trade = h
  BY <1>1, <1>2 DEF CancelRefused, RecordFilled, RunRow
<1>5. \A u \in Trade : u # h => trade'[u] = trade[u]
  BY <1>1, <1>2 DEF CancelRefused, RecordFilled
<1>6. Has(r, h) /\ HalfWay(r, h)
  BY <1>2, <1>3 DEF CancelRefused, RecordFilled, Agreed, AgreedOn, Has, Hand, Busy, Buying, Dropping
<1>7. CASE CancelRefused(r)
  <2>1. trade'[h] = [trade[h] EXCEPT !.status = "CANCELLED"]
    BY <1>1, <1>2, <1>7 DEF CancelRefused
  <2>2. trade'[h].status = "CANCELLED" /\ trade'[h].signal = trade[h].signal
    BY <1>3, <2>1 DEF TradeRow
  <2>3. run'[r].at = "cancel"
    BY <1>1, <1>7 DEF CancelRefused, RunRow
  <2>4. Unentered(h) /\ Request(h, "JUDGED")
    BY <1>6, <1>7 DEF CancelRefused, HalfWay
  <2>5. Unentered(h)' /\ Request(h, "JUDGED")'
    BY <1>4, <2>2, <2>4 DEF Unentered, Request
  <2>6. HalfWay(r, h)' /\ Has(r, h)'
    BY <1>4, <2>2, <2>3, <2>5 DEF HalfWay, Has, Hand, Busy, Dropping
  <2> QED
    BY <1>3, <1>4, <1>5, <1>6, <2>6, HandAgreed
<1>8. CASE RecordFilled(r)
  <2>1. PICK st \in {"FILLED", "PARTIAL"} :
          trade' = [trade EXCEPT ![h].status = st, ![h].shares = run[r].shares, ![h].filledOn = day]
    BY <1>2, <1>8 DEF RecordFilled
  <2>2. trade'[h] = [trade[h] EXCEPT !.status = st, !.shares = run[r].shares, !.filledOn = day]
    BY <1>1, <2>1
  <2>3. Filled(h)' /\ trade'[h].signal = trade[h].signal
    BY <1>3, <2>2 DEF TradeRow, Filled
  <2>4. run'[r].at = "lookup"
    BY <1>1, <1>8 DEF RecordFilled, RunRow
  <2>5. position[h] # "NONE" /\ executions[h] = 0 /\ Request(h, "JUDGED")
    BY <1>6, <1>8 DEF RecordFilled, HalfWay
  <2>6. Request(h, "JUDGED")'
    BY <1>4, <2>3, <2>5 DEF Request
  <2>7. HalfWay(r, h)' /\ Has(r, h)'
    BY <1>4, <2>3, <2>4, <2>5, <2>6 DEF HalfWay, Has, Hand, Busy, Buying
  <2> QED
    BY <1>3, <1>4, <1>5, <1>6, <2>7, HandAgreed
<1> QED
  BY <1>7, <1>8

(* Request h of the signal is set; the other trades of the signal, if any, *)
(* are not pending.                                                        *)
LEMMA OtherRequests ==
  ASSUME Base, Agreed, NEW r \in Runner, \A q \in Runner \ {r} : run[q] = Idle, NEW h \in Trade,
         Has(r, h), NEW s \in Signal, NEW row, row.trade = h,
         request' = [request EXCEPT ![s] = row],
         request[s].trade = h \/ \A u \in Trade : u # h /\ trade[u].signal = s => trade[u].status # "PENDING"
  PROVE  \A u \in Trade : u # h /\ trade[u] # NoTrade =>
           \/ request'[trade[u].signal] = request[trade[u].signal]
           \/ request'[trade[u].signal].trade # u /\ trade[u].status # "PENDING"
<1> SUFFICES ASSUME NEW u \in Trade, u # h, trade[u] # NoTrade
             PROVE  \/ request'[trade[u].signal] = request[trade[u].signal]
                    \/ request'[trade[u].signal].trade # u /\ trade[u].status # "PENDING"
  OBVIOUS
<1>1. request \in [Signal -> {NoRequest} \cup RequestRow] /\ trade[u].signal \in Signal
  BY DEF Base, Rows, TypeOK, TradeRow
<1>2. CASE trade[u].signal # s
  BY <1>1, <1>2
<1>3. CASE trade[u].signal = s
  <2>1. request'[s] = row
    BY <1>1
  <2>2. trade[u].status # "PENDING"
    <3>1. CASE request[s].trade = h
      <4>1. \A q \in Runner : ~ Has(q, u)
        BY DEF Has, Hand, Idle, Busy, Buying, Writing, Dropping
      <4>2. Told(u)
        BY <4>1 DEF Agreed, AgreedOn
      <4> QED
        BY <1>3, <3>1, <4>2 DEF Told
    <3>2. CASE \A v \in Trade : v # h /\ trade[v].signal = s => trade[v].status # "PENDING"
      BY <1>3, <3>2
    <3> QED
      BY <3>1, <3>2
  <2> QED
    BY <1>3, <2>1, <2>2
<1> QED
  BY <1>2, <1>3

LEMMA CallAgreed ==
  ASSUME Base, OneClaim, Agreed, NEW r \in Runner,
         \A q \in Runner \ {r} : run[q] = Idle /\ run'[q] = Idle,
         \/ LookUp(r) \/ Execute(r) \/ Link(r) \/ BookFill(r) \/ LookUpCancelled(r) \/ CancelRequest(r)
         \/ CancelBook(r) \/ UpsertRequest(r) \/ PlaceOrder(r)
  PROVE  Agreed'
<1> USE DEF Goto, Return
<1>1. /\ run \in [Runner -> RunRow] /\ run[r] \in RunRow /\ RunOK(r) /\ Rows
      /\ request \in [Signal -> {NoRequest} \cup RequestRow] /\ executions \in [Trade -> Nat]
  BY DEF Base, Rows, Held, TypeOK
<1>2. run[r].at \in Hand
  BY DEF LookUp, Execute, Link, BookFill, LookUpCancelled, CancelRequest, CancelBook, UpsertRequest,
    PlaceOrder, Hand, Busy, Buying, Writing, Dropping
<1>3. PICK h \in Trade \ Free : h = run[r].trade
  BY <1>1, <1>2 DEF RunOK, Hand
<1>4. h \in Trade /\ trade[h] # NoTrade /\ trade[h].signal \in Signal
  BY <1>1, <1>3, RunsApart DEF Free, TradeRow
<1>5. Has(r, h) /\ HalfWay(r, h)
  BY <1>2, <1>3, <1>4 DEF Agreed, AgreedOn, Has
<1>6. /\ UNCHANGED <<trade, position>>
      /\ run'[r].trade = h
      /\ run[r].at \in Busy => run[r].back \in {"due", "fill"}
      /\ run[r].at \in {"request", "place"} => run[r].back = "reserve"
  BY <1>1, <1>3 DEF LookUp, Execute, Link, BookFill, LookUpCancelled, CancelRequest, CancelBook,
    UpsertRequest, PlaceOrder, ledgers, RunRow, RunOK
<1>7. CASE LookUp(r)
  <2>1. run[r].at = "lookup" /\ UNCHANGED <<executions, request>>
    BY <1>7 DEF LookUp, ledgers
  <2>2. Request(h, "JUDGED")
    BY <1>5, <2>1 DEF HalfWay
  <2>3. Executable(request[trade[h].signal])
    BY <2>2 DEF Executable, Request
  <2>4. run'[r].at = "execute"
    BY <1>1, <1>3, <1>7, <2>3 DEF LookUp, RunRow
  <2>5. HalfWay(r, h)' /\ Has(r, h)'
    BY <1>5, <1>6, <2>1, <2>4 DEF HalfWay, Has, Hand, Busy, Buying, Filled, Request
  <2> QED
    BY <1>4, <1>5, <1>6, <2>1, <2>5, HandAgreed
<1>8. CASE Execute(r)
  <2>1. run[r].at = "execute" /\ UNCHANGED request /\ run'[r].at = "link"
    BY <1>1, <1>8 DEF Execute, RunRow
  <2>2. /\ executions'[h] = executions[h] + 1
        /\ \A u \in Trade : u # h => executions'[u] = executions[u]
    BY <1>1, <1>3, <1>4, <1>8 DEF Execute
  <2>3. /\ Filled(h) /\ position[h] # "NONE" /\ executions[h] = 0 /\ Request(h, "JUDGED")
    BY <1>5, <2>1 DEF HalfWay
  <2>4. executions'[h] = 1 /\ Filled(h)' /\ Request(h, "JUDGED")'
    BY <1>6, <2>1, <2>2, <2>3 DEF Filled, Request
  <2>5. HalfWay(r, h)' /\ Has(r, h)'
    BY <1>6, <2>1, <2>3, <2>4 DEF HalfWay, Has, Hand, Busy, Writing
  <2> QED
    BY <1>4, <1>5, <1>6, <2>1, <2>2, <2>5, HandAgreed
<1>9. CASE Link(r)
  <2>1. run[r].at = "link" /\ UNCHANGED executions /\ run'[r].at = "book"
    BY <1>1, <1>9 DEF Link, RunRow
  <2>2. /\ Filled(h) /\ position[h] # "NONE" /\ executions[h] = 1 /\ Request(h, "JUDGED")
    BY <1>5, <2>1 DEF HalfWay
  <2> DEFINE row == [status |-> "EXECUTED", trade |-> h, execution |-> h]
  <2>3. request' = [request EXCEPT ![trade[h].signal] = row]
    BY <1>3, <1>9 DEF Link
  <2>4. row.trade = h /\ row.status = "EXECUTED"
    OBVIOUS
  <2> HIDE DEF row
  <2>5. Request(h, "EXECUTED")' /\ Filled(h)'
    BY <1>1, <1>4, <1>6, <2>2, <2>3, <2>4 DEF Request, Filled
  <2>6. HalfWay(r, h)' /\ Has(r, h)'
    BY <1>6, <2>1, <2>2, <2>5 DEF HalfWay, Has, Hand, Busy, Writing
  <2>7. \A u \in Trade : u # h /\ trade[u] # NoTrade =>
           \/ request'[trade[u].signal] = request[trade[u].signal]
           \/ request'[trade[u].signal].trade # u /\ trade[u].status # "PENDING"
    <3>1. request[trade[h].signal].trade = h
      BY <2>2 DEF Request
    <3> QED
      BY <1>4, <1>5, <2>3, <2>4, <3>1, OtherRequests
  <2> QED
    BY <1>4, <1>5, <1>6, <2>1, <2>6, <2>7, HandAgreed
<1>10. CASE BookFill(r)
  <2>1. run[r].at = "book" /\ UNCHANGED <<executions, request>> /\ run'[r].at = run[r].back
    BY <1>1, <1>10 DEF BookFill, RunRow
  <2>2. Filled(h) /\ position[h] # "NONE" /\ executions[h] = 1 /\ Request(h, "EXECUTED")
    BY <1>5, <2>1 DEF HalfWay
  <2>3. Told(h)'
    BY <1>6, <2>1, <2>2 DEF Told, Filled, Request
  <2>4. ~ Has(r, h)'
    BY <1>6, <2>1 DEF Has, Hand, Busy, Buying, Writing, Dropping
  <2> QED
    BY <1>4, <1>5, <1>6, <2>1, <2>3, <2>4, HandAgreed
<1>11. CASE LookUpCancelled(r)
  <2>1. run[r].at = "cancel" /\ UNCHANGED <<executions, request>>
    BY <1>11 DEF LookUpCancelled, ledgers
  <2>2. Request(h, "JUDGED")
    BY <1>5, <2>1 DEF HalfWay
  <2>3. run'[r].at = "cancelRequest"
    BY <1>1, <1>3, <1>11, <2>2 DEF LookUpCancelled, RunRow, Request
  <2>4. HalfWay(r, h)' /\ Has(r, h)'
    BY <1>5, <1>6, <2>1, <2>3 DEF HalfWay, Has, Hand, Busy, Dropping, Unentered, Request
  <2> QED
    BY <1>4, <1>5, <1>6, <2>1, <2>4, HandAgreed
<1>12. CASE CancelRequest(r)
  <2>1. run[r].at = "cancelRequest" /\ UNCHANGED executions /\ run'[r].at = "cancelBook"
    BY <1>1, <1>12 DEF CancelRequest, RunRow
  <2>2. trade[h].status = "CANCELLED" /\ Unentered(h) /\ Request(h, "JUDGED")
    BY <1>5, <2>1 DEF HalfWay
  <2>3. request[trade[h].signal] \in RequestRow
    BY <1>1, <1>4, <2>2 DEF Request, NoRequest
  <2> DEFINE row == [request[trade[h].signal] EXCEPT !.status = "CANCELLED"]
  <2>4. row.trade = h /\ row.status = "CANCELLED"
    BY <2>2, <2>3 DEF RequestRow, Request
  <2>5. request' = [request EXCEPT ![trade[h].signal] = row]
    BY <1>1, <1>3, <1>4, <1>12 DEF CancelRequest
  <2> HIDE DEF row
  <2>6. Request(h, "CANCELLED")' /\ Unentered(h)'
    BY <1>1, <1>4, <1>6, <2>1, <2>2, <2>4, <2>5 DEF Request, Unentered
  <2>7. HalfWay(r, h)' /\ Has(r, h)'
    BY <1>6, <2>1, <2>2, <2>6 DEF HalfWay, Has, Hand, Busy, Dropping
  <2>8. \A u \in Trade : u # h /\ trade[u] # NoTrade =>
           \/ request'[trade[u].signal] = request[trade[u].signal]
           \/ request'[trade[u].signal].trade # u /\ trade[u].status # "PENDING"
    <3>1. request[trade[h].signal].trade = h
      BY <2>2 DEF Request
    <3> QED
      BY <1>4, <1>5, <2>4, <2>5, <3>1, OtherRequests
  <2> QED
    BY <1>4, <1>5, <1>6, <2>1, <2>7, <2>8, HandAgreed
<1>13. CASE CancelBook(r)
  <2>1. run[r].at = "cancelBook" /\ UNCHANGED <<executions, request>> /\ run'[r].at = run[r].back
    BY <1>1, <1>13 DEF CancelBook, RunRow
  <2>2. trade[h].status = "CANCELLED" /\ Unentered(h) /\ Request(h, "CANCELLED")
    BY <1>5, <2>1 DEF HalfWay
  <2>3. Told(h)'
    BY <1>6, <2>1, <2>2 DEF Told, Filled, Unentered, Request
  <2>4. ~ Has(r, h)'
    BY <1>6, <2>1 DEF Has, Hand, Busy, Buying, Writing, Dropping
  <2> QED
    BY <1>4, <1>5, <1>6, <2>1, <2>3, <2>4, HandAgreed
<1>14. CASE UpsertRequest(r)
  <2>1. run[r].at = "request" /\ UNCHANGED executions /\ run'[r].at = "place"
    BY <1>1, <1>14 DEF UpsertRequest, RunRow
  <2>2. trade[h].status = "PENDING" /\ Unentered(h)
    BY <1>5, <2>1 DEF HalfWay
  <2> DEFINE row == Judged(request[trade[h].signal], h)
  <2>3. row.trade = h /\ row.status = "JUDGED"
    BY <1>1, <1>4 DEF RequestRow, NoRequest, Judged
  <2>4. request' = [request EXCEPT ![trade[h].signal] = row]
    BY <1>3, <1>14 DEF UpsertRequest
  <2> HIDE DEF row
  <2>5. Request(h, "JUDGED")' /\ Unentered(h)'
    BY <1>1, <1>4, <1>6, <2>1, <2>2, <2>3, <2>4 DEF Request, Unentered
  <2>6. HalfWay(r, h)' /\ Has(r, h)'
    BY <1>6, <2>1, <2>2, <2>5 DEF HalfWay, Has, Hand
  <2>7. \A u \in Trade : u # h /\ trade[u].signal = trade[h].signal => trade[u].status # "PENDING"
    BY <1>4, <2>2 DEF OneClaim, Claimed, Pending, Stock
  <2>8. \A u \in Trade : u # h /\ trade[u] # NoTrade =>
           \/ request'[trade[u].signal] = request[trade[u].signal]
           \/ request'[trade[u].signal].trade # u /\ trade[u].status # "PENDING"
    BY <1>4, <1>5, <2>3, <2>4, <2>7, OtherRequests
  <2> QED
    BY <1>4, <1>5, <1>6, <2>1, <2>6, <2>8, HandAgreed
<1>15. CASE PlaceOrder(r)
  <2>1. run[r].at = "place" /\ UNCHANGED <<executions, request>> /\ run'[r].at = "reserve"
    BY <1>1, <1>6, <1>15 DEF PlaceOrder, RunRow
  <2>2. trade[h].status = "PENDING" /\ Unentered(h) /\ Request(h, "JUDGED")
    BY <1>5, <2>1 DEF HalfWay
  <2>3. Told(h)'
    BY <1>6, <2>1, <2>2 DEF Told, Filled, Unentered, Request
  <2>4. ~ Has(r, h)'
    BY <1>6, <2>1 DEF Has, Hand, Busy, Buying, Writing, Dropping
  <2> QED
    BY <1>4, <1>5, <1>6, <2>1, <2>3, <2>4, HandAgreed
<1> QED
  BY <1>7, <1>8, <1>9, <1>10, <1>11, <1>12, <1>13, <1>14, <1>15

LEMMA AgreedStep ==
  ASSUME ~ Overlap, Base, BookOK, Counted, Alone, failures = 0 => Agreed, [Next]_vars, failures' = 0
  PROVE  Agreed'
<1>0. failures \in Nat
  BY DEF Base, Rows, TypeOK
<1>1. ASSUME NEW r \in Runner, Start(r) \/ Step(r) PROVE Agreed'
  <2>1. Alone'
    BY AloneStep
  <2>2. \A q \in Runner \ {r} : run[q] = Idle /\ run'[q] = Idle
    <3>1. \A q \in Runner \ {r} : run'[q] = run[q]
      BY <1>1, OthersStay DEF Base
    <3>2. \A q \in Runner \ {r} : run[q] = Idle
      <4>1. CASE Start(r)
        BY <4>1 DEF Start, AllIdle
      <4>2. CASE Step(r)
        <5>1. run[r].at # "idle"
          BY <4>2 DEF Step, Expire, BeginFill, CancelHeld, CarryOver, CreatePosition, CancelRefused,
            RecordFilled, LookUp, Execute, Link, BookFill, LookUpCancelled, CancelRequest, CancelBook,
            EndFill, SellDeferred, EndDeferred, Evaluate, EndEvaluate, Screen, Rank, Reserve,
            UpsertRequest, PlaceOrder, EndReserve, Swallow
        <5> QED
          BY <5>1 DEF Alone, Turns, Idle
      <4> QED
        BY <1>1, <4>1, <4>2
    <3> QED
      BY <3>1, <3>2
  <2>3. ~ Swallow(r)
    BY <1>0 DEF Swallow
  <2>4. Agreed
    <3>1. failures' = failures
      BY <1>1, <2>3 DEF Step, Start, Expire, BeginFill, CancelHeld, CarryOver, CreatePosition, CancelRefused,
        RecordFilled, LookUp, Execute, Link, BookFill, LookUpCancelled, CancelRequest, CancelBook, EndFill,
        SellDeferred, EndDeferred, Evaluate, EndEvaluate, Screen, Rank, Reserve, UpsertRequest, PlaceOrder,
        EndReserve
    <3> QED
      BY <3>1
  <2>5. OneClaim /\ Read(r)
    BY DEF Alone
  <2>6. CASE Expire(r) \/ CancelHeld(r)
    BY <2>2, <2>4, <2>5, <2>6, CancelsAgreed
  <2>7. CASE CreatePosition(r)
    BY <2>2, <2>4, <2>5, <2>7, EnterAgreed
  <2>8. CASE Reserve(r)
    BY <2>2, <2>4, <2>8, ReserveAgreed
  <2>9. CASE CancelRefused(r) \/ RecordFilled(r)
    BY <2>2, <2>4, <2>9, MarkedAgreed
  <2>10. CASE \/ LookUp(r) \/ Execute(r) \/ Link(r) \/ BookFill(r) \/ LookUpCancelled(r)
              \/ CancelRequest(r) \/ CancelBook(r) \/ UpsertRequest(r) \/ PlaceOrder(r)
    BY <2>2, <2>4, <2>5, <2>10, CallAgreed
  <2>11. CASE SellDeferred(r) \/ Evaluate(r)
    <3>1. UNCHANGED <<run, trade, executions, request>> /\ run[r].at \in {"exits", "evaluate"}
      BY <2>11 DEF SellDeferred, Evaluate
    <3>2. \A t \in Trade : position'[t] # "NONE" <=> position[t] # "NONE"
      BY <2>11 DEF SellDeferred, Evaluate, Open, Base, Rows, TypeOK
    <3>3. run[r].at \notin Hand /\ run'[r].at \notin Hand
      BY <3>1 DEF Hand, Busy, Buying, Writing, Dropping
    <3> QED
      BY <2>2, <2>4, <3>1, <3>2, <3>3, IdleAgreed
  <2>12. CASE \/ Start(r) \/ BeginFill(r) \/ CarryOver(r) \/ EndFill(r) \/ EndDeferred(r) \/ EndEvaluate(r)
              \/ Screen(r) \/ Rank(r) \/ EndReserve(r)
    <3>1. run[r].at \in {"idle", "due", "fill", "exits", "evaluate", "screen", "rank", "reserve"}
      BY <2>12 DEF Start, BeginFill, CarryOver, EndFill, EndDeferred, EndEvaluate, Screen, Rank,
        EndReserve, Idle
    <3>2. run'[r].at \in {"idle", "due", "fill", "exits", "evaluate", "screen", "rank", "reserve"}
      <4>1. run \in [Runner -> RunRow] /\ run[r] \in RunRow
        BY DEF Base, Rows
      <4>2. CASE Start(r)
        BY <4>1, <4>2 DEF Start, Idle
      <4>3. CASE EndEvaluate(r) \/ EndReserve(r)
        BY <4>1, <4>3 DEF EndEvaluate, EndReserve, Idle
      <4>4. CASE BeginFill(r) \/ CarryOver(r) \/ EndFill(r)
        BY <4>1, <4>4 DEF BeginFill, CarryOver, EndFill, Goto, RunRow
      <4>5. CASE EndDeferred(r) \/ Screen(r)
        BY <4>1, <4>5 DEF EndDeferred, Screen, Goto, RunRow
      <4>6. CASE Rank(r)
        <5>1. PICK picks : run' = [run EXCEPT ![r].at = "reserve", ![r].todo = picks]
          BY <4>6 DEF Rank
        <5> QED
          BY <4>1, <5>1 DEF RunRow
      <4> QED
        BY <2>12, <4>2, <4>3, <4>4, <4>5, <4>6
    <3>3. run[r].at \notin Hand /\ run'[r].at \notin Hand
      BY <3>1, <3>2 DEF Hand, Busy, Buying, Writing, Dropping
    <3>4. UNCHANGED <<trade, executions, request, position>>
      BY <2>12 DEF Start, BeginFill, CarryOver, EndFill, EndDeferred, EndEvaluate, Screen, Rank,
        EndReserve, ledgers
    <3> QED
      BY <2>2, <2>4, <3>3, <3>4, IdleAgreed
  <2> QED
    BY <1>1, <2>3, <2>6, <2>7, <2>8, <2>9, <2>10, <2>11, <2>12 DEF Step
<1>2. CASE Tick \/ UNCHANGED vars
  <2>1. UNCHANGED <<ledgers, run, failures>>
    BY <1>2 DEF Tick, vars
  <2>2. Agreed
    BY <2>1
  <2> QED
    BY <2>1, <2>2 DEF ledgers, Agreed, AgreedOn, Has, HalfWay, Told, Filled, Unentered, Request
<1>3. ~ CutOff
  BY <1>0 DEF CutOff
<1> QED
  BY <1>1, <1>2, <1>3 DEF Next

LEMMA AgreedInit ==
  ASSUME Init
  PROVE  Agreed
BY DEF Init, Agreed

(* What holds while the runners take turns.                                *)
InTurn == Base /\ BookOK /\ Counted /\ Alone /\ (failures = 0 => Agreed)

LEMMA InTurnInit ==
  ASSUME Init
  PROVE  InTurn
BY BaseInit, BookInit, CountedInit, AloneInit, AgreedInit DEF InTurn

LEMMA InTurnStep ==
  ASSUME ~ Overlap, InTurn, [Next]_vars
  PROVE  InTurn'
<1>1. Base' /\ BookOK' /\ Counted'
  BY BaseStep, BookMoves, BookKept, CountedStep DEF InTurn
<1>2. Alone' /\ (failures' = 0 => Agreed')
  BY AloneStep, AgreedStep DEF InTurn
<1> QED
  BY <1>1, <1>2 DEF InTurn

(* While nothing overlaps or fails, paper trades, positions, executions    *)
(* and order requests tell the same story of every trade that no runner    *)
(* has in hand.                                                            *)
THEOREM AgreeUntilFailure == ~ Overlap => (Spec => []LedgersAgree)
<1> SUFFICES ASSUME ~ Overlap PROVE Spec => []LedgersAgree
  OBVIOUS
<1>1. Init => InTurn
  BY InTurnInit
<1>2. InTurn /\ [Next]_vars => InTurn'
  BY InTurnStep
<1>3. InTurn => LedgersAgree
  <2>1. InTurn /\ failures = 0 => LedgersAgree
    BY AgreedImplies DEF InTurn
  <2> QED
    BY <2>1 DEF LedgersAgree
<1> QED
  BY <1>1, <1>2, <1>3, PTL DEF Spec

LEMMA OrphansFromAgreed ==
  ASSUME Base, Agreed, AllIdle
  PROVE  /\ LedgerFills \subseteq PaperFills
         /\ \A t \in PaperFills \ LedgerFills : request[trade[t].signal].trade # t
<1>1. \A t \in Trade : trade[t] # NoTrade => Told(t)
  BY DEF Agreed, AgreedOn, AllIdle, Has, Hand, Idle, Busy, Buying, Writing, Dropping
<1>2. ASSUME NEW s \in Signal, request[s].status = "EXECUTED", trade[request[s].execution].filledOn = day
      PROVE  request[s].trade \in PaperFills
  <2>1. PICK t \in Trade : t = request[s].trade
    BY <1>2 DEF Base, Rows, TypeOK, NoRequest, RequestRow
  <2>2. trade[t] # NoTrade /\ trade[t].signal = s /\ request[s].execution = t
    BY <1>2, <2>1 DEF Base, Rows, TypeOK, Linked, NoRequest
  <2>3. trade[t].status \in {"PENDING", "FILLED", "PARTIAL", "CANCELLED"}
    BY <2>2 DEF Base, Rows, TypeOK, TradeRow
  <2>4. Filled(t)
    BY <1>1, <1>2, <2>1, <2>2, <2>3 DEF Told, Filled
  <2> QED
    BY <1>2, <2>1, <2>2, <2>4 DEF PaperFills
<1>3. LedgerFills \subseteq PaperFills
  BY <1>2 DEF LedgerFills
<1>4. ASSUME NEW t \in PaperFills, request[trade[t].signal].trade = t
      PROVE  t \in LedgerFills
  <2>1. t \in Trade /\ Filled(t) /\ trade[t].filledOn = day
    BY DEF PaperFills
  <2>2. trade[t] # NoTrade
    BY <2>1 DEF Filled, NoTrade
  <2>3. trade[t].signal \in Signal
    BY <2>1, <2>2 DEF Base, Rows, TypeOK, TradeRow
  <2>4. request[trade[t].signal].status = "EXECUTED"
    BY <1>1, <1>4, <2>1, <2>2 DEF Told
  <2>5. request[trade[t].signal].execution = t /\ t # 0
    BY <1>4, <2>1, <2>3, <2>4 DEF Base, Rows, Linked, Trade
  <2> QED
    BY <1>4, <2>1, <2>3, <2>4, <2>5 DEF LedgerFills
<1> QED
  BY <1>3, <1>4

(* While nothing overlaps or fails, the daily comparison reports only a    *)
(* fill whose signal has been reserved again since.                        *)
THEOREM OrphansOnlyExplained == ~ Overlap => (Spec => []OrphansExplained)
<1> SUFFICES ASSUME ~ Overlap PROVE Spec => []OrphansExplained
  OBVIOUS
<1>1. Init => InTurn
  BY InTurnInit
<1>2. InTurn /\ [Next]_vars => InTurn'
  BY InTurnStep
<1>3. InTurn => OrphansExplained
  <2>1. InTurn /\ failures = 0 /\ AllIdle => OrphansExplained
    BY OrphansFromAgreed DEF InTurn, OrphansExplained
  <2> QED
    BY <2>1 DEF OrphansExplained
<1> QED
  BY <1>1, <1>2, <1>3, PTL DEF Spec

=============================================================================
