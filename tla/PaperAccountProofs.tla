-------------------------- MODULE PaperAccountProofs --------------------------
(***************************************************************************)
(* Proofs about PaperAccount, for any number of positions, any capital,    *)
(* prices, shares, resets and failures.                                    *)
(*                                                                         *)
(* Tables, Claim, Kept and Covered hold whatever runs mix and are cut      *)
(* off.  Fresh says that as long as no two runs mix, what a runner has     *)
(* read is still what the rows say; Books says what a sale under way has   *)
(* moved already and what it has yet to move.  The cash is a sum over all  *)
(* positions: the first lemmas are about such sums, by induction on the    *)
(* size of a set.                                                          *)
(***************************************************************************)
EXTENDS PaperAccount, TLAPS, FiniteSetTheorems, NaturalsInduction, WellFoundedInduction

ReadRows == UNION {[es -> ReadRow] : es \in SUBSET Entry}
Types == TypeOK /\ run \in [Runner -> RunState(ReadRows)]

Alive(e) == pos[e].status \in {"OPEN", "CLOSED"}
InHand == {"sell", "close", "split", "shrink"}

(* Nothing is recorded for what was never entered; rows that were read, or *)
(* are in hand, are of positions that were.                                *)
Tables ==
  \A e \in Entry :
    /\ pos[e].status = "NONE" => pos[e] = NoRow /\ part[e] = Nothing /\ bought[e] = 0 /\ sold[e] = 0
    /\ pos[e].status = "GONE" => pos[e] = Gone
Claim(r) ==
  /\ run[r].at \in {"idle", "fill"} => DOMAIN run[r].rows = {}
  /\ \A e \in DOMAIN run[r].rows : pos[e].status # "NONE" /\ run[r].rows[e].qty > 0
  /\ run[r].at \in Selling =>
       pos[run[r].of].status # "NONE" /\ Row(r).qty > 0 /\ run[r].of \notin DOMAIN run[r].rows
Base == Types /\ Tables /\ \A r \in Runner : Claim(r)

(* Whatever runner writes a remainder back, no share is lost by it.        *)
Keeps(r) ==
  /\ \A e \in DOMAIN run[r].rows : Alive(e) => run[r].rows[e].qty + part[e].qty >= bought[e]
  /\ run[r].at \in {"sell", "split"} /\ Alive(run[r].of) =>
       Row(r).qty + part[run[r].of].qty >= bought[run[r].of]
  /\ run[r].at = "shrink" /\ Alive(run[r].of) =>
       Row(r).qty - Shares(r) + part[run[r].of].qty >= bought[run[r].of]
Kept ==
  /\ \A e \in Entry : Alive(e) => pos[e].qty + part[e].qty >= bought[e]
  /\ \A r \in Runner : Keeps(r)

(* As long as no two runs mix, one runner is at work and what it has read  *)
(* is what the rows say.                                                   *)
Current(e, row) == pos[e].status = "OPEN" /\ row.cost = pos[e].cost /\ row.qty = pos[e].qty
Still(r) ==
  /\ \A e \in DOMAIN run[r].rows : Current(e, run[r].rows[e])
  /\ run[r].at \in InHand => Current(run[r].of, Row(r))
OneAtWork == \A r, q \in Runner : run[r].at # "idle" /\ run[q].at # "idle" => r = q
Fresh == mixes = 0 => OneAtWork /\ \A r \in Runner : Still(r)

(* While r is the only one at work, the tables tell the same story but for *)
(* what the sale in its hands has moved already.                           *)
Sole(r) == \A q \in Runner : q # r => run[q].at = "idle"
InSale(r, e) == run[r].at \in {"close", "split"} /\ run[r].of = e
Splits(r, e) == run[r].at = "shrink" /\ run[r].of = e
Exact(r) ==
  \A e \in Entry :
    /\ Alive(e) /\ ~ Splits(r, e) => pos[e].qty + part[e].qty = bought[e]
    /\ Splits(r, e) => pos[e].qty + part[e].qty = bought[e] + Shares(r)
    /\ ~ InSale(r, e) => sold[e] = ClosedShares(e)
    /\ InSale(r, e) => sold[e] = part[e].qty + Shares(r)
Solvent(r) == Cash + (IF run[r].at = "shrink" THEN Row(r).cost * Shares(r) ELSE 0) >= 0
Sound(r) ==
  /\ \A e \in Entry :
       /\ sold[e] >= ClosedShares(e)
       /\ InSale(r, e) => sold[e] >= part[e].qty + Shares(r)
       /\ pos[e].status \in {"NONE", "GONE"} => part[e] = Nothing
  /\ run[r].at = "fill" => run[r].cash <= Cash
  /\ cuts = 0 => Exact(r) /\ Solvent(r)
Books == mixes = 0 => \A r \in Runner : Sole(r) => Sound(r)

(* Whatever runs mix, what is sold and not closed yet is in the hands of a *)
(* runner.                                                                 *)
Owed(r, e) == IF run[r].at = "split" /\ run[r].of = e THEN Shares(r) ELSE 0
Closes(e) == pos[e].status = "CLOSED" \/ \E r \in Runner : run[r].at = "close" /\ run[r].of = e
Covered ==
  \A e \in Entry : pos[e].status # "GONE" =>
    sold[e] >= part[e].qty + Owed("daily", e) + Owed("intraday", e) + IF Closes(e) THEN 1 ELSE 0

Inv == Base /\ Kept /\ Fresh /\ Books /\ Covered

-----------------------------------------------------------------------------
(* Sums over a finite set. *)

(* A set of numbers has a least element. *)
LEMMA LeastNat ==
  ASSUME NEW S, S \subseteq Nat, S # {}
  PROVE  \E x \in S : \A y \in S : x <= y
<1> DEFINE R == OpToRel(<, Nat)
<1>1. IsWellFoundedOn(R, Nat)
  BY NatLessThanWellFounded
<1>2. \A x, y \in Nat : y < x => <<y, x>> \in R
  BY DEF OpToRel
<1> HIDE DEF R
<1>3. PICK x \in S : \A y \in S : ~ (<<y, x>> \in R)
  BY <1>1, WFMin
<1>4. \A y \in S : ~ (y < x)
  BY <1>2, <1>3
<1> QED
  BY <1>3, <1>4

Pick(s) == CHOOSE x \in s : TRUE
Term(h, g, s) == IF s = {} THEN 0 ELSE g[Pick(s)] + h[s \ {Pick(s)}]
Small(S, n) == {s \in SUBSET S : Cardinality(s) <= n}
SumsUpTo(h, g, S, n) == h = [s \in Small(S, n) |-> Term(h, g, s)]

(* The element that the sum takes next is one of the set. *)
LEMMA PickIn == \A s : s # {} => Pick(s) \in s
  BY DEF Pick

(* Subsets of a finite set, and what is left of one without the element picked. *)
LEMMA SmallFinite ==
  ASSUME NEW S, IsFiniteSet(S), NEW s \in SUBSET S
  PROVE  /\ IsFiniteSet(s) /\ Cardinality(s) \in Nat
         /\ Cardinality(s) = 0 <=> s = {}
         /\ s # {} => /\ s \ {Pick(s)} \in SUBSET S
                      /\ Cardinality(s \ {Pick(s)}) = Cardinality(s) - 1
  BY FS_Subset, FS_CardinalityType, FS_EmptySet, FS_RemoveElement, PickIn

(* The recursion of the sum has a solution for all subsets up to a size. *)
LEMMA SumsExist ==
  ASSUME NEW S, IsFiniteSet(S), NEW g, NEW n \in Nat
  PROVE  \E h : SumsUpTo(h, g, S, n)
<1> DEFINE Bad == {k \in Nat : ~ \E h : SumsUpTo(h, g, S, k)}
<1> SUFFICES ASSUME Bad # {} PROVE FALSE
  OBVIOUS
<1>1. PICK m \in Bad : \A k \in Bad : m <= k
  BY LeastNat
<1>2. CASE m = 0
  <2> DEFINE h == [s \in Small(S, 0) |-> 0]
  <2>1. ASSUME NEW s \in Small(S, 0) PROVE s = {}
    <3>1. s \in SUBSET S /\ Cardinality(s) <= 0
      BY DEF Small
    <3>2. Cardinality(s) \in Nat /\ (Cardinality(s) = 0 => s = {})
      BY <3>1, SmallFinite
    <3> QED
      BY <3>1, <3>2
  <2>2. \A s \in Small(S, 0) : Term(h, g, s) = 0
    BY <2>1 DEF Term
  <2>3. SumsUpTo(h, g, S, 0)
    BY <2>2 DEF SumsUpTo
  <2> QED
    BY <1>1, <1>2, <2>3
<1>3. CASE m # 0
  <2>1. m - 1 \in Nat /\ m - 1 \notin Bad
    BY <1>1, <1>3
  <2>2. PICK h : SumsUpTo(h, g, S, m - 1)
    BY <2>1
  <2> DEFINE f == [s \in Small(S, m) |-> Term(h, g, s)]
  <2>3. ASSUME NEW s \in Small(S, m)
        PROVE  Term(h, g, s) = Term(f, g, s)
    <3>1. CASE s = {}
      BY <3>1 DEF Term
    <3>2. CASE s # {}
      <4> DEFINE t == s \ {Pick(s)}
      <4>0. Cardinality(s) <= m /\ s \in SUBSET S
        BY DEF Small
      <4>1. t \in SUBSET S /\ Cardinality(t) = Cardinality(s) - 1 /\ Cardinality(s) \in Nat
        BY <4>0, <3>2, SmallFinite
      <4>2. t \in Small(S, m - 1) /\ t \in Small(S, m)
        BY <4>0, <4>1, <2>1 DEF Small
      <4>3. h[t] = Term(h, g, t)
        BY <4>2, <2>2 DEF SumsUpTo
      <4>4. f[t] = Term(h, g, t)
        BY <4>2
      <4> QED
        BY <4>3, <4>4, <3>2 DEF Term
    <3> QED
      BY <3>1, <3>2
  <2>4. f = [s \in Small(S, m) |-> Term(f, g, s)]
    BY <2>3
  <2>5. SumsUpTo(f, g, S, m)
    BY <2>4 DEF SumsUpTo
  <2> QED
    BY <1>1, <2>5
<1> QED
  BY <1>2, <1>3

(* The sum of the library solves its recursion. *)
LEMMA SumRecursion ==
  ASSUME NEW S, IsFiniteSet(S), NEW g
  PROVE  \E h : h = [s \in SUBSET S |-> Term(h, g, s)] /\ SumFunctionOnSet(g, S) = h[S]
<1> DEFINE IsSum(h) == h = [s \in SUBSET S |-> Term(h, g, s)]
<1>1. SumFunctionOnSet(g, S) = (CHOOSE h : IsSum(h))[S]
  BY Zenon DEF SumFunctionOnSet, FoldFunctionOnSet, MapThenFoldSet, Term, Pick
<1>2. Cardinality(S) \in Nat /\ SUBSET S = Small(S, Cardinality(S))
  BY FS_CardinalityType, FS_Subset DEF Small
<1>3. \E h : IsSum(h)
  <2>1. PICK h : SumsUpTo(h, g, S, Cardinality(S))
    BY <1>2, SumsExist
  <2> QED
    BY <2>1, <1>2 DEF SumsUpTo
<1>4. IsSum(CHOOSE h : IsSum(h))
  BY <1>3
<1> QED
  BY <1>1, <1>4

(* A property of the empty set that a set inherits from itself without the
   element picked holds for every subset of a finite set. *)
LEMMA Induct ==
  ASSUME NEW S, IsFiniteSet(S), NEW Bad, Bad \subseteq SUBSET S,
         {} \notin Bad,
         \A s \in Bad : s \ {Pick(s)} \in Bad
  PROVE  Bad = {}
<1> SUFFICES ASSUME Bad # {} PROVE FALSE
  OBVIOUS
<1> DEFINE Sizes == {Cardinality(s) : s \in Bad}
<1>1. \A s \in Bad : Cardinality(s) \in Nat
  BY SmallFinite
<1>2. Sizes \subseteq Nat /\ Sizes # {}
  BY <1>1
<1>3. PICK m \in Sizes : \A k \in Sizes : m <= k
  BY <1>2, LeastNat
<1>4. PICK s \in Bad : m = Cardinality(s)
  BY <1>3
<1>5. Cardinality(s \ {Pick(s)}) = Cardinality(s) - 1
  BY <1>4, SmallFinite
<1>6. Cardinality(s) - 1 \in Sizes
  BY <1>4, <1>5
<1>7. m \in Nat /\ m - 1 \in Sizes
  BY <1>1, <1>4, <1>6
<1> HIDE DEF Sizes
<1> QED
  BY <1>3, <1>7

(* A sum of integers is an integer. *)
LEMMA SumIsInt ==
  ASSUME NEW S, IsFiniteSet(S), NEW g \in [S -> Int]
  PROVE  SumFunctionOnSet(g, S) \in Int
<1>1. PICK h : h = [s \in SUBSET S |-> Term(h, g, s)] /\ SumFunctionOnSet(g, S) = h[S]
  BY SumRecursion
<1> DEFINE Bad == {s \in SUBSET S : h[s] \notin Int}
<1>2. \A s \in SUBSET S : h[s] = Term(h, g, s)
  BY <1>1
<1>3. {} \notin Bad
  <2>1. h[{}] = Term(h, g, {})
    BY <1>2
  <2> QED
    BY <2>1 DEF Term
<1>4. ASSUME NEW s \in Bad PROVE s \ {Pick(s)} \in Bad
  <2>1. s # {} /\ s \in SUBSET S /\ Pick(s) \in S
    BY <1>3, PickIn
  <2>2. h[s] = g[Pick(s)] + h[s \ {Pick(s)}]
    BY <1>2, <2>1 DEF Term
  <2>3. g[Pick(s)] \in Int
    BY <2>1
  <2> QED
    BY <2>1, <2>2, <2>3
<1> HIDE DEF Bad
<1>5. Bad = {}
  BY <1>3, <1>4, Induct DEF Bad
<1> QED
  BY <1>1, <1>5 DEF Bad

(* A sum of zeros is zero. *)
LEMMA SumOfZeros ==
  ASSUME NEW S, IsFiniteSet(S), NEW g, \A x \in S : g[x] = 0
  PROVE  SumFunctionOnSet(g, S) = 0
<1>1. PICK h : h = [s \in SUBSET S |-> Term(h, g, s)] /\ SumFunctionOnSet(g, S) = h[S]
  BY SumRecursion
<1> DEFINE Bad == {s \in SUBSET S : h[s] # 0}
<1>2. \A s \in SUBSET S : h[s] = Term(h, g, s)
  BY <1>1
<1>3. {} \notin Bad
  BY <1>2 DEF Term
<1>4. ASSUME NEW s \in Bad PROVE s \ {Pick(s)} \in Bad
  <2>1. s # {} /\ s \in SUBSET S /\ Pick(s) \in S
    BY <1>3, PickIn
  <2>2. h[s] = g[Pick(s)] + h[s \ {Pick(s)}]
    BY <1>2, <2>1 DEF Term
  <2> QED
    BY <2>1, <2>2
<1> HIDE DEF Bad
<1>5. Bad = {}
  BY <1>3, <1>4, Induct DEF Bad
<1> QED
  BY <1>1, <1>5 DEF Bad

(* A sum changes by what one of its terms changes. *)
LEMMA SumChanges ==
  ASSUME NEW S, IsFiniteSet(S), NEW g \in [S -> Int], NEW g2 \in [S -> Int],
         NEW x \in S, \A y \in S \ {x} : g2[y] = g[y]
  PROVE  SumFunctionOnSet(g2, S) = SumFunctionOnSet(g, S) + g2[x] - g[x]
<1>1. PICK h : h = [s \in SUBSET S |-> Term(h, g, s)] /\ SumFunctionOnSet(g, S) = h[S]
  BY SumRecursion
<1>2. PICK k : k = [s \in SUBSET S |-> Term(k, g2, s)] /\ SumFunctionOnSet(g2, S) = k[S]
  BY SumRecursion
<1>3. \A s \in SUBSET S : h[s] = Term(h, g, s)
  BY <1>1
<1>4. \A s \in SUBSET S : k[s] = Term(k, g2, s)
  BY <1>2
<1> DEFINE Good(s) == /\ h[s] \in Int
                      /\ x \in s => k[s] = h[s] + g2[x] - g[x]
                      /\ x \notin s => k[s] = h[s]
           Bad == {s \in SUBSET S : ~ Good(s)}
<1>5. {} \notin Bad
  <2>1. h[{}] = Term(h, g, {}) /\ k[{}] = Term(k, g2, {})
    BY <1>3, <1>4
  <2>2. h[{}] = 0 /\ k[{}] = 0
    BY <2>1 DEF Term
  <2> QED
    BY <2>2
<1>6. ASSUME NEW s \in Bad PROVE s \ {Pick(s)} \in Bad
  <2> DEFINE y == Pick(s)
             t == s \ {y}
  <2>1. s # {} /\ s \in SUBSET S /\ y \in S /\ y \in s /\ t \in SUBSET S
    BY <1>5, PickIn
  <2>2. h[s] = g[y] + h[t] /\ k[s] = g2[y] + k[t]
    BY <1>3, <1>4, <2>1 DEF Term
  <2>3. g[y] \in Int /\ g2[y] \in Int /\ g[x] \in Int /\ g2[x] \in Int
    BY <2>1
  <2>4. y # x => g2[y] = g[y]
    BY <2>1
  <2>5. x \in t <=> x \in s /\ x # y
    OBVIOUS
  <2> HIDE DEF y, t
  <2>6. Good(t) => Good(s)
    BY <2>1, <2>2, <2>3, <2>4, <2>5
  <2>7. t \in Bad
    BY <2>1, <2>6
  <2> QED
    BY <2>7 DEF y, t
<1> HIDE DEF Bad
<1>7. Bad = {}
  BY <1>5, <1>6, Induct DEF Bad
<1>8. Good(S)
  BY <1>7 DEF Bad
<1> QED
  BY <1>1, <1>2, <1>8

-----------------------------------------------------------------------------
(* Types. *)

(* The type of the runners, in the two forms that are used. *)
LEMMA RunsClauses ==
  ASSUME NEW rn \in [Runner -> RunState(ReadRows)]
  PROVE  /\ rn = [r \in Runner |-> rn[r]]
         /\ \A r \in Runner :
              /\ rn[r] \in RunState({rn[r].rows})
              /\ DOMAIN rn[r].rows \subseteq Entry
              /\ rn[r].rows \in [DOMAIN rn[r].rows -> ReadRow]
<1>1. rn = [r \in Runner |-> rn[r]]
  OBVIOUS
<1>2. ASSUME NEW r \in Runner
      PROVE  /\ rn[r] \in RunState({rn[r].rows})
             /\ DOMAIN rn[r].rows \subseteq Entry
             /\ rn[r].rows \in [DOMAIN rn[r].rows -> ReadRow]
  <2>1. rn[r] \in RunState(ReadRows)
    OBVIOUS
  <2>2. rn[r] \in RunState({rn[r].rows}) /\ rn[r].rows \in ReadRows
    BY <2>1 DEF RunState
  <2>3. PICK es \in SUBSET Entry : rn[r].rows \in [es -> ReadRow]
    BY <2>2 DEF ReadRows
  <2> QED
    BY <2>2, <2>3
<1> QED
  BY <1>1, <1>2

(* The fields of a runner. *)
LEMMA RunFields ==
  ASSUME Types, NEW r \in Runner
  PROVE  /\ run[r] \in RunState(ReadRows) /\ run[r].rows \in ReadRows
         /\ run[r].of \in Entry \union {NoEntry} /\ run[r].row \in ReadRow
         /\ run[r].price \in Nat /\ run[r].cash \in Int
         /\ run[r].back \in {"idle", "exits", "judge"}
         /\ run[r].at \in {"idle", "fill", "exits", "value", "judge"} \union Selling
         /\ DOMAIN run[r].rows \subseteq Entry
         /\ run[r].rows \in [DOMAIN run[r].rows -> ReadRow]
         /\ HandOK(r)
  BY DEF Types, TypeOK, RunState

LEMMA IdleType ==
  /\ Unread \in ReadRow /\ NoRows \in ReadRows /\ DOMAIN NoRows = {}
  /\ Idle \in RunState(ReadRows)
  /\ Idle.rows = NoRows /\ Idle.at = "idle" /\ Idle.of = NoEntry /\ Idle.back = "idle"
<1>1. Unread \in ReadRow
  BY DEF Unread, ReadRow, Kind
<1>2. NoRows \in [{} -> ReadRow] /\ DOMAIN NoRows = {}
  BY DEF NoRows
<1>3. NoRows \in ReadRows
  BY <1>2 DEF ReadRows
<1>4. Idle \in RunState(ReadRows)
  BY <1>1, <1>3 DEF Idle, RunState
<1> QED
  BY <1>1, <1>2, <1>3, <1>4 DEF Idle

LEMMA WithoutType ==
  ASSUME NEW rows \in ReadRows, NEW e
  PROVE  /\ Without(rows, e) \in ReadRows
         /\ DOMAIN Without(rows, e) = DOMAIN rows \ {e}
         /\ \A f \in DOMAIN rows \ {e} : Without(rows, e)[f] = rows[f]
<1>1. PICK es \in SUBSET Entry : rows \in [es -> ReadRow]
  BY DEF ReadRows
<1>2. Without(rows, e) \in [es \ {e} -> ReadRow]
  BY <1>1 DEF Without
<1> QED
  BY <1>1, <1>2 DEF Without, ReadRows

LEMMA Half ==
  ASSUME NEW n \in Nat, n >= 2
  PROVE  n \div 2 \in Nat /\ n \div 2 >= 1 /\ n \div 2 < n
  OBVIOUS

(* The shares and the result of a sale. *)
LEMMA SharesType ==
  ASSUME Types, NEW r \in Runner
  PROVE  /\ Row(r) \in ReadRow /\ Row(r).qty \in Nat /\ Row(r).cost \in Nat
         /\ Shares(r) \in Nat /\ Result(r) \in Int
         /\ Result(r) = (run[r].price - Row(r).cost) * Shares(r)
         /\ ~ Partial(r) => Shares(r) = Row(r).qty
         /\ Partial(r) => Shares(r) >= 1 /\ Shares(r) < Row(r).qty
<1>1. Row(r) \in ReadRow /\ Row(r).qty \in Nat /\ Row(r).cost \in Nat /\ run[r].price \in Nat
  BY RunFields DEF Row, ReadRow
<1>2. /\ Shares(r) \in Nat
      /\ ~ Partial(r) => Shares(r) = Row(r).qty
      /\ Partial(r) => Shares(r) >= 1 /\ Shares(r) < Row(r).qty
  <2>1. CASE Partial(r)
    <3>1. Row(r).qty >= 2
      BY <2>1 DEF Partial
    <3> QED
      BY <1>1, <2>1, <3>1, Half DEF Shares
  <2>2. CASE ~ Partial(r)
    BY <1>1, <2>2 DEF Shares
  <2> QED
    BY <2>1, <2>2
<1>3. Result(r) \in Int /\ Result(r) = (run[r].price - Row(r).cost) * Shares(r)
  BY <1>1, <1>2 DEF Result
<1> QED
  BY <1>1, <1>2, <1>3

(* What a position adds to the cash. *)
Worth == [e \in Entry |-> Realised(e) - Invested(e)]

LEMMA CashIs ==
  /\ Cash = Capital + SumFunctionOnSet(Worth, Entry)
  /\ Cash' = Capital + SumFunctionOnSet(Worth', Entry)
  BY DEF Cash, Worth, SumFunction

LEMMA WorthType ==
  /\ TablesOK => Worth \in [Entry -> Int]
  /\ TablesOK' => Worth' \in [Entry -> Int]
<1>1. ASSUME TablesOK, NEW e \in Entry PROVE Realised(e) - Invested(e) \in Int
  <2>1. pos[e] \in PosRow /\ part[e] \in [qty : Nat, pnl : Int]
    BY <1>1 DEF TablesOK
  <2>2. pos[e].cost \in Nat /\ pos[e].qty \in Nat /\ pos[e].pnl \in Int /\ part[e].pnl \in Int
    BY <2>1 DEF PosRow
  <2>3. pos[e].cost * pos[e].qty \in Int
    BY <2>2
  <2> QED
    BY <2>2, <2>3 DEF Realised, Invested
<1>2. ASSUME TablesOK', NEW e \in Entry PROVE Realised(e)' - Invested(e)' \in Int
  <2>1. pos'[e] \in PosRow /\ part'[e] \in [qty : Nat, pnl : Int]
    BY <1>2 DEF TablesOK
  <2>2. pos'[e].cost \in Nat /\ pos'[e].qty \in Nat /\ pos'[e].pnl \in Int /\ part'[e].pnl \in Int
    BY <2>1 DEF PosRow
  <2>3. pos'[e].cost * pos'[e].qty \in Int
    BY <2>2
  <2> QED
    BY <2>2, <2>3 DEF Realised, Invested
<1> QED
  BY <1>1, <1>2 DEF Worth

LEMMA CashType ==
  ASSUME TablesOK PROVE Cash \in Int
  BY CashIs, WorthType, SumIsInt, ConstantsAssumption DEF ConstantsAssumption

-----------------------------------------------------------------------------
(* How a runner moves. *)

Others(r) == \A q \in Runner : q # r => run'[q] = run[q]

LEMMA Moves ==
  ASSUME Types, NEW r \in Runner, NEW to \in RunState(ReadRows), Becomes(r, to)
  PROVE  /\ run' \in [Runner -> RunState(ReadRows)]
         /\ run'[r] = to /\ Others(r)
  BY DEF Types, Becomes, Others

(* The types after a step of one runner. *)
LEMMA TypesNext ==
  ASSUME Types, NEW r \in Runner, run' \in [Runner -> RunState(ReadRows)], Others(r),
         HandOK(r)', TablesOK'
  PROVE  Types'
<1>1. \A q \in Runner : HandOK(q)'
  <2>1. ASSUME NEW q \in Runner, q # r PROVE HandOK(q)'
    BY <2>1, RunFields DEF Others, HandOK, Partial, Row
  <2> QED
    BY <2>1
<1>2. /\ run' = [q \in Runner |-> run'[q]]
      /\ \A q \in Runner :
           /\ run'[q] \in RunState({run'[q].rows})
           /\ DOMAIN run'[q].rows \subseteq Entry
           /\ run'[q].rows \in [DOMAIN run'[q].rows -> ReadRow]
  BY RunsClauses
<1> QED
  BY <1>1, <1>2 DEF Types, TypeOK

(* Between two sales a runner has no position in hand. *)
LEMMA FreeHand ==
  ASSUME Types, NEW r \in Runner, run[r].at \notin Selling
  PROVE  run[r].of = NoEntry /\ run[r].back = "idle"
  BY RunFields DEF HandOK

LEMMA HandFree ==
  ASSUME NEW r \in Runner, run'[r].at \in {"idle", "fill", "exits", "value", "judge"},
         run'[r].of = NoEntry, run'[r].back = "idle"
  PROVE  HandOK(r)'
  BY ConstantsAssumption DEF HandOK, Selling, ConstantsAssumption

LEMMA GoesIdle ==
  ASSUME Types, NEW r \in Runner, Becomes(r, Idle)
  PROVE  /\ run' \in [Runner -> RunState(ReadRows)] /\ Others(r) /\ run'[r] = Idle
         /\ run'[r].at = "idle" /\ DOMAIN run'[r].rows = {}
         /\ HandOK(r)'
<1>1. /\ run' \in [Runner -> RunState(ReadRows)] /\ Others(r) /\ run'[r] = Idle
  BY IdleType, Moves
<1> QED
  BY <1>1, IdleType, HandFree

(* A stage begins with the rows as they are. *)
LEMMA ReadsRows ==
  ASSUME Types, NEW r \in Runner, NEW at \in {"exits", "value", "judge"},
         NEW es \in SUBSET Entry, Reads(r, at, es)
  PROVE  /\ run' \in [Runner -> RunState(ReadRows)] /\ Others(r)
         /\ run'[r].at = at /\ DOMAIN run'[r].rows = es
         /\ \A e \in es : run'[r].rows[e].cost = pos[e].cost /\ run'[r].rows[e].qty = pos[e].qty
         /\ HandOK(r)'
<1> DEFINE rows == [e \in es |-> [cost |-> pos[e].cost, qty |-> pos[e].qty,
                                  kind |-> IF at = "exits" THEN mark[e] ELSE "HOLD"]]
           to == [Idle EXCEPT !.at = at, !.rows = rows]
<1>1. \A e \in es : rows[e] \in ReadRow
  BY DEF Types, TypeOK, TablesOK, PosRow, ReadRow, Kind
<1>2. /\ rows \in [es -> ReadRow]
      /\ \A e \in es : rows[e].cost = pos[e].cost /\ rows[e].qty = pos[e].qty
  BY <1>1
<1>3. rows \in ReadRows /\ DOMAIN rows = es
  BY <1>2 DEF ReadRows
<1>4. Becomes(r, to)
  BY DEF Reads
<1> HIDE DEF rows
<1>5. /\ to \in RunState(ReadRows)
      /\ to.at = at /\ to.rows = rows /\ to.of = NoEntry /\ to.back = "idle"
  BY <1>3, IdleType DEF RunState
<1>6. run' \in [Runner -> RunState(ReadRows)] /\ Others(r) /\ run'[r] = to
  BY <1>4, <1>5, Moves
<1> QED
  BY <1>2, <1>3, <1>5, <1>6, HandFree

(* A row is passed over. *)
LEMMA PassesRow ==
  ASSUME Types, NEW r \in Runner, run[r].at \notin Selling, NEW e, Passes(r, e)
  PROVE  /\ run' \in [Runner -> RunState(ReadRows)] /\ Others(r)
         /\ run'[r].at = run[r].at /\ run'[r].rows = Without(run[r].rows, e)
         /\ run'[r].cash = run[r].cash
         /\ HandOK(r)'
<1> DEFINE to == [run[r] EXCEPT !.rows = Without(run[r].rows, e)]
<1>1. run[r] \in RunState(ReadRows) /\ Without(run[r].rows, e) \in ReadRows
  BY RunFields, WithoutType
<1>2. /\ to \in RunState(ReadRows)
      /\ to.at = run[r].at /\ to.rows = Without(run[r].rows, e)
      /\ to.of = run[r].of /\ to.back = run[r].back /\ to.cash = run[r].cash
  BY <1>1 DEF RunState
<1>3. run' \in [Runner -> RunState(ReadRows)] /\ Others(r) /\ run'[r] = to
  BY <1>2, Moves DEF Passes
<1>4. run[r].of = NoEntry /\ run[r].back = "idle"
  BY FreeHand
<1> HIDE DEF to
<1> QED
  BY <1>2, <1>3, <1>4, HandFree, RunFields

(* A row is taken in hand to be sold. *)
LEMMA SellsRow ==
  ASSUME Types, NEW r \in Runner, run[r].at \in {"exits", "judge"},
         NEW e \in DOMAIN run[r].rows, NEW k \in Kind, NEW p \in Price, Sells(r, e, k, p)
  PROVE  /\ run' \in [Runner -> RunState(ReadRows)] /\ Others(r)
         /\ run'[r].at = "sell" /\ run'[r].of = e /\ e \in Entry
         /\ run'[r].row.cost = run[r].rows[e].cost /\ run'[r].row.qty = run[r].rows[e].qty
         /\ run'[r].rows = Without(run[r].rows, e)
         /\ HandOK(r)'
<1> DEFINE row == [run[r].rows[e] EXCEPT !.kind = k]
           to == [run[r] EXCEPT !.at = "sell", !.of = e, !.price = p, !.back = run[r].at,
                                !.row = row, !.rows = Without(run[r].rows, e)]
<1>1. run[r] \in RunState(ReadRows) /\ Without(run[r].rows, e) \in ReadRows
  BY RunFields, WithoutType
<1>2. e \in Entry /\ run[r].rows[e] \in ReadRow /\ p \in Nat
  BY RunFields, ConstantsAssumption DEF ConstantsAssumption
<1>3. row \in ReadRow /\ row.cost = run[r].rows[e].cost /\ row.qty = run[r].rows[e].qty
  BY <1>2 DEF ReadRow
<1>4. Becomes(r, to)
  BY DEF Sells
<1> HIDE DEF row
<1>5. /\ to \in RunState(ReadRows)
      /\ to.at = "sell" /\ to.of = e /\ to.back = run[r].at /\ to.row = row
      /\ to.rows = Without(run[r].rows, e)
  BY <1>1, <1>2, <1>3 DEF RunState, Selling
<1>6. run' \in [Runner -> RunState(ReadRows)] /\ Others(r) /\ run'[r] = to
  BY <1>4, <1>5, Moves
<1> HIDE DEF to
<1>7. HandOK(r)'
  BY <1>2, <1>5, <1>6 DEF HandOK, Selling
<1> QED
  BY <1>2, <1>3, <1>5, <1>6, <1>7

(* A sale goes on. *)
LEMMA GoesOn ==
  ASSUME Types, NEW r \in Runner, run[r].at \in Selling, NEW at \in Selling, Goes(r, at)
  PROVE  /\ run' \in [Runner -> RunState(ReadRows)] /\ Others(r)
         /\ run'[r].at = at /\ run'[r].of = run[r].of /\ run'[r].of \in Entry
         /\ run'[r].row = run[r].row /\ run'[r].price = run[r].price
         /\ run'[r].rows = run[r].rows /\ run'[r].back = run[r].back
         /\ Row(r)' = Row(r) /\ Shares(r)' = Shares(r) /\ (Partial(r)' <=> Partial(r))
         /\ (at \in {"split", "shrink"} => Partial(r)) /\ (at = "close" => ~ Partial(r))
              => HandOK(r)'
<1> DEFINE to == [run[r] EXCEPT !.at = at]
<1>1. run[r] \in RunState(ReadRows)
  BY RunFields
<1>2. /\ to \in RunState(ReadRows)
      /\ to.at = at /\ to.of = run[r].of /\ to.back = run[r].back /\ to.row = run[r].row
      /\ to.rows = run[r].rows /\ to.price = run[r].price
  BY <1>1 DEF RunState
<1>3. run' \in [Runner -> RunState(ReadRows)] /\ Others(r) /\ run'[r] = to
  BY <1>2, Moves DEF Goes
<1> HIDE DEF to
<1>4. Row(r)' = Row(r)
  BY <1>2, <1>3 DEF Row
<1>5. Shares(r)' = Shares(r) /\ (Partial(r)' <=> Partial(r))
  BY <1>4 DEF Shares, Partial
<1>6. run[r].of \in Entry /\ run[r].back # "idle"
  BY RunFields DEF HandOK
<1>7. (at \in {"split", "shrink"} => Partial(r)) /\ (at = "close" => ~ Partial(r)) => HandOK(r)'
  BY <1>2, <1>3, <1>5, <1>6 DEF HandOK
<1> QED
  BY <1>2, <1>3, <1>4, <1>5, <1>6, <1>7

(* A sale is done: the runner goes back to its stage. *)
LEMMA GoesBack ==
  ASSUME Types, NEW r \in Runner, run[r].at \in Selling, Becomes(r, Done(r))
  PROVE  /\ run' \in [Runner -> RunState(ReadRows)] /\ Others(r)
         /\ run'[r].at = run[r].back /\ run'[r].at \in {"exits", "judge"}
         /\ run'[r].rows = run[r].rows
         /\ HandOK(r)'
<1>1. run[r] \in RunState(ReadRows) /\ run[r].back \in {"exits", "judge"}
  BY RunFields DEF HandOK
<1>2. /\ Done(r) \in RunState(ReadRows)
      /\ Done(r).at = run[r].back /\ Done(r).of = NoEntry /\ Done(r).back = "idle"
      /\ Done(r).rows = run[r].rows
  BY <1>1, IdleType DEF RunState, Done
<1>3. run' \in [Runner -> RunState(ReadRows)] /\ Others(r) /\ run'[r] = Done(r)
  BY <1>2, Moves
<1> QED
  BY <1>1, <1>2, <1>3, HandFree

(* The sale is in the rows: its judgment is used up, or the next row is    *)
(* taken.                                                                  *)
LEMMA IsBooked ==
  ASSUME Types, NEW r \in Runner, run[r].at \in Selling, Booked(r)
  PROVE  /\ run' \in [Runner -> RunState(ReadRows)] /\ Others(r)
         /\ run'[r].at \in {"use", "exits", "judge"} /\ run'[r].rows = run[r].rows
         /\ run'[r].at = "use" => run'[r].of = run[r].of /\ run'[r].row = run[r].row
         /\ HandOK(r)'
<1>1. CASE run[r].back = "exits"
  <2>1. Goes(r, "use") /\ "use" \in Selling
    BY <1>1 DEF Booked, Selling
  <2> QED
    BY <2>1, GoesOn
<1>2. CASE run[r].back # "exits"
  <2>1. Becomes(r, Done(r))
    BY <1>2 DEF Booked
  <2> QED
    BY <2>1, GoesBack
<1> QED
  BY <1>1, <1>2

-----------------------------------------------------------------------------
(* Every step keeps the types. *)

LEMMA Counters ==
  ASSUME TablesOK
  PROVE  /\ mixes \in Nat /\ cuts \in Nat /\ MaxTrouble \in Nat
         /\ Mixes => /\ mixes' \in 0 .. MaxTrouble
                     /\ mixes' = 0 => mixes = 0 /\ ~ AtWork
         /\ Troubled /\ cuts' = cuts + 1 => cuts' \in 0 .. MaxTrouble /\ cuts' # 0
<1>1. mixes \in Nat /\ cuts \in Nat /\ MaxTrouble \in Nat
  BY ConstantsAssumption DEF TablesOK, ConstantsAssumption
<1>2. ASSUME Mixes
      PROVE  mixes' \in 0 .. MaxTrouble /\ (mixes' = 0 => mixes = 0 /\ ~ AtWork)
  BY <1>1, <1>2 DEF Mixes, Troubled, TablesOK
<1>3. ASSUME Troubled, cuts' = cuts + 1
      PROVE  cuts' \in 0 .. MaxTrouble /\ cuts' # 0
  BY <1>1, <1>3 DEF Troubled
<1> QED
  BY <1>1, <1>2, <1>3

LEMMA QuietTables ==
  ASSUME TablesOK, UNCHANGED <<pos, part, bought, sold, resets>>,
         mark' \in [Entry -> Kind], mixes' \in 0 .. MaxTrouble, cuts' \in 0 .. MaxTrouble
  PROVE  TablesOK'
  BY DEF TablesOK

LEMMA StartTypes ==
  ASSUME Types, NEW r \in Runner, Start(r)
  PROVE  /\ Types' /\ Others(r)
         /\ run'[r].at = "fill" /\ DOMAIN run'[r].rows = {} /\ run'[r].cash = Cash
<1> DEFINE to == [Idle EXCEPT !.at = "fill", !.cash = Cash]
<1>1. TablesOK
  BY DEF Types, TypeOK
<1>2. /\ to \in RunState(ReadRows)
      /\ to.at = "fill" /\ to.of = NoEntry /\ to.back = "idle" /\ to.rows = NoRows /\ to.cash = Cash
  BY <1>1, IdleType, CashType DEF RunState
<1>3. run' \in [Runner -> RunState(ReadRows)] /\ Others(r) /\ run'[r] = to
  BY <1>2, Moves DEF Start
<1>4. HandOK(r)'
  BY <1>2, <1>3, HandFree
<1>5. TablesOK'
  BY <1>1, Counters, QuietTables DEF Start, TablesOK
<1> QED
  BY <1>2, <1>3, <1>4, <1>5, TypesNext, IdleType

(* What an entry does. *)
FillsIn(r, e, p, n, c) ==
  /\ pos[e] = NoRow /\ p * n <= run[r].cash
  /\ pos' = [pos EXCEPT ![e] = [status |-> "OPEN", cost |-> p, qty |-> n, pnl |-> 0]]
  /\ bought' = [bought EXCEPT ![e] = n]
  /\ Becomes(r, [run[r] EXCEPT !.cash = Left(r, p, n, c)])

LEMMA FillTypes ==
  ASSUME Types, NEW r \in Runner, Fill(r),
         NEW e \in Entry, NEW p \in Price, NEW n \in Lots, NEW c \in Fee,
         FillsIn(r, e, p, n, c)
  PROVE  /\ Types' /\ Others(r)
         /\ p \in Nat /\ p > 0 /\ n \in Nat /\ n > 0 /\ c \in Nat
         /\ run'[r].at = "fill" /\ run'[r].rows = run[r].rows
         /\ run'[r].cash = run[r].cash - (p * n + c)
<1>1. p \in Nat /\ p > 0 /\ n \in Nat /\ n > 0 /\ c \in Nat
  BY ConstantsAssumption DEF ConstantsAssumption, Lots
<1>2. run[r] \in RunState(ReadRows) /\ run[r].cash \in Int /\ run[r].at = "fill"
  BY RunFields DEF Fill
<1>3. p * n \in Int
  BY <1>1
<1> DEFINE to == [run[r] EXCEPT !.cash = Left(r, p, n, c)]
<1>4. Left(r, p, n, c) = run[r].cash - (p * n + c) /\ Left(r, p, n, c) \in Int
  BY <1>1, <1>2, <1>3 DEF Left
<1>5. /\ to \in RunState(ReadRows)
      /\ to.at = "fill" /\ to.rows = run[r].rows /\ to.of = run[r].of /\ to.back = run[r].back
      /\ to.cash = run[r].cash - (p * n + c)
  BY <1>2, <1>4 DEF RunState
<1>6. run' \in [Runner -> RunState(ReadRows)] /\ Others(r) /\ run'[r] = to
  BY <1>5, Moves DEF FillsIn
<1> HIDE DEF to
<1>7. run[r].of = NoEntry /\ run[r].back = "idle"
  BY <1>2, FreeHand DEF Selling
<1>8. HandOK(r)'
  BY <1>5, <1>6, <1>7, HandFree
<1>9. TablesOK'
  <2> DEFINE row == [status |-> "OPEN", cost |-> p, qty |-> n, pnl |-> 0]
  <2>1. TablesOK /\ row \in PosRow /\ row.qty > 0 /\ row.cost > 0
    BY <1>1 DEF Types, TypeOK, PosRow
  <2>2. pos' = [pos EXCEPT ![e] = row]
    BY DEF FillsIn
  <2> HIDE DEF row
  <2>3. pos' \in [Entry -> PosRow]
    BY <2>1, <2>2 DEF TablesOK
  <2>4. \A f \in Entry : pos'[f].status \in {"OPEN", "CLOSED"} => pos'[f].qty > 0 /\ pos'[f].cost > 0
    BY <2>1, <2>2 DEF TablesOK
  <2>5. bought' \in [Entry -> Nat]
    BY <2>1, <1>1 DEF TablesOK, FillsIn
  <2> QED
    BY <2>1, <2>3, <2>4, <2>5 DEF TablesOK, Fill
<1> QED
  BY <1>1, <1>5, <1>6, <1>8, <1>9, TypesNext

(* The steps that change nothing but the runner. *)
LEMMA TypesQuiet ==
  ASSUME Types, NEW r \in Runner, UNCHANGED <<pos, part, bought, sold, resets>>,
         mark' \in [Entry -> Kind], mixes' \in 0 .. MaxTrouble, cuts' \in 0 .. MaxTrouble,
         run' \in [Runner -> RunState(ReadRows)], Others(r), HandOK(r)'
  PROVE  Types'
  BY TypesNext, QuietTables DEF Types, TypeOK

(* The sale of e moves one row. *)
LEMMA RowTables ==
  ASSUME TablesOK, NEW e \in Entry, NEW row \in PosRow, row.qty > 0, row.cost > 0,
         pos' = [pos EXCEPT ![e] = row],
         UNCHANGED <<part, bought, sold, mark, mixes, cuts, resets>>
  PROVE  TablesOK'
<1>1. pos' \in [Entry -> PosRow]
  BY DEF TablesOK
<1>2. \A f \in Entry : pos'[f].status \in {"OPEN", "CLOSED"} => pos'[f].qty > 0 /\ pos'[f].cost > 0
  BY DEF TablesOK
<1> QED
  BY <1>1, <1>2 DEF TablesOK

-----------------------------------------------------------------------------
(* What a step of one runner leaves to the other, and what it owes to the  *)
(* invariant.                                                              *)

(* Rows that another runner has read, or has in hand, are not made worse.  *)
Steady ==
  \A e \in Entry : pos[e].status # "NONE" =>
    /\ pos'[e].status # "NONE"
    /\ Alive(e)' => Alive(e) /\ bought'[e] = bought[e] /\ part'[e].qty >= part[e].qty

LEMMA Numbers ==
  /\ TablesOK => \A e \in Entry : /\ pos[e].qty \in Nat /\ pos[e].cost \in Nat
                                  /\ part[e].qty \in Nat /\ bought[e] \in Nat /\ sold[e] \in Nat
                                  /\ pos[e] \in PosRow /\ pos[e].pnl \in Int /\ part[e].pnl \in Int
                                  /\ part[e] \in [qty : Nat, pnl : Int]
  /\ TablesOK' => \A e \in Entry : /\ pos'[e].qty \in Nat /\ pos'[e].cost \in Nat
                                   /\ part'[e].qty \in Nat /\ bought'[e] \in Nat /\ sold'[e] \in Nat
                                   /\ pos'[e] \in PosRow /\ pos'[e].pnl \in Int
                                   /\ part'[e].pnl \in Int
  BY DEF TablesOK, PosRow

LEMMA ReadNumbers ==
  ASSUME Types, NEW r \in Runner
  PROVE  /\ \A e \in DOMAIN run[r].rows : /\ e \in Entry /\ run[r].rows[e] \in ReadRow
                                          /\ run[r].rows[e].qty \in Nat
                                          /\ run[r].rows[e].cost \in Nat
         /\ run[r].at \in Selling <=> run[r].of \in Entry
<1>1. /\ run[r].rows \in [DOMAIN run[r].rows -> ReadRow] /\ DOMAIN run[r].rows \subseteq Entry
      /\ HandOK(r)
  BY RunFields
<1> QED
  BY <1>1 DEF ReadRow, HandOK

LEMMA Bystander ==
  ASSUME Base, TablesOK', NEW q \in Runner, run'[q] = run[q], Steady, Keeps(q)
  PROVE  Claim(q)' /\ Keeps(q)'
<1>1. Types /\ TablesOK /\ Claim(q)
  BY DEF Base, Types, TypeOK
<1>2. Row(q)' = Row(q) /\ Shares(q)' = Shares(q)
  BY DEF Row, Shares, Partial
<1>3. /\ run[q].at \in Selling => run[q].of \in Entry
      /\ Row(q).qty \in Nat /\ Shares(q) \in Nat
      /\ \A e \in DOMAIN run[q].rows : e \in Entry /\ run[q].rows[e].qty \in Nat
  BY <1>1, SharesType, ReadNumbers
<1>4. Claim(q)'
  BY <1>1, <1>2, <1>3 DEF Claim, Steady
<1>5. ASSUME NEW e \in DOMAIN run[q].rows, Alive(e)'
      PROVE  run[q].rows[e].qty + part'[e].qty >= bought'[e]
  <2>1. pos[e].status # "NONE" /\ e \in Entry
    BY <1>1, <1>3 DEF Claim
  <2>2. Alive(e) /\ bought'[e] = bought[e] /\ part'[e].qty >= part[e].qty
    BY <1>5, <2>1 DEF Steady
  <2> QED
    BY <1>1, <1>3, <2>1, <2>2, Numbers DEF Keeps
<1>6. ASSUME run[q].at \in {"sell", "split", "shrink"}, Alive(run[q].of)'
      PROVE  /\ run[q].at \in {"sell", "split"} =>
                  Row(q).qty + part'[run[q].of].qty >= bought'[run[q].of]
             /\ run[q].at = "shrink" =>
                  Row(q).qty - Shares(q) + part'[run[q].of].qty >= bought'[run[q].of]
  <2>0. PICK e \in Entry : e = run[q].of
    BY <1>3, <1>6 DEF Selling
  <2>1. pos[e].status # "NONE"
    BY <1>1, <1>6, <2>0 DEF Claim, Selling
  <2>2. Alive(e) /\ bought'[e] = bought[e] /\ part'[e].qty >= part[e].qty
    BY <1>6, <2>0, <2>1 DEF Steady, Alive
  <2>3. /\ part[e].qty \in Nat /\ part'[e].qty \in Nat /\ bought[e] \in Nat
        /\ Row(q).qty \in Nat /\ Shares(q) \in Nat
    BY <1>1, <1>3, Numbers
  <2>4. /\ run[q].at \in {"sell", "split"} => Row(q).qty + part[e].qty >= bought[e]
        /\ run[q].at = "shrink" => Row(q).qty - Shares(q) + part[e].qty >= bought[e]
    BY <2>0, <2>2 DEF Keeps
  <2> QED
    BY <2>0, <2>2, <2>3, <2>4
<1>7. Keeps(q)'
  BY <1>2, <1>5, <1>6 DEF Keeps, Alive
<1> QED
  BY <1>4, <1>7

(* As long as no two runs mix, the other runner is idle.                   *)
LEMMA OtherIdle ==
  ASSUME Inv, NEW r \in Runner, Others(r), mixes = 0, run[r].at # "idle" \/ ~ AtWork
  PROVE  /\ Sole(r) /\ Sole(r)' /\ Sound(r) /\ Still(r)
         /\ \A q \in Runner : q # r => DOMAIN run[q].rows = {}
<1>1. Sole(r)
  BY DEF Inv, Fresh, OneAtWork, Sole, AtWork
<1>2. Sole(r)'
  BY <1>1 DEF Sole, Others
<1>3. Sound(r) /\ Still(r)
  BY <1>1 DEF Inv, Books, Fresh
<1>4. \A q \in Runner : q # r => DOMAIN run[q].rows = {}
  BY <1>1 DEF Sole, Inv, Base, Claim
<1> QED
  BY <1>1, <1>2, <1>3, <1>4

LEMMA CoveredNext ==
  ASSUME Base, Covered, Types', NEW r \in Runner, Others(r),
         \A e \in Entry : pos'[e].status # "GONE" =>
           /\ pos[e].status # "GONE"
           /\ sold'[e] - part'[e].qty - Owed(r, e)' >= sold[e] - part[e].qty - Owed(r, e)
           /\ Closes(e)' /\ ~ Closes(e) =>
                sold'[e] - part'[e].qty - Owed(r, e)' >= sold[e] - part[e].qty - Owed(r, e) + 1
  PROVE  Covered'
<1> SUFFICES ASSUME NEW e \in Entry, pos'[e].status # "GONE"
             PROVE  sold'[e] >= part'[e].qty + Owed("daily", e)' + Owed("intraday", e)'
                                  + IF Closes(e)' THEN 1 ELSE 0
  BY DEF Covered
<1>1. Types /\ TablesOK /\ TablesOK'
  BY DEF Base, Types, TypeOK
<1>2. sold[e] \in Nat /\ part[e].qty \in Nat /\ sold'[e] \in Nat /\ part'[e].qty \in Nat
  BY <1>1, Numbers
<1>3. \A q \in Runner : Owed(q, e) \in Nat
  BY <1>1, SharesType DEF Owed
<1>4. \A q \in Runner : q # r => Owed(q, e)' = Owed(q, e)
  BY DEF Others, Owed, Shares, Partial, Row
<1>5. /\ sold'[e] - part'[e].qty - Owed(r, e)' >= sold[e] - part[e].qty - Owed(r, e)
      /\ Closes(e)' /\ ~ Closes(e) =>
           sold'[e] - part'[e].qty - Owed(r, e)' >= sold[e] - part[e].qty - Owed(r, e) + 1
      /\ sold[e] >= part[e].qty + Owed("daily", e) + Owed("intraday", e)
                      + IF Closes(e) THEN 1 ELSE 0
  BY DEF Covered
<1>6. Owed(r, e)' \in Int
  <2>1. Owed(r, e)' \in {0, Shares(r)'}
    BY DEF Owed
  <2>2. Shares(r)' \in Int
    <3>1. run'[r] \in RunState(ReadRows)
      BY DEF Types
    <3>2. run'[r].row \in ReadRow
      BY <3>1 DEF RunState
    <3>3. run'[r].row.qty \in Nat
      BY <3>2 DEF ReadRow
    <3>4. run'[r].row.qty \div 2 \in Int
      BY <3>3
    <3> QED
      BY <3>3, <3>4 DEF Shares, Row
  <2> QED
    BY <2>1, <2>2
<1>7. CASE r = "daily"
  <2>1. Owed("intraday", e)' = Owed("intraday", e) /\ Owed("intraday", e) \in Nat
    BY <1>3, <1>4, <1>7 DEF Runner
  <2>2. Owed("daily", e) \in Nat /\ Owed("daily", e)' \in Int
    BY <1>3, <1>6, <1>7
  <2> QED
    BY <1>2, <1>5, <1>7, <2>1, <2>2
<1>8. CASE r = "intraday"
  <2>1. Owed("daily", e)' = Owed("daily", e) /\ Owed("daily", e) \in Nat
    BY <1>3, <1>4, <1>8 DEF Runner
  <2>2. Owed("intraday", e) \in Nat /\ Owed("intraday", e)' \in Int
    BY <1>3, <1>6, <1>8
  <2> QED
    BY <1>2, <1>5, <1>8, <2>1, <2>2
<1> QED
  BY <1>7, <1>8 DEF Runner

(* The invariant after a step of one runner.                               *)
LEMMA InvNext ==
  ASSUME Inv, NEW r \in Runner, Others(r), Types', Tables', Steady,
         Claim(r)', Keeps(r)',
         \A e \in Entry : Alive(e)' => pos'[e].qty + part'[e].qty >= bought'[e],
         mixes' = 0 => mixes = 0 /\ (run[r].at # "idle" \/ ~ AtWork) /\ Still(r)' /\ Sound(r)',
         Covered'
  PROVE  Inv'
<1>1. Types /\ TablesOK /\ TablesOK' /\ Base
  BY DEF Inv, Base, Types, TypeOK
<1>2. \A q \in Runner : Claim(q)' /\ Keeps(q)'
  <2>1. ASSUME NEW q \in Runner, q # r PROVE Claim(q)' /\ Keeps(q)'
    BY <1>1, <2>1, Bystander DEF Inv, Kept, Others
  <2> QED
    BY <2>1
<1>3. Base' /\ Kept'
  BY <1>2 DEF Base, Kept
<1>4. ASSUME mixes' = 0 PROVE Fresh' /\ Books'
  <2>1. mixes = 0 /\ Sole(r)' /\ \A q \in Runner : q # r => DOMAIN run[q].rows = {}
    BY <1>4, OtherIdle
  <2>2. \A q \in Runner : q # r => run'[q].at = "idle" /\ DOMAIN run'[q].rows = {}
    BY <2>1 DEF Sole, Others
  <2>3. \A q \in Runner : Still(q)'
    BY <1>4, <2>2 DEF Still, InHand
  <2>4. OneAtWork'
    BY <2>2 DEF OneAtWork
  <2>5. ASSUME NEW q \in Runner, q # r, Sole(q)' PROVE Sound(q)'
    <3>1. run'[r].at = "idle" /\ run'[q].at = "idle"
      BY <2>2, <2>5 DEF Sole
    <3>2. \A e \in Entry : /\ ~ InSale(r, e)' /\ ~ InSale(q, e)'
                           /\ ~ Splits(r, e)' /\ ~ Splits(q, e)'
      BY <3>1 DEF InSale, Splits
    <3>3. cuts' = 0 => Exact(q)' /\ Solvent(q)'
      BY <1>4, <3>1, <3>2 DEF Sound, Exact, Solvent
    <3> QED
      BY <1>4, <3>1, <3>2, <3>3 DEF Sound
  <2> QED
    BY <1>4, <2>3, <2>4, <2>5 DEF Fresh, Books
<1>5. Fresh' /\ Books'
  BY <1>4 DEF Fresh, Books
<1> QED
  BY <1>3, <1>5 DEF Inv

(* Steps that write no row, and neither begin nor end in the middle of a   *)
(* sale: stages that start and end, rows that are passed over or taken in  *)
(* hand.                                                                   *)
Between == {"close", "split", "shrink"}
FromRows(r) ==
  \A e \in DOMAIN run'[r].rows :
    \/ e \in DOMAIN run[r].rows /\ run'[r].rows[e] = run[r].rows[e]
    \/ e \in Open /\ run'[r].rows[e].cost = pos[e].cost /\ run'[r].rows[e].qty = pos[e].qty
TakesInHand(r) ==
  /\ run'[r].at = "sell" /\ run'[r].of \in DOMAIN run[r].rows
  /\ run'[r].of \notin DOMAIN run'[r].rows
  /\ run'[r].row.qty = run[r].rows[run'[r].of].qty
  /\ run'[r].row.cost = run[r].rows[run'[r].of].cost

LEMMA CashStays ==
  ASSUME pos' = pos, part' = part
  PROVE  Cash' = Cash
  BY DEF Cash, Realised, Invested, Open

LEMMA QuietStep ==
  ASSUME Inv, NEW r \in Runner, Others(r), Types', UNCHANGED <<pos, part, bought, sold, cuts>>,
         run[r].at \notin Between, run'[r].at \notin Between,
         run'[r].at \in Selling => TakesInHand(r),
         run'[r].at \in {"idle", "fill"} => DOMAIN run'[r].rows = {},
         FromRows(r),
         run'[r].at = "fill" => run'[r].cash <= Cash,
         mixes' = 0 => mixes = 0 /\ (run[r].at # "idle" \/ ~ AtWork)
  PROVE  Inv'
<1>1. Types /\ TablesOK /\ TablesOK' /\ Base /\ Tables /\ Claim(r) /\ Keeps(r) /\ Kept /\ Covered
  BY DEF Inv, Base, Types, TypeOK, Kept
<1>2. Tables'
  BY <1>1 DEF Tables
<1>3. \A e \in Entry : (Alive(e)' <=> Alive(e)) /\ (Alive(e) => pos[e].qty + part[e].qty >= bought[e])
  BY <1>1 DEF Alive, Kept
<1>4. Steady
  BY <1>1, <1>3, Numbers DEF Steady
<1>5. /\ \A e \in DOMAIN run[r].rows : e \in Entry
      /\ \A e \in Open : e \in Entry /\ pos[e].qty > 0 /\ pos[e].status = "OPEN"
  BY <1>1, ReadNumbers DEF Open, TablesOK
<1>6. ASSUME NEW e \in DOMAIN run'[r].rows
      PROVE  /\ pos[e].status # "NONE" /\ run'[r].rows[e].qty > 0
             /\ Alive(e) => run'[r].rows[e].qty + part[e].qty >= bought[e]
             /\ Still(r) => Current(e, run'[r].rows[e])
  <2>1. CASE e \in DOMAIN run[r].rows /\ run'[r].rows[e] = run[r].rows[e]
    BY <1>1, <2>1 DEF Claim, Keeps, Still
  <2>2. CASE e \in Open /\ run'[r].rows[e].cost = pos[e].cost /\ run'[r].rows[e].qty = pos[e].qty
    BY <1>3, <1>5, <2>2 DEF Current
  <2> QED
    BY <2>1, <2>2 DEF FromRows
<1>7. ASSUME run'[r].at \in Selling
      PROVE  /\ run'[r].at = "sell"
             /\ pos[run'[r].of].status # "NONE" /\ run'[r].row.qty > 0
             /\ run'[r].of \notin DOMAIN run'[r].rows
             /\ Alive(run'[r].of) =>
                  run'[r].row.qty + part[run'[r].of].qty >= bought[run'[r].of]
             /\ Still(r) => Current(run'[r].of, run'[r].row)
  <2>1. PICK e \in DOMAIN run[r].rows : e = run'[r].of
    BY <1>7 DEF TakesInHand
  <2>2. run'[r].row.qty = run[r].rows[e].qty /\ run'[r].row.cost = run[r].rows[e].cost
    BY <1>7, <2>1 DEF TakesInHand
  <2>3. /\ pos[e].status # "NONE" /\ run[r].rows[e].qty > 0
        /\ Alive(e) => run[r].rows[e].qty + part[e].qty >= bought[e]
        /\ Still(r) => Current(e, run[r].rows[e])
    BY <1>1, <2>1 DEF Claim, Keeps, Still
  <2> QED
    BY <1>7, <2>1, <2>2, <2>3 DEF TakesInHand, Current
<1>8. Claim(r)'
  BY <1>6, <1>7 DEF Claim, Row
<1>9. Keeps(r)'
  <2>1. \A e \in DOMAIN run'[r].rows :
          Alive(e)' => run'[r].rows[e].qty + part'[e].qty >= bought'[e]
    BY <1>6 DEF Alive
  <2>2. run'[r].at \in {"sell", "split"} /\ Alive(run[r].of)' =>
          run'[r].row.qty + part'[run'[r].of].qty >= bought'[run'[r].of]
    BY <1>7 DEF Alive, Selling
  <2>3. run'[r].at # "shrink"
    BY DEF Between
  <2> QED
    BY <2>1, <2>2, <2>3 DEF Keeps, Row, Alive
<1>10. ASSUME mixes' = 0 PROVE Still(r)' /\ Sound(r)'
  <2>1. Still(r) /\ Sound(r)
    BY <1>10, OtherIdle
  <2>2. Still(r)'
    <3>1. \A e \in DOMAIN run'[r].rows : Current(e, run'[r].rows[e])
      BY <1>6, <2>1
    <3>2. run'[r].at \in InHand => Current(run'[r].of, run'[r].row)
      BY <1>7, <2>1 DEF InHand, Selling
    <3> QED
      BY <3>1, <3>2 DEF Still, Current, Row
  <2>3. \A e \in Entry : ~ InSale(r, e) /\ ~ Splits(r, e) /\ ~ InSale(r, e)' /\ ~ Splits(r, e)'
    BY DEF InSale, Splits, Between
  <2>4. Cash' = Cash /\ \A e \in Entry : ClosedShares(e)' = ClosedShares(e)
    BY CashStays DEF ClosedShares
  <2>5. ASSUME cuts' = 0 PROVE Exact(r)' /\ Solvent(r)'
    <3>1. Exact(r) /\ Solvent(r)
      BY <2>1, <2>5 DEF Sound
    <3>2. Exact(r)'
      BY <1>3, <2>3, <2>4, <3>1 DEF Exact
    <3>3. run[r].at # "shrink" /\ run'[r].at # "shrink"
      BY DEF Between
    <3> QED
      BY <2>4, <3>1, <3>2, <3>3 DEF Solvent
  <2> QED
    BY <2>1, <2>2, <2>3, <2>4, <2>5 DEF Sound
<1>11. Covered'
  <2>1. \A e \in Entry : Owed(r, e) = 0 /\ Owed(r, e)' = 0
    BY DEF Owed, Between
  <2>2. \A e \in Entry : Closes(e)' => Closes(e)
    BY DEF Closes, Others, Between
  <2> QED
    BY <1>1, <2>1, <2>2, CoveredNext, Numbers
<1> QED
  BY <1>1, <1>2, <1>3, <1>4, <1>8, <1>9, <1>10, <1>11, InvNext

(* A run ends where it is: it was cut off, or a reset took its row away.   *)
LEMMA StopStep ==
  ASSUME Inv, NEW r \in Runner, Becomes(r, Idle), Types', UNCHANGED <<pos, part, bought, sold>>,
         run[r].at # "idle", mixes' = mixes, mixes = 0 => cuts' # 0
  PROVE  Inv'
<1>1. Types /\ TablesOK /\ TablesOK' /\ Base /\ Tables /\ Kept /\ Covered
  BY DEF Inv, Base, Types, TypeOK
<1>2. Others(r) /\ run'[r].at = "idle" /\ DOMAIN run'[r].rows = {}
  BY <1>1, GoesIdle
<1>3. Tables'
  BY <1>1 DEF Tables
<1>4. \A e \in Entry : (Alive(e)' <=> Alive(e)) /\ (Alive(e) => pos[e].qty + part[e].qty >= bought[e])
  BY <1>1 DEF Alive, Kept
<1>5. Steady
  BY <1>1, <1>4, Numbers DEF Steady
<1>6. Claim(r)' /\ Keeps(r)' /\ Still(r)'
  BY <1>2 DEF Claim, Keeps, Still, Selling, InHand
<1>7. ASSUME mixes' = 0 PROVE Sound(r)'
  <2>1. Sound(r)
    BY <1>2, <1>7, OtherIdle
  <2>2. \A e \in Entry : ClosedShares(e)' = ClosedShares(e)
    BY DEF ClosedShares
  <2>3. \A e \in Entry : ~ InSale(r, e)'
    BY <1>2 DEF InSale
  <2> QED
    BY <1>2, <1>7, <2>1, <2>2, <2>3 DEF Sound
<1>8. Covered'
  <2>1. \A e \in Entry : Owed(r, e) \in Nat /\ Owed(r, e)' = 0
    BY <1>1, <1>2, SharesType DEF Owed
  <2>2. \A e \in Entry : Closes(e)' => Closes(e)
    BY <1>2 DEF Closes, Others
  <2>3. \A e \in Entry : sold'[e] - part'[e].qty - Owed(r, e)' >= sold[e] - part[e].qty - Owed(r, e)
    BY <1>1, <2>1, Numbers
  <2> QED
    BY <1>1, <1>2, <2>2, <2>3, CoveredNext
<1> QED
  BY <1>1, <1>2, <1>3, <1>4, <1>5, <1>6, <1>7, <1>8, InvNext

-----------------------------------------------------------------------------
(* The stages. *)

LEMMA StartKeeps ==
  ASSUME Inv, NEW r \in Runner, Start(r)
  PROVE  Inv'
<1>1. Types /\ TablesOK
  BY DEF Inv, Base, Types, TypeOK
<1>2. /\ Types' /\ Others(r) /\ run'[r].at = "fill" /\ DOMAIN run'[r].rows = {}
      /\ run'[r].cash = Cash /\ run[r].at = "idle"
  BY <1>1, StartTypes DEF Start
<1>3. mixes' = 0 => mixes = 0 /\ ~ AtWork
  BY <1>1, Counters DEF Start
<1>4. FromRows(r)
  BY <1>2 DEF FromRows
<1>5. run'[r].cash <= Cash
  BY <1>1, <1>2, CashType
<1> QED
  BY <1>2, <1>3, <1>4, <1>5, QuietStep DEF Start, Selling, Between

(* A stage that begins with the open rows, or with some of them.           *)
LEMMA ReadsKeeps ==
  ASSUME Inv, NEW r \in Runner, run[r].at \in {"fill", "exits", "value"},
         NEW at \in {"exits", "value", "judge"}, NEW es \in SUBSET Open, Reads(r, at, es),
         UNCHANGED <<pos, part, bought, sold, mark, mixes, cuts, resets>>
  PROVE  Inv'
<1>1. Types /\ TablesOK /\ es \in SUBSET Entry
  BY DEF Inv, Base, Types, TypeOK, Open
<1>2. /\ run' \in [Runner -> RunState(ReadRows)] /\ Others(r)
      /\ run'[r].at = at /\ DOMAIN run'[r].rows = es
      /\ \A e \in es : run'[r].rows[e].cost = pos[e].cost /\ run'[r].rows[e].qty = pos[e].qty
      /\ HandOK(r)'
  BY <1>1, ReadsRows
<1>3. Types'
  BY <1>1, <1>2, TypesQuiet DEF TablesOK
<1>4. FromRows(r)
  BY <1>2 DEF FromRows
<1> QED
  BY <1>2, <1>3, <1>4, QuietStep DEF Selling, Between

LEMMA PassesKeeps ==
  ASSUME Inv, NEW r \in Runner, run[r].at \in {"value", "judge"}, NEW e, Passes(r, e),
         mark' \in [Entry -> Kind],
         UNCHANGED <<pos, part, bought, sold, mixes, cuts, resets>>
  PROVE  Inv'
<1>1. Types /\ TablesOK /\ run[r].rows \in ReadRows
  BY RunFields DEF Inv, Base, Types, TypeOK
<1>2. /\ run' \in [Runner -> RunState(ReadRows)] /\ Others(r)
      /\ run'[r].at = run[r].at /\ run'[r].rows = Without(run[r].rows, e) /\ HandOK(r)'
  BY <1>1, PassesRow DEF Selling
<1>3. Types'
  <2>1. mixes' \in 0 .. MaxTrouble /\ cuts' \in 0 .. MaxTrouble
    BY <1>1 DEF TablesOK
  <2> QED
    BY <1>1, <1>2, <2>1, TypesQuiet
<1>4. FromRows(r)
  <2> DEFINE rows == run[r].rows
  <2>1. /\ DOMAIN Without(rows, e) = DOMAIN rows \ {e}
        /\ \A f \in DOMAIN rows \ {e} : Without(rows, e)[f] = rows[f]
    BY <1>1, WithoutType
  <2>2. run'[r].rows = Without(rows, e)
    BY <1>2
  <2> QED
    BY <2>1, <2>2 DEF FromRows
<1> QED
  BY <1>2, <1>3, <1>4, QuietStep DEF Selling, Between

LEMMA SellsKeeps ==
  ASSUME Inv, NEW r \in Runner, run[r].at \in {"exits", "judge"},
         NEW e \in DOMAIN run[r].rows, NEW k \in Kind, NEW p \in Price, Sells(r, e, k, p),
         mark' \in [Entry -> Kind],
         UNCHANGED <<pos, part, bought, sold, mixes, cuts, resets>>
  PROVE  Inv'
<1>1. Types /\ TablesOK /\ run[r].rows \in ReadRows
  BY RunFields DEF Inv, Base, Types, TypeOK
<1>2. /\ run' \in [Runner -> RunState(ReadRows)] /\ Others(r)
      /\ run'[r].at = "sell" /\ run'[r].of = e
      /\ run'[r].row.cost = run[r].rows[e].cost /\ run'[r].row.qty = run[r].rows[e].qty
      /\ run'[r].rows = Without(run[r].rows, e)
      /\ HandOK(r)'
  BY <1>1, SellsRow
<1>3. Types'
  <2>1. mixes' \in 0 .. MaxTrouble /\ cuts' \in 0 .. MaxTrouble
    BY <1>1 DEF TablesOK
  <2> QED
    BY <1>1, <1>2, <2>1, TypesQuiet
<1>4. FromRows(r) /\ TakesInHand(r)
  <2> DEFINE rows == run[r].rows
  <2>1. /\ DOMAIN Without(rows, e) = DOMAIN rows \ {e}
        /\ \A f \in DOMAIN rows \ {e} : Without(rows, e)[f] = rows[f]
    BY <1>1, WithoutType
  <2>2. run'[r].rows = Without(rows, e)
    BY <1>2
  <2> QED
    BY <1>2, <2>1, <2>2 DEF FromRows, TakesInHand
<1> QED
  BY <1>2, <1>3, <1>4, QuietStep DEF Between

LEMMA EndFillKeeps ==
  ASSUME Inv, NEW r \in Runner, EndFill(r)
  PROVE  Inv'
<1>1. Marked \in SUBSET Open
  BY DEF Marked
<1> QED
  BY <1>1, ReadsKeeps DEF EndFill

LEMMA EndExitsKeeps ==
  ASSUME Inv, NEW r \in Runner, EndExits(r)
  PROVE  Inv'
<1>1. PICK at \in {"exits", "value", "judge"} : Reads(r, at, Open)
  BY DEF EndExits
<1> QED
  BY <1>1, ReadsKeeps DEF EndExits

LEMMA EndValueKeeps ==
  ASSUME Inv, NEW r \in Runner, EndValue(r)
  PROVE  Inv'
  BY ReadsKeeps DEF EndValue

LEMMA SellDeferredKeeps ==
  ASSUME Inv, NEW r \in Runner, SellDeferred(r)
  PROVE  Inv'
<1>1. PICK e \in DOMAIN run[r].rows, p \in Price : Sells(r, e, run[r].rows[e].kind, p)
  BY DEF SellDeferred
<1>2. Types /\ TablesOK
  BY DEF Inv, Base, Types, TypeOK
<1>3. run[r].rows[e].kind \in Kind
  BY <1>2, ReadNumbers DEF ReadRow
<1> QED
  BY <1>1, <1>2, <1>3, SellsKeeps DEF SellDeferred, TablesOK

LEMMA EndRunKeeps ==
  ASSUME Inv, NEW r \in Runner, EndRun(r)
  PROVE  Inv'
<1>1. Types /\ TablesOK
  BY DEF Inv, Base, Types, TypeOK
<1>2. /\ run' \in [Runner -> RunState(ReadRows)] /\ Others(r)
      /\ run'[r].at = "idle" /\ DOMAIN run'[r].rows = {} /\ HandOK(r)'
  BY <1>1, GoesIdle DEF EndRun
<1>3. Types'
  BY <1>1, <1>2, TypesQuiet DEF EndRun, TablesOK
<1>4. FromRows(r)
  BY <1>2 DEF FromRows
<1> QED
  BY <1>2, <1>3, <1>4, QuietStep DEF EndRun, Selling, Between

(* A run whose row a reset has taken away ends; its runs have mixed.       *)
LEMMA EndsOnGone ==
  ASSUME Inv, NEW r \in Runner, Becomes(r, Idle), NEW e \in Entry, pos[e] = Gone,
         \/ e \in DOMAIN run[r].rows
         \/ run[r].at \in InHand /\ e = run[r].of,
         run[r].at # "idle",
         UNCHANGED <<pos, part, bought, sold, mark, mixes, cuts, resets>>
  PROVE  Inv'
<1>1. Types /\ TablesOK
  BY DEF Inv, Base, Types, TypeOK
<1>2. mixes # 0
  <2>1. SUFFICES ASSUME mixes = 0 PROVE FALSE
    OBVIOUS
  <2>2. Still(r)
    BY <2>1 DEF Inv, Fresh
  <2>3. pos[e].status = "OPEN"
    BY <2>2 DEF Still, Current
  <2> QED
    BY <2>3 DEF Gone, NoRow
<1>3. Types'
  BY <1>1, GoesIdle, TypesQuiet DEF TablesOK
<1> QED
  BY <1>2, <1>3, StopStep

LEMMA JudgeKeeps ==
  ASSUME Inv, NEW r \in Runner, Judge(r)
  PROVE  Inv'
<1>1. Types /\ TablesOK
  BY DEF Inv, Base, Types, TypeOK
<1>2. PICK e \in DOMAIN run[r].rows, p \in Price : \E k \in Judgments(run[r].rows[e], p) :
        IF pos[e] = Gone THEN Becomes(r, Idle) /\ UNCHANGED mark
        ELSE /\ mark' = IF k = "HOLD" THEN mark
                        ELSE [mark EXCEPT ![e] = IF r = "daily" THEN k ELSE "HOLD"]
             /\ IF k = "HOLD" \/ r = "daily" THEN Passes(r, e) ELSE Sells(r, e, k, p)
  BY DEF Judge
<1>3. PICK k \in Judgments(run[r].rows[e], p) :
        IF pos[e] = Gone THEN Becomes(r, Idle) /\ UNCHANGED mark
        ELSE /\ mark' = IF k = "HOLD" THEN mark
                        ELSE [mark EXCEPT ![e] = IF r = "daily" THEN k ELSE "HOLD"]
             /\ IF k = "HOLD" \/ r = "daily" THEN Passes(r, e) ELSE Sells(r, e, k, p)
  BY <1>2
<1>4. k \in Kind /\ "HOLD" \in Kind /\ e \in Entry
  BY <1>1, ReadNumbers DEF Judgments, Kind
<1>5. CASE pos[e] = Gone
  BY <1>3, <1>4, <1>5, EndsOnGone DEF Judge
<1>6. CASE pos[e] # Gone
  <2>1. mark' \in [Entry -> Kind]
    <3>1. mark \in [Entry -> Kind]
      BY <1>1 DEF TablesOK
    <3>2. mark' = IF k = "HOLD" THEN mark
                  ELSE [mark EXCEPT ![e] = IF r = "daily" THEN k ELSE "HOLD"]
      BY <1>3, <1>6
    <3> QED
      BY <1>4, <3>1, <3>2
  <2>2. CASE k = "HOLD" \/ r = "daily"
    BY <1>3, <1>6, <2>1, <2>2, PassesKeeps DEF Judge
  <2>3. CASE ~ (k = "HOLD" \/ r = "daily")
    <3>1. Sells(r, e, k, p)
      BY <1>3, <1>6, <2>3
    <3> QED
      BY <1>4, <2>1, <3>1, SellsKeeps DEF Judge
  <2> QED
    BY <2>2, <2>3
<1> QED
  BY <1>5, <1>6

LEMMA UseMarkKeeps ==
  ASSUME Inv, NEW r \in Runner, UseMark(r)
  PROVE  Inv'
<1>1. Types /\ TablesOK
  BY DEF Inv, Base, Types, TypeOK
<1>2. run[r].at = "use" /\ run[r].at \in Selling
  BY DEF UseMark, Selling
<1>3. /\ run' \in [Runner -> RunState(ReadRows)] /\ Others(r)
      /\ run'[r].at \in {"exits", "judge"} /\ run'[r].rows = run[r].rows /\ HandOK(r)'
  BY <1>1, <1>2, GoesBack DEF UseMark
<1>4. mark' \in [Entry -> Kind]
  BY <1>1 DEF UseMark, TablesOK, Kind
<1>5. Types'
  BY <1>1, <1>3, <1>4, TypesQuiet DEF UseMark, TablesOK
<1>6. FromRows(r)
  BY <1>3 DEF FromRows
<1> QED
  BY <1>2, <1>3, <1>5, <1>6, QuietStep DEF UseMark, Selling, Between

LEMMA CutOffKeeps ==
  ASSUME Inv, NEW r \in Runner, CutOff(r)
  PROVE  Inv'
<1>1. Types /\ TablesOK
  BY DEF Inv, Base, Types, TypeOK
<1>2. cuts' \in 0 .. MaxTrouble /\ cuts' # 0
  BY <1>1, Counters DEF CutOff
<1>3. Types'
  BY <1>1, <1>2, GoesIdle, TypesQuiet DEF CutOff, TablesOK
<1> QED
  BY <1>2, <1>3, StopStep DEF CutOff

-----------------------------------------------------------------------------
(* The cash after a step that writes one position. *)

LEMMA WorthOf ==
  ASSUME NEW e \in Entry
  PROVE  /\ TablesOK =>
              /\ pos[e].status = "CLOSED" => Worth[e] = part[e].pnl + pos[e].pnl
              /\ pos[e].status = "OPEN" => Worth[e] = part[e].pnl - pos[e].cost * pos[e].qty
              /\ pos[e].status \in {"NONE", "GONE"} => Worth[e] = part[e].pnl
         /\ TablesOK' =>
              /\ pos'[e].status = "CLOSED" => Worth'[e] = part'[e].pnl + pos'[e].pnl
              /\ pos'[e].status = "OPEN" => Worth'[e] = part'[e].pnl - pos'[e].cost * pos'[e].qty
              /\ pos'[e].status \in {"NONE", "GONE"} => Worth'[e] = part'[e].pnl
<1>1. /\ Worth[e] = Realised(e) - Invested(e)
      /\ Worth'[e] = Realised(e)' - Invested(e)'
  BY DEF Worth
<1>2. /\ pos[e].status = "OPEN" => Invested(e) = pos[e].cost * pos[e].qty
      /\ pos[e].status # "OPEN" => Invested(e) = 0
      /\ pos'[e].status = "OPEN" => Invested(e)' = pos'[e].cost * pos'[e].qty
      /\ pos'[e].status # "OPEN" => Invested(e)' = 0
  BY DEF Invested, Open
<1>3. /\ pos[e].status = "CLOSED" => Realised(e) = part[e].pnl + pos[e].pnl
      /\ pos[e].status # "CLOSED" => Realised(e) = part[e].pnl + 0
      /\ pos'[e].status = "CLOSED" => Realised(e)' = part'[e].pnl + pos'[e].pnl
      /\ pos'[e].status # "CLOSED" => Realised(e)' = part'[e].pnl + 0
  BY DEF Realised
<1>4. ASSUME TablesOK
      PROVE  part[e].pnl \in Int /\ pos[e].pnl \in Int /\ pos[e].cost * pos[e].qty \in Int
  BY <1>4, Numbers
<1>5. ASSUME TablesOK'
      PROVE  part'[e].pnl \in Int /\ pos'[e].pnl \in Int /\ pos'[e].cost * pos'[e].qty \in Int
  BY <1>5, Numbers
<1>6. ASSUME TablesOK
      PROVE  /\ pos[e].status = "CLOSED" => Worth[e] = part[e].pnl + pos[e].pnl
             /\ pos[e].status = "OPEN" => Worth[e] = part[e].pnl - pos[e].cost * pos[e].qty
             /\ pos[e].status \in {"NONE", "GONE"} => Worth[e] = part[e].pnl
  BY <1>1, <1>2, <1>3, <1>4, <1>6
<1>7. ASSUME TablesOK'
      PROVE  /\ pos'[e].status = "CLOSED" => Worth'[e] = part'[e].pnl + pos'[e].pnl
             /\ pos'[e].status = "OPEN" => Worth'[e] = part'[e].pnl - pos'[e].cost * pos'[e].qty
             /\ pos'[e].status \in {"NONE", "GONE"} => Worth'[e] = part'[e].pnl
  BY <1>1, <1>2, <1>3, <1>5, <1>7
<1> QED
  BY <1>6, <1>7

Elsewhere(e) == \A f \in Entry : f # e => pos'[f] = pos[f] /\ part'[f] = part[f]

LEMMA CashStep ==
  ASSUME TablesOK, TablesOK', NEW e \in Entry, Elsewhere(e)
  PROVE  /\ Cash \in Int /\ Worth[e] \in Int /\ Worth'[e] \in Int
         /\ Cash' = Cash + Worth'[e] - Worth[e]
<1>1. Worth \in [Entry -> Int] /\ Worth' \in [Entry -> Int]
  BY WorthType
<1>2. \A f \in Entry \ {e} : Worth'[f] = Worth[f]
  BY DEF Elsewhere, Worth, Realised, Invested, Open
<1>3. /\ IsFiniteSet(Entry) /\ Capital \in Int
  BY ConstantsAssumption DEF ConstantsAssumption
<1>4. SumFunctionOnSet(Worth', Entry) = SumFunctionOnSet(Worth, Entry) + Worth'[e] - Worth[e]
  BY <1>1, <1>2, <1>3, SumChanges
<1>5. SumFunctionOnSet(Worth, Entry) \in Int
  BY <1>1, <1>3, SumIsInt
<1>6. Worth[e] \in Int /\ Worth'[e] \in Int
  BY <1>1
<1> QED
  BY <1>3, <1>4, <1>5, <1>6, CashIs

LEMMA Products ==
  ASSUME NEW p \in Nat, NEW c \in Nat, NEW h \in Nat, NEW q \in Nat
  PROVE  /\ p * h \in Nat /\ c * h \in Nat /\ c * q \in Nat /\ (p - c) * h \in Int
         /\ (p - c) * h + c * h = p * h
         /\ c * q - c * (q - h) = c * h
  OBVIOUS

(* An account without entries has its capital.                             *)
LEMMA EmptyAccount ==
  /\ TablesOK /\ (\A e \in Entry : pos[e].status \in {"NONE", "GONE"} /\ part[e] = Nothing)
       => Cash = Capital
  /\ TablesOK' /\ (\A e \in Entry : pos'[e].status \in {"NONE", "GONE"} /\ part'[e] = Nothing)
       => Cash' = Capital
<1>1. IsFiniteSet(Entry) /\ Capital \in Int
  BY ConstantsAssumption DEF ConstantsAssumption
<1>2. ASSUME TablesOK, \A e \in Entry : pos[e].status \in {"NONE", "GONE"} /\ part[e] = Nothing
      PROVE  Cash = Capital
  <2>1. \A e \in Entry : Worth[e] = 0
    BY <1>2, WorthOf DEF Nothing
  <2> QED
    BY <1>1, <2>1, SumOfZeros, CashIs
<1>3. ASSUME TablesOK', \A e \in Entry : pos'[e].status \in {"NONE", "GONE"} /\ part'[e] = Nothing
      PROVE  Cash' = Capital
  <2>1. \A e \in Entry : Worth'[e] = 0
    BY <1>3, WorthOf DEF Nothing
  <2> QED
    BY <1>1, <2>1, SumOfZeros, CashIs
<1> QED
  BY <1>2, <1>3

-----------------------------------------------------------------------------
(* An entry, and the statements of a sale. *)

LEMMA FillKeeps ==
  ASSUME Inv, NEW r \in Runner, Fill(r)
  PROVE  Inv'
<1>1. Types /\ TablesOK /\ Tables /\ Base /\ Claim(r) /\ Keeps(r) /\ Kept /\ Covered
  BY DEF Inv, Base, Types, TypeOK, Kept
<1>2. PICK e \in Entry, p \in Price, n \in Lots, c \in Fee : FillsIn(r, e, p, n, c)
  BY DEF Fill, FillsIn
<1>3. /\ Types' /\ Others(r)
      /\ p \in Nat /\ p > 0 /\ n \in Nat /\ n > 0 /\ c \in Nat
      /\ run'[r].at = "fill" /\ run'[r].rows = run[r].rows
      /\ run'[r].cash = run[r].cash - (p * n + c)
      /\ run[r].at = "fill" /\ run[r].cash \in Int /\ p * n <= run[r].cash
      /\ UNCHANGED <<part, sold, mark, mixes, cuts, resets>>
  <2>1. /\ Types' /\ Others(r)
        /\ p \in Nat /\ p > 0 /\ n \in Nat /\ n > 0 /\ c \in Nat
        /\ run'[r].at = "fill" /\ run'[r].rows = run[r].rows
        /\ run'[r].cash = run[r].cash - (p * n + c)
    BY <1>1, <1>2, FillTypes
  <2>2. run[r].cash \in Int
    BY <1>1, RunFields
  <2>3. run[r].at = "fill" /\ UNCHANGED <<part, sold, mark, mixes, cuts, resets>>
    BY DEF Fill
  <2>4. p * n <= run[r].cash
    BY <1>2 DEF FillsIn
  <2> QED
    BY <2>1, <2>2, <2>3, <2>4
<1>4. TablesOK'
  BY <1>3 DEF Types, TypeOK
<1>5. /\ pos[e] = NoRow /\ pos[e].status = "NONE"
      /\ part[e] = Nothing /\ sold[e] = 0 /\ part[e].qty = 0 /\ part[e].pnl = 0
  BY <1>1, <1>2 DEF FillsIn, NoRow, Tables, Nothing
<1>6. /\ pos'[e].status = "OPEN" /\ pos'[e].cost = p /\ pos'[e].qty = n /\ bought'[e] = n
      /\ \A f \in Entry : f # e => pos'[f] = pos[f] /\ bought'[f] = bought[f]
  BY <1>1, <1>2 DEF FillsIn, TablesOK
<1>7. Tables' /\ Steady
  <2>1. Tables'
    BY <1>1, <1>3, <1>6 DEF Tables
  <2>2. ASSUME NEW f \in Entry, pos[f].status # "NONE"
        PROVE  pos'[f] = pos[f] /\ bought'[f] = bought[f] /\ part'[f].qty >= part[f].qty
    BY <1>1, <1>3, <1>5, <1>6, <2>2, Numbers
  <2> QED
    BY <2>1, <2>2 DEF Steady, Alive
<1>8. DOMAIN run[r].rows = {} /\ DOMAIN run'[r].rows = {}
  BY <1>1, <1>3 DEF Claim
<1>9. Claim(r)' /\ Keeps(r)' /\ Still(r)'
  BY <1>3, <1>8 DEF Claim, Keeps, Still, Selling, InHand
<1>10. ASSUME NEW f \in Entry, Alive(f)' PROVE pos'[f].qty + part'[f].qty >= bought'[f]
  BY <1>1, <1>3, <1>5, <1>6, <1>10 DEF Alive, Kept
<1>11. ASSUME mixes' = 0 PROVE Sound(r)'
  <2>1. Sound(r)
    BY <1>3, <1>11, OtherIdle
  <2>2. \A f \in Entry : ClosedShares(f)' = ClosedShares(f)
    BY <1>3, <1>5, <1>6 DEF ClosedShares
  <2>3. \A f \in Entry : ~ InSale(r, f) /\ ~ Splits(r, f) /\ ~ InSale(r, f)' /\ ~ Splits(r, f)'
    BY <1>3 DEF InSale, Splits
  <2>4. run[r].cash <= Cash /\ p * n \in Int
    BY <1>3, <2>1 DEF Sound
  <2>5. Cash' = Cash - p * n /\ Cash \in Int
    <3>1. Elsewhere(e)
      BY <1>3, <1>6 DEF Elsewhere
    <3>2. Worth[e] = 0
      BY <1>1, <1>5, WorthOf
    <3>3. Worth'[e] = 0 - p * n
      BY <1>3, <1>4, <1>5, <1>6, <2>4, WorthOf
    <3> QED
      BY <1>1, <1>4, <2>4, <3>1, <3>2, <3>3, CashStep
  <2>6. run'[r].cash <= Cash' /\ Cash' >= 0
    BY <1>3, <2>4, <2>5
  <2>7. ASSUME cuts' = 0 PROVE Exact(r)' /\ Solvent(r)'
    <3>1. Exact(r)
      BY <1>3, <2>1, <2>7 DEF Sound
    <3>2. \A f \in Entry : Alive(f)' => pos'[f].qty + part'[f].qty = bought'[f]
      BY <1>3, <1>5, <1>6, <2>3, <3>1 DEF Exact, Alive
    <3>3. Exact(r)'
      BY <1>3, <2>2, <2>3, <3>1, <3>2 DEF Exact
    <3>4. Cash' + 0 >= 0 /\ run'[r].at # "shrink"
      BY <1>3, <2>5, <2>6
    <3> QED
      BY <3>3, <3>4 DEF Solvent
  <2>8. \A f \in Entry : pos'[f].status \in {"NONE", "GONE"} => part'[f] = Nothing
    BY <1>3, <1>6, <2>1 DEF Sound
  <2> QED
    BY <1>3, <2>1, <2>2, <2>3, <2>6, <2>7, <2>8 DEF Sound
<1>12. Covered'
  <2>1. \A f \in Entry : Owed(r, f) = 0 /\ Owed(r, f)' = 0
    BY <1>3 DEF Owed
  <2>2. \A f \in Entry : Closes(f)' => Closes(f)
    BY <1>3, <1>6 DEF Closes, Others
  <2>3. \A f \in Entry : pos'[f].status # "GONE" => pos[f].status # "GONE"
    BY <1>5, <1>6
  <2> QED
    BY <1>1, <1>3, <2>1, <2>2, <2>3, CoveredNext, Numbers
<1> QED
  BY <1>1, <1>3, <1>7, <1>9, <1>10, <1>11, <1>12, InvNext

(* What a runner knows of the position in its hands. *)
LEMMA Hands ==
  ASSUME Inv, NEW r \in Runner, run[r].at \in Selling
  PROVE  \E e \in Entry :
           /\ run[r].of = e /\ pos[e].status # "NONE" /\ e \notin DOMAIN run[r].rows
           /\ Row(r).qty \in Nat /\ Row(r).qty > 0 /\ Row(r).cost \in Nat
           /\ Shares(r) \in Nat /\ Shares(r) > 0 /\ Shares(r) <= Row(r).qty
           /\ Result(r) \in Int /\ Result(r) = (run[r].price - Row(r).cost) * Shares(r)
           /\ ~ Partial(r) => Shares(r) = Row(r).qty
           /\ Partial(r) => Shares(r) < Row(r).qty
           /\ run[r].price \in Nat
<1>1. Types /\ Claim(r)
  BY DEF Inv, Base
<1>2. HandOK(r) /\ run[r].price \in Nat
  BY <1>1, RunFields
<1>3. PICK e \in Entry : run[r].of = e
  BY <1>2 DEF HandOK
<1>4. pos[e].status # "NONE" /\ e \notin DOMAIN run[r].rows /\ Row(r).qty > 0
  BY <1>1, <1>3 DEF Claim
<1>5. /\ Row(r).qty \in Nat /\ Row(r).cost \in Nat /\ Shares(r) \in Nat
      /\ Result(r) \in Int /\ Result(r) = (run[r].price - Row(r).cost) * Shares(r)
      /\ ~ Partial(r) => Shares(r) = Row(r).qty
      /\ Partial(r) => Shares(r) >= 1 /\ Shares(r) < Row(r).qty
  BY <1>1, SharesType
<1>6. Shares(r) > 0 /\ Shares(r) <= Row(r).qty
  BY <1>4, <1>5
<1> QED
  BY <1>2, <1>3, <1>4, <1>5, <1>6

LEMMA SellTradeKeeps ==
  ASSUME Inv, NEW r \in Runner, SellTrade(r)
  PROVE  Inv'
<1>1. Types /\ TablesOK /\ Tables /\ Base /\ Claim(r) /\ Keeps(r) /\ Kept /\ Covered
  BY DEF Inv, Base, Types, TypeOK, Kept
<1>2. run[r].at = "sell" /\ run[r].at \in Selling
  BY DEF SellTrade, Selling
<1>3. PICK e \in Entry :
        /\ run[r].of = e /\ pos[e].status # "NONE" /\ e \notin DOMAIN run[r].rows
        /\ Row(r).qty \in Nat /\ Row(r).qty > 0
        /\ Shares(r) \in Nat /\ Shares(r) > 0
        /\ ~ Partial(r) => Shares(r) = Row(r).qty
  BY <1>2, Hands
<1> DEFINE to == IF Partial(r) THEN "split" ELSE "close"
<1>4. /\ run' \in [Runner -> RunState(ReadRows)] /\ Others(r)
      /\ run'[r].at = to /\ run'[r].of = e
      /\ run'[r].row = run[r].row /\ run'[r].rows = run[r].rows
      /\ Row(r)' = Row(r) /\ Shares(r)' = Shares(r) /\ (Partial(r)' <=> Partial(r))
      /\ HandOK(r)'
  <2>1. to \in Selling /\ Goes(r, to)
    BY DEF SellTrade, Selling
  <2> QED
    BY <1>1, <1>2, <1>3, <2>1, GoesOn
<1>5. /\ sold'[e] = sold[e] + Shares(r)
      /\ \A f \in Entry : f # e => sold'[f] = sold[f]
      /\ sold' \in [Entry -> Nat]
      /\ UNCHANGED <<pos, part, bought, mark, mixes, cuts, resets>>
  BY <1>1, <1>3 DEF SellTrade, TablesOK
<1>6. Types' /\ TablesOK'
  <2>1. TablesOK'
    BY <1>1, <1>5 DEF TablesOK
  <2> QED
    BY <1>1, <1>4, <2>1, TypesNext
<1>7. \A f \in Entry : /\ (Alive(f)' <=> Alive(f))
                       /\ Alive(f) => pos[f].qty + part[f].qty >= bought[f]
                       /\ ClosedShares(f)' = ClosedShares(f)
  BY <1>1, <1>5 DEF Alive, Kept, ClosedShares
<1>8. Tables' /\ Steady
  <2>1. Tables'
    BY <1>1, <1>3, <1>5 DEF Tables
  <2> QED
    BY <1>1, <1>5, <1>7, <2>1, Numbers DEF Steady
<1>9. Claim(r)'
  BY <1>1, <1>2, <1>3, <1>4, <1>5 DEF Claim, Row
<1>10. Keeps(r)'
  <2>1. \A f \in DOMAIN run'[r].rows : Alive(f)' => run'[r].rows[f].qty + part'[f].qty >= bought'[f]
    BY <1>1, <1>4, <1>5 DEF Keeps, Alive
  <2>2. Alive(e)' => Row(r)'.qty + part'[e].qty >= bought'[e]
    BY <1>1, <1>2, <1>3, <1>4, <1>5 DEF Keeps, Alive
  <2> QED
    BY <1>3, <1>4, <2>1, <2>2 DEF Keeps, Alive
<1>11. ASSUME mixes' = 0 PROVE Still(r)' /\ Sound(r)'
  <2>1. Sound(r) /\ Still(r)
    BY <1>2, <1>4, <1>5, <1>11, OtherIdle
  <2>2. Still(r)' /\ pos[e].status = "OPEN"
    BY <1>2, <1>3, <1>4, <1>5, <2>1 DEF Still, Current, InHand
  <2>3. \A f \in Entry : /\ ~ InSale(r, f) /\ ~ Splits(r, f) /\ ~ Splits(r, f)'
                         /\ InSale(r, f)' <=> f = e
    BY <1>2, <1>4 DEF InSale, Splits
  <2>4. sold[e] >= part[e].qty /\ ClosedShares(e) = part[e].qty + 0
    BY <1>1, <2>1, <2>2, Numbers DEF Sound, ClosedShares
  <2>5. /\ part[e].qty \in Nat /\ sold[e] \in Nat
        /\ sold'[e] >= part[e].qty + Shares(r) /\ sold'[e] >= ClosedShares(e)
    BY <1>1, <1>3, <1>5, <2>4, Numbers
  <2>6. ASSUME cuts' = 0 PROVE Exact(r)' /\ Solvent(r)'
    <3>1. Exact(r) /\ Solvent(r)
      BY <1>5, <2>1, <2>6 DEF Sound
    <3>2. sold'[e] = part[e].qty + Shares(r)
      BY <1>3, <1>5, <2>3, <2>4, <2>5, <3>1 DEF Exact
    <3>3. Exact(r)'
      BY <1>4, <1>5, <1>7, <2>3, <3>1, <3>2 DEF Exact
    <3>4. Cash' = Cash /\ run[r].at # "shrink" /\ run'[r].at # "shrink"
      BY <1>2, <1>4, <1>5, CashStays
    <3> QED
      BY <3>1, <3>3, <3>4 DEF Solvent
  <2>7. run'[r].at # "fill"
    BY <1>4
  <2>8. \A f \in Entry : sold'[f] >= ClosedShares(f)'
    BY <1>5, <1>7, <2>1, <2>5 DEF Sound
  <2> QED
    BY <1>4, <1>5, <2>1, <2>2, <2>3, <2>5, <2>6, <2>7, <2>8 DEF Sound
<1>12. Covered'
  <2>1. \A f \in Entry : /\ Owed(r, f) = 0
                         /\ f # e => Owed(r, f)' = 0
                         /\ Owed(r, e)' = IF Partial(r) THEN Shares(r) ELSE 0
    BY <1>2, <1>4 DEF Owed
  <2>2. ASSUME NEW f \in Entry, Closes(f)', ~ Closes(f)
        PROVE  f = e /\ ~ Partial(r)
    <3>1. PICK q \in Runner : run'[q].at = "close" /\ run'[q].of = f
      BY <1>5, <2>2 DEF Closes
    <3>2. q = r
      BY <2>2, <3>1, <1>4 DEF Closes, Others
    <3> QED
      BY <1>4, <3>1, <3>2
  <2>3. ASSUME NEW f \in Entry
        PROVE  /\ sold'[f] - part'[f].qty - Owed(r, f)' >= sold[f] - part[f].qty - Owed(r, f)
               /\ Closes(f)' /\ ~ Closes(f) =>
                    sold'[f] - part'[f].qty - Owed(r, f)' >= sold[f] - part[f].qty - Owed(r, f) + 1
    <3>1. /\ part'[f].qty = part[f].qty /\ part[f].qty \in Nat /\ sold[f] \in Nat
      BY <1>1, <1>5, Numbers
    <3>2. CASE f = e
      BY <1>3, <1>5, <2>1, <2>2, <3>1, <3>2
    <3>3. CASE f # e
      BY <1>5, <2>1, <2>2, <3>1, <3>3
    <3> QED
      BY <3>2, <3>3
  <2> QED
    BY <1>1, <1>4, <1>5, <1>6, <2>3, CoveredNext
<1> QED
  BY <1>1, <1>2, <1>4, <1>5, <1>6, <1>7, <1>8, <1>9, <1>10, <1>11, <1>12, InvNext

LEMMA AddPartKeeps ==
  ASSUME Inv, NEW r \in Runner, AddPart(r)
  PROVE  Inv'
<1>1. Types /\ TablesOK /\ Tables /\ Base /\ Claim(r) /\ Keeps(r) /\ Kept /\ Covered
  BY DEF Inv, Base, Types, TypeOK, Kept
<1>2. run[r].at = "split" /\ run[r].at \in Selling
  BY DEF AddPart, Selling
<1>3. PICK e \in Entry :
        /\ run[r].of = e /\ pos[e].status # "NONE" /\ e \notin DOMAIN run[r].rows
        /\ Row(r).qty \in Nat /\ Row(r).qty > 0 /\ Row(r).cost \in Nat
        /\ Shares(r) \in Nat /\ Shares(r) > 0 /\ Shares(r) <= Row(r).qty
        /\ Result(r) \in Int /\ Result(r) = (run[r].price - Row(r).cost) * Shares(r)
        /\ run[r].price \in Nat
  BY <1>2, Hands
<1>4. /\ run' \in [Runner -> RunState(ReadRows)] /\ Others(r)
      /\ run'[r].at = "shrink" /\ run'[r].of = e
      /\ run'[r].row = run[r].row /\ run'[r].rows = run[r].rows
      /\ Row(r)' = Row(r) /\ Shares(r)' = Shares(r)
      /\ HandOK(r)'
  <2>1. "shrink" \in Selling /\ Goes(r, "shrink") /\ Partial(r)
    BY <1>1, <1>2, RunFields DEF AddPart, Selling, HandOK
  <2> QED
    BY <1>1, <1>2, <1>3, <2>1, GoesOn
<1>5. PICK c \in Charge(r) :
         part' = [part EXCEPT ![e] = [qty |-> @.qty + Shares(r), pnl |-> @.pnl + Result(r) - c]]
  BY <1>3 DEF AddPart
<1>6. c \in Nat /\ c <= run[r].price * Shares(r)
  BY ConstantsAssumption DEF Charge, ConstantsAssumption
<1>7. /\ part'[e].qty = part[e].qty + Shares(r) /\ part'[e].pnl = part[e].pnl + Result(r) - c
      /\ \A f \in Entry : f # e => part'[f] = part[f]
      /\ part' \in [Entry -> [qty : Nat, pnl : Int]]
      /\ UNCHANGED <<pos, bought, sold, mark, mixes, cuts, resets>>
  <2>1. part' = [part EXCEPT ![e] = [qty |-> @.qty + Shares(r), pnl |-> @.pnl + Result(r) - c]]
    BY <1>5
  <2>2. /\ part \in [Entry -> [qty : Nat, pnl : Int]]
        /\ part[e].qty \in Nat /\ part[e].pnl \in Int
    BY <1>1, Numbers DEF TablesOK
  <2>3. [qty |-> part[e].qty + Shares(r), pnl |-> part[e].pnl + Result(r) - c]
          \in [qty : Nat, pnl : Int]
    BY <1>3, <1>6, <2>2
  <2>4. UNCHANGED <<pos, bought, sold, mark, mixes, cuts, resets>>
    BY DEF AddPart
  <2> QED
    BY <2>1, <2>2, <2>3, <2>4
<1>8. Types' /\ TablesOK'
  <2>1. TablesOK'
    BY <1>1, <1>7 DEF TablesOK
  <2> QED
    BY <1>1, <1>4, <2>1, TypesNext
<1>9. \A f \in Entry : /\ (Alive(f)' <=> Alive(f)) /\ part[f].qty \in Nat
                       /\ part'[f].qty >= part[f].qty
                       /\ pos[f].qty \in Nat /\ bought[f] \in Nat /\ sold[f] \in Nat
                       /\ Alive(f) => pos[f].qty + part[f].qty >= bought[f]
  <2>1. ASSUME NEW f \in Entry
        PROVE  /\ part[f].qty \in Nat /\ pos[f].qty \in Nat /\ bought[f] \in Nat
               /\ sold[f] \in Nat /\ part'[f].qty >= part[f].qty
    <3>1. part[f].qty \in Nat /\ pos[f].qty \in Nat /\ bought[f] \in Nat /\ sold[f] \in Nat
      BY <1>1, Numbers
    <3> QED
      BY <1>3, <1>7, <3>1
  <2> QED
    BY <1>1, <1>7, <2>1 DEF Alive, Kept
<1>10. Tables' /\ Steady
  <2>1. Tables'
    BY <1>1, <1>3, <1>7 DEF Tables
  <2> QED
    BY <1>7, <1>9, <2>1 DEF Steady
<1>11. Claim(r)'
  BY <1>1, <1>2, <1>3, <1>4, <1>7 DEF Claim, Row
<1>12. Keeps(r)'
  <2>1. ASSUME NEW f \in DOMAIN run[r].rows, Alive(f)'
        PROVE  run[r].rows[f].qty + part'[f].qty >= bought'[f]
    <3>1. f \in Entry /\ f # e /\ Alive(f)
      BY <1>1, <1>3, <1>9, <2>1, ReadNumbers
    <3> QED
      BY <1>1, <1>7, <3>1 DEF Keeps
  <2>2. Alive(e)' => Row(r)'.qty - Shares(r)' + part'[e].qty >= bought'[e]
    <3>1. Alive(e) => Row(r).qty + part[e].qty >= bought[e]
      BY <1>1, <1>2, <1>3 DEF Keeps
    <3> QED
      BY <1>3, <1>4, <1>7, <1>9, <3>1
  <2> QED
    BY <1>3, <1>4, <2>1, <2>2 DEF Keeps, Alive
<1>13. \A f \in Entry : Alive(f)' => pos'[f].qty + part'[f].qty >= bought'[f]
  <2>1. ASSUME NEW f \in Entry, Alive(f)' PROVE pos[f].qty + part'[f].qty >= bought[f]
    <3>1. /\ part[f].qty \in Nat /\ part'[f].qty >= part[f].qty
          /\ pos[f].qty \in Nat /\ bought[f] \in Nat /\ pos[f].qty + part[f].qty >= bought[f]
      BY <1>9, <2>1
    <3>2. part'[f].qty \in Int
      BY <1>8, Numbers
    <3> QED
      BY <3>1, <3>2
  <2> QED
    BY <1>7, <2>1
<1>14. ASSUME mixes' = 0 PROVE Still(r)' /\ Sound(r)'
  <2>1. Sound(r) /\ Still(r)
    BY <1>2, <1>4, <1>7, <1>14, OtherIdle
  <2>2. /\ Still(r)' /\ pos[e].status = "OPEN"
        /\ pos[e].cost = Row(r).cost /\ pos[e].qty = Row(r).qty
    BY <1>2, <1>3, <1>4, <1>7, <2>1 DEF Still, Current, InHand
  <2>3. \A f \in Entry : /\ InSale(r, f) <=> f = e
                         /\ ~ Splits(r, f) /\ ~ InSale(r, f)'
                         /\ Splits(r, f)' <=> f = e
    BY <1>2, <1>3, <1>4 DEF InSale, Splits
  <2>4. sold[e] >= part[e].qty + Shares(r)
    BY <2>1, <2>3 DEF Sound
  <2>5. /\ \A f \in Entry : f # e => ClosedShares(f)' = ClosedShares(f)
        /\ ClosedShares(e)' = part[e].qty + Shares(r)
    <3>1. ClosedShares(e)' = part'[e].qty + 0
      BY <1>7, <2>2 DEF ClosedShares
    <3>2. \A f \in Entry : f # e => ClosedShares(f)' = ClosedShares(f)
      BY <1>7 DEF ClosedShares
    <3>3. part[e].qty \in Nat
      BY <1>9
    <3> QED
      BY <1>3, <1>7, <3>1, <3>2, <3>3
  <2>6. \A f \in Entry : sold'[f] >= ClosedShares(f)'
    BY <1>7, <2>1, <2>4, <2>5 DEF Sound
  <2>7. ASSUME cuts' = 0 PROVE Exact(r)' /\ Solvent(r)'
    <3>1. Exact(r) /\ Solvent(r)
      BY <1>7, <2>1, <2>7 DEF Sound
    <3>2. sold[e] = part[e].qty + Shares(r) /\ pos[e].qty + part[e].qty = bought[e]
      BY <2>2, <2>3, <3>1 DEF Exact, Alive
    <3>3. pos'[e].qty + part'[e].qty = bought'[e] + Shares(r)'
      BY <1>3, <1>4, <1>7, <1>9, <3>2
    <3>4. Exact(r)'
      <4>1. ASSUME NEW f \in Entry, Alive(f)', ~ Splits(r, f)'
            PROVE  pos'[f].qty + part'[f].qty = bought'[f]
        <5>1. f # e /\ Alive(f) /\ ~ Splits(r, f)
          BY <1>9, <2>3, <4>1
        <5> QED
          BY <1>7, <3>1, <5>1 DEF Exact
      <4>2. \A f \in Entry : sold'[f] = ClosedShares(f)'
        BY <1>7, <2>3, <2>5, <3>1, <3>2 DEF Exact
      <4> QED
        BY <2>3, <3>3, <4>1, <4>2 DEF Exact
    <3>5. Solvent(r)'
      <4>1. Cash >= 0 /\ Cash \in Int
        <5>1. Cash \in Int
          BY <1>1, CashType
        <5> QED
          BY <1>2, <3>1, <5>1 DEF Solvent
      <4>2. Cash' = Cash + Result(r) - c
        <5> DEFINE w == pos[e].cost * pos[e].qty
        <5>1. Elsewhere(e)
          BY <1>7 DEF Elsewhere
        <5>2. /\ Worth[e] = part[e].pnl - w
              /\ Worth'[e] = part'[e].pnl - w
          BY <1>1, <1>7, <1>8, <2>2, WorthOf
        <5>3. w \in Int /\ part[e].pnl \in Int
          BY <1>1, Numbers
        <5>4. Cash' = Cash + Worth'[e] - Worth[e]
          BY <1>1, <1>8, <5>1, CashStep
        <5> HIDE DEF w
        <5>5. part'[e].pnl = part[e].pnl + Result(r) - c /\ Result(r) \in Int /\ c \in Int
          BY <1>3, <1>7, <1>6
        <5> QED
          BY <4>1, <5>2, <5>3, <5>4, <5>5
      <4>3. Cash' + Row(r).cost * Shares(r) >= 0
        <5> DEFINE a == run[r].price * Shares(r)
                   b == Row(r).cost * Shares(r)
        <5>1. a \in Nat /\ b \in Nat /\ Result(r) + b = a
          BY <1>3, Products
        <5>2. c \in Nat /\ c <= a
          BY <1>6
        <5> HIDE DEF a, b
        <5>3. Cash' + b >= 0
          BY <1>3, <4>1, <4>2, <5>1, <5>2
        <5> QED
          BY <5>3 DEF b
      <4> QED
        BY <1>4, <4>3 DEF Solvent
    <3> QED
      BY <3>4, <3>5
  <2>8. \A f \in Entry : pos'[f].status \in {"NONE", "GONE"} => part'[f] = Nothing
    BY <1>7, <2>1, <2>2 DEF Sound
  <2>9. run'[r].at # "fill"
    BY <1>4
  <2> QED
    BY <2>2, <2>3, <2>6, <2>7, <2>8, <2>9 DEF Sound
<1>15. Covered'
  <2>1. \A f \in Entry : /\ Owed(r, f)' = 0
                         /\ f # e => Owed(r, f) = 0
                         /\ Owed(r, e) = Shares(r)
    BY <1>2, <1>3, <1>4 DEF Owed
  <2>2. \A f \in Entry : Closes(f)' => Closes(f)
    BY <1>4, <1>7 DEF Closes, Others
  <2>3. ASSUME NEW f \in Entry
        PROVE  sold'[f] - part'[f].qty - Owed(r, f)' >= sold[f] - part[f].qty - Owed(r, f)
    <3>1. CASE f = e
      BY <1>3, <1>7, <1>9, <2>1, <3>1
    <3>2. CASE f # e
      BY <1>7, <1>9, <2>1, <3>2
    <3> QED
      BY <3>1, <3>2
  <2> QED
    BY <1>1, <1>4, <1>7, <1>8, <2>2, <2>3, CoveredNext
<1> QED
  BY <1>1, <1>2, <1>4, <1>7, <1>8, <1>10, <1>11, <1>12, <1>13, <1>14, <1>15, InvNext

(* A sale writes its row and is booked: all but what the tables say.       *)
LEMMA WritesKeeps ==
  ASSUME Inv, NEW r \in Runner, run[r].at \in {"close", "shrink"},
         NEW e \in Entry, run[r].of = e, Alive(e),
         NEW row \in PosRow, row.qty > 0, row.cost > 0, row.status \in {"OPEN", "CLOSED"},
         row.qty + part[e].qty >= bought[e],
         row.status = "CLOSED" => run[r].at = "close" \/ pos[e].status = "CLOSED",
         pos' = [pos EXCEPT ![e] = row], Booked(r),
         UNCHANGED <<part, bought, sold, mark, mixes, cuts, resets>>,
         mixes' = 0 => Sound(r)'
  PROVE  Inv'
<1>1. Types /\ TablesOK /\ Tables /\ Base /\ Claim(r) /\ Keeps(r) /\ Kept /\ Covered
  BY DEF Inv, Base, Types, TypeOK, Kept
<1>2. run[r].at \in Selling
  BY DEF Selling
<1>3. /\ run' \in [Runner -> RunState(ReadRows)] /\ Others(r)
      /\ run'[r].at \in {"use", "exits", "judge"} /\ run'[r].rows = run[r].rows
      /\ run'[r].at = "use" => run'[r].of = run[r].of /\ run'[r].row = run[r].row
      /\ HandOK(r)'
  BY <1>1, <1>2, IsBooked
<1>4. TablesOK' /\ Types'
  <2>1. TablesOK'
    BY <1>1, RowTables
  <2> QED
    BY <1>1, <1>3, <2>1, TypesNext
<1>5. pos'[e] = row /\ \A f \in Entry : f # e => pos'[f] = pos[f]
  BY <1>1 DEF TablesOK
<1>6. Tables'
  BY <1>1, <1>5 DEF Tables
<1>7. \A f \in Entry : /\ (Alive(f)' <=> Alive(f)) /\ (pos'[f].status = "NONE" => pos[f].status = "NONE")
                       /\ Alive(f)' => pos'[f].qty + part'[f].qty >= bought'[f]
  BY <1>1, <1>5 DEF Alive, Kept
<1>8. Steady
  <2>1. \A f \in Entry : part[f].qty \in Nat
    BY <1>1, Numbers
  <2> QED
    BY <1>7, <2>1 DEF Steady
<1>9. Claim(r)'
  <2>1. \A f \in DOMAIN run[r].rows : f \in Entry
    BY <1>1, ReadNumbers
  <2> QED
    BY <1>1, <1>2, <1>3, <1>7, <2>1 DEF Claim, Selling, Row
<1>10. Keeps(r)'
  <2>1. ASSUME NEW f \in DOMAIN run[r].rows, Alive(f)'
        PROVE  run[r].rows[f].qty + part'[f].qty >= bought'[f]
    BY <1>1, <1>7, <2>1, ReadNumbers DEF Keeps
  <2> QED
    BY <1>3, <2>1 DEF Keeps
<1>11. ASSUME mixes' = 0 PROVE Still(r)'
  <2>1. Still(r) /\ e \notin DOMAIN run[r].rows
    BY <1>1, <1>2, <1>3, <1>11, OtherIdle DEF Claim
  <2>2. ASSUME NEW f \in DOMAIN run[r].rows
        PROVE  pos'[f] = pos[f] /\ Current(f, run[r].rows[f])
    BY <1>1, <1>5, <2>1, ReadNumbers DEF Still
  <2> QED
    BY <1>3, <2>2 DEF Still, Current, InHand
<1>12. Covered'
  <2>1. \A f \in Entry : Owed(r, f) = 0 /\ Owed(r, f)' = 0
    BY <1>3 DEF Owed
  <2>2. ASSUME NEW f \in Entry, Closes(f)' PROVE Closes(f)
    <3>1. CASE pos'[f].status = "CLOSED"
      BY <1>5, <3>1 DEF Closes
    <3>2. CASE \E q \in Runner : run'[q].at = "close" /\ run'[q].of = f
      BY <1>3, <3>2 DEF Closes, Others
    <3> QED
      BY <2>2, <3>1, <3>2 DEF Closes
  <2>3. \A f \in Entry : pos'[f].status # "GONE" => pos[f].status # "GONE"
    BY <1>5 DEF Alive
  <2> QED
    BY <1>1, <1>3, <1>4, <2>1, <2>2, <2>3, CoveredNext, Numbers
<1> QED
  BY <1>1, <1>3, <1>4, <1>6, <1>7, <1>8, <1>9, <1>10, <1>11, <1>12, InvNext

(* The row in a runner's hands is there, or a reset has taken it away.     *)
LEMMA AliveOrGone ==
  ASSUME Inv, NEW e \in Entry, pos[e].status # "NONE", pos[e] # Gone
  PROVE  Alive(e)
  BY Numbers DEF Inv, Base, Types, TypeOK, Tables, Alive, PosRow

LEMMA CloseRowKeeps ==
  ASSUME Inv, NEW r \in Runner, CloseRow(r)
  PROVE  Inv'
<1>1. Types /\ TablesOK /\ Kept /\ HandOK(r)
  BY RunFields DEF Inv, Base, Types, TypeOK, Kept
<1>2. run[r].at = "close" /\ run[r].at \in Selling /\ run[r].at \in InHand
  BY DEF CloseRow, Selling, InHand
<1>3. PICK e \in Entry :
        /\ run[r].of = e /\ pos[e].status # "NONE"
        /\ Row(r).qty \in Nat /\ Row(r).cost \in Nat
        /\ Result(r) \in Int /\ Result(r) = (run[r].price - Row(r).cost) * Shares(r)
        /\ ~ Partial(r) => Shares(r) = Row(r).qty
        /\ run[r].price \in Nat
  BY <1>2, Hands
<1>4. CASE pos[e] = Gone
  BY <1>2, <1>3, <1>4, EndsOnGone DEF CloseRow
<1>5. CASE pos[e] # Gone
  <2>1. Alive(e)
    BY <1>3, <1>5, AliveOrGone
  <2>2. PICK c \in Charge(r) :
           pos' = [pos EXCEPT ![e] = [@ EXCEPT !.status = "CLOSED", !.pnl = Result(r) - c]]
    BY <1>3, <1>5 DEF CloseRow
  <2>3. c \in Nat /\ c <= run[r].price * Shares(r)
    BY ConstantsAssumption DEF Charge, ConstantsAssumption
  <2> DEFINE row == [pos[e] EXCEPT !.status = "CLOSED", !.pnl = Result(r) - c]
  <2>4. /\ row \in PosRow /\ row.qty = pos[e].qty /\ row.cost = pos[e].cost
        /\ row.status = "CLOSED" /\ row.pnl = Result(r) - c
    <3>1. pos[e] \in PosRow /\ Result(r) - c \in Int
      BY <1>1, <1>3, <2>3, Numbers
    <3> QED
      BY <3>1 DEF PosRow
  <2>5. pos' = [pos EXCEPT ![e] = row] /\ Booked(r)
    BY <1>3, <1>5, <2>2 DEF CloseRow
  <2> HIDE DEF row
  <2>6. row.qty > 0 /\ row.cost > 0 /\ row.qty + part[e].qty >= bought[e]
    BY <1>1, <2>1, <2>4 DEF TablesOK, Kept, Alive
  <2>7. UNCHANGED <<part, bought, sold, mark, mixes, cuts, resets>>
    BY DEF CloseRow
  <2>8. /\ Others(r) /\ run'[r].at \in {"use", "exits", "judge"}
    BY <1>1, <1>2, <2>5, IsBooked
  <2>9. pos'[e] = row /\ \A f \in Entry : f # e => pos'[f] = pos[f]
    BY <1>1, <2>5 DEF TablesOK
  <2>10. TablesOK'
    BY <1>1, <2>4, <2>5, <2>6, <2>7, RowTables
  <2>11. ASSUME mixes' = 0 PROVE Sound(r)'
    <3>1. Sound(r) /\ Still(r)
      BY <1>2, <2>7, <2>8, <2>11, OtherIdle
    <3>2. /\ pos[e].status = "OPEN" /\ pos[e].cost = Row(r).cost /\ pos[e].qty = Row(r).qty
          /\ Shares(r) = Row(r).qty
      BY <1>1, <1>2, <1>3, <3>1 DEF Still, Current, HandOK
    <3>3. \A f \in Entry : /\ InSale(r, f) <=> f = e
                           /\ ~ Splits(r, f) /\ ~ InSale(r, f)' /\ ~ Splits(r, f)'
      BY <1>2, <1>3, <2>8 DEF InSale, Splits
    <3>4. /\ \A f \in Entry : f # e => ClosedShares(f)' = ClosedShares(f)
          /\ ClosedShares(e)' = part[e].qty + Shares(r)
      BY <2>4, <2>7, <2>9, <3>2 DEF ClosedShares
    <3>5. \A f \in Entry : sold'[f] >= ClosedShares(f)'
      BY <2>7, <3>1, <3>3, <3>4 DEF Sound
    <3>6. \A f \in Entry : pos'[f].status \in {"NONE", "GONE"} => part'[f] = Nothing
      BY <2>4, <2>7, <2>9, <3>1 DEF Sound
    <3>7. ASSUME cuts' = 0 PROVE Exact(r)' /\ Solvent(r)'
      <4>1. Exact(r) /\ Solvent(r)
        BY <2>7, <3>1, <3>7 DEF Sound
      <4>2. ASSUME NEW f \in Entry, Alive(f)'
            PROVE  pos'[f].qty + part'[f].qty = bought'[f]
        <5>1. CASE f = e
          BY <2>1, <2>4, <2>7, <2>9, <3>3, <4>1, <5>1 DEF Exact
        <5>2. CASE f # e
          BY <2>7, <2>9, <3>3, <4>1, <4>2, <5>2 DEF Exact, Alive
        <5> QED
          BY <5>1, <5>2
      <4>3. \A f \in Entry : sold'[f] = ClosedShares(f)'
        BY <2>7, <3>3, <3>4, <4>1 DEF Exact
      <4>4. Exact(r)'
        BY <3>3, <4>2, <4>3 DEF Exact
      <4>5. Cash >= 0 /\ Cash \in Int
        <5>1. Cash \in Int
          BY <1>1, CashType
        <5> QED
          BY <1>2, <4>1, <5>1 DEF Solvent
      <4>6. Cash' + 0 >= 0
        <5> DEFINE a == run[r].price * Shares(r)
                   b == Row(r).cost * Shares(r)
        <5>1. a \in Nat /\ b \in Nat /\ Result(r) + b = a
          BY <1>3, <3>2, Products
        <5>2. c \in Nat /\ c <= a
          BY <2>3
        <5>3. Elsewhere(e)
          BY <2>7, <2>9 DEF Elsewhere
        <5>4. Worth[e] = part[e].pnl - b /\ Worth'[e] = part[e].pnl + (Result(r) - c)
          BY <1>1, <2>4, <2>7, <2>9, <2>10, <3>2, WorthOf
        <5>5. Cash' = Cash + Worth'[e] - Worth[e] /\ part[e].pnl \in Int
          BY <1>1, <2>10, <5>3, CashStep, Numbers
        <5> HIDE DEF a, b
        <5>6. Result(r) \in Int /\ Result(r) - c + b >= 0
          BY <1>3, <5>1, <5>2
        <5>7. Worth'[e] - Worth[e] = Result(r) - c + b
          BY <5>1, <5>4, <5>5, <5>6, <5>2
        <5> QED
          BY <4>5, <5>1, <5>4, <5>5, <5>6, <5>7, <5>2
      <4>7. run'[r].at # "shrink"
        BY <2>8
      <4> QED
        BY <4>4, <4>6, <4>7 DEF Solvent
    <3> QED
      BY <2>8, <3>3, <3>5, <3>6, <3>7 DEF Sound
  <2> QED
    BY <1>2, <1>3, <2>1, <2>4, <2>5, <2>6, <2>7, <2>11, WritesKeeps
<1> QED
  BY <1>4, <1>5

LEMMA ShrinkKeeps ==
  ASSUME Inv, NEW r \in Runner, Shrink(r)
  PROVE  Inv'
<1>1. Types /\ TablesOK /\ Kept /\ Keeps(r) /\ HandOK(r)
  BY RunFields DEF Inv, Base, Types, TypeOK, Kept
<1>2. run[r].at = "shrink" /\ run[r].at \in Selling /\ run[r].at \in InHand
  BY DEF Shrink, Selling, InHand
<1>3. PICK e \in Entry :
        /\ run[r].of = e /\ pos[e].status # "NONE"
        /\ Row(r).qty \in Nat /\ Row(r).cost \in Nat /\ Shares(r) \in Nat
        /\ Partial(r) => Shares(r) < Row(r).qty
  BY <1>2, Hands
<1>4. CASE pos[e] = Gone
  BY <1>2, <1>3, <1>4, EndsOnGone DEF Shrink
<1>5. CASE pos[e] # Gone
  <2>1. Alive(e) /\ Row(r).qty - Shares(r) \in Nat /\ Row(r).qty - Shares(r) > 0
    BY <1>1, <1>2, <1>3, <1>5, AliveOrGone DEF HandOK
  <2> DEFINE row == [pos[e] EXCEPT !.qty = Row(r).qty - Shares(r)]
  <2>2. /\ row \in PosRow /\ row.qty = Row(r).qty - Shares(r) /\ row.cost = pos[e].cost
        /\ row.status = pos[e].status /\ row.pnl = pos[e].pnl
    <3>1. pos[e] \in PosRow
      BY <1>1, Numbers
    <3> QED
      BY <2>1, <3>1 DEF PosRow
  <2>3. pos' = [pos EXCEPT ![e] = row] /\ Booked(r)
    BY <1>3, <1>5 DEF Shrink
  <2> HIDE DEF row
  <2>4. row.qty > 0 /\ row.cost > 0 /\ row.qty + part[e].qty >= bought[e]
    BY <1>1, <1>2, <1>3, <2>1, <2>2 DEF TablesOK, Keeps, Alive
  <2>5. UNCHANGED <<part, bought, sold, mark, mixes, cuts, resets>>
    BY DEF Shrink
  <2>6. /\ Others(r) /\ run'[r].at \in {"use", "exits", "judge"}
    BY <1>1, <1>2, <2>3, IsBooked
  <2>7. pos'[e] = row /\ \A f \in Entry : f # e => pos'[f] = pos[f]
    BY <1>1, <2>3 DEF TablesOK
  <2>8. TablesOK'
    BY <1>1, <2>2, <2>3, <2>4, <2>5, RowTables
  <2>9. ASSUME mixes' = 0 PROVE Sound(r)'
    <3>1. Sound(r) /\ Still(r)
      BY <1>2, <2>5, <2>6, <2>9, OtherIdle
    <3>2. pos[e].status = "OPEN" /\ pos[e].cost = Row(r).cost /\ pos[e].qty = Row(r).qty
      BY <1>2, <1>3, <3>1 DEF Still, Current
    <3>3. \A f \in Entry : /\ Splits(r, f) <=> f = e
                           /\ ~ InSale(r, f) /\ ~ InSale(r, f)' /\ ~ Splits(r, f)'
      BY <1>2, <1>3, <2>6 DEF InSale, Splits
    <3>4. \A f \in Entry : ClosedShares(f)' = ClosedShares(f)
      BY <2>2, <2>5, <2>7, <3>2 DEF ClosedShares
    <3>5. \A f \in Entry : sold'[f] >= ClosedShares(f)'
      BY <2>5, <3>1, <3>4 DEF Sound
    <3>6. \A f \in Entry : pos'[f].status \in {"NONE", "GONE"} => part'[f] = Nothing
      BY <2>2, <2>5, <2>7, <3>1 DEF Sound
    <3>7. ASSUME cuts' = 0 PROVE Exact(r)' /\ Solvent(r)'
      <4>1. Exact(r) /\ Solvent(r)
        BY <2>5, <3>1, <3>7 DEF Sound
      <4>2. ASSUME NEW f \in Entry, Alive(f)'
            PROVE  pos'[f].qty + part'[f].qty = bought'[f]
        <5>1. CASE f = e
          <6>1. pos[e].qty + part[e].qty = bought[e] + Shares(r)
            BY <3>3, <4>1 DEF Exact
          <6>2. part[e].qty \in Nat /\ bought[e] \in Nat
            BY <1>1, Numbers
          <6> QED
            BY <1>3, <2>2, <2>5, <2>7, <3>2, <5>1, <6>1, <6>2
        <5>2. CASE f # e
          BY <2>5, <2>7, <3>3, <4>1, <4>2, <5>2 DEF Exact, Alive
        <5> QED
          BY <5>1, <5>2
      <4>3. \A f \in Entry : sold'[f] = ClosedShares(f)'
        BY <2>5, <3>3, <3>4, <4>1 DEF Exact
      <4>4. Exact(r)'
        BY <3>3, <4>2, <4>3 DEF Exact
      <4>5. Cash' + 0 >= 0
        <5> DEFINE b == Row(r).cost * Shares(r)
                   w == Row(r).cost * Row(r).qty
                   v == Row(r).cost * (Row(r).qty - Shares(r))
        <5>1. b \in Nat /\ w \in Nat /\ v \in Int /\ w - v = b
          BY <1>3, <2>1, Products
        <5>2. Elsewhere(e)
          BY <2>5, <2>7 DEF Elsewhere
        <5>3. Worth[e] = part[e].pnl - w /\ Worth'[e] = part[e].pnl - v
          BY <1>1, <2>2, <2>5, <2>7, <2>8, <3>2, WorthOf
        <5>4. /\ Cash' = Cash + Worth'[e] - Worth[e] /\ part[e].pnl \in Int /\ Cash \in Int
          BY <1>1, <2>8, <5>2, CashStep, Numbers
        <5>5. Cash + b >= 0
          BY <1>2, <4>1 DEF Solvent
        <5> HIDE DEF b, w, v
        <5> QED
          BY <5>1, <5>3, <5>4, <5>5
      <4>7. run'[r].at # "shrink"
        BY <2>6
      <4> QED
        BY <4>4, <4>5, <4>7 DEF Solvent
    <3> QED
      BY <2>6, <3>3, <3>5, <3>6, <3>7 DEF Sound
  <2> QED
    BY <1>2, <1>3, <2>1, <2>2, <2>3, <2>4, <2>5, <2>9, WritesKeeps DEF Alive
<1> QED
  BY <1>4, <1>5

LEMMA ValueKeeps ==
  ASSUME Inv, NEW r \in Runner, Value(r)
  PROVE  Inv'
<1>1. Types /\ TablesOK /\ Tables /\ Base /\ Claim(r) /\ Keeps(r) /\ Kept /\ Covered
  BY DEF Inv, Base, Types, TypeOK, Kept
<1>2. run[r].at = "value" /\ UNCHANGED <<part, bought, sold, mark, mixes, cuts, resets>>
  BY DEF Value
<1>3. PICK e \in DOMAIN run[r].rows, p \in Price :
       IF pos[e] = Gone THEN Becomes(r, Idle) /\ UNCHANGED pos
       ELSE /\ pos' = IF pos[e].status # "CLOSED" THEN pos
                      ELSE [pos EXCEPT ![e] = [@ EXCEPT !.pnl =
                              (p - run[r].rows[e].cost) * run[r].rows[e].qty]]
            /\ Passes(r, e)
  BY DEF Value
<1>4. e \in Entry /\ run[r].rows[e].qty \in Nat /\ run[r].rows[e].cost \in Nat /\ p \in Nat
  BY <1>1, ReadNumbers, ConstantsAssumption DEF ConstantsAssumption
<1>5. CASE pos[e] = Gone
  BY <1>2, <1>3, <1>4, <1>5, EndsOnGone
<1>6. CASE pos[e] # Gone /\ pos[e].status # "CLOSED"
  BY <1>1, <1>2, <1>3, <1>6, PassesKeeps DEF TablesOK
<1>7. CASE pos[e].status = "CLOSED"
  <2>1. pos[e] # Gone
    BY <1>7 DEF Gone, NoRow
  <2>2. mixes # 0
    BY <1>7 DEF Inv, Fresh, Still, Current
  <2> DEFINE pnl == (p - run[r].rows[e].cost) * run[r].rows[e].qty
             row == [pos[e] EXCEPT !.pnl = pnl]
  <2>3. pos' = [pos EXCEPT ![e] = row] /\ Passes(r, e)
    BY <1>3, <1>7, <2>1
  <2>4. pnl \in Int
    BY <1>4
  <2> HIDE DEF pnl
  <2>5. /\ row \in PosRow /\ row.qty = pos[e].qty /\ row.cost = pos[e].cost
        /\ row.status = pos[e].status
    <3>1. pos[e] \in PosRow
      BY <1>1, <1>4, Numbers
    <3> QED
      BY <2>4, <3>1 DEF PosRow
  <2> HIDE DEF row
  <2>6. TablesOK'
    <3>1. row.qty > 0 /\ row.cost > 0
      BY <1>1, <1>4, <1>7, <2>5 DEF TablesOK
    <3> QED
      BY <1>1, <1>2, <1>4, <2>3, <2>5, <3>1, RowTables
  <2>7. /\ run' \in [Runner -> RunState(ReadRows)] /\ Others(r)
        /\ run'[r].at = "value" /\ HandOK(r)'
        /\ DOMAIN run'[r].rows = DOMAIN run[r].rows \ {e}
        /\ \A f \in DOMAIN run[r].rows \ {e} : run'[r].rows[f] = run[r].rows[f]
    <3> DEFINE rows == run[r].rows
    <3>1. rows \in ReadRows
      BY <1>1, RunFields
    <3>2. /\ DOMAIN Without(rows, e) = DOMAIN rows \ {e}
          /\ \A f \in DOMAIN rows \ {e} : Without(rows, e)[f] = rows[f]
      BY <3>1, WithoutType
    <3>3. /\ run' \in [Runner -> RunState(ReadRows)] /\ Others(r)
          /\ run'[r].at = run[r].at /\ run'[r].rows = Without(rows, e) /\ HandOK(r)'
      BY <1>1, <1>2, <2>3, PassesRow DEF Selling
    <3> QED
      BY <1>2, <3>2, <3>3
  <2>8. Types'
    BY <1>1, <2>6, <2>7, TypesNext
  <2>9. \A f \in Entry : /\ pos'[f].status = pos[f].status /\ pos'[f].qty = pos[f].qty
                         /\ pos[f].status # "CLOSED" => pos'[f] = pos[f]
    BY <1>1, <1>4, <1>7, <2>3, <2>5 DEF TablesOK
  <2>10. Tables'
    BY <1>1, <1>2, <2>9 DEF Tables
  <2>11. Steady /\ \A f \in Entry : Alive(f)' => pos'[f].qty + part'[f].qty >= bought'[f]
    BY <1>1, <1>2, <2>9, Numbers DEF Steady, Alive, Kept
  <2>12. Claim(r)' /\ Keeps(r)'
    <3>1. \A f \in DOMAIN run'[r].rows :
            f \in Entry /\ f \in DOMAIN run[r].rows /\ run'[r].rows[f] = run[r].rows[f]
      BY <1>1, <2>7, ReadNumbers
    <3> QED
      BY <1>1, <1>2, <2>7, <2>9, <3>1 DEF Claim, Keeps, Selling, Alive
  <2>13. Covered'
    <3>1. \A f \in Entry : Owed(r, f) = 0 /\ Owed(r, f)' = 0
      BY <1>2, <2>7 DEF Owed
    <3>2. \A f \in Entry : Closes(f)' => Closes(f)
      BY <2>7, <2>9 DEF Closes, Others
    <3> QED
      BY <1>1, <1>2, <2>7, <2>8, <2>9, <3>1, <3>2, CoveredNext, Numbers
  <2> QED
    BY <1>2, <2>2, <2>7, <2>8, <2>10, <2>11, <2>12, <2>13, InvNext
<1> QED
  BY <1>5, <1>6, <1>7

LEMMA ResetKeeps ==
  ASSUME Inv, Reset
  PROVE  Inv'
<1>1. Types /\ TablesOK /\ Tables
  BY DEF Inv, Base, Types, TypeOK
<1>2. /\ part' = [e \in Entry |-> Nothing] /\ bought' = [e \in Entry |-> 0]
      /\ sold' = [e \in Entry |-> 0] /\ mark' = [e \in Entry |-> "HOLD"]
      /\ pos' = [e \in Entry |-> IF pos[e] = NoRow THEN NoRow ELSE Gone]
      /\ UNCHANGED <<run, cuts>>
  BY DEF Reset
<1>3. mixes' \in 0 .. MaxTrouble /\ (mixes' = 0 => mixes = 0 /\ ~ AtWork)
  BY <1>1, Counters DEF Reset
<1>4. \A e \in Entry :
        /\ pos'[e] \in {NoRow, Gone} /\ pos'[e].status \in {"NONE", "GONE"}
        /\ pos'[e].status = "NONE" => pos'[e] = NoRow
        /\ pos'[e].status = "GONE" => pos'[e] = Gone
        /\ pos[e].status # "NONE" <=> pos'[e].status = "GONE"
        /\ part'[e] = Nothing /\ bought'[e] = 0 /\ sold'[e] = 0
  BY <1>1, <1>2 DEF NoRow, Gone, Tables
<1>5. TablesOK'
  <2>1. NoRow \in PosRow /\ Gone \in PosRow /\ Nothing \in [qty : Nat, pnl : Int]
    BY DEF NoRow, Gone, Nothing, PosRow
  <2>2. pos' \in [Entry -> PosRow] /\ part' \in [Entry -> [qty : Nat, pnl : Int]]
    BY <1>2, <2>1
  <2>3. resets' \in 0 .. MaxResets
    BY <1>1, ConstantsAssumption DEF Reset, TablesOK, ConstantsAssumption
  <2>4. bought' \in [Entry -> Nat] /\ sold' \in [Entry -> Nat] /\ mark' \in [Entry -> Kind]
    BY <1>2 DEF Kind
  <2>5. cuts' \in 0 .. MaxTrouble
    BY <1>1, <1>2 DEF TablesOK
  <2> QED
    BY <1>3, <1>4, <2>2, <2>3, <2>4, <2>5 DEF TablesOK
<1>6. \A r \in Runner : /\ HandOK(r)' <=> HandOK(r)
                        /\ Row(r)' = Row(r) /\ Shares(r)' = Shares(r)
  BY <1>2 DEF HandOK, Partial, Row, Shares
<1>7. Types'
  BY <1>1, <1>2, <1>5, <1>6 DEF Types, TypeOK
<1>8. Tables'
  BY <1>4 DEF Tables, Nothing
<1>9. ASSUME NEW r \in Runner PROVE Claim(r)' /\ Keeps(r)'
  <2>1. Claim(r)
    BY DEF Inv, Base
  <2>2. /\ run'[r] = run[r]
        /\ \A e \in DOMAIN run[r].rows : e \in Entry
        /\ run[r].at \in Selling <=> run[r].of \in Entry
    BY <1>1, <1>2, ReadNumbers
  <2>3. Claim(r)'
    BY <1>4, <1>6, <2>1, <2>2 DEF Claim
  <2>4. Keeps(r)'
    <3>1. \A e \in Entry : ~ Alive(e)'
      BY <1>4 DEF Alive
    <3>2. \A e \in DOMAIN run[r].rows : pos'[e].status \notin {"OPEN", "CLOSED"}
      BY <1>4, <2>2
    <3>3. run[r].at \in {"sell", "split", "shrink"} =>
            pos'[run[r].of].status \notin {"OPEN", "CLOSED"}
      BY <1>4, <2>2 DEF Selling
    <3> QED
      BY <2>2, <3>2, <3>3 DEF Keeps, Alive
  <2> QED
    BY <2>3, <2>4
<1>10. Base' /\ Kept'
  BY <1>4, <1>7, <1>8, <1>9 DEF Base, Kept, Alive
<1>11. ASSUME mixes' = 0
       PROVE  OneAtWork' /\ \A r \in Runner : Still(r)' /\ Sound(r)'
  <2>1. \A r \in Runner : run'[r].at = "idle" /\ DOMAIN run'[r].rows = {}
    BY <1>2, <1>3, <1>11 DEF AtWork, Inv, Base, Claim
  <2>2. OneAtWork'
    BY <2>1 DEF OneAtWork
  <2>3. ASSUME NEW r \in Runner PROVE Still(r)' /\ Sound(r)'
    <3>1. Still(r)'
      BY <2>1 DEF Still, InHand
    <3>2. \A e \in Entry : ~ InSale(r, e)' /\ ~ Splits(r, e)' /\ ClosedShares(e)' = 0
      BY <1>4, <2>1 DEF InSale, Splits, ClosedShares, Nothing
    <3>3. Cash' = Capital /\ Capital \in Nat
      BY <1>4, <1>5, EmptyAccount, ConstantsAssumption DEF ConstantsAssumption
    <3>4. Exact(r)'
      BY <1>4, <3>2 DEF Exact, Alive
    <3>5. Solvent(r)'
      <4>1. run'[r].at # "shrink" /\ Cash' + 0 >= 0
        BY <2>1, <3>3
      <4> QED
        BY <4>1 DEF Solvent
    <3>6. run'[r].at # "fill"
      BY <2>1
    <3> QED
      BY <1>4, <3>1, <3>2, <3>4, <3>5, <3>6 DEF Sound
  <2> QED
    BY <2>2, <2>3
<1>12. Fresh' /\ Books'
  BY <1>11 DEF Fresh, Books
<1>13. Covered'
  <2>1. ASSUME NEW e \in Entry, pos'[e].status # "GONE"
        PROVE  sold'[e] >= part'[e].qty + Owed("daily", e)' + Owed("intraday", e)'
                             + IF Closes(e)' THEN 1 ELSE 0
    <3>1. pos[e].status = "NONE"
      BY <1>4, <2>1
    <3>2. \A r \in Runner : ~ (run[r].at \in Selling /\ run[r].of = e)
      BY <3>1 DEF Inv, Base, Claim
    <3>3. \A r \in Runner : Owed(r, e)' = 0
      BY <1>2, <3>2 DEF Owed, Selling
    <3>4. ~ Closes(e)'
      BY <1>2, <1>4, <3>2 DEF Closes, Selling
    <3>5. Owed("daily", e)' = 0 /\ Owed("intraday", e)' = 0
      BY <3>3 DEF Runner
    <3> QED
      BY <1>4, <3>4, <3>5 DEF Nothing
  <2> QED
    BY <2>1 DEF Covered
<1> QED
  BY <1>10, <1>12, <1>13 DEF Inv

-----------------------------------------------------------------------------
(* The invariant of the specification. *)

LEMMA InitInv ==
  ASSUME Init PROVE Inv
<1>1. /\ \A e \in Entry : /\ pos[e] = NoRow /\ pos[e].status = "NONE" /\ part[e] = Nothing
                          /\ bought[e] = 0 /\ sold[e] = 0
      /\ \A r \in Runner : run[r] = Idle
      /\ mixes = 0 /\ cuts = 0 /\ resets = 0
  BY DEF Init, NoRow
<1>2. TablesOK
  <2>1. NoRow \in PosRow /\ Nothing \in [qty : Nat, pnl : Int]
    BY DEF NoRow, Nothing, PosRow
  <2>2. pos \in [Entry -> PosRow] /\ part \in [Entry -> [qty : Nat, pnl : Int]]
    BY <2>1 DEF Init
  <2>3. bought \in [Entry -> Nat] /\ sold \in [Entry -> Nat] /\ mark \in [Entry -> Kind]
    BY DEF Init, Kind
  <2>4. mixes \in 0 .. MaxTrouble /\ cuts \in 0 .. MaxTrouble /\ resets \in 0 .. MaxResets
    BY <1>1, ConstantsAssumption DEF ConstantsAssumption
  <2> QED
    BY <1>1, <2>2, <2>3, <2>4 DEF TablesOK
<1>3. Types
  <2>1. run \in [Runner -> RunState(ReadRows)]
    BY IdleType DEF Init
  <2>2. \A r \in Runner : HandOK(r)
    BY <1>1, IdleType, ConstantsAssumption DEF HandOK, Selling, ConstantsAssumption
  <2>3. /\ run = [r \in Runner |-> run[r]]
        /\ \A r \in Runner :
             /\ run[r] \in RunState({run[r].rows})
             /\ DOMAIN run[r].rows \subseteq Entry
             /\ run[r].rows \in [DOMAIN run[r].rows -> ReadRow]
    BY <2>1, RunsClauses
  <2> QED
    BY <1>2, <2>1, <2>2, <2>3 DEF Types, TypeOK
<1>4. \A r \in Runner : run[r].at = "idle" /\ DOMAIN run[r].rows = {}
  BY <1>1, IdleType
<1>5. Base /\ Kept
  <2>1. Tables
    BY <1>1 DEF Tables
  <2>2. \A r \in Runner : Claim(r) /\ Keeps(r)
    BY <1>4 DEF Claim, Keeps, Selling
  <2> QED
    BY <1>1, <1>3, <2>1, <2>2 DEF Base, Kept, Alive
<1>6. Fresh
  BY <1>4 DEF Fresh, OneAtWork, Still, InHand
<1>7. Books
  <2>1. Cash = Capital /\ Capital \in Nat
    BY <1>1, <1>2, EmptyAccount, ConstantsAssumption DEF ConstantsAssumption
  <2>2. ASSUME NEW r \in Runner PROVE Sound(r)
    <3>1. \A e \in Entry : ~ InSale(r, e) /\ ~ Splits(r, e) /\ ClosedShares(e) = 0
      BY <1>1, <1>4 DEF InSale, Splits, ClosedShares, Nothing
    <3>2. Exact(r)
      BY <1>1, <3>1 DEF Exact, Alive
    <3>3. Cash + 0 >= 0 /\ run[r].at # "shrink" /\ run[r].at # "fill"
      BY <1>4, <2>1
    <3>4. Solvent(r)
      BY <3>3 DEF Solvent
    <3> QED
      BY <1>1, <3>1, <3>2, <3>3, <3>4 DEF Sound
  <2> QED
    BY <2>2 DEF Books
<1>8. Covered
  <2>1. ASSUME NEW e \in Entry
        PROVE  ~ Closes(e) /\ Owed("daily", e) = 0 /\ Owed("intraday", e) = 0
    BY <1>1, <1>4 DEF Closes, Owed, Runner
  <2> QED
    BY <1>1, <2>1 DEF Covered, Nothing
<1> QED
  BY <1>5, <1>6, <1>7, <1>8 DEF Inv

LEMMA NextInv ==
  ASSUME Inv, [Next]_vars PROVE Inv'
<1>1. CASE Reset
  BY <1>1, ResetKeeps
<1>2. ASSUME NEW r \in Runner, Stage(r) PROVE Inv'
  BY <1>2, StartKeeps, FillKeeps, EndFillKeeps, SellDeferredKeeps, EndExitsKeeps,
     ValueKeeps, EndValueKeeps, JudgeKeeps, EndRunKeeps DEF Stage
<1>3. ASSUME NEW r \in Runner, Sell(r) PROVE Inv'
  BY <1>3, SellTradeKeeps, CloseRowKeeps, AddPartKeeps, ShrinkKeeps, UseMarkKeeps DEF Sell
<1>4. ASSUME NEW r \in Runner, CutOff(r) PROVE Inv'
  BY <1>4, CutOffKeeps
<1>5. CASE UNCHANGED vars
  <2>1. /\ UNCHANGED <<pos, part, bought, sold, mark, run, mixes, cuts, resets>>
    BY <1>5 DEF vars
  <2>2. Types' /\ Tables'
    BY <2>1 DEF Inv, Base, Types, TypeOK, TablesOK, Tables, HandOK, Partial, Row
  <2>3. \A r \in Runner : /\ Row(r)' = Row(r) /\ Shares(r)' = Shares(r)
                          /\ Claim(r)' /\ Keeps(r)'
    BY <2>1 DEF Inv, Base, Kept, Claim, Keeps, Row, Shares, Partial, Alive
  <2>4. Kept' /\ Base'
    BY <2>1, <2>2, <2>3 DEF Inv, Kept, Base, Alive
  <2>5. Cash' = Cash /\ \A e \in Entry : ClosedShares(e)' = ClosedShares(e)
    BY <2>1, CashStays DEF ClosedShares
  <2>6. Fresh'
    BY <2>1 DEF Inv, Fresh, OneAtWork, Still, Current, Row
  <2>7. Books'
    <3>1. ASSUME NEW r \in Runner PROVE (Sole(r)' <=> Sole(r)) /\ (Sound(r) => Sound(r)')
      <4>1. Sole(r)' <=> Sole(r)
        BY <2>1 DEF Sole
      <4>2. \A e \in Entry : (InSale(r, e)' <=> InSale(r, e)) /\ (Splits(r, e)' <=> Splits(r, e))
        BY <2>1 DEF InSale, Splits
      <4>3. Exact(r) => Exact(r)'
        BY <2>1, <2>3, <2>5, <4>2 DEF Exact, Alive
      <4>4. Solvent(r) => Solvent(r)'
        BY <2>1, <2>3, <2>5 DEF Solvent
      <4> QED
        BY <2>1, <2>3, <2>5, <4>1, <4>2, <4>3, <4>4 DEF Sound
    <3> QED
      BY <2>1, <3>1 DEF Inv, Books
  <2>8. Covered'
    <3>1. \A e \in Entry : /\ (Closes(e)' <=> Closes(e))
                           /\ \A r \in Runner : Owed(r, e)' = Owed(r, e)
      BY <2>1, <2>3 DEF Closes, Owed
    <3> QED
      BY <2>1, <3>1 DEF Inv, Covered, Runner
  <2> QED
    BY <2>4, <2>6, <2>7, <2>8 DEF Inv
<1> QED
  BY <1>1, <1>2, <1>3, <1>4, <1>5 DEF Next

(* The inductive invariant holds. *)
LEMMA InvHolds == Spec => []Inv
<1>1. Init => Inv
  BY InitInv
<1>2. Inv /\ [Next]_vars => Inv'
  BY NextInv
<1> QED
  BY <1>1, <1>2, PTL DEF Spec

-----------------------------------------------------------------------------
(* What follows from it. *)

(* As long as no two runs mix, one runner answers for all. *)
LEMMA OneAnswers ==
  ASSUME Inv, mixes = 0
  PROVE  \E r \in Runner :
           /\ Sole(r) /\ Sound(r)
           /\ \A e \in Entry : (Splits(r, e) <=> Splitting(e)) /\ (InSale(r, e) <=> SaleUnderWay(e))
<1>1. \E r \in Runner : Sole(r)
  <2>1. CASE AtWork
    <3>1. PICK r \in Runner : run[r].at # "idle"
      BY <2>1 DEF AtWork
    <3> QED
      BY <3>1 DEF Inv, Fresh, OneAtWork, Sole
  <2>2. CASE ~ AtWork
    BY <2>2 DEF AtWork, Sole, Runner
  <2> QED
    BY <2>1, <2>2
<1>2. PICK r \in Runner : Sole(r)
  BY <1>1
<1>3. Sound(r)
  BY <1>2 DEF Inv, Books
<1>4. ASSUME NEW e \in Entry
      PROVE  (Splits(r, e) <=> Splitting(e)) /\ (InSale(r, e) <=> SaleUnderWay(e))
  BY <1>2 DEF Sole, Splits, Splitting, InSale, SaleUnderWay
<1> QED
  BY <1>2, <1>3, <1>4

(* A runner that has a position in hand has one of known type, sells at    *)
(* least one share of it, and never half where all of it must go           *)
(* (paper-simulation.service.ts:1914).                                     *)
THEOREM Typed == Spec => []TypeOK
<1>1. Inv => TypeOK
  BY DEF Inv, Base, Types
<1> QED
  BY <1>1, InvHolds, PTL

(* No share of a position is ever lost, and none is counted twice unless   *)
(* two runs mixed or a run was cut off (paper-simulation.service.ts        *)
(* :1956-1988).                                                            *)
THEOREM SharesAlwaysConserved == Spec => []SharesConserved
<1>1. ASSUME Inv PROVE SharesConserved
  <2>1. ASSUME NEW e \in Entry, Alive(e) PROVE pos[e].qty + part[e].qty >= bought[e]
    BY <1>1, <2>1 DEF Inv, Kept
  <2>2. ASSUME NEW e \in Entry, Alive(e), mixes = 0, cuts = 0, ~ Splitting(e)
        PROVE  pos[e].qty + part[e].qty = bought[e]
    <3>1. PICK r \in Runner : Sound(r) /\ \A f \in Entry : Splits(r, f) <=> Splitting(f)
      BY <1>1, <2>2, OneAnswers
    <3> QED
      BY <2>2, <3>1 DEF Sound, Exact
  <2> QED
    BY <2>1, <2>2 DEF SharesConserved, Alive
<1>2. Inv => SharesConserved
  BY <1>1
<1> QED
  BY <1>2, InvHolds, PTL

(* Shares leave a position by a SELL trade only: whatever runs mix, a part *)
(* and a closed position have theirs; as long as no two runs mix, what is  *)
(* closed was sold, and once only unless a sale was cut off                *)
(* (paper-simulation.service.ts:1921, :1950).                              *)
THEOREM SalesAlwaysBacked == Spec => []SalesBacked
<1>1. ASSUME Inv PROVE SalesBacked
  <2>0. TablesOK
    BY <1>1 DEF Inv, Base, Types, TypeOK
  <2>1. ASSUME NEW e \in Entry, mixes = 0
        PROVE  /\ sold[e] >= ClosedShares(e)
               /\ cuts = 0 /\ ~ SaleUnderWay(e) => sold[e] = ClosedShares(e)
    <3>1. PICK r \in Runner : Sound(r) /\ \A f \in Entry : InSale(r, f) <=> SaleUnderWay(f)
      BY <1>1, <2>1, OneAnswers
    <3> QED
      BY <3>1 DEF Sound, Exact
  <2>2. ASSUME NEW e \in Entry, pos[e] # Gone
        PROVE  /\ sold[e] >= part[e].qty
               /\ pos[e].status = "CLOSED" => sold[e] > part[e].qty
    <3>1. pos[e].status # "GONE"
      BY <1>1, <2>2 DEF Inv, Base, Tables
    <3>2. \A r \in Runner : Owed(r, e) \in Nat
      BY <1>1, SharesType DEF Inv, Base, Owed
    <3>3. Owed("daily", e) \in Nat /\ Owed("intraday", e) \in Nat
      BY <3>2 DEF Runner
    <3>4. sold[e] >= part[e].qty + Owed("daily", e) + Owed("intraday", e)
                       + IF Closes(e) THEN 1 ELSE 0
      BY <1>1, <3>1 DEF Inv, Covered
    <3>5. pos[e].status = "CLOSED" => Closes(e)
      BY DEF Closes
    <3>6. sold[e] \in Nat /\ part[e].qty \in Nat
      BY <2>0, Numbers
    <3> QED
      BY <3>3, <3>4, <3>5, <3>6
  <2>3. \A e \in Entry : pos[e].status = "CLOSED" => pos[e] # Gone
    BY DEF Gone, NoRow
  <2> QED
    BY <2>1, <2>2, <2>3 DEF SalesBacked
<1>2. Inv => SalesBacked
  BY <1>1
<1> QED
  BY <1>2, InvHolds, PTL

(* As long as no two runs mix: a pass of entries never believes in more    *)
(* cash than the account has, whatever commissions it sets aside; that     *)
(* cash is never negative, unless a run was cut off or half a sale is      *)
(* written; and a reset gives the capital back                             *)
(* (paper-simulation.service.ts:1052, :1575, :370).                        *)
THEOREM CashAlwaysSound == Spec => []CashSound
<1>1. ASSUME Inv PROVE CashSound
  <2>1. SUFFICES ASSUME mixes = 0
                 PROVE  /\ \A r \in Runner : run[r].at = "fill" => run[r].cash <= Cash
                        /\ cuts = 0 /\ (\A e \in Entry : ~ Splitting(e)) => Cash >= 0
                        /\ (\A e \in Entry : pos[e].status \in {"NONE", "GONE"}) => Cash = Capital
    BY DEF CashSound
  <2>2. TablesOK /\ Cash \in Int
    BY <1>1, CashType DEF Inv, Base, Types, TypeOK
  <2>3. PICK r \in Runner : Sole(r) /\ Sound(r) /\ \A f \in Entry : Splits(r, f) <=> Splitting(f)
    BY <1>1, <2>1, OneAnswers
  <2>4. \A q \in Runner : run[q].at = "fill" => run[q].cash <= Cash
    BY <2>3 DEF Sole, Sound
  <2>5. ASSUME cuts = 0, \A e \in Entry : ~ Splitting(e) PROVE Cash >= 0
    <3>1. run[r].at # "shrink"
      <4>1. SUFFICES ASSUME run[r].at = "shrink" PROVE FALSE
        OBVIOUS
      <4>2. PICK e \in Entry : run[r].of = e
        BY <1>1, <4>1, Hands DEF Selling
      <4> QED
        BY <2>3, <2>5, <4>1, <4>2 DEF Splits
    <3>2. Cash + 0 >= 0
      BY <2>3, <2>5, <3>1 DEF Sound, Solvent
    <3> QED
      BY <2>2, <3>2
  <2>6. ASSUME \A e \in Entry : pos[e].status \in {"NONE", "GONE"} PROVE Cash = Capital
    BY <2>2, <2>3, <2>6, EmptyAccount DEF Sound
  <2> QED
    BY <2>4, <2>5, <2>6
<1>2. Inv => CashSound
  BY <1>1
<1> QED
  BY <1>2, InvHolds, PTL

(* The result of a closed position is final as long as no two runs mix: no *)
(* valuation and no later sale replaces it                                 *)
(* (paper-simulation.service.ts:1710, :1990).                              *)
THEOREM ResultsAreFinal == Spec => ResultIsFinal
<1> DEFINE Final == mixes' = 0 => \A e \in Entry :
                      pos[e].status = "CLOSED" /\ pos'[e].status # "GONE" => pos'[e] = pos[e]
<1>1. ASSUME Inv, Next PROVE Final
  <2>1. SUFFICES ASSUME mixes' = 0, NEW e \in Entry,
                        pos[e].status = "CLOSED", pos'[e].status # "GONE"
                 PROVE  pos'[e] = pos[e]
    OBVIOUS
  <2>2. Types /\ TablesOK
    BY <1>1 DEF Inv, Base, Types, TypeOK
  <2>3. CASE Reset
    BY <2>1, <2>3 DEF Reset, NoRow, Gone
  <2>4. ASSUME NEW r \in Runner, Fill(r) PROVE pos'[e] = pos[e]
    BY <2>1, <2>2, <2>4 DEF Fill, NoRow, TablesOK
  <2>5. ASSUME NEW r \in Runner, Value(r) PROVE pos'[e] = pos[e]
    <3>1. Still(r)
      BY <1>1, <2>1, <2>5 DEF Inv, Fresh, Value
    <3>2. e \notin DOMAIN run[r].rows
      BY <2>1, <3>1 DEF Still, Current
    <3> QED
      BY <2>2, <2>5, <3>2 DEF Value, TablesOK
  <2>6. ASSUME NEW r \in Runner, CloseRow(r) \/ Shrink(r) PROVE pos'[e] = pos[e]
    <3>1. Still(r) /\ run[r].at \in InHand
      BY <1>1, <2>1, <2>6 DEF Inv, Fresh, CloseRow, Shrink, InHand
    <3>2. e # run[r].of
      BY <2>1, <3>1 DEF Still, Current
    <3> QED
      BY <2>2, <2>6, <3>2 DEF CloseRow, Shrink, TablesOK
  <2>7. ASSUME NEW r \in Runner, Stage(r) \/ Sell(r) \/ CutOff(r),
               ~ Fill(r), ~ Value(r), ~ CloseRow(r), ~ Shrink(r)
        PROVE  pos' = pos
    BY <2>7 DEF Stage, Sell, CutOff, Start, EndFill, SellDeferred, EndExits, EndValue, Judge,
                EndRun, SellTrade, AddPart, UseMark
  <2> QED
    BY <1>1, <2>3, <2>4, <2>5, <2>6, <2>7 DEF Next
<1>2. ASSUME UNCHANGED vars PROVE Final
  BY <1>2 DEF vars
<1>3. Inv /\ [Next]_vars => [Final]_vars
  BY <1>1, <1>2
<1> QED
  BY <1>3, InvHolds, PTL DEF Spec, ResultIsFinal

=============================================================================
