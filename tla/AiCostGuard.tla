----------------------------- MODULE AiCostGuard -----------------------------
(* The cost limit of the AI calls of one server process                    *)
(* (engine2-ai-analyst/cost-gate/ai-cost-limit-guard.service.ts) and the   *)
(* calls that go through it: the tasks of the disclosure analyst           *)
(* (ai-analyst.service.ts) and the price-move reasoner                     *)
(* (price-move-reasoning.service.ts).                                      *)
(*                                                                         *)
(* A call waits for the mutex of the guard, reads what has been spent, and *)
(* is granted if spending, reservations and one more reservation fit the   *)
(* limits.  The reservation is released when the call ends, however it     *)
(* ends.  The mutex is a chain of promises: first come, first served.      *)
(*                                                                         *)
(* Costs are whole units.  Left out: the result of a call and the cache of *)
(* results (a cached task never reaches the guard), and the rows of cost 0.*)
EXTENDS Naturals, Sequences, FiniteSets

CONSTANTS
  Analyst,      \* workers that run disclosure tasks: they save, then log
  Reasoner,     \* workers that run price-move reasoning: they log, then save
  Window,       \* the windows of the limit: "day" and "month"
  Limit,        \* [Window -> Nat], AI_DAILY_LIMIT_USD and AI_MONTHLY_LIMIT_USD
  OwnLimit,     \* PRICE_MOVE_REASONING_DAILY_USD_LIMIT
  Reservation,  \* RESERVATION_USD
  Failing,      \* the steps that may fail, of {"read", "parse", "save", "log"}
  MayCrash,     \* whether the process may crash
  None

Caller == Analyst \cup Reasoner

ASSUME ConstantsAssumption ==
  /\ IsFiniteSet(Analyst) /\ IsFiniteSet(Reasoner)
  /\ Analyst \cap Reasoner = {} /\ Caller # {}
  /\ Window = {"day", "month"} /\ Limit \in [Window -> Nat]
  /\ OwnLimit \in Nat \ {0} /\ Reservation \in Nat \ {0}
  /\ MayCrash \in BOOLEAN /\ None \notin Nat

VARIABLES
  spent,     \* AIUsageLog: the cost logged in each window
  own,       \* AIUsageLog: the cost of the reasoner logged today
  reserved,  \* reservedDailyUsd / RESERVATION_USD: the same in both windows
  line,      \* the promise chain: its head is inside the critical section
  read,      \* what the head has read of each window, None before
  stage,     \* where each call is
  cost       \* what the provider billed for each call

vars == <<spent, own, reserved, line, read, stage, cost>>

Nothing == [w \in Window |-> None]

(* A call holds a reservation from the grant to settle(), and may still    *)
(* add to the log until it has logged or failed to.                        *)
Unlogged == {"reserved", "billed", "unparsed", "saved"}
Unsettled == Unlogged \cup {"ending"}
Stages == {"idle", "checked", "line"} \cup Unsettled
Holding == {c \in Caller : stage[c] \in Unsettled}
InFlight == {c \in Caller : stage[c] \in Unlogged}

Init ==
  /\ spent = [w \in Window |-> 0] /\ own = 0
  /\ reserved = 0 /\ line = <<>> /\ read = Nothing
  /\ stage = [c \in Caller |-> "idle"] /\ cost = [c \in Caller |-> 0]

At(c, s) == stage' = [stage EXCEPT ![c] = s]

-----------------------------------------------------------------------------
(* The guard.                                                              *)

(* slip: the reasoner does not look at its own cap.                        *)
Uncapped == TRUE

(* The reasoner first looks at its own cap, without lock or reservation.   *)
WithinOwnCap == own < OwnLimit

CheckOwnCap(c) ==
  /\ c \in Reasoner /\ stage[c] = "idle"
  /\ WithinOwnCap
  /\ At(c, "checked")
  /\ UNCHANGED <<spent, own, reserved, line, read, cost>>

Enter(c) ==
  /\ stage[c] = IF c \in Reasoner THEN "checked" ELSE "idle"
  /\ At(c, "line") /\ line' = Append(line, c)
  /\ UNCHANGED <<spent, own, reserved, read, cost>>

Leads(c) == line # <<>> /\ stage[c] = "line" /\ Head(line) = c

(* The two aggregates of getLimitStatus, sent together: either may be      *)
(* answered first, and the process goes on with other calls meanwhile.     *)
ReadSpent(c, w) ==
  /\ Leads(c) /\ read[w] = None
  /\ read' = [read EXCEPT ![w] = spent[w]]
  /\ UNCHANGED <<spent, own, reserved, line, stage, cost>>

(* runExclusive: the next in line enters, also when the section threw.     *)
Release == line' = Tail(line) /\ read' = Nothing

(* slip: calls in flight are not counted (the guard before DAR-242).       *)
IgnoresInFlight(w) == read[w] + Reservation > Limit[w]

Exceeded(w) == read[w] >= Limit[w]
WouldExceed(w) == read[w] + reserved * Reservation + Reservation > Limit[w]
Denied == \E w \in Window : Exceeded(w) \/ WouldExceed(w)

Grant(c) ==
  /\ Leads(c) /\ \A w \in Window : read[w] # None
  /\ ~Denied
  /\ reserved' = reserved + 1 /\ At(c, "reserved") /\ Release
  /\ UNCHANGED <<spent, own, cost>>

(* slip: no finally around the critical section.                           *)
KeepsLine(c) ==
  /\ "read" \in Failing
  /\ Leads(c)
  /\ At(c, "idle")
  /\ UNCHANGED <<spent, own, reserved, line, read, cost>>

Deny(c) ==
  /\ Leads(c) /\ \A w \in Window : read[w] # None
  /\ Denied
  /\ At(c, "idle") /\ Release
  /\ UNCHANGED <<spent, own, reserved, cost>>

ReadFails(c) ==
  /\ "read" \in Failing
  /\ Leads(c)
  /\ At(c, "idle") /\ Release
  /\ UNCHANGED <<spent, own, reserved, cost>>

-----------------------------------------------------------------------------
(* The call.                                                               *)

(* slip: an early return outside the try whose finally settles.            *)
ReturnsEarly(c) ==
  /\ stage[c] = "reserved"
  /\ At(c, "idle")
  /\ UNCHANGED <<spent, own, reserved, line, read, cost>>

(* The level granted is too low for the task, its input cannot be read, or *)
(* the provider fails: nothing is billed.                                  *)
Unbilled(c) ==
  /\ stage[c] = "reserved"
  /\ At(c, "ending")
  /\ UNCHANGED <<spent, own, reserved, line, read, cost>>

(* The provider answers, and bills, whether or not the answer parses.      *)
Answer(c) ==
  /\ stage[c] = "reserved"
  /\ \E k \in 1..Reservation : cost' = [cost EXCEPT ![c] = k]
  /\ \/ At(c, "billed")
     \/ "parse" \in Failing /\ At(c, "unparsed")
  /\ UNCHANGED <<spent, own, reserved, line, read>>

(* The analyst saves its result before it logs the cost.                   *)
Save(c) ==
  /\ c \in Analyst /\ stage[c] = "billed"
  /\ At(c, "saved")
  /\ UNCHANGED <<spent, own, reserved, line, read, cost>>

(* The analyst logs after it saved, the reasoner at once, and both log an  *)
(* answer that did not parse.                                              *)
ToLog(c) ==
  \/ stage[c] \in {"saved", "unparsed"}
  \/ c \in Reasoner /\ stage[c] = "billed"

Log(c) ==
  /\ ToLog(c)
  /\ spent' = [w \in Window |-> spent[w] + cost[c]]
  /\ own' = IF c \in Reasoner THEN own + cost[c] ELSE own
  /\ At(c, "ending") /\ cost' = [cost EXCEPT ![c] = 0]
  /\ UNCHANGED <<reserved, line, read>>

(* slip: the failure settles, and so does the finally.                     *)
SettlesTwice(c) ==
  /\ \/ "save" \in Failing /\ c \in Analyst /\ stage[c] = "billed"
     \/ "log" \in Failing /\ ToLog(c)
  /\ At(c, "ending") /\ cost' = [cost EXCEPT ![c] = 0]
  /\ reserved' = reserved - 1
  /\ UNCHANGED <<spent, own, line, read>>

(* A failed statement ends the call: what it cost is never logged.         *)
RecordFails(c) ==
  /\ \/ "save" \in Failing /\ c \in Analyst /\ stage[c] = "billed"
     \/ "log" \in Failing /\ ToLog(c)
  /\ At(c, "ending") /\ cost' = [cost EXCEPT ![c] = 0]
  /\ UNCHANGED <<spent, own, reserved, line, read>>

(* The finally of every call.  The reasoner's result is saved after it:    *)
(* the promise is returned, not awaited.                                   *)
Settle(c) ==
  /\ stage[c] = "ending"
  /\ reserved' = reserved - 1 /\ At(c, "idle")
  /\ UNCHANGED <<spent, own, line, read, cost>>

-----------------------------------------------------------------------------
(* The environment.                                                        *)

(* Midnight, which may also end the month.  Sums that have been read, and  *)
(* reservations, are not of a day.                                         *)
Midnight ==
  /\ \E ended \in {{"day"}, Window} :
       spent' = [w \in Window |-> IF w \in ended THEN 0 ELSE spent[w]]
  /\ own' = 0
  /\ UNCHANGED <<reserved, line, read, stage, cost>>

(* The memory of the process is gone; what was billed and not logged is    *)
(* never logged.                                                           *)
Crash ==
  /\ MayCrash
  /\ reserved' = 0 /\ line' = <<>> /\ read' = Nothing
  /\ stage' = [c \in Caller |-> "idle"] /\ cost' = [c \in Caller |-> 0]
  /\ UNCHANGED <<spent, own>>

Step(c) ==
  \/ \E w \in Window : ReadSpent(c, w)
  \/ Grant(c) \/ Deny(c) \/ ReadFails(c)
  \/ Unbilled(c) \/ Answer(c) \/ Save(c) \/ Log(c) \/ RecordFails(c)
  \/ Settle(c)

Next == Midnight \/ Crash \/ \E c \in Caller : CheckOwnCap(c) \/ Enter(c) \/ Step(c)

Spec == Init /\ [][Next]_vars

(* Every statement and every request of a call is answered or times out    *)
(* (axios timeout of the client, statement timeout of the database).       *)
FairSpec == Spec /\ \A c \in Caller : WF_vars(Step(c))

-----------------------------------------------------------------------------
TypeOK ==
  /\ spent \in [Window -> Nat] /\ own \in Nat
  /\ reserved \in Nat
  /\ line \in Seq(Caller) /\ read \in [Window -> Nat \cup {None}]
  /\ stage \in [Caller -> Stages] /\ cost \in [Caller -> 0..Reservation]

(* The reservations in memory are those of the calls that have not         *)
(* settled: none leaks and none is released twice, whatever fails.         *)
ReservationsMatch == reserved = Cardinality(Holding)

(* What is logged exceeds a limit at most once over, and at most by one    *)
(* reservation for every other worker: with the two workers of a process,  *)
(* by the price of one call.                                               *)
OvershootBounded ==
  \A w \in Window :
    /\ spent[w] + Reservation * Cardinality(InFlight) <= 2 * Limit[w]
    /\ spent[w] <= Limit[w] + Reservation * (Cardinality(Caller) - 1)

(* The reasoner's own cap is exceeded by at most one call of each of its   *)
(* workers.                                                                *)
OwnCapBounded == own < OwnLimit + Reservation * Cardinality(Reasoner)

(* A call that has entered the guard ends, whatever fails around it.       *)
CallsEnd == \A c \in Caller : stage[c] = "line" ~> stage[c] = "idle"
=============================================================================
