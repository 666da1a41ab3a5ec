------------------------------ MODULE KillSwitch ------------------------------
(***************************************************************************)
(* The kill switch: a flag in the memory of each server process, loaded    *)
(* from the newest row of kill_switch_states at boot                       *)
(* (engine5-trading-risk/domain/kill-switch.ts).  An activation and a      *)
(* release set the memory first and append their row afterwards; other     *)
(* requests run in between.                                                *)
(*                                                                         *)
(* Who uses it: the operator's command, which writes an event of the       *)
(* operations ledger and a receipt after it                                *)
(* (aos-operator-command.service.ts); the drawdown cut of the core track   *)
(* (dual-momentum-forward.service.ts); OrderRiskService, which alone can   *)
(* release; and the runs that fill reservations (fillPendingEntries of     *)
(* paper-simulation.service.ts), which look at it once for a whole batch.  *)
(* Each run has an overlap flag of its own, so batches of different runs   *)
(* are under way together in one process.                                  *)
(*                                                                         *)
(* Left out: reasons and times, the audit row that ends a release, the     *)
(* notification of an activation (a NOTIFY job, see NotifyPipeline),       *)
(* step-up authentication, and why the cut fires.                          *)
(***************************************************************************)
EXTENDS Naturals, FiniteSets

CONSTANTS
  Proc,          \* server processes; each is also the name of its core cycle
  Command,       \* correlation ids of the operator's ACTIVATE commands
  Request,       \* correlation ids of the operator's DEACTIVATE_REQUESTs
  Release,       \* calls of OrderRiskService.deactivateKillSwitch
  Runner,        \* the runs that fill reservations, one per overlap flag: the daily
                 \* cycle, the intraday monitor, the strategy and the style cycle
  Batch,         \* bound: reservations due at once (MAX_HOLDINGS in the code)
  MaxFailures,   \* bound: failed statements and crashes
  MaxRuns        \* bound: batches begun

Caller == Proc \cup Command \cup Request \cup Release

ASSUME ConstantsAssumption ==
  /\ Proc # {} /\ {Batch, MaxFailures, MaxRuns} \subseteq Nat
  /\ Proc \cap (Command \cup Request \cup Release) = {}
  /\ Command \cap (Request \cup Release) = {} /\ Request \cap Release = {}

VARIABLES
  up,        \* whether each process runs
  on,        \* state.isActive of each process
  latest,    \* isActive of the newest row of kill_switch_states
  logged,    \* callers whose row isActive = true is in kill_switch_states
  events,    \* correlation ids in aos_kill_switch_events
  receipts,  \* correlation ids in aos_operator_command_receipts
  call,      \* where each call is, and in which process
  entering,  \* entries the batch of each run of each process still makes
  late,      \* entries of each run of each process since its switch went on
  standing,  \* activations, each a caller in a process, begun when no release
             \* was under way, and since whose begin none has begun: nobody has
             \* asked to lift them
  failures, runs

vars == <<up, on, latest, logged, events, receipts, call, entering, late,
          standing, failures, runs>>

NoEntries == [r \in Runner |-> 0]
Stage == {"row", "event", "receipt"}
Idle == [at |-> "idle"]

Init ==
  /\ up = [p \in Proc |-> TRUE] /\ on = [p \in Proc |-> FALSE]
  /\ latest = FALSE /\ logged = {} /\ events = {} /\ receipts = {}
  /\ call = [c \in Caller |-> Idle]
  /\ entering = [p \in Proc |-> NoEntries] /\ late = [p \in Proc |-> NoEntries]
  /\ standing = {} /\ failures = 0 /\ runs = 0

At(c, s) == call' = [call EXCEPT ![c].at = s]
Ends(c) == call' = [call EXCEPT ![c] = Idle]
Begins(c, p, s) ==
  /\ up[p] /\ call[c] = Idle
  /\ call' = [call EXCEPT ![c] = [at |-> s, in |-> p]]

(* The activation whose row call c still has to append.                    *)
Unwritten(c) == IF call[c].at = "row" THEN {<<c, call[c].in>>} ELSE {}

(* The calls under way in process p. *)
Under(p) == {c \in Caller : call[c] # Idle /\ call[c].in = p}

Lifting == {r \in Release : call[r].at = "row"}

-----------------------------------------------------------------------------
(* KillSwitchManager.                                                      *)

(* activate: the memory at once, the row later.                            *)
Activate(c, p) ==
  /\ Begins(c, p, "row")
  /\ on' = [on EXCEPT ![p] = TRUE]
  /\ standing' = IF Lifting = {} THEN standing \cup {<<c, p>>} ELSE standing
  /\ UNCHANGED <<up, latest, logged, events, receipts, entering, late, failures, runs>>

(* The row of an activation is committed.  The operator's command goes on  *)
(* to its event; the core cycle is done.                                   *)
AppendActive(c) ==
  /\ c \in Command \cup Proc /\ call[c].at = "row"
  /\ latest' = TRUE /\ logged' = logged \cup {c}
  /\ IF c \in Command THEN At(c, "event") ELSE Ends(c)
  /\ UNCHANGED <<up, on, events, receipts, entering, late, standing, failures, runs>>

(* deactivate, called by OrderRiskService.                                 *)
Deactivate(r, p) ==
  /\ r \in Release
  /\ Begins(r, p, "row")
  /\ on' = [on EXCEPT ![p] = FALSE] /\ late' = [late EXCEPT ![p] = NoEntries]
  /\ standing' = {}
  /\ UNCHANGED <<up, latest, logged, events, receipts, entering, failures, runs>>

AppendInactive(r) ==
  /\ r \in Release /\ call[r].at = "row"
  /\ latest' = FALSE
  /\ Ends(r)
  /\ UNCHANGED <<up, on, logged, events, receipts, entering, late, standing, failures, runs>>

(* slip: a process starts with the switch off.                             *)
BootForgets(p) ==
  /\ ~up[p]
  /\ up' = [up EXCEPT ![p] = TRUE] /\ on' = [on EXCEPT ![p] = FALSE]
  /\ UNCHANGED <<latest, logged, events, receipts, call, entering, late, standing, failures, runs>>

(* onModuleInit loads the newest row before the process serves anything.   *)
Boot(p) ==
  /\ ~up[p]
  /\ up' = [up EXCEPT ![p] = TRUE] /\ on' = [on EXCEPT ![p] = latest]
  /\ UNCHANGED <<latest, logged, events, receipts, call, entering, late, standing, failures, runs>>

-----------------------------------------------------------------------------
(* The operator and the core cycle.                                        *)

(* slip: the command reports its event before it halts.                    *)
ReportsFirst(c, p) ==
  /\ c \in Command \ receipts
  /\ Begins(c, p, "event")
  /\ UNCHANGED <<up, on, latest, logged, events, receipts, entering, late, standing, failures, runs>>

(* controlKillSwitch(ACTIVATE), also when it is repeated with its          *)
(* correlation id because no receipt came back.                            *)
CommandActivates(c, p) == c \in Command \ receipts /\ Activate(c, p)

(* controlKillSwitch(DEACTIVATE_REQUEST) asks, which is an event of its    *)
(* own, and releases nothing.                                              *)
CommandRequests(c, p) ==
  /\ c \in Request \ receipts
  /\ Begins(c, p, "receipt")
  /\ events' = events \cup {c}
  /\ UNCHANGED <<up, on, latest, logged, receipts, entering, late, standing, failures, runs>>

(* recordKillSwitchEvent: a repeated correlation id keeps the first event. *)
RecordEvent(c) ==
  /\ call[c].at = "event"
  /\ events' = events \cup {c}
  /\ At(c, "receipt")
  /\ UNCHANGED <<up, on, latest, logged, receipts, entering, late, standing, failures, runs>>

Receipt(c) ==
  /\ call[c].at = "receipt"
  /\ receipts' = receipts \cup {c}
  /\ Ends(c)
  /\ UNCHANGED <<up, on, latest, logged, events, entering, late, standing, failures, runs>>

(* The drawdown cut of the core cycle: never while the switch is on.       *)
DrawdownCut(p) == ~on[p] /\ Activate(p, p)

(* A statement fails and ends its call: the operator sees an error, the    *)
(* core cycle swallows it.                                                 *)
StatementFails(c) ==
  /\ failures < MaxFailures /\ failures' = failures + 1
  /\ call[c] # Idle
  /\ Ends(c)
  /\ standing' = standing \ Unwritten(c)
  /\ UNCHANGED <<up, on, latest, logged, events, receipts, entering, late, runs>>

-----------------------------------------------------------------------------
(* Runs that enter positions.                                              *)

(* slip: the run does not look at the switch.                              *)
Unchecked(p) == TRUE

(* fillPendingEntries looks once, before its loop.                         *)
MayEnter(p) == ~on[p]

(* Run r reaches a batch.  Its flag keeps it from overlapping itself, and  *)
(* nothing keeps it from overlapping another run.                          *)
BeginRun(p, r) ==
  /\ runs < MaxRuns /\ runs' = runs + 1
  /\ up[p] /\ entering[p][r] = 0
  /\ MayEnter(p)
  /\ \E n \in 1 .. Batch : entering' = [entering EXCEPT ![p][r] = n]
  /\ UNCHANGED <<up, on, latest, logged, events, receipts, call, late, standing, failures>>

LateAfter(p, r) == [late EXCEPT ![p][r] = IF on[p] THEN @ + 1 ELSE 0]

(* slip: the loop runs once too often.                                     *)
EntersOnceMore(p, r) ==
  /\ up[p]
  /\ entering' = [entering EXCEPT ![p][r] = @ - 1]
  /\ late' = LateAfter(p, r)
  /\ UNCHANGED <<up, on, latest, logged, events, receipts, call, standing, failures, runs>>

Enter(p, r) ==
  /\ entering[p][r] > 0
  /\ entering' = [entering EXCEPT ![p][r] = @ - 1]
  /\ late' = LateAfter(p, r)
  /\ UNCHANGED <<up, on, latest, logged, events, receipts, call, standing, failures, runs>>

-----------------------------------------------------------------------------
(* A process ends; its calls, its runs and its memory with it.             *)
Crash(p) ==
  /\ failures < MaxFailures /\ failures' = failures + 1
  /\ up[p]
  /\ up' = [up EXCEPT ![p] = FALSE]
  /\ call' = [c \in Caller |-> IF c \in Under(p) THEN Idle ELSE call[c]]
  /\ standing' = standing \ UNION {Unwritten(c) : c \in Under(p)}
  /\ entering' = [entering EXCEPT ![p] = NoEntries]
  /\ on' = [on EXCEPT ![p] = FALSE] /\ late' = [late EXCEPT ![p] = NoEntries]
  /\ UNCHANGED <<latest, logged, events, receipts, runs>>

Next ==
  \/ \E p \in Proc : \/ \E c \in Caller : CommandActivates(c, p) \/ CommandRequests(c, p)
                                          \/ Deactivate(c, p)
                     \/ \E r \in Runner : BeginRun(p, r) \/ Enter(p, r)
                     \/ DrawdownCut(p) \/ Crash(p) \/ Boot(p)
  \/ \E c \in Caller : \/ AppendActive(c) \/ AppendInactive(c) \/ RecordEvent(c)
                       \/ Receipt(c) \/ StatementFails(c)

Spec == Init /\ [][Next]_vars

-----------------------------------------------------------------------------
TypeOK ==
  /\ up \in [Proc -> BOOLEAN] /\ on \in [Proc -> BOOLEAN]
  /\ latest \in BOOLEAN /\ logged \subseteq Caller
  /\ events \subseteq Command \cup Request /\ receipts \subseteq Command \cup Request
  /\ call \in [Caller -> {Idle} \cup [at : Stage, in : Proc]]
  /\ entering \in [Proc -> [Runner -> Nat]] /\ late \in [Proc -> [Runner -> Nat]]
  /\ standing \subseteq Caller \X Proc /\ failures \in Nat /\ runs \in Nat

(* An activation that nobody has asked to lift holds: its process has the  *)
(* switch on, and once its row is committed so does the table, from which  *)
(* every process starts.  Whatever else is activated, released earlier,    *)
(* fails or is restarted in between.                                       *)
HaltHolds ==
  \A a \in standing : /\ up[a[2]] => on[a[2]]
                      /\ a \notin Unwritten(a[1]) => latest

(* The operations ledger tells the truth: a receipt has its event, and the *)
(* event of an activation has its row, also when a command is repeated.    *)
LedgerTruthful ==
  /\ receipts \subseteq events
  /\ events \cap Command \subseteq logged

(* After the switch goes on a run only finishes the batch it had begun     *)
(* before: the runs together enter at most a batch each.                   *)
LateEntriesBounded ==
  \A p \in Proc, r \in Runner : on[p] => late[p][r] + entering[p][r] <= Batch
=============================================================================
