-------------------------- MODULE StrategyVersions --------------------------
(***************************************************************************)
(* The versions of one AOS strategy and the operator commands that move    *)
(* them: draft editing, validation, backtest attestation, approval,        *)
(* scheduling and activation (src/backend/src/aos/operator,                *)
(* src/backend/src/aos/strategy-management, src/backend/src/aos/backtest)  *)
(* together with the PostgreSQL triggers and indexes that guard the tables *)
(* (src/backend/prisma/migrations, 20260731).                               *)
(*                                                                         *)
(* Every command is a database transaction, in flight from its first read  *)
(* to its commit.  tx[p] is what process p remembers between the two; the  *)
(* other variables are the committed rows.  Operator commands run at READ  *)
(* COMMITTED: what they read may be stale when they write, and what stops  *)
(* them is the row trigger, which compares the new row with the committed  *)
(* one.  Scheduling and activation run at SERIALIZABLE: they read from the *)
(* snapshot of their first query and fail when a row they write has been   *)
(* changed since.  Any transaction may end without effect: a rejected      *)
(* write, a timeout or a crash of the server.                              *)
(*                                                                         *)
(* A rule set is a set of rule identifiers, CategoryOf their category; the *)
(* canonical JSON of a configuration and its hash are one value.           *)
(***************************************************************************)
EXTENDS Naturals

CONSTANTS
  MaxVersion,   \* bound: versions of the strategy
  MaxTime,      \* bound: instants of the clock
  AfterClose,   \* the instants that lie after the close of a trading day
  Process,      \* server requests that may be in flight together
  Writers,      \* operators with CONFIG_WRITE
  Approvers,    \* operators with CONFIG_APPROVE
  Config,       \* strategy configurations (with their hashes)
  Rule,         \* rule definitions
  CategoryOf,   \* [Rule -> category]
  RuleSets,     \* the rule sets operators submit
  Correlation,  \* correlation ids of scheduling requests
  None          \* a null column

Version == 1 .. MaxVersion
Time    == 0 .. MaxTime
Actor   == Writers \cup Approvers

ASSUME ConstantsAssumption ==
  /\ MaxVersion \in Nat \ {0}
  /\ MaxTime \in Nat
  /\ AfterClose \subseteq Time
  /\ RuleSets \subseteq SUBSET Rule
  /\ None \notin Time \cup Config \cup Version

VARIABLES
  status,         \* lifecycle status of each version, "ABSENT" before its row
  config,         \* configuration of each version
  rules,          \* rules of each version
  effectiveFrom,  \* effective time of each version, None until scheduled
  activation,     \* the activation ledger, by correlation id
  passed,         \* PASSED backtest runs: [v, config]
  approvals,      \* approval records: [v, decision, actor, config]
  authors,        \* who created or edited each draft (audit trail)
  requester,      \* actor of the latest STATE_TRANSITIONED event, per version
  recorded,       \* audit events of schedulings: [key, actor, config]
  tx,             \* the transaction of each process
  now             \* the clock

versionRows == <<status, config, rules, effectiveFrom>>
ledgers == <<activation, passed, approvals>>
auditTrail == <<authors, requester, recorded>>
vars == <<versionRows, ledgers, auditTrail, tx, now>>

-----------------------------------------------------------------------------
(* The state machine, the same table in the domain code and the trigger. *)
RevocableTransitions ==                    \* slip: an approval may be revoked
  [DRAFT            |-> {"VALIDATED"},
   VALIDATED        |-> {"DRAFT", "BACKTESTED"},
   BACKTESTED       |-> {"DRAFT", "APPROVAL_PENDING"},
   APPROVAL_PENDING |-> {"APPROVED", "REJECTED"},
   APPROVED         |-> {"SCHEDULED", "REJECTED"},
   SCHEDULED        |-> {"APPROVED", "ACTIVE"},
   ACTIVE           |-> {"SUPERSEDED", "ROLLED_BACK", "RETIRED"},
   REJECTED         |-> {"DRAFT"},
   SUPERSEDED       |-> {},
   ROLLED_BACK      |-> {},
   RETIRED          |-> {}]

AllowedTransitions ==
  [DRAFT            |-> {"VALIDATED"},
   VALIDATED        |-> {"DRAFT", "BACKTESTED"},
   BACKTESTED       |-> {"DRAFT", "APPROVAL_PENDING"},
   APPROVAL_PENDING |-> {"APPROVED", "REJECTED"},
   APPROVED         |-> {"SCHEDULED"},
   SCHEDULED        |-> {"APPROVED", "ACTIVE"},
   ACTIVE           |-> {"SUPERSEDED", "ROLLED_BACK", "RETIRED"},
   REJECTED         |-> {"DRAFT"},
   SUPERSEDED       |-> {},
   ROLLED_BACK      |-> {},
   RETIRED          |-> {}]

Status == DOMAIN AllowedTransitions

CanTransition(from, to) == from \in Status /\ to \in AllowedTransitions[from]

(* Statuses whose version may be backtested: everything past DRAFT but a   *)
(* rejected one.                                                           *)
Backtestable == Status \ {"DRAFT", "REJECTED"}

RequiredCategories == {"ENTRY", "EXIT", "SIZING"}
Complete(ruleSet) == RequiredCategories \subseteq {CategoryOf[r] : r \in ruleSet}

(* The row trigger on strategy versions: may the row of v become           *)
(* [status |-> to, config |-> c, effectiveFrom |-> eff] in a transaction   *)
(* that began at t?                                                        *)
EditableConfig(v, c) == TRUE               \* slip: no immutability check
ConfigAllowed(v, c) == status[v] # "DRAFT" => c = config[v]

StatusAllowed(v, to) == to = status[v] \/ CanTransition(status[v], to)

EffectiveFromAllowed(v, to, eff, t) ==
  /\ \/ eff = effectiveFrom[v]
     \/ status[v] = "APPROVED" /\ to = "SCHEDULED"
     \/ status[v] = "SCHEDULED" /\ to = "APPROVED" /\ eff = None
  /\ to = "SCHEDULED" => eff # None /\ eff \in AfterClose
  /\ to = "APPROVED" => eff = None
  /\ to = "ACTIVE" => eff # None /\ eff <= t /\ t \in AfterClose

TriggerAllows(v, to, c, eff, t) ==
  ConfigAllowed(v, c) /\ StatusAllowed(v, to) /\ EffectiveFromAllowed(v, to, eff, t)

(* Partial unique indexes: one ACTIVE version per strategy, and one open   *)
(* ACTIVE ledger entry per version.                                        *)
NoIndex(st) == TRUE                        \* slip: index dropped
OneActiveIndex(st) ==
  \A v, w \in Version : st[v] = "ACTIVE" /\ st[w] = "ACTIVE" => v = w

OneOpenIndex(ledger) ==
  \A j, k \in Correlation :
    LET Live(i) == ledger[i].state = "ACTIVE" /\ ledger[i].open
    IN  Live(j) /\ Live(k) /\ ledger[j].v = ledger[k].v => j = k

-----------------------------------------------------------------------------
(* Transactions. *)
Idle == [pc |-> "idle"]

Open(p, t) == tx[p] = Idle /\ tx' = [tx EXCEPT ![p] = t]
Close(p)   == tx' = [tx EXCEPT ![p] = Idle]

(* Rows of the activation ledger; open is "deactivatedAt is null". *)
Activation == [v : Version, at : Time, by : Approvers, state : {"SCHEDULED", "ACTIVE"},
               open : BOOLEAN]
NoActivation == [v |-> None, at |-> None, by |-> None, state |-> "NONE", open |-> FALSE]

Init ==
  /\ status = [v \in Version |-> IF v = 1 THEN "DRAFT" ELSE "ABSENT"]
  /\ \E c \in Config : config = [v \in Version |-> IF v = 1 THEN c ELSE None]
  /\ \E rs \in RuleSets : rules = [v \in Version |-> IF v = 1 THEN rs ELSE {}]
  /\ effectiveFrom = [v \in Version |-> None]
  /\ activation = [k \in Correlation |-> NoActivation]
  /\ passed = {}
  /\ approvals = {}
  /\ authors = [v \in Version |-> {}]
  /\ requester = [v \in Version |-> None]
  /\ recorded = {}
  /\ tx = [p \in Process |-> Idle]
  /\ now = 0

(* A transaction that fails: rejected by a trigger, an index or the        *)
(* serializer, timed out, or lost with the server.                         *)
Abort(p) ==
  /\ tx[p] # Idle
  /\ Close(p)
  /\ UNCHANGED <<versionRows, ledgers, auditTrail, now>>

-----------------------------------------------------------------------------
(* createDraft: the parent row, then its rules with a second SELECT, then  *)
(* the number of the newest version.                                       *)
ReadAnyParent(p, parent, actor) ==         \* slip: the parent is not looked up
  /\ Open(p, [pc |-> "copying", actor |-> actor, parent |-> parent,
              config |-> config[parent]])
  /\ UNCHANGED <<versionRows, ledgers, auditTrail, now>>

ReadParent(p, parent, actor) ==
  /\ status[parent] # "ABSENT"
  /\ Open(p, [pc |-> "copying", actor |-> actor, parent |-> parent,
              config |-> config[parent]])
  /\ UNCHANGED <<versionRows, ledgers, auditTrail, now>>

Newest(v) ==
  /\ status[v] # "ABSENT"
  /\ \A w \in Version : status[w] # "ABSENT" => w <= v

ReadParentRules(p) ==
  /\ tx[p].pc = "copying"
  /\ \E next \in Version :
       /\ next > 1 /\ Newest(next - 1)
       /\ tx' = [tx EXCEPT ![p] = [pc |-> "creating", actor |-> tx[p].actor,
                                   v |-> next, config |-> tx[p].config,
                                   rules |-> rules[tx[p].parent]]]
  /\ UNCHANGED <<versionRows, ledgers, auditTrail, now>>

CreateDraft(p) ==
  LET t == tx[p] IN
  /\ t.pc = "creating"
  /\ status[t.v] = "ABSENT"             \* unique (strategyId, version)
  /\ status' = [status EXCEPT ![t.v] = "DRAFT"]
  /\ config' = [config EXCEPT ![t.v] = t.config]
  /\ rules' = [rules EXCEPT ![t.v] = t.rules]
  /\ authors' = [authors EXCEPT ![t.v] = {t.actor}]
  /\ Close(p)
  /\ UNCHANGED <<effectiveFrom, ledgers, requester, recorded, now>>

(* updateDraft: the status check, then DELETE of the rules the statement   *)
(* can see.  A concurrent edit that commits while the DELETE waits for its *)
(* row locks leaves rows this statement never saw (late).                  *)
ReadDraft(p, v, c, ruleSet, actor) ==
  /\ status[v] = "DRAFT"
  /\ Open(p, [pc |-> "deleting", v |-> v, actor |-> actor, config |-> c,
              rules |-> ruleSet, late |-> FALSE])
  /\ UNCHANGED <<versionRows, ledgers, auditTrail, now>>

(* The DELETE ends and createMany inserts, both under the rule trigger     *)
(* (parent must be DRAFT) and the unique (version, rule) index.            *)
RewriteRules(p) ==
  LET t == tx[p] IN
  /\ t.pc = "deleting"
  /\ \A q \in Process \ {p} : ~(tx[q].pc = "rewriting" /\ tx[q].v = t.v)
  /\ status[t.v] = "DRAFT"
  /\ t.late => rules[t.v] \cap t.rules = {}
  /\ tx' = [tx EXCEPT ![p].pc = "rewriting"]
  /\ UNCHANGED <<versionRows, ledgers, auditTrail, now>>

(* The version row is updated, the audit event and the receipt follow, and *)
(* the transaction commits.                                                *)
CommitDraft(p) ==
  LET t == tx[p] IN
  /\ t.pc = "rewriting"
  /\ TriggerAllows(t.v, status[t.v], t.config, effectiveFrom[t.v], now)
  /\ config' = [config EXCEPT ![t.v] = t.config]
  /\ rules' = [rules EXCEPT ![t.v] = t.rules \cup (IF t.late THEN @ ELSE {})]
  /\ authors' = [authors EXCEPT ![t.v] = @ \cup {t.actor}]
  /\ tx' = [q \in Process |->
              IF q = p THEN Idle
              ELSE IF tx[q].pc = "deleting" /\ tx[q].v = t.v
                   THEN [tx[q] EXCEPT !.late = TRUE] ELSE tx[q]]
  /\ UNCHANGED <<status, effectiveFrom, ledgers, requester, recorded, now>>

-----------------------------------------------------------------------------
(* validateVersion, attestBacktest, requestApproval: read the version and  *)
(* what the command requires of it, then write the new status.             *)
ReadForTransition(p, v, to, actor) ==
  /\ CanTransition(status[v], to)
  /\ to = "VALIDATED" => Complete(rules[v])
  /\ to = "BACKTESTED" => \E run \in passed : run.v = v
  /\ Open(p, [pc |-> "moving", v |-> v, to |-> to, actor |-> actor])
  /\ UNCHANGED <<versionRows, ledgers, auditTrail, now>>

CommitTransition(p) ==
  LET t == tx[p] IN
  /\ t.pc = "moving"
  /\ TriggerAllows(t.v, t.to, config[t.v], effectiveFrom[t.v], now)
  /\ status' = [status EXCEPT ![t.v] = t.to]
  /\ requester' = [requester EXCEPT ![t.v] = t.actor]
  /\ Close(p)
  /\ UNCHANGED <<config, rules, effectiveFrom, ledgers, authors, recorded, now>>

(* decideApproval: the version must be pending, and the actor of its       *)
(* latest transition must be another user.                                 *)
ReadForDecision(p, v, decision, actor) ==
  /\ status[v] = "APPROVAL_PENDING"
  /\ requester[v] \notin {None, actor}
  /\ Open(p, [pc |-> "deciding", v |-> v, to |-> decision, actor |-> actor,
              config |-> config[v]])
  /\ UNCHANGED <<versionRows, ledgers, auditTrail, now>>

CommitDecision(p) ==
  LET t == tx[p] IN
  /\ t.pc = "deciding"
  /\ TriggerAllows(t.v, t.to, config[t.v], effectiveFrom[t.v], now)
  /\ status' = [status EXCEPT ![t.v] = t.to]
  /\ approvals' = approvals \cup {[v |-> t.v, decision |-> t.to,
                                   actor |-> t.actor, config |-> t.config]}
  /\ requester' = [requester EXCEPT ![t.v] = t.actor]
  /\ Close(p)
  /\ UNCHANGED <<config, rules, effectiveFrom, activation, passed, authors,
                 recorded, now>>

-----------------------------------------------------------------------------
(* A versioned backtest reads the version, runs, and records its verdict   *)
(* with the version it read; only PASSED verdicts matter here.             *)
ReadForBacktest(p, v) ==
  /\ status[v] \in Backtestable
  /\ Open(p, [pc |-> "backtesting", v |-> v, config |-> config[v]])
  /\ UNCHANGED <<versionRows, ledgers, auditTrail, now>>

RecordPassed(p) ==
  /\ tx[p].pc = "backtesting"
  /\ passed' = passed \cup {[v |-> tx[p].v, config |-> tx[p].config]}
  /\ Close(p)
  /\ UNCHANGED <<versionRows, activation, approvals, auditTrail, now>>

-----------------------------------------------------------------------------
(* schedule: the SERIALIZABLE transaction of the activation service, and,  *)
(* once it has committed, a second transaction with the audit event and    *)
(* the receipt.  Between them the command may be lost; the same request,   *)
(* sent again with its correlation id (SameRequest), finds the activation  *)
(* and only writes the audit.                                              *)
ReadForSchedule(p, v, k, at, actor) ==
  /\ activation[k] = NoActivation
  /\ CanTransition(status[v], "SCHEDULED")
  /\ at > now /\ at \in AfterClose
  /\ Open(p, [pc |-> "scheduling", v |-> v, key |-> k, at |-> at, actor |-> actor])
  /\ UNCHANGED <<versionRows, ledgers, auditTrail, now>>

CommitSchedule(p) ==
  LET t == tx[p] IN
  /\ t.pc = "scheduling"
  /\ activation[t.key] = NoActivation   \* unique correlationId
  /\ status[t.v] = "APPROVED"           \* the row is the one of the snapshot
  /\ TriggerAllows(t.v, "SCHEDULED", config[t.v], t.at, now)
  /\ status' = [status EXCEPT ![t.v] = "SCHEDULED"]
  /\ effectiveFrom' = [effectiveFrom EXCEPT ![t.v] = t.at]
  /\ activation' = [activation EXCEPT
       ![t.key] = [v |-> t.v, at |-> t.at, by |-> t.actor, state |-> "SCHEDULED", open |-> TRUE]]
  /\ tx' = [tx EXCEPT ![p] = [pc |-> "recording", key |-> t.key, v |-> t.v, actor |-> t.actor]]
  /\ UNCHANGED <<config, rules, passed, approvals, auditTrail, now>>

SameBooking(k, v, at, actor) ==            \* slip: the requester is not compared
  activation[k].v = v /\ activation[k].at = at

SameRequest(k, v, at, actor) ==
  activation[k].v = v /\ activation[k].at = at /\ activation[k].by = actor

RetrySchedule(p, k, v, at, actor) ==
  /\ activation[k] # NoActivation
  /\ SameRequest(k, v, at, actor)
  /\ Open(p, [pc |-> "recording", key |-> k, v |-> v, actor |-> actor])
  /\ UNCHANGED <<versionRows, ledgers, auditTrail, now>>

RecordSchedule(p) ==
  LET t == tx[p] IN
  /\ t.pc = "recording"
  /\ \A e \in recorded : e.key # t.key     \* unique audit idempotency key
  /\ recorded' = recorded \cup {[key |-> t.key, actor |-> t.actor, config |-> config[t.v]]}
  /\ Close(p)
  /\ UNCHANGED <<versionRows, ledgers, authors, requester, now>>

-----------------------------------------------------------------------------
(* Ledger entry k books version v. *)
Books(k, v) == activation[k].v = v /\ activation[k].state = "SCHEDULED"

(* activate: the SERIALIZABLE transaction that retires the version that is *)
(* live in its snapshot (the rival) and makes the scheduled one ACTIVE.    *)
ReadForActivate(p, k) ==
  LET a == activation[k] IN
  /\ a.state = "SCHEDULED"
  /\ now \in AfterClose
  /\ effectiveFrom[a.v] = a.at
  /\ CanTransition(status[a.v], "ACTIVE")
  /\ effectiveFrom[a.v] <= now
  /\ \E rival \in {w \in Version \ {a.v} : status[w] = "ACTIVE"} \cup {None} :
       /\ rival = None => \A w \in Version \ {a.v} : status[w] # "ACTIVE"
       /\ Open(p, [pc |-> "activating", key |-> k, v |-> a.v, rival |-> rival,
                   at |-> now])
  /\ UNCHANGED <<versionRows, ledgers, auditTrail, now>>

(* Status of every version once v has replaced rival. *)
Vacated(v, rival) ==                       \* slip: v waits for the next run
  [w \in Version |-> IF w = v /\ rival = None THEN "ACTIVE"
                     ELSE IF w = rival THEN "SUPERSEDED" ELSE status[w]]

Replaced(v, rival) ==
  [w \in Version |-> IF w = v THEN "ACTIVE"
                     ELSE IF w = rival THEN "SUPERSEDED" ELSE status[w]]

(* The ledger once entry key is live: the entries of the rival are closed. *)
LedgerNotClosed(key, rival) ==             \* slip: deactivatedAt is not set
  [activation EXCEPT ![key].state = "ACTIVE"]

LedgerAfter(key, rival) ==
  [k \in Correlation |->
     IF k = key THEN [activation[k] EXCEPT !.state = "ACTIVE"]
     ELSE IF activation[k].v = rival /\ activation[k].state = "ACTIVE"
          THEN [activation[k] EXCEPT !.open = FALSE]
          ELSE activation[k]]

CommitActivate(p) ==
  LET t == tx[p] IN
  /\ t.pc = "activating"
  /\ Books(t.key, t.v)                          \* rows as in the snapshot
  /\ status[t.v] = "SCHEDULED" /\ effectiveFrom[t.v] = activation[t.key].at
  /\ t.rival # None => status[t.rival] = "ACTIVE"
  /\ TriggerAllows(t.v, "ACTIVE", config[t.v], effectiveFrom[t.v], t.at)
  /\ OneActiveIndex(Replaced(t.v, t.rival))
  /\ OneOpenIndex(LedgerAfter(t.key, t.rival))
  /\ status' = Replaced(t.v, t.rival)
  /\ activation' = LedgerAfter(t.key, t.rival)
  /\ Close(p)
  /\ UNCHANGED <<config, rules, effectiveFrom, passed, approvals, auditTrail, now>>

-----------------------------------------------------------------------------
Tick ==
  /\ now < MaxTime
  /\ now' = now + 1
  /\ UNCHANGED <<versionRows, ledgers, auditTrail, tx>>

Drafting(p) ==
  \/ \E v \in Version, a \in Writers : ReadParent(p, v, a)
  \/ ReadParentRules(p) \/ CreateDraft(p)
  \/ \E v \in Version, c \in Config, rs \in RuleSets, a \in Writers :
       ReadDraft(p, v, c, rs, a)
  \/ RewriteRules(p) \/ CommitDraft(p)

Reviewing(p) ==
  \/ \E v \in Version, a \in Writers,
        to \in {"VALIDATED", "BACKTESTED", "APPROVAL_PENDING"} :
       ReadForTransition(p, v, to, a)
  \/ CommitTransition(p)
  \/ \E v \in Version, a \in Approvers, d \in {"APPROVED", "REJECTED"} :
       ReadForDecision(p, v, d, a)
  \/ CommitDecision(p)
  \/ \E v \in Version : ReadForBacktest(p, v)
  \/ RecordPassed(p)

Activating(p) ==
  \/ \E v \in Version, k \in Correlation, at \in Time, a \in Approvers :
       ReadForSchedule(p, v, k, at, a)
  \/ CommitSchedule(p)
  \/ \E v \in Version, k \in Correlation, at \in Time, a \in Approvers :
       RetrySchedule(p, k, v, at, a)
  \/ RecordSchedule(p)
  \/ \E k \in Correlation : ReadForActivate(p, k)
  \/ CommitActivate(p)

Next ==
  \/ \E p \in Process : Drafting(p) \/ Reviewing(p) \/ Activating(p) \/ Abort(p)
  \/ Tick

Spec == Init /\ [][Next]_vars

-----------------------------------------------------------------------------
(* Properties. *)

Approved == {"APPROVED", "SCHEDULED", "ACTIVE", "SUPERSEDED"}

(* What a process holds between the reads and the commit of its command. *)
Transaction ==
  {Idle}
  \cup [pc : {"copying"}, actor : Writers, parent : Version, config : Config]
  \cup [pc : {"creating"}, actor : Writers, v : Version, config : Config,
        rules : SUBSET Rule]
  \cup [pc : {"deleting", "rewriting"}, v : Version, actor : Writers, config : Config,
        rules : SUBSET Rule, late : BOOLEAN]
  \cup [pc : {"moving"}, v : Version, actor : Writers,
        to : {"VALIDATED", "BACKTESTED", "APPROVAL_PENDING"}]
  \cup [pc : {"deciding"}, v : Version, to : {"APPROVED", "REJECTED"},
        actor : Approvers, config : Config]
  \cup [pc : {"backtesting"}, v : Version, config : Config]
  \cup [pc : {"scheduling"}, v : Version, key : Correlation, at : Time, actor : Approvers]
  \cup [pc : {"recording"}, key : Correlation, v : Version, actor : Approvers]
  \cup [pc : {"activating"}, key : Correlation, v : Version,
        rival : Version \cup {None}, at : Time]

(* The types of the rows, and that the columns of a row fit its status: a  *)
(* version that exists has a configuration, and one that has been          *)
(* scheduled, and no other, has an effective time.                         *)
TypeOK ==
  /\ status \in [Version -> Status \cup {"ABSENT"}]
  /\ config \in [Version -> Config \cup {None}]
  /\ rules \in [Version -> SUBSET Rule]
  /\ effectiveFrom \in [Version -> Time \cup {None}]
  /\ activation \in [Correlation -> Activation \cup {NoActivation}]
  /\ passed \subseteq [v : Version, config : Config]
  /\ approvals \subseteq [v : Version, decision : {"APPROVED", "REJECTED"},
                          actor : Approvers, config : Config]
  /\ authors \in [Version -> SUBSET Writers]
  /\ requester \in [Version -> Actor \cup {None}]
  /\ recorded \subseteq [key : Correlation, actor : Approvers, config : Config \cup {None}]
  /\ now \in Time
  /\ tx \in [Process -> Transaction]
  /\ \A v \in Version :
       /\ status[v] # "ABSENT" => config[v] \in Config
       /\ effectiveFrom[v] # None <=> status[v] \in {"SCHEDULED", "ACTIVE", "SUPERSEDED"}

(* The version table and the activation ledger, written by different       *)
(* statements, agree on what is booked: a version is SCHEDULED exactly     *)
(* when one open ledger entry books it, for its effective time.  A         *)
(* decision that was read before the booking and commits after it must not *)
(* disturb either side.                                                    *)
BookingOf(v) ==
  IF status[v] = "SCHEDULED"
  THEN \E k \in Correlation :
         /\ Books(k, v) /\ activation[k].open /\ activation[k].at = effectiveFrom[v]
         /\ \A j \in Correlation : Books(j, v) => j = k
  ELSE \A k \in Correlation : ~Books(k, v)

BookingAgrees == \A v \in Version : BookingOf(v)

(* ... and on what is live: a version is ACTIVE exactly when the ledger    *)
(* has one open ACTIVE entry for it; the entry of a superseded version is  *)
(* closed.                                                                 *)
Backs(k, v) == activation[k].v = v /\ activation[k].state = "ACTIVE" /\ activation[k].open

LiveOf(v) ==
  IF status[v] = "ACTIVE"
  THEN \E k \in Correlation : Backs(k, v) /\ \A j \in Correlation : Backs(j, v) => j = k
  ELSE \A k \in Correlation : ~Backs(k, v)

LiveAgrees == \A v \in Version : LiveOf(v)

(* Both: no command, however it overlaps with others, leaves the version   *)
(* table and the activation ledger telling different stories.              *)
LedgerAgrees == BookingAgrees /\ LiveAgrees

(* The booking commits in one transaction and its audit event in a later   *)
(* one, which may be lost and made good by a retry that races the original *)
(* or comes when the version is long ACTIVE.  Whoever writes the event, it *)
(* is the only one of its booking and names the operator who booked and    *)
(* the configuration that was booked (schedule, 340-380 of the command     *)
(* service and 79-105 of the activation service).                          *)
AuditNamesBooking ==
  \A e \in recorded :
    /\ \E v \in Version : /\ activation[e.key].v = v /\ activation[e.key].by = e.actor
                          /\ status[v] \in {"SCHEDULED", "ACTIVE", "SUPERSEDED"}
                          /\ config[v] = e.config
    /\ \A f \in recorded : f.key = e.key => f = e

(* The configuration an approved version carries is the one the backtest   *)
(* passed on and the one the approval record names, although the edit, the *)
(* backtest and the decision are three commands that may overlap.          *)
EvidenceMatchesConfig ==
  \A v \in Version : status[v] \in Approved =>
    /\ [v |-> v, config |-> config[v]] \in passed
    /\ \E r \in approvals : r.v = v /\ r.decision = "APPROVED" /\ r.config = config[v]

(* A review has one outcome: two operators deciding at once never leave an *)
(* approval and a rejection of the same version, and the status is the one *)
(* the records say.                                                        *)
DecisionIsFinal ==
  \A r \in approvals :
    IF r.decision = "REJECTED" THEN status[r.v] = "REJECTED" ELSE status[r.v] \in Approved

(* Once the strategy has an ACTIVE version it always has one: the hand-over*)
(* leaves no instant without a strategy in force.                          *)
NoActivationGap ==
  [][(\E v \in Version : status[v] = "ACTIVE")
       => (\E v \in Version : status'[v] = "ACTIVE")]_vars

(* The store implements the atomic lifecycle. *)
Lifecycle == INSTANCE StrategyLifecycle WITH stage <- status
LifecycleSpec == Lifecycle!Spec

(* What the documentation says and concurrent commands break.              *)
(* docs/database-schema.md:2054: the rules of a version can be added,      *)
(* changed or deleted only while the version is DRAFT.                     *)
RulesChangeOnlyInDraft ==
  [][\A v \in Version : status[v] \notin {"ABSENT", "DRAFT"} => rules'[v] = rules[v]]_vars
=============================================================================
