----------------------- MODULE StrategyVersionsProofs -----------------------
(***************************************************************************)
(* Proofs about StrategyVersions, for any number of versions, processes,   *)
(* operators, configurations and correlation ids.                          *)
(***************************************************************************)
EXTENDS StrategyVersions, TLAPS

(* The transition table, read backwards: where a version can come from.    *)
LEMMA TransitionSources ==
  ASSUME NEW from, NEW to, CanTransition(from, to)
  PROVE  /\ to = "VALIDATED" => from = "DRAFT"
         /\ to = "BACKTESTED" => from = "VALIDATED"
         /\ to = "APPROVAL_PENDING" => from = "BACKTESTED"
         /\ to = "APPROVED" => from \in {"APPROVAL_PENDING", "SCHEDULED"}
         /\ to = "REJECTED" => from = "APPROVAL_PENDING"
         /\ to = "SCHEDULED" => from = "APPROVED"
         /\ to = "ACTIVE" => from = "SCHEDULED"
BY DEF CanTransition, AllowedTransitions, Status

LEMMA StatusNames ==
  Status = {"DRAFT", "VALIDATED", "BACKTESTED", "APPROVAL_PENDING", "APPROVED",
            "SCHEDULED", "ACTIVE", "REJECTED", "SUPERSEDED", "ROLLED_BACK", "RETIRED"}
BY DEF Status, AllowedTransitions

(* What the transaction of each kind carries. *)
LEMMA TransactionFields ==
  ASSUME NEW t \in Transaction
  PROVE  /\ t.pc = "copying" =>
              t \in [pc : {"copying"}, actor : Writers, parent : Version, config : Config]
         /\ t.pc = "creating" =>
              t \in [pc : {"creating"}, actor : Writers, v : Version, config : Config,
                     rules : SUBSET Rule]
         /\ t.pc \in {"deleting", "rewriting"} =>
              t \in [pc : {"deleting", "rewriting"}, v : Version, actor : Writers,
                     config : Config, rules : SUBSET Rule, late : BOOLEAN]
         /\ t.pc = "moving" =>
              t \in [pc : {"moving"}, v : Version, actor : Writers,
                     to : {"VALIDATED", "BACKTESTED", "APPROVAL_PENDING"}]
         /\ t.pc = "deciding" =>
              t \in [pc : {"deciding"}, v : Version, to : {"APPROVED", "REJECTED"},
                     actor : Approvers, config : Config]
         /\ t.pc = "backtesting" =>
              t \in [pc : {"backtesting"}, v : Version, config : Config]
         /\ t.pc = "scheduling" =>
              t \in [pc : {"scheduling"}, v : Version, key : Correlation, at : Time,
                     actor : Approvers]
         /\ t.pc = "recording" =>
              t \in [pc : {"recording"}, key : Correlation, v : Version, actor : Approvers]
         /\ t.pc = "activating" =>
              t \in [pc : {"activating"}, key : Correlation, v : Version,
                     rival : Version \cup {None}, at : Time]
BY DEF Transaction, Idle

LEMMA InitTypeOK == Init => TypeOK
<1> SUFFICES ASSUME Init PROVE TypeOK
  OBVIOUS
<1> USE ConstantsAssumption, StatusNames
<1>1. PICK c \in Config, rs \in RuleSets :
        /\ config = [v \in Version |-> IF v = 1 THEN c ELSE None]
        /\ rules = [v \in Version |-> IF v = 1 THEN rs ELSE {}]
  BY DEF Init
<1>2. status \in [Version -> Status \cup {"ABSENT"}] /\ config \in [Version -> Config \cup {None}]
      /\ rules \in [Version -> SUBSET Rule] /\ effectiveFrom \in [Version -> Time \cup {None}]
  BY <1>1 DEF Init
<1>3. activation \in [Correlation -> Activation \cup {NoActivation}]
  BY DEF Init
<1>4. tx \in [Process -> Transaction]
  BY DEF Init, Transaction, Idle
<1>5. \A v \in Version :
        /\ status[v] # "ABSENT" => config[v] \in Config
        /\ effectiveFrom[v] # None <=> status[v] \in {"SCHEDULED", "ACTIVE", "SUPERSEDED"}
  BY <1>1 DEF Init
<1>6. QED
  BY <1>2, <1>3, <1>4, <1>5 DEF Init, TypeOK, Time

(* Every step keeps the rows well formed.  What a commit writes is typed   *)
(* because the transaction that carries it is.                             *)
LEMMA NextTypeOK == TypeOK /\ [Next]_vars => TypeOK'
<1> SUFFICES ASSUME TypeOK, [Next]_vars PROVE TypeOK'
  OBVIOUS
<1> USE ConstantsAssumption DEF versionRows, ledgers, auditTrail
<1>0. /\ tx \in [Process -> Transaction]
      /\ Idle \in Transaction
  BY DEF TypeOK, Transaction
<1>1. ASSUME NEW p \in Process, Drafting(p) PROVE TypeOK'
  <2>1. ASSUME NEW v \in Version, NEW a \in Writers, ReadParent(p, v, a) PROVE TypeOK'
    <3>1. tx' \in [Process -> Transaction]
      BY <2>1, <1>0 DEF ReadParent, Open, TypeOK, Transaction
    <3>2. QED
      BY <2>1, <3>1 DEF ReadParent, TypeOK
  <2>2. CASE ReadParentRules(p)
    <3>1. tx[p] \in [pc : {"copying"}, actor : Writers, parent : Version, config : Config]
      BY <2>2, <1>0, TransactionFields DEF ReadParentRules
    <3>2. PICK next \in Version :
            tx' = [tx EXCEPT ![p] = [pc |-> "creating", actor |-> tx[p].actor,
                                     v |-> next, config |-> tx[p].config,
                                     rules |-> rules[tx[p].parent]]]
      BY <2>2 DEF ReadParentRules
    <3>3. tx' \in [Process -> Transaction]
      BY <3>1, <3>2, <1>0 DEF TypeOK, Transaction
    <3>4. QED
      BY <2>2, <3>3 DEF ReadParentRules, TypeOK
  <2>3. CASE CreateDraft(p)
    <3>1. tx[p] \in [pc : {"creating"}, actor : Writers, v : Version, config : Config,
                     rules : SUBSET Rule]
      BY <2>3, <1>0, TransactionFields DEF CreateDraft
    <3>2. tx' \in [Process -> Transaction]
      BY <2>3, <1>0 DEF CreateDraft, Close
    <3>3. QED
      BY <2>3, <3>1, <3>2, StatusNames DEF CreateDraft, TypeOK
  <2>4. ASSUME NEW v \in Version, NEW c \in Config, NEW rs \in RuleSets, NEW a \in Writers,
               ReadDraft(p, v, c, rs, a)
        PROVE TypeOK'
    <3>1. tx' \in [Process -> Transaction]
      BY <2>4, <1>0 DEF ReadDraft, Open, Transaction
    <3>2. QED
      BY <2>4, <3>1 DEF ReadDraft, TypeOK
  <2>5. CASE RewriteRules(p)
    <3>1. tx[p] \in [pc : {"deleting", "rewriting"}, v : Version, actor : Writers,
                     config : Config, rules : SUBSET Rule, late : BOOLEAN]
      BY <2>5, <1>0, TransactionFields DEF RewriteRules
    <3>2. tx' \in [Process -> Transaction]
      BY <2>5, <3>1, <1>0 DEF RewriteRules, Transaction
    <3>3. QED
      BY <2>5, <3>2 DEF RewriteRules, TypeOK
  <2>6. CASE CommitDraft(p)
    <3>1. tx[p] \in [pc : {"deleting", "rewriting"}, v : Version, actor : Writers,
                     config : Config, rules : SUBSET Rule, late : BOOLEAN]
      BY <2>6, <1>0, TransactionFields DEF CommitDraft
    <3>2. \A q \in Process : tx[q].pc = "deleting" =>
            [tx[q] EXCEPT !.late = TRUE] \in Transaction
      <4>1. TAKE q \in Process
      <4>2. HAVE tx[q].pc = "deleting"
      <4>3. tx[q] \in [pc : {"deleting", "rewriting"}, v : Version, actor : Writers,
                       config : Config, rules : SUBSET Rule, late : BOOLEAN]
        BY <4>2, <1>0, TransactionFields
      <4>4. QED
        BY <4>3 DEF Transaction
    <3>3. tx' \in [Process -> Transaction]
      BY <2>6, <3>2, <1>0 DEF CommitDraft
    <3>4. QED
      BY <2>6, <3>1, <3>3 DEF CommitDraft, TypeOK
  <2>7. QED
    BY <1>1, <2>1, <2>2, <2>3, <2>4, <2>5, <2>6 DEF Drafting
<1>2. ASSUME NEW p \in Process, Reviewing(p) PROVE TypeOK'
  <2>1. ASSUME NEW v \in Version, NEW a \in Writers,
               NEW to \in {"VALIDATED", "BACKTESTED", "APPROVAL_PENDING"},
               ReadForTransition(p, v, to, a)
        PROVE TypeOK'
    <3>1. tx' \in [Process -> Transaction]
      BY <2>1, <1>0 DEF ReadForTransition, Open, Transaction
    <3>2. QED
      BY <2>1, <3>1 DEF ReadForTransition, TypeOK
  <2>2. CASE CommitTransition(p)
    <3>1. tx[p] \in [pc : {"moving"}, v : Version, actor : Writers,
                     to : {"VALIDATED", "BACKTESTED", "APPROVAL_PENDING"}]
      BY <2>2, <1>0, TransactionFields DEF CommitTransition
    <3>2. status[tx[p].v] = tx[p].to \/ status[tx[p].v] \in {"DRAFT", "VALIDATED", "BACKTESTED"}
      BY <2>2, <3>1, TransitionSources DEF CommitTransition, TriggerAllows, StatusAllowed, EffectiveFromAllowed
    <3>3. tx' \in [Process -> Transaction]
      BY <2>2, <1>0 DEF CommitTransition, Close
    <3>4. QED
      BY <2>2, <3>1, <3>2, <3>3, StatusNames DEF CommitTransition, TypeOK, Actor
  <2>3. ASSUME NEW v \in Version, NEW a \in Approvers, NEW d \in {"APPROVED", "REJECTED"},
               ReadForDecision(p, v, d, a)
        PROVE TypeOK'
    <3>1. tx' \in [Process -> Transaction]
      BY <2>3, <1>0 DEF ReadForDecision, Open, Transaction, TypeOK
    <3>2. QED
      BY <2>3, <3>1 DEF ReadForDecision, TypeOK
  <2>4. CASE CommitDecision(p)
    <3>1. tx[p] \in [pc : {"deciding"}, v : Version, to : {"APPROVED", "REJECTED"},
                     actor : Approvers, config : Config]
      BY <2>4, <1>0, TransactionFields DEF CommitDecision
    <3>2. status[tx[p].v] \in {"APPROVED", "REJECTED", "APPROVAL_PENDING"}
      BY <2>4, <3>1, TransitionSources DEF CommitDecision, TriggerAllows, StatusAllowed, EffectiveFromAllowed, TypeOK
    <3>3. tx' \in [Process -> Transaction]
      BY <2>4, <1>0 DEF CommitDecision, Close
    <3>4. approvals' \subseteq [v : Version, decision : {"APPROVED", "REJECTED"},
                                actor : Approvers, config : Config]
      BY <2>4, <3>1 DEF CommitDecision, TypeOK
    <3>5. QED
      BY <2>4, <3>1, <3>2, <3>3, <3>4, StatusNames DEF CommitDecision, TypeOK, Actor
  <2>5. ASSUME NEW v \in Version, ReadForBacktest(p, v) PROVE TypeOK'
    <3>1. tx' \in [Process -> Transaction]
      BY <2>5, <1>0, StatusNames DEF ReadForBacktest, Open, Transaction, TypeOK, Backtestable
    <3>2. QED
      BY <2>5, <3>1 DEF ReadForBacktest, TypeOK
  <2>6. CASE RecordPassed(p)
    <3>1. tx[p] \in [pc : {"backtesting"}, v : Version, config : Config]
      BY <2>6, <1>0, TransactionFields DEF RecordPassed
    <3>2. tx' \in [Process -> Transaction]
      BY <2>6, <1>0 DEF RecordPassed, Close
    <3>3. QED
      BY <2>6, <3>1, <3>2 DEF RecordPassed, TypeOK
  <2>7. QED
    BY <1>2, <2>1, <2>2, <2>3, <2>4, <2>5, <2>6 DEF Reviewing
<1>3. ASSUME NEW p \in Process, Activating(p) PROVE TypeOK'
  <2>1. ASSUME NEW v \in Version, NEW k \in Correlation, NEW at \in Time, NEW a \in Approvers,
               ReadForSchedule(p, v, k, at, a)
        PROVE TypeOK'
    <3>1. tx' \in [Process -> Transaction]
      BY <2>1, <1>0 DEF ReadForSchedule, Open, Transaction
    <3>2. QED
      BY <2>1, <3>1 DEF ReadForSchedule, TypeOK
  <2>2. CASE CommitSchedule(p)
    <3>1. tx[p] \in [pc : {"scheduling"}, v : Version, key : Correlation, at : Time,
                     actor : Approvers]
      BY <2>2, <1>0, TransactionFields DEF CommitSchedule
    <3>2. tx' \in [Process -> Transaction]
      BY <2>2, <3>1, <1>0 DEF CommitSchedule, Transaction
    <3>3. activation' \in [Correlation -> Activation \cup {NoActivation}]
      BY <2>2, <3>1 DEF CommitSchedule, TypeOK, Activation
    <3>4. tx[p].at # None
      BY <3>1
    <3>5. QED
      BY <2>2, <3>1, <3>2, <3>3, <3>4, StatusNames DEF CommitSchedule, TypeOK
  <2>3. ASSUME NEW v \in Version, NEW k \in Correlation, NEW at \in Time, NEW a \in Approvers,
               RetrySchedule(p, k, v, at, a)
        PROVE TypeOK'
    <3>1. tx' \in [Process -> Transaction]
      BY <2>3, <1>0 DEF RetrySchedule, Open, Transaction
    <3>2. QED
      BY <2>3, <3>1 DEF RetrySchedule, TypeOK
  <2>4. CASE RecordSchedule(p)
    <3>1. tx[p] \in [pc : {"recording"}, key : Correlation, v : Version, actor : Approvers]
      BY <2>4, <1>0, TransactionFields DEF RecordSchedule
    <3>2. tx' \in [Process -> Transaction]
      BY <2>4, <1>0 DEF RecordSchedule, Close
    <3>3. QED
      BY <2>4, <3>1, <3>2 DEF RecordSchedule, TypeOK
  <2>5. ASSUME NEW k \in Correlation, ReadForActivate(p, k) PROVE TypeOK'
    <3>1. activation[k].v \in Version
      BY <2>5 DEF ReadForActivate, TypeOK, Activation, NoActivation
    <3>2. tx' \in [Process -> Transaction]
      BY <2>5, <3>1, <1>0 DEF ReadForActivate, Open, Transaction, TypeOK
    <3>3. QED
      BY <2>5, <3>2 DEF ReadForActivate, TypeOK
  <2>6. CASE CommitActivate(p)
    <3>1. tx[p] \in [pc : {"activating"}, key : Correlation, v : Version,
                     rival : Version \cup {None}, at : Time]
      BY <2>6, <1>0, TransactionFields DEF CommitActivate
    <3>2. tx' \in [Process -> Transaction]
      BY <2>6, <1>0 DEF CommitActivate, Close
    <3>3. activation' \in [Correlation -> Activation \cup {NoActivation}]
      <4>1. ASSUME NEW k \in Correlation, activation[k].state \in {"SCHEDULED", "ACTIVE"}
            PROVE  /\ [activation[k] EXCEPT !.state = "ACTIVE"] \in Activation
                   /\ [activation[k] EXCEPT !.open = FALSE] \in Activation
        <5>1. activation[k] \in Activation
          BY <4>1 DEF TypeOK, NoActivation
        <5>2. QED
          BY <5>1 DEF Activation
      <4>2. QED
        BY <2>6, <3>1, <4>1 DEF CommitActivate, LedgerAfter, Books, TypeOK
    <3>4. status' \in [Version -> Status \cup {"ABSENT"}]
      BY <2>6, <3>1, StatusNames DEF CommitActivate, Replaced, TypeOK
    <3>5. \A v \in Version : status'[v] # status[v] =>
            /\ status[v] \in {"SCHEDULED", "ACTIVE"}
            /\ status'[v] \in {"ACTIVE", "SUPERSEDED"}
      BY <2>6, <3>1 DEF CommitActivate, Replaced
    <3>6. QED
      BY <2>6, <3>2, <3>3, <3>4, <3>5 DEF CommitActivate, TypeOK
  <2>7. QED
    BY <1>3, <2>1, <2>2, <2>3, <2>4, <2>5, <2>6 DEF Activating
<1>4. ASSUME NEW p \in Process, Abort(p) PROVE TypeOK'
  BY <1>4, <1>0 DEF Abort, Close, TypeOK
<1>5. CASE Tick
  BY <1>5 DEF Tick, TypeOK, Time
<1>6. CASE UNCHANGED vars
  BY <1>6 DEF vars, TypeOK
<1>7. QED
  BY <1>1, <1>2, <1>3, <1>4, <1>5, <1>6 DEF Next

(* The rows and the transactions stay well typed, for every value of the   *)
(* constants.                                                              *)
THEOREM TypeCorrect == Spec => []TypeOK
BY InitTypeOK, NextTypeOK, PTL DEF Spec

-----------------------------------------------------------------------------
(* What a step can do to the lifecycle: nothing; move one version along    *)
(* the drafting and review path; decide a review; book; activate.          *)

Quiet == UNCHANGED <<status, effectiveFrom, activation, approvals>>

ReviewSteps == {<<"ABSENT", "DRAFT">>, <<"DRAFT", "VALIDATED">>,
                <<"VALIDATED", "BACKTESTED">>, <<"BACKTESTED", "APPROVAL_PENDING">>}

Forward(v, s) ==
  /\ <<status[v], s>> \in ReviewSteps
  /\ status' = [status EXCEPT ![v] = s]
  /\ UNCHANGED <<effectiveFrom, activation, approvals>>

Decide(v, d) ==
  /\ status[v] \in {"APPROVAL_PENDING", d}
  /\ status' = [status EXCEPT ![v] = d]
  /\ \E a \in Approvers, c \in Config :
       approvals' = approvals \cup {[v |-> v, decision |-> d, actor |-> a, config |-> c]}
  /\ UNCHANGED <<effectiveFrom, activation>>

StepKind ==
  \/ Quiet
  \/ \E v \in Version, s \in {"DRAFT", "VALIDATED", "BACKTESTED", "APPROVAL_PENDING"} :
       Forward(v, s)
  \/ \E v \in Version, d \in {"APPROVED", "REJECTED"} : Decide(v, d)
  \/ \E p \in Process : CommitSchedule(p)
  \/ \E p \in Process : CommitActivate(p)

LEMMA StepKinds == TypeOK /\ [Next]_vars => StepKind
<1> SUFFICES ASSUME TypeOK, [Next]_vars PROVE StepKind
  OBVIOUS
<1> USE ConstantsAssumption DEF versionRows, ledgers, auditTrail
<1>0. tx \in [Process -> Transaction]
  BY DEF TypeOK
<1>1. ASSUME NEW p \in Process, Drafting(p) PROVE StepKind
  <2>1. CASE CreateDraft(p)
    <3>1. tx[p].v \in Version
      BY <2>1, <1>0, TransactionFields DEF CreateDraft
    <3>2. Forward(tx[p].v, "DRAFT")
      BY <2>1 DEF CreateDraft, Forward, ReviewSteps
    <3>3. QED
      BY <3>1, <3>2 DEF StepKind
  <2>2. CASE ~CreateDraft(p)
    <3>1. Quiet
      BY <1>1, <2>2 DEF Drafting, Quiet, ReadParent, ReadParentRules, ReadDraft,
                        RewriteRules, CommitDraft
    <3>2. QED
      BY <3>1 DEF StepKind
  <2>3. QED
    BY <2>1, <2>2
<1>2. ASSUME NEW p \in Process, Reviewing(p) PROVE StepKind
  <2>1. CASE CommitTransition(p)
    <3>1. tx[p] \in [pc : {"moving"}, v : Version, actor : Writers,
                     to : {"VALIDATED", "BACKTESTED", "APPROVAL_PENDING"}]
      BY <2>1, <1>0, TransactionFields DEF CommitTransition
    <3>2. CASE status[tx[p].v] = tx[p].to
      BY <2>1, <3>1, <3>2 DEF CommitTransition, StepKind, Quiet, TypeOK
    <3>3. CASE CanTransition(status[tx[p].v], tx[p].to)
      <4>1. <<status[tx[p].v], tx[p].to>> \in ReviewSteps
        BY <3>1, <3>3, TransitionSources DEF ReviewSteps
      <4>2. Forward(tx[p].v, tx[p].to)
        BY <2>1, <4>1 DEF CommitTransition, Forward
      <4>3. QED
        BY <3>1, <4>2 DEF StepKind
    <3>4. QED
      BY <2>1, <3>2, <3>3 DEF CommitTransition, TriggerAllows, StatusAllowed, EffectiveFromAllowed
  <2>2. CASE CommitDecision(p)
    <3>1. tx[p] \in [pc : {"deciding"}, v : Version, to : {"APPROVED", "REJECTED"},
                     actor : Approvers, config : Config]
      BY <2>2, <1>0, TransactionFields DEF CommitDecision
    <3>2. status[tx[p].v] \in {"APPROVAL_PENDING", tx[p].to}
      <4>1. status[tx[p].v] \in {"APPROVAL_PENDING", tx[p].to, "SCHEDULED"}
        BY <2>2, <3>1, TransitionSources DEF CommitDecision, TriggerAllows, StatusAllowed, EffectiveFromAllowed
      <4>2. tx[p].to = "APPROVED" => status[tx[p].v] # "SCHEDULED"
        BY <2>2, <3>1 DEF CommitDecision, TriggerAllows, StatusAllowed, EffectiveFromAllowed, TypeOK
      <4>3. tx[p].to = "REJECTED" => status[tx[p].v] # "SCHEDULED"
        BY <2>2, <3>1, TransitionSources DEF CommitDecision, TriggerAllows, StatusAllowed, EffectiveFromAllowed
      <4>4. QED
        BY <3>1, <4>1, <4>2, <4>3
    <3>3. Decide(tx[p].v, tx[p].to)
      BY <2>2, <3>1, <3>2 DEF CommitDecision, Decide
    <3>4. QED
      BY <3>1, <3>3 DEF StepKind
  <2>3. CASE ~CommitTransition(p) /\ ~CommitDecision(p)
    <3>1. Quiet
      BY <1>2, <2>3 DEF Reviewing, Quiet, ReadForTransition, ReadForDecision,
                        ReadForBacktest, RecordPassed
    <3>2. QED
      BY <3>1 DEF StepKind
  <2>4. QED
    BY <2>1, <2>2, <2>3
<1>3. ASSUME NEW p \in Process, Activating(p) PROVE StepKind
  BY <1>3 DEF Activating, StepKind, Quiet, ReadForSchedule, RetrySchedule,
              RecordSchedule, ReadForActivate
<1>4. ASSUME NEW p \in Process, Abort(p) PROVE StepKind
  BY <1>4 DEF Abort, Quiet, StepKind
<1>5. CASE Tick \/ UNCHANGED vars
  BY <1>5 DEF Tick, vars, Quiet, StepKind
<1>6. QED
  BY <1>1, <1>2, <1>3, <1>4, <1>5 DEF Next

-----------------------------------------------------------------------------
(* The inductive invariant: the version table and the activation ledger    *)
(* must agree for an activation to close the entry of the version it       *)
(* replaces, and a closed entry for the replaced version is what keeps     *)
(* the two in agreement.  That one version at most is ACTIVE is the        *)
(* partial unique index; it makes the rival of an activation the only one. *)
OneActive == \A v, w \in Version : status[v] = "ACTIVE" /\ status[w] = "ACTIVE" => v = w

IInv == TypeOK /\ OneActive /\ BookingAgrees /\ LiveAgrees

LEMMA InitIInv == Init => IInv
<1> SUFFICES ASSUME Init PROVE IInv
  OBVIOUS
<1>1. TypeOK
  BY InitTypeOK
<1>2. \A v \in Version : status[v] \in {"ABSENT", "DRAFT"}
  BY DEF Init
<1>3. \A k \in Correlation : activation[k] = NoActivation
  BY DEF Init
<1>4. OneActive /\ BookingAgrees /\ LiveAgrees
  BY <1>2, <1>3 DEF OneActive, BookingAgrees, BookingOf, LiveAgrees, LiveOf, Books, Backs, NoActivation
<1>5. QED
  BY <1>1, <1>4 DEF IInv

(* What a commit of schedule changes. *)
LEMMA ScheduleEffect ==
  ASSUME TypeOK, NEW p \in Process, CommitSchedule(p)
  PROVE  \E v \in Version, k \in Correlation, at \in Time :
           /\ status[v] = "APPROVED" /\ activation[k] = NoActivation
           /\ status' = [status EXCEPT ![v] = "SCHEDULED"]
           /\ effectiveFrom' = [effectiveFrom EXCEPT ![v] = at]
           /\ \E a \in Approvers : activation' = [activation EXCEPT
                ![k] = [v |-> v, at |-> at, by |-> a, state |-> "SCHEDULED", open |-> TRUE]]
           /\ UNCHANGED approvals
<1>1. tx[p] \in [pc : {"scheduling"}, v : Version, key : Correlation, at : Time,
                 actor : Approvers]
  BY TransactionFields DEF CommitSchedule, TypeOK
<1>2. QED
  BY <1>1 DEF CommitSchedule

(* What a commit of activate changes. *)
LEMMA ActivateEffect ==
  ASSUME TypeOK, NEW p \in Process, CommitActivate(p)
  PROVE  \E v \in Version, k \in Correlation, rival \in Version \cup {None} :
           /\ status[v] = "SCHEDULED" /\ Books(k, v)
           /\ rival # None => status[rival] = "ACTIVE"
           /\ OneActiveIndex(Replaced(v, rival))
           /\ status' = Replaced(v, rival)
           /\ activation' = LedgerAfter(k, rival)
           /\ UNCHANGED <<effectiveFrom, approvals>>
<1>1. tx[p] \in [pc : {"activating"}, key : Correlation, v : Version,
                 rival : Version \cup {None}, at : Time]
  BY TransactionFields DEF CommitActivate, TypeOK
<1>2. QED
  BY <1>1 DEF CommitActivate

LEMMA NextIInv == IInv /\ [Next]_vars => IInv'
<1> SUFFICES ASSUME IInv, [Next]_vars PROVE IInv'
  OBVIOUS
<1> USE ConstantsAssumption
<1>1. TypeOK /\ OneActive /\ BookingAgrees /\ LiveAgrees
  BY DEF IInv
<1>2. TypeOK'
  BY <1>1, NextTypeOK
<1>3. CASE Quiet
  BY <1>1, <1>2, <1>3 DEF IInv, Quiet, OneActive, BookingAgrees, BookingOf, LiveAgrees, LiveOf, Books, Backs
<1>4. ASSUME NEW v \in Version,
             NEW s \in {"DRAFT", "VALIDATED", "BACKTESTED", "APPROVAL_PENDING",
                       "APPROVED", "REJECTED"},
             status[v] \notin {"SCHEDULED", "ACTIVE"},
             status' = [status EXCEPT ![v] = s],
             UNCHANGED <<effectiveFrom, activation>>
      PROVE  IInv'
  <2>1. \A w \in Version :
          /\ status'[w] = "SCHEDULED" <=> status[w] = "SCHEDULED"
          /\ status'[w] = "ACTIVE" <=> status[w] = "ACTIVE"
    BY <1>1, <1>4 DEF TypeOK
  <2>2. QED
    BY <1>1, <1>2, <1>4, <2>1 DEF IInv, OneActive, BookingAgrees, BookingOf, LiveAgrees, LiveOf, Books, Backs
<1>5. ASSUME NEW p \in Process, CommitSchedule(p) PROVE IInv'
  <2>1. PICK v \in Version, k \in Correlation, at \in Time :
           /\ status[v] = "APPROVED" /\ activation[k] = NoActivation
           /\ status' = [status EXCEPT ![v] = "SCHEDULED"]
           /\ effectiveFrom' = [effectiveFrom EXCEPT ![v] = at]
           /\ \E a \in Approvers : activation' = [activation EXCEPT
                ![k] = [v |-> v, at |-> at, by |-> a, state |-> "SCHEDULED", open |-> TRUE]]
    BY <1>1, <1>5, ScheduleEffect
  <2>2. OneActive'
    BY <1>1, <2>1 DEF OneActive, TypeOK
  <2>3. \A w \in Version, j \in Correlation :
          /\ Books(j, w)' <=> Books(j, w) \/ (j = k /\ w = v)
          /\ Backs(j, w)' <=> Backs(j, w)
    BY <1>1, <2>1 DEF Books, Backs, NoActivation, TypeOK
  <2>4. BookingAgrees'
    <3>1. BookingOf(v)'
      BY <1>1, <2>1, <2>3 DEF BookingAgrees, BookingOf, TypeOK
    <3>2. ASSUME NEW w \in Version, w # v PROVE BookingOf(w)'
      <4>1. /\ status'[w] = status[w] /\ effectiveFrom'[w] = effectiveFrom[w]
            /\ \A j \in Correlation : Books(j, w)' <=> Books(j, w)
        BY <1>1, <2>1, <2>3, <3>2 DEF TypeOK
      <4>2. \A j \in Correlation : Books(j, w) => activation'[j] = activation[j]
        BY <1>1, <2>1 DEF Books, NoActivation, TypeOK
      <4>3. QED
        BY <1>1, <4>1, <4>2 DEF BookingAgrees, BookingOf
    <3>3. QED
      BY <3>1, <3>2 DEF BookingAgrees
  <2>5. LiveAgrees'
    <3>1. \A w \in Version : status'[w] = "ACTIVE" <=> status[w] = "ACTIVE"
      BY <1>1, <2>1 DEF TypeOK
    <3>2. QED
      BY <1>1, <2>3, <3>1 DEF LiveAgrees, LiveOf
  <2>6. QED
    BY <1>2, <2>2, <2>4, <2>5 DEF IInv
<1>6. ASSUME NEW p \in Process, CommitActivate(p) PROVE IInv'
  <2>1. PICK v \in Version, k \in Correlation, rival \in Version \cup {None} :
           /\ status[v] = "SCHEDULED" /\ Books(k, v)
           /\ rival # None => status[rival] = "ACTIVE"
           /\ OneActiveIndex(Replaced(v, rival))
           /\ status' = Replaced(v, rival)
           /\ activation' = LedgerAfter(k, rival)
           /\ UNCHANGED effectiveFrom
    BY <1>1, <1>6, ActivateEffect
  <2>2. OneActive'
    BY <2>1 DEF OneActive, OneActiveIndex
  <2>3. /\ activation[k].open
        /\ \A j \in Correlation : Books(j, v) => j = k
    BY <1>1, <2>1 DEF BookingAgrees, BookingOf
  <2>4. \A j \in Correlation : activation[j] \in Activation \/ activation[j] = NoActivation
    BY <1>1 DEF TypeOK
  <2>5. activation[k] \in Activation
    BY <2>1, <2>4 DEF Books, NoActivation
  <2>6. /\ activation'[k].v = v /\ activation'[k].state = "ACTIVE" /\ activation'[k].open
        /\ activation'[k].at = activation[k].at
    BY <2>1, <2>3, <2>5 DEF Books, Activation, LedgerAfter
  <2>7. ASSUME NEW j \in Correlation, j # k
        PROVE  /\ activation'[j].v = activation[j].v
               /\ activation'[j].at = activation[j].at
               /\ activation'[j].state = activation[j].state
               /\ IF activation[j].v = rival /\ activation[j].state = "ACTIVE"
                  THEN activation'[j].open = FALSE
                  ELSE activation'[j].open = activation[j].open
    <3>1. CASE activation[j] \in Activation
      BY <2>1, <2>7, <3>1 DEF Activation, LedgerAfter
    <3>2. CASE activation[j] = NoActivation
      BY <2>1, <2>7, <3>2 DEF NoActivation, LedgerAfter
    <3>3. QED
      BY <2>4, <3>1, <3>2
  <2>8. \A w \in Version : status'[w] = IF w = v THEN "ACTIVE"
                                      ELSE IF w = rival THEN "SUPERSEDED" ELSE status[w]
    BY <2>1 DEF Replaced
  <2>9. BookingAgrees'
    <3>1. \A w \in Version, j \in Correlation : Books(j, w)' <=> Books(j, w) /\ w # v
      BY <2>1, <2>3, <2>6, <2>7 DEF Books
    <3>2. \A w \in Version : status'[w] = "SCHEDULED" <=> status[w] = "SCHEDULED" /\ w # v
      BY <2>1, <2>8
    <3>3. ASSUME NEW w \in Version, NEW j \in Correlation, Books(j, w)'
          PROVE  /\ activation'[j].open = activation[j].open
                 /\ activation'[j].at = activation[j].at
      BY <3>1, <3>3, <2>6, <2>7 DEF Books
    <3>4. ASSUME NEW w \in Version PROVE BookingOf(w)'
      <4>1. CASE w = v
        BY <3>1, <3>2, <4>1 DEF BookingOf
      <4>2. CASE w # v
        <5>1. BookingOf(w)
          BY <1>1 DEF BookingAgrees
        <5>2. /\ status'[w] = "SCHEDULED" <=> status[w] = "SCHEDULED"
              /\ effectiveFrom'[w] = effectiveFrom[w]
              /\ \A j \in Correlation : Books(j, w)' <=> Books(j, w)
          BY <2>1, <3>1, <3>2, <4>2
        <5>3. QED
          BY <5>1, <5>2, <3>3 DEF BookingOf
      <4>3. QED
        BY <4>1, <4>2
    <3>5. QED
      BY <3>4 DEF BookingAgrees
  <2>10. LiveAgrees'
    <3>1. v # rival
      BY <2>1
    <3>2. \A w \in Version : Backs(k, w)' <=> w = v
      BY <2>6 DEF Backs
    <3>3. \A w \in Version : ~Backs(k, w)
      BY <2>1 DEF Backs, Books
    <3>4. \A w \in Version, j \in Correlation \ {k} :
            Backs(j, w)' <=> Backs(j, w) /\ w # rival
      BY <2>4, <2>7 DEF Backs, Activation, NoActivation
    <3>5. ASSUME NEW w \in Version PROVE LiveOf(w)'
      <4>1. CASE w = v
        BY <1>1, <2>1, <2>8, <3>1, <3>2, <3>4, <4>1 DEF LiveAgrees, LiveOf
      <4>2. CASE w = rival
        BY <2>8, <3>1, <3>2, <3>4, <4>2 DEF LiveOf
      <4>3. CASE w # v /\ w # rival
        <5>1. \A j \in Correlation : Backs(j, w)' <=> Backs(j, w)
          BY <3>2, <3>3, <3>4, <4>3
        <5>2. QED
          BY <1>1, <2>8, <4>3, <5>1 DEF LiveAgrees, LiveOf
      <4>4. QED
        BY <4>1, <4>2, <4>3
    <3>6. QED
      BY <3>5 DEF LiveAgrees
  <2>11. QED
    BY <1>2, <2>2, <2>9, <2>10 DEF IInv
<1>7. StepKind
  BY <1>1, StepKinds
<1>8. QED
  BY <1>3, <1>4, <1>5, <1>6, <1>7 DEF StepKind, Forward, ReviewSteps, Decide

LEMMA InductiveInvariant == Spec => []IInv
BY InitIInv, NextIInv, PTL DEF Spec

(* The activation ledger books exactly the SCHEDULED versions.             *)
THEOREM BookingAlwaysAgrees == Spec => []BookingAgrees
<1>1. IInv => BookingAgrees
  BY DEF IInv
<1>2. QED
  BY InductiveInvariant, <1>1, PTL

(* ... and backs exactly the ACTIVE one.                                   *)
THEOREM LiveAlwaysAgrees == Spec => []LiveAgrees
<1>1. IInv => LiveAgrees
  BY DEF IInv
<1>2. QED
  BY InductiveInvariant, <1>1, PTL

(* ... so that table and ledger always tell the same story.                *)
THEOREM LedgerAlwaysAgrees == Spec => []LedgerAgrees
<1>1. IInv => LedgerAgrees
  BY DEF IInv, LedgerAgrees
<1>2. QED
  BY InductiveInvariant, <1>1, PTL

-----------------------------------------------------------------------------
(* An activation replaces every ACTIVE version there is: the one it saw as *)
(* its rival, and there is no other.                                       *)
LEMMA ActivateTakesOver ==
  ASSUME TypeOK, OneActive, NEW p \in Process, CommitActivate(p)
  PROVE  \E v \in Version : Lifecycle!TakeOver(v)
<1> USE ConstantsAssumption
<1>1. PICK v \in Version, rival \in Version \cup {None} :
        /\ status[v] = "SCHEDULED"
        /\ rival # None => status[rival] = "ACTIVE"
        /\ OneActiveIndex(Replaced(v, rival))
        /\ status' = Replaced(v, rival)
  BY ActivateEffect
<1>2. \A w \in Version : status[w] = "ACTIVE" <=> w = rival
  <2>1. ASSUME NEW w \in Version, status[w] = "ACTIVE", w # rival PROVE FALSE
    <3>1. w # v
      BY <1>1, <2>1
    <3>2. Replaced(v, rival)[w] = "ACTIVE" /\ Replaced(v, rival)[v] = "ACTIVE"
      BY <2>1, <3>1 DEF Replaced
    <3>3. QED
      BY <1>1, <3>1, <3>2 DEF OneActiveIndex
  <2>2. QED
    BY <1>1, <2>1
<1>3. status' = [w \in Version |->
                   IF w = v THEN "ACTIVE"
                   ELSE IF status[w] = "ACTIVE" THEN "SUPERSEDED" ELSE status[w]]
  BY <1>1, <1>2 DEF Replaced
<1>4. QED
  BY <1>1, <1>3 DEF Lifecycle!TakeOver

LEMMA StepImplementsLifecycle == IInv /\ [Next]_vars => [Lifecycle!Next]_status
<1> SUFFICES ASSUME IInv, [Next]_vars PROVE [Lifecycle!Next]_status
  OBVIOUS
<1>1. TypeOK /\ OneActive
  BY DEF IInv
<1>2. CASE Quiet
  BY <1>2 DEF Quiet
<1>3. ASSUME NEW v \in Version,
             NEW s \in {"DRAFT", "VALIDATED", "BACKTESTED", "APPROVAL_PENDING"}, Forward(v, s)
      PROVE  Lifecycle!Next
  <2>1. s \in Lifecycle!Stage
    BY DEF Lifecycle!Stage
  <2>2. Lifecycle!Advance(v, s)
    BY <1>3 DEF Forward, ReviewSteps, Lifecycle!Advance, Lifecycle!ForwardSteps
  <2>3. QED
    BY <2>1, <2>2 DEF Lifecycle!Next
<1>4. ASSUME NEW v \in Version, NEW d \in {"APPROVED", "REJECTED"}, Decide(v, d)
      PROVE  [Lifecycle!Next]_status
  <2>1. d \in Lifecycle!Stage
    BY DEF Lifecycle!Stage
  <2>2. CASE status[v] = d
    BY <1>1, <1>4, <2>2 DEF Decide, TypeOK
  <2>3. CASE status[v] = "APPROVAL_PENDING"
    <3>1. Lifecycle!Advance(v, d)
      BY <1>4, <2>3 DEF Decide, Lifecycle!Advance, Lifecycle!ForwardSteps
    <3>2. QED
      BY <2>1, <3>1 DEF Lifecycle!Next
  <2>4. QED
    BY <1>4, <2>2, <2>3 DEF Decide
<1>5. ASSUME NEW p \in Process, CommitSchedule(p) PROVE Lifecycle!Next
  <2>1. PICK v \in Version : status[v] = "APPROVED"
                             /\ status' = [status EXCEPT ![v] = "SCHEDULED"]
    BY <1>1, <1>5, ScheduleEffect
  <2>2. Lifecycle!Advance(v, "SCHEDULED") /\ "SCHEDULED" \in Lifecycle!Stage
    BY <2>1 DEF Lifecycle!Advance, Lifecycle!ForwardSteps, Lifecycle!Stage
  <2>3. QED
    BY <2>2 DEF Lifecycle!Next
<1>6. ASSUME NEW p \in Process, CommitActivate(p) PROVE Lifecycle!Next
  BY <1>1, <1>6, ActivateTakesOver DEF Lifecycle!Next
<1>7. StepKind
  BY <1>1, StepKinds
<1>8. QED
  BY <1>2, <1>3, <1>4, <1>5, <1>6, <1>7 DEF StepKind

(* The concurrent store implements the atomic lifecycle: every committed   *)
(* transaction is one lifecycle step or changes no status.                 *)
THEOREM ImplementsLifecycle == Spec => LifecycleSpec
<1>1. Init => Lifecycle!Init
  BY DEF Init, Lifecycle!Init
<1>2. QED
  BY <1>1, InductiveInvariant, StepImplementsLifecycle, PTL
     DEF Spec, LifecycleSpec, Lifecycle!Spec

(* Once a version is ACTIVE there always is one: the replaced version      *)
(* leaves in the step in which its successor arrives.                      *)
THEOREM ActivationHasNoGap == Spec => NoActivationGap
<1>1. [Lifecycle!Next]_status =>
        ((\E v \in Version : status[v] = "ACTIVE") =>
         (\E v \in Version : status'[v] = "ACTIVE"))
  <2> SUFFICES ASSUME [Lifecycle!Next]_status, NEW v \in Version, status[v] = "ACTIVE"
               PROVE  \E w \in Version : status'[w] = "ACTIVE"
    OBVIOUS
  <2>1. CASE UNCHANGED status
    BY <2>1
  <2>2. ASSUME NEW w \in Version, NEW s \in Lifecycle!Stage, Lifecycle!Advance(w, s)
        PROVE  status'[v] = "ACTIVE"
    BY <2>2 DEF Lifecycle!Advance, Lifecycle!ForwardSteps
  <2>3. ASSUME NEW w \in Version, Lifecycle!TakeOver(w) PROVE status'[w] = "ACTIVE"
    BY <2>3 DEF Lifecycle!TakeOver
  <2>4. QED
    BY <2>1, <2>2, <2>3 DEF Lifecycle!Next
<1>2. QED
  BY <1>1, InductiveInvariant, StepImplementsLifecycle, PTL DEF Spec, NoActivationGap, vars

-----------------------------------------------------------------------------
(* A review has one outcome, for any number of deciders.                   *)
LEMMA NextDecisionIsFinal == IInv /\ DecisionIsFinal /\ [Next]_vars => DecisionIsFinal'
<1> SUFFICES ASSUME IInv, DecisionIsFinal, [Next]_vars PROVE DecisionIsFinal'
  OBVIOUS
<1>1. TypeOK /\ OneActive
  BY DEF IInv
<1>2. \A r \in approvals : r.v \in Version
  BY <1>1 DEF TypeOK
<1>3. CASE Quiet
  BY <1>3 DEF Quiet, DecisionIsFinal
<1>4. ASSUME NEW v \in Version, NEW s \in Status, Forward(v, s) PROVE DecisionIsFinal'
  BY <1>1, <1>2, <1>4 DEF Forward, ReviewSteps, DecisionIsFinal, Approved, TypeOK
<1>5. ASSUME NEW v \in Version, NEW d \in {"APPROVED", "REJECTED"}, Decide(v, d)
      PROVE  DecisionIsFinal'
  <2>1. PICK a \in Approvers, c \in Config :
          approvals' = approvals \cup {[v |-> v, decision |-> d, actor |-> a, config |-> c]}
    BY <1>5 DEF Decide
  <2>2. ASSUME NEW r \in approvals
        PROVE  IF r.decision = "REJECTED" THEN status'[r.v] = "REJECTED"
               ELSE status'[r.v] \in Approved
    BY <1>1, <1>2, <1>5 DEF Decide, DecisionIsFinal, Approved, TypeOK
  <2>3. status'[v] = d
    BY <1>1, <1>5 DEF Decide, TypeOK
  <2>4. QED
    BY <2>1, <2>2, <2>3 DEF DecisionIsFinal, Approved
<1>6. ASSUME NEW p \in Process, CommitSchedule(p) PROVE DecisionIsFinal'
  <2>1. PICK v \in Version : /\ status[v] = "APPROVED" /\ UNCHANGED approvals
                             /\ status' = [status EXCEPT ![v] = "SCHEDULED"]
    BY <1>1, <1>6, ScheduleEffect
  <2>2. QED
    BY <1>1, <1>2, <2>1 DEF DecisionIsFinal, Approved, TypeOK
<1>7. ASSUME NEW p \in Process, CommitActivate(p) PROVE DecisionIsFinal'
  <2>1. UNCHANGED approvals
    BY <1>7 DEF CommitActivate
  <2>2. \A w \in Version : status'[w] = status[w] \/ {status[w], status'[w]} \subseteq Approved
    BY <1>1, <1>7, ActivateTakesOver DEF Lifecycle!TakeOver, Approved
  <2>3. QED
    BY <1>2, <2>1, <2>2 DEF DecisionIsFinal, Approved
<1>8. StepKind
  BY <1>1, StepKinds
<1>9. QED
  BY <1>3, <1>4, <1>5, <1>6, <1>7, <1>8, StatusNames DEF StepKind

(* No version ever holds both an approval and a rejection, and its status  *)
(* is the one its approval records say.                                    *)
THEOREM DecisionsAreFinal == Spec => []DecisionIsFinal
<1>1. Init => DecisionIsFinal
  BY DEF Init, DecisionIsFinal
<1>2. QED
  BY <1>1, InductiveInvariant, NextDecisionIsFinal, PTL DEF Spec

-----------------------------------------------------------------------------
(* The evidence behind an approval.  Once a version has left DRAFT its     *)
(* configuration stays, so that what a backtest or a decision has read is  *)
(* still the configuration when it commits.                                *)

Tested == {"BACKTESTED", "APPROVAL_PENDING"} \cup Approved
Fixed(v, c) == status[v] \notin {"ABSENT", "DRAFT"} /\ config[v] = c
Carries(p) ==
  /\ tx[p].pc \in {"backtesting", "deciding"} => Fixed(tx[p].v, tx[p].config)
  /\ tx[p].pc = "moving" =>
       (tx[p].to = "BACKTESTED" => \E run \in passed : run.v = tx[p].v)
Evidence ==
  /\ \A run \in passed : Fixed(run.v, run.config)
  /\ \A p \in Process : Carries(p)
  /\ \A v \in Version : status[v] \in Tested => [v |-> v, config |-> config[v]] \in passed
  /\ EvidenceMatchesConfig

(* Verdicts and approvals are written by two commits only.                 *)
LEMMA VerdictSteps ==
  ASSUME [Next]_vars
  PROVE  \/ UNCHANGED <<passed, approvals>>
         \/ \E p \in Process : RecordPassed(p) \/ CommitDecision(p)
<1> USE DEF versionRows, ledgers, auditTrail
<1>1. ASSUME NEW p \in Process, Drafting(p)
      PROVE  UNCHANGED <<passed, approvals>>
  BY <1>1 DEF Drafting, ReadParent, ReadParentRules, CreateDraft, ReadDraft, RewriteRules,
              CommitDraft
<1>2. ASSUME NEW p \in Process, Reviewing(p), ~ CommitDecision(p), ~ RecordPassed(p)
      PROVE  UNCHANGED <<passed, approvals>>
  BY <1>2 DEF Reviewing, ReadForTransition, CommitTransition, ReadForDecision, ReadForBacktest
<1>3. ASSUME NEW p \in Process, Activating(p)
      PROVE  UNCHANGED <<passed, approvals>>
  BY <1>3 DEF Activating, ReadForSchedule, CommitSchedule, RetrySchedule, RecordSchedule,
              ReadForActivate, CommitActivate
<1>4. ASSUME NEW p \in Process, Abort(p)
      PROVE  UNCHANGED <<passed, approvals>>
  BY <1>4 DEF Abort
<1>5. CASE Tick \/ UNCHANGED vars
  BY <1>5 DEF Tick, vars
<1> QED
  BY <1>1, <1>2, <1>3, <1>4, <1>5 DEF Next

(* A configuration is edited in DRAFT only, no version returns to DRAFT,   *)
(* and neither verdicts nor approvals are taken back.                      *)
LEMMA ConfigStays ==
  ASSUME TypeOK, [Next]_vars
  PROVE  /\ \A v \in Version : status[v] \notin {"ABSENT", "DRAFT"} =>
              status'[v] \notin {"ABSENT", "DRAFT"} /\ config'[v] = config[v]
         /\ passed \subseteq passed' /\ approvals \subseteq approvals'
<1> USE DEF versionRows, ledgers, auditTrail
<1>1. ASSUME NEW v \in Version, status[v] \notin {"ABSENT", "DRAFT"}
      PROVE  status'[v] \notin {"ABSENT", "DRAFT"}
  <2>1. StepKind
    BY StepKinds
  <2>2. CASE Quiet
    BY <1>1, <2>2 DEF Quiet
  <2>3. ASSUME NEW w \in Version, NEW s, Forward(w, s)
        PROVE  status'[v] \notin {"ABSENT", "DRAFT"}
    BY <1>1, <2>3 DEF Forward, ReviewSteps, TypeOK
  <2>4. ASSUME NEW w \in Version, NEW d \in {"APPROVED", "REJECTED"}, Decide(w, d)
        PROVE  status'[v] \notin {"ABSENT", "DRAFT"}
    BY <1>1, <2>4 DEF Decide, TypeOK
  <2>5. ASSUME NEW p \in Process, CommitSchedule(p)
        PROVE  status'[v] \notin {"ABSENT", "DRAFT"}
    BY <1>1, <2>5, ScheduleEffect DEF TypeOK
  <2>6. ASSUME NEW p \in Process, CommitActivate(p)
        PROVE  status'[v] \notin {"ABSENT", "DRAFT"}
    BY <1>1, <2>6, ActivateEffect DEF Replaced
  <2> QED
    BY <2>1, <2>2, <2>3, <2>4, <2>5, <2>6 DEF StepKind
<1>2. ASSUME NEW v \in Version, status[v] \notin {"ABSENT", "DRAFT"}
      PROVE  config'[v] = config[v]
  <2>1. ASSUME NEW p \in Process, CreateDraft(p) PROVE config'[v] = config[v]
    BY <1>2, <2>1 DEF CreateDraft, TypeOK
  <2>2. ASSUME NEW p \in Process, CommitDraft(p) PROVE config'[v] = config[v]
    BY <1>2, <2>2 DEF CommitDraft, TriggerAllows, ConfigAllowed, TypeOK
  <2>3. ASSUME NEW p \in Process, Drafting(p) PROVE config'[v] = config[v]
    <3>1. CASE CreateDraft(p) \/ CommitDraft(p)
      BY <2>1, <2>2, <3>1
    <3>2. CASE ~ CreateDraft(p) /\ ~ CommitDraft(p)
      BY <2>3, <3>2 DEF Drafting, ReadParent, ReadParentRules, ReadDraft, RewriteRules
    <3> QED
      BY <3>1, <3>2
  <2>4. ASSUME NEW p \in Process, Reviewing(p) PROVE config'[v] = config[v]
    BY <2>4 DEF Reviewing, ReadForTransition, CommitTransition, ReadForDecision, CommitDecision,
                ReadForBacktest, RecordPassed
  <2>5. ASSUME NEW p \in Process, Activating(p) PROVE config'[v] = config[v]
    BY <2>5 DEF Activating, ReadForSchedule, CommitSchedule, RetrySchedule, RecordSchedule,
                ReadForActivate, CommitActivate
  <2>6. ASSUME NEW p \in Process, Abort(p) PROVE config'[v] = config[v]
    BY <2>6 DEF Abort
  <2>7. CASE Tick \/ UNCHANGED vars
    BY <2>7 DEF Tick, vars
  <2> QED
    BY <2>3, <2>4, <2>5, <2>6, <2>7 DEF Next
<1>3. passed \subseteq passed' /\ approvals \subseteq approvals'
  BY VerdictSteps DEF RecordPassed, CommitDecision
<1> QED
  BY <1>1, <1>2, <1>3

(* What a process brings to its commit was true when it was read, and is   *)
(* still true: its transaction is new, or the one it had.                  *)
Brings == {"backtesting", "deciding", "moving"}
LEMMA TransactionsCarry ==
  ASSUME TypeOK, Evidence, [Next]_vars, NEW q \in Process, tx'[q].pc \in Brings
  PROVE  \/ tx'[q] = tx[q]
         \/ /\ tx'[q].pc \in {"backtesting", "deciding"} => Fixed(tx'[q].v, tx'[q].config)
            /\ tx'[q].pc = "moving" =>
                 (tx'[q].to = "BACKTESTED" => \E run \in passed : run.v = tx'[q].v)
<1> DEFINE New == /\ tx'[q].pc \in {"backtesting", "deciding"} => Fixed(tx'[q].v, tx'[q].config)
                  /\ tx'[q].pc = "moving" =>
                       (tx'[q].to = "BACKTESTED" => \E run \in passed : run.v = tx'[q].v)
<1> SUFFICES ASSUME tx'[q] # tx[q] PROVE New
  OBVIOUS
<1>0. tx \in [Process -> Transaction] /\ Idle.pc = "idle"
  BY DEF TypeOK, Idle
<1>1. ASSUME NEW p \in Process, NEW t, tx' = [tx EXCEPT ![p] = t] PROVE tx'[q] = t
  BY <1>0, <1>1
<1>2. ASSUME NEW p \in Process, Close(p) PROVE FALSE
  BY <1>0, <1>1, <1>2 DEF Close, Brings
<1>3. ASSUME NEW p \in Process, Drafting(p) PROVE New
  <2>1. ASSUME NEW t, tx' = [tx EXCEPT ![p] = t], t.pc \notin Brings PROVE FALSE
    BY <1>1, <2>1
  <2>2. ASSUME NEW v, NEW a, ReadParent(p, v, a) PROVE FALSE
    BY <2>1, <2>2 DEF ReadParent, Open, Brings
  <2>3. ASSUME ReadParentRules(p) PROVE FALSE
    BY <2>1, <2>3 DEF ReadParentRules, Brings
  <2>4. ASSUME CreateDraft(p) PROVE FALSE
    BY <1>2, <2>4 DEF CreateDraft
  <2>5. ASSUME NEW v, NEW c, NEW rs, NEW a, ReadDraft(p, v, c, rs, a) PROVE FALSE
    BY <2>1, <2>5 DEF ReadDraft, Open, Brings
  <2>6. ASSUME RewriteRules(p) PROVE FALSE
    <3>1. tx[p] \in [pc : {"deleting", "rewriting"}, v : Version, actor : Writers,
                     config : Config, rules : SUBSET Rule, late : BOOLEAN]
      BY <2>6, <1>0, TransactionFields DEF RewriteRules
    <3>2. [tx[p] EXCEPT !.pc = "rewriting"].pc = "rewriting"
      BY <3>1
    <3>3. tx' = [tx EXCEPT ![p] = [tx[p] EXCEPT !.pc = "rewriting"]]
      BY <2>6 DEF RewriteRules
    <3> QED
      BY <2>1, <3>2, <3>3 DEF Brings
  <2>7. ASSUME CommitDraft(p) PROVE FALSE
    <3>1. tx'[q] = IF q = p THEN Idle
                   ELSE IF tx[q].pc = "deleting" /\ tx[q].v = tx[p].v
                        THEN [tx[q] EXCEPT !.late = TRUE] ELSE tx[q]
      BY <2>7 DEF CommitDraft
    <3>2. ASSUME tx[q].pc = "deleting" PROVE [tx[q] EXCEPT !.late = TRUE].pc = "deleting"
      <4>1. tx[q] \in [pc : {"deleting", "rewriting"}, v : Version, actor : Writers,
                       config : Config, rules : SUBSET Rule, late : BOOLEAN]
        BY <3>2, <1>0, TransactionFields
      <4> QED
        BY <3>2, <4>1
    <3> QED
      BY <1>0, <3>1, <3>2 DEF Brings
  <2> QED
    BY <1>3, <2>2, <2>3, <2>4, <2>5, <2>6, <2>7 DEF Drafting
<1>4. ASSUME NEW p \in Process, Reviewing(p) PROVE New
  <2>1. ASSUME NEW v, NEW to, NEW a, ReadForTransition(p, v, to, a) PROVE New
    <3>1. tx'[q] = [pc |-> "moving", v |-> v, to |-> to, actor |-> a]
      BY <1>1, <2>1 DEF ReadForTransition, Open
    <3> QED
      BY <2>1, <3>1 DEF ReadForTransition
  <2>2. ASSUME NEW v, NEW a, NEW d, ReadForDecision(p, v, d, a) PROVE New
    <3>1. tx'[q] = [pc |-> "deciding", v |-> v, to |-> d, actor |-> a, config |-> config[v]]
      BY <1>1, <2>2 DEF ReadForDecision, Open
    <3> QED
      BY <2>2, <3>1 DEF ReadForDecision, Fixed
  <2>3. ASSUME NEW v \in Version, ReadForBacktest(p, v) PROVE New
    <3>1. tx'[q] = [pc |-> "backtesting", v |-> v, config |-> config[v]]
      BY <1>1, <2>3 DEF ReadForBacktest, Open
    <3>2. status[v] \notin {"ABSENT", "DRAFT"}
      BY <2>3, StatusNames DEF ReadForBacktest, Backtestable
    <3> QED
      BY <3>1, <3>2 DEF Fixed
  <2>4. ASSUME CommitTransition(p) \/ CommitDecision(p) \/ RecordPassed(p) PROVE FALSE
    BY <1>2, <2>4 DEF CommitTransition, CommitDecision, RecordPassed
  <2> QED
    BY <1>4, <2>1, <2>2, <2>3, <2>4 DEF Reviewing
<1>5. ASSUME NEW p \in Process, Activating(p) PROVE FALSE
  <2>1. ASSUME NEW t, tx' = [tx EXCEPT ![p] = t], t.pc \notin Brings PROVE FALSE
    BY <1>1, <2>1
  <2>2. ASSUME NEW v, NEW k, NEW at, NEW a, ReadForSchedule(p, v, k, at, a) PROVE FALSE
    BY <2>1, <2>2 DEF ReadForSchedule, Open, Brings
  <2>3. ASSUME CommitSchedule(p) PROVE FALSE
    BY <2>1, <2>3 DEF CommitSchedule, Brings
  <2>4. ASSUME NEW k, NEW v, NEW at, NEW a, RetrySchedule(p, k, v, at, a) PROVE FALSE
    BY <2>1, <2>4 DEF RetrySchedule, Open, Brings
  <2>5. ASSUME NEW k, ReadForActivate(p, k) PROVE FALSE
    BY <2>1, <2>5 DEF ReadForActivate, Open, Brings
  <2>6. ASSUME RecordSchedule(p) \/ CommitActivate(p) PROVE FALSE
    BY <1>2, <2>6 DEF RecordSchedule, CommitActivate
  <2> QED
    BY <1>5, <2>2, <2>3, <2>4, <2>5, <2>6 DEF Activating
<1>6. ASSUME NEW p \in Process, Abort(p) PROVE FALSE
  BY <1>2, <1>6 DEF Abort
<1>7. ASSUME Tick \/ UNCHANGED vars PROVE FALSE
  BY <1>7 DEF Tick, vars
<1> QED
  BY <1>3, <1>4, <1>5, <1>6, <1>7 DEF Next

(* A version is backtested by an attestation and approved by a decision. *)
LEMMA EntersBy ==
  ASSUME TypeOK, [Next]_vars, NEW v \in Version, status'[v] # status[v]
  PROVE  /\ status'[v] = "BACKTESTED" => \E p \in Process :
              CommitTransition(p) /\ tx[p].v = v /\ tx[p].to = "BACKTESTED"
         /\ status'[v] = "APPROVED" => \E p \in Process :
              CommitDecision(p) /\ tx[p].v = v /\ tx[p].to = "APPROVED"
<1> USE DEF versionRows, ledgers, auditTrail
<1>0. tx \in [Process -> Transaction] /\ status \in [Version -> Status \cup {"ABSENT"}]
  BY DEF TypeOK
<1>1. ASSUME NEW p \in Process, CommitTransition(p)
      PROVE  tx[p].v = v /\ tx[p].to = status'[v] /\ status'[v] # "APPROVED"
  <2>1. tx[p] \in [pc : {"moving"}, v : Version, actor : Writers,
                   to : {"VALIDATED", "BACKTESTED", "APPROVAL_PENDING"}]
    BY <1>0, <1>1, TransactionFields DEF CommitTransition
  <2> QED
    BY <1>0, <1>1, <2>1 DEF CommitTransition
<1>2. ASSUME NEW p \in Process, CommitDecision(p)
      PROVE  tx[p].v = v /\ tx[p].to = status'[v] /\ status'[v] # "BACKTESTED"
  <2>1. tx[p] \in [pc : {"deciding"}, v : Version, to : {"APPROVED", "REJECTED"},
                   actor : Approvers, config : Config]
    BY <1>0, <1>2, TransactionFields DEF CommitDecision
  <2> QED
    BY <1>0, <1>2, <2>1 DEF CommitDecision
<1>3. ASSUME NEW p \in Process, CreateDraft(p) \/ CommitSchedule(p) \/ CommitActivate(p)
      PROVE  status'[v] \notin {"BACKTESTED", "APPROVED"}
  BY <1>0, <1>3 DEF CreateDraft, CommitSchedule, CommitActivate, Replaced
<1>4. CASE \A p \in Process : ~ CommitTransition(p) /\ ~ CommitDecision(p) /\ ~ CreateDraft(p)
                              /\ ~ CommitSchedule(p) /\ ~ CommitActivate(p)
  BY <1>4 DEF Next, Drafting, Reviewing, Activating, Abort, Tick, vars, ReadParent,
              ReadParentRules, ReadDraft, RewriteRules, CommitDraft, ReadForTransition,
              ReadForDecision, ReadForBacktest, RecordPassed, ReadForSchedule,
              RetrySchedule, RecordSchedule, ReadForActivate
<1> QED
  BY <1>1, <1>2, <1>3, <1>4

LEMMA NextEvidence == IInv /\ Evidence /\ [Next]_vars => Evidence'
<1> SUFFICES ASSUME IInv, Evidence, [Next]_vars PROVE Evidence'
  OBVIOUS
<1>1. /\ TypeOK /\ TypeOK'
      /\ tx \in [Process -> Transaction] /\ tx' \in [Process -> Transaction]
  BY NextTypeOK DEF IInv, TypeOK
<1>2. ASSUME NEW v \in Version, NEW c, Fixed(v, c) PROVE Fixed(v, c)'
  BY <1>1, <1>2, ConfigStays DEF Fixed
<1>3. passed \subseteq passed' /\ approvals \subseteq approvals'
  BY <1>1, ConfigStays
<1>4. /\ \A run \in passed : run.v \in Version /\ Fixed(run.v, run.config)
      /\ \A run \in passed' : run.v \in Version /\ run \in [v : Version, config : Config]
  BY <1>1 DEF Evidence, TypeOK
<1>5. \A run \in passed' : Fixed(run.v, run.config)'
  <2>1. ASSUME NEW run \in passed', run \notin passed
        PROVE  \E p \in Process : /\ tx[p].pc = "backtesting"
                                  /\ run = [v |-> tx[p].v, config |-> tx[p].config]
    BY <2>1, VerdictSteps DEF RecordPassed, CommitDecision
  <2>2. ASSUME NEW run \in passed', run \notin passed PROVE Fixed(run.v, run.config)
    <3>1. PICK p \in Process : /\ tx[p].pc = "backtesting"
                               /\ run = [v |-> tx[p].v, config |-> tx[p].config]
      BY <2>1, <2>2
    <3> QED
      BY <3>1 DEF Evidence, Carries
  <2> QED
    BY <1>2, <1>4, <2>2
<1>6. ASSUME NEW q \in Process PROVE Carries(q)'
  <2>1. CASE tx'[q].pc \notin Brings
    BY <2>1 DEF Carries, Brings
  <2>2. CASE tx'[q].pc \in Brings
    <3>1. tx'[q].v \in Version
      BY <1>1, <2>2, TransactionFields DEF Brings
    <3>2. /\ tx'[q].pc \in {"backtesting", "deciding"} => Fixed(tx'[q].v, tx'[q].config)
          /\ tx'[q].pc = "moving" =>
               (tx'[q].to = "BACKTESTED" => \E run \in passed : run.v = tx'[q].v)
      BY <1>1, <2>2, TransactionsCarry DEF Evidence, Carries
    <3>3. PICK w \in Version, c \in {tx'[q].config} : w = tx'[q].v /\ c = tx'[q].config
      BY <3>1
    <3>4. ASSUME tx'[q].pc \in {"backtesting", "deciding"}
          PROVE  status'[w] \notin {"ABSENT", "DRAFT"} /\ config'[w] = c
      <4>1. status[w] \notin {"ABSENT", "DRAFT"} /\ config[w] = c
        BY <3>2, <3>3, <3>4 DEF Fixed
      <4> QED
        BY <1>1, <4>1, ConfigStays
    <3> QED
      BY <1>3, <3>2, <3>3, <3>4 DEF Carries, Fixed
  <2> QED
    BY <2>1, <2>2
<1>7. ASSUME NEW v \in Version, status'[v] \in Tested
      PROVE  [v |-> v, config |-> config'[v]] \in passed'
  <2>1. CASE status[v] \in Tested
    <3>1. [v |-> v, config |-> config[v]] \in passed /\ config'[v] = config[v]
      BY <1>1, <2>1, ConfigStays DEF Evidence, Tested, Approved
    <3> QED
      BY <1>3, <3>1
  <2>2. CASE status[v] \notin Tested
    <3>1. status'[v] = "BACKTESTED"
      <4>1. StepKind
        BY <1>1, StepKinds
      <4>2. CASE Quiet
        BY <1>7, <2>2, <4>2 DEF Quiet
      <4>3. ASSUME NEW w \in Version, NEW s, Forward(w, s) PROVE status'[v] = "BACKTESTED"
        BY <1>1, <1>7, <2>2, <4>3 DEF Forward, ReviewSteps, TypeOK, Tested, Approved
      <4>4. ASSUME NEW w \in Version, NEW d \in {"APPROVED", "REJECTED"}, Decide(w, d)
            PROVE  status'[v] = "BACKTESTED"
        BY <1>1, <1>7, <2>2, <4>4 DEF Decide, TypeOK, Tested, Approved
      <4>5. ASSUME NEW p \in Process, CommitSchedule(p) PROVE status'[v] = "BACKTESTED"
        BY <1>1, <1>7, <2>2, <4>5, ScheduleEffect DEF TypeOK, Tested, Approved
      <4>6. ASSUME NEW p \in Process, CommitActivate(p) PROVE status'[v] = "BACKTESTED"
        <5>1. PICK u \in Version, rival \in Version \cup {None} :
                /\ status[u] = "SCHEDULED" /\ (rival # None => status[rival] = "ACTIVE")
                /\ status' = Replaced(u, rival)
          BY <1>1, <4>6, ActivateEffect
        <5>2. status'[v] = IF v = u THEN "ACTIVE"
                           ELSE IF v = rival THEN "SUPERSEDED" ELSE status[v]
          BY <5>1 DEF Replaced
        <5> QED
          BY <1>7, <2>2, <5>1, <5>2, ConstantsAssumption DEF ConstantsAssumption, Tested, Approved
      <4> QED
        BY <4>1, <4>2, <4>3, <4>4, <4>5, <4>6 DEF StepKind
    <3>2. PICK p \in Process : CommitTransition(p) /\ tx[p].v = v /\ tx[p].to = "BACKTESTED"
      BY <1>1, <2>2, <3>1, EntersBy DEF Tested
    <3>3. PICK run \in passed : run.v = v
      BY <3>2 DEF Evidence, Carries, CommitTransition
    <3>4. run \in passed' /\ run \in [v : Version, config : Config] /\ run.config = config'[v]
      BY <1>3, <1>4, <1>5, <3>3 DEF Fixed
    <3>5. run = [v |-> v, config |-> config'[v]]
      BY <3>3, <3>4
    <3> QED
      BY <3>4, <3>5
  <2> QED
    BY <2>1, <2>2
<1>8. ASSUME NEW v \in Version, status'[v] \in Approved
      PROVE  \E r \in approvals' : r.v = v /\ r.decision = "APPROVED" /\ r.config = config'[v]
  <2>1. CASE status[v] \in Approved
    <3>1. PICK r \in approvals : r.v = v /\ r.decision = "APPROVED" /\ r.config = config[v]
      BY <2>1 DEF Evidence, EvidenceMatchesConfig
    <3>2. config'[v] = config[v]
      BY <1>1, <2>1, ConfigStays DEF Approved
    <3> QED
      BY <1>3, <3>1, <3>2
  <2>2. CASE status[v] \notin Approved
    <3>1. status'[v] = "APPROVED"
      <4>1. StepKind
        BY <1>1, StepKinds
      <4>2. CASE Quiet
        BY <1>8, <2>2, <4>2 DEF Quiet
      <4>3. ASSUME NEW w \in Version, NEW s, Forward(w, s) PROVE status'[v] = "APPROVED"
        BY <1>1, <1>8, <2>2, <4>3 DEF Forward, ReviewSteps, TypeOK, Approved
      <4>4. ASSUME NEW w \in Version, NEW d \in {"APPROVED", "REJECTED"}, Decide(w, d)
            PROVE  status'[v] = "APPROVED"
        BY <1>1, <1>8, <2>2, <4>4 DEF Decide, TypeOK, Approved
      <4>5. ASSUME NEW p \in Process, CommitSchedule(p) PROVE status'[v] = "APPROVED"
        BY <1>1, <1>8, <2>2, <4>5, ScheduleEffect DEF TypeOK, Approved
      <4>6. ASSUME NEW p \in Process, CommitActivate(p) PROVE status'[v] = "APPROVED"
        <5>1. PICK u \in Version, rival \in Version \cup {None} :
                /\ status[u] = "SCHEDULED" /\ (rival # None => status[rival] = "ACTIVE")
                /\ status' = Replaced(u, rival)
          BY <1>1, <4>6, ActivateEffect
        <5>2. status'[v] = IF v = u THEN "ACTIVE"
                           ELSE IF v = rival THEN "SUPERSEDED" ELSE status[v]
          BY <5>1 DEF Replaced
        <5> QED
          BY <1>8, <2>2, <5>1, <5>2, ConstantsAssumption DEF ConstantsAssumption, Approved
      <4> QED
        BY <4>1, <4>2, <4>3, <4>4, <4>5, <4>6 DEF StepKind
    <3>2. PICK p \in Process : CommitDecision(p) /\ tx[p].v = v /\ tx[p].to = "APPROVED"
      BY <1>1, <2>2, <3>1, EntersBy DEF Approved
    <3>3. Fixed(v, tx[p].config)
      BY <3>2 DEF Evidence, Carries, CommitDecision
    <3>4. config'[v] = tx[p].config
      BY <1>1, <3>3, ConfigStays DEF Fixed
    <3>5. [v |-> v, decision |-> "APPROVED", actor |-> tx[p].actor, config |-> tx[p].config]
            \in approvals'
      BY <3>2 DEF CommitDecision
    <3> QED
      BY <3>4, <3>5
  <2> QED
    BY <2>1, <2>2
<1>9. EvidenceMatchesConfig'
  BY <1>7, <1>8 DEF EvidenceMatchesConfig, Approved, Tested
<1> QED
  BY <1>5, <1>6, <1>7, <1>9 DEF Evidence

(* The configuration an approved version carries is the one its backtest   *)
(* passed on and the one its approval record names, however edits,         *)
(* backtests and decisions overlap.                                        *)
THEOREM EvidenceAlwaysMatches == Spec => []EvidenceMatchesConfig
<1>1. Init => Evidence
  BY DEF Init, Evidence, Carries, Idle, Tested, Approved, EvidenceMatchesConfig
<1>2. Evidence => EvidenceMatchesConfig
  BY DEF Evidence
<1> QED
  BY <1>1, <1>2, InductiveInvariant, NextEvidence, PTL DEF Spec

-----------------------------------------------------------------------------
(* The audit event of a booking.  Between the booking and its event the    *)
(* rows the event names may not change: a ledger entry keeps its version   *)
(* and its operator, a version that has been scheduled is never reviewed   *)
(* again, and its configuration stays.                                     *)
InForce == {"SCHEDULED", "ACTIVE", "SUPERSEDED"}

Booked(k, v, a) ==
  /\ v \in Version /\ status[v] \in InForce
  /\ activation[k] # NoActivation /\ activation[k].v = v /\ activation[k].by = a

Audit ==
  /\ \A k \in Correlation : activation[k] # NoActivation =>
       Booked(k, activation[k].v, activation[k].by)
  /\ \A p \in Process : tx[p].pc = "recording" => Booked(tx[p].key, tx[p].v, tx[p].actor)
  /\ AuditNamesBooking

LEMMA InForceStays ==
  ASSUME TypeOK, [Next]_vars, NEW v \in Version, status[v] \in InForce
  PROVE  status'[v] \in InForce
<1>1. StepKind
  BY StepKinds
<1>2. CASE Quiet
  BY <1>2 DEF Quiet
<1>3. ASSUME NEW w \in Version, NEW s, Forward(w, s) PROVE status'[v] \in InForce
  BY <1>3 DEF Forward, ReviewSteps, InForce, TypeOK
<1>4. ASSUME NEW w \in Version, NEW d \in {"APPROVED", "REJECTED"}, Decide(w, d)
      PROVE  status'[v] \in InForce
  BY <1>4 DEF Decide, InForce, TypeOK
<1>5. ASSUME NEW p \in Process, CommitSchedule(p) PROVE status'[v] \in InForce
  BY <1>5, ScheduleEffect DEF InForce, TypeOK
<1>6. ASSUME NEW p \in Process, CommitActivate(p) PROVE status'[v] \in InForce
  BY <1>6, ActivateEffect DEF Replaced, InForce
<1>7. QED
  BY <1>1, <1>2, <1>3, <1>4, <1>5, <1>6 DEF StepKind

(* A ledger entry keeps its version and operator, and a new one books a    *)
(* version that is SCHEDULED by the same commit.                           *)
LEMMA EntriesStay ==
  ASSUME TypeOK, [Next]_vars, NEW k \in Correlation
  PROVE  \/ activation'[k] = NoActivation /\ activation[k] = NoActivation
         \/ /\ activation[k] # NoActivation /\ activation'[k] # NoActivation
            /\ activation'[k].v = activation[k].v /\ activation'[k].by = activation[k].by
         \/ /\ activation[k] = NoActivation
            /\ activation'[k] # NoActivation /\ activation'[k].v \in Version
            /\ status'[activation'[k].v] = "SCHEDULED"
<1>1. activation[k] \in Activation \/ activation[k] = NoActivation
  BY DEF TypeOK
<1>2. activation[k] \in Activation => activation[k] # NoActivation
  BY ConstantsAssumption DEF Activation, NoActivation
<1>3. CASE activation' = activation
  BY <1>3
<1>4. ASSUME NEW p \in Process, CommitSchedule(p)
      PROVE  \/ activation'[k] = activation[k]
             \/ /\ activation[k] = NoActivation
                /\ activation'[k] # NoActivation /\ activation'[k].v \in Version
                /\ status'[activation'[k].v] = "SCHEDULED"
  <2>1. PICK v \in Version, j \in Correlation, at \in Time, a \in Approvers :
          /\ activation[j] = NoActivation
          /\ status' = [status EXCEPT ![v] = "SCHEDULED"]
          /\ activation' = [activation EXCEPT
               ![j] = [v |-> v, at |-> at, by |-> a, state |-> "SCHEDULED", open |-> TRUE]]
    BY <1>4, ScheduleEffect
  <2>2. CASE j = k
    <3>1. activation'[k] = [v |-> v, at |-> at, by |-> a, state |-> "SCHEDULED", open |-> TRUE]
      BY <2>1, <2>2 DEF TypeOK
    <3>2. status'[v] = "SCHEDULED"
      BY <2>1 DEF TypeOK
    <3>3. activation'[k] # NoActivation /\ activation'[k].v = v
      BY <3>1 DEF NoActivation
    <3>4. QED
      BY <2>1, <2>2, <3>2, <3>3
  <2>3. CASE j # k
    BY <2>1, <2>3 DEF TypeOK
  <2>4. QED
    BY <2>2, <2>3
<1>5. ASSUME NEW p \in Process, CommitActivate(p)
      PROVE  \/ activation'[k] = activation[k]
             \/ /\ activation[k] \in Activation /\ activation'[k] \in Activation
                /\ activation'[k].v = activation[k].v /\ activation'[k].by = activation[k].by
  <2>1. PICK v \in Version, j \in Correlation, rival \in Version \cup {None} :
          Books(j, v) /\ activation' = LedgerAfter(j, rival)
    BY <1>5, ActivateEffect
  <2>2. CASE activation[k] \in Activation
    BY <2>1, <2>2 DEF LedgerAfter, Activation
  <2>3. CASE activation[k] = NoActivation
    <3>1. k # j
      BY <2>1, <2>3 DEF Books, NoActivation
    <3>2. QED
      BY <2>1, <2>3, <3>1 DEF LedgerAfter, NoActivation
  <2>4. QED
    BY <1>1, <2>2, <2>3
<1>6. StepKind
  BY StepKinds
<1>7. activation' = activation \/ \E p \in Process : CommitSchedule(p) \/ CommitActivate(p)
  BY <1>6 DEF StepKind, Quiet, Forward, Decide
<1>8. QED
  <2>1. CASE activation'[k] = activation[k]
    BY <2>1
  <2>2. ASSUME NEW p \in Process, CommitSchedule(p), activation'[k] # activation[k]
        PROVE  /\ activation[k] = NoActivation
               /\ activation'[k] # NoActivation /\ activation'[k].v \in Version
               /\ status'[activation'[k].v] = "SCHEDULED"
    BY <1>4, <2>2
  <2>3. ASSUME NEW p \in Process, CommitActivate(p), activation'[k] # activation[k]
        PROVE  /\ activation[k] # NoActivation /\ activation'[k] # NoActivation
               /\ activation'[k].v = activation[k].v /\ activation'[k].by = activation[k].by
    <3>1. activation'[k] \in Activation => activation'[k] # NoActivation
      BY ConstantsAssumption DEF Activation, NoActivation
    <3>2. QED
      BY <1>2, <1>5, <2>3, <3>1
  <2>4. QED
    BY <1>3, <1>7, <2>1, <2>2, <2>3

(* An event is written by RecordSchedule alone, and the transaction that   *)
(* will write it opens with the booking it found or made.                  *)
LEMMA EventSteps ==
  ASSUME [Next]_vars
  PROVE  recorded' = recorded \/ \E p \in Process : RecordSchedule(p)
<1> USE DEF versionRows, ledgers, auditTrail
<1>1. ASSUME NEW p \in Process, Drafting(p) PROVE recorded' = recorded
  BY <1>1 DEF Drafting, ReadParent, ReadParentRules, CreateDraft, ReadDraft, RewriteRules,
              CommitDraft
<1>2. ASSUME NEW p \in Process, Reviewing(p) PROVE recorded' = recorded
  BY <1>2 DEF Reviewing, ReadForTransition, CommitTransition, ReadForDecision, CommitDecision,
              ReadForBacktest, RecordPassed
<1>3. ASSUME NEW p \in Process, Activating(p), ~ RecordSchedule(p) PROVE recorded' = recorded
  BY <1>3 DEF Activating, ReadForSchedule, CommitSchedule, RetrySchedule, ReadForActivate,
              CommitActivate
<1>4. ASSUME NEW p \in Process, Abort(p) PROVE recorded' = recorded
  BY <1>4 DEF Abort
<1>5. CASE Tick \/ UNCHANGED vars
  BY <1>5 DEF Tick, vars
<1>6. QED
  BY <1>1, <1>2, <1>3, <1>4, <1>5 DEF Next

LEMMA RecordingOpens ==
  ASSUME TypeOK, [Next]_vars, NEW q \in Process, tx'[q].pc = "recording"
  PROVE  \/ tx'[q] = tx[q]
         \/ /\ tx'[q].key \in Correlation /\ activation'[tx'[q].key] # NoActivation
            /\ activation'[tx'[q].key].v = tx'[q].v /\ activation'[tx'[q].key].by = tx'[q].actor
<1> DEFINE Opened == /\ tx'[q].key \in Correlation /\ activation'[tx'[q].key] # NoActivation
                     /\ activation'[tx'[q].key].v = tx'[q].v
                     /\ activation'[tx'[q].key].by = tx'[q].actor
<1> SUFFICES ASSUME tx'[q] # tx[q] PROVE Opened
  OBVIOUS
<1> USE DEF versionRows, ledgers, auditTrail
<1>0. tx \in [Process -> Transaction] /\ Idle.pc = "idle"
  BY DEF TypeOK, Idle
<1>1. ASSUME NEW p \in Process, NEW t, tx' = [tx EXCEPT ![p] = t] PROVE p = q /\ tx'[q] = t
  BY <1>0, <1>1
<1>2. ASSUME NEW p \in Process, NEW t, tx' = [tx EXCEPT ![p] = t], t.pc # "recording" PROVE FALSE
  BY <1>1, <1>2
<1>3. ASSUME NEW p \in Process, Close(p) PROVE FALSE
  BY <1>0, <1>2, <1>3 DEF Close
<1>4. ASSUME NEW p \in Process, Drafting(p) PROVE FALSE
  <2>1. ASSUME NEW v, NEW a, ReadParent(p, v, a) PROVE FALSE
    BY <1>2, <2>1 DEF ReadParent, Open
  <2>2. ASSUME ReadParentRules(p) PROVE FALSE
    BY <1>2, <2>2 DEF ReadParentRules
  <2>3. ASSUME CreateDraft(p) PROVE FALSE
    BY <1>3, <2>3 DEF CreateDraft
  <2>4. ASSUME NEW v, NEW c, NEW rs, NEW a, ReadDraft(p, v, c, rs, a) PROVE FALSE
    BY <1>2, <2>4 DEF ReadDraft, Open
  <2>5. ASSUME RewriteRules(p) PROVE FALSE
    <3>1. tx[p] \in [pc : {"deleting", "rewriting"}, v : Version, actor : Writers,
                     config : Config, rules : SUBSET Rule, late : BOOLEAN]
      BY <2>5, <1>0, TransactionFields DEF RewriteRules
    <3>2. [tx[p] EXCEPT !.pc = "rewriting"].pc = "rewriting"
      BY <3>1
    <3>3. tx' = [tx EXCEPT ![p] = [tx[p] EXCEPT !.pc = "rewriting"]]
      BY <2>5 DEF RewriteRules
    <3>4. QED
      BY <1>2, <3>2, <3>3
  <2>6. ASSUME CommitDraft(p) PROVE FALSE
    <3>1. tx'[q] = IF q = p THEN Idle
                   ELSE IF tx[q].pc = "deleting" /\ tx[q].v = tx[p].v
                        THEN [tx[q] EXCEPT !.late = TRUE] ELSE tx[q]
      BY <2>6 DEF CommitDraft
    <3>2. ASSUME tx[q].pc = "deleting" PROVE [tx[q] EXCEPT !.late = TRUE].pc = "deleting"
      <4>1. tx[q] \in [pc : {"deleting", "rewriting"}, v : Version, actor : Writers,
                       config : Config, rules : SUBSET Rule, late : BOOLEAN]
        BY <3>2, <1>0, TransactionFields
      <4>2. QED
        BY <3>2, <4>1
    <3>3. QED
      BY <1>0, <3>1, <3>2
  <2>7. QED
    BY <1>4, <2>1, <2>2, <2>3, <2>4, <2>5, <2>6 DEF Drafting
<1>5. ASSUME NEW p \in Process, Reviewing(p) PROVE FALSE
  <2>1. ASSUME NEW v, NEW to, NEW a, ReadForTransition(p, v, to, a) PROVE FALSE
    BY <1>2, <2>1 DEF ReadForTransition, Open
  <2>2. ASSUME NEW v, NEW a, NEW d, ReadForDecision(p, v, d, a) PROVE FALSE
    BY <1>2, <2>2 DEF ReadForDecision, Open
  <2>3. ASSUME NEW v, ReadForBacktest(p, v) PROVE FALSE
    BY <1>2, <2>3 DEF ReadForBacktest, Open
  <2>4. ASSUME CommitTransition(p) \/ CommitDecision(p) \/ RecordPassed(p) PROVE FALSE
    BY <1>3, <2>4 DEF CommitTransition, CommitDecision, RecordPassed
  <2>5. QED
    BY <1>5, <2>1, <2>2, <2>3, <2>4 DEF Reviewing
<1>6. ASSUME NEW p \in Process, Activating(p) PROVE Opened
  <2>1. ASSUME NEW v, NEW k, NEW at, NEW a, ReadForSchedule(p, v, k, at, a) PROVE FALSE
    BY <1>2, <2>1 DEF ReadForSchedule, Open
  <2>2. CASE CommitSchedule(p)
    <3>1. tx[p] \in [pc : {"scheduling"}, v : Version, key : Correlation, at : Time,
                     actor : Approvers]
      BY <1>0, <2>2, TransactionFields DEF CommitSchedule
    <3>2. tx'[q] = [pc |-> "recording", key |-> tx[p].key, v |-> tx[p].v, actor |-> tx[p].actor]
      BY <1>1, <2>2 DEF CommitSchedule
    <3>3. activation'[tx[p].key] = [v |-> tx[p].v, at |-> tx[p].at, by |-> tx[p].actor,
                                    state |-> "SCHEDULED", open |-> TRUE]
      BY <2>2, <3>1 DEF CommitSchedule, TypeOK
    <3>4. activation'[tx[p].key] # NoActivation
      BY <3>3 DEF NoActivation
    <3>5. QED
      BY <3>1, <3>2, <3>3, <3>4
  <2>3. ASSUME NEW v, NEW k \in Correlation, NEW at, NEW a, RetrySchedule(p, k, v, at, a)
        PROVE  Opened
    <3>1. tx'[q] = [pc |-> "recording", key |-> k, v |-> v, actor |-> a]
      BY <1>1, <2>3 DEF RetrySchedule, Open
    <3>2. QED
      BY <2>3, <3>1 DEF RetrySchedule, SameRequest
  <2>4. ASSUME NEW k, ReadForActivate(p, k) PROVE FALSE
    BY <1>2, <2>4 DEF ReadForActivate, Open
  <2>5. ASSUME RecordSchedule(p) \/ CommitActivate(p) PROVE FALSE
    BY <1>3, <2>5 DEF RecordSchedule, CommitActivate
  <2>6. QED
    BY <1>6, <2>1, <2>2, <2>3, <2>4, <2>5 DEF Activating
<1>7. ASSUME NEW p \in Process, Abort(p) PROVE FALSE
  BY <1>3, <1>7 DEF Abort
<1>8. ASSUME Tick \/ UNCHANGED vars PROVE FALSE
  BY <1>8 DEF Tick, vars
<1>9. QED
  BY <1>4, <1>5, <1>6, <1>7, <1>8 DEF Next

LEMMA NextAudit == TypeOK /\ Audit /\ [Next]_vars => Audit'
<1> SUFFICES ASSUME TypeOK, Audit, [Next]_vars PROVE Audit'
  OBVIOUS
<1>1. ASSUME NEW k \in Correlation, NEW v, NEW a, Booked(k, v, a) PROVE Booked(k, v, a)'
  BY <1>1, InForceStays, EntriesStay DEF Booked, NoActivation
<1>2. ASSUME NEW k \in Correlation, activation[k] # NoActivation
      PROVE  activation[k].v \in Version /\ status'[activation[k].v] \in InForce
  BY <1>2, InForceStays DEF Audit, Booked
<1>3. ASSUME NEW k \in Correlation, activation'[k] # NoActivation
      PROVE  activation'[k].v \in Version /\ status'[activation'[k].v] \in InForce
  BY <1>2, <1>3, EntriesStay DEF InForce
<1>4. ASSUME NEW p \in Process, tx'[p].pc = "recording"
      PROVE  (Booked(tx[p].key, tx[p].v, tx[p].actor))'
  <2>1. CASE tx'[p] = tx[p]
    <3>1. tx[p].key \in Correlation
      BY <1>4, <2>1, TransactionFields DEF TypeOK
    <3>2. Booked(tx[p].key, tx[p].v, tx[p].actor)
      BY <1>4, <2>1 DEF Audit
    <3>3. QED
      BY <1>1, <2>1, <3>1, <3>2 DEF Booked
  <2>2. CASE tx'[p] # tx[p]
    BY <1>3, <1>4, <2>2, RecordingOpens DEF Booked
  <2>3. QED
    BY <2>1, <2>2
<1>5. AuditNamesBooking'
  <2> DEFINE Names(e) == \E v \in Version : /\ activation[e.key].v = v
                                            /\ activation[e.key].by = e.actor
                                            /\ status[v] \in {"SCHEDULED", "ACTIVE", "SUPERSEDED"}
                                            /\ config[v] = e.config
  <2>1. ASSUME NEW e, e.key \in Correlation, Names(e), activation[e.key] # NoActivation
        PROVE  Names(e)'
    <3>1. PICK v \in Version : /\ activation[e.key].v = v /\ activation[e.key].by = e.actor
                               /\ status[v] \in {"SCHEDULED", "ACTIVE", "SUPERSEDED"}
                               /\ config[v] = e.config
      BY <2>1
    <3>2. Booked(e.key, v, e.actor)
      BY <2>1, <3>1 DEF Booked, InForce
    <3>3. Booked(e.key, v, e.actor)'
      BY <1>1, <2>1, <3>2
    <3>4. config'[v] = config[v]
      BY <3>1, ConfigStays
    <3>5. QED
      BY <3>1, <3>3, <3>4 DEF Booked, InForce
  <2>2. ASSUME NEW e \in recorded PROVE e.key \in Correlation /\ activation[e.key] # NoActivation
    <3>1. e.key \in Correlation
      BY DEF TypeOK
    <3>2. \E v \in Version : activation[e.key].v = v
      BY DEF Audit, AuditNamesBooking
    <3>3. QED
      BY <3>1, <3>2, ConstantsAssumption DEF NoActivation
  <2>3. CASE recorded' = recorded
    <3>1. \A e \in recorded : Names(e)'
      BY <2>1, <2>2 DEF Audit, AuditNamesBooking
    <3>2. \A e \in recorded : \A f \in recorded : f.key = e.key => f = e
      BY DEF Audit, AuditNamesBooking
    <3>3. QED
      BY <2>3, <3>1, <3>2 DEF AuditNamesBooking
  <2>4. ASSUME NEW p \in Process, RecordSchedule(p) PROVE AuditNamesBooking'
    <3> DEFINE t == tx[p]
    <3>1. PICK new : /\ new = [key |-> t.key, actor |-> t.actor, config |-> config[t.v]]
                     /\ t.pc = "recording" /\ \A e \in recorded : e.key # t.key
                     /\ recorded' = recorded \cup {new}
      BY <2>4 DEF RecordSchedule
    <3>2. t.key \in Correlation
      BY <3>1, TransactionFields DEF TypeOK
    <3>3. Booked(t.key, t.v, t.actor)
      BY <3>1 DEF Audit
    <3>4. Names(new) /\ new.key \in Correlation /\ activation[new.key] # NoActivation
      BY <3>1, <3>2, <3>3 DEF Booked, InForce
    <3>5. Names(new)'
      BY <2>1, <3>4
    <3>6. \A e \in recorded : Names(e)'
      BY <2>1, <2>2 DEF Audit, AuditNamesBooking
    <3>7. \A e \in recorded' : \A f \in recorded' : f.key = e.key => f = e
      <4>1. \A e \in recorded : \A f \in recorded : f.key = e.key => f = e
        BY DEF Audit, AuditNamesBooking
      <4>2. \A e \in recorded : e.key # new.key
        BY <3>1
      <4>3. QED
        BY <3>1, <4>1, <4>2
    <3>8. QED
      BY <3>1, <3>5, <3>6, <3>7 DEF AuditNamesBooking
  <2>5. QED
    BY <2>3, <2>4, EventSteps
<1>7. (\A k \in Correlation : activation[k] # NoActivation =>
         Booked(k, activation[k].v, activation[k].by))'
  BY <1>3 DEF Booked
<1>8. (\A p \in Process : tx[p].pc = "recording" => Booked(tx[p].key, tx[p].v, tx[p].actor))'
  BY <1>4
<1>9. QED
  BY <1>5, <1>7, <1>8 DEF Audit

(* However late the audit event of a booking is written, and by whichever  *)
(* of the request and its retries, it is the only one and names the        *)
(* operator and the configuration of the booking (schedule, 340-380).      *)
THEOREM AuditAlwaysNamesBooking == Spec => []AuditNamesBooking
<1>1. Init => Audit
  BY DEF Init, Audit, AuditNamesBooking, Idle
<1>2. Audit => AuditNamesBooking
  BY DEF Audit
<1>3. QED
  BY <1>1, <1>2, TypeCorrect, NextAudit, PTL DEF Spec
=============================================================================
