--------------------------- MODULE KillSwitchProofs ---------------------------
(***************************************************************************)
(* Proofs about KillSwitch, for any number of processes, operators and     *)
(* releases.                                                               *)
(*                                                                         *)
(* An activation stands only while no release has begun after it, so no    *)
(* release can still append its row (Cleared); and a process that is down  *)
(* has no call under way (Alive), so what it restores at boot is the row   *)
(* of every activation of its own that stands.  A batch begins with the    *)
(* switch off, when nothing late is counted for its run (OneBatch).        *)
(***************************************************************************)
EXTENDS KillSwitch, TLAPS

Alive == \A c \in Caller : call[c] # Idle => up[call[c].in]
Down == \A p \in Proc : ~ up[p] => ~ on[p]
Cleared == /\ \A a \in standing : a[1] \in Command \cup Proc
           /\ standing # {} => Lifting = {}

(* What a call has written by the time it is at a stage. *)
Written ==
  \A c \in Caller :
    /\ call[c].at \in {"event", "receipt"} => c \in Command \cup Request
    /\ call[c].at \in {"event", "receipt"} /\ c \in Command => c \in logged
    /\ call[c].at = "receipt" => c \in events

(* A batch is no larger than Batch, and nothing is late with the switch off. *)
OneBatch == \A p \in Proc, r \in Runner :
  entering[p][r] <= Batch /\ (~on[p] => late[p][r] = 0)

IInv == /\ TypeOK /\ Alive /\ Down /\ Cleared /\ HaltHolds /\ Written /\ LedgerTruthful
        /\ OneBatch /\ LateEntriesBounded

Enters(p) == \E r \in Runner : BeginRun(p, r) \/ Enter(p, r)

Step(p, c) ==
  \/ CommandActivates(c, p) \/ CommandRequests(c, p) \/ Deactivate(c, p)
  \/ DrawdownCut(p) \/ Enters(p) \/ Crash(p) \/ Boot(p)
  \/ AppendActive(c) \/ AppendInactive(c)
  \/ RecordEvent(c) \/ Receipt(c) \/ StatementFails(c)

(* The processes are not empty, so every step is one of a process and a    *)
(* caller.                                                                 *)
LEMMA NextIsStep ==
  ASSUME Next
  PROVE  \E p \in Proc, c \in Caller : Step(p, c)
<1>1. PICK q \in Proc : TRUE
  BY ConstantsAssumption
<1>2. q \in Caller
  BY <1>1 DEF Caller
<1> QED
  BY <1>1, <1>2 DEF Next, Step, Enters

LEMMA Disjoint ==
  ASSUME NEW c \in Command \cup Proc
  PROVE  c \in Caller /\ c \notin Release
BY ConstantsAssumption DEF Caller

-----------------------------------------------------------------------------
(* A batch disturbs nothing but its own counters. *)
LEMMA EntersFrame ==
  ASSUME NEW p \in Proc, Enters(p)
  PROVE  UNCHANGED <<up, on, latest, logged, events, receipts, call, standing, failures>>
BY DEF Enters, BeginRun, Enter

LEMMA EntersTyped ==
  ASSUME TypeOK, NEW p \in Proc, Enters(p)
  PROVE  /\ entering' \in [Proc -> [Runner -> Nat]] /\ late' \in [Proc -> [Runner -> Nat]]
         /\ runs' \in Nat
<1>1. PICK r \in Runner : BeginRun(p, r) \/ Enter(p, r)
  BY DEF Enters
<1>2. CASE BeginRun(p, r)
  <2>1. PICK n \in 1 .. Batch : entering' = [entering EXCEPT ![p][r] = n]
    BY <1>2 DEF BeginRun
  <2>2. n \in Nat
    BY ConstantsAssumption
  <2> QED
    BY <1>2, <2>1, <2>2 DEF TypeOK, BeginRun
<1>3. CASE Enter(p, r)
  <2>1. entering[p][r] - 1 \in Nat
    BY <1>3 DEF TypeOK, Enter
  <2>2. entering' \in [Proc -> [Runner -> Nat]] /\ runs' \in Nat
    BY <1>3, <2>1 DEF TypeOK, Enter
  <2>3. late[p][r] + 1 \in Nat
    BY DEF TypeOK
  <2>4. late' \in [Proc -> [Runner -> Nat]]
    BY <1>3, <2>3 DEF TypeOK, Enter, LateAfter
  <2> QED
    BY <2>2, <2>4
<1> QED
  BY <1>1, <1>2, <1>3

(* What is said of every call is said of one that is not idle. *)
LEMMA Busy ==
  ASSUME TypeOK, NEW c \in Caller, call[c].at \in Stage
  PROVE  call[c] # Idle /\ call[c] \in [at : Stage, in : Proc]
BY DEF TypeOK, Idle, Stage

LEMMA IdleStage == Idle.at \notin Stage
BY DEF Idle, Stage

(* The ledgers receive the ids of commands and requests only (Written).    *)
LEMMA TypeStep ==
  ASSUME IInv, NEW p \in Proc, NEW c \in Caller, Step(p, c)
  PROVE  TypeOK'
<1> USE ConstantsAssumption DEF IInv
<1>0. NoEntries \in [Runner -> Nat]
  BY DEF NoEntries
<1>1. CASE CommandActivates(c, p)
  BY <1>1 DEF TypeOK, CommandActivates, Activate, Begins, Stage
<1>2. CASE CommandRequests(c, p)
  BY <1>2 DEF TypeOK, CommandRequests, Begins, Stage
<1>3. CASE Deactivate(c, p)
  BY <1>0, <1>3 DEF TypeOK, Deactivate, Begins, Stage
<1>4. CASE DrawdownCut(p)
  BY <1>4 DEF TypeOK, DrawdownCut, Activate, Begins, Stage, Caller
<1>5. CASE Enters(p)
  BY <1>5, EntersFrame, EntersTyped DEF TypeOK
<1>6. CASE Crash(p)
  <2>1. call' \in [Caller -> {Idle} \cup [at : Stage, in : Proc]]
    BY <1>6 DEF TypeOK, Crash
  <2>2. standing' \subseteq Caller \X Proc
    BY <1>6 DEF TypeOK, Crash
  <2> QED
    BY <1>0, <1>6, <2>1, <2>2 DEF TypeOK, Crash
<1>7. CASE Boot(p)
  BY <1>7 DEF TypeOK, Boot
<1>8. CASE AppendActive(c)
  <2>1. call[c] \in [at : Stage, in : Proc]
    BY <1>8, Busy DEF AppendActive, Stage
  <2>2. call' \in [Caller -> {Idle} \cup [at : Stage, in : Proc]]
    <3>1. CASE At(c, "event")
      BY <2>1, <3>1 DEF TypeOK, At, Stage
    <3>2. CASE Ends(c)
      BY <3>2 DEF TypeOK, Ends
    <3> QED
      BY <1>8, <3>1, <3>2 DEF AppendActive
  <2> QED
    BY <1>8, <2>2 DEF TypeOK, AppendActive
<1>9. CASE AppendInactive(c)
  BY <1>9 DEF TypeOK, AppendInactive, Ends
<1>10. CASE RecordEvent(c)
  <2>1. call[c] \in [at : Stage, in : Proc]
    BY <1>10, Busy DEF RecordEvent, Stage
  <2>2. call' \in [Caller -> {Idle} \cup [at : Stage, in : Proc]]
    BY <1>10, <2>1 DEF TypeOK, RecordEvent, At, Stage
  <2> QED
    BY <1>10, <2>2 DEF TypeOK, Written, RecordEvent
<1>11. CASE Receipt(c)
  BY <1>11 DEF TypeOK, Written, Receipt, Ends
<1>12. CASE StatementFails(c)
  BY <1>12 DEF TypeOK, StatementFails, Ends
<1> QED
  BY <1>1, <1>2, <1>3, <1>4, <1>5, <1>6, <1>7, <1>8, <1>9, <1>10, <1>11, <1>12 DEF Step

(* A call goes on where it was, or ends. *)
LEMMA Moves ==
  ASSUME TypeOK, NEW p \in Proc, NEW c \in Caller,
         \/ AppendActive(c) \/ AppendInactive(c) \/ RecordEvent(c) \/ Receipt(c) \/ StatementFails(c)
         \/ Crash(p)
  PROVE  \A d \in Caller : call'[d] # Idle => call[d] # Idle /\ call'[d].in = call[d].in
<1>1. CASE Crash(p)
  BY <1>1 DEF Crash
<1>2. CASE AppendInactive(c) \/ Receipt(c) \/ StatementFails(c)
  BY <1>2 DEF TypeOK, AppendInactive, Receipt, StatementFails, Ends
<1>3. ASSUME NEW s \in Stage, At(c, s), call[c].at \in Stage
      PROVE  \A d \in Caller : call'[d] # Idle => call[d] # Idle /\ call'[d].in = call[d].in
  <2>1. call[c] # Idle /\ call[c] \in [at : Stage, in : Proc]
    BY <1>3, Busy
  <2> QED
    BY <1>3, <2>1 DEF TypeOK, At
<1>4. CASE AppendActive(c)
  <2>1. CASE Ends(c)
    BY <2>1 DEF TypeOK, Ends
  <2>2. CASE At(c, "event")
    BY <1>3, <1>4, <2>2 DEF AppendActive, Stage
  <2> QED
    BY <1>4, <2>1, <2>2 DEF AppendActive
<1>5. CASE RecordEvent(c)
  BY <1>3, <1>5 DEF RecordEvent, Stage
<1> QED
  BY <1>1, <1>2, <1>4, <1>5

LEMMA AliveStep ==
  ASSUME IInv, NEW p \in Proc, NEW c \in Caller, Step(p, c)
  PROVE  Alive'
<1> USE ConstantsAssumption DEF IInv, Alive
<1>1. CASE CommandActivates(c, p) \/ CommandRequests(c, p) \/ Deactivate(c, p)
  BY <1>1 DEF TypeOK, CommandActivates, Activate, CommandRequests, Deactivate, Begins
<1>2. CASE DrawdownCut(p)
  BY <1>2 DEF TypeOK, DrawdownCut, Activate, Begins
<1>3. CASE Enters(p)
  BY <1>3, EntersFrame
<1>4. CASE Crash(p)
  BY <1>4 DEF TypeOK, Crash, Under
<1>5. CASE Boot(p)
  BY <1>5 DEF TypeOK, Boot
<1>6. CASE AppendActive(c) \/ AppendInactive(c) \/ RecordEvent(c) \/ Receipt(c) \/ StatementFails(c)
  <2>1. UNCHANGED up
    BY <1>6 DEF AppendActive, AppendInactive, RecordEvent, Receipt, StatementFails
  <2> QED
    BY <1>6, <2>1, Moves
<1> QED
  BY <1>1, <1>2, <1>3, <1>4, <1>5, <1>6 DEF Step

LEMMA DownStep ==
  ASSUME IInv, NEW p \in Proc, NEW c \in Caller, Step(p, c)
  PROVE  Down'
<1> USE DEF IInv, Down
<1>1. CASE CommandActivates(c, p) \/ DrawdownCut(p) \/ Deactivate(c, p)
  BY <1>1 DEF TypeOK, CommandActivates, DrawdownCut, Activate, Deactivate, Begins
<1>2. CASE Enters(p)
  BY <1>2, EntersFrame
<1>3. CASE Crash(p) \/ Boot(p)
  BY <1>3 DEF TypeOK, Crash, Boot
<1>4. CASE CommandRequests(c, p) \/ AppendActive(c) \/ AppendInactive(c)
  BY <1>4 DEF CommandRequests, AppendActive, AppendInactive
<1>5. CASE RecordEvent(c) \/ Receipt(c) \/ StatementFails(c)
  BY <1>5 DEF RecordEvent, Receipt, StatementFails
<1> QED
  BY <1>1, <1>2, <1>3, <1>4, <1>5 DEF Step

(* A release that is about to append its row began when nothing stood, and *)
(* nothing that began since stands.                                        *)
LEMMA ClearedStep ==
  ASSUME IInv, NEW p \in Proc, NEW c \in Caller, Step(p, c)
  PROVE  Cleared'
<1> USE ConstantsAssumption DEF IInv, Cleared, Lifting
<1>1. ASSUME NEW a \in Command \cup Proc, Activate(a, p) PROVE Cleared'
  <2>1. a \in Caller /\ a \notin Release
    BY Disjoint
  <2>2. \A r \in Release : call'[r] = call[r]
    BY <1>1, <2>1 DEF TypeOK, Activate, Begins, Caller
  <2> QED
    BY <1>1, <2>2 DEF Activate
<1>2. CASE CommandActivates(c, p) \/ DrawdownCut(p)
  BY <1>1, <1>2 DEF CommandActivates, DrawdownCut
<1>3. CASE CommandRequests(c, p)
  BY <1>3 DEF TypeOK, CommandRequests, Begins
<1>4. CASE Deactivate(c, p)
  BY <1>4 DEF Deactivate
<1>5. CASE Enters(p)
  BY <1>5, EntersFrame
<1>6. CASE Boot(p)
  BY <1>6 DEF Boot
<1>7. ASSUME standing' \subseteq standing, \A r \in Release : call'[r].at = "row" => call[r].at = "row"
      PROVE  Cleared'
  BY <1>7
<1>8. CASE Crash(p)
  <2>1. \A r \in Release : call'[r].at = "row" => call[r].at = "row"
    BY <1>8, IdleStage DEF Crash, Caller, Stage
  <2> QED
    BY <1>7, <1>8, <2>1 DEF Crash
<1>9. CASE AppendActive(c) \/ AppendInactive(c) \/ RecordEvent(c) \/ Receipt(c) \/ StatementFails(c)
  <2>1. ASSUME Ends(c) PROVE \A r \in Release : call'[r].at = "row" => call[r].at = "row"
    BY <2>1, IdleStage DEF TypeOK, Ends, Caller, Stage
  <2>2. ASSUME NEW s \in {"event", "receipt"}, call[c].at \in Stage, At(c, s)
        PROVE  \A r \in Release : call'[r].at = "row" => call[r].at = "row"
    <3>1. call' = [call EXCEPT ![c] = [call[c] EXCEPT !.at = s]]
      BY <2>2 DEF At
    <3>2. call[c] \in [at : Stage, in : Proc]
      BY <2>2, Busy
    <3>3. call'[c].at = s
      BY <3>1, <3>2 DEF TypeOK
    <3> QED
      BY <3>1, <3>3 DEF TypeOK, Caller
  <2>3. \A r \in Release : call'[r].at = "row" => call[r].at = "row"
    <3>1. CASE AppendInactive(c) \/ Receipt(c) \/ StatementFails(c)
      BY <2>1, <3>1 DEF AppendInactive, Receipt, StatementFails
    <3>2. CASE AppendActive(c)
      BY <2>1, <2>2, <3>2 DEF AppendActive, Stage
    <3>3. CASE RecordEvent(c)
      BY <2>2, <3>3 DEF RecordEvent, Stage
    <3> QED
      BY <1>9, <3>1, <3>2, <3>3
  <2>4. standing' \subseteq standing
    BY <1>9 DEF AppendActive, AppendInactive, RecordEvent, Receipt, StatementFails
  <2> QED
    BY <1>7, <2>3, <2>4
<1> QED
  BY <1>2, <1>3, <1>4, <1>5, <1>6, <1>8, <1>9 DEF Step

(* An activation whose row is still to be appended. *)
LEMMA UnwrittenIs ==
  ASSUME TypeOK, NEW a \in Caller \X Proc
  PROVE  a \in Unwritten(a[1]) <=> call[a[1]] = [at |-> "row", in |-> a[2]]
<1>1. a[1] \in Caller /\ a = <<a[1], a[2]>>
  OBVIOUS
<1>2. call[a[1]] \in {Idle} \cup [at : Stage, in : Proc]
  BY <1>1 DEF TypeOK
<1> QED
  BY <1>1, <1>2 DEF Unwritten, Idle

Pending(a) == call[a[1]] = [at |-> "row", in |-> a[2]]

Halted == \A a \in standing : (up[a[2]] => on[a[2]]) /\ (~ Pending(a) => latest)

LEMMA HaltIs == TypeOK => (HaltHolds <=> Halted)
<1> SUFFICES ASSUME TypeOK PROVE HaltHolds <=> Halted
  OBVIOUS
<1>1. \A a \in standing : a \in Unwritten(a[1]) <=> Pending(a)
  BY UnwrittenIs DEF TypeOK, Pending
<1> QED
  BY <1>1 DEF HaltHolds, Halted

LEMMA HaltStep ==
  ASSUME IInv, TypeOK', NEW p \in Proc, NEW c \in Caller, Step(p, c)
  PROVE  HaltHolds'
<1> DEFINE Held(a) == (up[a[2]] => on[a[2]]) /\ (~ Pending(a) => latest)
<1>a. Halted /\ (Halted' => HaltHolds')
  BY HaltIs, PTL DEF IInv
<1>0. /\ \A a \in standing : Held(a)
      /\ (\A a \in standing' : Held(a)') => HaltHolds'
  BY <1>a DEF Halted
<1> USE ConstantsAssumption DEF IInv, Pending
<1>1. ASSUME NEW d \in Caller, Activate(d, p) PROVE HaltHolds'
  <2>1. call' = [call EXCEPT ![d] = [at |-> "row", in |-> p]] /\ on' = [on EXCEPT ![p] = TRUE]
    BY <1>1 DEF Activate, Begins
  <2>2. standing' \subseteq standing \cup {<<d, p>>} /\ UNCHANGED <<up, latest>> /\ call[d] = Idle
    BY <1>1 DEF Activate, Begins
  <2>3. Held(<<d, p>>)'
    BY <2>1 DEF TypeOK
  <2>4. ASSUME NEW a \in standing PROVE Held(a)'
    <3>1. a[1] \in Caller /\ a[2] \in Proc
      BY DEF TypeOK
    <3>2. up'[a[2]] => on'[a[2]]
      BY <1>0, <2>1, <2>2, <3>1 DEF TypeOK
    <3>3. ~ Pending(a)' => ~ Pending(a) \/ a[1] = d
      BY <2>1, <3>1 DEF TypeOK
    <3>4. a[1] = d => ~ Pending(a)
      BY <2>2 DEF Idle
    <3> QED
      BY <1>0, <2>2, <3>2, <3>3, <3>4
  <2> QED
    BY <1>0, <2>2, <2>3, <2>4
<1>2. CASE CommandActivates(c, p) \/ DrawdownCut(p)
  BY <1>1, <1>2 DEF CommandActivates, DrawdownCut, Caller
<1>3. CASE CommandRequests(c, p)
  <2>1. \A a \in standing : a[1] \in Caller /\ a[1] # c
    BY <1>3, Disjoint DEF CommandRequests, Cleared, TypeOK
  <2>2. UNCHANGED <<up, on, latest, standing>> /\ \A a \in standing : call'[a[1]] = call[a[1]]
    BY <1>3, <2>1 DEF CommandRequests, Begins, TypeOK
  <2> QED
    BY <1>0, <2>2
<1>4. CASE Deactivate(c, p)
  BY <1>4 DEF Deactivate, HaltHolds
<1>5. CASE Enters(p)
  BY <1>0, <1>5, EntersFrame
<1>6. CASE Crash(p)
  <2>1. /\ standing' = standing \ UNION {Unwritten(d) : d \in Under(p)}
        /\ call' = [d \in Caller |-> IF d \in Under(p) THEN Idle ELSE call[d]]
        /\ up' = [up EXCEPT ![p] = FALSE] /\ on' = [on EXCEPT ![p] = FALSE] /\ UNCHANGED latest
    BY <1>6 DEF Crash
  <2>2. ASSUME NEW a \in standing' PROVE Held(a)'
    <3>1. a \in standing /\ a \in Caller \X Proc /\ a[1] \in Caller /\ a[2] \in Proc
      BY <2>1 DEF TypeOK
    <3>2. up'[a[2]] => on'[a[2]]
      BY <1>0, <2>1, <3>1 DEF TypeOK
    <3>3. a[1] \in Under(p) => ~ Pending(a)
      BY <2>1, <3>1, UnwrittenIs
    <3>4. a[1] \notin Under(p) => call'[a[1]] = call[a[1]]
      BY <2>1, <3>1
    <3> QED
      BY <1>0, <2>1, <3>1, <3>2, <3>3, <3>4
  <2> QED
    BY <1>0, <2>2
<1>7. CASE Boot(p)
  <2>1. ~ up[p] /\ UNCHANGED <<latest, call, standing>>
    BY <1>7 DEF Boot
  <2>2. up' = [up EXCEPT ![p] = TRUE] /\ on' = [on EXCEPT ![p] = latest]
    BY <1>7 DEF Boot
  <2>3. ASSUME NEW a \in standing PROVE Held(a)'
    <3>1. a[1] \in Caller /\ a[2] \in Proc
      BY DEF TypeOK
    <3>2. a[2] = p => ~ Pending(a)
      BY <2>1, <3>1 DEF Alive, Idle
    <3>3. up'[a[2]] => on'[a[2]]
      BY <1>0, <2>1, <2>2, <3>1, <3>2 DEF TypeOK
    <3> QED
      BY <1>0, <2>1, <3>3
  <2> QED
    BY <1>0, <2>1, <2>3
<1>8. CASE AppendActive(c)
  BY <1>0, <1>8 DEF AppendActive
<1>9. CASE AppendInactive(c)
  <2>1. standing = {}
    BY <1>9 DEF AppendInactive, Cleared, Lifting
  <2> QED
    BY <1>9, <2>1 DEF AppendInactive, HaltHolds
<1>10. ASSUME ~ (call[c].at = "row"), UNCHANGED <<up, on, latest, standing>>,
              \A d \in Caller : d # c => call'[d] = call[d]
       PROVE  HaltHolds'
  <2>1. \A a \in standing : Pending(a) => a[1] # c /\ a[1] \in Caller
    BY <1>10 DEF TypeOK
  <2> QED
    BY <1>0, <1>10, <2>1
<1>11. CASE RecordEvent(c) \/ Receipt(c)
  <2>1. ~ (call[c].at = "row") /\ UNCHANGED <<up, on, latest, standing>>
    BY <1>11 DEF RecordEvent, Receipt
  <2>2. \A d \in Caller : d # c => call'[d] = call[d]
    BY <1>11 DEF RecordEvent, Receipt, At, Ends, TypeOK
  <2> QED
    BY <1>10, <2>1, <2>2
<1>12. CASE StatementFails(c)
  <2>1. /\ standing' = standing \ Unwritten(c) /\ UNCHANGED <<up, on, latest>>
        /\ call' = [call EXCEPT ![c] = Idle]
    BY <1>12 DEF StatementFails, Ends
  <2>2. ASSUME NEW a \in standing' PROVE Held(a)'
    <3>1. a \in standing /\ a \in Caller \X Proc /\ a[1] \in Caller
      BY <2>1 DEF TypeOK
    <3>2. a[1] = c => ~ Pending(a)
      BY <2>1, <3>1, UnwrittenIs
    <3>3. a[1] # c => call'[a[1]] = call[a[1]]
      BY <2>1, <3>1 DEF TypeOK
    <3> QED
      BY <1>0, <2>1, <3>1, <3>2, <3>3
  <2> QED
    BY <1>0, <2>2
<1> QED
  BY <1>2, <1>3, <1>4, <1>5, <1>6, <1>7, <1>8, <1>9, <1>11, <1>12 DEF Step

LEMMA LedgerStep ==
  ASSUME IInv, NEW p \in Proc, NEW c \in Caller, Step(p, c)
  PROVE  Written' /\ LedgerTruthful'
<1> USE ConstantsAssumption DEF IInv, TypeOK, Written, LedgerTruthful
<1>1. CASE CommandActivates(c, p)
  BY <1>1 DEF CommandActivates, Activate, Begins
<1>2. CASE CommandRequests(c, p)
  BY <1>2 DEF CommandRequests, Begins
<1>3. CASE Deactivate(c, p)
  BY <1>3 DEF Deactivate, Begins
<1>4. CASE DrawdownCut(p)
  BY <1>4, Disjoint DEF DrawdownCut, Activate, Begins
<1>5. CASE Enters(p)
  BY <1>5, EntersFrame
<1>6. CASE Boot(p)
  BY <1>6 DEF Boot
<1>7. CASE Crash(p)
  BY <1>7 DEF Crash, Idle
<1>8. CASE AppendActive(c)
  BY <1>8 DEF AppendActive, At, Ends, Idle
<1>9. CASE AppendInactive(c)
  BY <1>9 DEF AppendInactive, Ends, Idle
<1>10. CASE RecordEvent(c)
  BY <1>10 DEF RecordEvent, At, Idle
<1>11. CASE Receipt(c)
  BY <1>11 DEF Receipt, Ends, Idle
<1>12. CASE StatementFails(c)
  BY <1>12 DEF StatementFails, Ends, Idle
<1> QED
  BY <1>1, <1>2, <1>3, <1>4, <1>5, <1>6, <1>7, <1>8, <1>9, <1>10, <1>11, <1>12 DEF Step

(* A batch begins with the switch off, when nothing late is counted, and   *)
(* every entry takes one from what is left of it.                          *)
LEMMA EntriesStep ==
  ASSUME IInv, NEW p \in Proc, NEW c \in Caller, Step(p, c)
  PROVE  OneBatch' /\ LateEntriesBounded'
<1> USE ConstantsAssumption DEF IInv, OneBatch, LateEntriesBounded
<1>1. CASE CommandActivates(c, p) \/ DrawdownCut(p)
  <2>1. on' = [on EXCEPT ![p] = TRUE] /\ UNCHANGED <<late, entering>>
    BY <1>1 DEF CommandActivates, DrawdownCut, Activate
  <2>2. \A q \in Proc, r \in Runner : ~ on[q] => late[q][r] + entering[q][r] <= Batch
    BY DEF TypeOK
  <2> QED
    BY <2>1, <2>2 DEF TypeOK
<1>2. CASE Deactivate(c, p)
  BY <1>2 DEF TypeOK, Deactivate, NoEntries
<1>3. CASE Enters(p)
  <2>1. PICK r \in Runner : BeginRun(p, r) \/ Enter(p, r)
    BY <1>3 DEF Enters
  <2>2. CASE BeginRun(p, r)
    <3>1. PICK n \in 1 .. Batch : entering' = [entering EXCEPT ![p][r] = n]
      BY <2>2 DEF BeginRun
    <3>2. ~on[p] /\ UNCHANGED <<on, late>>
      BY <2>2 DEF BeginRun, MayEnter
    <3> QED
      BY <3>1, <3>2 DEF TypeOK
  <2>3. CASE Enter(p, r)
    <3>1. /\ entering[p][r] > 0 /\ entering' = [entering EXCEPT ![p][r] = @ - 1]
          /\ UNCHANGED on
      BY <2>3 DEF Enter
    <3>2. CASE on[p]
      <4>1. late' = [late EXCEPT ![p][r] = @ + 1]
        BY <2>3, <3>2 DEF Enter, LateAfter
      <4> QED
        BY <3>1, <3>2, <4>1 DEF TypeOK
    <3>3. CASE ~ on[p]
      <4>1. late' = [late EXCEPT ![p][r] = 0]
        BY <2>3, <3>3 DEF Enter, LateAfter
      <4> QED
        BY <3>1, <3>3, <4>1 DEF TypeOK
    <3> QED
      BY <3>2, <3>3
  <2> QED
    BY <2>1, <2>2, <2>3
<1>4. CASE Crash(p)
  BY <1>4 DEF TypeOK, Crash, NoEntries
<1>5. CASE Boot(p)
  <2>1. \A r \in Runner : late[p][r] = 0 /\ late[p][r] + entering[p][r] <= Batch
    BY <1>5 DEF TypeOK, Boot, Down
  <2> QED
    BY <1>5, <2>1 DEF TypeOK, Boot
<1>6. CASE CommandRequests(c, p)
  BY <1>6 DEF CommandRequests
<1>7. CASE AppendActive(c) \/ AppendInactive(c)
  BY <1>7 DEF AppendActive, AppendInactive
<1>8. CASE RecordEvent(c) \/ Receipt(c) \/ StatementFails(c)
  BY <1>8 DEF RecordEvent, Receipt, StatementFails
<1> QED
  BY <1>1, <1>2, <1>3, <1>4, <1>5, <1>6, <1>7, <1>8 DEF Step

-----------------------------------------------------------------------------
LEMMA InitIInv == Init => IInv
<1> SUFFICES ASSUME Init PROVE IInv
  OBVIOUS
<1>1. \A c \in Caller : call[c] = Idle
  BY DEF Init
<1>2. TypeOK
  <2>1. call \in [Caller -> {Idle} \cup [at : Stage, in : Proc]]
    BY DEF Init
  <2>2. entering \in [Proc -> [Runner -> Nat]] /\ late \in [Proc -> [Runner -> Nat]]
    BY DEF Init, NoEntries
  <2> QED
    BY <2>1, <2>2 DEF Init, TypeOK
<1>3. standing = {} /\ events = {} /\ receipts = {}
  BY DEF Init
<1>4. Cleared /\ HaltHolds /\ LedgerTruthful
  <2>1. Cleared
    BY <1>3 DEF Cleared
  <2>2. HaltHolds
    BY <1>3 DEF HaltHolds
  <2>3. LedgerTruthful
    BY <1>3 DEF LedgerTruthful
  <2> QED
    BY <2>1, <2>2, <2>3
<1>5. Alive /\ Down /\ Written
  BY <1>1 DEF Init, Alive, Down, Written, Idle
<1>6. OneBatch /\ LateEntriesBounded
  BY ConstantsAssumption DEF Init, OneBatch, LateEntriesBounded, NoEntries
<1> QED
  BY <1>2, <1>4, <1>5, <1>6 DEF IInv

LEMMA StepIInv == IInv /\ [Next]_vars => IInv'
<1> SUFFICES ASSUME IInv, [Next]_vars PROVE IInv'
  OBVIOUS
<1>1. CASE Next
  <2>1. PICK p \in Proc, c \in Caller : Step(p, c)
    BY <1>1, NextIsStep
  <2> QED
    BY <2>1, TypeStep, AliveStep, DownStep, ClearedStep, HaltStep, LedgerStep, EntriesStep DEF IInv
<1>2. CASE UNCHANGED vars
  BY <1>2 DEF vars, IInv, TypeOK, Alive, Down, Cleared, Lifting, HaltHolds, Unwritten,
     Written, LedgerTruthful, OneBatch, LateEntriesBounded
<1> QED
  BY <1>1, <1>2

LEMMA Invariance == Spec => []IInv
BY InitIInv, StepIInv, PTL DEF Spec

(* The flag, the rows and the calls keep their types.                      *)
THEOREM TypeCorrect == Spec => []TypeOK
BY Invariance, PTL DEF IInv

(* An activation that nobody has asked to lift is never lost, whatever     *)
(* fails and whichever process restarts.                                   *)
THEOREM HaltAlwaysHolds == Spec => []HaltHolds
BY Invariance, PTL DEF IInv

(* A receipt has its event and the event of an activation its row.         *)
THEOREM LedgerAlwaysTruthful == Spec => []LedgerTruthful
BY Invariance, PTL DEF IInv

(* After the switch goes on every run finishes at most the batch it had    *)
(* begun, however many runs with flags of their own share a process.       *)
THEOREM LateEntriesAlwaysBounded == Spec => []LateEntriesBounded
BY Invariance, PTL DEF IInv
=============================================================================
