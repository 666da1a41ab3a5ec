------------------------- MODULE NotifyPipelineProofs -------------------------
(***************************************************************************)
(* Proofs about NotifyPipeline, for any number of users, jobs, filings and *)
(* pollers, any cap and any number of faults.                              *)
(*                                                                         *)
(* The inbox row is a lock: whoever created it holds the recipient alone   *)
(* until it goes on (Holder), so that nobody else can decide or push for   *)
(* the pair (Decided, Once).  The consumer never takes a row back, and a   *)
(* poller takes back rows of filings only (Pollers), so that the rows of a *)
(* job, once there, stay (Progress).  The cap gives way only by the counts *)
(* that are under way (CapInv).                                            *)
(***************************************************************************)
EXTENDS NotifyPipeline, TLAPS, FiniteSetTheorems

Holder ==
  \A s \in Sender : sender[s].at \in Holding =>
    /\ sender[s].cur \in inbox
    /\ \A t \in Sender : sender[t].at \in Holding /\ sender[t].cur = sender[s].cur => t = s

(* What the push ledger says while a push is under way. *)
Decided ==
  /\ \A x \in Pair : Exempt(x) => log[x] = "none"
  /\ \A s \in Sender :
       /\ sender[s].at \in {"count", "cap"} => ~Exempt(sender[s].cur)
       /\ sender[s].at = "cap" => log[sender[s].cur] = "none"
       /\ sender[s].at = "push" /\ ~Exempt(sender[s].cur) => log[sender[s].cur] = "SENT"

(* A pair without a row, or whose row is new, has no push left over. *)
Once ==
  /\ \A x \in Pair \ inbox : pushed[x] <= undone[x]
  /\ \A s \in Sender : sender[s].at \in {"count", "cap", "push"} =>
       pushed[sender[s].cur] <= undone[sender[s].cur]

Pollers ==
  \A p \in Poller : /\ sender[p].todo \subseteq To(Disclosure)
                    /\ sender[p].at \in Holding => sender[p].cur \in To(Disclosure)

(* Whom the consumer has left behind has a row. *)
Progress ==
  /\ \A j \in Job :
       /\ job[j].at # "none" => j \in asked
       /\ j \in notified => To({j}) \subseteq inbox
  /\ \A j \in Active :
       /\ sender[Worker].at \in {"row", "count", "cap", "push"} =>
            To({j}) \subseteq inbox \cup sender[Worker].todo
       /\ sender[Worker].at = "done" => To({j}) \subseteq inbox

Rows == Pollers /\ Progress /\ CompletedReachesAll
Pushes == Holder /\ Decided /\ Once /\ OnePushPerRow /\ LedgerCoversPushes
IInv == TypeOK /\ Rows /\ Pushes

JobStep(j) == Publish(j) \/ Take(j) \/ Guard(j) \/ Mark(j) \/ Complete(j)
PollStep(p) == Fetch(p) \/ Save(p) \/ FinishPoll(p) \/ Undo(p)
PushStep(s) ==
  \/ Row(s) \/ Count(s) \/ DecideRow(s) \/ Push(s)
  \/ PushLost(s) \/ PushThrows(s) \/ StatementFails(s)

LEMMA NextIsStep ==
  ASSUME Next
  PROVE  \/ \E j \in Job : JobStep(j)
         \/ \E p \in Poller : PollStep(p)
         \/ \E s \in Sender : PushStep(s)
         \/ Crash
<1>1. Poller \subseteq Sender /\ Worker \in Sender
  BY DEF Sender
<1>2. CASE Work
  BY <1>1, <1>2 DEF Work, Deliver, JobStep, PushStep
<1>3. CASE \E p \in Poller : Poll(p)
  BY <1>1, <1>3 DEF Poll, Deliver, PollStep, PushStep
<1>4. CASE Environment
  BY <1>4 DEF Environment, JobStep, PushStep
<1> QED
  BY <1>2, <1>3, <1>4 DEF Next

-----------------------------------------------------------------------------
(* Sets and record fields.                                                 *)
LEMMA CountIsNat ==
  ASSUME NEW u
  PROVE  SentTo(u) \in Nat
<1>1. IsFiniteSet(User \X Ref)
  BY ConstantsAssumption, FS_Product
<1>2. {x \in Pair : x[1] = u /\ log[x] = "SENT"} \subseteq User \X Ref
  BY DEF Pair
<1>3. IsFiniteSet({x \in Pair : x[1] = u /\ log[x] = "SENT"})
  BY <1>1, <1>2, FS_Subset
<1> QED
  BY <1>3, FS_CardinalityType DEF SentTo

LEMMA Fixed ==
  /\ Idle \in SenderState /\ Idle.at = "idle" /\ Idle.cur = NoPair /\ Idle.todo = {}
  /\ NoPair \notin Pair
  /\ \A refs : To(refs) \in SUBSET Pair
  /\ Worker \in Sender /\ Poller \subseteq Sender /\ Worker \notin Poller
  /\ Signal \subseteq Job
BY ConstantsAssumption DEF Idle, SenderState, Stages, To, Sender, Job

LEMMA Moved ==
  ASSUME Senders, NEW s \in Sender
  PROVE  /\ Next1(s) \in SenderState /\ Next1(s).at = "row" /\ Next1(s).cur = NoPair
         /\ Next1(s).todo = sender[s].todo
         /\ \A x : /\ Served(s, x) \in SenderState /\ Served(s, x).at = "row"
                   /\ Served(s, x).cur = NoPair /\ Served(s, x).todo = sender[s].todo \ {x}
BY DEF Senders, SenderState, Stages, Next1, Served

Fits(r) == r \in SenderState /\ (r.cur \in Pair <=> r.at \in Holding)

LEMMA Resting ==
  ASSUME NEW r \in SenderState, r.cur = NoPair, r.at \notin Holding
  PROVE  Fits(r)
BY Fixed DEF Fits

LEMMA Busy ==
  ASSUME NEW r \in SenderState, r.cur \in Pair, r.at \in Holding
  PROVE  Fits(r)
BY DEF Fits

(* One sender moves: what is true of its new state and of the others'.     *)
LEMMA Became ==
  ASSUME Senders, NEW s \in Sender, NEW r, Fits(r), Becomes(s, r)
  PROVE  /\ Senders'
         /\ sender'[s] = r
         /\ \A t \in Sender : t # s => sender'[t] = sender[t]
BY DEF Senders, Becomes, Fits

(* The queue does not mind, unless the consumer begins or ends.            *)
LEMMA SameQueue ==
  ASSUME Senders, Queue, NEW s \in Sender, NEW r, Fits(r), Becomes(s, r), job' = job,
         s = Worker => r.at # "idle" /\ sender[s].at # "idle"
  PROVE  Queue'
<1>1. sender'[Worker].at = "idle" <=> sender[Worker].at = "idle"
  BY Became, Fixed
<1>2. Active' = Active
  BY DEF Active
<1> QED
  BY <1>1, <1>2 DEF Queue

-----------------------------------------------------------------------------
(* What every step keeps, in the forms the steps need.                     *)

(* Some senders let go of their recipient, nothing is decided or pushed.   *)
LEMMA Released ==
  ASSUME TypeOK, Pushes, inbox \subseteq inbox', UNCHANGED <<log, pushed, undone>>,
         \A t \in Sender : sender'[t] = sender[t] \/ sender'[t].at \notin Holding
  PROVE  Pushes'
<1>1. Holder'
  BY DEF Pushes, Holder
<1>2. Decided'
  BY DEF Pushes, Decided, Exempt, Holding
<1>3. Once'
  BY DEF Pushes, Once, Holding
<1>4. OnePushPerRow' /\ LedgerCoversPushes'
  BY DEF Pushes, OnePushPerRow, LedgerCoversPushes, Exempt
<1> QED
  BY <1>1, <1>2, <1>3, <1>4 DEF Pushes

(* A poller moves on; the rows of jobs stay.                               *)
LEMMA PollerMoves ==
  ASSUME TypeOK, Rows, NEW p \in Poller, NEW r, Fits(r), Becomes(p, r),
         r.todo \subseteq To(Disclosure),
         r.at \in Holding => r.cur \in To(Disclosure),
         \A j \in Job : To({j}) \cap inbox \subseteq inbox',
         UNCHANGED <<job, asked, notified>>
  PROVE  Rows'
<1>1. /\ sender'[p] = r
      /\ \A t \in Sender : t # p => sender'[t] = sender[t]
      /\ sender'[Worker] = sender[Worker]
  BY Became, Fixed DEF TypeOK
<1>2. Pollers'
  BY <1>1, Fixed DEF Rows, Pollers
<1>3. Active' = Active
  BY DEF Active
<1>4. Progress'
  <2>1. \A j \in Job : To({j}) \subseteq inbox => To({j}) \subseteq inbox'
    OBVIOUS
  <2>2. \A j \in Job :
          /\ job'[j].at # "none" => j \in asked'
          /\ j \in notified' => To({j}) \subseteq inbox'
    BY <2>1 DEF Rows, Progress
  <2>3. ASSUME NEW j \in Active
        PROVE  /\ sender'[Worker].at \in {"row", "count", "cap", "push"} =>
                    To({j}) \subseteq inbox' \cup sender'[Worker].todo
               /\ sender'[Worker].at = "done" => To({j}) \subseteq inbox'
    BY <1>1 DEF Rows, Progress, Active
  <2> QED
    <3>1. \A j : To({j})' = To({j})
      BY DEF To, Pair
    <3> QED
      BY <1>3, <2>2, <2>3, <3>1 DEF Progress
<1>5. CompletedReachesAll'
  BY Fixed DEF Rows, CompletedReachesAll, TypeOK, Tables, To, Pair
<1> QED
  BY <1>2, <1>4, <1>5 DEF Rows

(* A sender serves recipients, one after the other.                        *)
LEMMA Serving ==
  ASSUME TypeOK, Rows, NEW s \in Sender, NEW r, Fits(r), Becomes(s, r),
         sender[s].at \in {"row", "count", "cap", "push"},
         r.at \in {"row", "count", "cap", "push"},
         r.todo \subseteq sender[s].todo, sender[s].todo \ r.todo \subseteq inbox',
         r.at \in Holding => \/ r.cur \in sender[s].todo
                             \/ (sender[s].at \in Holding /\ r.cur = sender[s].cur),
         inbox \subseteq inbox', UNCHANGED <<job, asked, notified>>
  PROVE  Rows'
<1>1. CASE s \in Poller
  <2>1. /\ r.todo \subseteq To(Disclosure)
        /\ r.at \in Holding => r.cur \in To(Disclosure)
    BY <1>1 DEF Rows, Pollers
  <2> QED
    BY <1>1, <2>1, PollerMoves
<1>2. CASE s = Worker
  <2>1. /\ sender'[Worker] = r
        /\ \A p \in Poller : sender'[p] = sender[p]
    BY <1>2, Became, Fixed DEF TypeOK
  <2>2. Pollers'
    BY <2>1 DEF Rows, Pollers, To, Pair
  <2>3. Active' = Active
    BY DEF Active
  <2>4. Progress'
    BY <1>2, <2>1, <2>3 DEF Rows, Progress, To, Pair
  <2>5. CompletedReachesAll'
    BY DEF Rows, CompletedReachesAll, To, Pair
  <2> QED
    BY <2>2, <2>4, <2>5 DEF Rows
<1> QED
  BY <1>1, <1>2 DEF Sender

(* The active job goes back to the queue, or fails.                        *)
LEMMA Requeued ==
  ASSUME TypeOK, Rows, inbox' = inbox, UNCHANGED <<asked, notified>>,
         \A p \in Poller : sender'[p] = sender[p] \/ sender'[p] = Idle,
         Active' = {}, \A j \in Job : job'[j].at = "none" <=> job[j].at = "none"
  PROVE  Rows'
<1>1. Pollers'
  BY Fixed DEF Rows, Pollers, Holding, To, Pair
<1>2. Progress'
  BY DEF Rows, Progress, To, Pair
<1>3. CompletedReachesAll'
  BY DEF Rows, CompletedReachesAll, TypeOK, Tables, To, Pair
<1> QED
  BY <1>1, <1>2, <1>3 DEF Rows

-----------------------------------------------------------------------------
(* Job by job.                                                             *)
LEMMA PublishKeeps ==
  ASSUME IInv, NEW j \in Job, Publish(j)
  PROVE  IInv'
<1>1. sender' = sender /\ UNCHANGED <<notified, inbox, log, pushed, undone>>
  BY DEF Publish
<1>2. Active' = Active
  BY DEF Publish, IInv, TypeOK, Queue, Active
<1>3. TypeOK'
  <2>1. Tables'
    BY DEF Publish, IInv, TypeOK, Tables
  <2>2. Queue'
    BY <1>1, <1>2, ConstantsAssumption DEF Publish, IInv, TypeOK, Queue
  <2>3. Senders'
    BY <1>1 DEF IInv, TypeOK, Senders
  <2> QED
    BY <2>1, <2>2, <2>3 DEF TypeOK
<1>4. Rows'
  <2>1. Pollers'
    BY <1>1 DEF IInv, Rows, Pollers, To, Pair
  <2>2. Progress'
    BY <1>1, <1>2 DEF Publish, IInv, TypeOK, Queue, Rows, Progress, To, Pair
  <2>3. CompletedReachesAll'
    BY <1>1 DEF Publish, IInv, TypeOK, Queue, Rows, Progress, CompletedReachesAll, To, Pair
  <2> QED
    BY <2>1, <2>2, <2>3 DEF Rows
<1>5. Pushes'
  BY <1>1, Released DEF IInv
<1> QED
  BY <1>3, <1>4, <1>5 DEF IInv

(* The consumer does its own work: it holds nobody before and after.       *)
LEMMA ConsumerMoves ==
  ASSUME IInv, NEW r \in SenderState, Becomes(Worker, r), r.cur = NoPair, r.at \notin Holding,
         Tables', Queue', UNCHANGED <<inbox, log, pushed, undone>>,
         Progress', CompletedReachesAll'
  PROVE  IInv'
<1>1. /\ Senders'
      /\ sender'[Worker] = r
      /\ \A t \in Sender : t # Worker => sender'[t] = sender[t]
  BY Resting, Became, Fixed DEF IInv, TypeOK
<1>2. Pollers'
  BY <1>1, Fixed DEF IInv, Rows, Pollers, To, Pair
<1>3. Pushes'
  BY <1>1, Released DEF IInv
<1> QED
  BY <1>1, <1>2, <1>3 DEF IInv, TypeOK, Rows

LEMMA TakeKeeps ==
  ASSUME IInv, NEW j \in Job, Take(j)
  PROVE  IInv'
<1> DEFINE r == [Idle EXCEPT !.at = "guard"]
<1>1. /\ r \in SenderState /\ r.cur = NoPair /\ r.at = "guard" /\ r.at \notin Holding
      /\ Becomes(Worker, r)
  BY DEF Take, Idle, SenderState, Stages, Holding
<1>2. sender'[Worker] = r
  BY <1>1, Fixed, Resting, Became DEF IInv, TypeOK
<1>3. Tables'
  BY DEF Take, IInv, TypeOK, Tables
<1>4. Queue'
  <2>1. Active = {}
    BY DEF Take, IInv, TypeOK, Queue
  <2>2. /\ job' \in [Job -> [at : {"none", "waiting", "active", "failed"}, tries : 0..Attempts]]
        /\ \A i \in Job : job'[i].at # "failed" => job'[i].tries < Attempts
        /\ Active' = {j}
    BY <2>1 DEF Take, IInv, TypeOK, Queue, Active
  <2> QED
    BY <1>1, <1>2, <2>2 DEF Queue
<1>5. Progress'
  BY <1>1, <1>2 DEF Take, IInv, TypeOK, Queue, Rows, Progress, To, Pair
<1>6. CompletedReachesAll'
  BY DEF Take, IInv, TypeOK, Queue, Rows, CompletedReachesAll, To, Pair
<1>7. UNCHANGED <<inbox, log, pushed, undone>>
  BY DEF Take
<1> HIDE DEF r
<1> QED
  BY <1>1, <1>3, <1>4, <1>5, <1>6, <1>7, ConsumerMoves

LEMMA GuardKeeps ==
  ASSUME IInv, NEW j \in Job, Guard(j)
  PROVE  IInv'
<1> DEFINE r == IF j \in notified THEN [Idle EXCEPT !.at = "done"]
                ELSE [Idle EXCEPT !.at = "row", !.todo = To({j})]
<1>1. /\ r \in SenderState /\ r.cur = NoPair /\ r.at \notin Holding /\ r.at # "idle"
      /\ Becomes(Worker, r)
      /\ IF j \in notified THEN r.at = "done" ELSE r.at = "row" /\ r.todo = To({j})
  BY Fixed DEF Guard, Idle, SenderState, Stages, Holding
<1>2. sender[Worker].at = "guard" /\ j \in Active
      /\ UNCHANGED <<job, asked, notified, inbox, log, pushed, undone, saved, faults>>
  BY DEF Guard
<1> HIDE DEF r
<1>3. sender'[Worker] = r
  BY <1>1, Fixed, Resting, Became DEF IInv, TypeOK
<1>4. Active' = Active /\ Active = {j}
  BY <1>2 DEF Active, IInv, TypeOK, Queue
<1>5. Tables'
  BY <1>2 DEF IInv, TypeOK, Tables
<1>6. Queue'
  BY <1>1, <1>2, Fixed, Resting, SameQueue DEF IInv, TypeOK
<1>7. Progress'
  BY <1>1, <1>2, <1>3, <1>4 DEF IInv, Rows, Progress, To, Pair
<1>8. CompletedReachesAll'
  BY <1>2 DEF IInv, Rows, CompletedReachesAll, To, Pair
<1> QED
  BY <1>1, <1>2, <1>5, <1>6, <1>7, <1>8, ConsumerMoves

LEMMA MarkKeeps ==
  ASSUME IInv, NEW j \in Job, Mark(j)
  PROVE  IInv'
<1> DEFINE r == [Idle EXCEPT !.at = "done"]
<1>1. /\ r \in SenderState /\ r.cur = NoPair /\ r.at \notin Holding /\ r.at = "done"
      /\ Becomes(Worker, r)
  BY Fixed DEF Mark, Idle, SenderState, Stages, Holding
<1>2. /\ sender[Worker].at = "row" /\ sender[Worker].todo = {} /\ j \in Active
      /\ UNCHANGED <<job, asked, inbox, log, pushed, undone, saved, faults>>
      /\ notified' = notified \cup ({j} \cap Signal)
  BY DEF Mark
<1> HIDE DEF r
<1>3. sender'[Worker] = r
  BY <1>1, Fixed, Resting, Became DEF IInv, TypeOK
<1>4. Active' = Active /\ Active = {j}
  BY <1>2 DEF Active, IInv, TypeOK, Queue
<1>5. To({j}) \subseteq inbox
  BY <1>2 DEF IInv, Rows, Progress
<1>6. Tables'
  BY <1>2 DEF IInv, TypeOK, Tables
<1>7. Queue'
  BY <1>1, <1>2, Fixed, Resting, SameQueue DEF IInv, TypeOK
<1>8. Progress'
  BY <1>1, <1>2, <1>3, <1>4, <1>5 DEF IInv, Rows, Progress, To, Pair
<1>9. CompletedReachesAll'
  BY <1>2, <1>5 DEF IInv, Rows, CompletedReachesAll, To, Pair
<1> QED
  BY <1>1, <1>2, <1>6, <1>7, <1>8, <1>9, ConsumerMoves

LEMMA CompleteKeeps ==
  ASSUME IInv, NEW j \in Job, Complete(j)
  PROVE  IInv'
<1>1. /\ sender[Worker].at = "done" /\ j \in Active /\ Becomes(Worker, Idle)
      /\ UNCHANGED <<asked, notified, inbox, log, pushed, undone, saved, faults>>
      /\ job' = [job EXCEPT ![j] = [at |-> "none", tries |-> 0]]
  BY DEF Complete
<1>2. sender'[Worker] = Idle /\ Idle.at \notin Holding
  BY <1>1, Fixed, Resting, Became DEF IInv, TypeOK, Holding
<1>3. To({j}) \subseteq inbox
  BY <1>1 DEF IInv, Rows, Progress
<1>4. Tables'
  BY <1>1 DEF IInv, TypeOK, Tables
<1>5. /\ job' \in [Job -> [at : {"none", "waiting", "active", "failed"}, tries : 0..Attempts]]
      /\ \A i \in Job : job'[i].at # "failed" => job'[i].tries < Attempts
      /\ Active' = {}
  BY <1>1, ConstantsAssumption DEF IInv, TypeOK, Queue, Active
<1>6. Queue'
  BY <1>2, <1>5, Fixed DEF Queue
<1>7. Progress'
  BY <1>1, <1>5 DEF IInv, TypeOK, Queue, Rows, Progress, To, Pair
<1>8. CompletedReachesAll'
  BY <1>1, <1>3 DEF IInv, TypeOK, Queue, Rows, CompletedReachesAll, To, Pair
<1> QED
  BY <1>1, <1>2, <1>4, <1>6, <1>7, <1>8, Fixed, ConsumerMoves

-----------------------------------------------------------------------------
(* A poller's own work.                                                    *)
LEMMA PollerRests ==
  ASSUME IInv, NEW p \in Poller, NEW r \in SenderState, Becomes(p, r),
         r.cur = NoPair, r.at \notin Holding, r.todo \subseteq To(Disclosure),
         Tables', UNCHANGED <<job, asked, notified, inbox, log, pushed, undone>>
  PROVE  IInv'
<1>1. /\ Fits(r) /\ Senders'
      /\ sender'[p] = r
      /\ \A t \in Sender : t # p => sender'[t] = sender[t]
  BY Resting, Became, Fixed DEF IInv, TypeOK
<1>2. Queue'
  BY <1>1, Fixed, SameQueue DEF IInv, TypeOK
<1>3. Rows'
  BY <1>1, PollerMoves DEF IInv
<1>4. Pushes'
  BY <1>1, Released DEF IInv
<1> QED
  BY <1>1, <1>2, <1>3, <1>4 DEF IInv, TypeOK

LEMMA FetchKeeps ==
  ASSUME IInv, NEW p \in Poller, Fetch(p)
  PROVE  IInv'
<1>1. PICK new \in SUBSET (Disclosure \ saved) \ {{}} :
        Becomes(p, [Idle EXCEPT !.at = "save", !.found = new])
  BY DEF Fetch
<1> DEFINE r == [Idle EXCEPT !.at = "save", !.found = new]
<1>2. /\ r \in SenderState /\ r.cur = NoPair /\ r.at \notin Holding
      /\ r.todo \subseteq To(Disclosure) /\ Becomes(p, r)
  BY <1>1 DEF Idle, SenderState, Stages, Holding
<1>3. Tables' /\ UNCHANGED <<job, asked, notified, inbox, log, pushed, undone>>
  BY DEF Fetch, IInv, TypeOK, Tables
<1> HIDE DEF r
<1> QED
  BY <1>2, <1>3, PollerRests

LEMMA SaveKeeps ==
  ASSUME IInv, NEW p \in Poller, Save(p)
  PROVE  IInv'
<1> DEFINE r == [Idle EXCEPT !.at = "row", !.todo = To(sender[p].found)]
<1>1. sender[p].found \subseteq Disclosure
  BY Fixed DEF IInv, TypeOK, Senders, SenderState
<1>2. /\ r \in SenderState /\ r.cur = NoPair /\ r.at \notin Holding
      /\ r.todo = To(sender[p].found) /\ Becomes(p, r)
  BY Fixed DEF Save, Idle, SenderState, Stages, Holding
<1>3. Tables' /\ UNCHANGED <<job, asked, notified, inbox, log, pushed, undone>>
  BY <1>1 DEF Save, IInv, TypeOK, Tables
<1> HIDE DEF r
<1>4. r.todo \subseteq To(Disclosure)
  BY <1>1, <1>2 DEF To
<1> QED
  BY <1>2, <1>3, <1>4, PollerRests

LEMMA FinishPollKeeps ==
  ASSUME IInv, NEW p \in Poller, FinishPoll(p)
  PROVE  IInv'
<1>1. Becomes(p, Idle) /\ Idle.at \notin Holding
  BY Fixed DEF FinishPoll, Holding
<1>2. Tables' /\ UNCHANGED <<job, asked, notified, inbox, log, pushed, undone>>
  BY DEF FinishPoll, IInv, TypeOK, Tables
<1> QED
  BY <1>1, <1>2, Fixed, PollerRests

(* The poller that holds the row deletes it, and the push it may have made *)
(* is accounted for as undone.                                             *)
LEMMA UndoKeeps ==
  ASSUME IInv, NEW p \in Poller, Undo(p)
  PROVE  IInv'
<1> DEFINE r == Next1(p)
<1> DEFINE x == sender[p].cur
<1>1. /\ sender[p].at = "undo" /\ Becomes(p, r)
      /\ inbox' = inbox \ {x} /\ undone' = [undone EXCEPT ![x] = @ + 1]
      /\ UNCHANGED <<job, asked, notified, saved, log, pushed, faults>>
  BY DEF Undo
<1>2. /\ r \in SenderState /\ r.at = "row" /\ r.cur = NoPair
      /\ r.todo = sender[p].todo /\ r.at \notin Holding
  BY Moved, Fixed DEF IInv, TypeOK, Holding
<1>3. x \in To(Disclosure) /\ x \in Pair /\ r.todo \subseteq To(Disclosure)
  BY <1>1, <1>2, Fixed DEF IInv, Rows, Pollers, Holding
<1>4. \A t \in Sender : sender[t].at \in Holding /\ sender[t].cur = x => t = p
  BY <1>1, Fixed DEF IInv, Pushes, Holder, Holding
<1>5. p \in Sender /\ p # Worker
  BY Fixed
<1> HIDE DEF r, x
<1>6. /\ Fits(r) /\ Senders'
      /\ sender'[p] = r
      /\ \A t \in Sender : t # p => sender'[t] = sender[t]
  BY <1>1, <1>2, <1>5, Resting, Became DEF IInv, TypeOK
<1>7. TypeOK'
  <2>1. Tables'
    BY <1>1, <1>3 DEF IInv, TypeOK, Tables
  <2>2. Queue'
    BY <1>1, <1>5, <1>6, SameQueue DEF IInv, TypeOK
  <2> QED
    BY <1>6, <2>1, <2>2 DEF TypeOK
<1>8. Rows'
  <2>1. \A j \in Job : To({j}) \cap inbox \subseteq inbox'
    BY <1>1, <1>3, ConstantsAssumption DEF To
  <2>2. UNCHANGED <<job, asked, notified>>
    BY <1>1
  <2> QED
    BY <1>1, <1>2, <1>3, <1>6, <2>1, <2>2, PollerMoves DEF IInv
<1>9. Pushes'
  <2>1. Holder'
    BY <1>1, <1>2, <1>4, <1>5, <1>6 DEF IInv, Pushes, Holder
  <2>2. Decided'
    BY <1>1, <1>2, <1>6 DEF IInv, Pushes, Decided, Exempt
  <2>3. \A y \in Pair : /\ pushed[y] \in Nat /\ undone[y] \in Nat
                        /\ undone'[y] = IF y = x THEN undone[x] + 1 ELSE undone[y]
    BY <1>1, <1>3 DEF IInv, TypeOK, Tables
  <2>4. \A t \in Sender : sender'[t].at \in Holding =>
          sender'[t] = sender[t] /\ sender[t].cur \in Pair /\ sender[t].cur # x
    BY <1>2, <1>4, <1>6 DEF IInv, TypeOK, Senders
  <2>5. Once'
    <3>1. \A y \in Pair \ inbox' : pushed'[y] <= undone'[y]
      BY <1>1, <2>3 DEF IInv, Pushes, Once, OnePushPerRow
    <3>2. \A t \in Sender : sender'[t].at \in {"count", "cap", "push"} =>
            pushed'[sender'[t].cur] <= undone'[sender'[t].cur]
      BY <1>1, <2>3, <2>4 DEF IInv, Pushes, Once, Holding
    <3> QED
      BY <3>1, <3>2 DEF Once
  <2>6. OnePushPerRow'
    BY <1>1, <2>3 DEF IInv, Pushes, OnePushPerRow
  <2>7. LedgerCoversPushes'
    BY <1>1 DEF IInv, Pushes, LedgerCoversPushes, Exempt
  <2> QED
    BY <2>1, <2>2, <2>5, <2>6, <2>7 DEF Pushes
<1> QED
  BY <1>7, <1>8, <1>9 DEF IInv

-----------------------------------------------------------------------------
(* Recipient by recipient.                                                 *)
LEMMA RowKeeps ==
  ASSUME IInv, NEW s \in Sender, Row(s)
  PROVE  IInv'
<1>1. PICK x \in sender[s].todo :
        /\ inbox' = inbox \cup {x}
        /\ Becomes(s, IF x \in inbox \/ x[1] \notin Reach[x[2]] THEN Served(s, x)
                      ELSE [Served(s, x) EXCEPT !.cur = x,
                              !.at = IF Exempt(x) THEN "push" ELSE "count"])
  BY DEF Row
<1>2. sender[s].at = "row" /\ UNCHANGED <<job, asked, notified, saved, log, pushed, undone, faults>>
  BY DEF Row
<1> DEFINE r == IF x \in inbox \/ x[1] \notin Reach[x[2]] THEN Served(s, x)
                ELSE [Served(s, x) EXCEPT !.cur = x,
                        !.at = IF Exempt(x) THEN "push" ELSE "count"]
<1>3. Becomes(s, r)
  BY <1>1
<1>4. x \in Pair
  BY DEF IInv, TypeOK, Senders, SenderState
<1>5. /\ Served(s, x) \in SenderState /\ Served(s, x).at = "row"
      /\ Served(s, x).cur = NoPair /\ Served(s, x).todo = sender[s].todo \ {x}
  BY Moved DEF IInv, TypeOK
<1>6. r \in SenderState /\ r.todo = sender[s].todo \ {x}
  BY <1>4, <1>5 DEF SenderState, Stages
<1>7. \/ r.at = "row" /\ r.cur = NoPair
      \/ x \notin inbox /\ r.cur = x /\ r.at = IF Exempt(x) THEN "push" ELSE "count"
  BY <1>5 DEF SenderState
<1> HIDE DEF r
<1>8. Fits(r)
  BY <1>4, <1>6, <1>7, Resting, Busy DEF Holding
<1>9. /\ Senders'
      /\ sender'[s] = r
      /\ \A t \in Sender : t # s => sender'[t] = sender[t]
  BY <1>3, <1>8, Became DEF IInv, TypeOK
<1>10. TypeOK'
  <2>1. Tables'
    BY <1>1, <1>2, <1>4 DEF IInv, TypeOK, Tables
  <2>2. Queue'
    BY <1>2, <1>3, <1>7, <1>8, SameQueue DEF IInv, TypeOK
  <2> QED
    BY <1>9, <2>1, <2>2 DEF TypeOK
<1>11. Rows'
  <2>1. r.at \in {"row", "count", "cap", "push"}
    BY <1>7
  <2>2. r.at \in Holding => r.cur \in sender[s].todo
    BY <1>7 DEF Holding
  <2>3. sender[s].todo \ r.todo \subseteq inbox' /\ inbox \subseteq inbox'
    BY <1>1, <1>6
  <2> QED
    BY <1>2, <1>3, <1>6, <1>8, <2>1, <2>2, <2>3, Serving DEF IInv
<1>12. Pushes'
  <2>1. CASE r.at = "row"
    BY <1>1, <1>2, <1>9, <2>1, Released DEF IInv, Holding
  <2>2. CASE r.at # "row"
    <3>1. x \notin inbox /\ r.cur = x /\ r.at = IF Exempt(x) THEN "push" ELSE "count"
      BY <1>7, <2>2
    <3>2. \A t \in Sender : sender[t].at \in Holding =>
            sender[t].cur \in inbox /\ sender[t].cur # x
      BY <3>1 DEF IInv, Pushes, Holder
    <3>3. Holder'
      BY <1>1, <1>9, <3>1, <3>2 DEF IInv, Pushes, Holder
    <3>4. Decided'
      BY <1>2, <1>9, <3>1 DEF IInv, Pushes, Decided, Exempt
    <3>5. Once'
      BY <1>1, <1>2, <1>4, <1>9, <3>1 DEF IInv, Pushes, Once
    <3>6. OnePushPerRow' /\ LedgerCoversPushes'
      BY <1>2 DEF IInv, Pushes, OnePushPerRow, LedgerCoversPushes, Exempt
    <3> QED
      BY <3>3, <3>4, <3>5, <3>6 DEF Pushes
  <2> QED
    BY <2>1, <2>2
<1> QED
  BY <1>10, <1>11, <1>12 DEF IInv

(* A sender with a recipient in hand goes on: to another stage with the    *)
(* same recipient, or to the next one.                                     *)
LEMMA HeldMoves ==
  ASSUME IInv, NEW s \in Sender, NEW r \in SenderState, Becomes(s, r),
         sender[s].at \in {"count", "cap", "push"},
         \/ r.at \in {"count", "cap", "push"} /\ r.cur = sender[s].cur
         \/ r.at = "row" /\ r.cur = NoPair,
         r.todo = sender[s].todo, Tables',
         UNCHANGED <<job, asked, notified, inbox>>
  PROVE  /\ TypeOK' /\ Rows' /\ Holder'
         /\ sender[s].cur \in Pair
         /\ sender'[s] = r
         /\ \A t \in Sender : t # s => sender'[t] = sender[t]
         /\ \A t \in Sender : t # s /\ sender[t].at \in Holding => sender[t].cur # sender[s].cur
<1>1. sender[s].cur \in Pair /\ sender[s].at \in Holding
  BY DEF IInv, TypeOK, Senders, Holding
<1>2. Fits(r)
  BY <1>1, Resting, Busy DEF Holding
<1>3. /\ Senders'
      /\ sender'[s] = r
      /\ \A t \in Sender : t # s => sender'[t] = sender[t]
  BY <1>2, Became DEF IInv, TypeOK
<1>4. Queue'
  BY <1>2, SameQueue DEF IInv, TypeOK
<1>5. Rows'
  <2>1. r.at \in {"row", "count", "cap", "push"}
    OBVIOUS
  <2>2. r.at \in Holding => r.cur = sender[s].cur
    BY DEF Holding
  <2> QED
    BY <1>1, <1>2, <2>1, <2>2, Serving DEF IInv
<1>6. \A t \in Sender : t # s /\ sender[t].at \in Holding => sender[t].cur # sender[s].cur
  BY <1>1 DEF IInv, Pushes, Holder
<1>7. Holder'
  BY <1>1, <1>3, <1>6 DEF IInv, Pushes, Holder, Holding
<1> QED
  BY <1>1, <1>3, <1>4, <1>5, <1>6, <1>7 DEF TypeOK

LEMMA CountKeeps ==
  ASSUME IInv, NEW s \in Sender, Count(s)
  PROVE  IInv'
<1> DEFINE x == sender[s].cur
<1> DEFINE r == CASE log[x] = "SENT" -> [sender[s] EXCEPT !.at = "push"]
                  [] log[x] = "SUPPRESSED_CAP" -> Next1(s)
                  [] OTHER -> [sender[s] EXCEPT !.at = "cap", !.sent = SentTo(x[1])]
<1>1. /\ sender[s].at = "count" /\ Becomes(s, r)
      /\ UNCHANGED <<job, asked, notified, saved, inbox, log, pushed, undone, faults>>
  BY DEF Count
<1>2. /\ Next1(s) \in SenderState /\ Next1(s).at = "row" /\ Next1(s).cur = NoPair
      /\ Next1(s).todo = sender[s].todo
  BY Moved DEF IInv, TypeOK
<1>3. sender[s] \in SenderState /\ x \in Pair /\ log[x] \in {"none", "SENT", "SUPPRESSED_CAP"}
  BY <1>1 DEF IInv, TypeOK, Senders, Tables, Holding
<1>4. /\ r \in SenderState /\ r.todo = sender[s].todo
      /\ \/ r.at = "push" /\ r.cur = x /\ log[x] = "SENT"
         \/ r.at = "row" /\ r.cur = NoPair
         \/ r.at = "cap" /\ r.cur = x /\ log[x] = "none"
  <2>1. CASE log[x] = "SENT"
    <3>1. r = [sender[s] EXCEPT !.at = "push"]
      BY <2>1
    <3> QED
      BY <1>3, <2>1, <3>1 DEF SenderState, Stages
  <2>2. CASE log[x] = "SUPPRESSED_CAP"
    <3>1. r = Next1(s)
      BY <2>2
    <3> QED
      BY <1>2, <3>1
  <2>3. CASE log[x] = "none"
    <3>1. r = [sender[s] EXCEPT !.at = "cap", !.sent = SentTo(x[1])]
      BY <2>3
    <3> QED
      BY <1>3, <2>3, <3>1, CountIsNat DEF SenderState, Stages
  <2> QED
    BY <1>3, <2>1, <2>2, <2>3
<1> HIDE DEF r
<1>5. Tables'
  BY <1>1 DEF IInv, TypeOK, Tables
<1>6. /\ TypeOK' /\ Rows' /\ Holder'
      /\ sender'[s] = r
      /\ \A t \in Sender : t # s => sender'[t] = sender[t]
  BY <1>1, <1>4, <1>5, HeldMoves
<1>7. Decided'
  BY <1>1, <1>4, <1>6 DEF IInv, Pushes, Decided, Exempt
<1>8. Once'
  BY <1>1, <1>4, <1>6 DEF IInv, Pushes, Once
<1>9. OnePushPerRow' /\ LedgerCoversPushes'
  BY <1>1 DEF IInv, Pushes, OnePushPerRow, LedgerCoversPushes, Exempt
<1> QED
  BY <1>6, <1>7, <1>8, <1>9 DEF IInv, Pushes

LEMMA DecideKeeps ==
  ASSUME IInv, NEW s \in Sender, DecideRow(s)
  PROVE  IInv'
<1> DEFINE x == sender[s].cur
<1> DEFINE ok == sender[s].sent < Cap
<1> DEFINE r == IF ok THEN [sender[s] EXCEPT !.at = "push", !.sent = 0] ELSE Next1(s)
<1>1. /\ sender[s].at = "cap" /\ Becomes(s, r)
      /\ log' = [log EXCEPT ![x] = IF ok THEN "SENT" ELSE "SUPPRESSED_CAP"]
      /\ UNCHANGED <<job, asked, notified, saved, inbox, pushed, undone, faults>>
  BY DEF DecideRow, Decide
<1>2. /\ Next1(s) \in SenderState /\ Next1(s).at = "row" /\ Next1(s).cur = NoPair
      /\ Next1(s).todo = sender[s].todo
  BY Moved DEF IInv, TypeOK
<1>3. sender[s] \in SenderState /\ x \in Pair
  BY <1>1 DEF IInv, TypeOK, Senders, Holding
<1>4. /\ r \in SenderState /\ r.todo = sender[s].todo
      /\ \/ ok /\ r.at = "push" /\ r.cur = x
         \/ ~ok /\ r.at = "row" /\ r.cur = NoPair
  BY <1>2, <1>3 DEF SenderState, Stages
<1>5. log[x] = "none" /\ ~Exempt(x)
  BY <1>1 DEF IInv, Pushes, Decided
<1> HIDE DEF r, ok, x
<1>6. Tables'
  BY <1>1, <1>3 DEF IInv, TypeOK, Tables
<1>7. x = sender[s].cur
  BY DEF x
<1>8. /\ TypeOK' /\ Rows' /\ Holder'
      /\ sender'[s] = r
      /\ \A t \in Sender : t # s => sender'[t] = sender[t]
      /\ \A t \in Sender : t # s /\ sender[t].at \in Holding => sender[t].cur # x
  BY <1>1, <1>4, <1>6, <1>7, HeldMoves
<1>9. \A y \in Pair : log'[y] = IF y # x THEN log[y] ELSE IF ok THEN "SENT" ELSE "SUPPRESSED_CAP"
  BY <1>1 DEF IInv, TypeOK, Tables
<1>10. \A t \in Sender : sender[t].at \in Holding => sender[t].cur \in Pair
  BY DEF IInv, TypeOK, Senders
<1>11. Decided'
  <2>1. \A y \in Pair : Exempt(y) => log'[y] = "none"
    BY <1>5, <1>9 DEF IInv, Pushes, Decided
  <2>2. ASSUME NEW t \in Sender
        PROVE  /\ sender'[t].at \in {"count", "cap"} => ~Exempt(sender'[t].cur)
               /\ sender'[t].at = "cap" => log'[sender'[t].cur] = "none"
               /\ sender'[t].at = "push" /\ ~Exempt(sender'[t].cur) =>
                    log'[sender'[t].cur] = "SENT"
    <3>1. CASE t = s
      BY <1>3, <1>4, <1>8, <1>9, <3>1
    <3>2. CASE t # s
      BY <1>8, <1>9, <1>10, <3>2 DEF IInv, Pushes, Decided, Holding
    <3> QED
      BY <3>1, <3>2
  <2> QED
    BY <2>1, <2>2 DEF Decided, Exempt
<1>12. Once'
  BY <1>1, <1>4, <1>7, <1>8 DEF IInv, Pushes, Once
<1>13. LedgerCoversPushes'
  BY <1>1, <1>5, <1>9 DEF IInv, Pushes, LedgerCoversPushes, Exempt
<1>14. OnePushPerRow'
  BY <1>1 DEF IInv, Pushes, OnePushPerRow
<1> QED
  BY <1>8, <1>11, <1>12, <1>13, <1>14 DEF IInv, Pushes

(* A push that goes out, whatever the sender does next.                    *)
LEMMA PushCounts ==
  ASSUME IInv, NEW s \in Sender, sender[s].at = "push",
         pushed' = [pushed EXCEPT ![sender[s].cur] = @ + 1],
         UNCHANGED <<inbox, log, undone>>, Holder',
         sender'[s].at \notin {"count", "cap", "push"},
         \A t \in Sender : t # s => sender'[t] = sender[t]
  PROVE  Pushes'
<1> DEFINE x == sender[s].cur
<1>1. x \in Pair /\ x \in inbox /\ pushed[x] <= undone[x]
  BY DEF IInv, TypeOK, Senders, Pushes, Holder, Once, Holding
<1>2. \A y \in Pair : /\ pushed[y] \in Nat /\ undone[y] \in Nat
                      /\ pushed'[y] = IF y = x THEN pushed[x] + 1 ELSE pushed[y]
  BY <1>1 DEF IInv, TypeOK, Tables
<1>3. \A t \in Sender : sender'[t].at \in {"count", "cap", "push"} =>
        sender'[t] = sender[t] /\ sender[t].cur \in Pair /\ sender[t].cur # x
  BY DEF IInv, TypeOK, Senders, Pushes, Holder, Holding
<1>4. IF Exempt(x) THEN log[x] = "none" ELSE log[x] = "SENT"
  BY <1>1 DEF IInv, Pushes, Decided
<1> HIDE DEF x
<1>5. Decided'
  BY <1>3 DEF IInv, Pushes, Decided, Exempt
<1>6. Once'
  BY <1>1, <1>2, <1>3 DEF IInv, Pushes, Once
<1>7. OnePushPerRow'
  BY <1>1, <1>2 DEF IInv, Pushes, OnePushPerRow
<1>8. LedgerCoversPushes'
  BY <1>1, <1>2, <1>4 DEF IInv, Pushes, LedgerCoversPushes, Exempt
<1> QED
  BY <1>5, <1>6, <1>7, <1>8 DEF Pushes

LEMMA PushKeeps ==
  ASSUME IInv, NEW s \in Sender, Push(s)
  PROVE  IInv'
<1>1. /\ sender[s].at = "push" /\ Becomes(s, Next1(s))
      /\ pushed' = [pushed EXCEPT ![sender[s].cur] = @ + 1]
      /\ UNCHANGED <<job, asked, notified, saved, inbox, log, undone, faults>>
  BY DEF Push
<1>2. /\ Next1(s) \in SenderState /\ Next1(s).at = "row" /\ Next1(s).cur = NoPair
      /\ Next1(s).todo = sender[s].todo
  BY Moved DEF IInv, TypeOK
<1>3. Tables'
  <2>1. sender[s].cur \in Pair
    BY <1>1 DEF IInv, TypeOK, Senders, Holding
  <2>2. pushed' \in [Pair -> Nat]
    BY <1>1, <2>1 DEF IInv, TypeOK, Tables
  <2> QED
    BY <1>1, <2>2 DEF IInv, TypeOK, Tables
<1>4. /\ TypeOK' /\ Rows' /\ Holder' /\ sender'[s].at = "row"
      /\ \A t \in Sender : t # s => sender'[t] = sender[t]
  BY <1>1, <1>2, <1>3, HeldMoves
<1>5. Pushes'
  BY <1>1, <1>4, PushCounts
<1> QED
  BY <1>4, <1>5 DEF IInv

LEMMA PushLostKeeps ==
  ASSUME IInv, NEW s \in Sender, PushLost(s)
  PROVE  IInv'
<1>1. /\ sender[s].at = "push" /\ Becomes(s, Next1(s)) /\ Fault
      /\ UNCHANGED <<job, asked, notified, saved, inbox, log, pushed, undone>>
  BY DEF PushLost
<1>2. /\ Next1(s) \in SenderState /\ Next1(s).at = "row" /\ Next1(s).cur = NoPair
      /\ Next1(s).todo = sender[s].todo
  BY Moved DEF IInv, TypeOK
<1>3. Tables'
  BY <1>1, ConstantsAssumption DEF Fault, IInv, TypeOK, Tables
<1>4. /\ TypeOK' /\ Rows' /\ sender'[s].at = "row"
      /\ \A t \in Sender : t # s => sender'[t] = sender[t]
  BY <1>1, <1>2, <1>3, HeldMoves
<1>5. Pushes'
  BY <1>1, <1>4, Released DEF IInv, Holding
<1> QED
  BY <1>4, <1>5 DEF IInv

-----------------------------------------------------------------------------
(* What goes wrong.                                                        *)
LEMMA RetryFits ==
  ASSUME Queue,
         job' = [j \in Job |-> IF j \in Active THEN Retry(j) ELSE job[j]]
  PROVE  /\ job' \in [Job -> [at : {"none", "waiting", "active", "failed"}, tries : 0..Attempts]]
         /\ \A j \in Job : job'[j].at # "failed" => job'[j].tries < Attempts
         /\ Active' = {}
         /\ \A j \in Job : job'[j].at = "none" <=> job[j].at = "none"
<1>1. ASSUME NEW j \in Active
      PROVE  /\ j \in Job /\ job[j].at = "active"
             /\ Retry(j) \in [at : {"waiting", "failed"}, tries : 0..Attempts]
             /\ Retry(j).at # "failed" => Retry(j).tries < Attempts
  BY ConstantsAssumption DEF Queue, Active, Retry
<1> QED
  BY <1>1 DEF Queue, Active

(* The consumer gives up the job it works on.                              *)
LEMMA ConsumerStops ==
  ASSUME IInv, Becomes(Worker, Idle), Tables',
         job' = [j \in Job |-> IF j \in Active THEN Retry(j) ELSE job[j]],
         UNCHANGED <<asked, notified, inbox>>
  PROVE  /\ TypeOK' /\ Rows' /\ Holder'
         /\ sender'[Worker].at \notin Holding
         /\ \A t \in Sender : t # Worker => sender'[t] = sender[t]
<1>1. /\ Senders'
      /\ sender'[Worker] = Idle /\ Idle.at = "idle" /\ Idle.at \notin Holding
      /\ \A t \in Sender : t # Worker => sender'[t] = sender[t]
  <2>1. Idle.at \notin Holding
    BY Fixed DEF Holding
  <2> QED
    BY <2>1, Fixed, Resting, Became DEF IInv, TypeOK
<1>2. Queue'
  BY <1>1, RetryFits DEF IInv, TypeOK, Queue
<1>3. Rows'
  <2>1. \A p \in Poller : sender'[p] = sender[p]
    BY <1>1, Fixed
  <2> QED
    BY <2>1, RetryFits, Requeued DEF IInv, TypeOK
<1>4. Holder'
  BY <1>1 DEF IInv, Pushes, Holder
<1> QED
  BY <1>1, <1>2, <1>3, <1>4 DEF TypeOK

LEMMA PushThrowsKeeps ==
  ASSUME IInv, NEW s \in Sender, PushThrows(s)
  PROVE  IInv'
<1>1. /\ sender[s].at = "push" /\ Fault
      /\ pushed' = [pushed EXCEPT ![sender[s].cur] = @ + 1]
      /\ UNCHANGED <<asked, notified, saved, inbox, log, undone>>
  BY DEF PushThrows
<1>2. Tables'
  <2>1. sender[s].cur \in Pair
    BY <1>1 DEF IInv, TypeOK, Senders, Holding
  <2>2. pushed' \in [Pair -> Nat]
    BY <1>1, <2>1 DEF IInv, TypeOK, Tables
  <2>3. faults' \in 0..MaxFaults
    BY <1>1, ConstantsAssumption DEF Fault, IInv, TypeOK, Tables
  <2> QED
    BY <1>1, <2>2, <2>3 DEF IInv, TypeOK, Tables
<1>3. CASE s = Worker
  <2>1. /\ Becomes(Worker, Idle)
        /\ job' = [j \in Job |-> IF j \in Active THEN Retry(j) ELSE job[j]]
    BY <1>3 DEF PushThrows
  <2>2. /\ TypeOK' /\ Rows' /\ Holder' /\ sender'[s].at \notin Holding
        /\ \A t \in Sender : t # s => sender'[t] = sender[t]
    BY <1>1, <1>2, <1>3, <2>1, ConsumerStops
  <2>3. Pushes'
    BY <1>1, <2>2, PushCounts DEF Holding
  <2> QED
    BY <2>2, <2>3 DEF IInv
<1>4. CASE s \in Poller
  <2> DEFINE r == [sender[s] EXCEPT !.at = "undo"]
  <2>1. Becomes(s, r) /\ job' = job
    BY <1>4, Fixed DEF PushThrows, Goes
  <2>2. sender[s] \in SenderState /\ sender[s].cur \in Pair /\ sender[s].at \in Holding
    BY <1>1 DEF IInv, TypeOK, Senders, Holding
  <2>3. r \in SenderState /\ r.at = "undo" /\ r.cur = sender[s].cur /\ r.todo = sender[s].todo
    BY <2>2 DEF SenderState, Stages
  <2> HIDE DEF r
  <2>4. Fits(r)
    BY <2>2, <2>3, Busy DEF Holding
  <2>5. /\ Senders'
        /\ sender'[s] = r
        /\ \A t \in Sender : t # s => sender'[t] = sender[t]
    BY <2>1, <2>4, Became DEF IInv, TypeOK
  <2>6. TypeOK'
    <3>1. Queue'
      BY <1>4, <2>1, <2>4, Fixed, SameQueue DEF IInv, TypeOK
    <3> QED
      BY <1>2, <2>5, <3>1 DEF TypeOK
  <2>7. Rows'
    <3>1. /\ r.todo \subseteq To(Disclosure) /\ r.cur \in To(Disclosure)
      BY <1>4, <2>2, <2>3 DEF IInv, Rows, Pollers
    <3> QED
      BY <1>1, <1>4, <2>1, <2>4, <3>1, PollerMoves DEF IInv
  <2>8. Holder'
    BY <1>1, <2>2, <2>3, <2>5 DEF IInv, Pushes, Holder
  <2>9. Pushes'
    BY <1>1, <2>3, <2>5, <2>8, PushCounts
  <2> QED
    BY <2>6, <2>7, <2>9 DEF IInv
<1> QED
  BY <1>3, <1>4 DEF Sender

LEMMA FailureKeeps ==
  ASSUME IInv, NEW s \in Sender, StatementFails(s)
  PROVE  IInv'
<1>1. /\ Becomes(s, Idle) /\ Fault
      /\ UNCHANGED <<asked, notified, saved, inbox, log, pushed, undone>>
  BY DEF StatementFails
<1>2. Tables'
  BY <1>1, ConstantsAssumption DEF Fault, IInv, TypeOK, Tables
<1>3. CASE s = Worker
  <2>1. /\ Becomes(Worker, Idle)
        /\ job' = [j \in Job |-> IF j \in Active THEN Retry(j) ELSE job[j]]
    BY <1>1, <1>3 DEF StatementFails
  <2>2. /\ TypeOK' /\ Rows' /\ sender'[Worker].at \notin Holding
        /\ \A t \in Sender : t # Worker => sender'[t] = sender[t]
    BY <1>1, <1>2, <2>1, ConsumerStops
  <2>3. Pushes'
    BY <1>1, <2>2, Released DEF IInv
  <2> QED
    BY <2>2, <2>3 DEF IInv
<1>4. CASE s \in Poller
  <2>1. job' = job
    BY <1>4, Fixed DEF StatementFails
  <2>2. Idle.at \notin Holding
    BY Fixed DEF Holding
  <2> QED
    BY <1>1, <1>2, <1>4, <2>1, <2>2, Fixed, PollerRests
<1> QED
  BY <1>3, <1>4 DEF Sender

LEMMA CrashKeeps ==
  ASSUME IInv, Crash
  PROVE  IInv'
<1>1. /\ Fault /\ sender' = [s \in Sender |-> Idle]
      /\ UNCHANGED <<asked, notified, saved, inbox, log, pushed, undone>>
      /\ job' = [j \in Job |->
           IF j \in Active THEN [at |-> "waiting", tries |-> job[j].tries] ELSE job[j]]
  BY DEF Crash
<1>2. Idle.at = "idle" /\ Idle.at \notin Holding
  BY Fixed DEF Holding
<1>3. /\ job' \in [Job -> [at : {"none", "waiting", "active", "failed"}, tries : 0..Attempts]]
      /\ \A j \in Job : job'[j].at # "failed" => job'[j].tries < Attempts
      /\ Active' = {}
      /\ \A j \in Job : job'[j].at = "none" <=> job[j].at = "none"
  BY <1>1 DEF IInv, TypeOK, Queue, Active
<1>4. TypeOK'
  <2>1. Tables'
    BY <1>1, ConstantsAssumption DEF Fault, IInv, TypeOK, Tables
  <2>2. Queue'
    BY <1>1, <1>2, <1>3, Fixed DEF Queue
  <2>3. Senders'
    BY <1>1, <1>2, Fixed DEF Senders
  <2> QED
    BY <2>1, <2>2, <2>3 DEF TypeOK
<1>5. Rows'
  BY <1>1, <1>3, Fixed, Requeued DEF IInv
<1>6. Pushes'
  BY <1>1, <1>2, Released DEF IInv
<1> QED
  BY <1>4, <1>5, <1>6 DEF IInv

-----------------------------------------------------------------------------
LEMMA Start ==
  ASSUME Init
  PROVE  IInv
<1>1. \A s \in Sender : sender[s] = Idle /\ sender[s].at \notin Holding
  BY Fixed DEF Init, Holding
<1>2. Active = {} /\ asked = {} /\ notified = {}
  BY DEF Init, Active
<1>3. TypeOK
  <2>1. Tables
    BY ConstantsAssumption DEF Init, Tables
  <2>2. Queue
    BY <1>1, <1>2, Fixed, ConstantsAssumption DEF Init, Queue
  <2>3. Senders
    BY <1>1, Fixed DEF Init, Senders
  <2> QED
    BY <2>1, <2>2, <2>3 DEF TypeOK
<1>4. Rows
  <2>1. Pollers
    BY <1>1, Fixed DEF Pollers
  <2>2. Progress
    BY <1>2 DEF Init, Progress
  <2>3. CompletedReachesAll
    BY <1>2 DEF CompletedReachesAll
  <2> QED
    BY <2>1, <2>2, <2>3 DEF Rows
<1>5. Pushes
  BY <1>1, Fixed DEF Init, Pushes, Holder, Decided, Once, OnePushPerRow, LedgerCoversPushes, Holding
<1> QED
  BY <1>3, <1>4, <1>5 DEF IInv

LEMMA StepKeeps ==
  ASSUME IInv, [Next]_vars
  PROVE  IInv'
<1>1. CASE UNCHANGED vars
  <2>1. UNCHANGED <<job, asked, notified, saved, inbox, log, pushed, undone, sender, faults>>
    BY <1>1 DEF vars
  <2>2. TypeOK'
    BY <2>1 DEF IInv, TypeOK, Tables, Queue, Senders, Active
  <2>3. Rows'
    BY <2>1 DEF IInv, Rows, Pollers, Progress, CompletedReachesAll, Active
  <2>4. Pushes'
    BY <2>1, Released DEF IInv
  <2> QED
    BY <2>2, <2>3, <2>4 DEF IInv
<1>2. ASSUME NEW j \in Job, JobStep(j)
      PROVE  IInv'
  BY <1>2, PublishKeeps, TakeKeeps, GuardKeeps, MarkKeeps, CompleteKeeps DEF JobStep
<1>3. ASSUME NEW p \in Poller, PollStep(p)
      PROVE  IInv'
  BY <1>3, FetchKeeps, SaveKeeps, FinishPollKeeps, UndoKeeps DEF PollStep
<1>4. ASSUME NEW s \in Sender, PushStep(s)
      PROVE  IInv'
  BY <1>4, RowKeeps, CountKeeps, DecideKeeps, PushKeeps, PushLostKeeps, PushThrowsKeeps,
     FailureKeeps DEF PushStep
<1> QED
  BY <1>1, <1>2, <1>3, <1>4, CrashKeeps, NextIsStep

(* The state is always what the tables, the queue and the three senders of *)
(* the code can hold; one job is worked on at a time.                      *)
THEOREM TypeCorrect == Spec => []TypeOK
<1>1. IInv => TypeOK
  BY DEF IInv
<1> QED
  BY <1>1, Start, StepKeeps, PTL DEF Spec

(* No user gets a push of the same notification twice for one inbox row,   *)
(* whichever senders meet and whatever fails (notify.consumer.ts:549).     *)
THEOREM NeverPushedTwice == Spec => []OnePushPerRow
<1>1. IInv => OnePushPerRow
  BY DEF IInv, Pushes
<1> QED
  BY <1>1, Start, StepKeeps, PTL DEF Spec

(* The ledger the daily cap is counted from misses no push that counts.    *)
THEOREM LedgerMissesNoPush == Spec => []LedgerCoversPushes
<1>1. IInv => LedgerCoversPushes
  BY DEF IInv, Pushes
<1> QED
  BY <1>1, Start, StepKeeps, PTL DEF Spec

(* A job is completed, and a signal marked, only when every recipient has  *)
(* a row in the inbox (notify.consumer.ts:347).                            *)
THEOREM CompletedReachedAll == Spec => []CompletedReachesAll
<1>1. IInv => CompletedReachesAll
  BY DEF IInv, Rows
<1> QED
  BY <1>1, Start, StepKeeps, PTL DEF Spec

-----------------------------------------------------------------------------
(* The cap.  A sender that has counted a user below the cap may still turn *)
(* its count into a push: those in the window are what the cap is exceeded *)
(* by.  A decision moves one of them from the window into the ledger, and  *)
(* nobody enters the window while the ledger is full.                      *)
Ledger(u) == {x \in Pair : x[1] = u /\ log[x] = "SENT"}
Window(u) ==
  {s \in Sender : sender[s].at = "cap" /\ sender[s].cur[1] = u /\ sender[s].sent < Cap}
CapInv ==
  \A u \in User : /\ Cap = 0 => Ledger(u) = {}
                  /\ SentTo(u) + Cardinality(Window(u)) <= Cap + Cardinality(Poller)

(* The senders are finitely many, one more than the pollers.               *)
LEMMA SendersCounted ==
  IsFiniteSet(Sender) /\ Cardinality(Sender) = Cardinality(Poller) + 1
BY ConstantsAssumption, FS_AddElement DEF Sender

LEMMA WindowCounted ==
  ASSUME NEW u
  PROVE  /\ IsFiniteSet(Window(u)) /\ Cardinality(Window(u)) \in Nat
         /\ Cardinality(Window(u)) <= Cardinality(Poller) + 1
<1>1. Window(u) \subseteq Sender
  BY DEF Window
<1> QED
  BY <1>1, SendersCounted, FS_Subset, FS_CardinalityType

LEMMA LedgerCounted ==
  ASSUME NEW u
  PROVE  /\ IsFiniteSet(Ledger(u)) /\ Cardinality(Ledger(u)) \in Nat
         /\ SentTo(u) = Cardinality(Ledger(u))
<1>1. IsFiniteSet(User \X Ref)
  BY ConstantsAssumption, FS_Product
<1>2. Ledger(u) \subseteq User \X Ref
  BY DEF Ledger, Pair
<1>3. IsFiniteSet(Ledger(u))
  BY <1>1, <1>2, FS_Subset
<1> QED
  BY <1>3, FS_CardinalityType DEF SentTo, Ledger

LEMMA PollersCounted ==
  Cap \in Nat /\ Cardinality(Poller) \in Nat
BY ConstantsAssumption, FS_CardinalityType

(* A step in which nobody decides and nobody enters the window.            *)
LEMMA CapUntouched ==
  ASSUME CapInv, log' = log,
         \A s \in Sender : sender'[s].at = "cap" => sender'[s] = sender[s]
  PROVE  CapInv'
<1> SUFFICES ASSUME NEW u \in User
             PROVE  /\ Cap = 0 => Ledger(u)' = {}
                    /\ SentTo(u)' + Cardinality(Window(u)') <= Cap + Cardinality(Poller)
  BY DEF CapInv
<1>1. Ledger(u)' = Ledger(u) /\ SentTo(u)' = SentTo(u)
  BY DEF Ledger, SentTo
<1>2. Window(u)' \subseteq Window(u)
  BY DEF Window
<1>3. Cardinality(Window(u)') <= Cardinality(Window(u)) /\ Cardinality(Window(u)') \in Nat
  BY <1>2, WindowCounted, FS_Subset, FS_CardinalityType
<1> QED
  BY <1>1, <1>3, WindowCounted, LedgerCounted, PollersCounted DEF CapInv

LEMMA CapOneMoves ==
  ASSUME CapInv, Senders, log' = log, NEW s \in Sender, NEW r, r.at # "cap", Becomes(s, r)
  PROVE  CapInv'
<1>1. \A t \in Sender : sender'[t] = IF t = s THEN r ELSE sender[t]
  BY DEF Senders, Becomes
<1> QED
  BY <1>1, CapUntouched

LEMMA CapCount ==
  ASSUME IInv, CapInv, NEW s \in Sender, Count(s)
  PROVE  CapInv'
<1> DEFINE x == sender[s].cur
<1>1. Senders /\ sender[s].at = "count" /\ log' = log
  BY DEF IInv, TypeOK, Count
<1>2. sender[s] \in SenderState /\ x \in Pair /\ log[x] \in {"none", "SENT", "SUPPRESSED_CAP"}
  BY <1>1 DEF IInv, TypeOK, Senders, Tables, Holding
<1>3. CASE log[x] = "SENT"
  <2>1. Becomes(s, [sender[s] EXCEPT !.at = "push"])
    BY <1>3 DEF Count
  <2>2. [sender[s] EXCEPT !.at = "push"].at # "cap"
    BY <1>2 DEF SenderState
  <2> QED
    BY <1>1, <2>1, <2>2, CapOneMoves
<1>4. CASE log[x] = "SUPPRESSED_CAP"
  <2>1. Becomes(s, Next1(s))
    BY <1>4 DEF Count
  <2> QED
    BY <1>1, <2>1, Moved, CapOneMoves
<1>5. CASE log[x] = "none"
  <2> DEFINE r == [sender[s] EXCEPT !.at = "cap", !.sent = SentTo(x[1])]
  <2>1. Becomes(s, r)
    BY <1>5 DEF Count
  <2>2. r.cur = x /\ r.sent = SentTo(x[1])
    BY <1>2 DEF SenderState
  <2>3. \A t \in Sender : sender'[t] = IF t = s THEN r ELSE sender[t]
    BY <1>1, <2>1 DEF Senders, Becomes
  <2> HIDE DEF r
  <2> SUFFICES ASSUME NEW u \in User
               PROVE  /\ Cap = 0 => Ledger(u)' = {}
                      /\ SentTo(u)' + Cardinality(Window(u)') <= Cap + Cardinality(Poller)
    BY DEF CapInv
  <2>4. Ledger(u)' = Ledger(u) /\ SentTo(u)' = SentTo(u)
    BY <1>1 DEF Ledger, SentTo
  <2>5. CASE x[1] = u /\ SentTo(u) < Cap
    <3>1. Window(u)' \subseteq Sender
      BY DEF Window
    <3>2. /\ Cardinality(Window(u)') \in Nat
          /\ Cardinality(Window(u)') <= Cardinality(Poller) + 1
      BY <3>1, SendersCounted, FS_Subset, FS_CardinalityType
    <3> QED
      BY <2>4, <2>5, <3>2, LedgerCounted, PollersCounted DEF CapInv
  <2>6. CASE ~(x[1] = u /\ SentTo(u) < Cap)
    <3>1. Window(u)' \subseteq Window(u)
      BY <2>2, <2>3, <2>6 DEF Window
    <3>2. Cardinality(Window(u)') <= Cardinality(Window(u)) /\ Cardinality(Window(u)') \in Nat
      BY <3>1, WindowCounted, FS_Subset, FS_CardinalityType
    <3> QED
      BY <2>4, <3>2, WindowCounted, LedgerCounted, PollersCounted DEF CapInv
  <2> QED
    BY <2>5, <2>6
<1> QED
  BY <1>2, <1>3, <1>4, <1>5

LEMMA CapDecide ==
  ASSUME IInv, CapInv, NEW s \in Sender, DecideRow(s)
  PROVE  CapInv'
<1> DEFINE x == sender[s].cur
<1> DEFINE ok == sender[s].sent < Cap
<1> DEFINE r == IF ok THEN [sender[s] EXCEPT !.at = "push", !.sent = 0] ELSE Next1(s)
<1>1. /\ Senders /\ sender[s].at = "cap" /\ Becomes(s, r)
      /\ log' = [log EXCEPT ![x] = IF ok THEN "SENT" ELSE "SUPPRESSED_CAP"]
  BY DEF DecideRow, Decide, IInv, TypeOK
<1>2. sender[s] \in SenderState /\ x \in Pair /\ sender[s].sent \in Nat
  BY <1>1 DEF Senders, Holding, SenderState
<1>3. r.at # "cap"
  BY <1>1, <1>2, Moved DEF SenderState
<1>4. \A t \in Sender : sender'[t] = IF t = s THEN r ELSE sender[t]
  BY <1>1 DEF Senders, Becomes
<1>5. \A y \in Pair : log'[y] = IF y # x THEN log[y] ELSE IF ok THEN "SENT" ELSE "SUPPRESSED_CAP"
  BY <1>1 DEF IInv, TypeOK, Tables
<1>6. x = sender[s].cur
  OBVIOUS
<1>7. ok <=> sender[s].sent < Cap
  OBVIOUS
<1> HIDE DEF r, ok, x
<1> SUFFICES ASSUME NEW u \in User
             PROVE  /\ Cap = 0 => Ledger(u)' = {}
                    /\ SentTo(u)' + Cardinality(Window(u)') <= Cap + Cardinality(Poller)
  BY DEF CapInv
<1>8. Window(u)' = Window(u) \ {s}
  BY <1>3, <1>4 DEF Window
<1>9. SentTo(u)' = Cardinality(Ledger(u)')
  BY DEF SentTo, Ledger
<1>10. CASE ok /\ x[1] = u
  <2>1. s \in Window(u) /\ Cap # 0
    BY <1>1, <1>2, <1>6, <1>7, <1>10, PollersCounted DEF Window
  <2>2. Cardinality(Window(u)') = Cardinality(Window(u)) - 1
    BY <1>8, <2>1, WindowCounted, FS_RemoveElement
  <2>3. Ledger(u)' \subseteq Ledger(u) \cup {x}
    BY <1>5 DEF Ledger
  <2>4. /\ IsFiniteSet(Ledger(u) \cup {x})
        /\ Cardinality(Ledger(u) \cup {x}) <= Cardinality(Ledger(u)) + 1
        /\ Cardinality(Ledger(u) \cup {x}) \in Nat
    <3>1. IsFiniteSet(Ledger(u)) /\ Cardinality(Ledger(u)) \in Nat
      BY LedgerCounted
    <3>2. /\ IsFiniteSet(Ledger(u) \cup {x})
          /\ Cardinality(Ledger(u) \cup {x}) = IF x \in Ledger(u) THEN Cardinality(Ledger(u))
                                                ELSE Cardinality(Ledger(u)) + 1
      BY <3>1, FS_AddElement
    <3> QED
      BY <3>1, <3>2
  <2>5. /\ Cardinality(Ledger(u)') <= Cardinality(Ledger(u) \cup {x})
        /\ Cardinality(Ledger(u)') \in Nat
    BY <2>3, <2>4, FS_Subset, FS_CardinalityType
  <2> QED
    BY <1>9, <2>1, <2>2, <2>4, <2>5, WindowCounted, LedgerCounted, PollersCounted DEF CapInv
<1>11. CASE ~(ok /\ x[1] = u)
  <2>1. Ledger(u)' \subseteq Ledger(u)
    BY <1>5, <1>11 DEF Ledger
  <2>2. Window(u)' \subseteq Window(u)
    BY <1>8
  <2>3. Cardinality(Ledger(u)') <= Cardinality(Ledger(u)) /\ Cardinality(Ledger(u)') \in Nat
    BY <2>1, LedgerCounted, FS_Subset, FS_CardinalityType
  <2>4. Cardinality(Window(u)') <= Cardinality(Window(u)) /\ Cardinality(Window(u)') \in Nat
    BY <2>2, WindowCounted, FS_Subset, FS_CardinalityType
  <2> QED
    BY <1>9, <2>1, <2>3, <2>4, WindowCounted, LedgerCounted, PollersCounted DEF CapInv
<1> QED
  BY <1>10, <1>11

(* Every other step: who moves does not move to the cap.                   *)
LEMMA CapElsewhere ==
  ASSUME IInv, CapInv, NEW s \in Sender,
         \/ Row(s) \/ Push(s) \/ PushLost(s) \/ PushThrows(s) \/ StatementFails(s)
  PROVE  CapInv'
<1>1. Senders /\ sender[s] \in SenderState /\ Idle.at # "cap" /\ Next1(s).at # "cap"
  BY Fixed, Moved DEF IInv, TypeOK, Senders
<1>2. CASE Row(s)
  <2>1. PICK x \in sender[s].todo :
          Becomes(s, IF x \in inbox \/ x[1] \notin Reach[x[2]] THEN Served(s, x)
                     ELSE [Served(s, x) EXCEPT !.cur = x,
                             !.at = IF Exempt(x) THEN "push" ELSE "count"])
    BY <1>2 DEF Row
  <2>2. Served(s, x) \in SenderState /\ Served(s, x).at = "row"
    BY <1>1, Moved
  <2>3. [Served(s, x) EXCEPT !.cur = x,
           !.at = IF Exempt(x) THEN "push" ELSE "count"].at # "cap"
    BY <2>2 DEF SenderState
  <2> QED
    BY <1>1, <1>2, <2>1, <2>2, <2>3, CapOneMoves DEF Row
<1>3. CASE Push(s) \/ PushLost(s)
  BY <1>1, <1>3, CapOneMoves DEF Push, PushLost
<1>4. CASE PushThrows(s)
  <2>1. [sender[s] EXCEPT !.at = "undo"].at # "cap"
    BY <1>1 DEF SenderState
  <2> QED
    BY <1>1, <1>4, <2>1, CapOneMoves DEF PushThrows, Goes
<1>5. CASE StatementFails(s)
  BY <1>1, <1>5, CapOneMoves DEF StatementFails
<1> QED
  BY <1>2, <1>3, <1>4, <1>5

LEMMA CapJobStep ==
  ASSUME IInv, CapInv, NEW j \in Job, JobStep(j)
  PROVE  CapInv'
<1>1. Senders /\ Worker \in Sender /\ Idle.at # "cap" /\ log' = log
  BY Fixed DEF IInv, TypeOK, JobStep, Publish, Take, Guard, Mark, Complete
<1>2. /\ [Idle EXCEPT !.at = "guard"].at # "cap" /\ [Idle EXCEPT !.at = "done"].at # "cap"
      /\ [Idle EXCEPT !.at = "row", !.todo = To({j})].at # "cap"
  BY DEF Idle
<1>3. CASE Publish(j)
  BY <1>1, <1>3, CapUntouched DEF Publish
<1>4. CASE Take(j) \/ Guard(j) \/ Mark(j) \/ Complete(j)
  <2>1. PICK r : r.at # "cap" /\ Becomes(Worker, r)
    BY <1>1, <1>2, <1>4 DEF Take, Guard, Mark, Complete
  <2> QED
    BY <1>1, <2>1, CapOneMoves
<1> QED
  BY <1>3, <1>4 DEF JobStep

LEMMA CapPollStep ==
  ASSUME IInv, CapInv, NEW p \in Poller, PollStep(p)
  PROVE  CapInv'
<1>1. /\ Senders /\ p \in Sender /\ Idle.at # "cap" /\ Next1(p).at # "cap"
      /\ log' = log
  BY Fixed, Moved DEF IInv, TypeOK, PollStep, Fetch, Save, FinishPoll, Undo
<1>2. /\ \A new : [Idle EXCEPT !.at = "save", !.found = new].at # "cap"
      /\ [Idle EXCEPT !.at = "row", !.todo = To(sender[p].found)].at # "cap"
  BY DEF Idle
<1>3. PICK r : r.at # "cap" /\ Becomes(p, r)
  BY <1>1, <1>2 DEF PollStep, Fetch, Save, FinishPoll, Undo
<1> QED
  BY <1>1, <1>3, CapOneMoves

LEMMA CapStart ==
  ASSUME Init
  PROVE  CapInv
<1> SUFFICES ASSUME NEW u \in User
             PROVE  /\ Cap = 0 => Ledger(u) = {}
                    /\ SentTo(u) + Cardinality(Window(u)) <= Cap + Cardinality(Poller)
  BY DEF CapInv
<1>1. Ledger(u) = {} /\ Window(u) = {}
  BY Fixed DEF Init, Ledger, Window
<1>2. SentTo(u) = 0 /\ Cardinality(Window(u)) = 0
  BY <1>1, LedgerCounted, FS_EmptySet
<1> QED
  BY <1>1, <1>2, PollersCounted

LEMMA CapKeeps ==
  ASSUME IInv, CapInv, [Next]_vars
  PROVE  CapInv'
<1>1. CASE UNCHANGED vars
  BY <1>1, CapUntouched DEF vars
<1>2. ASSUME NEW j \in Job, JobStep(j)
      PROVE  CapInv'
  BY <1>2, CapJobStep
<1>3. ASSUME NEW p \in Poller, PollStep(p)
      PROVE  CapInv'
  BY <1>3, CapPollStep
<1>4. ASSUME NEW s \in Sender, PushStep(s)
      PROVE  CapInv'
  BY <1>4, CapCount, CapDecide, CapElsewhere DEF PushStep
<1>5. ASSUME Crash
      PROVE  CapInv'
  <2>1. log' = log /\ \A s \in Sender : sender'[s] = Idle
    BY <1>5 DEF Crash
  <2> QED
    BY <2>1, Fixed, CapUntouched
<1> QED
  BY <1>1, <1>2, <1>3, <1>4, <1>5, NextIsStep

(* However the senders interleave, whatever fails and is tried again, the  *)
(* pushes counted for a user exceed the cap by at most one for each other  *)
(* sender; with a cap of zero there are none (push-cap.service.ts:71-74).  *)
THEOREM CapAlwaysBounded == Spec => []CapBounded
<1>1. CapInv => CapBounded
  <2> SUFFICES ASSUME CapInv, NEW u \in User
               PROVE  SentTo(u) <= IF Cap = 0 THEN 0 ELSE Cap + Cardinality(Poller)
    BY DEF CapBounded
  <2>1. CASE Cap = 0
    BY <2>1, LedgerCounted, FS_EmptySet DEF CapInv
  <2>2. CASE Cap # 0
    <3>1. SentTo(u) + Cardinality(Window(u)) <= Cap + Cardinality(Poller)
      BY DEF CapInv
    <3>2. SentTo(u) <= Cap + Cardinality(Poller)
      BY <3>1, LedgerCounted, WindowCounted, PollersCounted
    <3> QED
      BY <2>2, <3>2
  <2> QED
    BY <2>1, <2>2
<1>2. Init => IInv /\ CapInv
  BY Start, CapStart
<1>3. IInv /\ CapInv /\ [Next]_vars => (IInv /\ CapInv)'
  BY StepKeeps, CapKeeps
<1> QED
  BY <1>1, <1>2, <1>3, PTL DEF Spec

=============================================================================
