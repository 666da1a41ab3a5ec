---------------------------- MODULE NotifyPipeline ----------------------------
(***************************************************************************)
(* How a notification reaches a user.  Three senders share one inbox       *)
(* (NotificationHistory), one push ledger (PushDeliveryLog) and one daily  *)
(* cap: the consumer of the NOTIFY queue (notifications/notify.consumer),  *)
(* and the two disclosure pollers (engine1-disclosure/scheduler), which    *)
(* save the filings they find new and notify their watchers themselves.    *)
(*                                                                         *)
(* A pair <<user, ref>> stands for the key (userId, type, refId) of both   *)
(* tables.  One day passes: the cap is not reset.                          *)
(*                                                                         *)
(* Left out: the text of a notification, device tokens and receipts, the   *)
(* parsing queue, back-fill scans (they notify nobody), and changes of     *)
(* watch lists and settings while a notification is under way.             *)
(***************************************************************************)
EXTENDS Naturals, FiniteSets

CONSTANTS
  User, Signal, Disclosure,
  Alert,       \* OPS_ALERT and RISK_ALERT jobs, which the cap does not touch
  Poller,      \* the delta poll and the full scan
  Worker,      \* the consumer; it takes one job at a time
  Audience,    \* [Ref -> SUBSET User]: who gets an inbox row
  Reach,       \* [Ref -> SUBSET User]: who of them takes pushes on a device
  Cap,         \* pushes a day of a user
  Attempts,    \* attempts of a job
  NoPair,
  MaxFaults    \* bound: failed statements, failed sends and crashes

Job == Signal \cup Alert
Ref == Job \cup Disclosure
Sender == Poller \cup {Worker}
Pair == {x \in User \X Ref : x[1] \in Audience[x[2]]}
To(refs) == {x \in Pair : x[2] \in refs}

ASSUME ConstantsAssumption ==
  /\ IsFiniteSet(User) /\ IsFiniteSet(Ref) /\ IsFiniteSet(Poller)
  /\ Signal \cap Alert = {} /\ Job \cap Disclosure = {} /\ Worker \notin Poller
  /\ Audience \in [Ref -> SUBSET User] /\ Reach \in [Ref -> SUBSET User]
  /\ Cap \in Nat /\ Attempts \in Nat \ {0} /\ MaxFaults \in Nat
  /\ NoPair \notin Pair

VARIABLES
  job,       \* the NOTIFY queue: [at, tries] of each job id
  asked,     \* jobs the queue has accepted
  notified,  \* signals with isNotified
  saved,     \* rows of Disclosure
  inbox,     \* rows of NotificationHistory
  log,       \* PushDeliveryLog: what was decided for a pair, if anything
  pushed,    \* how often a pair's push reached the devices
  undone,    \* how often a pair's row was deleted again
  sender,    \* [at, found, todo, cur, sent] of each sender
  faults

vars == <<job, asked, notified, saved, inbox, log, pushed, undone, sender, faults>>

Idle == [at |-> "idle", found |-> {}, todo |-> {}, cur |-> NoPair, sent |-> 0]
Stages == {"idle", "save", "guard", "row", "count", "cap", "push", "undo", "done"}

Init ==
  /\ job = [j \in Job |-> [at |-> "none", tries |-> 0]] /\ asked = {}
  /\ notified = {} /\ saved = {} /\ inbox = {}
  /\ log = [x \in Pair |-> "none"]
  /\ pushed = [x \in Pair |-> 0] /\ undone = [x \in Pair |-> 0]
  /\ sender = [s \in Sender |-> Idle] /\ faults = 0

Becomes(s, r) == sender' = [sender EXCEPT ![s] = r]
Goes(s, at) == Becomes(s, [sender[s] EXCEPT !.at = at])
(* To the next pair.                                                       *)
Next1(s) == [sender[s] EXCEPT !.at = "row", !.cur = NoPair, !.sent = 0]
Exempt(x) == x[2] \in Alert
Active == {j \in Job : job[j].at = "active"}
Fault == faults < MaxFaults /\ faults' = faults + 1

-----------------------------------------------------------------------------
(* The queue.                                                              *)

(* NotificationProducer.enqueue: an id that is in the queue in any state,  *)
(* failed and retained too, is ignored; a failed add is only logged.       *)
Publish(j) ==
  /\ job[j].at = "none"
  /\ job' = [job EXCEPT ![j] = [at |-> "waiting", tries |-> 0]]
  /\ asked' = asked \cup {j}
  /\ UNCHANGED <<notified, saved, inbox, log, pushed, undone, sender, faults>>

Take(j) ==
  /\ sender[Worker].at = "idle" /\ job[j].at = "waiting"
  /\ job' = [job EXCEPT ![j] = [at |-> "active", tries |-> job[j].tries]]
  /\ Becomes(Worker, [Idle EXCEPT !.at = "guard"])
  /\ UNCHANGED <<asked, notified, saved, inbox, log, pushed, undone, faults>>

(* slip: the handler swallows the error and the job completes.             *)
Swallowed(j) == [at |-> "none", tries |-> 0]

(* The attempt of the active job fails.                                    *)
Retry(j) == [at |-> IF job[j].tries + 1 < Attempts THEN "waiting" ELSE "failed",
             tries |-> job[j].tries + 1]

(* handleSignal returns at once when the signal is notified; otherwise it  *)
(* reads the watchers, handleOpsAlert the users and their settings.        *)
Guard(j) ==
  /\ sender[Worker].at = "guard" /\ j \in Active
  /\ Becomes(Worker, IF j \in notified THEN [Idle EXCEPT !.at = "done"]
                     ELSE [Idle EXCEPT !.at = "row", !.todo = To({j})])
  /\ UNCHANGED <<job, asked, notified, saved, inbox, log, pushed, undone, faults>>

(* slip: the signal is marked before its watchers are served.              *)
MarkEarly(j) ==
  /\ sender[Worker].at = "row" /\ sender[Worker].cur = NoPair /\ j \in Active
  /\ notified' = notified \cup ({j} \cap Signal)
  /\ Becomes(Worker, [Idle EXCEPT !.at = "done"])
  /\ UNCHANGED <<job, asked, saved, inbox, log, pushed, undone, faults>>

(* After the last recipient a signal is marked.                            *)
Mark(j) ==
  /\ sender[Worker].at = "row" /\ sender[Worker].todo = {} /\ j \in Active
  /\ notified' = notified \cup ({j} \cap Signal)
  /\ Becomes(Worker, [Idle EXCEPT !.at = "done"])
  /\ UNCHANGED <<job, asked, saved, inbox, log, pushed, undone, faults>>

(* A completed job is removed, and its id is free again.                   *)
Complete(j) ==
  /\ sender[Worker].at = "done" /\ j \in Active
  /\ job' = [job EXCEPT ![j] = [at |-> "none", tries |-> 0]]
  /\ Becomes(Worker, Idle)
  /\ UNCHANGED <<asked, notified, saved, inbox, log, pushed, undone, faults>>

-----------------------------------------------------------------------------
(* The pollers.                                                            *)

(* filterNewDisclosures: of what is listed, what has no row yet.  A lock   *)
(* of its own keeps each poller from overlapping itself, not the other.    *)
Fetch(p) ==
  /\ sender[p].at = "idle"
  /\ \E new \in SUBSET (Disclosure \ saved) \ {{}} :
       Becomes(p, [Idle EXCEPT !.at = "save", !.found = new])
  /\ UNCHANGED <<job, asked, notified, saved, inbox, log, pushed, undone, faults>>

(* saveDisclosures skips duplicates; matchAndNotify then goes through all  *)
(* that was found new, whoever saved it.                                   *)
Save(p) ==
  /\ sender[p].at = "save"
  /\ saved' = saved \cup sender[p].found
  /\ Becomes(p, [Idle EXCEPT !.at = "row", !.todo = To(sender[p].found)])
  /\ UNCHANGED <<job, asked, notified, inbox, log, pushed, undone, faults>>

FinishPoll(p) ==
  /\ sender[p].at = "row" /\ sender[p].todo = {}
  /\ Becomes(p, Idle)
  /\ UNCHANGED <<job, asked, notified, saved, inbox, log, pushed, undone, faults>>

-----------------------------------------------------------------------------
(* One recipient.                                                          *)

Served(s, x) == [Next1(s) EXCEPT !.todo = @ \ {x}]

(* slip: the push does not depend on who created the row.                  *)
RowIgnored(s) ==
  /\ sender[s].at = "row"
  /\ \E x \in sender[s].todo :
       /\ inbox' = inbox \cup {x}
       /\ Becomes(s, IF x[1] \notin Reach[x[2]] THEN Served(s, x)
                     ELSE [Served(s, x) EXCEPT !.cur = x,
                             !.at = IF Exempt(x) THEN "push" ELSE "count"])
  /\ UNCHANGED <<job, asked, notified, saved, log, pushed, undone, faults>>

(* slip: a poller pushes without asking for the cap.                       *)
RowUncapped(s) ==
  /\ sender[s].at = "row"
  /\ \E x \in sender[s].todo :
       /\ inbox' = inbox \cup {x}
       /\ Becomes(s, IF x \in inbox \/ x[1] \notin Reach[x[2]] THEN Served(s, x)
                     ELSE [Served(s, x) EXCEPT !.cur = x,
                             !.at = IF s = Worker /\ ~Exempt(x) THEN "count" ELSE "push"])
  /\ UNCHANGED <<job, asked, notified, saved, log, pushed, undone, faults>>

(* createNotificationIfAbsent: one row for a key, whoever comes first; the *)
(* others skip the push.  Only who created the row goes on to push.        *)
Row(s) ==
  /\ sender[s].at = "row"
  /\ \E x \in sender[s].todo :
       /\ inbox' = inbox \cup {x}
       /\ Becomes(s, IF x \in inbox \/ x[1] \notin Reach[x[2]] THEN Served(s, x)
                     ELSE [Served(s, x) EXCEPT !.cur = x,
                             !.at = IF Exempt(x) THEN "push" ELSE "count"])
  /\ UNCHANGED <<job, asked, notified, saved, log, pushed, undone, faults>>

SentTo(u) == Cardinality({x \in Pair : x[1] = u /\ log[x] = "SENT"})

(* PushCapService.consume, first half: an earlier decision is used again,  *)
(* otherwise the pushes of the day are counted.                            *)
Count(s) ==
  /\ sender[s].at = "count"
  /\ LET x == sender[s].cur IN
     Becomes(s, CASE log[x] = "SENT" -> [sender[s] EXCEPT !.at = "push"]
                  [] log[x] = "SUPPRESSED_CAP" -> Next1(s)
                  [] OTHER -> [sender[s] EXCEPT !.at = "cap", !.sent = SentTo(x[1])])
  /\ UNCHANGED <<job, asked, notified, saved, inbox, log, pushed, undone, faults>>

Decide(s, ok) ==
  /\ sender[s].at = "cap"
  /\ log' = [log EXCEPT ![sender[s].cur] = IF ok THEN "SENT" ELSE "SUPPRESSED_CAP"]
  /\ Becomes(s, IF ok THEN [sender[s] EXCEPT !.at = "push", !.sent = 0] ELSE Next1(s))
  /\ UNCHANGED <<job, asked, notified, saved, inbox, pushed, undone, faults>>

(* slip: the cap is reached one push late.                                 *)
DecideLate(s) == Decide(s, sender[s].sent <= Cap)

(* consume, second half: the row of the decision.                          *)
DecideRow(s) == Decide(s, sender[s].sent < Cap)

(* sendPushNotifications hands the messages to Expo.                       *)
Push(s) ==
  /\ sender[s].at = "push"
  /\ LET x == sender[s].cur IN pushed' = [pushed EXCEPT ![x] = @ + 1]
  /\ Becomes(s, Next1(s))
  /\ UNCHANGED <<job, asked, notified, saved, inbox, log, undone, faults>>

-----------------------------------------------------------------------------
(* What goes wrong.                                                        *)

(* A chunk that Expo refuses or the network loses is only logged.          *)
PushLost(s) ==
  /\ sender[s].at = "push" /\ Fault
  /\ Becomes(s, Next1(s))
  /\ UNCHANGED <<job, asked, notified, saved, inbox, log, pushed, undone>>

(* The push is out, and deleting a dead device then fails: a poller takes  *)
(* the inbox row back, the consumer's job fails.                           *)
PushThrows(s) ==
  /\ sender[s].at = "push" /\ Fault
  /\ LET x == sender[s].cur IN pushed' = [pushed EXCEPT ![x] = @ + 1]
  /\ IF s = Worker
     THEN /\ Becomes(s, Idle)
          /\ job' = [j \in Job |-> IF j \in Active THEN Retry(j) ELSE job[j]]
     ELSE Goes(s, "undo") /\ UNCHANGED job
  /\ UNCHANGED <<asked, notified, saved, inbox, log, undone>>

(* rollbackNotification, then the next recipient.                          *)
Undo(p) ==
  /\ sender[p].at = "undo"
  /\ LET x == sender[p].cur IN
     inbox' = inbox \ {x} /\ undone' = [undone EXCEPT ![x] = @ + 1]
  /\ Becomes(p, Next1(p))
  /\ UNCHANGED <<job, asked, notified, saved, log, pushed, faults>>

(* A statement fails.  The job is tried again; a poller logs the error and *)
(* ends, before or after it has saved.                                     *)
StatementFails(s) ==
  /\ sender[s].at \notin {"idle", "push"} /\ Fault
  /\ Becomes(s, Idle)
  /\ job' = IF s # Worker THEN job
            ELSE [j \in Job |-> IF j \in Active THEN Retry(j) ELSE job[j]]
  /\ UNCHANGED <<asked, notified, saved, inbox, log, pushed, undone>>

(* The process ends; the queue gives the active job to its successor.      *)
Crash ==
  /\ Fault
  /\ sender' = [s \in Sender |-> Idle]
  /\ job' = [j \in Job |->
       IF j \in Active THEN [at |-> "waiting", tries |-> job[j].tries] ELSE job[j]]
  /\ UNCHANGED <<asked, notified, saved, inbox, log, pushed, undone>>

-----------------------------------------------------------------------------
Deliver(s) == Row(s) \/ Count(s) \/ DecideRow(s) \/ Push(s)
Work ==
  \/ \E j \in Job : Take(j) \/ Guard(j) \/ Mark(j) \/ Complete(j)
  \/ Deliver(Worker)
Poll(p) == Fetch(p) \/ Save(p) \/ FinishPoll(p) \/ Undo(p) \/ Deliver(p)
Environment ==
  \/ \E j \in Job : Publish(j)
  \/ \E s \in Sender : PushLost(s) \/ PushThrows(s) \/ StatementFails(s)
  \/ Crash

Next == Work \/ (\E p \in Poller : Poll(p)) \/ Environment

(* The consumer and the cron jobs go on as long as the process runs, and a *)
(* supervisor starts it again; the queue hands out jobs in order, so that  *)
(* one that waits is not passed over for ever.  Nobody has to publish.     *)
Fairness ==
  /\ WF_vars(Work) /\ \A j \in Job : SF_vars(Take(j))
  /\ \A p \in Poller : WF_vars(Poll(p))
Spec == Init /\ [][Next]_vars
FairSpec == Spec /\ Fairness

-----------------------------------------------------------------------------
(* The stages at which a sender has a recipient in hand.                   *)
Holding == {"count", "cap", "push", "undo"}
SenderState == [at : Stages, found : SUBSET Disclosure, todo : SUBSET Pair,
                cur : Pair \cup {NoPair}, sent : Nat]

Tables ==
  /\ asked \subseteq Job /\ notified \subseteq Signal /\ saved \subseteq Disclosure
  /\ inbox \subseteq Pair
  /\ log \in [Pair -> {"none", "SENT", "SUPPRESSED_CAP"}]
  /\ pushed \in [Pair -> Nat] /\ undone \in [Pair -> Nat]
  /\ faults \in 0..MaxFaults
Queue ==
  /\ job \in [Job -> [at : {"none", "waiting", "active", "failed"}, tries : 0..Attempts]]
  /\ \A j \in Job : job[j].at # "failed" => job[j].tries < Attempts
  /\ \A i, j \in Active : i = j
  /\ Active # {} <=> sender[Worker].at # "idle"
Senders ==
  /\ sender \in [Sender -> SenderState]
  /\ \A s \in Sender : sender[s].cur \in Pair <=> sender[s].at \in Holding
TypeOK == Tables /\ Queue /\ Senders

(* A job that left the queue as completed has put a row into the inbox of  *)
(* everybody it is for, over any number of failed attempts, and a signal   *)
(* is marked as notified only then (notify.consumer.ts:114, :347).         *)
CompletedReachesAll ==
  \A j \in asked : job[j].at = "none" \/ j \in notified => To({j}) \subseteq inbox

(* The inbox row decides who pushes: three senders, retries and crashes    *)
(* push a notification once, and once more only after a poller has taken   *)
(* the row back (notify.consumer.ts:549, scheduler.service.ts:803).        *)
OnePushPerRow == \A x \in Pair : pushed[x] <= 1 + undone[x]

(* The cap is soft by one check-then-act window: no user is sent more than *)
(* Cap counted pushes a day plus one for each other sender that had        *)
(* counted at the same time (push-cap.service.ts:71-74).                   *)
CapBounded ==
  \A u \in User : SentTo(u) <= IF Cap = 0 THEN 0 ELSE Cap + Cardinality(Poller)

(* What is pushed is in the ledger as SENT and counts against the cap,     *)
(* whoever pushed it and whatever became of its row since; only the risk   *)
(* and operations alerts, which must not be held back, are not in it       *)
(* (notify.consumer.ts:621, scheduler.service.ts:810).                     *)
LedgerCoversPushes ==
  \A x \in Pair : pushed[x] > 0 => log[x] = IF Exempt(x) THEN "none" ELSE "SENT"

(* Every accepted job ends: its row is in the inbox of all its recipients, *)
(* or it failed Attempts times and the queue keeps it (attempts: 3).       *)
JobsSettle ==
  \A j \in Job : job[j].at = "waiting" ~> job[j].at = "failed" \/ To({j}) \subseteq inbox

(* What the comments at scheduler.service.ts:769 and :842 say: a       *)
(* filing whose notification failed is notified by a later poll, never     *)
(* left out for good.                                                      *)
SavedIsNotified ==
  \A d \in Disclosure : d \in saved ~> To({d}) \subseteq inbox
=============================================================================
