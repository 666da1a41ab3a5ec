-------------------------- MODULE DisclosurePipeline --------------------------
(***************************************************************************)
(* From a filing to its analysis (engine1-disclosure).  The collector      *)
(* saves the filing and enters its document for parsing; the document is   *)
(* fetched and parsed; an event is extracted from it; the event is put on  *)
(* the queue of the AI analyst.  Every hop may be lost to a crash or to a  *)
(* failed statement, and sweeps go after what is missing: the drain of     *)
(* every minute, the retry of failed documents, the recovery of failed     *)
(* events, the back-fill of old filings, the back-fill of the AI queue.    *)
(*                                                                         *)
(* A parse is a call with several statements; the retry claims a document  *)
(* before it parses it, the drain and the requests of an operator do not.  *)
(* The flag that keeps the drain from overlapping itself is its            *)
(* scheduler's: POST drain and POST batch run the same batch beside it.    *)
(*                                                                         *)
(* Left out: what a document says (the results of parsing and extraction   *)
(* are choices), the limits of a batch and which filings come first, the   *)
(* five calls the drain makes side by side, on different rows, which are   *)
(* taken one after the other, the weekly window and the cooldown.          *)
(***************************************************************************)
EXTENDS Naturals, FiniteSets

CONSTANTS
  Doc,         \* filings, and their documents
  Backfill,    \* those of the past
  Retrier,     \* runs of the retry: nothing keeps them from overlapping
  Request,     \* requests of an operator, nor them
  Sweeper,     \* runs that extract events in a batch
  NoDoc,
  MaxRetry,    \* PARSE_MAX_RETRY
  MaxManual,   \* bound: parses and batches that an operator asks for
  MaxFaults    \* bound: crashes, failed statements and quota refusals

Caller == {"drain"} \cup Request \cup Retrier
(* The extraction that follows a parse is a task of its own.               *)
Task == Sweeper \cup (Caller \X Doc)

ASSUME ConstantsAssumption ==
  /\ Backfill \subseteq Doc /\ NoDoc \notin Doc
  /\ "drain" \notin Request \cup Retrier /\ Request \cap Retrier = {}
  /\ Sweeper \cap (Caller \X Doc) = {}
  /\ MaxRetry \in Nat \ {0} /\ {MaxManual, MaxFaults} \subseteq Nat

VARIABLES
  filed,       \* rows of Disclosure
  doc,         \* [status, retries, parsed] of each document
  ev,          \* the event of each filing, "TITLE" if only its title was read
  queued,      \* filings whose analysis was put on the AI queue
  call,        \* the calls of parseDisclosure
  task,        \* the calls of processDisclosure
  page,        \* what the title back-fill has read
  failed,      \* real failures of each document: a quota is none
  stranded,    \* documents whose call was lost while it held them
  manual, faults

vars == <<filed, doc, ev, queued, call, task, page, failed, stranded, manual, faults>>
events == <<filed, ev, queued, task, page>>
parses == <<doc, call, failed, stranded, manual>>

Fails == {"FETCH_FAILED", "PARSE_FAILED"}
InFlight == {"FETCHING", "PARSING"}
Free == [at |-> "idle", todo |-> {}, mine |-> {}, cur |-> NoDoc, had |-> 0]
Rest == [at |-> "idle", todo |-> {}, cur |-> NoDoc, parsed |-> FALSE]

Init ==
  /\ filed = {} /\ queued = {} /\ page = {} /\ stranded = {}
  /\ doc = [d \in Doc |-> [status |-> "NONE", retries |-> 0, parsed |-> FALSE]]
  /\ ev = [d \in Doc |-> "NONE"]
  /\ call = [c \in Caller |-> Free] /\ task = [s \in Task |-> Rest]
  /\ failed = [d \in Doc |-> 0] /\ manual = 0 /\ faults = 0

Calls(c, r) == call' = [call EXCEPT ![c] = r]
Goes(c, at) == Calls(c, [call[c] EXCEPT !.at = at])
(* A call that has nothing left to do is over.                             *)
Parses(todo, mine) ==
  IF todo = {} THEN Free ELSE [Free EXCEPT !.at = "next", !.todo = todo, !.mine = mine]
Passes(c) == Calls(c, Parses(call[c].todo, call[c].mine \ {call[c].cur}))
Extracts(todo) == IF todo = {} THEN Rest ELSE [Rest EXCEPT !.at = "next", !.todo = todo]
Becomes(d, r) == doc' = [doc EXCEPT ![d] = r]
Turns(d, status) == Becomes(d, [doc[d] EXCEPT !.status = status])
Fault == faults < MaxFaults /\ faults' = faults + 1

-----------------------------------------------------------------------------
(* Filings arrive, and their documents are entered.                        *)

Collect(d) ==
  /\ d \notin filed /\ filed' = filed \cup {d}
  /\ UNCHANGED <<ev, queued, task, page, faults>> /\ UNCHANGED parses

(* enqueueParsing, by the collector or later by a drain that finds the     *)
(* document missing; a document that exists is left as it is.              *)
Enqueue(d) ==
  /\ d \in filed /\ doc[d].status = "NONE"
  /\ Turns(d, "PENDING")
  /\ UNCHANGED <<call, failed, stranded, manual, faults>> /\ UNCHANGED events

-----------------------------------------------------------------------------
(* Who parses what.                                                        *)

(* processPendingBatch reads its batch once, and claims nothing.           *)
Batch(c) ==
  /\ call[c].at = "idle"
  /\ \E d \in Doc : doc[d].status = "PENDING"
  /\ Calls(c, Parses({d \in Doc : doc[d].status = "PENDING"}, {}))

(* PipelineDrainScheduler: its flag keeps it from overlapping itself.      *)
StartDrain ==
  /\ Batch("drain")
  /\ UNCHANGED <<doc, failed, stranded, manual, faults>> /\ UNCHANGED events

Retryable(d) == doc[d].status \in Fails /\ doc[d].retries < MaxRetry
StartRetry(c) ==
  /\ c \in Retrier /\ call[c].at = "idle"
  /\ \E d \in Doc : Retryable(d)
  /\ Calls(c, [Free EXCEPT !.at = "claim", !.todo = {d \in Doc : Retryable(d)}])
  /\ UNCHANGED <<doc, failed, stranded, manual, faults>> /\ UNCHANGED events

(* slip: what was read as retryable is claimed without asking again.       *)
ClaimUnasked(c, d) == TRUE
(* The claim is one conditional update of a row; the parses begin after    *)
(* the last.                                                               *)
Claimable(c, d) == Retryable(d)
Claim(c) ==
  /\ call[c].at = "claim"
  /\ \E d \in call[c].todo :
       LET won  == Claimable(c, d)
           mine == call[c].mine \cup {x \in {d} : won}
           left == call[c].todo \ {d} IN
       /\ doc' = IF won THEN [doc EXCEPT ![d] = [doc[d] EXCEPT !.status = "FETCHING"]] ELSE doc
       /\ Calls(c, IF left = {} THEN Parses(mine, mine)
                   ELSE [call[c] EXCEPT !.todo = left, !.mine = mine])
  /\ UNCHANGED <<failed, stranded, manual, faults>> /\ UNCHANGED events

(* POST parse/:rcpNo, on a filing in whatever state.                       *)
ParseSingle(o, d) ==
  /\ o \in Request /\ manual < MaxManual /\ manual' = manual + 1
  /\ d \in filed /\ call[o].at = "idle"
  /\ Calls(o, Parses({d}, {}))
  /\ UNCHANGED <<doc, failed, stranded, faults>> /\ UNCHANGED events

(* POST batch and POST pipeline/drain do not know of the scheduler's flag. *)
BatchRequest(o) ==
  /\ o \in Request /\ manual < MaxManual /\ manual' = manual + 1
  /\ Batch(o)
  /\ UNCHANGED <<doc, failed, stranded, faults>> /\ UNCHANGED events

-----------------------------------------------------------------------------
(* parseDisclosure.                                                        *)

Cur(c) == call[c].cur

(* A document that is DONE is left alone, one that failed too often too.   *)
Look(c) ==
  /\ call[c].at = "next"
  /\ \E d \in call[c].todo :
       LET left == call[c].todo \ {d}
           at   == IF doc[d].retries >= MaxRetry THEN "skip" ELSE "mark" IN
       Calls(c, IF doc[d].status = "DONE" THEN Parses(left, call[c].mine \ {d})
                ELSE [call[c] EXCEPT !.at = at, !.todo = left, !.cur = d])
  /\ UNCHANGED <<doc, failed, stranded, manual, faults>> /\ UNCHANGED events

Skip(c) ==
  /\ call[c].at = "skip"
  /\ Turns(Cur(c), "SKIPPED") /\ Passes(c)
  /\ UNCHANGED <<failed, stranded, manual, faults>> /\ UNCHANGED events

(* The number of failures is the one that the upsert returns.              *)
Mark(c) ==
  /\ call[c].at = "mark"
  /\ Turns(Cur(c), "FETCHING")
  /\ Calls(c, [call[c] EXCEPT !.at = "fetch", !.had = doc[Cur(c)].retries])
  /\ UNCHANGED <<failed, stranded, manual, faults>> /\ UNCHANGED events

Fetch(c) ==
  /\ call[c].at = "fetch"
  /\ Turns(Cur(c), "PARSING") /\ Goes(c, "parse")
  /\ UNCHANGED <<failed, stranded, manual, faults>> /\ UNCHANGED events

(* updateDocFailed: a failure is counted on top of those that were read    *)
(* when the call began.                                                    *)
Fail(c, status) ==
  /\ Becomes(Cur(c), [doc[Cur(c)] EXCEPT !.retries = call[c].had + 1,
       !.status = IF call[c].had + 1 >= MaxRetry THEN "SKIPPED" ELSE status])
  /\ failed' = [failed EXCEPT ![Cur(c)] = @ + 1] /\ Passes(c)
  /\ UNCHANGED <<stranded, manual, faults>> /\ UNCHANGED events
FetchFails(c) == call[c].at = "fetch" /\ Fail(c, "FETCH_FAILED")
ParseFails(c) == call[c].at = "parse" /\ Fail(c, "PARSE_FAILED")

(* slip: a refusal counts as a failure of the document.                    *)
RefusedCounts(c) == call[c].had + 1
(* The quota is used up or the rate limited: no fault of the document.     *)
Refused(c) == call[c].had
QuotaFails(c) ==
  /\ call[c].at = "fetch" /\ Fault
  /\ Becomes(Cur(c), [doc[Cur(c)] EXCEPT !.retries = Refused(c),
       !.status = IF Refused(c) >= MaxRetry THEN "SKIPPED" ELSE "FETCH_FAILED"])
  /\ Passes(c)
  /\ UNCHANGED <<failed, stranded, manual>> /\ UNCHANGED events

(* The extraction follows on its own, without being waited for.            *)
Parse(c) ==
  /\ call[c].at = "parse"
  /\ Becomes(Cur(c), [doc[Cur(c)] EXCEPT !.status = "DONE", !.parsed = TRUE])
  /\ task' = [task EXCEPT ![<<c, Cur(c)>>] = Extracts({Cur(c)})]
  /\ Passes(c)
  /\ UNCHANGED <<filed, ev, queued, page, failed, stranded, manual, faults>>

(* An empty document is set aside, with an empty result.                   *)
ParseEmpty(c) ==
  /\ call[c].at = "parse"
  /\ Becomes(Cur(c), [doc[Cur(c)] EXCEPT !.status = "SKIPPED", !.parsed = TRUE])
  /\ Passes(c)
  /\ UNCHANGED <<failed, stranded, manual, faults>> /\ UNCHANGED events

(* A statement outside of the guarded parts fails, or the one that records *)
(* a failure: the call ends, its caller goes on with the next document.    *)
Abort(c) ==
  /\ call[c].at \in {"skip", "mark", "fetch", "parse"} /\ Fault
  /\ stranded' = stranded \cup {d \in {Cur(c)} : doc[d].status \in InFlight}
  /\ Passes(c)
  /\ UNCHANGED <<doc, failed, manual>> /\ UNCHANGED events

-----------------------------------------------------------------------------
(* processDisclosure, and who calls it.                                    *)

Tasks(s, r) == task' = [task EXCEPT ![s] = r]
Extracted == {"SUCCESS", "NEEDS_REVIEW"}

Unextracted == {d \in filed : doc[d].status = "DONE" /\ ev[d] = "NONE"}
(* reprocessForNewExtractors: FAILED, and what is of the type OTHER.       *)
Reextracted == {d \in filed : ev[d] = "FAILED"}

Sweep(s) ==
  /\ s \in Sweeper /\ task[s].at = "idle"
  /\ \E ds \in {Unextracted, Unextracted \cap Backfill} \cup
               {Reextracted \cup other : other \in SUBSET {d \in filed : ev[d] \in Extracted}} :
       ds # {} /\ Tasks(s, Extracts(ds))
  /\ UNCHANGED <<filed, ev, queued, page, faults>> /\ UNCHANGED parses

ReadDocument(s) ==
  /\ task[s].at = "next"
  /\ \E d \in task[s].todo :
       Tasks(s, [at |-> "write", todo |-> task[s].todo \ {d}, cur |-> d,
                 parsed |-> doc[d].parsed])
  /\ UNCHANGED <<filed, ev, queued, page, faults>> /\ UNCHANGED parses

Continue(s) == Tasks(s, Extracts(task[s].todo))

(* Whatever is found replaces what there was.  Only what goes through the  *)
(* last step is put on the queue: a classification without numbers, or one *)
(* that is uncertain, returns before it.                                   *)
WriteEvent(s) ==
  /\ task[s].at = "write"
  /\ \E found \in IF task[s].parsed THEN Extracted \cup {"FAILED"} ELSE {"FAILED"} :
       /\ ev' = [ev EXCEPT ![task[s].cur] = found]
       /\ \/ found \in Extracted /\ Tasks(s, [task[s] EXCEPT !.at = "add"])
          \/ found # "SUCCESS" /\ Continue(s)
  /\ UNCHANGED <<filed, queued, page, faults>> /\ UNCHANGED parses

(* The id of the job is the filing's: it is in the queue once.             *)
AddJob(s) ==
  /\ task[s].at = "add"
  /\ queued' = queued \cup {task[s].cur} /\ Continue(s)
  /\ UNCHANGED <<filed, ev, page, faults>> /\ UNCHANGED parses

(* A failed statement ends in one more, which may fail like the first.     *)
TaskFails(s) ==
  /\ task[s].at \in {"write", "add", "failed"} /\ Fault
  /\ IF task[s].at = "failed" THEN Continue(s) ELSE Tasks(s, [task[s] EXCEPT !.at = "failed"])
  /\ UNCHANGED <<filed, ev, queued, page>> /\ UNCHANGED parses
UpsertFailed(s) ==
  /\ task[s].at = "failed"
  /\ ev' = [ev EXCEPT ![task[s].cur] = "FAILED"] /\ Continue(s)
  /\ UNCHANGED <<filed, queued, page, faults>> /\ UNCHANGED parses

-----------------------------------------------------------------------------
(* backfillOnce of the title back-fill: a page is read, and events made of *)
(* the titles that say enough, unless there is one by now.                 *)
ReadTitles ==
  /\ page = {}
  /\ \E ds \in SUBSET {d \in filed \cap Backfill : ev[d] = "NONE" /\ doc[d].status # "DONE"} :
       ds # {} /\ page' = ds
  /\ UNCHANGED <<filed, ev, queued, task, faults>> /\ UNCHANGED parses
(* slip: an event that is there by now is replaced.                        *)
OverEvents(d) == TRUE
NoEvent(d) == ev[d] = "NONE"
WriteTitles ==
  /\ page # {}
  /\ ev' = [d \in Doc |-> IF d \in page /\ NoEvent(d) THEN "TITLE" ELSE ev[d]]
  /\ page' = {}
  /\ UNCHANGED <<filed, queued, task, faults>> /\ UNCHANGED parses

(* AiBackfillDrain: as long as the budget lasts, what was extracted and    *)
(* not analysed is put on the queue.                                       *)
QueueMissing(d) ==
  /\ ev[d] \in Extracted /\ d \notin queued
  /\ queued' = queued \cup {d}
  /\ UNCHANGED <<filed, ev, task, page, faults>> /\ UNCHANGED parses

Crash ==
  /\ Fault
  /\ call' = [c \in Caller |-> Free] /\ task' = [s \in Task |-> Rest] /\ page' = {}
  /\ stranded' = stranded \cup {d \in Doc : doc[d].status \in InFlight}
  /\ UNCHANGED <<filed, doc, ev, queued, failed, manual>>

Parsing(c) ==
  \/ Claim(c) \/ Look(c) \/ Skip(c) \/ Mark(c)
  \/ Fetch(c) \/ FetchFails(c) \/ Parse(c) \/ ParseEmpty(c) \/ ParseFails(c)
Extracting(s) ==
  ReadDocument(s) \/ WriteEvent(s) \/ AddJob(s) \/ UpsertFailed(s)
Titles == ReadTitles \/ WriteTitles
Next ==
  \/ \E d \in Doc : Collect(d) \/ Enqueue(d) \/ QueueMissing(d)
  \/ \E o \in Request : BatchRequest(o) \/ \E d \in Doc : ParseSingle(o, d)
  \/ StartDrain \/ \E c \in Caller : StartRetry(c) \/ Parsing(c) \/ QuotaFails(c) \/ Abort(c)
  \/ \E s \in Task : Sweep(s) \/ Extracting(s) \/ TaskFails(s)
  \/ Titles \/ Crash

(* The schedulers fire again and again and the database answers; nobody    *)
(* has to file anything, and no operator has to help.                      *)
Fairness ==
  /\ \A d \in Doc : WF_vars(Enqueue(d)) /\ WF_vars(QueueMissing(d))
  /\ WF_vars(StartDrain) /\ \A c \in Retrier : WF_vars(StartRetry(c))
  /\ \A c \in Caller : WF_vars(Parsing(c))
  /\ \A s \in Task : WF_vars(Sweep(s)) /\ WF_vars(Extracting(s))
Spec == Init /\ [][Next]_vars
FairSpec == Spec /\ Fairness

-----------------------------------------------------------------------------
(* The stages at which a call has a document in hand, and a task a filing. *)
InHand == {"skip", "mark", "fetch", "parse"}
CallState == [at : {"idle", "claim", "next"} \cup InHand, todo : SUBSET Doc,
              mine : SUBSET Doc, cur : Doc \cup {NoDoc}, had : Nat]
DocState == [status : {"NONE", "PENDING", "DONE", "SKIPPED"} \cup Fails \cup InFlight,
             retries : Nat, parsed : BOOLEAN]
TaskState == [at : {"idle", "next", "write", "add", "failed"}, todo : SUBSET Doc,
              cur : Doc \cup {NoDoc}, parsed : BOOLEAN]

Filings ==
  /\ filed \subseteq Doc /\ queued \subseteq Doc /\ stranded \subseteq Doc
  /\ page \subseteq Backfill
  /\ doc \in [Doc -> DocState]
  /\ ev \in [Doc -> {"NONE", "TITLE", "FAILED"} \cup Extracted]
  /\ failed \in [Doc -> Nat] /\ manual \in 0 .. MaxManual /\ faults \in 0 .. MaxFaults
Parsers ==
  /\ call \in [Caller -> CallState]
  /\ \A c \in Caller : call[c].cur \in Doc <=> call[c].at \in InHand
Extractors ==
  /\ task \in [Task -> TaskState]
  /\ \A s \in Task : task[s].cur \in Doc <=> task[s].at \in {"write", "add", "failed"}
(* A document is DONE only when there is something to extract from, and    *)
(* only an old filing has an event made of its title.                      *)
Sound ==
  \A d \in Doc : /\ doc[d].status = "DONE" => doc[d].parsed
                 /\ ev[d] = "TITLE" => d \in Backfill
TypeOK == Filings /\ Parsers /\ Extractors /\ Sound

(* A document that is being fetched or parsed is in the hands of exactly   *)
(* one call, or its call was lost; whichever retries and crashes come      *)
(* together with the drain, until an operator has a document or a batch    *)
(* parsed besides (disclosure-documents.service.ts:718-726).               *)
Holds(c, d) == d \in call[c].mine \/ (call[c].cur = d /\ call[c].at \in {"fetch", "parse"})
OneParser ==
  manual = 0 => \A d \in Doc \ stranded :
    Cardinality({c \in Caller : Holds(c, d)}) = IF doc[d].status \in InFlight THEN 1 ELSE 0

(* Every request of an operator adds at most one to the calls that fetch   *)
(* and parse the same document at once: what overlaps the drain's batch    *)
(* does it a second time, and no failure of either lets more of them in    *)
(* (disclosure-documents.controller.ts:137, pipeline.controller.ts:110).   *)
ParsersBounded ==
  \A d \in Doc : Cardinality({c \in Caller : Holds(c, d)}) <= 1 + manual

(* A document is given up after MaxRetry failures of its own, or because   *)
(* it is empty: no quota and no race of two calls uses its attempts up;    *)
(* and unless an operator interferes none is tried more often              *)
(* (disclosure-documents.service.ts:220-224, :823).                        *)
GivenUpForCause ==
  \A d \in Doc :
    /\ doc[d].status = "SKIPPED" => failed[d] >= MaxRetry \/ doc[d].parsed
    /\ manual = 0 => failed[d] <= MaxRetry

(* What was extracted from a document is never replaced by its title       *)
(* (title-event-backfill.service.ts:95-108).                               *)
NeverBackToTitle ==
  [][\A d \in Doc : ev'[d] = "TITLE" => ev[d] \in {"NONE", "TITLE"}]_vars

(* Every filing ends: parsed, with an event, and put on the AI queue if    *)
(* more than its title was read; or given up.  Excepted are documents      *)
(* whose call was lost while it held them: no sweep looks for FETCHING or  *)
(* PARSING (pipeline-integrity.service.ts:300-349,                         *)
(* disclosure-documents.service.ts:701-711).                               *)
Settled(d) ==
  \/ d \in stranded \/ doc[d].status = "SKIPPED"
  \/ /\ doc[d].status = "DONE" /\ ev[d] # "NONE"
     /\ ev[d] \in Extracted => d \in queued
=============================================================================
