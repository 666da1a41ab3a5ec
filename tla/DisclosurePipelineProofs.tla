------------------------ MODULE DisclosurePipelineProofs ------------------------
(***************************************************************************)
(* Proofs about DisclosurePipeline, for any number of filings, retries,    *)
(* sweeps and faults, and any number of attempts.                          *)
(*                                                                         *)
(* A call never knows of more failures than there were, so that a document *)
(* is given up for cause only (Known).  As long as no operator interferes, *)
(* a call that fetches or parses has its document to itself (Owned), and   *)
(* what it has read of it stays true (Counted): the claim of a retry and   *)
(* the status PENDING of what the drain has read see to that (Reserved).   *)
(***************************************************************************)
EXTENDS DisclosurePipeline, TLAPS, FiniteSetTheorems

Known ==
  /\ \A d \in Doc : /\ doc[d].retries <= failed[d]
                    /\ doc[d].status = "SKIPPED" => failed[d] >= MaxRetry \/ doc[d].parsed
  /\ \A c \in Caller :
       /\ call[c].at \in {"fetch", "parse"} => call[c].had <= failed[call[c].cur]
       /\ call[c].at = "skip" => failed[call[c].cur] >= MaxRetry

(* Who holds a document holds it alone. *)
Owned ==
  \A c \in Caller, d \in Doc : Holds(c, d) =>
    /\ doc[d].status \in InFlight /\ doc[d].retries < MaxRetry /\ d \notin stranded
    /\ \A b \in Caller : Holds(b, d) => b = c

(* What is in flight is held, or its call was lost. *)
Found ==
  /\ \A d \in Doc \ stranded : doc[d].status \in InFlight => \E c \in Caller : Holds(c, d)
  /\ \A d \in stranded : doc[d].status \in InFlight

(* The failures are those that the rows and the calls count. *)
Counted ==
  /\ \A d \in Doc : failed[d] = doc[d].retries /\ failed[d] <= MaxRetry
  /\ \A c \in Caller : call[c].at \in {"fetch", "parse"} =>
       call[c].had = doc[call[c].cur].retries

(* What the drain has read is still to be parsed, and what a retry goes    *)
(* through it has claimed.                                                 *)
Drained(r) ==
  /\ r.mine = {} /\ r.at # "claim" /\ r.cur \notin r.todo
  /\ \A d \in r.todo : doc[d].status = "PENDING"
  /\ r.at \in {"skip", "mark"} => doc[r.cur].status = "PENDING"
  /\ r.at = "mark" => doc[r.cur].retries < MaxRetry
Retried(r) ==
  /\ r.at = "idle" => r.mine = {}
  /\ r.at # "claim" =>
       /\ r.cur \notin r.todo /\ r.todo \subseteq r.mine /\ r.mine \subseteq r.todo \cup {r.cur}
       /\ r.at \in InHand => r.at # "skip" /\ r.cur \in r.mine
Reserved ==
  /\ \A o \in Request : call[o] = Free
  /\ Drained(call["drain"])
  /\ \A c \in Retrier : Retried(call[c])

Exclusive == Owned /\ Found /\ Counted /\ Reserved
IInv == TypeOK /\ Known /\ (manual = 0 => Exclusive)

-----------------------------------------------------------------------------
(* One call moves.                                                         *)
LEMMA Constants ==
  /\ NoDoc \notin Doc /\ MaxRetry \in Nat \ {0} /\ MaxManual \in Nat /\ MaxFaults \in Nat
  /\ Backfill \subseteq Doc
  /\ "drain" \in Caller /\ Request \subseteq Caller /\ Retrier \subseteq Caller
  /\ "drain" \notin Retrier /\ "drain" \notin Request
  /\ \A c \in Retrier : c \notin Request
BY ConstantsAssumption DEF Caller

LEMMA Resting ==
  ASSUME NEW todo \in SUBSET Doc, NEW mine \in SUBSET Doc
  PROVE  /\ Free \in CallState /\ Free.at = "idle" /\ Free.cur = NoDoc /\ Free.cur \notin Doc
         /\ Free.todo = {} /\ Free.mine = {}
         /\ Parses(todo, mine) \in CallState
         /\ Parses(todo, mine).at \in {"idle", "next"} /\ Parses(todo, mine).cur = NoDoc
         /\ Parses(todo, mine).todo = todo
         /\ Parses(todo, mine).mine = IF todo = {} THEN {} ELSE mine
BY Constants DEF Free, Parses, CallState, InHand

Fits(r) == r \in CallState /\ (r.cur \in Doc <=> r.at \in InHand)

LEMMA Moved ==
  ASSUME Parsers, NEW c \in Caller, NEW r, Fits(r), Calls(c, r)
  PROVE  /\ Parsers'
         /\ call'[c] = r
         /\ \A b \in Caller : b # c => call'[b] = call[b]
BY DEF Parsers, Calls, Fits

LEMMA HandFits ==
  ASSUME Parsers, NEW c \in Caller
  PROVE  /\ call[c] \in CallState /\ Fits(call[c])
         /\ call[c].at \in InHand => call[c].cur \in Doc
         /\ call[c].at \in {"fetch", "parse"} => call[c].cur \in Doc
BY DEF Parsers, Fits, InHand

(* The call goes on to its next document.                                  *)
LEMMA Passed ==
  ASSUME Parsers, NEW c \in Caller, Passes(c)
  PROVE  /\ Parsers'
         /\ call'[c].at \in {"idle", "next"} /\ call'[c].cur = NoDoc
         /\ call'[c].todo = call[c].todo
         /\ call'[c].mine = IF call[c].todo = {} THEN {} ELSE call[c].mine \ {call[c].cur}
         /\ \A b \in Caller : b # c => call'[b] = call[b]
<1> DEFINE r == Parses(call[c].todo, call[c].mine \ {call[c].cur})
<1>1. call[c].todo \in SUBSET Doc /\ call[c].mine \ {call[c].cur} \in SUBSET Doc
  BY DEF Parsers, CallState
<1>2. /\ r \in CallState /\ r.at \in {"idle", "next"} /\ r.cur = NoDoc
      /\ r.todo = call[c].todo
      /\ r.mine = IF call[c].todo = {} THEN {} ELSE call[c].mine \ {call[c].cur}
  BY <1>1, Resting
<1>3. Calls(c, r)
  BY DEF Passes
<1> HIDE DEF r
<1>4. Fits(r)
  BY <1>2, Constants DEF Fits, InHand
<1> QED
  BY <1>2, <1>3, <1>4, Moved

-----------------------------------------------------------------------------
(* Types, call by call.                                                    *)
LEMMA RowTypes ==
  ASSUME Filings, Sound, NEW d \in Doc, NEW row \in DocState, row.status = "DONE" => row.parsed,
         Becomes(d, row), UNCHANGED <<filed, ev, queued, page>>,
         failed' \in [Doc -> Nat], stranded' \subseteq Doc,
         manual' \in 0 .. MaxManual, faults' \in 0 .. MaxFaults
  PROVE  Filings' /\ Sound'
BY DEF Filings, Sound, Becomes

LEMMA TurnTypes ==
  ASSUME TypeOK, NEW c \in Caller, call[c].at \in InHand, NEW status \in {"SKIPPED"} \cup InFlight,
         Turns(call[c].cur, status), UNCHANGED <<filed, ev, queued, page, failed, stranded, manual, faults>>
  PROVE  Filings' /\ Sound'
<1>1. call[c].cur \in Doc
  BY HandFits DEF TypeOK
<1> DEFINE row == [doc[call[c].cur] EXCEPT !.status = status]
<1>2. row \in DocState /\ row.status # "DONE"
  BY <1>1 DEF TypeOK, Filings, DocState, InFlight
<1>3. Becomes(call[c].cur, row)
  BY DEF Turns
<1> HIDE DEF row
<1>4. /\ failed' \in [Doc -> Nat] /\ stranded' \subseteq Doc
      /\ manual' \in 0 .. MaxManual /\ faults' \in 0 .. MaxFaults
  BY DEF TypeOK, Filings
<1> QED
  BY <1>1, <1>2, <1>3, <1>4, RowTypes DEF TypeOK

LEMMA FailTypes ==
  ASSUME TypeOK, NEW c \in Caller, call[c].at \in {"fetch", "parse"}, NEW n \in Nat,
         NEW status \in Fails, failed' \in [Doc -> Nat], faults' \in 0 .. MaxFaults,
         Becomes(call[c].cur, [doc[call[c].cur] EXCEPT !.retries = n,
           !.status = IF n >= MaxRetry THEN "SKIPPED" ELSE status]),
         UNCHANGED <<stranded, manual>>, UNCHANGED <<filed, ev, queued, page>>
  PROVE  Filings' /\ Sound'
<1>1. call[c].cur \in Doc
  BY HandFits DEF TypeOK
<1> DEFINE row == [doc[call[c].cur] EXCEPT !.retries = n,
                     !.status = IF n >= MaxRetry THEN "SKIPPED" ELSE status]
<1>2. row \in DocState /\ row.status # "DONE"
  BY <1>1 DEF TypeOK, Filings, DocState, Fails
<1>3. Becomes(call[c].cur, row)
  OBVIOUS
<1> HIDE DEF row
<1>4. stranded' \subseteq Doc /\ manual' \in 0 .. MaxManual
  BY DEF TypeOK, Filings
<1> QED
  BY <1>1, <1>2, <1>3, <1>4, RowTypes DEF TypeOK

LEMMA SameEvents ==
  ASSUME TypeOK, UNCHANGED events
  PROVE  UNCHANGED <<filed, ev, queued, page>> /\ Extractors'
BY DEF TypeOK, Extractors, events

LEMMA SameParses ==
  ASSUME TypeOK, UNCHANGED parses
  PROVE  UNCHANGED <<doc, call, failed, stranded, manual>> /\ Parsers'
BY DEF TypeOK, Parsers, parses

LEMMA FaultCounts ==
  ASSUME TypeOK, Fault
  PROVE  faults' \in 0 .. MaxFaults
BY Constants DEF TypeOK, Filings, Fault

(* The step of a call that takes up work.                                  *)
LEMMA BeginTypes ==
  ASSUME TypeOK, NEW c \in Caller, NEW r \in CallState, r.cur \notin Doc, r.at \notin InHand,
         Calls(c, r), UNCHANGED <<doc, failed, stranded, faults>>, UNCHANGED events,
         manual' \in 0 .. MaxManual
  PROVE  TypeOK'
<1>1. Fits(r)
  BY DEF Fits
<1>2. Parsers'
  BY <1>1, Moved DEF TypeOK
<1>3. Extractors' /\ UNCHANGED <<filed, ev, queued, page>>
  BY SameEvents
<1>4. Filings' /\ Sound'
  BY <1>3 DEF TypeOK, Filings, Sound
<1> QED
  BY <1>2, <1>3, <1>4 DEF TypeOK

LEMMA StartDrainTypes ==
  ASSUME TypeOK, StartDrain
  PROVE  TypeOK'
<1> DEFINE todo == {d \in Doc : doc[d].status = "PENDING"}
<1> DEFINE r == Parses(todo, {})
<1>1. r \in CallState /\ r.cur \notin Doc /\ r.at \notin InHand
  <2>1. todo \in SUBSET Doc /\ {} \in SUBSET Doc
    OBVIOUS
  <2> HIDE DEF todo
  <2>2. r \in CallState /\ r.at \in {"idle", "next"} /\ r.cur = NoDoc
    BY <2>1, Resting
  <2> QED
    BY <2>2, Constants DEF InHand
<1>2. Calls("drain", r) /\ UNCHANGED <<doc, failed, stranded, faults>> /\ UNCHANGED events /\ manual' = manual
  BY DEF StartDrain, Batch
<1> HIDE DEF r
<1> QED
  BY <1>1, <1>2, BeginTypes, Constants DEF TypeOK, Filings

LEMMA StartRetryTypes ==
  ASSUME TypeOK, NEW c \in Caller, StartRetry(c)
  PROVE  TypeOK'
<1> DEFINE r == [Free EXCEPT !.at = "claim", !.todo = {d \in Doc : Retryable(d)}]
<1>1. r \in CallState /\ r.cur \notin Doc /\ r.at \notin InHand
  BY Constants DEF Free, CallState, InHand
<1>2. Calls(c, r) /\ UNCHANGED <<doc, failed, stranded, faults>> /\ UNCHANGED events /\ manual' = manual
  BY DEF StartRetry
<1> HIDE DEF r
<1> QED
  BY <1>1, <1>2, BeginTypes DEF TypeOK, Filings

Requests(o) == BatchRequest(o) \/ \E d \in Doc : ParseSingle(o, d)

LEMMA RequestForm ==
  ASSUME TypeOK, NEW o \in Request, Requests(o)
  PROVE  /\ \E todo \in SUBSET Doc : Calls(o, Parses(todo, {}))
         /\ UNCHANGED <<doc, failed, stranded, faults>> /\ UNCHANGED events
         /\ manual' = manual + 1 /\ manual' \in 0 .. MaxManual
<1>1. /\ UNCHANGED <<doc, failed, stranded, faults>> /\ UNCHANGED events
      /\ manual < MaxManual /\ manual' = manual + 1
  BY DEF Requests, BatchRequest, ParseSingle
<1>2. manual' \in 0 .. MaxManual
  BY <1>1, Constants DEF TypeOK, Filings
<1>3. CASE BatchRequest(o)
  <2>1. {d \in Doc : doc[d].status = "PENDING"} \in SUBSET Doc
    OBVIOUS
  <2> QED
    BY <1>1, <1>2, <1>3, <2>1 DEF BatchRequest, Batch
<1>4. CASE \E d \in Doc : ParseSingle(o, d)
  <2>1. PICK d \in Doc : ParseSingle(o, d)
    BY <1>4
  <2>2. {d} \in SUBSET Doc
    OBVIOUS
  <2> QED
    BY <1>1, <1>2, <2>1, <2>2 DEF ParseSingle
<1> QED
  BY <1>3, <1>4 DEF Requests

LEMMA RequestTypes ==
  ASSUME TypeOK, NEW o \in Request, Requests(o)
  PROVE  TypeOK'
<1>1. PICK todo \in SUBSET Doc : Calls(o, Parses(todo, {}))
  BY RequestForm
<1> DEFINE r == Parses(todo, {})
<1>2. {} \in SUBSET Doc
  OBVIOUS
<1>3. r \in CallState /\ r.cur \notin Doc /\ r.at \notin InHand
  BY <1>2, Resting, Constants DEF InHand
<1>4. /\ Calls(o, r) /\ UNCHANGED <<doc, failed, stranded, faults>> /\ UNCHANGED events
      /\ manual' \in 0 .. MaxManual
  BY <1>1, RequestForm
<1> HIDE DEF r
<1> QED
  BY <1>3, <1>4, BeginTypes, Constants

LEMMA LookTypes ==
  ASSUME TypeOK, NEW c \in Caller, Look(c)
  PROVE  TypeOK'
<1>1. PICK d \in call[c].todo :
        Calls(c, IF doc[d].status = "DONE" THEN Parses(call[c].todo \ {d}, call[c].mine \ {d})
                 ELSE [call[c] EXCEPT !.at = IF doc[d].retries >= MaxRetry THEN "skip" ELSE "mark",
                                      !.todo = call[c].todo \ {d}, !.cur = d])
  BY DEF Look
<1>2. call[c] \in CallState /\ d \in Doc
  BY DEF TypeOK, Parsers, CallState
<1> DEFINE r == IF doc[d].status = "DONE" THEN Parses(call[c].todo \ {d}, call[c].mine \ {d})
                ELSE [call[c] EXCEPT !.at = IF doc[d].retries >= MaxRetry THEN "skip" ELSE "mark",
                                     !.todo = call[c].todo \ {d}, !.cur = d]
<1>3. Fits(r)
  <2>1. CASE doc[d].status = "DONE"
    <3>1. /\ Parses(call[c].todo \ {d}, call[c].mine \ {d}) \in CallState
          /\ Parses(call[c].todo \ {d}, call[c].mine \ {d}).cur \notin Doc
          /\ Parses(call[c].todo \ {d}, call[c].mine \ {d}).at \notin InHand
      <4> DEFINE left == call[c].todo \ {d}
      <4> DEFINE mine == call[c].mine \ {d}
      <4>1. left \in SUBSET Doc /\ mine \in SUBSET Doc
        BY <1>2 DEF CallState
      <4> HIDE DEF left, mine
      <4>2. /\ Parses(left, mine) \in CallState /\ Parses(left, mine).cur = NoDoc
            /\ Parses(left, mine).at \in {"idle", "next"}
        BY <4>1, Resting
      <4> QED
        BY <4>2, Constants DEF left, mine, InHand
    <3> QED
      BY <2>1, <3>1 DEF Fits
  <2>2. CASE doc[d].status # "DONE"
    <3>1. r = [call[c] EXCEPT !.at = IF doc[d].retries >= MaxRetry THEN "skip" ELSE "mark",
                              !.todo = call[c].todo \ {d}, !.cur = d]
      BY <2>2
    <3> HIDE DEF r
    <3> QED
      BY <1>2, <3>1 DEF Fits, CallState, InHand
  <2> QED
    BY <2>1, <2>2
<1>4. Calls(c, r) /\ UNCHANGED <<doc, failed, stranded, manual, faults>> /\ UNCHANGED events
  BY <1>1 DEF Look
<1> HIDE DEF r
<1>5. Parsers'
  BY <1>3, <1>4, Moved DEF TypeOK
<1>6. Extractors' /\ UNCHANGED <<filed, ev, queued, page>>
  BY <1>4, SameEvents
<1> QED
  BY <1>4, <1>5, <1>6 DEF TypeOK, Filings, Sound

LEMMA ClaimTypes ==
  ASSUME TypeOK, NEW c \in Caller, Claim(c)
  PROVE  TypeOK'
<1>1. PICK d \in call[c].todo :
        LET won  == Claimable(c, d)
            mine == call[c].mine \cup {x \in {d} : won}
            left == call[c].todo \ {d} IN
        /\ doc' = IF won THEN [doc EXCEPT ![d] = [doc[d] EXCEPT !.status = "FETCHING"]] ELSE doc
        /\ Calls(c, IF left = {} THEN Parses(mine, mine)
                    ELSE [call[c] EXCEPT !.todo = left, !.mine = mine])
  BY DEF Claim
<1> DEFINE won == Claimable(c, d)
<1> DEFINE mine == call[c].mine \cup {x \in {d} : won}
<1> DEFINE left == call[c].todo \ {d}
<1> DEFINE r == IF left = {} THEN Parses(mine, mine)
                ELSE [call[c] EXCEPT !.todo = left, !.mine = mine]
<1>2. /\ doc' = IF won THEN [doc EXCEPT ![d] = [doc[d] EXCEPT !.status = "FETCHING"]] ELSE doc
      /\ Calls(c, r) /\ call[c].at = "claim"
      /\ UNCHANGED <<failed, stranded, manual, faults>> /\ UNCHANGED events
  BY <1>1 DEF Claim
<1>3. call[c] \in CallState /\ d \in Doc /\ mine \in SUBSET Doc /\ left \in SUBSET Doc
  BY DEF TypeOK, Parsers, CallState
<1> HIDE DEF won, mine, left
<1>4. Fits(r)
  <2>1. CASE left = {}
    <3>1. /\ Parses(mine, mine) \in CallState
          /\ Parses(mine, mine).at \in {"idle", "next"} /\ Parses(mine, mine).cur = NoDoc
      BY <1>3, Resting
    <3>2. r = Parses(mine, mine)
      BY <2>1
    <3> HIDE DEF r
    <3> QED
      BY <3>1, <3>2, Constants DEF Fits, InHand
  <2>2. CASE left # {}
    <3>1. r = [call[c] EXCEPT !.todo = left, !.mine = mine]
      BY <2>2
    <3>2. call[c].cur \in Doc <=> call[c].at \in InHand
      BY DEF TypeOK, Parsers
    <3> HIDE DEF r
    <3> QED
      BY <1>3, <3>1, <3>2 DEF Fits, CallState
  <2> QED
    BY <2>1, <2>2
<1> HIDE DEF r
<1>5. Parsers'
  BY <1>2, <1>4, Moved DEF TypeOK
<1>6. Extractors' /\ UNCHANGED <<filed, ev, queued, page>>
  BY <1>2, SameEvents
<1>7. Filings' /\ Sound'
  <2>1. doc' \in [Doc -> DocState] /\ \A x \in Doc : doc'[x].status = "DONE" => doc[x].status = "DONE"
    BY <1>2, <1>3 DEF TypeOK, Filings, DocState, InFlight
  <2>2. \A x \in Doc : doc'[x].parsed = doc[x].parsed
    BY <1>2, <1>3 DEF TypeOK, Filings, DocState
  <2> QED
    BY <1>2, <1>6, <2>1, <2>2 DEF TypeOK, Filings, Sound
<1> QED
  BY <1>5, <1>6, <1>7 DEF TypeOK

LEMMA SkipTypes ==
  ASSUME TypeOK, NEW c \in Caller, Skip(c)
  PROVE  TypeOK'
<1>1. /\ call[c].at \in InHand /\ Turns(call[c].cur, "SKIPPED") /\ Passes(c)
      /\ UNCHANGED <<failed, stranded, manual, faults>> /\ UNCHANGED events
  BY DEF Skip, Cur, InHand
<1>2. Extractors' /\ UNCHANGED <<filed, ev, queued, page>>
  BY <1>1, SameEvents
<1>3. Filings' /\ Sound'
  BY <1>1, <1>2, TurnTypes
<1>4. Parsers'
  BY <1>1, Passed DEF TypeOK
<1> QED
  BY <1>2, <1>3, <1>4 DEF TypeOK

LEMMA MarkTypes ==
  ASSUME TypeOK, NEW c \in Caller, Mark(c)
  PROVE  /\ TypeOK'
         /\ call'[c] = [call[c] EXCEPT !.at = "fetch", !.had = doc[call[c].cur].retries]
         /\ \A b \in Caller : b # c => call'[b] = call[b]
<1> DEFINE r == [call[c] EXCEPT !.at = "fetch", !.had = doc[call[c].cur].retries]
<1>1. /\ call[c].at \in InHand /\ Turns(call[c].cur, "FETCHING") /\ Calls(c, r)
      /\ UNCHANGED <<failed, stranded, manual, faults>> /\ UNCHANGED events
  BY DEF Mark, Cur, InHand
<1>2. Extractors' /\ UNCHANGED <<filed, ev, queued, page>>
  BY <1>1, SameEvents
<1>3. Filings' /\ Sound'
  BY <1>1, <1>2, TurnTypes DEF InFlight
<1>4. Fits(r)
  <2>1. call[c] \in CallState /\ call[c].cur \in Doc /\ doc[call[c].cur].retries \in Nat
    BY <1>1, HandFits DEF TypeOK, Filings, DocState
  <2> QED
    BY <2>1 DEF Fits, CallState, InHand
<1> HIDE DEF r
<1>5. Parsers' /\ call'[c] = r /\ \A b \in Caller : b # c => call'[b] = call[b]
  BY <1>1, <1>4, Moved DEF TypeOK
<1> QED
  BY <1>2, <1>3, <1>5 DEF TypeOK, r

LEMMA FetchTypes ==
  ASSUME TypeOK, NEW c \in Caller, Fetch(c)
  PROVE  /\ TypeOK'
         /\ call'[c] = [call[c] EXCEPT !.at = "parse"]
         /\ \A b \in Caller : b # c => call'[b] = call[b]
<1> DEFINE r == [call[c] EXCEPT !.at = "parse"]
<1>1. /\ call[c].at \in InHand /\ Turns(call[c].cur, "PARSING") /\ Calls(c, r)
      /\ UNCHANGED <<failed, stranded, manual, faults>> /\ UNCHANGED events
  BY DEF Fetch, Goes, Cur, InHand
<1>2. Extractors' /\ UNCHANGED <<filed, ev, queued, page>>
  BY <1>1, SameEvents
<1>3. Filings' /\ Sound'
  BY <1>1, <1>2, TurnTypes DEF InFlight
<1>4. Fits(r)
  <2>1. call[c] \in CallState /\ call[c].cur \in Doc
    BY <1>1, HandFits DEF TypeOK
  <2> QED
    BY <2>1 DEF Fits, CallState, InHand
<1> HIDE DEF r
<1>5. Parsers' /\ call'[c] = r /\ \A b \in Caller : b # c => call'[b] = call[b]
  BY <1>1, <1>4, Moved DEF TypeOK
<1> QED
  BY <1>2, <1>3, <1>5 DEF TypeOK, r

LEMMA FailIsTyped ==
  ASSUME TypeOK, NEW c \in Caller, FetchFails(c) \/ ParseFails(c)
  PROVE  TypeOK'
<1>1. PICK status \in Fails : call[c].at \in {"fetch", "parse"} /\ Fail(c, status)
  BY DEF FetchFails, ParseFails, Fails
<1>2. /\ Becomes(call[c].cur, [doc[call[c].cur] EXCEPT !.retries = call[c].had + 1,
           !.status = IF call[c].had + 1 >= MaxRetry THEN "SKIPPED" ELSE status])
      /\ failed' = [failed EXCEPT ![call[c].cur] = @ + 1] /\ Passes(c)
      /\ UNCHANGED <<stranded, manual, faults>> /\ UNCHANGED events
  BY <1>1 DEF Fail, Cur
<1>3. Extractors' /\ UNCHANGED <<filed, ev, queued, page>>
  BY <1>2, SameEvents
<1>4. call[c].had + 1 \in Nat /\ call[c].cur \in Doc
  BY <1>1, HandFits DEF TypeOK, CallState
<1>5. failed' \in [Doc -> Nat] /\ faults' \in 0 .. MaxFaults
  BY <1>2, <1>4 DEF TypeOK, Filings
<1>6. Filings' /\ Sound'
  BY <1>1, <1>2, <1>3, <1>4, <1>5, FailTypes
<1>7. Parsers'
  BY <1>2, Passed DEF TypeOK
<1> QED
  BY <1>3, <1>6, <1>7 DEF TypeOK

LEMMA QuotaTypes ==
  ASSUME TypeOK, NEW c \in Caller, QuotaFails(c)
  PROVE  TypeOK'
<1>1. /\ call[c].at \in {"fetch", "parse"} /\ Fault
      /\ Becomes(call[c].cur, [doc[call[c].cur] EXCEPT !.retries = call[c].had,
           !.status = IF call[c].had >= MaxRetry THEN "SKIPPED" ELSE "FETCH_FAILED"])
      /\ Passes(c) /\ UNCHANGED <<failed, stranded, manual>> /\ UNCHANGED events
  BY DEF QuotaFails, Cur, Refused
<1>2. Extractors' /\ UNCHANGED <<filed, ev, queued, page>>
  BY <1>1, SameEvents
<1>3. call[c].had \in Nat /\ "FETCH_FAILED" \in Fails
  BY HandFits DEF TypeOK, CallState, Fails
<1>4. failed' \in [Doc -> Nat] /\ faults' \in 0 .. MaxFaults
  BY <1>1, FaultCounts DEF TypeOK, Filings
<1>5. Filings' /\ Sound'
  BY <1>1, <1>2, <1>3, <1>4, FailTypes
<1>6. Parsers'
  BY <1>1, Passed DEF TypeOK
<1> QED
  BY <1>2, <1>5, <1>6 DEF TypeOK

LEMMA ParsedTypes ==
  ASSUME TypeOK, NEW c \in Caller, NEW status \in {"DONE", "SKIPPED"}, call[c].at = "parse",
         Becomes(call[c].cur, [doc[call[c].cur] EXCEPT !.status = status, !.parsed = TRUE]),
         Passes(c), UNCHANGED <<filed, ev, queued, page, failed, stranded, manual, faults>>
  PROVE  Filings' /\ Sound' /\ Parsers'
<1> DEFINE row == [doc[call[c].cur] EXCEPT !.status = status, !.parsed = TRUE]
<1>1. call[c].cur \in Doc
  BY HandFits DEF TypeOK
<1>2. row \in DocState /\ row.parsed
  BY <1>1 DEF TypeOK, Filings, DocState
<1>3. Becomes(call[c].cur, row)
  OBVIOUS
<1> HIDE DEF row
<1>4. /\ failed' \in [Doc -> Nat] /\ stranded' \subseteq Doc
      /\ manual' \in 0 .. MaxManual /\ faults' \in 0 .. MaxFaults
  BY DEF TypeOK, Filings
<1>5. Filings' /\ Sound'
  BY <1>1, <1>2, <1>3, <1>4, RowTypes DEF TypeOK
<1> QED
  BY <1>5, Passed DEF TypeOK

LEMMA TaskMoves ==
  ASSUME Extractors, NEW s \in Task, NEW r \in TaskState,
         r.cur \in Doc <=> r.at \in {"write", "add", "failed"},
         task' = [task EXCEPT ![s] = r]
  PROVE  Extractors'
BY DEF Extractors

LEMMA ExtractsFits ==
  ASSUME NEW todo \in SUBSET Doc
  PROVE  /\ Extracts(todo) \in TaskState
         /\ Extracts(todo).cur \notin Doc /\ Extracts(todo).at \in {"idle", "next"}
BY Constants DEF Extracts, Rest, TaskState

LEMMA ParseTypes ==
  ASSUME TypeOK, NEW c \in Caller, Parse(c) \/ ParseEmpty(c)
  PROVE  TypeOK'
<1>1. CASE Parse(c)
  <2>1. /\ call[c].at = "parse" /\ Passes(c)
        /\ Becomes(call[c].cur, [doc[call[c].cur] EXCEPT !.status = "DONE", !.parsed = TRUE])
        /\ task' = [task EXCEPT ![<<c, call[c].cur>>] = Extracts({call[c].cur})]
        /\ UNCHANGED <<filed, ev, queued, page, failed, stranded, manual, faults>>
    BY <1>1 DEF Parse, Cur
  <2>2. call[c].cur \in Doc
    BY <2>1, HandFits DEF TypeOK
  <2>3. {call[c].cur} \in SUBSET Doc /\ <<c, call[c].cur>> \in Task
    BY <2>2 DEF Task
  <2>4. Extractors'
    BY <2>1, <2>3, ExtractsFits, TaskMoves DEF TypeOK
  <2>5. Filings' /\ Sound' /\ Parsers'
    BY <2>1, ParsedTypes
  <2> QED
    BY <2>4, <2>5 DEF TypeOK
<1>2. CASE ParseEmpty(c)
  <2>1. /\ call[c].at = "parse" /\ Passes(c)
        /\ Becomes(call[c].cur, [doc[call[c].cur] EXCEPT !.status = "SKIPPED", !.parsed = TRUE])
        /\ UNCHANGED <<failed, stranded, manual, faults>> /\ UNCHANGED events
    BY <1>2 DEF ParseEmpty, Cur
  <2>2. Extractors' /\ UNCHANGED <<filed, ev, queued, page>>
    BY <2>1, SameEvents
  <2>3. UNCHANGED <<filed, ev, queued, page, failed, stranded, manual, faults>>
    BY <2>1, <2>2
  <2>4. Filings' /\ Sound' /\ Parsers'
    BY <2>1, <2>3, ParsedTypes
  <2> QED
    BY <2>2, <2>4 DEF TypeOK
<1> QED
  BY <1>1, <1>2

LEMMA AbortTypes ==
  ASSUME TypeOK, NEW c \in Caller, Abort(c)
  PROVE  TypeOK'
<1>1. /\ call[c].at \in InHand /\ Fault /\ Passes(c)
      /\ stranded' = stranded \cup {d \in {call[c].cur} : doc[d].status \in InFlight}
      /\ UNCHANGED <<doc, failed, manual>> /\ UNCHANGED events
  BY DEF Abort, Cur, InHand
<1>2. Extractors' /\ UNCHANGED <<filed, ev, queued, page>>
  BY <1>1, SameEvents
<1>3. call[c].cur \in Doc
  BY <1>1, HandFits DEF TypeOK
<1>4. Filings' /\ Sound'
  BY <1>1, <1>2, <1>3, FaultCounts DEF TypeOK, Filings, Sound
<1>5. Parsers'
  BY <1>1, Passed DEF TypeOK
<1> QED
  BY <1>2, <1>4, <1>5 DEF TypeOK

LEMMA EnqueueTypes ==
  ASSUME TypeOK, NEW d \in Doc, Enqueue(d)
  PROVE  TypeOK'
<1>1. /\ Turns(d, "PENDING") /\ UNCHANGED <<call, failed, stranded, manual, faults>> /\ UNCHANGED events
  BY DEF Enqueue
<1>2. Extractors' /\ UNCHANGED <<filed, ev, queued, page>>
  BY <1>1, SameEvents
<1>3. Filings' /\ Sound'
  BY <1>1, <1>2 DEF Turns, Becomes, TypeOK, Filings, Sound, DocState
<1>4. Parsers'
  BY <1>1 DEF TypeOK, Parsers
<1> QED
  BY <1>2, <1>3, <1>4 DEF TypeOK

LEMMA CrashTypes ==
  ASSUME TypeOK, Crash
  PROVE  TypeOK'
<1>1. /\ Fault /\ call' = [c \in Caller |-> Free] /\ task' = [s \in Task |-> Rest] /\ page' = {}
      /\ stranded' = stranded \cup {d \in Doc : doc[d].status \in InFlight}
      /\ UNCHANGED <<filed, doc, ev, queued, failed, manual>>
  BY DEF Crash
<1>2. Free \in CallState /\ Free.at \notin InHand /\ Free.cur \notin Doc
  BY Constants DEF Free, CallState, InHand
<1>3. Rest \in TaskState /\ Rest.at = "idle" /\ Rest.cur \notin Doc
  BY Constants DEF Rest, TaskState
<1>4. Parsers' /\ Extractors'
  BY <1>1, <1>2, <1>3 DEF Parsers, Extractors
<1>5. Filings' /\ Sound'
  BY <1>1, FaultCounts DEF TypeOK, Filings, Sound
<1> QED
  BY <1>4, <1>5 DEF TypeOK

-----------------------------------------------------------------------------
(* Types, task by task.                                                    *)
EventStep ==
  \/ \E d \in Doc : Collect(d) \/ QueueMissing(d)
  \/ \E s \in Task : Sweep(s) \/ Extracting(s) \/ TaskFails(s)
  \/ Titles

LEMMA TaskFits ==
  ASSUME Extractors, NEW s \in Task
  PROVE  /\ task[s] \in TaskState /\ task[s].todo \in SUBSET Doc
         /\ task[s].at \in {"write", "add", "failed"} => task[s].cur \in Doc
BY DEF Extractors, TaskState

(* The tables of the filings change, the documents do not.                 *)
LEMMA EventTypes ==
  ASSUME TypeOK, UNCHANGED parses, Extractors', faults' \in 0 .. MaxFaults,
         filed' \subseteq Doc, queued' \subseteq Doc, page' \subseteq Backfill,
         ev' \in [Doc -> {"NONE", "TITLE", "FAILED"} \cup Extracted],
         \A d \in Doc : ev'[d] = "TITLE" => d \in Backfill
  PROVE  TypeOK'
<1>1. UNCHANGED <<doc, call, failed, stranded, manual>> /\ Parsers'
  BY SameParses
<1>2. Filings' /\ Sound'
  BY <1>1 DEF TypeOK, Filings, Sound
<1> QED
  BY <1>1, <1>2 DEF TypeOK

LEMMA EvChanges ==
  ASSUME TypeOK, NEW s \in Task, task[s].at \in {"write", "failed"},
         NEW found \in Extracted \cup {"FAILED"}, ev' = [ev EXCEPT ![task[s].cur] = found]
  PROVE  /\ ev' \in [Doc -> {"NONE", "TITLE", "FAILED"} \cup Extracted]
         /\ \A d \in Doc : ev'[d] = "TITLE" => ev[d] = "TITLE"
<1>1. task[s].cur \in Doc
  BY TaskFits DEF TypeOK
<1>2. found # "TITLE"
  BY DEF Extracted
<1> QED
  BY <1>1, <1>2 DEF TypeOK, Filings

LEMMA ContinueTypes ==
  ASSUME Extractors, NEW s \in Task, Continue(s)
  PROVE  Extractors'
BY TaskFits, ExtractsFits, TaskMoves DEF Continue, Tasks

(* What an event step does to the events.                                  *)
LEMMA EventIsTyped ==
  ASSUME TypeOK, EventStep
  PROVE  /\ TypeOK' /\ UNCHANGED parses
         /\ \A d \in Doc : ev'[d] = "TITLE" => ev[d] \in {"NONE", "TITLE"}
<1>1. ASSUME NEW d \in Doc, Collect(d)
      PROVE  /\ TypeOK' /\ UNCHANGED parses /\ ev' = ev
  <2>1. /\ filed' = filed \cup {d} /\ UNCHANGED <<ev, queued, task, page, faults>> /\ UNCHANGED parses
    BY <1>1 DEF Collect
  <2>2. Extractors'
    BY <2>1 DEF TypeOK, Extractors
  <2> QED
    BY <2>1, <2>2, EventTypes DEF TypeOK, Filings, Sound
<1>2. ASSUME NEW d \in Doc, QueueMissing(d)
      PROVE  /\ TypeOK' /\ UNCHANGED parses /\ ev' = ev
  <2>1. /\ queued' = queued \cup {d} /\ UNCHANGED <<filed, ev, task, page, faults>> /\ UNCHANGED parses
    BY <1>2 DEF QueueMissing
  <2>2. Extractors'
    BY <2>1 DEF TypeOK, Extractors
  <2> QED
    BY <2>1, <2>2, EventTypes DEF TypeOK, Filings, Sound
<1>3. ASSUME NEW s \in Task, Sweep(s)
      PROVE  /\ TypeOK' /\ UNCHANGED parses /\ ev' = ev
  <2>1. PICK ds \in {Unextracted, Unextracted \cap Backfill} \cup
               {Reextracted \cup other : other \in SUBSET {d \in filed : ev[d] \in Extracted}} :
          Tasks(s, Extracts(ds))
    BY <1>3 DEF Sweep
  <2>2. ds \in SUBSET Doc
    BY DEF TypeOK, Filings, Unextracted, Reextracted
  <2>3. Extractors'
    BY <2>1, <2>2, ExtractsFits, TaskMoves DEF TypeOK, Tasks
  <2>4. UNCHANGED <<filed, ev, queued, page, faults>> /\ UNCHANGED parses
    BY <1>3 DEF Sweep
  <2> QED
    BY <2>3, <2>4, EventTypes DEF TypeOK, Filings, Sound
<1>4. ASSUME NEW s \in Task, ReadDocument(s)
      PROVE  /\ TypeOK' /\ UNCHANGED parses /\ ev' = ev
  <2>1. PICK d \in task[s].todo :
          Tasks(s, [at |-> "write", todo |-> task[s].todo \ {d}, cur |-> d,
                    parsed |-> doc[d].parsed])
    BY <1>4 DEF ReadDocument
  <2> DEFINE r == [at |-> "write", todo |-> task[s].todo \ {d}, cur |-> d,
                   parsed |-> doc[d].parsed]
  <2>2. d \in Doc /\ task[s].todo \in SUBSET Doc /\ doc[d] \in DocState
    BY TaskFits DEF TypeOK, Filings
  <2>3. r \in TaskState /\ r.cur \in Doc /\ r.at = "write"
    BY <2>2 DEF TaskState, DocState
  <2>4. task' = [task EXCEPT ![s] = r]
    BY <2>1 DEF Tasks
  <2> HIDE DEF r
  <2>5. Extractors'
    BY <2>3, <2>4, TaskMoves DEF TypeOK
  <2>6. UNCHANGED <<filed, ev, queued, page, faults>> /\ UNCHANGED parses
    BY <1>4 DEF ReadDocument
  <2> QED
    BY <2>5, <2>6, EventTypes DEF TypeOK, Filings, Sound
<1>5. ASSUME NEW s \in Task, WriteEvent(s)
      PROVE  /\ TypeOK' /\ UNCHANGED parses
             /\ \A d \in Doc : ev'[d] = "TITLE" => ev[d] = "TITLE"
  <2>1. task[s].at = "write" /\ UNCHANGED <<filed, queued, page, faults>> /\ UNCHANGED parses
    BY <1>5 DEF WriteEvent
  <2>2. PICK found \in Extracted \cup {"FAILED"} :
          /\ ev' = [ev EXCEPT ![task[s].cur] = found]
          /\ Tasks(s, [task[s] EXCEPT !.at = "add"]) \/ Continue(s)
    BY <1>5 DEF WriteEvent
  <2>3. ASSUME Tasks(s, [task[s] EXCEPT !.at = "add"])
        PROVE  Extractors'
    <3> DEFINE r == [task[s] EXCEPT !.at = "add"]
    <3>1. task[s] \in TaskState /\ task[s].cur \in Doc
      BY <2>1, TaskFits DEF TypeOK
    <3>2. r \in TaskState /\ r.at = "add" /\ r.cur \in Doc
      BY <3>1 DEF TaskState
    <3>3. task' = [task EXCEPT ![s] = r]
      BY <2>3 DEF Tasks
    <3> HIDE DEF r
    <3> QED
      BY <3>2, <3>3, TaskMoves DEF TypeOK
  <2>4. ASSUME Continue(s)
        PROVE  Extractors'
    BY <2>4, ContinueTypes DEF TypeOK
  <2>5. /\ ev' \in [Doc -> {"NONE", "TITLE", "FAILED"} \cup Extracted]
        /\ \A d \in Doc : ev'[d] = "TITLE" => ev[d] = "TITLE"
    BY <2>1, <2>2, EvChanges
  <2> QED
    BY <2>1, <2>2, <2>3, <2>4, <2>5, EventTypes DEF TypeOK, Filings, Sound, Extractors
<1>6. ASSUME NEW s \in Task, AddJob(s)
      PROVE  /\ TypeOK' /\ UNCHANGED parses /\ ev' = ev
  <2>1. /\ task[s].at = "add" /\ queued' = queued \cup {task[s].cur} /\ Continue(s)
        /\ UNCHANGED <<filed, ev, page, faults>> /\ UNCHANGED parses
    BY <1>6 DEF AddJob
  <2>2. task[s].cur \in Doc /\ Extractors'
    BY <2>1, TaskFits, ContinueTypes DEF TypeOK
  <2> QED
    BY <2>1, <2>2, EventTypes DEF TypeOK, Filings, Sound
<1>7. ASSUME NEW s \in Task, UpsertFailed(s)
      PROVE  /\ TypeOK' /\ UNCHANGED parses
             /\ \A d \in Doc : ev'[d] = "TITLE" => ev[d] = "TITLE"
  <2>1. /\ task[s].at = "failed" /\ ev' = [ev EXCEPT ![task[s].cur] = "FAILED"] /\ Continue(s)
        /\ UNCHANGED <<filed, queued, page, faults>> /\ UNCHANGED parses
    BY <1>7 DEF UpsertFailed
  <2>2. Extractors'
    BY <2>1, ContinueTypes DEF TypeOK
  <2>3. /\ ev' \in [Doc -> {"NONE", "TITLE", "FAILED"} \cup Extracted]
        /\ \A d \in Doc : ev'[d] = "TITLE" => ev[d] = "TITLE"
    BY <2>1, EvChanges
  <2> QED
    BY <2>1, <2>2, <2>3, EventTypes DEF TypeOK, Filings, Sound
<1>8. ASSUME NEW s \in Task, TaskFails(s)
      PROVE  /\ TypeOK' /\ UNCHANGED parses /\ ev' = ev
  <2>1. /\ task[s].at \in {"write", "add", "failed"} /\ Fault
        /\ Continue(s) \/ Tasks(s, [task[s] EXCEPT !.at = "failed"])
        /\ UNCHANGED <<filed, ev, queued, page>> /\ UNCHANGED parses
    BY <1>8 DEF TaskFails
  <2>2. ASSUME Tasks(s, [task[s] EXCEPT !.at = "failed"])
        PROVE  Extractors'
    <3> DEFINE r == [task[s] EXCEPT !.at = "failed"]
    <3>1. task[s] \in TaskState /\ task[s].cur \in Doc
      BY <2>1, TaskFits DEF TypeOK
    <3>2. r \in TaskState /\ r.at = "failed" /\ r.cur \in Doc
      BY <3>1 DEF TaskState
    <3>3. task' = [task EXCEPT ![s] = r]
      BY <2>2 DEF Tasks
    <3> HIDE DEF r
    <3> QED
      BY <3>2, <3>3, TaskMoves DEF TypeOK
  <2>3. ASSUME Continue(s)
        PROVE  Extractors'
    BY <2>3, ContinueTypes DEF TypeOK
  <2>4. faults' \in 0 .. MaxFaults
    BY <2>1, FaultCounts
  <2>5. Extractors'
    BY <2>1, <2>2, <2>3
  <2> QED
    BY <2>1, <2>4, <2>5, EventTypes DEF TypeOK, Filings, Sound
<1>9. ASSUME Titles
      PROVE  /\ TypeOK' /\ UNCHANGED parses
             /\ \A d \in Doc : ev'[d] = "TITLE" => ev[d] \in {"NONE", "TITLE"}
  <2>1. CASE ReadTitles
    <3>1. /\ page' \subseteq Backfill
          /\ UNCHANGED <<filed, ev, queued, task, faults>> /\ UNCHANGED parses
      BY <2>1 DEF ReadTitles
    <3>2. Extractors'
      BY <3>1 DEF TypeOK, Extractors
    <3> QED
      BY <3>1, <3>2, EventTypes DEF TypeOK, Filings, Sound
  <2>2. CASE WriteTitles
    <3>1. /\ ev' = [d \in Doc |-> IF d \in page /\ ev[d] = "NONE" THEN "TITLE" ELSE ev[d]]
          /\ page' = {} /\ UNCHANGED <<filed, queued, task, faults>> /\ UNCHANGED parses
      BY <2>2 DEF WriteTitles, NoEvent
    <3>2. Extractors'
      BY <3>1 DEF TypeOK, Extractors
    <3>3. /\ ev' \in [Doc -> {"NONE", "TITLE", "FAILED"} \cup Extracted]
          /\ \A d \in Doc : ev'[d] = "TITLE" => d \in Backfill /\ ev[d] \in {"NONE", "TITLE"}
      BY <3>1 DEF TypeOK, Filings, Sound
    <3> QED
      BY <3>1, <3>2, <3>3, EventTypes DEF TypeOK, Filings
  <2> QED
    BY <1>9, <2>1, <2>2 DEF Titles
<1> QED
  BY <1>1, <1>2, <1>3, <1>4, <1>5, <1>6, <1>7, <1>8, <1>9 DEF EventStep, Extracting

-----------------------------------------------------------------------------
(* All steps.                                                              *)
CallStep(c) == StartRetry(c) \/ Parsing(c) \/ QuotaFails(c) \/ Abort(c)
DocStep ==
  \/ \E d \in Doc : Enqueue(d)
  \/ \E o \in Request : Requests(o)
  \/ StartDrain \/ Crash
  \/ \E c \in Caller : CallStep(c)

LEMMA NextIsStep ==
  ASSUME Next
  PROVE  EventStep \/ DocStep
BY DEF Next, EventStep, DocStep, CallStep, Requests

LEMMA StaysTyped ==
  ASSUME TypeOK, [Next]_vars
  PROVE  TypeOK'
<1>1. CASE EventStep
  BY <1>1, EventIsTyped
<1>2. CASE DocStep
  <2>1. CASE StartDrain \/ Crash
    BY <2>1, StartDrainTypes, CrashTypes
  <2>2. ASSUME NEW d \in Doc, Enqueue(d)
        PROVE  TypeOK'
    BY <2>2, EnqueueTypes
  <2>4. ASSUME NEW o \in Request, Requests(o)
        PROVE  TypeOK'
    BY <2>4, RequestTypes
  <2>3. ASSUME NEW c \in Caller, CallStep(c)
        PROVE  TypeOK'
    <3>1. CASE StartRetry(c) \/ QuotaFails(c) \/ Abort(c)
      BY <3>1, StartRetryTypes, QuotaTypes, AbortTypes
    <3>2. CASE Claim(c) \/ Look(c) \/ Skip(c)
      BY <3>2, ClaimTypes, LookTypes, SkipTypes
    <3>3. CASE Mark(c) \/ Fetch(c)
      BY <3>3, MarkTypes, FetchTypes
    <3>4. CASE FetchFails(c) \/ ParseFails(c)
      BY <3>4, FailIsTyped
    <3>5. CASE Parse(c) \/ ParseEmpty(c)
      BY <3>5, ParseTypes
    <3> QED
      BY <2>3, <3>1, <3>2, <3>3, <3>4, <3>5 DEF CallStep, Parsing
  <2> QED
    BY <1>2, <2>1, <2>2, <2>3, <2>4 DEF DocStep
<1>3. CASE UNCHANGED vars
  BY <1>3 DEF vars, TypeOK, Filings, Parsers, Extractors, Sound
<1> QED
  BY <1>1, <1>2, <1>3, NextIsStep

LEMMA StartsTyped ==
  ASSUME Init
  PROVE  TypeOK
<1>1. Free \in CallState /\ Free.at = "idle" /\ Free.cur \notin Doc
  BY Constants DEF Free, CallState
<1>2. Rest \in TaskState /\ Rest.at = "idle" /\ Rest.cur \notin Doc
  BY Constants DEF Rest, TaskState
<1>3. Filings /\ Sound
  BY Constants DEF Init, Filings, Sound, DocState
<1>4. Parsers
  BY <1>1 DEF Init, Parsers, InHand
<1>5. Extractors
  BY <1>2 DEF Init, Extractors
<1> QED
  BY <1>3, <1>4, <1>5 DEF TypeOK

(* Every variable has its type; a document is in hand at the stages of a   *)
(* parse and of an extraction only, DONE only when it was parsed, and only *)
(* an old filing has an event made of its title.                           *)
THEOREM TypeCorrect == Spec => []TypeOK
<1>1. Init => TypeOK
  BY StartsTyped
<1>2. TypeOK /\ [Next]_vars => TypeOK'
  BY StaysTyped
<1> QED
  BY <1>1, <1>2, PTL DEF Spec

(* What was extracted from a document is never replaced by its title: the  *)
(* title back-fill asks again when it writes                               *)
(* (title-event-backfill.service.ts:95-108).                               *)
LEMMA DocStepKeepsEvents ==
  ASSUME DocStep
  PROVE  ev' = ev
<1>1. UNCHANGED events => ev' = ev
  BY DEF events
<1>2. ASSUME NEW d \in Doc, Enqueue(d)
      PROVE  ev' = ev
  BY <1>1, <1>2 DEF Enqueue
<1>5. ASSUME NEW o \in Request, Requests(o)
      PROVE  ev' = ev
  BY <1>1, <1>5 DEF Requests, BatchRequest, ParseSingle
<1>3. ASSUME StartDrain \/ Crash
      PROVE  ev' = ev
  BY <1>1, <1>3 DEF StartDrain, Crash
<1>4. ASSUME NEW c \in Caller, CallStep(c)
      PROVE  ev' = ev
  <2>1. CASE StartRetry(c) \/ QuotaFails(c) \/ Abort(c)
    BY <1>1, <2>1 DEF StartRetry, QuotaFails, Abort
  <2>2. CASE Claim(c) \/ Look(c) \/ Skip(c)
    BY <1>1, <2>2 DEF Claim, Look, Skip
  <2>3. CASE Mark(c) \/ Fetch(c) \/ FetchFails(c) \/ ParseFails(c)
    BY <1>1, <2>3 DEF Mark, Fetch, FetchFails, ParseFails, Fail
  <2>4. CASE Parse(c) \/ ParseEmpty(c)
    BY <1>1, <2>4 DEF Parse, ParseEmpty
  <2> QED
    BY <1>4, <2>1, <2>2, <2>3, <2>4 DEF CallStep, Parsing
<1> QED
  BY <1>2, <1>3, <1>4, <1>5 DEF DocStep

THEOREM NeverReplacedByTitle == Spec => NeverBackToTitle
<1>1. TypeOK /\ [Next]_vars => [\A d \in Doc : ev'[d] = "TITLE" => ev[d] \in {"NONE", "TITLE"}]_vars
  <2> SUFFICES ASSUME TypeOK, Next
               PROVE  \A d \in Doc : ev'[d] = "TITLE" => ev[d] \in {"NONE", "TITLE"}
    OBVIOUS
  <2>1. CASE EventStep
    BY <2>1, EventIsTyped
  <2>2. CASE DocStep
    BY <2>2, DocStepKeepsEvents
  <2> QED
    BY <2>1, <2>2, NextIsStep
<1> QED
  BY <1>1, TypeCorrect, PTL DEF Spec, NeverBackToTitle

-----------------------------------------------------------------------------
(* What the steps do to the documents and to the calls.                    *)
LEMMA Turned ==
  ASSUME TypeOK, NEW d \in Doc, NEW row, Becomes(d, row)
  PROVE  doc'[d] = row /\ \A x \in Doc : x # d => doc'[x] = doc[x]
BY DEF TypeOK, Filings, Becomes

LEMMA Rows ==
  ASSUME TypeOK, NEW d \in Doc
  PROVE  /\ doc[d] \in DocState /\ doc[d].retries \in Nat /\ doc[d].parsed \in BOOLEAN
         /\ failed[d] \in Nat
BY DEF TypeOK, Filings, DocState

LEMMA InHandIs ==
  ASSUME TypeOK, NEW c \in Caller
  PROVE  /\ call[c] \in CallState /\ call[c].had \in Nat
         /\ call[c].cur \in Doc \/ call[c].cur = NoDoc
         /\ call[c].cur \in Doc <=> call[c].at \in InHand
         /\ call[c].todo \subseteq Doc /\ call[c].mine \subseteq Doc
BY DEF TypeOK, Parsers, CallState

LEMMA LookForm ==
  ASSUME TypeOK, NEW c \in Caller, Look(c)
  PROVE  /\ call[c].at = "next" /\ UNCHANGED <<doc, failed, stranded, manual>>
         /\ \A b \in Caller : b # c => call'[b] = call[b]
         /\ \E d \in call[c].todo :
              \/ /\ doc[d].status = "DONE" /\ call'[c].at \in {"idle", "next"}
              \/ /\ doc[d].status # "DONE"
                 /\ call'[c] = [call[c] EXCEPT
                      !.at = IF doc[d].retries >= MaxRetry THEN "skip" ELSE "mark",
                      !.todo = call[c].todo \ {d}, !.cur = d]
<1>1. PICK d \in call[c].todo :
        Calls(c, IF doc[d].status = "DONE" THEN Parses(call[c].todo \ {d}, call[c].mine \ {d})
                 ELSE [call[c] EXCEPT !.at = IF doc[d].retries >= MaxRetry THEN "skip" ELSE "mark",
                                      !.todo = call[c].todo \ {d}, !.cur = d])
  BY DEF Look
<1> DEFINE left == call[c].todo \ {d}
<1> DEFINE mine == call[c].mine \ {d}
<1> DEFINE on == [call[c] EXCEPT !.at = IF doc[d].retries >= MaxRetry THEN "skip" ELSE "mark",
                                 !.todo = call[c].todo \ {d}, !.cur = d]
<1> DEFINE r == IF doc[d].status = "DONE" THEN Parses(left, mine) ELSE on
<1>2. left \in SUBSET Doc /\ mine \in SUBSET Doc
  BY InHandIs
<1>3. Calls(c, r)
  BY <1>1
<1> HIDE DEF left, mine, on
<1>4. Parses(left, mine).at \in {"idle", "next"}
  BY <1>2, Resting
<1> HIDE DEF r
<1>5. call'[c] = r /\ \A b \in Caller : b # c => call'[b] = call[b]
  BY <1>3 DEF Calls, TypeOK, Parsers
<1> QED
  BY <1>4, <1>5 DEF r, on, Look

LEMMA ClaimForm ==
  ASSUME TypeOK, NEW c \in Caller, Claim(c)
  PROVE  /\ call[c].at = "claim" /\ UNCHANGED <<failed, stranded, manual>>
         /\ \A b \in Caller : b # c => call'[b] = call[b]
         /\ \E d \in call[c].todo :
              /\ \A x \in Doc : x # d => doc'[x] = doc[x]
              /\ doc'[d] = IF Retryable(d) THEN [doc[d] EXCEPT !.status = "FETCHING"] ELSE doc[d]
              /\ call'[c].mine = call[c].mine \cup {x \in {d} : Retryable(d)}
              /\ \/ call'[c].at = "claim" /\ call'[c].cur = call[c].cur
                 \/ /\ call'[c].at \in {"idle", "next"} /\ call'[c].cur = NoDoc
                    /\ call'[c].todo = call'[c].mine
                    /\ call'[c].at = "idle" => call'[c].mine = {}
<1>1. PICK d \in call[c].todo :
        LET won  == Claimable(c, d)
            mine == call[c].mine \cup {x \in {d} : won}
            left == call[c].todo \ {d} IN
        /\ doc' = IF won THEN [doc EXCEPT ![d] = [doc[d] EXCEPT !.status = "FETCHING"]] ELSE doc
        /\ Calls(c, IF left = {} THEN Parses(mine, mine)
                    ELSE [call[c] EXCEPT !.todo = left, !.mine = mine])
  BY DEF Claim
<1> DEFINE mine == call[c].mine \cup {x \in {d} : Retryable(d)}
<1> DEFINE left == call[c].todo \ {d}
<1> DEFINE r == IF left = {} THEN Parses(mine, mine)
                ELSE [call[c] EXCEPT !.todo = left, !.mine = mine]
<1>2. /\ doc' = IF Retryable(d) THEN [doc EXCEPT ![d] = [doc[d] EXCEPT !.status = "FETCHING"]] ELSE doc
      /\ Calls(c, r) /\ call[c].at = "claim" /\ UNCHANGED <<failed, stranded, manual>>
  BY <1>1 DEF Claim, Claimable
<1>3. d \in Doc /\ mine \in SUBSET Doc /\ left \in SUBSET Doc /\ call[c] \in CallState
  BY InHandIs
<1>4. /\ \A x \in Doc : x # d => doc'[x] = doc[x]
      /\ doc'[d] = IF Retryable(d) THEN [doc[d] EXCEPT !.status = "FETCHING"] ELSE doc[d]
  BY <1>2, <1>3 DEF TypeOK, Filings
<1> HIDE DEF mine, left, r
<1>5. call'[c] = r /\ \A b \in Caller : b # c => call'[b] = call[b]
  BY <1>2 DEF Calls, TypeOK, Parsers
<1>6. /\ r.mine = mine
      /\ \/ r.at = "claim" /\ r.cur = call[c].cur
         \/ /\ r.at \in {"idle", "next"} /\ r.cur = NoDoc /\ r.todo = r.mine
            /\ r.at = "idle" => r.mine = {}
  <2>1. ASSUME left = {}
        PROVE  /\ r.mine = mine /\ r.at \in {"idle", "next"} /\ r.cur = NoDoc /\ r.todo = r.mine
               /\ r.at = "idle" => r.mine = {}
    BY <2>1 DEF r, Parses, Free
  <2>2. ASSUME left # {}
        PROVE  r.mine = mine /\ r.at = "claim" /\ r.cur = call[c].cur
    BY <1>2, <1>3, <2>2 DEF r, CallState
  <2> QED
    BY <2>1, <2>2
<1> QED
  BY <1>2, <1>4, <1>5, <1>6 DEF mine

-----------------------------------------------------------------------------
(* A document is given up for cause.                                       *)
RowKnown(d) ==
  /\ doc[d].retries <= failed[d]
  /\ doc[d].status = "SKIPPED" => failed[d] >= MaxRetry \/ doc[d].parsed
CallKnown(c) ==
  /\ call[c].at \in {"fetch", "parse"} => call[c].had <= failed[call[c].cur]
  /\ call[c].at = "skip" => failed[call[c].cur] >= MaxRetry

LEMMA KnownParts ==
  Known <=> (\A d \in Doc : RowKnown(d)) /\ (\A c \in Caller : CallKnown(c))
BY DEF Known, RowKnown, CallKnown

(* A step of one call, on one document.                                    *)
LEMMA KnownAfter ==
  ASSUME TypeOK, TypeOK', Known, NEW c \in Caller, NEW d \in Doc,
         \A b \in Caller : b # c => call'[b] = call[b], CallKnown(c)',
         \A x \in Doc : x # d => doc'[x] = doc[x] /\ failed'[x] = failed[x],
         RowKnown(d)', failed'[d] >= failed[d]
  PROVE  Known'
<1>1. ASSUME NEW x \in Doc
      PROVE  RowKnown(x)' /\ failed'[x] >= failed[x] /\ failed'[x] \in Nat /\ failed[x] \in Nat
  BY KnownParts DEF RowKnown, TypeOK, Filings
<1>2. ASSUME NEW b \in Caller, b # c
      PROVE  CallKnown(b)'
  <2>1. call'[b] = call[b] /\ CallKnown(b)
    BY <1>2, KnownParts
  <2>2. call[b].had \in Nat /\ (call[b].at \in {"skip", "fetch", "parse"} => call[b].cur \in Doc)
    BY InHandIs DEF InHand
  <2> QED
    BY <1>1, <2>1, <2>2, Constants DEF CallKnown
<1> QED
  BY <1>1, <1>2 DEF Known, RowKnown, CallKnown

LEMMA KnownInCall ==
  ASSUME TypeOK, TypeOK', Known, NEW c \in Caller, UNCHANGED <<doc, failed>>,
         \A b \in Caller : b # c => call'[b] = call[b],
         call'[c].at \notin {"skip", "fetch", "parse"}
  PROVE  Known'
BY DEF Known

LEMMA CallMoves ==
  ASSUME TypeOK, NEW c \in Caller, NEW r, Calls(c, r)
  PROVE  call'[c] = r /\ \A b \in Caller : b # c => call'[b] = call[b]
BY DEF TypeOK, Parsers, Calls

LEMMA KnownBegins ==
  ASSUME TypeOK, TypeOK', Known, NEW c \in Caller,
         \/ c = "drain" /\ StartDrain
         \/ StartRetry(c)
         \/ c \in Request /\ Requests(c)
  PROVE  Known'
<1>1. ASSUME NEW todo \in SUBSET Doc, Calls(c, Parses(todo, {})), UNCHANGED <<doc, failed>>
      PROVE  Known'
  <2> DEFINE r == Parses(todo, {})
  <2>1. {} \in SUBSET Doc
    OBVIOUS
  <2>2. r.at \in {"idle", "next"}
    BY <2>1, Resting
  <2>3. Calls(c, r)
    BY <1>1
  <2> HIDE DEF r
  <2> QED
    BY <1>1, <2>2, <2>3, CallMoves, KnownInCall
<1>2. CASE c = "drain" /\ StartDrain
  <2>1. {d \in Doc : doc[d].status = "PENDING"} \in SUBSET Doc
    OBVIOUS
  <2> QED
    BY <1>1, <1>2, <2>1 DEF StartDrain, Batch
<1>3. CASE StartRetry(c)
  <2> DEFINE r == [Free EXCEPT !.at = "claim", !.todo = {d \in Doc : Retryable(d)}]
  <2>1. r.at = "claim"
    BY DEF Free
  <2>2. Calls(c, r) /\ UNCHANGED <<doc, failed>>
    BY <1>3 DEF StartRetry
  <2> HIDE DEF r
  <2> QED
    BY <2>1, <2>2, CallMoves, KnownInCall
<1>4. CASE c \in Request /\ Requests(c)
  BY <1>1, <1>4, RequestForm
<1> QED
  BY <1>2, <1>3, <1>4

LEMMA KnownLookClaim ==
  ASSUME TypeOK, TypeOK', Known, NEW c \in Caller, Look(c) \/ Claim(c)
  PROVE  Known'
<1>1. CASE Look(c)
  <2>1. PICK d \in call[c].todo :
          \/ /\ doc[d].status = "DONE" /\ call'[c].at \in {"idle", "next"}
          \/ /\ doc[d].status # "DONE"
             /\ call'[c] = [call[c] EXCEPT
                  !.at = IF doc[d].retries >= MaxRetry THEN "skip" ELSE "mark",
                  !.todo = call[c].todo \ {d}, !.cur = d]
    BY <1>1, LookForm
  <2>2. d \in Doc /\ call[c] \in CallState
    BY InHandIs
  <2>3. /\ UNCHANGED <<doc, failed>>
        /\ \A b \in Caller : b # c => call'[b] = call[b]
    BY <1>1, LookForm
  <2>4. RowKnown(d) /\ doc[d].retries \in Nat /\ failed[d] \in Nat
    BY <2>2, KnownParts, Rows
  <2>5. CallKnown(c)'
    <3>1. CASE call'[c].at \in {"idle", "next"}
      BY <3>1 DEF CallKnown
    <3>2. CASE call'[c] = [call[c] EXCEPT
                  !.at = IF doc[d].retries >= MaxRetry THEN "skip" ELSE "mark",
                  !.todo = call[c].todo \ {d}, !.cur = d]
      <4>1. /\ call'[c].at = IF doc[d].retries >= MaxRetry THEN "skip" ELSE "mark"
            /\ call'[c].cur = d
        BY <2>2, <3>2 DEF CallState
      <4> QED
        BY <2>3, <2>4, <4>1, Constants DEF CallKnown, RowKnown
    <3> QED
      BY <2>1, <3>1, <3>2
  <2>6. RowKnown(d)'
    BY <2>3, <2>4 DEF RowKnown
  <2> QED
    BY <2>2, <2>3, <2>4, <2>5, <2>6, KnownAfter
<1>2. CASE Claim(c)
  <2>1. PICK d \in call[c].todo :
          /\ \A x \in Doc : x # d => doc'[x] = doc[x]
          /\ doc'[d] = IF Retryable(d) THEN [doc[d] EXCEPT !.status = "FETCHING"] ELSE doc[d]
          /\ \/ call'[c].at = "claim" /\ call'[c].cur = call[c].cur
             \/ call'[c].at \in {"idle", "next"}
    BY <1>2, ClaimForm
  <2>2. /\ UNCHANGED failed
        /\ \A b \in Caller : b # c => call'[b] = call[b]
    BY <1>2, ClaimForm
  <2>3. d \in Doc
    BY InHandIs
  <2>4. RowKnown(d) /\ doc[d] \in DocState /\ failed[d] \in Nat
    BY <2>3, KnownParts, Rows
  <2>5. RowKnown(d)'
    BY <2>1, <2>2, <2>4 DEF RowKnown, DocState
  <2>6. CallKnown(c)'
    BY <2>1 DEF CallKnown
  <2> QED
    BY <2>1, <2>2, <2>3, <2>4, <2>5, <2>6, KnownAfter
<1> QED
  BY <1>1, <1>2

LEMMA KnownMarks ==
  ASSUME TypeOK, TypeOK', Known, NEW c \in Caller, Mark(c) \/ Fetch(c)
  PROVE  Known'
<1>1. PICK status \in InFlight : Turns(call[c].cur, status) /\ call[c].at \in {"mark", "fetch"}
  BY DEF Mark, Fetch, Cur, InFlight
<1>2. PICK d \in Doc : d = call[c].cur /\ call[c] \in CallState
  BY <1>1, InHandIs DEF InHand
<1>3. RowKnown(d) /\ CallKnown(c) /\ doc[d] \in DocState /\ doc[d].retries \in Nat /\ failed[d] \in Nat
  BY <1>2, KnownParts, Rows
<1>4. /\ doc'[d] = [doc[d] EXCEPT !.status = status]
      /\ \A x \in Doc : x # d => doc'[x] = doc[x]
  BY <1>1, <1>2, Turned DEF Turns
<1>5. UNCHANGED failed
  BY DEF Mark, Fetch
<1>6. RowKnown(d)'
  BY <1>3, <1>4, <1>5 DEF RowKnown, DocState, InFlight
<1>7. \A b \in Caller : b # c => call'[b] = call[b]
  BY MarkTypes, FetchTypes
<1>8. CallKnown(c)'
  <2>1. CASE Mark(c)
    <3>1. call'[c] = [call[c] EXCEPT !.at = "fetch", !.had = doc[d].retries]
      BY <1>2, <2>1, MarkTypes
    <3>2. call'[c].at = "fetch" /\ call'[c].had = doc[d].retries /\ call'[c].cur = d
      BY <1>2, <3>1 DEF CallState
    <3> QED
      BY <1>3, <1>5, <3>2 DEF CallKnown, RowKnown
  <2>2. CASE Fetch(c)
    <3>1. call[c].at = "fetch" /\ call'[c] = [call[c] EXCEPT !.at = "parse"]
      BY <2>2, FetchTypes DEF Fetch
    <3>2. call'[c].at = "parse" /\ call'[c].had = call[c].had /\ call'[c].cur = d
      BY <1>2, <3>1 DEF CallState
    <3> QED
      BY <1>2, <1>3, <1>5, <3>1, <3>2 DEF CallKnown
  <2> QED
    BY <2>1, <2>2
<1> QED
  BY <1>2, <1>3, <1>4, <1>5, <1>6, <1>7, <1>8, KnownAfter

(* The end of a parse.                                                     *)
LEMMA KnownPasses ==
  ASSUME TypeOK, TypeOK', Known, NEW c \in Caller, call[c].at \in InHand, Passes(c),
         NEW row \in DocState, Becomes(call[c].cur, row),
         \A x \in Doc : x # call[c].cur => failed'[x] = failed[x],
         failed'[call[c].cur] >= failed[call[c].cur],
         row.retries <= failed'[call[c].cur],
         row.status = "SKIPPED" => failed'[call[c].cur] >= MaxRetry \/ row.parsed
  PROVE  Known'
<1>1. PICK d \in Doc : d = call[c].cur
  BY InHandIs
<1>2. doc'[d] = row /\ \A x \in Doc : x # d => doc'[x] = doc[x]
  BY <1>1, Turned
<1>3. RowKnown(d)' /\ failed'[d] >= failed[d]
  BY <1>1, <1>2 DEF RowKnown
<1>4. /\ call'[c].at \in {"idle", "next"}
      /\ \A b \in Caller : b # c => call'[b] = call[b]
  BY Passed DEF TypeOK
<1>5. CallKnown(c)'
  BY <1>4 DEF CallKnown
<1> QED
  BY <1>1, <1>2, <1>3, <1>4, <1>5, KnownAfter

LEMMA KnownFails ==
  ASSUME TypeOK, TypeOK', Known, NEW c \in Caller, FetchFails(c) \/ ParseFails(c) \/ QuotaFails(c)
  PROVE  Known'
<1>1. PICK d \in Doc : d = call[c].cur /\ call[c].at \in {"fetch", "parse"} /\ call[c].had \in Nat
  BY InHandIs DEF FetchFails, ParseFails, QuotaFails, InHand
<1>2. /\ RowKnown(d) /\ CallKnown(c) /\ doc[d] \in DocState
      /\ doc[d].retries \in Nat /\ failed[d] \in Nat /\ Passes(c) /\ call[c].at \in InHand
  BY <1>1, KnownParts, Rows DEF FetchFails, ParseFails, QuotaFails, Fail, InHand
<1>3. PICK status \in Fails, n \in {call[c].had, call[c].had + 1} :
        /\ Becomes(d, [doc[d] EXCEPT !.retries = n,
             !.status = IF n >= MaxRetry THEN "SKIPPED" ELSE status])
        /\ failed' = IF n = call[c].had THEN failed ELSE [failed EXCEPT ![d] = @ + 1]
  <2>1. CASE QuotaFails(c)
    BY <1>1, <2>1 DEF QuotaFails, Cur, Refused, Fails
  <2>2. CASE FetchFails(c) \/ ParseFails(c)
    <3>1. PICK status \in Fails : Fail(c, status)
      BY <2>2 DEF FetchFails, ParseFails, Fails
    <3>2. /\ Becomes(d, [doc[d] EXCEPT !.retries = call[c].had + 1,
               !.status = IF call[c].had + 1 >= MaxRetry THEN "SKIPPED" ELSE status])
          /\ failed' = [failed EXCEPT ![d] = @ + 1]
      BY <1>1, <3>1 DEF Fail, Cur
    <3>3. call[c].had + 1 # call[c].had
      BY <1>1
    <3> QED
      BY <3>2, <3>3
  <2> QED
    BY <2>1, <2>2
<1>4. n \in Nat
  BY <1>1
<1> DEFINE row == [doc[d] EXCEPT !.retries = n,
                     !.status = IF n >= MaxRetry THEN "SKIPPED" ELSE status]
<1>5. /\ row \in DocState /\ row.retries = n
      /\ row.status = "SKIPPED" => n >= MaxRetry
  BY <1>2, <1>4 DEF DocState, Fails
<1>6. /\ \A x \in Doc : x # d => failed'[x] = failed[x]
      /\ failed'[d] \in Nat /\ failed'[d] >= failed[d] /\ n <= failed'[d] /\ n \in Nat
  BY <1>1, <1>2, <1>3 DEF CallKnown, TypeOK, Filings
<1>7. Becomes(call[c].cur, row)
  BY <1>1, <1>3
<1> HIDE DEF row
<1>8. row.status = "SKIPPED" => failed'[d] >= MaxRetry
  BY <1>5, <1>6, Constants
<1> QED
  BY <1>1, <1>2, <1>5, <1>6, <1>7, <1>8, KnownPasses

LEMMA KnownParses ==
  ASSUME TypeOK, TypeOK', Known, NEW c \in Caller, Skip(c) \/ Parse(c) \/ ParseEmpty(c)
  PROVE  Known'
<1>1. PICK d \in Doc : d = call[c].cur /\ call[c].at \in InHand /\ Passes(c)
  BY InHandIs DEF Skip, Parse, ParseEmpty, InHand
<1>2. /\ RowKnown(d) /\ CallKnown(c) /\ doc[d] \in DocState
      /\ doc[d].retries \in Nat /\ failed[d] \in Nat /\ UNCHANGED failed
  BY <1>1, KnownParts, Rows DEF Skip, Parse, ParseEmpty
<1>3. PICK row \in DocState :
        /\ Becomes(d, row) /\ row.retries = doc[d].retries
        /\ row.parsed \/ call[c].at = "skip"
  <2>1. CASE Skip(c)
    <3> DEFINE row == [doc[d] EXCEPT !.status = "SKIPPED"]
    <3>1. row \in DocState /\ row.retries = doc[d].retries
      BY <1>2 DEF DocState
    <3>2. Becomes(d, row) /\ call[c].at = "skip"
      BY <1>1, <2>1 DEF Skip, Turns, Cur
    <3> QED
      BY <3>1, <3>2
  <2>2. ASSUME NEW status \in {"DONE", "SKIPPED"},
               Becomes(d, [doc[d] EXCEPT !.status = status, !.parsed = TRUE])
        PROVE  \E row \in DocState :
                 Becomes(d, row) /\ row.retries = doc[d].retries /\ row.parsed
    <3> DEFINE row == [doc[d] EXCEPT !.status = status, !.parsed = TRUE]
    <3>1. row \in DocState /\ row.retries = doc[d].retries /\ row.parsed
      BY <1>2 DEF DocState
    <3> QED
      BY <2>2, <3>1
  <2>3. CASE Parse(c) \/ ParseEmpty(c)
    BY <1>1, <2>2, <2>3 DEF Parse, ParseEmpty, Cur
  <2> QED
    BY <2>1, <2>3
<1>4. row.status = "SKIPPED" => failed[d] >= MaxRetry \/ row.parsed
  BY <1>1, <1>2, <1>3 DEF CallKnown
<1>5. /\ failed'[d] >= failed[d] /\ row.retries <= failed'[d]
      /\ \A x \in Doc : x # d => failed'[x] = failed[x]
  BY <1>2, <1>3 DEF RowKnown
<1> QED
  BY <1>1, <1>2, <1>3, <1>4, <1>5, KnownPasses

LEMMA StaysKnown ==
  ASSUME TypeOK, TypeOK', Known, [Next]_vars
  PROVE  Known'
<1>1. CASE EventStep \/ UNCHANGED vars
  <2>1. UNCHANGED <<doc, call, failed>>
    BY <1>1, EventIsTyped DEF parses, vars
  <2> QED
    BY <2>1 DEF Known
<1>2. CASE DocStep
  <2>1. CASE Crash
    <3>1. call' = [c \in Caller |-> Free] /\ UNCHANGED <<doc, failed>> /\ Free.at = "idle"
      BY <2>1 DEF Crash, Free
    <3> QED
      BY <3>1 DEF Known
  <2>2. CASE StartDrain
    BY <2>2, KnownBegins, Constants
  <2>3. ASSUME NEW o \in Request, Requests(o)
        PROVE  Known'
    BY <2>3, KnownBegins, Constants
  <2>4. ASSUME NEW d \in Doc, Enqueue(d)
        PROVE  Known'
    <3>1. /\ Becomes(d, [doc[d] EXCEPT !.status = "PENDING"]) /\ UNCHANGED <<call, failed>>
      BY <2>4 DEF Enqueue, Turns
    <3>2. /\ doc'[d] = [doc[d] EXCEPT !.status = "PENDING"]
          /\ \A x \in Doc : x # d => doc'[x] = doc[x]
      BY <3>1, Turned
    <3>3. RowKnown(d) /\ doc[d] \in DocState
      BY KnownParts, Rows
    <3>4. doc'[d].retries = doc[d].retries /\ doc'[d].status = "PENDING"
      BY <3>2, <3>3 DEF DocState
    <3> QED
      BY <3>1, <3>2, <3>3, <3>4 DEF Known
  <2>5. ASSUME NEW c \in Caller, CallStep(c)
        PROVE  Known'
    <3>1. CASE StartRetry(c)
      BY <3>1, KnownBegins
    <3>2. CASE Abort(c)
      <4>1. /\ UNCHANGED <<doc, failed>> /\ call'[c].at \in {"idle", "next"}
            /\ \A b \in Caller : b # c => call'[b] = call[b]
        BY <3>2, Passed DEF Abort, TypeOK
      <4> QED
        BY <4>1, KnownInCall
    <3>3. CASE Claim(c) \/ Look(c)
      BY <3>3, KnownLookClaim
    <3>4. CASE Mark(c) \/ Fetch(c)
      BY <3>4, KnownMarks
    <3>5. CASE FetchFails(c) \/ ParseFails(c) \/ QuotaFails(c)
      BY <3>5, KnownFails
    <3>6. CASE Skip(c) \/ Parse(c) \/ ParseEmpty(c)
      BY <3>6, KnownParses
    <3> QED
      BY <2>5, <3>1, <3>2, <3>3, <3>4, <3>5, <3>6 DEF CallStep, Parsing
  <2> QED
    BY <1>2, <2>1, <2>2, <2>3, <2>4, <2>5 DEF DocStep
<1> QED
  BY <1>1, <1>2, NextIsStep

-----------------------------------------------------------------------------
(* Who fetches or parses a document has it to itself.                      *)
HeldBy(r, d) == d \in r.mine \/ (r.cur = d /\ r.at \in {"fetch", "parse"})

LEMMA HoldsIs ==
  ASSUME NEW c, NEW d
  PROVE  Holds(c, d) <=> HeldBy(call[c], d)
BY DEF Holds, HeldBy

LEMMA OwnedIs ==
  Owned <=> \A c \in Caller, d \in Doc : HeldBy(call[c], d) =>
    /\ doc[d].status \in InFlight /\ doc[d].retries < MaxRetry /\ d \notin stranded
    /\ \A b \in Caller : HeldBy(call[b], d) => b = c
BY DEF Owned, Holds, HeldBy

LEMMA FoundIs ==
  Found <=>
    /\ \A d \in Doc : d \notin stranded /\ doc[d].status \in InFlight =>
         \E c \in Caller : HeldBy(call[c], d)
    /\ \A d \in stranded : doc[d].status \in InFlight
BY DEF Found, Holds, HeldBy

(* What nobody fetches or parses nobody holds.                             *)
LEMMA Unheld ==
  ASSUME TypeOK, Exclusive, NEW d \in Doc, doc[d].status \notin InFlight
  PROVE  /\ \A b \in Caller : ~ HeldBy(call[b], d)
         /\ d \notin stranded
         /\ doc[d].status # "PENDING" => d \notin call["drain"].todo
<1>1. \A b \in Caller : ~ HeldBy(call[b], d)
  BY OwnedIs DEF Exclusive
<1>2. d \notin stranded
  BY FoundIs DEF Exclusive
<1> QED
  BY <1>1, <1>2 DEF Exclusive, Reserved, Drained

LEMMA DrainsPending ==
  ASSUME TypeOK, Exclusive, NEW d \in Doc, ~ HeldBy(call["drain"], d), doc[d].status # "PENDING"
  PROVE  d \notin call["drain"].todo /\ d # call["drain"].cur
<1>1. call["drain"].cur \in Doc <=> call["drain"].at \in InHand
  BY InHandIs, Constants
<1> QED
  BY <1>1 DEF Exclusive, Reserved, Drained, HeldBy, InHand

LEMMA HeldAlone ==
  ASSUME TypeOK, Exclusive, NEW c \in Caller, NEW d \in Doc, HeldBy(call[c], d)
  PROVE  /\ doc[d].status \in InFlight /\ doc[d].retries < MaxRetry /\ d \notin stranded
         /\ \A b \in Caller : b # c => ~ HeldBy(call[b], d)
         /\ c # "drain" => d \notin call["drain"].todo /\ d # call["drain"].cur
<1>1. /\ doc[d].status \in InFlight /\ doc[d].retries < MaxRetry /\ d \notin stranded
      /\ \A b \in Caller : b # c => ~ HeldBy(call[b], d)
  BY OwnedIs DEF Exclusive
<1>2. doc[d].status # "PENDING"
  BY <1>1 DEF InFlight
<1> QED
  BY <1>1, <1>2, DrainsPending, Constants

(* A step of one call, on one document that no other call holds or is      *)
(* going to parse.                                                         *)
LEMMA ExclusiveAfter ==
  ASSUME TypeOK, TypeOK', Exclusive, NEW c \in Caller, c \notin Request, NEW d \in Doc,
         \A b \in Caller : b # c => call'[b] = call[b],
         \A x \in Doc : x # d => /\ doc'[x] = doc[x] /\ failed'[x] = failed[x]
                                 /\ (x \in stranded' <=> x \in stranded)
                                 /\ (HeldBy(call'[c], x) <=> HeldBy(call[c], x)),
         \A b \in Caller : b # c => ~ HeldBy(call[b], d),
         c # "drain" => d \notin call["drain"].todo /\ d # call["drain"].cur,
         failed'[d] = doc'[d].retries, failed'[d] <= MaxRetry,
         HeldBy(call'[c], d) =>
           doc'[d].status \in InFlight /\ doc'[d].retries < MaxRetry /\ d \notin stranded',
         doc'[d].status \in InFlight => HeldBy(call'[c], d) \/ d \in stranded',
         d \in stranded' => doc'[d].status \in InFlight,
         call'[c].at \in {"fetch", "parse"} => call'[c].had = doc'[call'[c].cur].retries,
         c = "drain" => Drained(call["drain"])',
         c \in Retrier => Retried(call'[c])
  PROVE  Exclusive'
<1>1. Owned'
  <2> SUFFICES ASSUME NEW b \in Caller, NEW x \in Doc, HeldBy(call'[b], x)
               PROVE  /\ doc'[x].status \in InFlight /\ doc'[x].retries < MaxRetry /\ x \notin stranded'
                      /\ \A a \in Caller : HeldBy(call'[a], x) => a = b
    BY DEF Owned, Holds, HeldBy
  <2>1. CASE x = d
    <3>1. \A a \in Caller : HeldBy(call'[a], x) => a = c
      BY <2>1
    <3> QED
      BY <2>1, <3>1
  <2>2. CASE x # d
    <3>1. \A a \in Caller : HeldBy(call'[a], x) <=> HeldBy(call[a], x)
      BY <2>2
    <3>2. /\ doc[x].status \in InFlight /\ doc[x].retries < MaxRetry /\ x \notin stranded
          /\ \A a \in Caller : a # b => ~ HeldBy(call[a], x)
      BY <3>1, HeldAlone
    <3> QED
      BY <2>2, <3>1, <3>2
  <2> QED
    BY <2>1, <2>2
<1>2. Found'
  <2>1. ASSUME NEW x \in Doc, x \notin stranded', doc'[x].status \in InFlight
        PROVE  \E b \in Caller : HeldBy(call'[b], x)
    <3>1. CASE x = d
      BY <2>1, <3>1
    <3>2. CASE x # d
      <4>1. PICK b \in Caller : HeldBy(call[b], x)
        BY <2>1, <3>2, FoundIs DEF Exclusive
      <4> QED
        BY <3>2, <4>1
    <3> QED
      BY <3>1, <3>2
  <2>2. ASSUME NEW x \in stranded'
        PROVE  doc'[x].status \in InFlight
    <3>1. x \in Doc
      BY DEF TypeOK, Filings
    <3> QED
      BY <3>1, FoundIs DEF Exclusive
  <2> QED
    BY <2>1, <2>2 DEF Found, Holds, HeldBy
<1>3. Counted'
  <2>1. \A x \in Doc : failed'[x] = doc'[x].retries /\ failed'[x] <= MaxRetry
    BY DEF Exclusive, Counted
  <2>2. ASSUME NEW b \in Caller, call'[b].at \in {"fetch", "parse"}
        PROVE  call'[b].had = doc'[call'[b].cur].retries
    <3>1. CASE b = c
      BY <2>2, <3>1
    <3>2. CASE b # c
      <4>1. call'[b] = call[b] /\ call[b].cur \in Doc
        BY <2>2, <3>2, InHandIs DEF InHand
      <4>2. call[b].cur # d
        BY <2>2, <3>2, <4>1 DEF HeldBy
      <4> QED
        BY <2>2, <4>1, <4>2 DEF Exclusive, Counted
    <3> QED
      BY <3>1, <3>2
  <2> QED
    BY <2>1, <2>2 DEF Counted
<1>4. Reserved'
  <2>1. \A o \in Request : call'[o] = Free
    BY Constants DEF Exclusive, Reserved
  <2>2. Drained(call["drain"])'
    <3>1. ASSUME c # "drain"
          PROVE  Drained(call["drain"])'
      <4>1. /\ call'["drain"] = call["drain"] /\ Drained(call["drain"])
            /\ d \notin call["drain"].todo /\ d # call["drain"].cur
        BY <3>1, Constants DEF Exclusive, Reserved
      <4>2. /\ call["drain"].todo \subseteq Doc
            /\ call["drain"].at \in {"skip", "mark"} => call["drain"].cur \in Doc
        BY InHandIs, Constants DEF InHand
      <4> QED
        BY <4>1, <4>2 DEF Drained
    <3> QED
      BY <3>1
  <2>3. \A b \in Retrier : Retried(call'[b])
    BY Constants DEF Exclusive, Reserved
  <2> QED
    BY <2>1, <2>2, <2>3 DEF Reserved, Retried
<1> QED
  BY <1>1, <1>2, <1>3, <1>4 DEF Exclusive

LEMMA AtWork ==
  ASSUME Exclusive, NEW c \in Caller, call[c].at # "idle"
  PROVE  /\ c \notin Request /\ (c # "drain" => c \in Retrier)
         /\ c \in Retrier => c # "drain" /\ Retried(call[c])
BY Constants DEF Exclusive, Reserved, Free, Caller

LEMMA PassesIdle ==
  ASSUME TypeOK, NEW c \in Caller, Passes(c), call'[c].at = "idle"
  PROVE  call[c].todo = {}
<1> DEFINE r == Parses(call[c].todo, call[c].mine \ {call[c].cur})
<1>1. Calls(c, r)
  BY DEF Passes
<1>2. call[c].todo # {} => r.at = "next"
  BY DEF Parses, Free
<1> HIDE DEF r
<1>3. call'[c] = r
  BY <1>1, CallMoves
<1> QED
  BY <1>2, <1>3

(* What a call that works on a document knows of it.                       *)
LEMMA InHandAlone ==
  ASSUME TypeOK, Exclusive, NEW c \in Caller, NEW d \in Doc, d = call[c].cur, call[c].at \in InHand
  PROVE  /\ c # "drain" \/ call[c].at \in {"fetch", "parse"} => HeldBy(call[c], d)
         /\ ~ HeldBy(call[c], d) => doc[d].status = "PENDING"
         /\ \A b \in Caller : b # c => ~ HeldBy(call[b], d)
         /\ d \notin stranded
         /\ c # "drain" => d \notin call["drain"].todo /\ d # call["drain"].cur
<1>1. call[c].at # "idle" /\ call[c].at # "claim"
  BY DEF InHand
<1>2. c # "drain" \/ call[c].at \in {"fetch", "parse"} => HeldBy(call[c], d)
  BY <1>1, AtWork DEF HeldBy, Retried
<1>3. ~ HeldBy(call[c], d) => doc[d].status = "PENDING"
  BY <1>1, <1>2 DEF Exclusive, Reserved, Drained, InHand
<1>4. CASE HeldBy(call[c], d)
  BY <1>2, <1>4, HeldAlone
<1>5. CASE ~ HeldBy(call[c], d)
  BY <1>2, <1>3, <1>5, Unheld DEF InFlight
<1> QED
  BY <1>4, <1>5

LEMMA ExclusivePasses ==
  ASSUME TypeOK, TypeOK', Exclusive, NEW c \in Caller, NEW d \in Doc, d = call[c].cur,
         call[c].at \in InHand, Passes(c),
         \A x \in Doc : x # d => /\ doc'[x] = doc[x] /\ failed'[x] = failed[x]
                                 /\ (x \in stranded' <=> x \in stranded),
         failed'[d] = doc'[d].retries, failed'[d] <= MaxRetry,
         doc'[d].status \in InFlight <=> d \in stranded'
  PROVE  Exclusive'
<1>1. /\ call'[c].at \in {"idle", "next"} /\ call'[c].cur = NoDoc
      /\ call'[c].todo = call[c].todo
      /\ call'[c].mine = IF call[c].todo = {} THEN {} ELSE call[c].mine \ {d}
      /\ \A b \in Caller : b # c => call'[b] = call[b]
  BY Passed DEF TypeOK
<1>2. c \notin Request /\ (c # "drain" => c \in Retrier) /\ call[c].at # "claim"
  BY AtWork DEF InHand
<1>3. /\ d \notin call[c].todo
      /\ c = "drain" => call[c].mine = {}
      /\ c \in Retrier => /\ call[c].todo \subseteq call[c].mine
                          /\ call[c].mine \subseteq call[c].todo \cup {d}
  BY <1>2 DEF Exclusive, Reserved, Drained, Retried
<1>4. call'[c].mine = call[c].mine \ {d}
  BY <1>1, <1>2, <1>3
<1>5. \A x \in Doc : x # d => (HeldBy(call'[c], x) <=> HeldBy(call[c], x))
  BY <1>1, <1>4 DEF HeldBy
<1>6. ~ HeldBy(call'[c], d)
  BY <1>1, <1>4 DEF HeldBy
<1>7. call[c].todo \subseteq Doc /\ NoDoc \notin call[c].todo
  BY InHandIs, Constants
<1>8. c = "drain" => Drained(call["drain"])'
  <2>1. ASSUME c = "drain"
        PROVE  Drained(call["drain"])'
    <3>1. \A x \in call[c].todo : doc[x].status = "PENDING" /\ doc'[x] = doc[x]
      BY <1>3, <1>7, <2>1 DEF Exclusive, Reserved, Drained
    <3> QED
      BY <1>1, <1>3, <1>4, <1>7, <2>1, <3>1 DEF Drained
  <2> QED
    BY <2>1
<1>9. c \in Retrier => Retried(call'[c])
  BY <1>1, <1>3, <1>4, <1>7, PassesIdle DEF Retried, InHand
<1> QED
  BY <1>1, <1>2, <1>5, <1>6, <1>8, <1>9, InHandAlone, ExclusiveAfter

LEMMA ExclusiveFails ==
  ASSUME TypeOK, TypeOK', Exclusive, NEW c \in Caller, FetchFails(c) \/ ParseFails(c) \/ QuotaFails(c)
  PROVE  Exclusive'
<1>1. PICK d \in Doc : /\ d = call[c].cur /\ call[c].at \in {"fetch", "parse"}
                       /\ call[c].had \in Nat /\ call[c].at \in InHand /\ Passes(c)
  BY InHandIs DEF FetchFails, ParseFails, QuotaFails, Fail, InHand
<1>2. /\ doc[d].retries < MaxRetry /\ d \notin stranded
      /\ call[c].had = doc[d].retries /\ failed[d] = doc[d].retries
  BY <1>1, InHandAlone, HeldAlone DEF Exclusive, Counted
<1>3. /\ doc[d] \in DocState /\ failed \in [Doc -> Nat] /\ stranded' = stranded
  BY Rows DEF TypeOK, Filings, FetchFails, ParseFails, QuotaFails, Fail
<1>4. ASSUME NEW n \in Nat, NEW status \in Fails,
             Becomes(d, [doc[d] EXCEPT !.retries = n,
               !.status = IF n >= MaxRetry THEN "SKIPPED" ELSE status])
      PROVE  /\ doc'[d].retries = n /\ doc'[d].status \notin InFlight
             /\ \A x \in Doc : x # d => doc'[x] = doc[x]
  <2> DEFINE row == [doc[d] EXCEPT !.retries = n,
                       !.status = IF n >= MaxRetry THEN "SKIPPED" ELSE status]
  <2>1. row.retries = n /\ row.status \notin InFlight
    BY <1>3 DEF DocState, Fails, InFlight
  <2>2. Becomes(d, row)
    BY <1>4
  <2> HIDE DEF row
  <2> QED
    BY <2>1, <2>2, Turned
<1>5. /\ \A x \in Doc : x # d => doc'[x] = doc[x] /\ failed'[x] = failed[x]
      /\ doc'[d].status \notin InFlight /\ failed'[d] = doc'[d].retries /\ failed'[d] <= MaxRetry
  <2>1. CASE QuotaFails(c)
    <3>1. /\ Becomes(d, [doc[d] EXCEPT !.retries = call[c].had,
               !.status = IF call[c].had >= MaxRetry THEN "SKIPPED" ELSE "FETCH_FAILED"])
          /\ failed' = failed /\ "FETCH_FAILED" \in Fails
      BY <1>1, <2>1 DEF QuotaFails, Cur, Refused, Fails
    <3>2. /\ doc'[d].retries = call[c].had /\ doc'[d].status \notin InFlight
          /\ \A x \in Doc : x # d => doc'[x] = doc[x]
      BY <1>1, <1>4, <3>1
    <3> QED
      BY <1>2, <1>3, <3>1, <3>2, Constants
  <2>2. CASE FetchFails(c) \/ ParseFails(c)
    <3>1. PICK status \in Fails : Fail(c, status)
      BY <2>2 DEF FetchFails, ParseFails, Fails
    <3>2. /\ Becomes(d, [doc[d] EXCEPT !.retries = call[c].had + 1,
               !.status = IF call[c].had + 1 >= MaxRetry THEN "SKIPPED" ELSE status])
          /\ failed' = [failed EXCEPT ![d] = @ + 1] /\ call[c].had + 1 \in Nat
      BY <1>1, <3>1 DEF Fail, Cur
    <3>3. /\ doc'[d].retries = call[c].had + 1 /\ doc'[d].status \notin InFlight
          /\ \A x \in Doc : x # d => doc'[x] = doc[x]
      BY <1>4, <3>2
    <3>4. failed'[d] = failed[d] + 1 /\ \A x \in Doc : x # d => failed'[x] = failed[x]
      BY <1>3, <3>2
    <3>5. doc[d].retries + 1 <= MaxRetry
      BY <1>1, <1>2, Constants
    <3> QED
      BY <1>2, <3>3, <3>4, <3>5
  <2> QED
    BY <2>1, <2>2
<1> QED
  BY <1>1, <1>2, <1>3, <1>5, ExclusivePasses

LEMMA ExclusiveParses ==
  ASSUME TypeOK, TypeOK', Exclusive, NEW c \in Caller, Skip(c) \/ Parse(c) \/ ParseEmpty(c)
  PROVE  Exclusive'
<1>1. PICK d \in Doc : /\ d = call[c].cur /\ call[c].at \in InHand /\ Passes(c)
                       /\ doc[d] \in DocState /\ UNCHANGED <<failed, stranded>>
  BY InHandIs, Rows DEF Skip, Parse, ParseEmpty, InHand
<1>2. PICK row : /\ Becomes(d, row) /\ row.retries = doc[d].retries
                 /\ row.status \notin InFlight
  <2>1. CASE Skip(c)
    <3> DEFINE row == [doc[d] EXCEPT !.status = "SKIPPED"]
    <3>1. row.retries = doc[d].retries /\ row.status \notin InFlight
      BY <1>1 DEF DocState, InFlight
    <3>2. Becomes(d, row)
      BY <1>1, <2>1 DEF Skip, Turns, Cur
    <3> QED
      BY <3>1, <3>2
  <2>2. ASSUME NEW status \in {"DONE", "SKIPPED"},
               Becomes(d, [doc[d] EXCEPT !.status = status, !.parsed = TRUE])
        PROVE  \E row : /\ Becomes(d, row) /\ row.retries = doc[d].retries
                        /\ row.status \notin InFlight
    <3> DEFINE row == [doc[d] EXCEPT !.status = status, !.parsed = TRUE]
    <3>1. row.retries = doc[d].retries /\ row.status \notin InFlight
      BY <1>1 DEF DocState, InFlight
    <3> QED
      BY <2>2, <3>1
  <2>3. CASE Parse(c) \/ ParseEmpty(c)
    BY <1>1, <2>2, <2>3 DEF Parse, ParseEmpty, Cur
  <2> QED
    BY <2>1, <2>3
<1>3. doc'[d] = row /\ \A x \in Doc : x # d => doc'[x] = doc[x]
  BY <1>2, Turned
<1>4. failed'[d] = doc'[d].retries /\ failed'[d] <= MaxRetry
  BY <1>1, <1>2, <1>3 DEF Exclusive, Counted
<1>5. d \notin stranded
  BY <1>1, InHandAlone
<1> QED
  BY <1>1, <1>2, <1>3, <1>4, <1>5, ExclusivePasses

LEMMA ExclusiveAborts ==
  ASSUME TypeOK, TypeOK', Exclusive, NEW c \in Caller, Abort(c)
  PROVE  Exclusive'
<1>1. PICK d \in Doc : /\ d = call[c].cur /\ call[c].at \in InHand /\ Passes(c)
                       /\ UNCHANGED <<doc, failed>>
                       /\ stranded' = stranded \cup {x \in {d} : doc[x].status \in InFlight}
  BY InHandIs DEF Abort, Cur, InHand
<1>2. d \notin stranded
  BY <1>1, InHandAlone
<1>3. failed'[d] = doc'[d].retries /\ failed'[d] <= MaxRetry
  BY <1>1 DEF Exclusive, Counted
<1> QED
  BY <1>1, <1>2, <1>3, ExclusivePasses

LEMMA ExclusiveStarts ==
  ASSUME TypeOK, TypeOK', Exclusive, NEW c \in Caller, StartRetry(c) \/ (c = "drain" /\ StartDrain)
  PROVE  Exclusive'
<1>1. /\ UNCHANGED <<doc, failed, stranded>> /\ call[c].at = "idle"
      /\ call[c].cur \notin Doc
  BY InHandIs DEF StartRetry, StartDrain, Batch, InHand
<1>2. \A x \in Doc : failed'[x] = doc'[x].retries /\ failed'[x] <= MaxRetry
  BY <1>1 DEF Exclusive, Counted
<1>3. CASE StartRetry(c)
  <2> DEFINE r == [Free EXCEPT !.at = "claim", !.todo = {x \in Doc : Retryable(x)}]
  <2>1. PICK d \in Doc : Retryable(d)
    BY <1>3 DEF StartRetry
  <2>2. r.at = "claim" /\ r.mine = {} /\ r.cur = NoDoc
    BY DEF Free
  <2>3. Calls(c, r) /\ c \in Retrier
    BY <1>3 DEF StartRetry
  <2> HIDE DEF r
  <2>4. call'[c] = r /\ \A b \in Caller : b # c => call'[b] = call[b]
    BY <2>3, CallMoves
  <2>5. call[c].mine = {} /\ c # "drain" /\ c \notin Request
    BY <1>1, <2>3, Constants DEF Exclusive, Reserved, Retried
  <2>6. \A x \in Doc : ~ HeldBy(call'[c], x) /\ ~ HeldBy(call[c], x)
    BY <1>1, <2>2, <2>4, <2>5 DEF HeldBy
  <2>7. doc[d].status \notin InFlight /\ doc[d].status # "PENDING"
    BY <2>1 DEF Retryable, Fails, InFlight
  <2>8. Retried(call'[c])
    BY <2>2, <2>4 DEF Retried
  <2>9. /\ \A b \in Caller : ~ HeldBy(call[b], d)
        /\ d \notin stranded /\ d \notin call["drain"].todo /\ d # call["drain"].cur
    BY <2>7, Unheld, DrainsPending, Constants
  <2> QED
    BY <1>1, <1>2, <2>2, <2>4, <2>5, <2>6, <2>7, <2>8, <2>9, ExclusiveAfter
<1>4. CASE c = "drain" /\ StartDrain
  <2> DEFINE todo == {x \in Doc : doc[x].status = "PENDING"}
  <2> DEFINE r == Parses(todo, {})
  <2>1. PICK d \in Doc : doc[d].status = "PENDING"
    BY <1>4 DEF StartDrain, Batch
  <2>2. todo \in SUBSET Doc /\ {} \in SUBSET Doc
    OBVIOUS
  <2> HIDE DEF todo
  <2>3. /\ r.at \in {"idle", "next"} /\ r.cur = NoDoc /\ r.todo = todo
        /\ r.mine = IF todo = {} THEN {} ELSE {}
    BY <2>2, Resting
  <2>4. Calls(c, r)
    BY <1>4 DEF StartDrain, Batch, todo
  <2> HIDE DEF r
  <2>5. call'[c] = r /\ \A b \in Caller : b # c => call'[b] = call[b]
    BY <2>4, CallMoves
  <2>6. call[c].mine = {}
    BY <1>4 DEF Exclusive, Reserved, Drained
  <2>7. \A x \in Doc : ~ HeldBy(call'[c], x) /\ ~ HeldBy(call[c], x)
    BY <1>1, <2>3, <2>5, <2>6 DEF HeldBy
  <2>8. doc[d].status \notin InFlight
    BY <2>1 DEF InFlight
  <2>9. Drained(call["drain"])'
    <3>1. NoDoc \notin todo /\ \A x \in todo : doc'[x].status = "PENDING"
      BY <1>1, Constants DEF todo
    <3> QED
      BY <1>4, <2>3, <2>5, <3>1 DEF Drained
  <2>10. c \notin Request /\ c \notin Retrier
    BY <1>4, Constants
  <2>11. \A b \in Caller : ~ HeldBy(call[b], d)
    BY <2>8, Unheld
  <2>12. d \notin stranded
    BY <2>8, Unheld
  <2> QED
    BY <1>1, <1>2, <1>4, <2>3, <2>5, <2>7, <2>8, <2>9, <2>10, <2>11, <2>12, ExclusiveAfter
<1> QED
  BY <1>3, <1>4

LEMMA ExclusiveLooks ==
  ASSUME TypeOK, TypeOK', Exclusive, NEW c \in Caller, Look(c)
  PROVE  Exclusive'
<1>1. PICK d \in call[c].todo :
        \/ /\ doc[d].status = "DONE" /\ call'[c].at \in {"idle", "next"}
        \/ /\ doc[d].status # "DONE"
           /\ call'[c] = [call[c] EXCEPT
                !.at = IF doc[d].retries >= MaxRetry THEN "skip" ELSE "mark",
                !.todo = call[c].todo \ {d}, !.cur = d]
  BY LookForm
<1>2. /\ call[c].at = "next" /\ UNCHANGED <<doc, failed, stranded>>
      /\ \A b \in Caller : b # c => call'[b] = call[b]
  BY LookForm
<1>3. /\ d \in Doc /\ call[c] \in CallState /\ call[c].mine \subseteq Doc /\ call[c].cur = NoDoc
      /\ call[c].todo \subseteq Doc /\ doc[d].retries \in Nat
  BY <1>2, InHandIs, Rows DEF InHand
<1>4. c \notin Request /\ (c # "drain" => c \in Retrier) /\ (c \in Retrier => c # "drain")
  BY <1>2, AtWork
<1>5. c = "drain" => doc[d].status = "PENDING" /\ call[c].mine = {}
  BY <1>1 DEF Exclusive, Reserved, Drained
<1>6. c \in Retrier => call[c].todo \subseteq call[c].mine /\ call[c].mine \subseteq call[c].todo
  BY <1>2, <1>3, Constants DEF Exclusive, Reserved, Retried
<1>7. c \in Retrier => HeldBy(call[c], d)
  BY <1>6 DEF HeldBy
<1>8. c \in Retrier => doc[d].status \in InFlight /\ doc[d].retries < MaxRetry
  BY <1>3, <1>7, HeldAlone
<1>9. doc[d].status # "DONE"
  BY <1>4, <1>5, <1>8 DEF InFlight
<1>10. /\ call'[c].at = IF doc[d].retries >= MaxRetry THEN "skip" ELSE "mark"
       /\ call'[c].todo = call[c].todo \ {d} /\ call'[c].cur = d /\ call'[c].mine = call[c].mine
  BY <1>1, <1>3, <1>9 DEF CallState
<1>11. \A x \in Doc : HeldBy(call'[c], x) <=> HeldBy(call[c], x)
  BY <1>2, <1>10 DEF HeldBy
<1>12. /\ \A b \in Caller : b # c => ~ HeldBy(call[b], d)
       /\ d \notin stranded
       /\ c # "drain" => d \notin call["drain"].todo /\ d # call["drain"].cur
  <2>1. CASE c = "drain"
    BY <1>3, <1>5, <2>1, Unheld DEF InFlight
  <2>2. CASE c # "drain"
    BY <1>3, <1>4, <1>7, <2>2, HeldAlone
  <2> QED
    BY <2>1, <2>2
<1>13. failed'[d] = doc'[d].retries /\ failed'[d] <= MaxRetry
  BY <1>2, <1>3 DEF Exclusive, Counted
<1>14. c = "drain" => Drained(call["drain"])'
  <2>1. ASSUME c = "drain"
        PROVE  Drained(call["drain"])'
    <3>1. \A x \in call[c].todo : doc'[x].status = "PENDING"
      BY <1>2, <2>1 DEF Exclusive, Reserved, Drained
    <3>2. call'[c].at = "mark" => doc[d].retries < MaxRetry
      BY <1>3, <1>10, Constants
    <3>3. call'[c].at # "claim" /\ call'[c].mine = {}
      BY <1>5, <1>10, <2>1
    <3> QED
      BY <1>2, <1>5, <1>10, <2>1, <3>1, <3>2, <3>3 DEF Drained
  <2> QED
    BY <2>1
<1>15. c \in Retrier => Retried(call'[c])
  <2>1. ASSUME c \in Retrier
        PROVE  Retried(call'[c])
    <3>1. call'[c].at = "mark"
      BY <1>3, <1>8, <1>10, <2>1, Constants
    <3>2. d \in call'[c].mine
      BY <1>6, <1>10, <2>1
    <3> QED
      BY <1>6, <1>10, <2>1, <3>1, <3>2 DEF Retried
  <2> QED
    BY <2>1
<1>16. HeldBy(call[c], d) => doc[d].status \in InFlight /\ doc[d].retries < MaxRetry
  BY <1>3, HeldAlone
<1>17. doc[d].status \in InFlight => HeldBy(call[c], d)
  BY <1>4, <1>5, <1>7 DEF InFlight
<1>18. call'[c].at \notin {"fetch", "parse"}
  BY <1>10
<1> QED
  BY <1>2, <1>3, <1>4, <1>11, <1>12, <1>13, <1>14, <1>15, <1>16, <1>17, <1>18, ExclusiveAfter

(* Nothing changes but what a retry has asked for.                         *)
LEMMA SameHands ==
  ASSUME TypeOK, TypeOK', Exclusive, NEW c \in Caller, c \notin Request, c # "drain",
         UNCHANGED <<doc, failed, stranded>>,
         \A b \in Caller : b # c => call'[b] = call[b],
         \A x \in Doc : HeldBy(call'[c], x) <=> HeldBy(call[c], x),
         call'[c].at \notin {"fetch", "parse"}, Retried(call'[c])
  PROVE  Exclusive'
<1>1. \A b \in Caller, x \in Doc : HeldBy(call'[b], x) <=> HeldBy(call[b], x)
  OBVIOUS
<1>2. Owned'
  <2> SUFFICES ASSUME NEW b \in Caller, NEW x \in Doc, HeldBy(call'[b], x)
               PROVE  /\ doc'[x].status \in InFlight /\ doc'[x].retries < MaxRetry /\ x \notin stranded'
                      /\ \A a \in Caller : HeldBy(call'[a], x) => a = b
    BY DEF Owned, Holds, HeldBy
  <2> QED
    BY <1>1, HeldAlone
<1>3. Found'
  <2>1. ASSUME NEW x \in Doc, x \notin stranded', doc'[x].status \in InFlight
        PROVE  \E b \in Caller : HeldBy(call'[b], x)
    BY <1>1, <2>1, FoundIs DEF Exclusive
  <2> QED
    BY <2>1, FoundIs DEF Exclusive, Found, Holds, HeldBy
<1>4. Counted'
  BY DEF Exclusive, Counted
<1>5. Reserved'
  <2>1. (\A o \in Request : call'[o] = call[o]) /\ call'["drain"] = call["drain"]
    BY Constants
  <2>2. \A b \in Retrier : Retried(call'[b])
    BY Constants DEF Exclusive, Reserved
  <2> QED
    BY <2>1, <2>2 DEF Exclusive, Reserved, Drained, Retried
<1> QED
  BY <1>2, <1>3, <1>4, <1>5 DEF Exclusive

LEMMA ExclusiveClaims ==
  ASSUME TypeOK, TypeOK', Exclusive, NEW c \in Caller, Claim(c)
  PROVE  Exclusive'
<1>1. /\ call[c].at = "claim" /\ UNCHANGED <<failed, stranded>>
      /\ \A b \in Caller : b # c => call'[b] = call[b]
  BY ClaimForm
<1>2. PICK d \in call[c].todo :
        /\ \A x \in Doc : x # d => doc'[x] = doc[x]
        /\ doc'[d] = IF Retryable(d) THEN [doc[d] EXCEPT !.status = "FETCHING"] ELSE doc[d]
        /\ call'[c].mine = call[c].mine \cup {x \in {d} : Retryable(d)}
        /\ \/ call'[c].at = "claim" /\ call'[c].cur = call[c].cur
           \/ /\ call'[c].at \in {"idle", "next"} /\ call'[c].cur = NoDoc
              /\ call'[c].todo = call'[c].mine
              /\ call'[c].at = "idle" => call'[c].mine = {}
  BY ClaimForm
<1>3. d \in Doc /\ doc[d] \in DocState /\ call[c].cur = NoDoc
  BY <1>1, InHandIs, Rows DEF InHand
<1>4. c \notin Request /\ c # "drain"
  BY <1>1, AtWork DEF Exclusive, Reserved, Drained
<1>5. Retried(call'[c])
  BY <1>2, Constants, InHandIs DEF Retried, InHand
<1>6. call'[c].at \notin {"fetch", "parse"} /\ call[c].at \notin {"fetch", "parse"}
  BY <1>1, <1>2
<1>7. CASE Retryable(d)
  <2>1. /\ doc[d].status \notin InFlight /\ doc[d].status # "PENDING"
        /\ doc[d].retries < MaxRetry
    BY <1>7 DEF Retryable, Fails, InFlight
  <2>2. \A b \in Caller : ~ HeldBy(call[b], d)
    BY <1>3, <2>1, Unheld
  <2>3. d \notin stranded
    BY <1>3, <2>1, Unheld
  <2>4. d \notin call["drain"].todo /\ d # call["drain"].cur
    BY <1>3, <2>1, <2>2, DrainsPending, Constants
  <2>5. doc'[d].status \in InFlight /\ doc'[d].retries = doc[d].retries
    BY <1>2, <1>3, <1>7 DEF DocState, InFlight
  <2>6. failed'[d] = doc'[d].retries /\ failed'[d] <= MaxRetry
    BY <1>1, <1>3, <2>5 DEF Exclusive, Counted
  <2>7. HeldBy(call'[c], d) /\ \A x \in Doc : x # d => (HeldBy(call'[c], x) <=> HeldBy(call[c], x))
    BY <1>2, <1>6, <1>7 DEF HeldBy
  <2> QED
    BY <1>1, <1>2, <1>3, <1>4, <1>5, <1>6, <2>1, <2>2, <2>3, <2>4, <2>5, <2>6, <2>7, ExclusiveAfter
<1>8. CASE ~ Retryable(d)
  <2>1. doc' = doc /\ call'[c].mine = call[c].mine
    BY <1>2, <1>8 DEF TypeOK, Filings
  <2>2. \A x \in Doc : HeldBy(call'[c], x) <=> HeldBy(call[c], x)
    BY <1>6, <2>1 DEF HeldBy
  <2> QED
    BY <1>1, <1>4, <1>5, <1>6, <2>1, <2>2, SameHands
<1> QED
  BY <1>7, <1>8

(* The document in hand is marked, and after it was fetched again.         *)
LEMMA ExclusiveMarks ==
  ASSUME TypeOK, TypeOK', Exclusive, NEW c \in Caller, Mark(c) \/ Fetch(c)
  PROVE  Exclusive'
<1>1. PICK status \in InFlight : /\ Turns(call[c].cur, status) /\ call[c].at \in {"mark", "fetch"}
                                 /\ UNCHANGED <<failed, stranded>>
  BY DEF Mark, Fetch, Cur, InFlight
<1>2. PICK d \in Doc : d = call[c].cur /\ call[c] \in CallState /\ doc[d] \in DocState
  BY <1>1, InHandIs, Rows DEF InHand
<1>3. /\ doc'[d] = [doc[d] EXCEPT !.status = status]
      /\ \A x \in Doc : x # d => doc'[x] = doc[x]
  BY <1>1, <1>2, Turned DEF Turns
<1>4. doc'[d].status \in InFlight /\ doc'[d].retries = doc[d].retries
  BY <1>1, <1>2, <1>3 DEF DocState
<1>5. \A b \in Caller : b # c => call'[b] = call[b]
  BY MarkTypes, FetchTypes
<1>6. /\ call'[c].at \in {"fetch", "parse"} /\ call'[c].had = doc[d].retries
      /\ call'[c].cur = d /\ call'[c].todo = call[c].todo /\ call'[c].mine = call[c].mine
  <2>1. CASE Mark(c)
    <3>1. call'[c] = [call[c] EXCEPT !.at = "fetch", !.had = doc[call[c].cur].retries]
      BY <2>1, MarkTypes
    <3> QED
      BY <1>2, <3>1 DEF CallState
  <2>2. CASE Fetch(c)
    <3>1. call[c].at = "fetch" /\ call'[c] = [call[c] EXCEPT !.at = "parse"]
      BY <2>2, FetchTypes DEF Fetch
    <3>2. call[c].had = doc[d].retries
      BY <1>2, <3>1 DEF Exclusive, Counted
    <3> QED
      BY <1>2, <3>1, <3>2 DEF CallState
  <2> QED
    BY <2>1, <2>2
<1>7. call[c].at \in InHand /\ call[c].at # "idle" /\ call[c].at # "claim"
  BY <1>1 DEF InHand
<1>8. /\ c \notin Request /\ (c # "drain" => c \in Retrier)
      /\ c \in Retrier => c # "drain" /\ Retried(call[c])
  BY <1>7, AtWork
<1>9. /\ \A b \in Caller : b # c => ~ HeldBy(call[b], d)
      /\ d \notin stranded
      /\ c # "drain" => d \notin call["drain"].todo /\ d # call["drain"].cur
  BY <1>2, <1>7, InHandAlone
<1>10. doc[d].retries < MaxRetry
  <2>1. CASE HeldBy(call[c], d)
    BY <2>1, HeldAlone
  <2>2. CASE ~ HeldBy(call[c], d)
    <3>1. c = "drain" /\ call[c].at = "mark"
      BY <1>1, <1>2, <1>7, <2>2, InHandAlone
    <3> QED
      BY <1>2, <3>1 DEF Exclusive, Reserved, Drained
  <2> QED
    BY <2>1, <2>2
<1>11. HeldBy(call'[c], d) /\ \A x \in Doc : x # d => (HeldBy(call'[c], x) <=> HeldBy(call[c], x))
  BY <1>2, <1>6 DEF HeldBy
<1>12. failed'[d] = doc'[d].retries /\ failed'[d] <= MaxRetry
  BY <1>1, <1>4 DEF Exclusive, Counted
<1>13. c = "drain" => Drained(call["drain"])'
  <2>1. ASSUME c = "drain"
        PROVE  Drained(call["drain"])'
    <3>1. /\ call[c].mine = {} /\ d \notin call[c].todo /\ call[c].todo \subseteq Doc
          /\ \A x \in call[c].todo : doc[x].status = "PENDING"
      BY <1>2, <2>1, InHandIs DEF Exclusive, Reserved, Drained
    <3>2. \A x \in call'[c].todo : doc'[x].status = "PENDING"
      BY <1>3, <1>6, <3>1
    <3>3. call'[c].at \notin {"claim", "skip", "mark"}
      BY <1>6
    <3> QED
      BY <1>6, <2>1, <3>1, <3>2, <3>3 DEF Drained
  <2> QED
    BY <2>1
<1>14. c \in Retrier => Retried(call'[c])
  BY <1>2, <1>6, <1>7, <1>8 DEF Retried
<1>15. /\ doc'[d].retries < MaxRetry /\ d \notin stranded'
       /\ call'[c].had = doc'[call'[c].cur].retries
  BY <1>1, <1>4, <1>6, <1>9, <1>10
<1>16. \A x \in Doc : x # d => /\ doc'[x] = doc[x] /\ failed'[x] = failed[x]
                               /\ (x \in stranded' <=> x \in stranded)
                               /\ (HeldBy(call'[c], x) <=> HeldBy(call[c], x))
  BY <1>1, <1>3, <1>11
<1> QED
  BY <1>4, <1>5, <1>8, <1>9, <1>11, <1>12, <1>13, <1>14, <1>15, <1>16, ExclusiveAfter

LEMMA ExclusiveElse ==
  ASSUME TypeOK, TypeOK', Exclusive,
         Crash \/ (\E d \in Doc : Enqueue(d)) \/ EventStep \/ UNCHANGED vars
  PROVE  Exclusive'
<1>1. CASE Crash
  <2>1. /\ call' = [c \in Caller |-> Free] /\ UNCHANGED <<doc, failed>>
        /\ stranded' = stranded \cup {d \in Doc : doc[d].status \in InFlight}
    BY <1>1 DEF Crash
  <2>2. /\ Free.at = "idle" /\ Free.mine = {} /\ Free.todo = {} /\ Free.cur = NoDoc
    BY DEF Free
  <2>3. \A c \in Caller, d \in Doc : ~ HeldBy(call'[c], d)
    BY <2>1, <2>2 DEF HeldBy
  <2>4. Owned'
    BY <2>3 DEF Owned, Holds, HeldBy
  <2>5. Found'
    BY <2>1, FoundIs DEF Found, Exclusive
  <2>6. Counted'
    BY <2>1, <2>2 DEF Counted, Exclusive
  <2>7. Reserved'
    BY <2>1, <2>2, Constants DEF Reserved, Drained, Retried, InHand
  <2> QED
    BY <2>4, <2>5, <2>6, <2>7 DEF Exclusive
<1>2. ASSUME NEW d \in Doc, Enqueue(d)
      PROVE  Exclusive'
  <2>1. /\ Becomes(d, [doc[d] EXCEPT !.status = "PENDING"]) /\ doc[d].status = "NONE"
        /\ UNCHANGED <<call, failed, stranded>> /\ doc[d] \in DocState
    BY <1>2, Rows DEF Enqueue, Turns
  <2>2. /\ doc'[d] = [doc[d] EXCEPT !.status = "PENDING"]
        /\ \A x \in Doc : x # d => doc'[x] = doc[x]
    BY <2>1, Turned
  <2>3. doc'[d].status = "PENDING" /\ doc'[d].retries = doc[d].retries
    BY <2>1, <2>2 DEF DocState
  <2>4. "drain" \in Caller /\ "drain" \notin Request /\ "drain" \notin Retrier
    BY Constants
  <2>5. \A b \in Caller : ~ HeldBy(call[b], d)
    BY <2>1, Unheld DEF InFlight
  <2>6. d \notin stranded
    BY <2>1, Unheld DEF InFlight
  <2>7. Drained(call["drain"])'
    <3>1. d # call["drain"].cur /\ d \notin call["drain"].todo
      BY <2>1, <2>5, DrainsPending, Constants
    <3>2. /\ call["drain"].todo \subseteq Doc
          /\ call["drain"].at \in {"skip", "mark"} => call["drain"].cur \in Doc
      BY InHandIs, Constants DEF InHand
    <3> QED
      BY <2>1, <2>2, <3>1, <3>2 DEF Exclusive, Reserved, Drained
  <2>8. failed'[d] = doc'[d].retries /\ failed'[d] <= MaxRetry
    BY <2>1, <2>3 DEF Exclusive, Counted
  <2>9. call'["drain"].at \in {"fetch", "parse"} =>
          call'["drain"].had = doc'[call'["drain"].cur].retries
    <3>1. ASSUME call["drain"].at \in {"fetch", "parse"}
          PROVE  call["drain"].had = doc'[call["drain"].cur].retries
      <4>1. call["drain"].cur \in Doc
        BY <3>1, InHandIs, Constants DEF InHand
      <4>2. call["drain"].had = doc[call["drain"].cur].retries
        BY <2>4, <3>1 DEF Exclusive, Counted
      <4> QED
        BY <2>2, <2>3, <4>1, <4>2
    <3> QED
      BY <2>1, <3>1
  <2>10. doc'[d].status \notin InFlight
    BY <2>3 DEF InFlight
  <2>11. ~ HeldBy(call'["drain"], d) /\ d \notin stranded'
    BY <2>1, <2>4, <2>5, <2>6
  <2> QED
    BY <2>1, <2>2, <2>4, <2>5, <2>7, <2>8, <2>9, <2>10, <2>11, ExclusiveAfter
<1>3. CASE EventStep \/ UNCHANGED vars
  <2>1. UNCHANGED <<doc, call, failed, stranded>>
    BY <1>3, EventIsTyped DEF parses, vars
  <2> QED
    BY <2>1 DEF Exclusive, Owned, Found, Counted, Reserved, Drained, Retried, Holds
<1> QED
  BY <1>1, <1>2, <1>3

LEMMA ManualCounts ==
  ASSUME TypeOK, [Next]_vars, manual' = 0
  PROVE  manual = 0 /\ \A o \in Request : ~ Requests(o)
<1>1. manual \in Nat
  BY Constants DEF TypeOK, Filings
<1>2. \A o \in Request : ~ Requests(o)
  BY <1>1, RequestForm
<1>3. CASE EventStep \/ UNCHANGED vars
  BY <1>2, <1>3, EventIsTyped DEF parses, vars
<1>4. CASE DocStep
  <2>1. ASSUME NEW c \in Caller, CallStep(c)
        PROVE  manual' = manual
    BY <2>1 DEF CallStep, Parsing, StartRetry, Claim, Look, Skip, Mark, Fetch, FetchFails,
         ParseFails, Fail, QuotaFails, Parse, ParseEmpty, Abort
  <2> QED
    BY <1>2, <1>4, <2>1 DEF DocStep, StartDrain, Crash, Enqueue
<1> QED
  BY <1>2, <1>3, <1>4, NextIsStep

LEMMA StaysExclusive ==
  ASSUME TypeOK, TypeOK', Exclusive, [Next]_vars, manual' = 0
  PROVE  Exclusive'
<1>1. CASE EventStep \/ UNCHANGED vars
  BY <1>1, ExclusiveElse
<1>2. CASE DocStep
  <2>1. CASE Crash \/ \E d \in Doc : Enqueue(d)
    BY <2>1, ExclusiveElse
  <2>2. CASE StartDrain
    BY <2>2, ExclusiveStarts, Constants
  <2>3. \A o \in Request : ~ Requests(o)
    BY ManualCounts
  <2>4. ASSUME NEW c \in Caller, CallStep(c)
        PROVE  Exclusive'
    <3>1. CASE StartRetry(c) \/ Abort(c)
      BY <3>1, ExclusiveStarts, ExclusiveAborts
    <3>2. CASE Claim(c) \/ Look(c)
      BY <3>2, ExclusiveClaims, ExclusiveLooks
    <3>3. CASE Mark(c) \/ Fetch(c)
      BY <3>3, ExclusiveMarks
    <3>4. CASE FetchFails(c) \/ ParseFails(c) \/ QuotaFails(c)
      BY <3>4, ExclusiveFails
    <3>5. CASE Skip(c) \/ Parse(c) \/ ParseEmpty(c)
      BY <3>5, ExclusiveParses
    <3> QED
      BY <2>4, <3>1, <3>2, <3>3, <3>4, <3>5 DEF CallStep, Parsing
  <2> QED
    BY <1>2, <2>1, <2>2, <2>3, <2>4 DEF DocStep
<1> QED
  BY <1>1, <1>2, NextIsStep

LEMMA StartsExclusive ==
  ASSUME Init
  PROVE  Known /\ Exclusive
<1>1. /\ Free.at = "idle" /\ Free.mine = {} /\ Free.todo = {} /\ Free.cur = NoDoc
  BY DEF Free
<1>2. Known
  BY <1>1, Constants DEF Init, Known
<1>3. \A c \in Caller, d \in Doc : ~ HeldBy(call[c], d)
  BY <1>1, Constants DEF Init, HeldBy
<1>4. Owned
  BY <1>3 DEF Owned, Holds, HeldBy
<1>5. Found
  BY Constants DEF Init, Found, InFlight
<1>6. Counted
  BY <1>1, Constants DEF Init, Counted
<1>7. Reserved
  BY <1>1, Constants DEF Init, Reserved, Drained, Retried, InHand
<1> QED
  BY <1>2, <1>4, <1>5, <1>6, <1>7 DEF Exclusive

(* The inductive invariant.                                                *)
THEOREM Invariant == Spec => []IInv
<1>1. Init => IInv
  BY StartsTyped, StartsExclusive DEF IInv
<1>2. IInv /\ [Next]_vars => IInv'
  <2> SUFFICES ASSUME IInv, [Next]_vars
               PROVE  IInv'
    OBVIOUS
  <2>1. TypeOK /\ TypeOK' /\ Known /\ (manual = 0 => Exclusive)
    BY StaysTyped DEF IInv
  <2>2. Known'
    BY <2>1, StaysKnown
  <2>3. ASSUME manual' = 0
        PROVE  Exclusive'
    BY <2>1, <2>3, ManualCounts, StaysExclusive
  <2> QED
    BY <2>1, <2>2, <2>3 DEF IInv
<1> QED
  BY <1>1, <1>2, PTL DEF Spec

(* A document is given up after MaxRetry failures of its own, or because   *)
(* it is empty; and unless an operator interferes none is tried more often *)
(* (disclosure-documents.service.ts:220-224, :823).                        *)
THEOREM OnlyForCause == Spec => []GivenUpForCause
<1>1. IInv => GivenUpForCause
  BY DEF IInv, Known, Exclusive, Counted, GivenUpForCause
<1> QED
  BY <1>1, Invariant, PTL

(* As long as no operator asks for a parse or a batch, a document that is  *)
(* being fetched or parsed is in the hands of one call, or its call was    *)
(* lost (disclosure-documents.service.ts:718-726).                         *)
THEOREM OneParserHolds == Spec => []OneParser
<1>1. IInv => OneParser
  <2> SUFFICES ASSUME IInv, manual = 0, NEW d \in Doc \ stranded
               PROVE  Cardinality({c \in Caller : Holds(c, d)})
                        = IF doc[d].status \in InFlight THEN 1 ELSE 0
    BY DEF OneParser
  <2>1. Exclusive
    BY DEF IInv
  <2>2. CASE doc[d].status \in InFlight
    <3>1. PICK c \in Caller : Holds(c, d)
      BY <2>1, <2>2 DEF Exclusive, Found
    <3>2. {b \in Caller : Holds(b, d)} = {c}
      BY <2>1, <3>1 DEF Exclusive, Owned
    <3> QED
      BY <2>2, <3>2, FS_Singleton
  <2>3. CASE doc[d].status \notin InFlight
    <3>1. {b \in Caller : Holds(b, d)} = {}
      BY <2>1, <2>3 DEF Exclusive, Owned
    <3> QED
      BY <2>3, <3>1, FS_EmptySet
  <2> QED
    BY <2>2, <2>3
<1> QED
  BY <1>1, Invariant, PTL
=============================================================================
