------------------------- MODULE StrategyLifecycle -------------------------
(***************************************************************************)
(* What the strategy-version store promises to the rest of the system:     *)
(* the lifecycle of the versions of one strategy, each step atomic.        *)
(*                                                                         *)
(* The forward path is DRAFT -> VALIDATED -> BACKTESTED ->                 *)
(* APPROVAL_PENDING -> APPROVED -> SCHEDULED -> ACTIVE; a review may end   *)
(* in REJECTED, and a version leaves ACTIVE only because another version   *)
(* of the strategy takes its place in the same step.  There is no way      *)
(* back: no code path resets a version to DRAFT, cancels a schedule or     *)
(* rolls an active version back.                                           *)
(*                                                                         *)
(* Module StrategyVersions implements this specification with concurrent   *)
(* database transactions that act on stale reads.                          *)
(***************************************************************************)
CONSTANT Version

VARIABLE stage            \* stage[v]: where version v is in its lifecycle

Stage == {"ABSENT", "DRAFT", "VALIDATED", "BACKTESTED", "APPROVAL_PENDING",
          "APPROVED", "REJECTED", "SCHEDULED", "ACTIVE", "SUPERSEDED"}

(* The steps that concern a single version. *)
ForwardSteps == {<<"ABSENT", "DRAFT">>,
                 <<"DRAFT", "VALIDATED">>,
                 <<"VALIDATED", "BACKTESTED">>,
                 <<"BACKTESTED", "APPROVAL_PENDING">>,
                 <<"APPROVAL_PENDING", "APPROVED">>,
                 <<"APPROVAL_PENDING", "REJECTED">>,
                 <<"APPROVED", "SCHEDULED">>}

Init ==
  /\ stage \in [Version -> {"ABSENT", "DRAFT"}]

Advance(v, s) ==
  /\ <<stage[v], s>> \in ForwardSteps
  /\ stage' = [stage EXCEPT ![v] = s]

(* A scheduled version takes over; whichever version was live retires. *)
TakeOver(v) ==
  /\ stage[v] = "SCHEDULED"
  /\ stage' = [w \in Version |->
                 IF w = v THEN "ACTIVE"
                 ELSE IF stage[w] = "ACTIVE" THEN "SUPERSEDED" ELSE stage[w]]

Next == \E v \in Version : TakeOver(v) \/ \E s \in Stage : Advance(v, s)

Spec == Init /\ [][Next]_stage
=============================================================================
