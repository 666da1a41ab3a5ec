-------------------------- MODULE AiCostGuardProofs --------------------------
(***************************************************************************)
(* Proofs about AiCostGuard, for any number of workers, any limits and any *)
(* reservation.                                                            *)
(*                                                                         *)
(* The exposure of a window is what is logged plus one reservation for     *)
(* every call that may still log.  Only a grant adds to it (ExposureFalls),*)
(* and a grant looks at a sum that is at most one limit, and at most one   *)
(* reservation for every other worker, behind the exposure (ReadBehind).   *)
(***************************************************************************)
EXTENDS AiCostGuard, FiniteSetTheorems, TLAPS

Exposure(w) == spent[w] + Reservation * Cardinality(InFlight)

Others == Reservation * (Cardinality(Caller) - 1)

(* The reservations held fit every limit. *)
SlotsWithinLimit == \A w \in Window : Reservation * reserved <= Limit[w]

ReadBehind ==
  \A w \in Window : read[w] # None =>
    Exposure(w) <= read[w] + Limit[w] /\ Exposure(w) <= read[w] + Others

ExposureBounded ==
  \A w \in Window : Exposure(w) <= 2 * Limit[w] /\ Exposure(w) <= Limit[w] + Others

(* The reasoners that have passed their own cap and may still log. *)
OnTheWay == {"checked", "line"} \cup Unlogged
PastCap == {c \in Reasoner : stage[c] \in OnTheWay}
OwnExposure == own + Reservation * Cardinality(PastCap)
OwnExposureBounded == OwnExposure < OwnLimit + Reservation * Cardinality(Reasoner)

IInv == TypeOK /\ ReservationsMatch /\ SlotsWithinLimit /\ ReadBehind /\ ExposureBounded

-----------------------------------------------------------------------------
(* How many members of S are at a stage of T, before and after a step that *)
(* moves only c.                                                           *)
LEMMA Recount ==
  ASSUME NEW S, IsFiniteSet(S), NEW T, NEW f, NEW g, NEW c \in S,
         \A d \in S \ {c} : g[d] = f[d]
  PROVE  LET F == {d \in S : f[d] \in T}
             G == {d \in S : g[d] \in T}
         IN /\ Cardinality(F) \in Nat /\ Cardinality(G) \in Nat
            /\ (f[c] \in T <=> g[c] \in T) => Cardinality(G) = Cardinality(F)
            /\ f[c] \notin T /\ g[c] \in T => Cardinality(G) = Cardinality(F) + 1
            /\ f[c] \in T /\ g[c] \notin T => Cardinality(F) = Cardinality(G) + 1
            /\ f[c] \notin T => Cardinality(F) <= Cardinality(S) - 1
<1> DEFINE F == {d \in S : f[d] \in T}
           G == {d \in S : g[d] \in T}
<1>1. IsFiniteSet(F) /\ IsFiniteSet(G) /\ IsFiniteSet(S \ {c})
  BY FS_Subset, F \subseteq S, G \subseteq S, S \ {c} \subseteq S
<1>2. Cardinality(F) \in Nat /\ Cardinality(G) \in Nat /\ Cardinality(S) \in Nat
  BY <1>1, FS_CardinalityType
<1>3. ASSUME f[c] \in T <=> g[c] \in T
      PROVE  Cardinality(G) = Cardinality(F)
  <2>1. G = F
    BY <1>3
  <2> QED
    BY <2>1
<1>4. ASSUME f[c] \notin T, g[c] \in T
      PROVE  Cardinality(G) = Cardinality(F) + 1
  <2>1. G = F \cup {c} /\ c \notin F
    BY <1>4
  <2>2. Cardinality(F \cup {c}) = Cardinality(F) + 1
    BY <1>1, <2>1, FS_AddElement
  <2> QED
    BY <2>1, <2>2
<1>5. ASSUME f[c] \in T, g[c] \notin T
      PROVE  Cardinality(F) = Cardinality(G) + 1
  <2>1. F = G \cup {c} /\ c \notin G
    BY <1>5
  <2>2. Cardinality(G \cup {c}) = Cardinality(G) + 1
    BY <1>1, <2>1, FS_AddElement
  <2> QED
    BY <2>1, <2>2
<1>6. ASSUME f[c] \notin T
      PROVE  Cardinality(F) <= Cardinality(S) - 1
  <2>1. F \subseteq S \ {c}
    BY <1>6
  <2>2. Cardinality(F) <= Cardinality(S \ {c})
    BY <1>1, <2>1, FS_Subset
  <2>3. Cardinality(S \ {c}) = Cardinality(S) - 1
    BY FS_RemoveElement
  <2> QED
    BY <2>2, <2>3
<1> QED
  BY <1>2, <1>3, <1>4, <1>5, <1>6

LEMMA FiniteCallers ==
  /\ IsFiniteSet(Caller) /\ Cardinality(Caller) \in Nat \ {0}
  /\ IsFiniteSet(Reasoner) /\ Cardinality(Reasoner) \in Nat
<1>1. IsFiniteSet(Caller)
  BY ConstantsAssumption, FS_Union DEF Caller
<1>2. Cardinality(Caller) # 0
  BY <1>1, ConstantsAssumption, FS_EmptySet
<1> QED
  BY <1>1, <1>2, ConstantsAssumption, FS_CardinalityType

(* The counts the invariants are about are numbers. *)
LEMMA Counts ==
  /\ Cardinality(Holding) \in Nat /\ Cardinality(InFlight) \in Nat
  /\ Cardinality(InFlight) <= Cardinality(Holding)
  /\ Cardinality(PastCap) \in Nat /\ Cardinality(PastCap) <= Cardinality(Reasoner)
<1>1. InFlight \subseteq Holding /\ Holding \subseteq Caller /\ PastCap \subseteq Reasoner
  BY DEF InFlight, Holding, PastCap, Unsettled
<1>2. IsFiniteSet(Holding) /\ IsFiniteSet(InFlight) /\ IsFiniteSet(PastCap)
  BY <1>1, FiniteCallers, FS_Subset
<1> QED
  BY <1>1, <1>2, FiniteCallers, FS_Subset, FS_CardinalityType

-----------------------------------------------------------------------------
(* A call moves from one stage to another, alone; the table says which     *)
(* moves there are, and what they do to the counters.                      *)
Moves(c, from, to) == stage[c] \in from /\ to \in Stages /\ At(c, to)

LEMMA MoveCounts ==
  ASSUME TypeOK, NEW c \in Caller, NEW to \in Stages, At(c, to)
  PROVE  /\ stage' \in [Caller -> Stages] /\ stage'[c] = to
         /\ Cardinality(InFlight)' \in Nat /\ Cardinality(Holding)' \in Nat
         /\ (stage[c] \in Unlogged <=> to \in Unlogged)
              => Cardinality(InFlight)' = Cardinality(InFlight)
         /\ stage[c] \notin Unlogged /\ to \in Unlogged
              => Cardinality(InFlight)' = Cardinality(InFlight) + 1
         /\ stage[c] \in Unlogged /\ to \notin Unlogged
              => Cardinality(InFlight) = Cardinality(InFlight)' + 1
         /\ (stage[c] \in Unsettled <=> to \in Unsettled)
              => Cardinality(Holding)' = Cardinality(Holding)
         /\ stage[c] \notin Unsettled /\ to \in Unsettled
              => Cardinality(Holding)' = Cardinality(Holding) + 1
         /\ stage[c] \in Unsettled /\ to \notin Unsettled
              => Cardinality(Holding) = Cardinality(Holding)' + 1
<1>1. /\ stage' \in [Caller -> Stages] /\ stage'[c] = to
      /\ \A d \in Caller \ {c} : stage'[d] = stage[d]
  BY DEF TypeOK, At
<1>2. InFlight' = {d \in Caller : stage'[d] \in Unlogged}
      /\ Holding' = {d \in Caller : stage'[d] \in Unsettled}
  BY DEF InFlight, Holding, Unlogged
<1>3. /\ Cardinality(InFlight)' \in Nat
      /\ (stage[c] \in Unlogged <=> to \in Unlogged)
           => Cardinality(InFlight)' = Cardinality(InFlight)
      /\ stage[c] \notin Unlogged /\ to \in Unlogged
           => Cardinality(InFlight)' = Cardinality(InFlight) + 1
      /\ stage[c] \in Unlogged /\ to \notin Unlogged
           => Cardinality(InFlight) = Cardinality(InFlight)' + 1
  BY <1>1, <1>2, FiniteCallers, Recount DEF InFlight
<1>4. /\ Cardinality(Holding)' \in Nat
      /\ (stage[c] \in Unsettled <=> to \in Unsettled)
           => Cardinality(Holding)' = Cardinality(Holding)
      /\ stage[c] \notin Unsettled /\ to \in Unsettled
           => Cardinality(Holding)' = Cardinality(Holding) + 1
      /\ stage[c] \in Unsettled /\ to \notin Unsettled
           => Cardinality(Holding) = Cardinality(Holding)' + 1
  BY <1>1, <1>2, FiniteCallers, Recount DEF Holding
<1> QED
  BY <1>1, <1>3, <1>4

-----------------------------------------------------------------------------
LEMMA Released ==
  ASSUME TypeOK, line # <<>>, Release
  PROVE  line' \in Seq(Caller) /\ read' \in [Window -> Nat \cup {None}]
BY DEF TypeOK, Release, Nothing

(* Every step keeps the types and the count of the reservations. *)
LEMMA CountStep ==
  ASSUME TypeOK, ReservationsMatch, [Next]_vars
  PROVE  TypeOK' /\ ReservationsMatch'
<1> USE ConstantsAssumption
<1>1. ASSUME NEW c \in Caller, NEW to \in Stages, At(c, to)
      PROVE  /\ stage' \in [Caller -> Stages]
             /\ (stage[c] \in Unsettled <=> to \in Unsettled) /\ reserved' = reserved
                  => ReservationsMatch' /\ reserved' \in Nat
             /\ stage[c] \notin Unsettled /\ to \in Unsettled /\ reserved' = reserved + 1
                  => ReservationsMatch' /\ reserved' \in Nat
             /\ stage[c] \in Unsettled /\ to \notin Unsettled /\ reserved' = reserved - 1
                  => ReservationsMatch' /\ reserved' \in Nat
  <2>1. Cardinality(Holding) \in Nat /\ reserved \in Nat
    BY Counts DEF TypeOK
  <2>2. QED
    BY <1>1, <2>1, MoveCounts DEF ReservationsMatch
<1>2. ASSUME NEW c \in Caller, CheckOwnCap(c)
      PROVE  TypeOK' /\ ReservationsMatch'
  BY <1>1, <1>2 DEF CheckOwnCap, TypeOK, Stages, Unsettled, Unlogged
<1>3. ASSUME NEW c \in Caller, Enter(c)
      PROVE  TypeOK' /\ ReservationsMatch'
  BY <1>1, <1>3 DEF Enter, TypeOK, Stages, Unsettled, Unlogged
<1>4. ASSUME NEW c \in Caller, NEW w \in Window, ReadSpent(c, w)
      PROVE  TypeOK' /\ ReservationsMatch'
  BY <1>4 DEF ReadSpent, TypeOK, ReservationsMatch, Holding
<1>5. ASSUME NEW c \in Caller, Grant(c)
      PROVE  TypeOK' /\ ReservationsMatch'
  <2>1. line' \in Seq(Caller) /\ read' \in [Window -> Nat \cup {None}]
    BY <1>5, Released DEF Grant, Leads
  <2>2. QED
    BY <1>1, <1>5, <2>1 DEF Grant, Leads, TypeOK, Stages, Unsettled, Unlogged
<1>6. ASSUME NEW c \in Caller, Deny(c) \/ ReadFails(c)
      PROVE  TypeOK' /\ ReservationsMatch'
  <2>1. line' \in Seq(Caller) /\ read' \in [Window -> Nat \cup {None}]
    BY <1>6, Released DEF Deny, ReadFails, Leads
  <2>2. /\ At(c, "idle") /\ stage[c] = "line" /\ reserved' = reserved
        /\ UNCHANGED <<spent, own, cost>>
    BY <1>6 DEF Deny, ReadFails, Leads
  <2>3. stage' \in [Caller -> Stages] /\ ReservationsMatch'
    BY <1>1, <2>2 DEF Stages, Unsettled, Unlogged
  <2>4. QED
    BY <2>1, <2>2, <2>3 DEF TypeOK
<1>7. ASSUME NEW c \in Caller, Unbilled(c)
      PROVE  TypeOK' /\ ReservationsMatch'
  BY <1>1, <1>7 DEF Unbilled, TypeOK, Stages, Unsettled, Unlogged
<1>8. ASSUME NEW c \in Caller, Answer(c)
      PROVE  TypeOK' /\ ReservationsMatch'
  <2>1. /\ stage[c] \in Unsettled /\ reserved' = reserved
        /\ UNCHANGED <<spent, own, line, read>>
        /\ \E to \in Unsettled : At(c, to)
    BY <1>8 DEF Answer, Unsettled, Unlogged
  <2>2. cost' \in [Caller -> 0 .. Reservation]
    BY <1>8 DEF Answer, TypeOK
  <2>3. stage' \in [Caller -> Stages] /\ ReservationsMatch'
    BY <1>1, <2>1 DEF Stages
  <2>4. QED
    BY <2>1, <2>2, <2>3 DEF TypeOK
<1>9. ASSUME NEW c \in Caller, Save(c)
      PROVE  TypeOK' /\ ReservationsMatch'
  BY <1>1, <1>9 DEF Save, TypeOK, Stages, Unsettled, Unlogged
<1>10. ASSUME NEW c \in Caller, Log(c)
       PROVE  TypeOK' /\ ReservationsMatch'
  <2>1. /\ stage[c] \in Unsettled /\ At(c, "ending")
        /\ UNCHANGED <<reserved, line, read>>
    BY <1>10 DEF Log, ToLog, Unsettled, Unlogged
  <2>2. cost[c] \in 0 .. Reservation
    BY DEF TypeOK
  <2>3. cost' \in [Caller -> 0 .. Reservation]
    BY <1>10 DEF Log, TypeOK
  <2>4. own' \in Nat
    BY <1>10, <2>2 DEF Log, TypeOK
  <2>5. spent' \in [Window -> Nat]
    BY <1>10, <2>2 DEF Log, TypeOK
  <2>6. stage' \in [Caller -> Stages] /\ ReservationsMatch'
    BY <1>1, <2>1 DEF Stages, Unsettled
  <2>7. QED
    BY <2>1, <2>3, <2>4, <2>5, <2>6 DEF TypeOK
<1>11. ASSUME NEW c \in Caller, RecordFails(c)
       PROVE  TypeOK' /\ ReservationsMatch'
  <2>1. /\ stage[c] \in Unsettled /\ At(c, "ending")
        /\ UNCHANGED <<spent, own, reserved, line, read>>
    BY <1>11 DEF RecordFails, ToLog, Unsettled, Unlogged
  <2>2. cost' \in [Caller -> 0 .. Reservation]
    BY <1>11 DEF RecordFails, TypeOK
  <2>3. stage' \in [Caller -> Stages] /\ ReservationsMatch'
    BY <1>1, <2>1 DEF Stages, Unsettled
  <2>4. QED
    BY <2>1, <2>2, <2>3 DEF TypeOK
<1>12. ASSUME NEW c \in Caller, Settle(c)
       PROVE  TypeOK' /\ ReservationsMatch'
  BY <1>1, <1>12 DEF Settle, TypeOK, Stages, Unsettled, Unlogged
<1>13. ASSUME Midnight
       PROVE  TypeOK' /\ ReservationsMatch'
  BY <1>13 DEF Midnight, TypeOK, ReservationsMatch, Holding
<1>14. ASSUME Crash
       PROVE  TypeOK' /\ ReservationsMatch'
  <2>1. Holding' = {}
    BY <1>14 DEF Crash, Holding, Unsettled, Unlogged
  <2>2. TypeOK'
    BY <1>14 DEF Crash, TypeOK, Nothing, Stages
  <2>3. QED
    BY <1>14, <2>1, <2>2, FS_EmptySet DEF Crash, ReservationsMatch
<1>15. ASSUME UNCHANGED vars
       PROVE  TypeOK' /\ ReservationsMatch'
  BY <1>15 DEF vars, TypeOK, ReservationsMatch, Holding
<1>16. QED
  BY <1>2, <1>3, <1>4, <1>5, <1>6, <1>7, <1>8, <1>9, <1>10, <1>11, <1>12, <1>13, <1>14, <1>15
  DEF Next, Step

-----------------------------------------------------------------------------
LEMMA Multiples ==
  ASSUME NEW m \in Nat, NEW n \in Nat, m <= n
  PROVE  /\ Reservation * m \in Nat /\ Reservation * n \in Nat
         /\ Reservation * m <= Reservation * n
         /\ Reservation * (m + 1) = Reservation * m + Reservation
<1>1. Reservation \in Nat
  BY ConstantsAssumption
<1>2. PICK d \in Nat : n = m + d
  BY n - m \in Nat, n = m + (n - m)
<1>3. Reservation * n = Reservation * m + Reservation * d
  BY <1>1, <1>2
<1>4. Reservation * m \in Nat /\ Reservation * d \in Nat
  BY <1>1
<1>5. Reservation * (m + 1) = Reservation * m + Reservation
  BY <1>1
<1> QED
  BY <1>3, <1>4, <1>5

(* Only a grant adds to an exposure, or to the reservations. *)
LEMMA ExposureFalls ==
  ASSUME TypeOK, ReservationsMatch, [Next]_vars, ~ \E c \in Caller : Grant(c), NEW w \in Window
  PROVE  Exposure(w)' <= Exposure(w) /\ reserved' \in 0 .. reserved
<1> DEFINE Falls == Exposure(w)' <= Exposure(w) /\ reserved' \in 0 .. reserved
           k == Cardinality(InFlight)
<1>1. k \in Nat /\ spent[w] \in Nat /\ reserved \in Nat /\ Reservation \in Nat
  BY Counts, ConstantsAssumption DEF TypeOK
<1>2. ASSUME k' \in Nat, k' <= k, spent'[w] \in Nat,
             spent'[w] <= spent[w] \/ (k = k' + 1 /\ spent'[w] <= spent[w] + Reservation)
      PROVE  Exposure(w)' <= Exposure(w)
  <2>1. /\ Reservation * k' \in Nat /\ Reservation * k \in Nat /\ Reservation * k' <= Reservation * k
        /\ k = k' + 1 => Reservation * k = Reservation * k' + Reservation
    BY <1>1, <1>2, Multiples
  <2>2. QED
    BY <1>1, <1>2, <2>1 DEF Exposure
<1>3. reserved' \in Nat
  BY CountStep DEF TypeOK
<1>4. ASSUME NEW c \in Caller, NEW to \in Stages, At(c, to), stage[c] \in Unlogged \/ to \notin Unlogged
      PROVE  k' \in Nat /\ k' <= k /\ (stage[c] \in Unlogged /\ to \notin Unlogged => k = k' + 1)
  BY <1>1, <1>4, MoveCounts
<1>5. ASSUME NEW c \in Caller, NEW to \in Stages, At(c, to), stage[c] \in Unlogged \/ to \notin Unlogged,
             spent' = spent, reserved' = reserved \/ reserved' = reserved - 1
      PROVE  Falls
  <2>1. Exposure(w)' <= Exposure(w)
    BY <1>1, <1>2, <1>4, <1>5
  <2>2. QED
    BY <1>1, <1>3, <1>5, <2>1
<1>6. ASSUME NEW c \in Caller, CheckOwnCap(c) \/ Enter(c)
      PROVE  Falls
  <2>1. PICK to \in Stages \ Unlogged : At(c, to)
    BY <1>6 DEF CheckOwnCap, Enter, Stages, Unlogged
  <2>2. QED
    BY <1>5, <1>6, <2>1 DEF CheckOwnCap, Enter
<1>7. ASSUME UNCHANGED <<spent, stage, reserved>>
      PROVE  Falls
  BY <1>1, <1>2, <1>7 DEF InFlight
<1>8. ASSUME NEW c \in Caller, Deny(c) \/ ReadFails(c)
      PROVE  Falls
  BY <1>5, <1>8 DEF Deny, ReadFails, Stages, Unlogged
<1>9. ASSUME NEW c \in Caller, Unbilled(c) \/ RecordFails(c) \/ Settle(c)
      PROVE  Falls
  <2>1. PICK to \in Stages \ Unlogged : At(c, to)
    BY <1>9 DEF Unbilled, RecordFails, Settle, Stages, Unsettled, Unlogged
  <2>2. spent' = spent /\ (reserved' = reserved \/ reserved' = reserved - 1)
    BY <1>9 DEF Unbilled, RecordFails, Settle
  <2>3. QED
    BY <1>5, <2>1, <2>2
<1>10. ASSUME NEW c \in Caller, Answer(c) \/ Save(c)
       PROVE  Falls
  <2>1. PICK to \in Stages : At(c, to)
    BY <1>10 DEF Answer, Save, Stages, Unsettled, Unlogged
  <2>2. spent' = spent /\ reserved' = reserved /\ stage[c] \in Unlogged
    BY <1>10 DEF Answer, Save, Unlogged
  <2>3. QED
    BY <1>5, <2>1, <2>2
<1>11. ASSUME NEW c \in Caller, Log(c)
       PROVE  Falls
  <2>1. At(c, "ending") /\ stage[c] \in Unlogged /\ reserved' = reserved
    BY <1>11 DEF Log, ToLog, Unlogged
  <2>2. k' \in Nat /\ k = k' + 1
    BY <1>4, <2>1 DEF Stages, Unsettled, Unlogged
  <2>3. spent'[w] = spent[w] + cost[c] /\ cost[c] \in 0 .. Reservation
    BY <1>11 DEF Log, TypeOK
  <2>4. QED
    BY <1>1, <1>2, <2>1, <2>2, <2>3
<1>12. ASSUME Midnight
       PROVE  Falls
  <2>1. spent'[w] \in Nat /\ spent'[w] <= spent[w] /\ reserved' = reserved /\ k' = k
    BY <1>1, <1>12 DEF Midnight, InFlight
  <2>2. QED
    BY <1>1, <1>2, <2>1
<1>13. ASSUME Crash
       PROVE  Falls
  <2>1. InFlight' = {}
    BY <1>13 DEF Crash, InFlight, Unlogged
  <2>2. k' = 0 /\ spent' = spent /\ reserved' = 0
    BY <1>13, <2>1, FS_EmptySet DEF Crash
  <2>3. QED
    BY <1>1, <1>2, <2>2
<1>14. QED
  BY <1>6, <1>7, <1>8, <1>9, <1>10, <1>11, <1>12, <1>13 DEF Next, Step, ReadSpent, vars

(* A grant adds one reservation to the exposure; what it has read, the     *)
(* reservations and that one fit the limit.                                *)
LEMMA GrantStep ==
  ASSUME IInv, NEW c \in Caller, Grant(c)
  PROVE  SlotsWithinLimit' /\ ReadBehind' /\ ExposureBounded'
<1> DEFINE k == Cardinality(InFlight)
           n == Cardinality(Caller)
<1>1. TypeOK /\ read' = Nothing /\ reserved' = reserved + 1 /\ spent' = spent
      /\ stage[c] = "line" /\ At(c, "reserved")
  BY DEF IInv, Grant, Leads, Release
<1>2. k \in Nat /\ k' = k + 1
  BY <1>1, Counts, MoveCounts DEF Stages, Unsettled, Unlogged
<1>3. reserved \in Nat /\ Reservation \in Nat /\ n \in Nat
  BY <1>1, ConstantsAssumption, FiniteCallers DEF TypeOK
<1>4. ReadBehind'
  BY <1>1 DEF ReadBehind, Nothing
<1>5. ASSUME NEW w \in Window
      PROVE  /\ Reservation * reserved' <= Limit[w]
             /\ Exposure(w)' <= 2 * Limit[w] /\ Exposure(w)' <= Limit[w] + Others
  <2>1. read[w] \in Nat /\ Limit[w] \in Nat /\ spent[w] \in Nat
    BY <1>1, ConstantsAssumption DEF Grant, TypeOK
  <2>2. Exposure(w) <= read[w] + Limit[w] /\ Exposure(w) <= read[w] + Others
    BY <2>1, ConstantsAssumption DEF IInv, ReadBehind
  <2>3. read[w] + reserved * Reservation + Reservation <= Limit[w]
    <3>1. ~ (read[w] + reserved * Reservation + Reservation > Limit[w])
      BY DEF Grant, Denied, WouldExceed
    <3>2. reserved * Reservation \in Nat
      BY <1>3
    <3>3. QED
      BY <1>3, <2>1, <3>1, <3>2
  <2>4. /\ Reservation * reserved \in Nat /\ reserved * Reservation = Reservation * reserved
        /\ Reservation * (reserved + 1) = Reservation * reserved + Reservation
    BY <1>3, Multiples
  <2>5. Reservation * k \in Nat /\ Reservation * (k + 1) = Reservation * k + Reservation
    BY <1>2, Multiples
  <2>6. Exposure(w) \in Nat /\ Exposure(w)' = Exposure(w) + Reservation
    BY <1>1, <1>2, <1>3, <2>1, <2>5 DEF Exposure
  <2>7. Others \in Int
    BY <1>3 DEF Others
  <2>8. Reservation * reserved' <= Limit[w]
    BY <1>1, <1>3, <2>1, <2>3, <2>4
  <2>9. read[w] + Reservation <= Limit[w]
    BY <1>3, <2>1, <2>3, <2>4
  <2>10. QED
    BY <1>3, <2>1, <2>2, <2>6, <2>7, <2>8, <2>9
<1>6. SlotsWithinLimit'
  BY <1>5 DEF SlotsWithinLimit
<1>7. ExposureBounded'
  BY <1>5 DEF ExposureBounded, Others
<1> QED
  BY <1>4, <1>6, <1>7

(* What is read now is behind by what may still be logged: at most a limit,*)
(* and not by the reader, which is not in flight.                          *)
LEMMA ReadNow ==
  ASSUME IInv, NEW c \in Caller, NEW w \in Window, Leads(c)
  PROVE  Exposure(w) <= spent[w] + Limit[w] /\ Exposure(w) <= spent[w] + Others
<1> DEFINE k == Cardinality(InFlight)
           n == Cardinality(Caller)
<1>1. /\ k \in Nat /\ reserved \in Nat /\ k <= reserved /\ n \in Nat \ {0}
      /\ spent[w] \in Nat /\ Limit[w] \in Nat /\ Reservation * reserved <= Limit[w]
  BY Counts, FiniteCallers, ConstantsAssumption
  DEF IInv, TypeOK, ReservationsMatch, SlotsWithinLimit
<1>2. k <= n - 1
  <2>1. InFlight \subseteq Caller \ {c}
    BY DEF InFlight, Unlogged, Leads
  <2>2. IsFiniteSet(Caller \ {c}) /\ Cardinality(Caller \ {c}) = n - 1
    BY FiniteCallers, FS_RemoveElement
  <2>3. QED
    BY <2>1, <2>2, FS_Subset
<1>3. /\ Reservation * k \in Nat /\ Reservation * reserved \in Nat
      /\ Reservation * k <= Reservation * reserved
  BY <1>1, Multiples
<1>4. Reservation * (n - 1) \in Nat /\ Reservation * k <= Reservation * (n - 1)
  <2>1. n - 1 \in Nat
    BY <1>1
  <2>2. QED
    BY <1>1, <1>2, <2>1, Multiples
<1>5. Exposure(w) <= spent[w] + Limit[w]
  BY <1>1, <1>3 DEF Exposure
<1>6. Exposure(w) <= spent[w] + Others
  BY <1>1, <1>3, <1>4 DEF Exposure, Others
<1> QED
  BY <1>5, <1>6

LEMMA OtherStep ==
  ASSUME IInv, [Next]_vars, ~ \E c \in Caller : Grant(c)
  PROVE  SlotsWithinLimit' /\ ReadBehind' /\ ExposureBounded'
<1>1. /\ TypeOK /\ TypeOK'
      /\ \A w \in Window : Exposure(w)' <= Exposure(w) /\ reserved' \in 0 .. reserved
  BY CountStep, ExposureFalls DEF IInv
<1>2. \A w \in Window : Limit[w] \in Nat /\ Others \in Int /\ spent[w] \in Nat
                        /\ Exposure(w) \in Nat /\ Exposure(w)' \in Nat
  <2>1. Cardinality(InFlight) \in Nat /\ Reservation \in Nat
    BY Counts, ConstantsAssumption
  <2>2. Cardinality(InFlight)' \in Nat
    <3>1. InFlight' \subseteq Caller
      BY DEF InFlight
    <3>2. QED
      BY <3>1, FiniteCallers, FS_Subset, FS_CardinalityType
  <2>3. Others \in Int
    BY <2>1, FiniteCallers DEF Others
  <2>4. /\ Reservation * Cardinality(InFlight) \in Nat
        /\ Reservation * Cardinality(InFlight)' \in Nat
    BY <2>1, <2>2, Multiples
  <2>5. \A w \in Window : Limit[w] \in Nat /\ spent[w] \in Nat /\ spent'[w] \in Nat
    BY <1>1, ConstantsAssumption DEF TypeOK
  <2>6. QED
    BY <2>3, <2>4, <2>5 DEF Exposure
<1>3. SlotsWithinLimit'
  <2>1. Reservation * reserved' <= Reservation * reserved /\ Reservation * reserved' \in Nat
        /\ Reservation * reserved \in Nat
    <3>1. "day" \in Window
      BY ConstantsAssumption
    <3>2. reserved' \in Nat /\ reserved \in Nat /\ reserved' <= reserved
      BY <1>1, <3>1 DEF TypeOK
    <3>3. QED
      BY <3>2, Multiples
  <2>2. QED
    BY <1>2, <2>1 DEF IInv, SlotsWithinLimit
<1>4. ExposureBounded'
  <2>1. ASSUME NEW w \in Window
        PROVE  Exposure(w)' <= 2 * Limit[w] /\ Exposure(w)' <= Limit[w] + Others
    BY <1>1, <1>2 DEF IInv, ExposureBounded
  <2>2. QED
    BY <2>1 DEF ExposureBounded, Others
<1>5. ASSUME NEW w \in Window, read'[w] # None
      PROVE  Exposure(w)' <= read'[w] + Limit[w] /\ Exposure(w)' <= read'[w] + Others
  <2>1. \/ read'[w] = read[w]
        \/ \E c \in Caller : Leads(c) /\ read'[w] = spent[w]
    BY <1>1, <1>5 DEF Next, Step, CheckOwnCap, Enter, ReadSpent, Deny, ReadFails, Release, Nothing,
       Unbilled, Answer, Save, Log, RecordFails, Settle, Midnight, Crash, vars, TypeOK
  <2>2. CASE read'[w] = read[w]
    <3>1. Exposure(w) <= read[w] + Limit[w] /\ Exposure(w) <= read[w] + Others /\ read[w] \in Nat
      BY <1>5, <2>2 DEF IInv, ReadBehind, TypeOK
    <3>2. QED
      BY <1>1, <1>2, <2>2, <3>1
  <2>3. CASE \E c \in Caller : Leads(c) /\ read'[w] = spent[w]
    <3>1. Exposure(w) <= spent[w] + Limit[w] /\ Exposure(w) <= spent[w] + Others
      BY <2>3, ReadNow
    <3>2. QED
      BY <1>1, <1>2, <2>3, <3>1
  <2>4. QED
    BY <2>1, <2>2, <2>3
<1>6. ReadBehind'
  BY <1>5 DEF ReadBehind, Others
<1> QED
  BY <1>3, <1>4, <1>6

-----------------------------------------------------------------------------
THEOREM Invariance == Spec => []IInv
<1>1. Init => IInv
  <2> SUFFICES ASSUME Init PROVE IInv
    OBVIOUS
  <2>1. TypeOK
    BY ConstantsAssumption DEF Init, TypeOK, Nothing, Stages
  <2>2. Holding = {} /\ InFlight = {}
    BY DEF Init, Holding, InFlight, Unsettled, Unlogged
  <2>3. Cardinality(Holding) = 0 /\ Cardinality(InFlight) = 0
    BY <2>2, FS_EmptySet
  <2>4. Reservation \in Nat /\ Reservation * 0 = 0
    BY ConstantsAssumption
  <2>5. Others \in Nat
    <3>1. Cardinality(Caller) - 1 \in Nat
      BY FiniteCallers
    <3>2. QED
      BY <3>1, Multiples DEF Others
  <2>6. \A w \in Window : Exposure(w) = 0 /\ Limit[w] \in Nat
    BY <2>3, <2>4, ConstantsAssumption DEF Init, Exposure
  <2>7. ReservationsMatch /\ SlotsWithinLimit
    BY <2>3, <2>4, <2>6 DEF Init, ReservationsMatch, SlotsWithinLimit
  <2>8. ReadBehind
    BY DEF Init, ReadBehind, Nothing
  <2>9. ExposureBounded
    BY <2>5, <2>6 DEF ExposureBounded
  <2>10. QED
    BY <2>1, <2>7, <2>8, <2>9 DEF IInv
<1>2. IInv /\ [Next]_vars => IInv'
  <2> SUFFICES ASSUME IInv, [Next]_vars PROVE IInv'
    OBVIOUS
  <2>1. TypeOK' /\ ReservationsMatch'
    BY CountStep DEF IInv
  <2>2. SlotsWithinLimit' /\ ReadBehind' /\ ExposureBounded'
    BY GrantStep, OtherStep
  <2>3. QED
    BY <2>1, <2>2 DEF IInv
<1>3. QED
  BY <1>1, <1>2, PTL DEF Spec

(* The sums, counters and stages stay well formed; the counter of          *)
(* reservations never goes below zero.                                     *)
THEOREM TypeCorrect == Spec => []TypeOK
<1>1. IInv => TypeOK
  BY DEF IInv
<1> QED
  BY <1>1, Invariance, PTL

(* No reservation leaks and none is released twice, whatever fails. *)
THEOREM ReservationsAlwaysMatch == Spec => []ReservationsMatch
<1>1. IInv => ReservationsMatch
  BY DEF IInv
<1> QED
  BY <1>1, Invariance, PTL

(* However many workers there are, the log exceeds a limit at most once    *)
(* over, and at most by one reservation for every other worker.            *)
THEOREM OvershootAlwaysBounded == Spec => []OvershootBounded
<1>1. IInv => OvershootBounded
  <2> SUFFICES ASSUME IInv, NEW w \in Window
               PROVE  /\ Exposure(w) <= 2 * Limit[w]
                      /\ spent[w] <= Limit[w] + Others
    BY DEF OvershootBounded, Exposure, Others
  <2>1. Exposure(w) <= 2 * Limit[w] /\ Exposure(w) <= Limit[w] + Others
    BY DEF IInv, ExposureBounded
  <2>2. spent[w] \in Nat /\ Reservation * Cardinality(InFlight) \in Nat
    BY Counts, Multiples DEF IInv, TypeOK
  <2>3. Limit[w] \in Nat /\ Others \in Int
    BY ConstantsAssumption, FiniteCallers DEF Others
  <2>4. QED
    BY <2>1, <2>2, <2>3 DEF Exposure
<1> QED
  BY <1>1, Invariance, PTL

-----------------------------------------------------------------------------
(* The reasoner's own cap: a reasoner passes it while the sum is below the *)
(* cap, and then at most every worker adds one call to it.                 *)
LEMMA OwnStep ==
  ASSUME TypeOK, TypeOK', OwnExposureBounded, [Next]_vars
  PROVE  OwnExposureBounded'
<1> DEFINE k == Cardinality(PastCap)
           m == Cardinality(Reasoner)
<1>1. /\ k \in Nat /\ k <= m /\ m \in Nat /\ Reservation \in Nat \ {0} /\ OwnLimit \in Nat \ {0}
      /\ own \in Nat /\ own' \in Nat
  BY Counts, FiniteCallers, ConstantsAssumption DEF TypeOK
<1>2. PastCap' \subseteq Reasoner /\ IsFiniteSet(PastCap) /\ IsFiniteSet(PastCap')
  BY FiniteCallers, FS_Subset DEF PastCap
<1>3. k' \in Nat /\ k' <= m
  BY <1>2, FiniteCallers, FS_Subset, FS_CardinalityType
<1>4. /\ Reservation * k \in Nat /\ Reservation * k' \in Nat /\ Reservation * m \in Nat
      /\ Reservation * k' <= Reservation * m
  BY <1>1, <1>3, Multiples
<1>5. ASSUME own' < OwnLimit
      PROVE  OwnExposureBounded'
  BY <1>1, <1>4, <1>5 DEF OwnExposureBounded, OwnExposure
<1>6. ASSUME own' = own, PastCap' \subseteq PastCap
      PROVE  OwnExposureBounded'
  <2>1. k' <= k
    BY <1>2, <1>6, FS_Subset
  <2>2. Reservation * k' <= Reservation * k
    BY <1>1, <1>3, <2>1, Multiples
  <2>3. QED
    BY <1>1, <1>4, <1>6, <2>2 DEF OwnExposureBounded, OwnExposure
<1>7. ASSUME NEW c \in Caller, CheckOwnCap(c) \/ Midnight
      PROVE  OwnExposureBounded'
  BY <1>1, <1>5, <1>7 DEF CheckOwnCap, WithinOwnCap, Midnight
<1>8. ASSUME NEW c \in Caller, NEW to \in Stages, At(c, to), own' = own,
             c \in Reasoner => stage[c] \in OnTheWay \/ to \notin OnTheWay
      PROVE  OwnExposureBounded'
  <2>1. /\ stage'[c] = to
        /\ \A d \in Caller \ {c} : stage'[d] = stage[d]
    BY <1>8 DEF At, TypeOK
  <2>2. PastCap' \subseteq PastCap
    BY <1>8, <2>1 DEF PastCap, Caller, OnTheWay
  <2>3. QED
    BY <1>6, <1>8, <2>2
<1>9. ASSUME NEW c \in Caller, Enter(c)
      PROVE  OwnExposureBounded'
  BY <1>8, <1>9 DEF Enter, Stages, OnTheWay
<1>10. ASSUME UNCHANGED <<own, stage>>
       PROVE  OwnExposureBounded'
  BY <1>6, <1>10 DEF PastCap
<1>11. ASSUME NEW c \in Caller, Grant(c) \/ Deny(c) \/ ReadFails(c)
       PROVE  OwnExposureBounded'
  <2>1. PICK to \in {"reserved", "idle"} : At(c, to)
    BY <1>11 DEF Grant, Deny, ReadFails
  <2>2. own' = own /\ stage[c] \in OnTheWay
    BY <1>11 DEF Grant, Deny, ReadFails, Leads, OnTheWay
  <2>3. QED
    BY <1>8, <2>1, <2>2 DEF Stages, Unsettled, Unlogged
<1>12. ASSUME NEW c \in Caller, Unbilled(c) \/ Answer(c) \/ Save(c) \/ RecordFails(c)
       PROVE  OwnExposureBounded'
  <2>1. PICK to \in {"ending", "billed", "unparsed", "saved"} : At(c, to)
    BY <1>12 DEF Unbilled, Answer, Save, RecordFails
  <2>2. own' = own /\ stage[c] \in OnTheWay
    BY <1>12 DEF Unbilled, Answer, Save, RecordFails, ToLog, OnTheWay, Unlogged
  <2>3. QED
    BY <1>8, <2>1, <2>2 DEF Stages, Unsettled, Unlogged
<1>13. ASSUME NEW c \in Caller, Settle(c)
       PROVE  OwnExposureBounded'
  BY <1>8, <1>13 DEF Settle, Stages, OnTheWay, Unlogged
<1>14. ASSUME NEW c \in Caller, Log(c)
       PROVE  OwnExposureBounded'
  <2>1. At(c, "ending") /\ stage[c] \in OnTheWay /\ cost[c] \in 0 .. Reservation
        /\ own' = IF c \in Reasoner THEN own + cost[c] ELSE own
    BY <1>14 DEF Log, ToLog, OnTheWay, Unlogged, TypeOK
  <2>2. CASE c \notin Reasoner
    BY <1>8, <2>1, <2>2 DEF Stages, Unsettled
  <2>3. CASE c \in Reasoner
    <3>1. PastCap = PastCap' \cup {c} /\ c \notin PastCap'
      BY <2>1, <2>3 DEF At, TypeOK, PastCap, OnTheWay, Unlogged, Caller
    <3>2. Cardinality(PastCap' \cup {c}) = k' + 1
      BY <1>2, <3>1, FS_AddElement
    <3>3. k = k' + 1
      BY <3>1, <3>2
    <3>4. Reservation * k = Reservation * k' + Reservation
      BY <1>3, <3>3, Multiples
    <3>5. own' <= own + Reservation
      BY <1>1, <2>1, <2>3
    <3>6. QED
      BY <1>1, <1>4, <3>4, <3>5 DEF OwnExposureBounded, OwnExposure
  <2>4. QED
    BY <2>2, <2>3
<1>15. ASSUME Crash
       PROVE  OwnExposureBounded'
  <2>1. PastCap' = {}
    BY <1>15 DEF Crash, PastCap, OnTheWay, Unlogged, Caller
  <2>2. QED
    BY <1>6, <1>15, <2>1 DEF Crash
<1>16. QED
  BY <1>7, <1>9, <1>10, <1>11, <1>12, <1>13, <1>14, <1>15, ConstantsAssumption
  DEF Next, Step, ReadSpent, vars

(* The reasoner's own cap is exceeded by at most one call of each of its   *)
(* workers.                                                                *)
THEOREM OwnCapAlwaysBounded == Spec => []OwnCapBounded
<1>1. Init => OwnExposureBounded
  <2> SUFFICES ASSUME Init PROVE OwnExposureBounded
    OBVIOUS
  <2>1. Cardinality(PastCap) = 0
    <3>1. PastCap = {}
      BY DEF Init, PastCap, OnTheWay, Unlogged, Caller
    <3>2. QED
      BY <3>1, FS_EmptySet
  <2>2. Reservation * 0 = 0 /\ Reservation * Cardinality(Reasoner) \in Nat /\ OwnLimit \in Nat \ {0}
    BY ConstantsAssumption, FiniteCallers, Multiples
  <2>3. QED
    BY <2>1, <2>2 DEF Init, OwnExposureBounded, OwnExposure
<1>2. IInv /\ OwnExposureBounded /\ [Next]_vars => OwnExposureBounded'
  BY CountStep, OwnStep DEF IInv
<1>3. IInv /\ OwnExposureBounded => OwnCapBounded
  <2> SUFFICES ASSUME IInv, OwnExposureBounded PROVE OwnCapBounded
    OBVIOUS
  <2>1. own \in Nat /\ Reservation * Cardinality(PastCap) \in Nat
        /\ Reservation * Cardinality(Reasoner) \in Nat /\ OwnLimit \in Nat
    BY Counts, FiniteCallers, Multiples, ConstantsAssumption DEF IInv, TypeOK
  <2>2. QED
    BY <2>1 DEF OwnExposureBounded, OwnExposure, OwnCapBounded
<1> QED
  BY <1>1, <1>2, <1>3, Invariance, PTL DEF Spec
=============================================================================
