-------------------------- MODULE ConvertStageProofs --------------------------
(***************************************************************************)
(* What holds of conversions for any versions, slots and sweepers.         *)
(*                                                                         *)
(* Every step of the stages but an ingest's commit is a step of the ledger *)
(* or leaves it alone, and the commit keeps the ledger's invariant.  On    *)
(* top of it, a handler is followed through the gate: what it learns there *)
(* (approved, or to be measured first) stays true to its end, because an   *)
(* approval is never taken back.  A row parked for a missing route is      *)
(* followed through the ingests: for any lineages to the one step that can *)
(* leave it stale, for one lineage to the end.                             *)
(***************************************************************************)
EXTENDS ConvertStage, WorkLedgerProofs

USE DEF Lanes, FactReasons, Reasons, Statuses, Queued, Actors

-----------------------------------------------------------------------------
(* The rows of a version *)

LEMMA RowsOfVersions ==
  ASSUME ConvertAssumption
  PROVE  /\ \A r \in ConvertRows : \E v \in Versions : r = ConvertOf[v]
         /\ \A v \in Versions : /\ ConvertOf[v] \in ConvertRows /\ ConvertOf[v] \in Rows
                                /\ StructureOf[v] \in Rows \ ConvertRows
         /\ \A v, u \in Versions : ConvertOf[v] = ConvertOf[u] => v = u
         /\ \A v, u \in Versions : StructureOf[v] = StructureOf[u] => v = u
BY LedgerAssumption DEF ConvertAssumption

LEMMA VersionOfConvert ==
  ASSUME ConvertAssumption, NEW v \in Versions
  PROVE  VersionOf(ConvertOf[v]) = v
<1>1. \A u \in Versions : ConvertOf[v] \in {ConvertOf[u], StructureOf[u]} <=> u = v
  BY RowsOfVersions
<1> QED
  BY <1>1 DEF VersionOf

-----------------------------------------------------------------------------
(* The stages on the ledger *)

LEMMA ReleaseIsNext ==
  ASSUME NEW reason \in FactReasons, NEW S \in SUBSET ConvertRows, Release(reason, S)
  PROVE  Next
BY DEF Next

LEMMA ParkIsEnd ==
  ASSUME NEW w, NEW reason \in FactReasons, NEW stands \in BOOLEAN, Park(w, reason, stands)
  PROVE  EndAttempt(w)
BY DEF EndAttempt

LEMMA LedgerStep ==
  ASSUME ConvertAssumption, TypeOK, [StageNext]_allVars, ~\E v \in Versions : IngestCommits(v)
  PROVE  [Next]_vars
<1>1. CASE ResumeNoRoute
  <2>1. ParkedNoRoute \in SUBSET ConvertRows /\ Release("no_route", ParkedNoRoute)
    BY <1>1 DEF ResumeNoRoute, ParkedNoRoute
  <2> QED
    BY <2>1, ReleaseIsNext
<1>2. ASSUME NEW v \in Versions, Ingest(v) PROVE [Next]_vars
  BY <1>2 DEF Ingest, IngestReads, IngestAdopts, IngestAborts
<1>3. ASSUME NEW v \in Versions, Approve(v) PROVE [Next]_vars
  <2>1. {ConvertOf[v]} \in SUBSET ConvertRows
    BY RowsOfVersions
  <2>2. Release("admission", {ConvertOf[v]}) \/ UNCHANGED vars
    BY <1>3 DEF Approve
  <2> QED
    BY <2>1, <2>2, ReleaseIsNext
<1>4. ASSUME NEW w \in Workers, HandlerStep(w) PROVE [Next]_vars
  BY <1>4 DEF HandlerStep, Load, Gate, RecordMeasurement, Lookup, Converted, RecordRepresentation,
              StructureReading, ConversionFails, HandlerRaises, Quiet
<1>5. ASSUME NEW w \in Workers, StageEnds(w) PROVE [Next]_vars
  <2>1. StageComplete(w) \/ StageFail(w) \/ StageLeaseLost(w) => EndAttempt(w)
    BY DEF StageComplete, StageFail, StageLeaseLost, EndAttempt
  <2>2. ASSUME StagePark(w) PROVE EndAttempt(w)
    <3>1. \/ Park(w, "no_route", mime = "unroutable")
          \/ Park(w, "admission", meter[Version(w)] # "accepted")
      BY <2>2 DEF StagePark
    <3>2. /\ (mime = "unroutable") \in BOOLEAN /\ (meter[Version(w)] # "accepted") \in BOOLEAN
          /\ "no_route" \in FactReasons /\ "admission" \in FactReasons
      OBVIOUS
    <3> QED
      BY <3>1, <3>2, ParkIsEnd
  <2> QED
    BY <1>5, <2>1, <2>2 DEF StageEnds, Next
<1>6. ASSUME NEW w \in Workers, NEW r \in Rows, StageClaim(w, r) PROVE [Next]_vars
  BY <1>6 DEF StageClaim, Next
<1>7. ASSUME NEW w \in Workers, NEW k \in CallKeys, Bill(w, k) PROVE [Next]_vars
  BY <1>7 DEF Bill, Next
<1>8. ASSUME NEW s \in Sweepers, NEW S \in SUBSET Rows, StageReap(s, S) PROVE [Next]_vars
  BY <1>8 DEF StageReap, Next
<1>9. ASSUME NEW a \in Actors, StageDie(a) \/ \E r \in Rows : StageFinalize(a, r)
      PROVE  [Next]_vars
  BY <1>9 DEF StageDie, StageFinalize, Next
<1>10. ASSUME NEW r \in Rows, StageReplay(r) PROVE [Next]_vars
  <2>1. ReplayDeadLetter(r, 1, lane[r], TRUE) /\ lane[r] \in Lanes
    BY <1>10 DEF StageReplay, TypeOK
  <2>2. 1 \in 1..AttemptCeiling
    BY <2>1, LedgerAssumption DEF ReplayDeadLetter, TypeOK
  <2> QED
    BY <2>1, <2>2 DEF Next
<1>11. ASSUME NEW r \in Rows, Clock(r) PROVE [Next]_vars
  BY <1>11 DEF Clock, Next
<1>12. ASSUME NEW w \in Workers, RenewLease(w) PROVE [Next]_vars
  BY <1>12 DEF Next
<1>13. CASE UNCHANGED allVars
  BY <1>13 DEF allVars
<1> QED
  BY <1>1, <1>2, <1>3, <1>4, <1>5, <1>6, <1>7, <1>8, <1>9, <1>10, <1>11, <1>12, <1>13
  DEF StageNext

(* No stage parks a row on a budget, and what an ingest has locked to      *)
(* release stays parked until it does.                                     *)
ParkInv ==
  /\ \A r \in Rows : defer[r] # "budget"
  /\ releasing \subseteq ParkedNoRoute

(* What an ingest's commit does to a row.                                  *)
Freed(v)    == IF adopter = v THEN releasing ELSE {}
Fresh(v, r) == r = ConvertOf[v] /\ status[r] = "absent"

LEMMA IngestEffect ==
  ASSUME ConvertAssumption, TypeOK, ParkInv, NEW v \in Versions, IngestCommits(v)
  PROVE  /\ status' = [r \in Rows |-> IF Fresh(v, r) THEN "pending" ELSE status[r]]
         /\ lane' \in [Rows -> Lanes]
         /\ defer' = [r \in Rows |-> IF Fresh(v, r) /\ sawMime[v] = "unroutable" THEN "no_route"
                                      ELSE IF r \in Freed(v) THEN None ELSE defer[r]]
         /\ due' \in [Rows -> BOOLEAN]
<1> DEFINE row == ConvertOf[v]
           fresh == status[row] = "absent"
<1>1. /\ status' = [status EXCEPT ![row] = IF fresh THEN "pending" ELSE @]
      /\ lane' = [lane EXCEPT ![row] = IF fresh \/ status[row] \in Queued THEN "steady" ELSE @]
      /\ defer' = [[r \in Rows |-> IF r \in Freed(v) THEN None ELSE defer[r]]
                     EXCEPT ![row] = IF fresh /\ sawMime[v] = "unroutable" THEN "no_route" ELSE @]
      /\ due' = [r \in Rows |-> IF r \in Freed(v) \/ (r = row /\ fresh) THEN TRUE ELSE due[r]]
  BY DEF IngestCommits, Freed
<1>2. row \in Rows
  BY RowsOfVersions
<1>3. status' = [r \in Rows |-> IF Fresh(v, r) THEN "pending" ELSE status[r]]
  BY <1>1, <1>2 DEF TypeOK, Fresh
<1>4. lane' \in [Rows -> Lanes]
  BY <1>1, <1>2 DEF TypeOK
<1>5. defer' = [r \in Rows |-> IF Fresh(v, r) /\ sawMime[v] = "unroutable" THEN "no_route"
                               ELSE IF r \in Freed(v) THEN None ELSE defer[r]]
  <2> DEFINE kept == [r \in Rows |-> IF r \in Freed(v) THEN None ELSE defer[r]]
             last == IF fresh /\ sawMime[v] = "unroutable" THEN "no_route" ELSE kept[row]
  <2>1. defer' = [r \in Rows |-> IF r = row THEN last ELSE kept[r]]
    <3> HIDE DEF fresh, row
    <3> QED
      BY <1>1, <1>2, Zenon
  <2> QED
    BY <1>2, <2>1 DEF Fresh
<1>6. due' \in [Rows -> BOOLEAN]
  BY <1>1 DEF TypeOK
<1> QED
  BY <1>3, <1>4, <1>5, <1>6

(* An ingest's commit, which releases and enqueues at once, keeps what the *)
(* ledger promises.                                                        *)
LEMMA IngestKeepsLedger ==
  ASSUME ConvertAssumption, IInv, ParkInv, NEW v \in Versions, IngestCommits(v)
  PROVE  IInv'
<1>1. TypeOK
  BY DEF IInv, ClaimInv
<1>0. /\ status' = [r \in Rows |-> IF Fresh(v, r) THEN "pending" ELSE status[r]]
      /\ lane' \in [Rows -> Lanes]
      /\ defer' = [r \in Rows |-> IF Fresh(v, r) /\ sawMime[v] = "unroutable" THEN "no_route"
                                   ELSE IF r \in Freed(v) THEN None ELSE defer[r]]
      /\ due' \in [Rows -> BOOLEAN]
  BY <1>1, IngestEffect, Zenon
<1>2. /\ \A r \in Rows :
           /\ status'[r] = IF Fresh(v, r) THEN "pending" ELSE status[r]
           /\ defer'[r] = IF Fresh(v, r) /\ sawMime[v] = "unroutable" THEN "no_route"
                          ELSE IF r \in Freed(v) THEN None ELSE defer[r]
      /\ \A r \in Rows : Fresh(v, r) => status[r] = "absent"
  BY <1>0 DEF Fresh
<1>3. UNCHANGED <<attempts, maxAttempts, leased, heldRow, heldAttempt, heldCalls, owed, costs,
                  owner>>
  BY DEF IngestCommits, heldVars
<1>4. \A r \in Freed(v) : r \in Rows /\ status[r] = "pending" /\ defer[r] = "no_route"
  BY LedgerAssumption DEF ParkInv, ParkedNoRoute, LedgerAssumption, Freed
<1>5. TypeOK'
  <2>1. status' \in [Rows -> Statuses] /\ lane' \in [Rows -> Lanes] /\ due' \in [Rows -> BOOLEAN]
    BY <1>0, <1>1 DEF TypeOK
  <2>2. defer' \in [Rows -> Reasons \cup {None}]
    BY <1>0, <1>1 DEF TypeOK
  <2> QED
    BY <1>1, <1>3, <2>1, <2>2 DEF TypeOK
<1>6. HeldPositive' /\ HeldAttemptsReached' /\ OnlyOwnerPassesFence'
  BY <1>1, <1>2, <1>3
  DEF IInv, ClaimInv, TypeOK, HeldPositive, HeldAttemptsReached, OnlyOwnerPassesFence, Fenced
<1>7. RowInv'
  <2>1. \A r \in Rows : status[r] = "absent" => defer[r] = None
    BY DEF IInv, RowInv, RowChecksHold
  <2>2. RowChecksHold'
    <3>1. ASSUME NEW r \in Rows
          PROVE  /\ attempts'[r] <= maxAttempts'[r] /\ maxAttempts'[r] >= 1
                 /\ status'[r] = "failed" <=> defer'[r] = "retry_backoff"
                 /\ defer'[r] # None => status'[r] \in Queued
      <4>1. /\ attempts[r] <= maxAttempts[r] /\ maxAttempts[r] >= 1
            /\ status[r] = "failed" <=> defer[r] = "retry_backoff"
            /\ defer[r] # None => status[r] \in Queued
            /\ None # "retry_backoff"
        BY LedgerAssumption DEF IInv, RowInv, RowChecksHold, LedgerAssumption
      <4>2. CASE Fresh(v, r)
        BY <1>2, <1>3, <1>4, <2>1, <4>1, <4>2
      <4>3. CASE ~Fresh(v, r)
        BY <1>2, <1>3, <1>4, <4>1, <4>3
      <4> QED
        BY <4>2, <4>3
    <3> QED
      BY <3>1 DEF RowChecksHold
  <2>3. NoStrandedRow' /\ AbsentRowsHaveRetryLeft'
    BY <1>2, <1>3 DEF IInv, RowInv, NoStrandedRow, AbsentRowsHaveRetryLeft, RetryLeft
  <2> QED
    BY <2>2, <2>3 DEF RowInv
<1>8. BudgetParkIsOfOwnLane'
  BY <1>2, LedgerAssumption DEF ParkInv, BudgetParkIsOfOwnLane, LedgerAssumption
<1>9. CostsReached' /\ BilledByThisClaim'
  BY <1>1, <1>2, <1>3 DEF IInv, TypeOK, CostsReached, BilledByThisClaim, Fenced
<1> QED
  BY <1>5, <1>6, <1>7, <1>8, <1>9 DEF IInv, ClaimInv

LEMMA LedgerKept ==
  ASSUME ConvertAssumption, IInv, ParkInv, [StageNext]_allVars
  PROVE  IInv'
<1>1. CASE ~\E v \in Versions : IngestCommits(v)
  BY <1>1, LedgerStep, InvStep, LedgerAssumption DEF IInv, ClaimInv
<1>2. CASE \E v \in Versions : IngestCommits(v)
  BY <1>2, IngestKeepsLedger
<1> QED
  BY <1>1, <1>2

-----------------------------------------------------------------------------
(* The invariant                                                           *)

StageTypes ==
  /\ costClass \in {"free", "doc-text", "doc-scan"}
  /\ meter \in [Versions -> {"none", "measured", "accepted"}]
  /\ step \in [Workers -> Steps]
  /\ toMeasure \in [Workers -> BOOLEAN]

Paid(v) == costClass = "free" \/ meter[v] = "accepted"

(* Beyond the gate a conversion is paid for or will measure before it      *)
(* finishes, one that waits for approval was measured, and calls are       *)
(* billed only where no park follows.                                      *)
HandlerInv(w) ==
  /\ toMeasure[w] => costClass = "doc-text"
  /\ heldRow[w] = None => step[w] = "idle"
  /\ heldRow[w] \in Rows \ ConvertRows => step[w] \in {"load", "finish", "error", "fatal"}
  /\ \A v \in Versions : heldRow[w] = ConvertOf[v] =>
       /\ step[w] \in {"lookup", "convert", "record"} => Paid(v) \/ toMeasure[w]
       /\ step[w] = "finish" => Paid(v)
       /\ step[w] = "admission" => meter[v] # "none"
  /\ heldCalls[w] # {} /\ heldRow[w] \in ConvertRows =>
       step[w] \in {"convert", "record", "finish", "error", "fatal"} /\ ~toMeasure[w]

RowsInv == ParkInv /\ NothingPaidBeforeApproval /\ AdmissionParkStands

StageInv == IInv /\ StageTypes /\ RowsInv /\ \A w \in Workers : HandlerInv(w)

-----------------------------------------------------------------------------
(* Frames                                                                  *)

(* What was measured stays so; only an approval changes it.                *)
MeterKept ==
  /\ costClass' = costClass
  /\ \A v \in Versions : meter[v] # "none" => meter'[v] = meter[v]

SameSlot(w) ==
  /\ step'[w] = step[w] /\ toMeasure'[w] = toMeasure[w]
  /\ heldRow'[w] = heldRow[w] /\ heldCalls'[w] = heldCalls[w]

IdleSlot(w) ==
  /\ step'[w] = "idle" /\ toMeasure'[w] = FALSE
  /\ heldRow'[w] = None /\ heldCalls'[w] = {}

LEMMA SlotFrame ==
  ASSUME LedgerAssumption, ConvertAssumption, MeterKept, NEW w \in Workers, HandlerInv(w),
         SameSlot(w) \/ IdleSlot(w)
  PROVE  HandlerInv(w)'
<1>1. CASE SameSlot(w)
  BY <1>1 DEF SameSlot, HandlerInv, MeterKept, Paid
<1>2. CASE IdleSlot(w)
  BY <1>2, RowsOfVersions DEF IdleSlot, HandlerInv, LedgerAssumption
<1> QED
  BY <1>1, <1>2

(* A row is not parked for the meter, released from a missing route,       *)
(* or enqueued.                                                            *)
NotParked(r) ==
  /\ defer'[r] # "budget"
  /\ status'[r] = "pending" /\ defer'[r] = "admission"
       => status[r] = "pending" /\ defer[r] = "admission"
NotReleased(r) ==
  status[r] = "pending" /\ defer[r] = "no_route"
    => status'[r] = "pending" /\ defer'[r] = "no_route"
NotEnqueued(r) == status[r] = "absent" => status'[r] = "absent"

RowKept(r) == NotParked(r) /\ NotReleased(r) /\ NotEnqueued(r)

LEMMA ParksFrame ==
  ASSUME LedgerAssumption, ConvertAssumption, RowsInv, MeterKept, releasing' = releasing,
         \A r \in Rows : NotParked(r) /\ NotReleased(r)
  PROVE  ParkInv' /\ AdmissionParkStands'
<1>1. ParkInv'
  BY DEF RowsInv, ParkInv, ParkedNoRoute, NotParked, NotReleased, LedgerAssumption
<1>2. AdmissionParkStands'
  BY RowsOfVersions DEF RowsInv, AdmissionParkStands, MeterKept, NotParked
<1> QED
  BY <1>1, <1>2

LEMMA RowsFrame ==
  ASSUME LedgerAssumption, ConvertAssumption, RowsInv, MeterKept,
         UNCHANGED <<releasing, costs>>, \A r \in Rows : RowKept(r)
  PROVE  RowsInv'
<1>1. ParkInv' /\ AdmissionParkStands'
  BY ParksFrame DEF RowKept
<1>2. NothingPaidBeforeApproval'
  BY RowsOfVersions DEF RowsInv, NothingPaidBeforeApproval, MeterKept, RowKept, NotEnqueued
<1> QED
  BY <1>1, <1>2 DEF RowsInv

(* The steps of the ledger that park, release and enqueue nothing.         *)
LEMMA LedgerKeepsRows ==
  ASSUME LedgerAssumption, IInv, ParkInv,
         \/ \E w \in Workers, r \in Rows : Claim(w, r)
         \/ \E w \in Workers : FailRetry(w) \/ FailTerminal(w)
         \/ \E s \in Sweepers, S \in SUBSET Rows : Reap(s, S)
         \/ \E r \in Rows : ReplayDeadLetter(r, 1, lane[r], TRUE)
         \/ UNCHANGED <<status, defer>>
  PROVE  \A r \in Rows : RowKept(r)
<1> USE DEF RowKept, NotParked, NotReleased, NotEnqueued
<1>0. /\ TypeOK /\ \A r \in Rows : defer[r] # None => status[r] \in Queued
      /\ \A r \in Rows : defer[r] # "budget"
      /\ None \notin Reasons
  BY DEF IInv, ClaimInv, RowInv, RowChecksHold, ParkInv, LedgerAssumption
<1>1. ASSUME NEW w \in Workers, NEW r \in Rows, Claim(w, r) PROVE \A q \in Rows : RowKept(q)
  BY <1>0, <1>1 DEF TypeOK, Claim, Claimable
<1>2. ASSUME NEW w \in Workers, FailRetry(w) PROVE \A q \in Rows : RowKept(q)
  BY <1>0, <1>2 DEF TypeOK, FailRetry, Fenced
<1>3. ASSUME NEW w \in Workers, FailTerminal(w) PROVE \A q \in Rows : RowKept(q)
  BY <1>0, <1>3 DEF TypeOK, FailTerminal, Fenced
<1>4. ASSUME NEW s \in Sweepers, NEW S \in SUBSET Rows, Reap(s, S)
      PROVE  \A q \in Rows : RowKept(q)
  BY <1>0, <1>4 DEF TypeOK, Reap, Expired
<1>5. ASSUME NEW r \in Rows, ReplayDeadLetter(r, 1, lane[r], TRUE)
      PROVE  \A q \in Rows : RowKept(q)
  BY <1>0, <1>5 DEF TypeOK, ReplayDeadLetter
<1>6. CASE UNCHANGED <<status, defer>>
  BY <1>0, <1>6
<1> QED
  BY <1>1, <1>2, <1>3, <1>4, <1>5, <1>6

(* A slot lets go of its claim, and the others keep theirs.                *)
LEMMA LetsGo ==
  ASSUME LedgerAssumption, ConvertAssumption, IInv, StageTypes, MeterKept,
         NEW w \in Workers, LetGo(w), Reset(w),
         \A u \in Workers : HandlerInv(u)
  PROVE  \A u \in Workers : HandlerInv(u)'
<1>1. TypeOK
  BY DEF IInv, ClaimInv
<1>2. ASSUME NEW u \in Workers PROVE SameSlot(u) \/ IdleSlot(u)
  BY <1>1 DEF TypeOK, StageTypes, LetGo, Reset, GoTo, SameSlot, IdleSlot
<1> QED
  BY <1>2, SlotFrame

LEMMA SlotsKept ==
  ASSUME LedgerAssumption, ConvertAssumption, MeterKept,
         UNCHANGED <<heldRow, heldCalls, step, toMeasure>>,
         \A u \in Workers : HandlerInv(u)
  PROVE  \A u \in Workers : HandlerInv(u)'
BY SlotFrame DEF SameSlot

-----------------------------------------------------------------------------
(* The steps                                                               *)

Kept == StageTypes' /\ RowsInv' /\ \A w \in Workers : HandlerInv(w)'

(* A handler's own steps, which leave the ledger alone.                    *)
LEMMA HandlerKeeps ==
  ASSUME LedgerAssumption, ConvertAssumption, StageInv, NEW w \in Workers, HandlerStep(w)
  PROVE  Kept
<1> USE DEF GoTo, At, Quiet
<1>0. /\ TypeOK /\ StageTypes /\ HandlerInv(w)
      /\ heldRow[w] \in Rows
  BY DEF StageInv, IInv, ClaimInv, TypeOK, HandlerStep, Load, Gate, RecordMeasurement, Lookup,
         Converted, RecordRepresentation, Structuring, StructureReading, ConversionFails,
         HandlerRaises
<1>1. UNCHANGED <<vars, ingestVars>>
  BY DEF HandlerStep, Load, Gate, RecordMeasurement, Lookup, Converted, RecordRepresentation,
         StructureReading, ConversionFails, HandlerRaises
<1>2. \A u \in Workers : u # w => SameSlot(u)
  BY <1>0, <1>1
  DEF StageTypes, SameSlot, vars, heldVars, HandlerStep, Load, Gate, RecordMeasurement, Lookup,
      Converted, RecordRepresentation, StructureReading, ConversionFails, HandlerRaises
<1>3. step' \in [Workers -> Steps] /\ toMeasure' \in [Workers -> BOOLEAN]
  <2>1. ASSUME NEW s \in Steps, GoTo(w, s) PROVE step' \in [Workers -> Steps]
    BY <1>0, <2>1 DEF StageTypes
  <2>2. \E s \in Steps : GoTo(w, s)
    BY DEF Steps, Ending, HandlerStep, Load, Gate, RecordMeasurement, Lookup, Onwards, Converted,
           RecordRepresentation, StructureReading, ConversionFails, HandlerRaises
  <2>3. toMeasure' = toMeasure \/ \E b \in BOOLEAN : toMeasure' = [toMeasure EXCEPT ![w] = b]
    BY DEF HandlerStep, Load, Gate, RecordMeasurement, Lookup, Converted, RecordRepresentation,
           StructureReading, ConversionFails, HandlerRaises
  <2> QED
    BY <1>0, <2>1, <2>2, <2>3 DEF StageTypes
<1>4. ASSUME NEW v \in Versions, heldRow[w] = ConvertOf[v]
      PROVE  Version(w) = v /\ heldRow[w] \in ConvertRows
  BY <1>4, VersionOfConvert, RowsOfVersions DEF Version
<1>5. heldRow[w] \in ConvertRows => \E v \in Versions : heldRow[w] = ConvertOf[v]
  BY RowsOfVersions
<1>6. MeterKept /\ meter' \in [Versions -> {"none", "measured", "accepted"}]
  BY <1>0, <1>1
  DEF MeterKept, StageTypes, ingestVars, domainVars, HandlerStep, Load, Gate, RecordMeasurement,
      Lookup, Converted, RecordRepresentation, StructureReading, ConversionFails, HandlerRaises
<1>7. StageTypes'
  BY <1>0, <1>1, <1>3, <1>6 DEF StageTypes, ingestVars
<1>8. RowsInv'
  BY <1>1, <1>6, RowsFrame, LedgerKeepsRows DEF StageInv, RowsInv, vars, rowVars, ingestVars
<1>9. HandlerInv(w)'
  <2>0. /\ heldRow' = heldRow /\ heldCalls' = heldCalls /\ costClass' = costClass
        /\ meter \in [Versions -> {"none", "measured", "accepted"}]
        /\ toMeasure \in [Workers -> BOOLEAN] /\ step \in [Workers -> Steps]
        /\ costClass \in {"free", "doc-text", "doc-scan"}
    BY <1>0, <1>1 DEF vars, heldVars, ingestVars, StageTypes
  <2> USE DEF HandlerInv, Paid, MeterKept
  <2>1. CASE Load(w)
    BY <1>0, <1>6, <2>0, <2>1 DEF Load
  <2>2. CASE Gate(w)
    <3> DEFINE free(v) == costClass = "free" \/ meter[v] = "accepted"
    <3>1. /\ step[w] = "gate" /\ meter' = meter
          /\ step'[w] = IF free(Version(w)) THEN "lookup"
                        ELSE IF meter[Version(w)] # "none" THEN "admission"
                        ELSE IF costClass = "doc-scan" THEN "count" ELSE "lookup"
          /\ toMeasure'[w] = (/\ ~free(Version(w)) /\ meter[Version(w)] = "none"
                              /\ costClass = "doc-text")
      BY <2>0, <2>2 DEF Gate, domainVars
    <3>2. PICK v \in Versions : Version(w) = v /\ heldRow[w] = ConvertOf[v]
      BY <1>0, <1>4, <1>5, <3>1
    <3>3. meter[v] \in {"none", "measured", "accepted"}
      BY <2>0
    <3>4. heldCalls[w] = {}
      BY <1>0, <1>4, <3>1, <3>2
    <3> QED
      BY <1>0, <1>4, <2>0, <3>1, <3>2, <3>3, <3>4
  <2>3. CASE RecordMeasurement(w)
    BY <1>0, <1>4, <1>5, <1>6, <2>0, <2>3 DEF RecordMeasurement
  <2>4. CASE Lookup(w)
    BY <1>0, <1>4, <1>5, <1>6, <2>0, <2>4 DEF Lookup, Onwards
  <2>5. CASE Converted(w)
    BY <1>0, <1>6, <2>0, <2>5 DEF Converted
  <2>6. CASE RecordRepresentation(w)
    BY <1>0, <1>4, <1>5, <1>6, <2>0, <2>6 DEF RecordRepresentation, Onwards
  <2>7. CASE StructureReading(w)
    BY <1>0, <1>4, <1>6, <2>0, <2>7 DEF StructureReading, Structuring
  <2>8. CASE ConversionFails(w)
    BY <1>0, <1>6, <2>0, <2>8 DEF ConversionFails
  <2>9. CASE HandlerRaises(w)
    BY <1>0, <1>6, <2>0, <2>9 DEF HandlerRaises, Structuring, Ending
  <2> QED
    BY <2>1, <2>2, <2>3, <2>4, <2>5, <2>6, <2>7, <2>8, <2>9 DEF HandlerStep
<1>10. \A u \in Workers : HandlerInv(u)'
  BY <1>2, <1>6, <1>9, SlotFrame DEF StageInv
<1> QED
  BY <1>7, <1>8, <1>10 DEF Kept

(* A step that leaves the meter alone keeps it.                            *)
LEMMA MeterSame ==
  ASSUME UNCHANGED <<costClass, meter>>
  PROVE  MeterKept
BY DEF MeterKept

(* The end of an attempt.                                                  *)
LEMMA EndKeeps ==
  ASSUME LedgerAssumption, ConvertAssumption, StageInv, NEW w \in Workers, StageEnds(w)
  PROVE  Kept
<1>0. TypeOK /\ StageTypes /\ HandlerInv(w) /\ RowsInv
  BY DEF StageInv, IInv, ClaimInv
<1>1. LetGo(w) /\ Reset(w) /\ UNCHANGED <<ingestVars, meter, costs>>
  BY DEF StageEnds, StageComplete, Complete, StageFail, FailRetry, FailTerminal, StagePark, Park,
         StageLeaseLost, LeaseLost, domainVars
<1>2. MeterKept
  BY <1>1, MeterSame DEF ingestVars
<1>3. StageTypes'
  <2>1. step' \in [Workers -> Steps] /\ toMeasure' \in [Workers -> BOOLEAN]
    BY <1>0, <1>1 DEF StageTypes, Reset, GoTo, Steps
  <2> QED
    BY <1>0, <1>1, <2>1 DEF StageTypes, ingestVars
<1>4. \A u \in Workers : HandlerInv(u)'
  BY <1>0, <1>1, <1>2, LetsGo DEF StageInv
<1>5. /\ \A r \in Rows : defer[r] # None => status[r] \in Queued
      /\ \A r \in Rows : defer[r] # "budget"
      /\ None \notin Reasons /\ releasing' = releasing
  BY <1>0, <1>1 DEF StageInv, IInv, RowInv, RowChecksHold, RowsInv, ParkInv, LedgerAssumption,
                    ingestVars
<1>6. ASSUME StageFail(w) \/ StageLeaseLost(w) PROVE RowsInv'
  <2>1. FailRetry(w) \/ FailTerminal(w) \/ UNCHANGED <<status, defer>>
    BY <1>6 DEF StageFail, StageLeaseLost, LeaseLost, rowVars
  <2>2. \A r \in Rows : RowKept(r)
    BY <1>0, <2>1, LedgerKeepsRows DEF StageInv, RowsInv
  <2> QED
    BY <1>0, <1>1, <1>2, <1>5, <2>2, RowsFrame
<1>7. ASSUME StagePark(w) PROVE RowsInv'
  <2> DEFINE Parks(reason, stands) ==
               /\ Park(w, reason, stands)
               /\ reason = "admission" =>
                    step[w] = "admission" /\ stands = (meter[Version(w)] # "accepted")
  <2>1. PICK reason \in {"no_route", "admission"} : \E stands \in BOOLEAN : Parks(reason, stands)
    BY <1>7 DEF StagePark, At
  <2> HIDE DEF Parks
  <2>2. PICK stands \in BOOLEAN : Parks(reason, stands)
    BY <2>1
  <2> USE DEF Parks
  <2>3. PICK v \in Versions : heldRow[w] = ConvertOf[v]
    BY <2>2, RowsOfVersions DEF Park, MayPark
  <2>4. Version(w) = v /\ heldRow[w] \in Rows /\ status[heldRow[w]] = "running"
    BY <2>2, <2>3, VersionOfConvert, RowsOfVersions DEF Version, Park, MayPark, Fenced
  <2>5. \A r \in Rows :
          /\ status'[r] = IF r = ConvertOf[v] THEN "pending" ELSE status[r]
          /\ defer'[r] = IF r = ConvertOf[v] THEN IF stands THEN reason ELSE None ELSE defer[r]
    BY <1>0, <2>2, <2>3 DEF Park, TypeOK
  <2>6. ParkInv'
    BY <1>0, <1>5, <2>3, <2>4, <2>5, LedgerAssumption
    DEF RowsInv, ParkInv, ParkedNoRoute, LedgerAssumption
  <2>7. NothingPaidBeforeApproval'
    BY <1>0, <1>1, <1>2, <2>3, <2>4, <2>5, RowsOfVersions
    DEF RowsInv, NothingPaidBeforeApproval, MeterKept
  <2>8. AdmissionParkStands'
    <3>1. step[w] = "admission" => meter[v] # "none"
      BY <1>0, <2>3 DEF HandlerInv
    <3>2. meter' = meter /\ meter[v] \in {"none", "measured", "accepted"}
      BY <1>0, <1>1 DEF StageTypes
    <3> QED
      BY <1>0, <1>5, <2>2, <2>4, <2>5, <3>1, <3>2, RowsOfVersions
      DEF RowsInv, AdmissionParkStands
  <2> QED
    BY <2>6, <2>7, <2>8 DEF RowsInv
<1>8. ASSUME StageComplete(w) PROVE RowsInv'
  <2>1. Complete(w) /\ At(w, "finish") /\ Fenced(w) /\ heldRow[w] \in Rows
    BY <1>0, <1>8 DEF StageComplete, Complete, At, TypeOK
  <2>2. \A r \in Rows : /\ NotParked(r) /\ NotReleased(r)
                        /\ r \notin FollowUps[heldRow[w]] => NotEnqueued(r)
    BY <1>0, <1>5, <2>1
    DEF Complete, EnqueueAll, TypeOK, LiftsPark, Fenced, NotParked, NotReleased, NotEnqueued
  <2>3. ParkInv' /\ AdmissionParkStands'
    BY <1>0, <1>2, <1>5, <2>2, ParksFrame
  <2>4. ASSUME NEW v \in Versions, ~Paid(v) PROVE NotEnqueued(StructureOf[v])
    <3>1. ASSUME StructureOf[v] \in FollowUps[heldRow[w]] PROVE FALSE
      <4>1. PICK u \in Versions : heldRow[w] = ConvertOf[u] /\ StructureOf[v] = StructureOf[u]
        BY <2>1, <3>1 DEF ConvertAssumption
      <4>2. heldRow[w] = ConvertOf[v]
        BY <4>1, RowsOfVersions
      <4> QED
        BY <1>0, <2>1, <2>4, <4>2 DEF HandlerInv, At
    <3> QED
      BY <2>2, <3>1, RowsOfVersions
  <2>5. NothingPaidBeforeApproval'
    BY <1>0, <1>1, <1>2, <2>4 DEF RowsInv, NothingPaidBeforeApproval, MeterKept, Paid, NotEnqueued
  <2> QED
    BY <2>3, <2>5 DEF RowsInv
<1> QED
  BY <1>3, <1>4, <1>6, <1>7, <1>8 DEF Kept, StageEnds

(* A billed call.                                                          *)
LEMMA BillKeeps ==
  ASSUME LedgerAssumption, ConvertAssumption, StageInv,
         NEW w \in Workers, NEW k \in CallKeys, Bill(w, k)
  PROVE  Kept
<1>0. TypeOK /\ StageTypes /\ HandlerInv(w) /\ RowsInv
  BY DEF StageInv, IInv, ClaimInv
<1>1. /\ Fenced(w) /\ heldRow[w] \in Rows
      /\ costs' = costs \cup {<<heldRow[w], heldAttempt[w], k>>}
      /\ heldCalls' = [heldCalls EXCEPT ![w] = @ \cup {k}]
      /\ UNCHANGED <<rowVars, heldRow, stageVars>>
  BY <1>0 DEF Bill, RecordCall, Fenced, TypeOK
<1>2. MeterKept /\ UNCHANGED <<status, defer, releasing, meter, costClass, step, toMeasure>>
  BY <1>1, MeterSame DEF stageVars, ingestVars, domainVars, handlerVars, rowVars
<1>3. heldRow[w] \in ConvertRows => step[w] = "convert" /\ costClass # "doc-text"
  BY DEF Bill, Structuring, At
<1>4. ParkInv' /\ AdmissionParkStands'
  BY <1>0, <1>2, LedgerKeepsRows, ParksFrame DEF StageInv, RowsInv, RowKept
<1>5. NothingPaidBeforeApproval'
  <2>1. ASSUME NEW v \in Versions, heldRow[w] = ConvertOf[v] PROVE Paid(v)
    BY <1>0, <1>3, <2>1, RowsOfVersions DEF HandlerInv
  <2>2. ASSUME NEW v \in Versions, costClass # "free", meter[v] # "accepted"
        PROVE  \A c \in costs' : c[1] # ConvertOf[v]
    BY <1>0, <1>1, <2>1, <2>2 DEF RowsInv, NothingPaidBeforeApproval, Paid
  <2> QED
    BY <1>0, <1>2, <2>2 DEF RowsInv, NothingPaidBeforeApproval
<1>6. HandlerInv(w)'
  BY <1>0, <1>1, <1>2, <1>3 DEF HandlerInv, Paid, StageTypes
<1>7. \A u \in Workers : u # w => SameSlot(u)
  BY <1>0, <1>1, <1>2 DEF SameSlot, TypeOK
<1>8. \A u \in Workers : HandlerInv(u)'
  BY <1>2, <1>6, <1>7, SlotFrame DEF StageInv
<1> QED
  BY <1>0, <1>2, <1>4, <1>5, <1>8 DEF Kept, RowsInv, StageTypes

(* A claim.                                                                *)
LEMMA ClaimKeeps ==
  ASSUME LedgerAssumption, ConvertAssumption, StageInv,
         NEW w \in Workers, NEW r \in Rows, StageClaim(w, r)
  PROVE  Kept
<1>0. TypeOK /\ StageTypes /\ HandlerInv(w) /\ RowsInv
  BY DEF StageInv, IInv, ClaimInv
<1>1. /\ Claim(w, r) /\ heldRow[w] = None /\ costs' = costs
      /\ heldRow' = [heldRow EXCEPT ![w] = r] /\ heldCalls' = [heldCalls EXCEPT ![w] = {}]
      /\ step' = [step EXCEPT ![w] = "load"] /\ toMeasure' = toMeasure
      /\ UNCHANGED <<releasing, meter, costClass>>
  BY DEF StageClaim, Claim, Idle, GoTo, ingestVars, domainVars
<1>2. MeterKept
  BY <1>1, MeterSame
<1>3. RowsInv'
  BY <1>0, <1>1, <1>2, LedgerKeepsRows, RowsFrame DEF StageInv, RowsInv
<1>4. StageTypes'
  BY <1>0, <1>1 DEF StageTypes, Steps
<1>5. HandlerInv(w)'
  BY <1>0, <1>1 DEF HandlerInv, Paid, StageTypes, TypeOK, LedgerAssumption
<1>6. \A u \in Workers : u # w => SameSlot(u)
  BY <1>0, <1>1 DEF SameSlot, TypeOK, StageTypes
<1>7. \A u \in Workers : HandlerInv(u)'
  BY <1>2, <1>5, <1>6, SlotFrame DEF StageInv
<1> QED
  BY <1>3, <1>4, <1>7 DEF Kept

(* Sweeps, replays, clocks, deaths and finalizers.                         *)
LEMMA RestKeeps ==
  ASSUME LedgerAssumption, ConvertAssumption, StageInv,
         \/ \E w \in Workers : RenewLease(w) /\ UNCHANGED stageVars
         \/ \E s \in Sweepers, S \in SUBSET Rows : StageReap(s, S)
         \/ \E a \in Actors : StageDie(a) \/ \E r \in Rows : StageFinalize(a, r)
         \/ \E r \in Rows : StageReplay(r) \/ Clock(r)
  PROVE  Kept
<1>0. TypeOK /\ StageTypes /\ RowsInv
  BY DEF StageInv, IInv, ClaimInv
<1>1. /\ UNCHANGED <<ingestVars, meter, costs>>
      /\ \/ \E s \in Sweepers, S \in SUBSET Rows : Reap(s, S)
         \/ \E r \in Rows : ReplayDeadLetter(r, 1, lane[r], TRUE)
         \/ UNCHANGED <<status, defer>>
  BY DEF stageVars, ingestVars, domainVars, RenewLease, StageReap, StageDie, Die, StageFinalize,
         Finalize, StageReplay, Clock, BecomesDue, LeaseLapses, rowVars, Reap, ReplayDeadLetter
<1>2. MeterKept /\ releasing' = releasing
  BY <1>1, MeterSame DEF ingestVars
<1>3. RowsInv'
  BY <1>0, <1>1, <1>2, LedgerKeepsRows, RowsFrame DEF StageInv, RowsInv
<1>4. CASE \E a \in Workers : StageDie(a)
  <2>1. PICK a \in Workers : StageDie(a)
    BY <1>4
  <2>2. LetGo(a) /\ Reset(a)
    BY <2>1 DEF StageDie, Die
  <2>3. \A u \in Workers : HandlerInv(u)'
    BY <1>0, <1>2, <2>2, LetsGo DEF StageInv
  <2>4. step' \in [Workers -> Steps] /\ toMeasure' \in [Workers -> BOOLEAN]
    BY <1>0, <2>2 DEF StageTypes, Reset, GoTo, Steps
  <2> QED
    BY <1>0, <1>1, <1>3, <2>3, <2>4 DEF Kept, StageTypes, ingestVars
<1>5. CASE UNCHANGED <<heldRow, heldCalls, step, toMeasure>>
  BY <1>0, <1>1, <1>2, <1>3, <1>5, SlotsKept DEF Kept, StageTypes, StageInv, ingestVars
<1>6. \/ \E a \in Workers : StageDie(a)
      \/ UNCHANGED <<heldRow, heldCalls, step, toMeasure>>
  BY DEF stageVars, handlerVars, heldVars, RenewLease, StageReap, StageDie, Die, StageFinalize,
         Finalize, StageReplay, Clock, BecomesDue, LeaseLapses, Reap, ReplayDeadLetter
<1> QED
  BY <1>4, <1>5, <1>6

(* An ingest.                                                              *)
LEMMA IngestKeeps ==
  ASSUME LedgerAssumption, ConvertAssumption, StageInv, NEW v \in Versions, Ingest(v)
  PROVE  Kept
<1>0. TypeOK /\ StageTypes /\ RowsInv /\ ParkInv
  BY DEF StageInv, IInv, ClaimInv, RowsInv
<1>1. UNCHANGED <<costClass, meter, costs, heldRow, heldCalls, step, toMeasure>>
  BY DEF Ingest, IngestReads, IngestAdopts, IngestAborts, IngestCommits, vars, heldVars,
         domainVars, handlerVars
<1>2. MeterKept
  BY <1>1, MeterSame
<1>3. StageTypes' /\ \A u \in Workers : HandlerInv(u)'
  BY <1>0, <1>1, <1>2, SlotsKept DEF StageTypes, StageInv
<1>4. ASSUME ~IngestCommits(v) PROVE RowsInv'
  <2>1. UNCHANGED <<status, defer>>
    BY <1>4 DEF Ingest, IngestReads, IngestAdopts, IngestAborts, vars, rowVars
  <2>2. releasing' \subseteq releasing \/ releasing' \subseteq ParkedNoRoute
    BY <1>4 DEF Ingest, IngestReads, IngestAdopts, IngestAborts
  <2>3. ParkInv'
    BY <1>0, <1>1, <2>1, <2>2 DEF ParkInv, ParkedNoRoute
  <2>4. NothingPaidBeforeApproval' /\ AdmissionParkStands'
    BY <1>0, <1>1, <2>1 DEF RowsInv, NothingPaidBeforeApproval, AdmissionParkStands
  <2> QED
    BY <2>3, <2>4 DEF RowsInv
<1>5. ASSUME IngestCommits(v) PROVE RowsInv'
  <2>1. /\ status' = [r \in Rows |-> IF Fresh(v, r) THEN "pending" ELSE status[r]]
        /\ defer' = [r \in Rows |-> IF Fresh(v, r) /\ sawMime[v] = "unroutable" THEN "no_route"
                                     ELSE IF r \in Freed(v) THEN None ELSE defer[r]]
    BY <1>0, <1>5, IngestEffect, Zenon
  <2>2. /\ \A r \in Rows : defer[r] # None => status[r] \in Queued
        /\ None \notin Reasons /\ ConvertRows \subseteq Rows
    BY DEF StageInv, IInv, RowInv, RowChecksHold, LedgerAssumption
  <2>3. ParkInv'
    <3>1. \A r \in Rows : defer'[r] # "budget"
      BY <1>0, <2>1, <2>2 DEF ParkInv
    <3>2. /\ adopter = v => releasing' = {} /\ Freed(v) = releasing
          /\ adopter # v => releasing' = releasing /\ Freed(v) = {}
      BY <1>5 DEF IngestCommits, Freed
    <3>3. releasing' \subseteq ParkedNoRoute'
      BY <1>0, <2>1, <2>2, <3>2 DEF ParkInv, ParkedNoRoute, Fresh
    <3> QED
      BY <1>1, <3>1, <3>3 DEF ParkInv
  <2>4. NothingPaidBeforeApproval'
    BY <1>0, <1>1, <2>1, RowsOfVersions DEF RowsInv, NothingPaidBeforeApproval, Fresh
  <2>5. AdmissionParkStands'
    BY <1>0, <1>1, <2>1, <2>2, RowsOfVersions DEF RowsInv, AdmissionParkStands, Fresh
  <2> QED
    BY <2>3, <2>4, <2>5 DEF RowsInv
<1> QED
  BY <1>3, <1>4, <1>5 DEF Kept

(* Rows released for a reason are no longer parked for it.                 *)
LEMMA ReleaseEffect ==
  ASSUME TypeOK, NEW reason, NEW S, Release(reason, S)
  PROVE  /\ status' = status
         /\ \A r \in Rows : defer'[r] = IF r \in S THEN None ELSE defer[r]
         /\ \A r \in S : defer[r] = reason
         /\ UNCHANGED <<heldRow, heldCalls, costs>>
BY DEF TypeOK, Release, heldVars

(* The operator's resume, and an approval, which alone changes the meter   *)
(* of a version that has been measured.                                    *)
LEMMA ResumeKeeps ==
  ASSUME LedgerAssumption, ConvertAssumption, StageInv, ResumeNoRoute
  PROVE  Kept
<1>0. TypeOK /\ StageTypes /\ RowsInv /\ None \notin Reasons
  BY DEF StageInv, IInv, ClaimInv, LedgerAssumption
<1>1. /\ UNCHANGED <<costClass, meter, step, toMeasure, releasing, status, heldRow,
                     heldCalls, costs>>
      /\ releasing = {}
      /\ \A r \in Rows : defer'[r] \in {None, defer[r]}
  BY <1>0, ReleaseEffect
  DEF ResumeNoRoute, stageVars, ingestVars, domainVars, handlerVars
<1>2. MeterKept
  BY <1>1, MeterSame
<1>3. ParkInv'
  BY <1>0, <1>1 DEF RowsInv, ParkInv
<1>4. NothingPaidBeforeApproval' /\ AdmissionParkStands'
  BY <1>0, <1>1, RowsOfVersions DEF RowsInv, NothingPaidBeforeApproval, AdmissionParkStands
<1> QED
  BY <1>0, <1>1, <1>2, <1>3, <1>4, SlotsKept DEF Kept, RowsInv, StageTypes, StageInv

LEMMA ApproveKeeps ==
  ASSUME LedgerAssumption, ConvertAssumption, StageInv, NEW v \in Versions, Approve(v)
  PROVE  Kept
<1>0. /\ TypeOK /\ StageTypes /\ RowsInv /\ None \notin Reasons /\ ConvertOf[v] \in Rows
      /\ ConvertRows \subseteq Rows
  BY RowsOfVersions DEF StageInv, IInv, ClaimInv, LedgerAssumption
<1>1. /\ UNCHANGED <<costClass, step, toMeasure, releasing>>
      /\ meter[v] = "measured" /\ meter' = [meter EXCEPT ![v] = "accepted"]
  BY DEF Approve, ingestVars, handlerVars
<1>2. /\ UNCHANGED <<status, heldRow, heldCalls, costs>>
      /\ \A r \in Rows :
           defer'[r] = IF r = ConvertOf[v] /\ status[r] = "pending" /\ defer[r] = "admission"
                       THEN None ELSE defer[r]
  <2>1. CASE status[ConvertOf[v]] = "pending" /\ defer[ConvertOf[v]] = "admission"
    BY <1>0, <2>1, ReleaseEffect DEF Approve
  <2>2. CASE ~(status[ConvertOf[v]] = "pending" /\ defer[ConvertOf[v]] = "admission")
    BY <2>2 DEF Approve, vars, rowVars, heldVars
  <2> QED
    BY <2>1, <2>2
<1>3. \A u \in Versions : meter'[u] = IF u = v THEN "accepted" ELSE meter[u]
  BY <1>0, <1>1 DEF StageTypes
<1>4. StageTypes'
  BY <1>0, <1>1 DEF StageTypes
<1>5. ParkInv'
  BY <1>0, <1>1, <1>2 DEF RowsInv, ParkInv, ParkedNoRoute
<1>6. NothingPaidBeforeApproval'
  BY <1>0, <1>1, <1>2, <1>3 DEF RowsInv, NothingPaidBeforeApproval
<1>7. AdmissionParkStands'
  BY <1>0, <1>2, <1>3, RowsOfVersions DEF RowsInv, AdmissionParkStands
<1>8. \A w \in Workers : HandlerInv(w)'
  BY <1>1, <1>2, <1>3 DEF StageInv, HandlerInv, Paid
<1> QED
  BY <1>4, <1>5, <1>6, <1>7, <1>8 DEF Kept, RowsInv

-----------------------------------------------------------------------------
(* The theorems                                                            *)

LEMMA StageInvInit ==
  ASSUME LedgerAssumption, ConvertAssumption, StageInit
  PROVE  StageInv
<1>1. IInv
  BY InvInit DEF StageInit
<1>2. StageTypes
  BY DEF StageInit, StageTypes, ConvertAssumption, Steps
<1>3. RowsInv
  BY RowsOfVersions
  DEF StageInit, Init, RowsInv, ParkInv, NothingPaidBeforeApproval, AdmissionParkStands,
      LedgerAssumption
<1>4. \A w \in Workers : HandlerInv(w)
  BY RowsOfVersions DEF StageInit, Init, HandlerInv, LedgerAssumption
<1> QED
  BY <1>1, <1>2, <1>3, <1>4 DEF StageInv

LEMMA StageInvStep ==
  ASSUME LedgerAssumption, ConvertAssumption, StageInv, [StageNext]_allVars
  PROVE  StageInv'
<1>1. IInv'
  BY LedgerKept DEF StageInv, RowsInv
<1>2. ASSUME StageNext PROVE Kept
  <2>1. CASE ResumeNoRoute
    BY <2>1, ResumeKeeps
  <2>2. ASSUME NEW v \in Versions, Ingest(v) \/ Approve(v) PROVE Kept
    BY <2>2, IngestKeeps, ApproveKeeps
  <2>3. ASSUME NEW w \in Workers, HandlerStep(w) \/ StageEnds(w) PROVE Kept
    BY <2>3, HandlerKeeps, EndKeeps
  <2>4. ASSUME NEW w \in Workers, NEW r \in Rows, StageClaim(w, r) PROVE Kept
    BY <2>4, ClaimKeeps
  <2>5. ASSUME NEW w \in Workers, NEW k \in CallKeys, Bill(w, k) PROVE Kept
    BY <2>5, BillKeeps
  <2>6. CASE \/ \E w \in Workers : RenewLease(w) /\ UNCHANGED stageVars
             \/ \E s \in Sweepers, S \in SUBSET Rows : StageReap(s, S)
             \/ \E a \in Actors : StageDie(a) \/ \E r \in Rows : StageFinalize(a, r)
             \/ \E r \in Rows : StageReplay(r) \/ Clock(r)
    BY <2>6, RestKeeps
  <2> QED
    BY <1>2, <2>1, <2>2, <2>3, <2>4, <2>5, <2>6 DEF StageNext
<1>3. ASSUME UNCHANGED allVars PROVE Kept
  <2>1. UNCHANGED <<status, defer, heldRow, heldCalls, costs, costClass, meter, step, toMeasure,
                    releasing>>
    BY <1>3 DEF allVars, vars, rowVars, heldVars, stageVars, ingestVars, domainVars, handlerVars
  <2>2. MeterKept
    BY <2>1, MeterSame
  <2>3. RowsInv'
    BY <2>1, <2>2, LedgerKeepsRows, RowsFrame DEF StageInv, RowsInv
  <2> QED
    BY <2>1, <2>2, <2>3, SlotsKept DEF StageInv, StageTypes, Kept
<1>4. Kept
  BY <1>2, <1>3
<1> QED
  BY <1>1, <1>4 DEF Kept, StageInv

THEOREM StageInvariance == StageSpec => []StageInv
<1> USE LedgerAssumption, ConvertAssumption
<1>1. StageInit => StageInv
  BY StageInvInit
<1>2. StageInv /\ [StageNext]_allVars => StageInv'
  BY StageInvStep
<1> QED
  BY <1>1, <1>2, PTL DEF StageSpec

(* The stages keep the ledger: an ingest's commit apart, whatever they do  *)
(* is a step of it, and all it promises of attempts, checks and calls      *)
(* holds of conversions too.                                               *)
THEOREM LedgerUnderStages == StageSpec => []IInv
<1>1. StageInv => IInv
  BY DEF StageInv
<1> QED
  BY <1>1, StageInvariance, PTL

(* No OCR call of a scanned document and no stage beyond a conversion is   *)
(* run before the version's measurement is approved, for any number of     *)
(* versions, slots and sweepers.                                           *)
THEOREM NothingPaidEarly == StageSpec => []NothingPaidBeforeApproval
<1>1. StageInv => NothingPaidBeforeApproval
  BY DEF StageInv, RowsInv
<1> QED
  BY <1>1, StageInvariance, PTL

(* An attempt about to park has billed nothing, so the attempt number that *)
(* the park gives back names no call.                                      *)
THEOREM ParkedClaimsAreUnbilled == StageSpec => []ParkedClaimBilledNothing
<1>1. ASSUME StageInv PROVE ParkedClaimBilledNothing
  <2>1. ASSUME NEW w \in Workers, step[w] \in {"no_route", "admission"}
        PROVE  heldCalls[w] = {}
    <3>1. HandlerInv(w) /\ heldRow[w] \in Rows \cup {None} /\ ConvertRows \subseteq Rows
      BY <1>1, LedgerAssumption DEF StageInv, IInv, ClaimInv, TypeOK, LedgerAssumption
    <3> QED
      BY <2>1, <3>1 DEF HandlerInv
  <2> QED
    BY <2>1 DEF ParkedClaimBilledNothing
<1>2. StageInv => ParkedClaimBilledNothing
  BY <1>1
<1> QED
  BY <1>2, StageInvariance, PTL

(* A conversion parked for the meter waits for a decision still to come:   *)
(* no approval slips between the handler's reading and its park.           *)
THEOREM AdmissionParksStand == StageSpec => []AdmissionParkStands
<1>1. StageInv => AdmissionParkStands
  BY DEF StageInv, RowsInv
<1> QED
  BY <1>1, StageInvariance, PTL

(* Ingest and handlers write what the columns they write may hold.         *)
DomainTypes ==
  /\ mime \in {"routable", "unroutable"}
  /\ adopter \in Versions \cup {None}
  /\ sawMime \in [Versions -> {"routable", "unroutable", None}]
  /\ vstatus \in [Versions -> {"absent", "converting", "structuring", "ready", "failed"}]
  /\ reading \in [Versions -> 0..MaxReadings]
  /\ readings \in [Versions -> 0..MaxReadings]
  /\ chained \in [Versions -> 0..MaxReadings]
  /\ produced \in [Workers -> 0..MaxReadings]

LEMMA DomainStep ==
  ASSUME ConvertAssumption, TypeOK, DomainTypes, [StageNext]_allVars
  PROVE  DomainTypes'
<1> USE DEF DomainTypes, ingestVars, domainVars, handlerVars, stageVars
<1>0. MaxReadings \in Nat
  BY DEF ConvertAssumption
<1>1. ASSUME NEW v \in Versions, Ingest(v) PROVE DomainTypes'
  <2>1. CASE IngestReads(v)
    BY <2>1 DEF IngestReads
  <2>2. CASE IngestAdopts(v)
    BY <2>2 DEF IngestAdopts
  <2>3. CASE IngestCommits(v)
    BY <2>3 DEF IngestCommits
  <2>4. CASE IngestAborts(v)
    BY <2>4 DEF IngestAborts
  <2> QED
    BY <1>1, <2>1, <2>2, <2>3, <2>4 DEF Ingest
<1>2. ASSUME NEW w \in Workers, HandlerStep(w) PROVE DomainTypes'
  <2>1. heldRow[w] \in Rows
    BY <1>2 DEF TypeOK, HandlerStep, Load, Gate, RecordMeasurement, Lookup, Converted, At,
                RecordRepresentation, Structuring, StructureReading, ConversionFails, HandlerRaises
  <2>2. Version(w) \in Versions
    BY <2>1 DEF Version, VersionOf, ConvertAssumption
  <2>3. CASE Load(w) \/ Gate(w) \/ Converted(w) \/ HandlerRaises(w)
    BY <2>3 DEF Load, Gate, Converted, HandlerRaises, Quiet
  <2>4. CASE RecordMeasurement(w) \/ ConversionFails(w)
    BY <2>4 DEF RecordMeasurement, ConversionFails, MarkFailed
  <2>5. CASE Lookup(w)
    BY <1>0, <2>2, <2>5 DEF Lookup
  <2>6. CASE RecordRepresentation(w)
    <3>1. readings[Version(w)] + 1 \in 0..MaxReadings
      BY <1>0, <2>2, <2>6 DEF RecordRepresentation
    <3> QED
      BY <2>6, <3>1 DEF RecordRepresentation
  <2>7. CASE StructureReading(w)
    BY <2>2, <2>7 DEF StructureReading
  <2> QED
    BY <1>2, <2>3, <2>4, <2>5, <2>6, <2>7 DEF HandlerStep
<1>3. ASSUME NEW w \in Workers, StageEnds(w) PROVE DomainTypes'
  BY <1>0, <1>3 DEF StageEnds, StageComplete, StageFail, StagePark, StageLeaseLost, Reset
<1>4. ASSUME NEW a \in Actors, StageDie(a) \/ \E r \in Rows : StageFinalize(a, r)
      PROVE  DomainTypes'
  BY <1>0, <1>4 DEF StageDie, StageFinalize, Reset, MarkFailed
<1>5. CASE UNCHANGED <<mime, adopter, sawMime, vstatus, reading, readings, chained, produced>>
  BY <1>5
<1> QED
  BY <1>1, <1>2, <1>3, <1>4, <1>5
  DEF StageNext, allVars, ResumeNoRoute, Approve, StageClaim, Bill, StageReap, StageReplay, Clock

ClassOfRoute == costClass \in CostClasses

(* Every column and every slot holds what it may.                          *)
THEOREM StageTypeCorrect == StageSpec => []StageTypeOK
<1> USE LedgerAssumption, ConvertAssumption
<1>1. StageInit => DomainTypes
  BY DEF StageInit, DomainTypes, ConvertAssumption
<1>2. StageInv /\ DomainTypes /\ [StageNext]_allVars => DomainTypes'
  BY DomainStep DEF StageInv, IInv, ClaimInv
<1>3. StageInit => ClassOfRoute
  BY DEF StageInit, ClassOfRoute
<1>4. ClassOfRoute /\ [StageNext]_allVars => ClassOfRoute'
  BY DEF ClassOfRoute, StageNext, allVars, stageVars, ingestVars, ResumeNoRoute, Ingest,
         IngestReads, IngestAdopts, IngestCommits, IngestAborts, Approve, HandlerStep, Load, Gate,
         Quiet, RecordMeasurement, Lookup, Converted, RecordRepresentation, StructureReading,
         ConversionFails, HandlerRaises, StageEnds, StageComplete, StageFail, StagePark,
         StageLeaseLost, StageClaim, Bill, StageReap, StageDie, StageFinalize, StageReplay, Clock
<1>5. StageInv /\ DomainTypes /\ ClassOfRoute => StageTypeOK
  BY DEF ClassOfRoute, StageInv, IInv, ClaimInv, StageTypes, RowsInv, ParkInv, ParkedNoRoute,
         DomainTypes, StageTypeOK
<1> QED
  BY <1>1, <1>2, <1>3, <1>4, <1>5, StageInvariance, PTL DEF StageSpec

-----------------------------------------------------------------------------
(* Parks for a missing route                                               *)

(* No row comes to be parked for a missing route.                          *)
NoneParked == \A r \in Rows : /\ status'[r] = "pending" /\ defer'[r] = "no_route"
                              => status[r] = "pending" /\ defer[r] = "no_route"

LEMMA LedgerParksNothing ==
  ASSUME LedgerAssumption, IInv,
         \/ \E w \in Workers, r \in Rows : Claim(w, r)
         \/ \E w \in Workers : FailRetry(w) \/ FailTerminal(w) \/ Complete(w)
         \/ \E s \in Sweepers, S \in SUBSET Rows : Reap(s, S)
         \/ \E r \in Rows : ReplayDeadLetter(r, 1, lane[r], TRUE)
         \/ \E reason, S : Release(reason, S)
         \/ UNCHANGED <<status, defer>>
  PROVE  NoneParked
<1> USE DEF NoneParked
<1>0. /\ TypeOK /\ \A r \in Rows : defer[r] # None => status[r] \in Queued
      /\ None \notin Reasons
  BY DEF IInv, ClaimInv, RowInv, RowChecksHold, LedgerAssumption
<1>1. ASSUME NEW w \in Workers, NEW r \in Rows, Claim(w, r) PROVE NoneParked
  BY <1>0, <1>1 DEF TypeOK, Claim
<1>2. ASSUME NEW w \in Workers, FailRetry(w) PROVE NoneParked
  BY <1>0, <1>2 DEF TypeOK, FailRetry, Fenced
<1>3. ASSUME NEW w \in Workers, FailTerminal(w) PROVE NoneParked
  BY <1>0, <1>3 DEF TypeOK, FailTerminal, Fenced
<1>4. ASSUME NEW w \in Workers, Complete(w) PROVE NoneParked
  BY <1>0, <1>4 DEF TypeOK, Complete, EnqueueAll, LiftsPark, Fenced
<1>5. ASSUME NEW s \in Sweepers, NEW S \in SUBSET Rows, Reap(s, S) PROVE NoneParked
  BY <1>0, <1>5 DEF TypeOK, Reap, Expired
<1>6. ASSUME NEW r \in Rows, ReplayDeadLetter(r, 1, lane[r], TRUE) PROVE NoneParked
  BY <1>0, <1>6 DEF TypeOK, ReplayDeadLetter
<1>7. ASSUME NEW reason, NEW S, Release(reason, S) PROVE NoneParked
  BY <1>0, <1>7, ReleaseEffect
<1>8. CASE UNCHANGED <<status, defer>>
  BY <1>8
<1> QED
  BY <1>1, <1>2, <1>3, <1>4, <1>5, <1>6, <1>7, <1>8

(* Where a row does, no ingest holds the content's lock and its MIME has   *)
(* no route.                                                               *)
LEMMA ParksForRoute ==
  ASSUME LedgerAssumption, IInv, NEW w \in Workers, StagePark(w)
  PROVE  NoneParked \/ (adopter = None /\ mime = "unroutable")
<1>0. TypeOK /\ None \notin Reasons
  BY DEF IInv, ClaimInv, LedgerAssumption
<1>1. ASSUME NEW reason \in {None, "admission"}, heldRow[w] \in Rows,
             status' = [status EXCEPT ![heldRow[w]] = "pending"],
             defer' = [defer EXCEPT ![heldRow[w]] = reason]
      PROVE  NoneParked
  BY <1>0, <1>1 DEF TypeOK, NoneParked
<1>2. CASE Park(w, "admission", meter[Version(w)] # "accepted")
  BY <1>0, <1>1, <1>2 DEF TypeOK, Park, MayPark, Fenced
<1>3. CASE adopter = None /\ Park(w, "no_route", mime = "unroutable")
  <2>1. CASE mime = "unroutable"
    BY <1>3, <2>1
  <2>2. CASE mime # "unroutable"
    BY <1>0, <1>1, <1>3, <2>2 DEF TypeOK, Park, MayPark, Fenced
  <2> QED
    BY <2>1, <2>2
<1> QED
  BY <1>2, <1>3 DEF StagePark

(* What every step but an ingest's does to them.                           *)
LEMMA StepParks ==
  ASSUME LedgerAssumption, ConvertAssumption, IInv, [StageNext]_allVars,
         ~\E v \in Versions : Ingest(v)
  PROVE  /\ UNCHANGED <<mime, adopter, sawMime>>
         /\ NoneParked \/ (adopter = None /\ mime = "unroutable")
         /\ releasing' = releasing
<1> USE DEF stageVars, ingestVars, vars, rowVars
<1>1. CASE ResumeNoRoute
  BY <1>1, LedgerParksNothing DEF ResumeNoRoute
<1>2. ASSUME NEW v \in Versions, Approve(v)
      PROVE  NoneParked /\ UNCHANGED ingestVars
  <2>1. UNCHANGED <<status, defer>> \/ \E reason, S : Release(reason, S)
    BY <1>2 DEF Approve
  <2> QED
    BY <1>2, <2>1, LedgerParksNothing DEF Approve
<1>3. ASSUME NEW w \in Workers, HandlerStep(w)
      PROVE  NoneParked /\ UNCHANGED ingestVars
  <2>1. UNCHANGED <<vars, ingestVars>>
    BY <1>3
    DEF HandlerStep, Load, Gate, RecordMeasurement, Lookup, Converted, RecordRepresentation,
        StructureReading, ConversionFails, HandlerRaises, Quiet
  <2> QED
    BY <2>1, LedgerParksNothing
<1>4. ASSUME NEW w \in Workers, StageEnds(w)
      PROVE  /\ NoneParked \/ (adopter = None /\ mime = "unroutable")
             /\ UNCHANGED ingestVars
  <2>1. UNCHANGED ingestVars
    BY <1>4 DEF StageEnds, StageComplete, StageFail, StagePark, StageLeaseLost
  <2>2. CASE StagePark(w)
    BY <2>1, <2>2, ParksForRoute
  <2>3. CASE StageComplete(w) \/ StageFail(w) \/ StageLeaseLost(w)
    <3>1. Complete(w) \/ FailRetry(w) \/ FailTerminal(w) \/ UNCHANGED <<status, defer>>
      BY <2>3 DEF StageComplete, StageFail, StageLeaseLost, LeaseLost
    <3> QED
      BY <2>1, <3>1, LedgerParksNothing
  <2> QED
    BY <1>4, <2>2, <2>3 DEF StageEnds
<1>5. ASSUME NEW w \in Workers, NEW r \in Rows, StageClaim(w, r)
      PROVE  NoneParked /\ UNCHANGED ingestVars
  BY <1>5, LedgerParksNothing DEF StageClaim
<1>6. CASE \/ \E w \in Workers, k \in CallKeys : Bill(w, k)
           \/ \E w \in Workers : RenewLease(w) /\ UNCHANGED stageVars
           \/ \E a \in Actors : StageDie(a) \/ \E r \in Rows : StageFinalize(a, r)
           \/ \E r \in Rows : Clock(r)
           \/ UNCHANGED allVars
  <2>1. UNCHANGED <<status, defer, ingestVars>>
    BY <1>6
    DEF Bill, RecordCall, RenewLease, StageDie, Die, StageFinalize, Finalize, Clock, BecomesDue,
        LeaseLapses, allVars
  <2> QED
    BY <2>1, LedgerParksNothing
<1>7. ASSUME NEW s \in Sweepers, NEW S \in SUBSET Rows, StageReap(s, S)
      PROVE  NoneParked /\ UNCHANGED ingestVars
  BY <1>7, LedgerParksNothing DEF StageReap
<1>8. ASSUME NEW r \in Rows, StageReplay(r)
      PROVE  NoneParked /\ UNCHANGED ingestVars
  BY <1>8, LedgerParksNothing DEF StageReplay
<1> QED
  BY <1>1, <1>2, <1>3, <1>4, <1>5, <1>6, <1>7, <1>8 DEF StageNext

(* A row parked for a missing route stands for one whose MIME has none.    *)
LEMMA StandsByRows ==
  ASSUME ConvertAssumption
  PROVE  NoRouteParkStands <=> (mime = "unroutable" \/ ParkedNoRoute = {})
BY RowsOfVersions DEF NoRouteParkStands, ParkedNoRoute

(* Whatever the lineages that share the content, no handler, meter or      *)
(* command leaves a park for a missing route on a MIME that has one: only  *)
(* the commit of an ingest ever can.                                       *)
HandlersParkWhatStands ==
  [][NoRouteParkStands /\ ~NoRouteParkStands' => \E v \in Versions : IngestCommits(v)]_allVars

THEOREM HandlersParksStand == StageSpec => HandlersParkWhatStands
<1>1. ASSUME LedgerAssumption, ConvertAssumption, StageInv, [StageNext]_allVars,
             NoRouteParkStands, ~\E v \in Versions : IngestCommits(v)
      PROVE  NoRouteParkStands'
  <2>1. mime = "unroutable" \/ ParkedNoRoute = {}
    BY <1>1, StandsByRows
  <2>2. mime' = mime /\ (NoneParked \/ mime = "unroutable")
    <3>1. CASE \E v \in Versions : Ingest(v)
      BY <1>1, <3>1
      DEF Ingest, IngestReads, IngestAdopts, IngestAborts, vars, rowVars, NoneParked
    <3>2. CASE ~\E v \in Versions : Ingest(v)
      BY <1>1, <3>2, StepParks DEF StageInv
    <3> QED
      BY <3>1, <3>2
  <2>3. mime' = "unroutable" \/ ParkedNoRoute' = {}
    BY <1>1, <2>1, <2>2 DEF NoneParked, ParkedNoRoute, LedgerAssumption
  <2> QED
    BY <1>1, <2>3, RowsOfVersions DEF NoRouteParkStands, ParkedNoRoute
<1> DEFINE Breaks == NoRouteParkStands /\ ~NoRouteParkStands'
                       => \E v \in Versions : IngestCommits(v)
<1>2. StageInv /\ [StageNext]_allVars => [Breaks]_allVars
  BY <1>1, LedgerAssumption, ConvertAssumption
<1> QED
  BY <1>2, StageInvariance, PTL DEF StageSpec, HandlersParkWhatStands

(* While one ingest at a time speaks for the content, as within a lineage: *)
(* the MIME it read is the MIME there is, and an ingest that replaces it   *)
(* has seen every row it has to release.                                   *)
RouteInv ==
  /\ NoRouteParkStands
  /\ \A v \in Versions : sawMime[v] = "unroutable" => mime = "unroutable" /\ adopter # v
  /\ adopter # None => /\ mime = "unroutable"
                       /\ sawMime[adopter] = "routable"
                       /\ ParkedNoRoute \subseteq releasing

(* The versions of a model are of different lineages.                      *)
OneLineage == \A u, v \in Versions : u = v

LEMMA RouteInvIngest ==
  ASSUME LedgerAssumption, ConvertAssumption, OneLineage, StageInv, DomainTypes, RouteInv,
         NEW v \in Versions, Ingest(v)
  PROVE  RouteInv'
<1>0. /\ TypeOK /\ ParkInv /\ None \notin Reasons /\ ConvertRows \subseteq Rows
      /\ None \notin Versions /\ None \notin {"routable", "unroutable"}
      /\ sawMime \in [Versions -> {"routable", "unroutable", None}]
      /\ adopter \in Versions \cup {None} /\ mime \in {"routable", "unroutable"}
      /\ \A r \in Rows : defer[r] # None => status[r] \in Queued
  BY DEF StageInv, IInv, ClaimInv, RowInv, RowChecksHold, RowsInv, DomainTypes, LedgerAssumption,
         ConvertAssumption
<1>1. mime = "unroutable" \/ ParkedNoRoute = {}
  BY StandsByRows DEF RouteInv
<1>2. \A u \in Versions : u = v
  BY DEF OneLineage
<1>3. adopter \in {v, None}
  BY <1>0, <1>2
<1>4. CASE IngestReads(v) \/ IngestAdopts(v) \/ IngestAborts(v)
  <2>1. ParkedNoRoute' = ParkedNoRoute /\ mime' = mime
    BY <1>4 DEF IngestReads, IngestAdopts, IngestAborts, vars, rowVars, ParkedNoRoute
  <2>2. NoRouteParkStands'
    BY <1>1, <2>1, RowsOfVersions DEF NoRouteParkStands, ParkedNoRoute
  <2>3. CASE IngestReads(v)
    BY <1>0, <1>2, <1>3, <2>1, <2>2, <2>3 DEF IngestReads, RouteInv
  <2>4. CASE IngestAdopts(v)
    BY <1>0, <1>2, <1>3, <2>1, <2>2, <2>4 DEF IngestAdopts, RouteInv
  <2>5. CASE IngestAborts(v)
    BY <1>0, <1>2, <1>3, <2>1, <2>2, <2>5 DEF IngestAborts, RouteInv
  <2> QED
    BY <1>4, <2>3, <2>4, <2>5
<1>5. CASE IngestCommits(v)
  <2>1. /\ status' = [r \in Rows |-> IF Fresh(v, r) THEN "pending" ELSE status[r]]
        /\ defer' = [r \in Rows |-> IF Fresh(v, r) /\ sawMime[v] = "unroutable" THEN "no_route"
                                     ELSE IF r \in Freed(v) THEN None ELSE defer[r]]
    BY <1>0, <1>5, IngestEffect, Zenon
  <2>2. /\ adopter' = None
        /\ sawMime' = [sawMime EXCEPT ![v] = None]
        /\ mime' = IF adopter = v THEN "routable" ELSE mime
    BY <1>3, <1>5 DEF IngestCommits
  <2>3. mime' = "unroutable" \/ ParkedNoRoute' = {}
    <3>1. CASE sawMime[v] = "unroutable"
      BY <1>3, <2>2, <3>1 DEF RouteInv
    <3>2. CASE sawMime[v] # "unroutable"
      <4>1. ParkedNoRoute' \subseteq ParkedNoRoute \ Freed(v)
        BY <1>0, <2>1, <3>2 DEF ParkedNoRoute, Fresh
      <4>2. CASE adopter = v
        BY <1>0, <4>1, <4>2 DEF RouteInv, Freed
      <4>3. CASE adopter # v
        BY <1>0, <1>1, <2>2, <4>1, <4>3
      <4> QED
        BY <4>2, <4>3
    <3> QED
      BY <3>1, <3>2
  <2>4. NoRouteParkStands'
    BY <2>3, RowsOfVersions DEF NoRouteParkStands, ParkedNoRoute
  <2>5. \A u \in Versions : sawMime'[u] # "unroutable"
    BY <1>0, <1>2, <2>2, LedgerAssumption
  <2> QED
    BY <2>2, <2>4, <2>5 DEF RouteInv
<1> QED
  BY <1>4, <1>5 DEF Ingest

LEMMA RouteInvStep ==
  ASSUME LedgerAssumption, ConvertAssumption, OneLineage, StageInv, DomainTypes, RouteInv,
         [StageNext]_allVars
  PROVE  RouteInv'
<1>1. CASE \E v \in Versions : Ingest(v)
  BY <1>1, RouteInvIngest
<1>2. CASE ~\E v \in Versions : Ingest(v)
  <2>1. /\ UNCHANGED <<mime, adopter, sawMime, releasing>>
        /\ NoneParked \/ (adopter = None /\ mime = "unroutable")
    BY <1>2, StepParks DEF StageInv
  <2>2. mime = "unroutable" \/ ParkedNoRoute = {}
    BY StandsByRows DEF RouteInv
  <2>3. ParkedNoRoute' \subseteq ParkedNoRoute \/ (adopter = None /\ mime = "unroutable")
    BY <2>1 DEF NoneParked, ParkedNoRoute, LedgerAssumption
  <2>4. NoRouteParkStands'
    BY <2>1, <2>2, <2>3, RowsOfVersions DEF NoRouteParkStands, ParkedNoRoute
  <2> QED
    BY <2>1, <2>3, <2>4 DEF RouteInv
<1> QED
  BY <1>1, <1>2

(* Within a lineage no park outlasts what it waits for: neither the        *)
(* meter's approval nor a MIME that a re-ingest adopts slips between the   *)
(* handler's reading and its park, or between the ingest's look at the     *)
(* parked rows and its commit.                                             *)
THEOREM ParksOfALineageStand ==
  ASSUME OneLineage
  PROVE  StageSpec => []ParksStand
<1> USE LedgerAssumption, ConvertAssumption
<1>1. StageInit => RouteInv
  BY RowsOfVersions DEF StageInit, Init, RouteInv, NoRouteParkStands, ParkedNoRoute,
     LedgerAssumption
<1>2. StageInv /\ DomainTypes /\ RouteInv /\ [StageNext]_allVars => RouteInv'
  BY RouteInvStep
<1>3. StageInit => DomainTypes
  BY DEF StageInit, DomainTypes, ConvertAssumption
<1>4. StageInv /\ DomainTypes /\ [StageNext]_allVars => DomainTypes'
  BY DomainStep DEF StageInv, IInv, ClaimInv
<1>5. StageInv /\ RouteInv => ParksStand
  BY DEF StageInv, RowsInv, RouteInv, ParksStand
<1> QED
  BY <1>1, <1>2, <1>3, <1>4, <1>5, StageInvariance, PTL DEF StageSpec

=============================================================================
