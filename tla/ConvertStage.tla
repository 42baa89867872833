---------------------------- MODULE ConvertStage ----------------------------
(***************************************************************************)
(* The convert and structure stages on the work ledger: ingest lands a     *)
(* version and its convert row, the convert handler gates, reads and       *)
(* records a representation, the structure handler makes it the version's  *)
(* live reading, and the managed meter approves what was measured.         *)
(*                                                                         *)
(* A handler is a sequence of separate transactions, none of them fenced   *)
(* by the attempt: only the ledger calls at its end, and the metering of   *)
(* its calls, are.  So an attempt that lost its lease keeps writing        *)
(* domain rows until it reaches one of those.                              *)
(*                                                                         *)
(* All versions share one content object (the same bytes uploaded to       *)
(* several lineages).  Its stored MIME either has a converter route in the *)
(* workers' table or has none.  The tables of the processes that ingest    *)
(* and of the operator's command may route more than that; no file is too  *)
(* large.                                                                  *)
(***************************************************************************)
EXTENDS WorkLedger

CONSTANTS
  Versions,
  ConvertOf, StructureOf,   \* the two rows of a version
  CostClasses,              \* of the routes: "free" (or no meter), "doc-text", "doc-scan"
  MaxReadings               \* bound on the representations of a version

ASSUME ConvertAssumption ==
  /\ ConvertOf \in [Versions -> ConvertRows]
  /\ StructureOf \in [Versions -> Rows \ ConvertRows]
  /\ \A v \in Versions : /\ FollowUps[ConvertOf[v]] = {StructureOf[v]}
                          /\ FollowUps[StructureOf[v]] = {}
  /\ \A v, u \in Versions : v # u => /\ ConvertOf[v] # ConvertOf[u]
                                     /\ StructureOf[v] # StructureOf[u]
  /\ Rows = {ConvertOf[v] : v \in Versions} \cup {StructureOf[v] : v \in Versions}
  /\ CostClasses \subseteq {"free", "doc-text", "doc-scan"}
  /\ MaxReadings \in Nat
  /\ None \notin Versions /\ None \notin {"routable", "unroutable"}

VARIABLES
  costClass,   \* of the route the content's MIME has
  mime,        \* content_objects.mime: "routable" or "unroutable"
  adopter,     \* the ingest holding the content row's lock to replace its MIME
  releasing,   \* the parked rows that ingest has locked to release
  sawMime,     \* what an open ingest makes of the effective MIME it has read
  vstatus,     \* document_versions.status
  reading,     \* current_representation_id, 0 for none
  readings,    \* how many representations the version has, numbered from 1
  chained,     \* the representation in the structure row's payload
  meter,       \* managed_ingest_measurements.delivery_state
  step,        \* where a slot's handler is
  toMeasure,   \* the gate told this conversion to measure its text
  produced     \* the representation a slot's handler will chain

ingestVars  == <<costClass, mime, adopter, releasing, sawMime>>
domainVars  == <<vstatus, reading, readings, chained, meter>>
handlerVars == <<step, toMeasure, produced>>
stageVars   == <<ingestVars, domainVars, handlerVars>>
allVars     == <<vars, stageVars>>

VersionOf(r) == CHOOSE v \in Versions : r \in {ConvertOf[v], StructureOf[v]}
Version(w)   == VersionOf(heldRow[w])

Ending == {"finish", "error", "fatal", "no_route", "admission"}
Steps  == {"idle", "load", "gate", "count", "lookup", "convert", "record", "measure"} \cup Ending

StageTypeOK ==
  /\ TypeOK
  /\ costClass \in CostClasses
  /\ mime \in {"routable", "unroutable"}
  /\ adopter \in Versions \cup {None}
  /\ releasing \subseteq ConvertRows
  /\ sawMime \in [Versions -> {"routable", "unroutable", None}]
  /\ vstatus \in [Versions -> {"absent", "converting", "structuring", "ready", "failed"}]
  /\ reading \in [Versions -> 0..MaxReadings]
  /\ readings \in [Versions -> 0..MaxReadings]
  /\ chained \in [Versions -> 0..MaxReadings]
  /\ meter \in [Versions -> {"none", "measured", "accepted"}]
  /\ step \in [Workers -> Steps]
  /\ toMeasure \in [Workers -> BOOLEAN]
  /\ produced \in [Workers -> 0..MaxReadings]

StageInit ==
  /\ Init
  /\ costClass \in CostClasses
  /\ mime \in {"routable", "unroutable"}
  /\ adopter = None
  /\ releasing = {}
  /\ sawMime = [v \in Versions |-> None]
  /\ vstatus = [v \in Versions |-> "absent"]
  /\ reading = [v \in Versions |-> 0]
  /\ readings = [v \in Versions |-> 0]
  /\ chained = [v \in Versions |-> 0]
  /\ meter = [v \in Versions |-> "none"]
  /\ step = [w \in Workers |-> "idle"]
  /\ toMeasure = [w \in Workers |-> FALSE]
  /\ produced = [w \in Workers |-> 0]

-----------------------------------------------------------------------------
(* Ingest: one transaction, in the steps other transactions can see.       *)

ParkedNoRoute == {r \in ConvertRows : status[r] = "pending" /\ defer[r] = "no_route"}

(* A declared MIME that has no route, or needs none because the stored one *)
(* has: the ingest reads the stored MIME, without locking it.  Its process *)
(* may know a route that the workers do not.                               *)
IngestReads(v) ==
  /\ sawMime[v] = None
  /\ \E routed \in {mime, "routable"} : sawMime' = [sawMime EXCEPT ![v] = routed]
  /\ UNCHANGED <<vars, costClass, mime, adopter, releasing, domainVars, handlerVars>>

(* A routable MIME is declared for bytes whose stored one has no route:    *)
(* the ingest locks the content row and releases the parked rows it sees.  *)
IngestAdopts(v) ==
  /\ sawMime[v] = None
  /\ mime = "unroutable" /\ adopter = None
  /\ adopter' = v
  /\ releasing' = ParkedNoRoute
  /\ sawMime' = [sawMime EXCEPT ![v] = "routable"]
  /\ UNCHANGED <<vars, costClass, mime, domainVars, handlerVars>>

(* A conflict, a lost connection: nothing of the ingest remains.           *)
IngestAborts(v) ==
  /\ sawMime[v] # None
  /\ adopter' = IF adopter = v THEN None ELSE adopter
  /\ releasing' = IF adopter = v THEN {} ELSE releasing
  /\ sawMime' = [sawMime EXCEPT ![v] = None]
  /\ UNCHANGED <<vars, costClass, mime, domainVars, handlerVars>>

(* It commits: the MIME it adopted, the rows it released, the version and  *)
(* its convert row, parked when the MIME it read has no route.             *)
IngestCommits(v) ==
  LET row   == ConvertOf[v]
      freed == IF adopter = v THEN releasing ELSE {}
      kept  == [r \in Rows |-> IF r \in freed THEN None ELSE defer[r]]
      fresh == status[row] = "absent"
  IN  /\ sawMime[v] # None
      /\ mime' = IF adopter = v THEN "routable" ELSE mime
      /\ adopter' = IF adopter = v THEN None ELSE adopter
      /\ releasing' = IF adopter = v THEN {} ELSE releasing
      /\ sawMime' = [sawMime EXCEPT ![v] = None]
      /\ vstatus' = [vstatus EXCEPT ![v] = IF @ = "absent" THEN "converting" ELSE @]
      /\ status' = [status EXCEPT ![row] = IF fresh THEN "pending" ELSE @]
      /\ lane' = [lane EXCEPT ![row] = IF fresh \/ status[row] \in Queued THEN "steady" ELSE @]
      /\ defer' = [kept EXCEPT ![row] = IF fresh /\ sawMime[v] = "unroutable" THEN "no_route"
                                        ELSE @]
      /\ due' = [r \in Rows |-> IF r \in freed \/ (r = row /\ fresh) THEN TRUE ELSE due[r]]
      /\ UNCHANGED <<attempts, maxAttempts, leased, heldVars, owed, costs, owner,
                     costClass, reading, readings, chained, meter, handlerVars>>

-----------------------------------------------------------------------------
(* The handlers.                                                           *)

GoTo(w, s) == step' = [step EXCEPT ![w] = s]

At(w, s) == heldRow[w] # None /\ step[w] = s

Reset(w) ==
  /\ GoTo(w, "idle")
  /\ toMeasure' = [toMeasure EXCEPT ![w] = FALSE]
  /\ produced' = [produced EXCEPT ![w] = 0]

StageClaim(w, r) ==
  /\ Claim(w, r)
  /\ GoTo(w, "load")
  /\ UNCHANGED <<ingestVars, domainVars, toMeasure, produced>>

Quiet(w, s) == GoTo(w, s) /\ UNCHANGED <<vars, ingestVars, domainVars, toMeasure, produced>>

(* convert_source and the router: no route is found before any work.       *)
Load(w) ==
  /\ At(w, "load") /\ heldRow[w] \in ConvertRows
  /\ Quiet(w, IF mime = "routable" THEN "gate" ELSE "no_route")

(* (The mutant measures a PDF like a text, after it is read.)              *)
(* A PDF unmeasured is counted before OCR, a text is measured once read.   *)
GateMeasuresLater(w) ==   \* mutant
  LET state == meter[Version(w)]
      free  == costClass = "free" \/ state = "accepted"
  IN  /\ At(w, "gate")
      /\ GoTo(w, IF ~free /\ state # "none" THEN "admission" ELSE "lookup")
      /\ toMeasure' = [toMeasure EXCEPT ![w] = ~free /\ state = "none"]
      /\ UNCHANGED <<vars, ingestVars, domainVars, produced>>

Gate(w) ==
  LET state == meter[Version(w)]
      free  == costClass = "free" \/ state = "accepted"
  IN  /\ At(w, "gate")
      /\ GoTo(w, IF free THEN "lookup"
                 ELSE IF state # "none" THEN "admission"
                 ELSE IF costClass = "doc-scan" THEN "count" ELSE "lookup")
      /\ toMeasure' = [toMeasure EXCEPT ![w] = ~free /\ state = "none" /\ costClass = "doc-text"]
      /\ UNCHANGED <<vars, ingestVars, domainVars, produced>>

(* The version's one measurement; a repeat changes nothing.                *)
RecordMeasurement(w) ==
  /\ At(w, "count") \/ At(w, "measure")
  /\ meter' = [meter EXCEPT ![Version(w)] = IF @ = "none" THEN "measured" ELSE @]
  /\ GoTo(w, "admission")
  /\ UNCHANGED <<vars, ingestVars, vstatus, reading, readings, chained, toMeasure, produced>>

OnwardsUnmeasured(w) == "finish"   \* mutant

Onwards(w) == IF toMeasure[w] THEN "measure" ELSE "finish"

(* Replay before regenerate: the oldest reading this toolchain made.       *)
Lookup(w) ==
  LET found == readings[Version(w)] > 0
  IN  /\ At(w, "lookup")
      /\ GoTo(w, IF found THEN Onwards(w) ELSE "convert")
      /\ produced' = [produced EXCEPT ![w] = IF found THEN 1 ELSE 0]
      /\ UNCHANGED <<vars, ingestVars, domainVars, toMeasure>>

Structuring(w) == At(w, "load") /\ heldRow[w] \notin ConvertRows

(* The calls a handler bills.  The text class is of local routes only,     *)
(* which call no provider.                                                 *)
Bill(w, k) ==
  /\ Structuring(w) \/ (At(w, "convert") /\ costClass # "doc-text")
  /\ RecordCall(w, k)
  /\ UNCHANGED stageVars

Converted(w) == At(w, "convert") /\ Quiet(w, "record")

RecordRepresentation(w) ==
  LET v == Version(w)
  IN  /\ At(w, "record")
      /\ readings[v] < MaxReadings
      /\ readings' = [readings EXCEPT ![v] = @ + 1]
      /\ vstatus' = [vstatus EXCEPT ![v] = "structuring"]
      /\ produced' = [produced EXCEPT ![w] = readings[v] + 1]
      /\ GoTo(w, Onwards(w))
      /\ UNCHANGED <<vars, ingestVars, reading, chained, meter, toMeasure>>

(* record_section_tree: the reading becomes the version's live one unless  *)
(* the version already has a different one.                                *)
StructureReading(w) ==
  LET v == Version(w)
      free == reading[v] \in {0, chained[v]}
  IN  /\ Structuring(w)
      /\ reading' = [reading EXCEPT ![v] = IF free THEN chained[v] ELSE @]
      /\ vstatus' = [vstatus EXCEPT ![v] = IF free THEN "ready" ELSE @]
      /\ GoTo(w, "finish")
      /\ UNCHANGED <<vars, ingestVars, readings, chained, meter, toMeasure, produced>>

MarkFailedByRowStatus(v) ==   \* mutant
  vstatus' = [vstatus EXCEPT ![v] = IF @ = "ready" THEN @ ELSE "dead_letter"]

MarkFailed(v) == vstatus' = [vstatus EXCEPT ![v] = IF @ = "ready" THEN @ ELSE "failed"]

(* A permanent conversion error: the handler marks the version itself.     *)
ConversionFails(w) ==
  /\ At(w, "convert") \/ At(w, "count")
  /\ MarkFailed(Version(w))
  /\ GoTo(w, "fatal")
  /\ UNCHANGED <<vars, ingestVars, reading, readings, chained, meter, toMeasure, produced>>

(* Anything else goes wrong: a store, a provider, the database, or the     *)
(* metering of a call by an attempt that lost its claim.  Only a failure   *)
(* to account for a provider's call is fatal.                              *)
HandlerRaises(w) ==
  /\ heldRow[w] # None /\ step[w] \notin Ending \cup {"idle"}
  /\ \/ Quiet(w, "error")
     \/ (At(w, "convert") \/ Structuring(w)) /\ Quiet(w, "fatal")

-----------------------------------------------------------------------------
(* How an attempt ends, and what else happens to a row.                    *)

StageComplete(w) ==
  LET v == Version(w)
  IN  /\ At(w, "finish")
      /\ Complete(w)
      /\ chained' = [chained EXCEPT ![v] =
           IF heldRow[w] = ConvertOf[v] /\ status[StructureOf[v]] = "absent"
           THEN produced[w] ELSE @]
      /\ Reset(w)
      /\ UNCHANGED <<ingestVars, vstatus, reading, readings, meter>>

StageFail(w) ==
  /\ \/ At(w, "error") /\ FailRetry(w)
     \/ At(w, "error") /\ ~RetryLeft(heldRow[w]) /\ FailTerminal(w)
     \/ At(w, "fatal") /\ FailTerminal(w)
  /\ Reset(w)
  /\ UNCHANGED <<ingestVars, domainVars>>

StageParkUnlocked(w) ==   \* mutant
  /\ \/ At(w, "no_route") /\ Park(w, "no_route", mime = "unroutable")
     \/ At(w, "admission") /\ Park(w, "admission", meter[Version(w)] # "accepted")
  /\ Reset(w)
  /\ UNCHANGED <<ingestVars, domainVars>>

(* The park reads the fact it waits for under the lock its change takes:   *)
(* the content row's (FOR SHARE waits for an adopter) or the measurement's.*)
StagePark(w) ==
  /\ \/ At(w, "no_route") /\ adopter = None /\ Park(w, "no_route", mime = "unroutable")
     \/ At(w, "admission") /\ Park(w, "admission", meter[Version(w)] # "accepted")
  /\ Reset(w)
  /\ UNCHANGED <<ingestVars, domainVars>>

StageLeaseLost(w) ==
  /\ step[w] \in Ending
  /\ LeaseLost(w)
  /\ Reset(w)
  /\ UNCHANGED <<ingestVars, domainVars>>

StageEnds(w) == StageComplete(w) \/ StageFail(w) \/ StagePark(w) \/ StageLeaseLost(w)

StageDie(a) ==
  /\ Die(a)
  /\ IF a \in Workers THEN Reset(a) ELSE UNCHANGED handlerVars
  /\ UNCHANGED <<ingestVars, domainVars>>

StageReap(s, S) == Reap(s, S) /\ UNCHANGED stageVars

(* Only the convert stage has a terminal-failure finalizer.                *)
StageFinalize(a, r) ==
  /\ Finalize(a, r)
  /\ IF r \in ConvertRows THEN MarkFailed(VersionOf(r)) ELSE UNCHANGED vstatus
  /\ UNCHANGED <<ingestVars, reading, readings, chained, meter, handlerVars>>

(* The control plane's holds are acknowledged: one transaction releases    *)
(* the parked conversion and records the approval.                         *)
ApproveReleasesNothing(v) ==   \* mutant
  /\ meter[v] = "measured"
  /\ meter' = [meter EXCEPT ![v] = "accepted"]
  /\ UNCHANGED <<vars, ingestVars, vstatus, reading, readings, chained, handlerVars>>

Approve(v) ==
  LET row    == ConvertOf[v]
      parked == status[row] = "pending" /\ defer[row] = "admission"
  IN  /\ meter[v] = "measured"
      /\ meter' = [meter EXCEPT ![v] = "accepted"]
      /\ IF parked THEN Release("admission", {row}) ELSE UNCHANGED vars
      /\ UNCHANGED <<ingestVars, vstatus, reading, readings, chained, handlerVars>>

(* The operator resumes what has a route in the table of that command.     *)
ResumeNoRoute ==
  /\ releasing = {}
  /\ Release("no_route", ParkedNoRoute)
  /\ UNCHANGED stageVars

StageReplay(r) == ReplayDeadLetter(r, 1, lane[r], TRUE) /\ UNCHANGED stageVars

Clock(r) == (BecomesDue(r) \/ LeaseLapses(r)) /\ UNCHANGED stageVars

Ingest(v) == IngestReads(v) \/ IngestAdopts(v) \/ IngestCommits(v) \/ IngestAborts(v)

HandlerStep(w) ==
  \/ Load(w) \/ Gate(w) \/ RecordMeasurement(w) \/ Lookup(w) \/ Converted(w)
  \/ RecordRepresentation(w) \/ StructureReading(w) \/ ConversionFails(w) \/ HandlerRaises(w)

StageNext ==
  \/ ResumeNoRoute
  \/ \E v \in Versions : Ingest(v) \/ Approve(v)
  \/ \E w \in Workers : HandlerStep(w) \/ StageEnds(w)
  \/ \E w \in Workers, r \in Rows : StageClaim(w, r)
  \/ \E w \in Workers, k \in CallKeys : Bill(w, k)
  \/ \E w \in Workers : RenewLease(w) /\ UNCHANGED stageVars
  \/ \E s \in Sweepers, S \in SUBSET Rows : StageReap(s, S)
  \/ \E a \in Actors : StageDie(a) \/ \E r \in Rows : StageFinalize(a, r)
  \/ \E r \in Rows : StageReplay(r) \/ Clock(r)

StageSpec == StageInit /\ [][StageNext]_allVars

(* As in the ledger's own fairness, and: a handler moves on, an ingest     *)
(* transaction ends, and a slot's finishing call gets the row locks it     *)
(* waits for.  Nothing obliges the control plane to approve.               *)
StageFairness ==
  /\ \A r \in Rows :
       /\ WF_allVars(BecomesDue(r) /\ UNCHANGED stageVars)
       /\ WF_allVars(Orphaned(r) /\ LeaseLapses(r) /\ UNCHANGED stageVars)
       /\ SF_allVars(\E w \in Workers : StageClaim(w, r))
       /\ SF_allVars(\E s \in Sweepers, S \in SUBSET Rows : r \in S /\ StageReap(s, S))
  /\ \A w \in Workers : WF_allVars(HandlerStep(w)) /\ SF_allVars(StageEnds(w))
  /\ \A a \in Actors : WF_allVars(\E r \in Rows : StageFinalize(a, r))
  /\ \A v \in Versions : WF_allVars(IngestCommits(v) \/ IngestAborts(v))

FairStageSpec == StageSpec /\ StageFairness

-----------------------------------------------------------------------------
(* Properties.                                                             *)

AdmissionParkStands ==
  \A v \in Versions :
    status[ConvertOf[v]] = "pending" /\ defer[ConvertOf[v]] = "admission"
      => meter[v] = "measured"

NoRouteParkStands ==
  \A v \in Versions :
    status[ConvertOf[v]] = "pending" /\ defer[ConvertOf[v]] = "no_route"
      => mime = "unroutable"

(* A conversion waits for the meter's approval, or for a route, only while *)
(* there is none: neither an approval nor a MIME adopted by a re-ingest of *)
(* its lineage slips between the handler's reading of the fact and its     *)
(* park, whichever of the two commits first.                               *)
ParksStand == AdmissionParkStands /\ NoRouteParkStands

(* Nothing is paid for before its measurement is approved, not even by an  *)
(* attempt that read the meter and then lost its lease: no OCR call of a   *)
(* scanned document, and no stage beyond the conversion of any document.   *)
NothingPaidBeforeApproval ==
  \A v \in Versions :
    costClass # "free" /\ meter[v] # "accepted" =>
      /\ status[StructureOf[v]] = "absent"
      /\ \A c \in costs : c[1] # ConvertOf[v]

(* What the ledger relies on when it gives a parked claim's attempt number *)
(* back: an attempt that is about to park has billed nothing under it.     *)
ParkedClaimBilledNothing ==
  \A w \in Workers : step[w] \in {"no_route", "admission"} => heldCalls[w] = {}

(* A conversion is never forgotten: it is done, dead, or parked for a fact *)
(* that has still to change, whatever dies and whoever races.              *)
Waits(v) ==
  LET row == ConvertOf[v]
  IN  \/ defer[row] = "no_route" /\ mime = "unroutable"
      \/ defer[row] = "admission" /\ meter[v] = "measured"

ConversionSettles ==
  \A v \in Versions :
    status[ConvertOf[v]] # "absent" ~>
      status[ConvertOf[v]] \in {"succeeded", "dead_letter"} \/ Waits(v)

=============================================================================
