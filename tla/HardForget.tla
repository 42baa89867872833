----------------------------- MODULE HardForget -----------------------------
(***************************************************************************)
(* Hard forget: a lineage is erased from every store, for good.  A request *)
(* raises the deployment's barrier (a forget_manifests row that is not     *)
(* complete), waits for running work to drain, freezes an inventory of the *)
(* lineage, appends it to a manifest store that no restore rolls back, and *)
(* enqueues the erasure; the erasure walks the stores, verifies them and   *)
(* completes the row, which opens the barrier again.                       *)
(*                                                                         *)
(* Against it run: uploads, ordinary work that reads the barrier in its    *)
(* claim transaction and may stall or die at any point, other calls of the *)
(* same request, crashes of the erasure between any two of its steps, and  *)
(* the loss of stores, restored from an older copy and re-honoured by the  *)
(* readiness step before the deployment serves again.                      *)
(*                                                                         *)
(* One processing row stands for all the ordinary stages of a version; its *)
(* attempts are numbered because every one writes its artifacts under a    *)
(* fresh representation id.  The knowledge repository is treated as the    *)
(* projections are (recompile, then purge what the manifest names) and is  *)
(* not modelled apart.                                                     *)
(***************************************************************************)
EXTENDS Integers, FiniteSets

CONSTANTS
  Docs,
  Versions,
  LineageOf,      \* the document a version belongs to
  Callers,        \* concurrent calls of HardForgetService.request
  Honorers,       \* slots that may run the hard_forget row
  MaxAttempts,    \* bound on the attempts of one version's row
  MaxFaults,      \* bound on the deaths and stalls of erasures plus the restores
  Losses,         \* the sets of stores that a restore may put back together
  Boot,           \* the readiness step's own call and erasure
  None

ASSUME ForgetAssumption ==
  /\ LineageOf \in [Versions -> Docs]
  /\ MaxAttempts \in Nat /\ MaxFaults \in Nat
  /\ Losses \subseteq SUBSET {"spine", "objects", "snapshots"}
  /\ Boot \notin Callers \cup Honorers
  /\ {"none", "pending", "done"} \cap (Honorers \cup {Boot}) = {}
  /\ None \notin Docs \cup Honorers \cup {Boot}

Attempts  == 1..MaxAttempts
VersionsOf(d) == {v \in Versions : LineageOf[v] = d}

(* An ordinary processing row; a running one belongs to one of its attempts. *)
NotEnqueued == <<"none", 0>>
Queued      == <<"pending", 0>>
Running(n)  == <<"running", n>>
Finished    == <<"done", 0>>
RowStates   == {NotEnqueued, Queued, Finished} \cup {Running(n) : n \in Attempts}

(* Objects: the uploaded bytes, an attempt's artifacts that its representation
   row names, and those it does not (media assets, the source map). *)
Raw(v)         == <<"raw", v, 0>>
Artifact(v, n) == <<"artifact", v, n>>
Side(v, n)     == <<"side", v, n>>
VersionRow(v)  == <<"version", v, 0>>
Rep(v, n)      == <<"rep", v, n>>
Claim(v)       == <<"claim", v, 0>>
Objects == {Raw(v) : v \in Versions}
             \cup {Artifact(v, n) : v \in Versions, n \in Attempts}
             \cup {Side(v, n) : v \in Versions, n \in Attempts}
Reps    == Versions \X Attempts

(* A projection snapshot: the lineages it shows, the documents whose manifest
   names it, and (history) the lineages it shows because of late writes, or
   because it was built while their rows had still to be erased. *)
Snapshots == [docs : SUBSET Docs, named : SUBSET Docs, late : SUBSET Docs]

(* A manifest names the objects and claims the inventory found; `asked` is its requested_at:
   the caller's, or the prepared_at that readiness puts in place of a lost one. *)
Manifests == [objects : SUBSET Objects, claims : SUBSET Versions,
              asked : {"request", "prepared"}]

ASSUME ManifestAssumption == None \notin Manifests

Statuses == {"none", "preparing", "accepted", "complete"}

VARIABLES
  forgets,    \* forget_manifests row of each document: status and manifest
  work,       \* its hard_forget processing row: none, pending, done, its runner
  spine,      \* versions whose rows hold content
  tombstones, \* documents whose lineage is deleted
  reps,       \* representation rows <<version, attempt>>
  claims,     \* versions with published extractions
  rows,       \* ordinary processing row of each version
  objects,    \* the object store
  snapshots,  \* the projection snapshots kept
  portable,   \* the portable manifest of each document
  upload,     \* where the upload of each version is
  attempt,    \* where each attempt of a version's row is
  call,       \* where each request call is
  honor,      \* where each erasure is
  boot,       \* where the readiness step is; "up": the deployment serves
  backup,     \* an older copy of the stores
  faults,     \* deaths and stalls of erasures, and restores, so far
  listed,     \* history: objects that a row, or a portable manifest, has named
  crossed,    \* history: attempts that claimed their row under a barrier, or after a drain
  late        \* history: what was written after its lineage was frozen

intentVars  == <<forgets, work>>
contentVars == <<spine, tombstones, reps, claims, rows>>
storeVars   == <<objects, snapshots>>
driverVars  == <<call, honor, boot>>
faultVars   == <<backup, faults>>
historyVars == <<listed, crossed, late>>
vars == <<intentVars, contentVars, storeVars, portable, upload, attempt, driverVars,
          faultVars, historyVars>>

-----------------------------------------------------------------------------
(* The barrier *)

Status(d) == forgets[d].status

(* active_forget_id_on *)
ActiveForgets == {d \in Docs : Status(d) \notin {"none", "complete"}}
Available     == ActiveForgets = {}

(* guard_ingest: no active forget, and no completed one of this lineage or of
   these bytes. *)
IngestAllowed(v) == Available /\ Status(LineageOf[v]) # "complete"

Frozen(d) == forgets[d].manifest # None \/ portable[d] # None
Late(d, written) == late' = IF Frozen(d) THEN late \cup written ELSE late

-----------------------------------------------------------------------------
(* Uploads: the guard is read before the bytes are written, the version is
   recorded in a transaction of its own. *)

GuardIngest(v) ==
  /\ boot.pc = "up"
  /\ upload[v] = "idle"
  /\ IngestAllowed(v)
  /\ upload' = [upload EXCEPT ![v] = "guarded"]
  /\ UNCHANGED <<intentVars, contentVars, storeVars, portable, attempt, driverVars,
                 faultVars, historyVars>>

WriteRaw(v) ==
  /\ upload[v] = "guarded"
  /\ upload' = [upload EXCEPT ![v] = "written"]
  /\ objects' = objects \cup {Raw(v)}
  /\ Late(LineageOf[v], {Raw(v)} \ objects)
  /\ UNCHANGED <<intentVars, contentVars, snapshots, portable, attempt, driverVars,
                 faultVars, listed, crossed>>

RecordUpload(v) ==
  /\ upload[v] = "written"
  /\ upload' = [upload EXCEPT ![v] = "recorded"]
  /\ spine' = spine \cup {v}
  /\ tombstones' = tombstones \ {LineageOf[v]}
  /\ rows' = [rows EXCEPT ![v] = IF @ = NotEnqueued THEN Queued ELSE @]
  /\ listed' = listed \cup {Raw(v)}
  /\ Late(LineageOf[v], {VersionRow(v), Raw(v)})
  /\ UNCHANGED <<intentVars, reps, claims, storeVars, portable, attempt, driverVars,
                 faultVars, crossed>>

UploadDies(v) ==
  /\ upload[v] = "written"
  /\ upload' = [upload EXCEPT ![v] = "idle"]
  /\ UNCHANGED <<intentVars, contentVars, storeVars, portable, attempt, driverVars,
                 faultVars, historyVars>>

-----------------------------------------------------------------------------
(* Ordinary work.  claim_one reads the barrier and updates the row later in
   the same transaction, without the lock under which the barrier is raised. *)

AttemptStep(v, n, from, to) ==
  /\ attempt[v][n] = from
  /\ attempt' = [attempt EXCEPT ![v][n] = to]

ReadBarrier(v, n) ==
  /\ rows[v] = Queued
  /\ Available
  /\ \A m \in 1..(n - 1) : attempt[v][m] # "none"
  /\ AttemptStep(v, n, "none", "checked")
  /\ UNCHANGED <<intentVars, contentVars, storeVars, portable, upload, driverVars,
                 faultVars, historyVars>>

ClaimRow(v, n) ==
  /\ rows[v] = Queued
  /\ AttemptStep(v, n, "checked", "claimed")
  /\ rows' = [rows EXCEPT ![v] = Running(n)]
  /\ crossed' = IF Available /\ \A q \in Callers \cup {Boot} : call[q].pc # "drained"
                THEN crossed ELSE crossed \cup {<<v, n>>}
  /\ UNCHANGED <<intentVars, spine, tombstones, reps, claims, storeVars, portable, upload,
                 driverVars, faultVars, listed, late>>

(* ConvertHandler reads the version and its bytes, writes every artifact of a
   new representation, and then records the representation. *)
ReadSource(v, n) ==
  /\ v \in spine /\ Raw(v) \in objects
  /\ AttemptStep(v, n, "claimed", "read")
  /\ UNCHANGED <<intentVars, contentVars, storeVars, portable, upload, driverVars,
                 faultVars, historyVars>>

WriteArtifacts(v, n) ==
  /\ AttemptStep(v, n, "read", "written")
  /\ objects' = objects \cup {Artifact(v, n), Side(v, n)}
  /\ UNCHANGED <<intentVars, contentVars, snapshots, portable, upload, driverVars,
                 faultVars, historyVars>>

RecordRepresentation(v, n) ==
  /\ AttemptStep(v, n, "written", "published")
  /\ reps' = reps \cup {<<v, n>>}
  /\ listed' = listed \cup {Artifact(v, n)}
  /\ Late(LineageOf[v], {Rep(v, n), Artifact(v, n)})
  /\ UNCHANGED <<intentVars, spine, tombstones, claims, rows, storeVars, portable, upload,
                 driverVars, faultVars, crossed>>

(* require_extraction_sources_on: under the barrier's lock, shared, so that no
   forget is prepared between the test and the commit. *)
UnfencedExtraction(v, n) ==   \* mutant
  /\ AttemptStep(v, n, "published", "extracted")
  /\ claims' = claims \cup {v}
  /\ Late(LineageOf[v], {Claim(v)})
  /\ UNCHANGED <<intentVars, spine, tombstones, reps, rows, storeVars, portable, upload,
                 driverVars, faultVars, listed, crossed>>
PublishExtraction(v, n) ==
  /\ Available
  /\ <<v, n>> \in reps /\ LineageOf[v] \notin tombstones
  /\ AttemptStep(v, n, "published", "extracted")
  /\ claims' = claims \cup {v}
  /\ Late(LineageOf[v], {Claim(v)})
  /\ UNCHANGED <<intentVars, spine, tombstones, reps, rows, storeVars, portable, upload,
                 driverVars, faultVars, listed, crossed>>

(* CorpusFsBuilder.build: a snapshot of the lineages the spine shows. *)
Shown == {d \in Docs \ tombstones : \E v \in VersionsOf(d), n \in Attempts : <<v, n>> \in reps}

Project(v, n) ==
  /\ AttemptStep(v, n, "extracted", "projected")
  /\ snapshots' = snapshots \cup
       {[docs |-> Shown, named |-> {}, late |-> {d \in Shown : Frozen(d)}]}
  /\ UNCHANGED <<intentVars, contentVars, objects, portable, upload, driverVars, faultVars,
                 historyVars>>

Complete(v, n) ==
  /\ attempt[v][n] \in {"extracted", "projected"}
  /\ attempt' = [attempt EXCEPT ![v][n] = "over"]
  /\ rows' = [rows EXCEPT ![v] = IF @ = Running(n) THEN Finished ELSE @]
  /\ UNCHANGED <<intentVars, spine, tombstones, reps, claims, storeVars, portable, upload,
                 driverVars, faultVars, historyVars>>

(* The handler raises, the process dies, or the claim finds its row taken. *)
AttemptEnds(v, n) ==
  /\ attempt[v][n] \notin {"none", "over"}
  /\ attempt' = [attempt EXCEPT ![v][n] = "over"]
  /\ \/ rows[v] = Running(n) /\ rows' = [rows EXCEPT ![v] = Queued]
     \/ UNCHANGED rows
  /\ UNCHANGED <<intentVars, spine, tombstones, reps, claims, storeVars, portable, upload,
                 driverVars, faultVars, historyVars>>

(* The lease expires; the attempt may be dead or only stalled. *)
ReapRow(v) ==
  /\ \E n \in Attempts : rows[v] = Running(n)
  /\ rows' = [rows EXCEPT ![v] = Queued]
  /\ UNCHANGED <<intentVars, spine, tombstones, reps, claims, storeVars, portable, upload,
                 attempt, driverVars, faultVars, historyVars>>

-----------------------------------------------------------------------------
(* HardForgetService.request: one call, which may be made again at any time,
   concurrently with itself, and may die between any two of its steps. *)

NoCall == [pc |-> "idle", doc |-> None, manifest |-> None]
CallIs(q, pc)  == call[q].pc = pc
CallTo(q, pc)  == call' = [call EXCEPT ![q].pc = pc]
CallOver(q)  == call' = [call EXCEPT ![q] = NoCall]

(* A caller asks while the deployment serves, the readiness step before. *)
Asks(q, d) == IF q = Boot THEN CallIs(q, "asked") /\ call[q].doc = d
                          ELSE boot.pc = "up" /\ CallIs(q, "idle")
Return(q) == IF q = Boot THEN CallTo(q, "returned") ELSE CallOver(q)

(* The document has a row: erasures keep it, cleared of its content. *)
Owned(d) == \E v \in VersionsOf(d) : rows[v] # NotEnqueued

(* What a call does next with the row it was given. *)
ContinueAt(q, d, row, pc) == call' = [call EXCEPT ![q] =
                                        [doc |-> d, manifest |-> row.manifest, pc |-> pc]]
UninventoriedContinue(q, d, row) ==   \* mutant
  ContinueAt(q, d, row, IF row.status = "preparing" THEN "stored" ELSE "known")
Continue(q, d, row) ==
  ContinueAt(q, d, row, CASE row.status \in {"accepted", "complete"} -> "known"
                          [] row.manifest # None -> "stored"
                          [] OTHER -> "prepared")

(* prepare, under the exclusive barrier lock. *)
Prepare(q, d) ==
  /\ Asks(q, d)
  /\ \/ /\ d \in ActiveForgets \/ (Available /\ Status(d) = "complete")
        /\ Continue(q, d, forgets[d])
        /\ UNCHANGED forgets
     \/ /\ Available /\ Status(d) = "none" /\ Owned(d)
        /\ forgets' = [forgets EXCEPT ![d].status = "preparing"]
        /\ Continue(q, d, forgets'[d])
     \/ /\ ActiveForgets \ {d} # {} \/ (Available /\ ~Owned(d))
        /\ CallOver(q)
        /\ UNCHANGED forgets
  /\ UNCHANGED <<work, contentVars, storeVars, portable, upload, attempt, honor, boot,
                 faultVars, historyVars>>

(* ordinary_work_is_drained *)
Drained == \A v \in Versions, n \in Attempts : rows[v] # Running(n)
UndrainedDrain(q) ==   \* mutant
  /\ CallIs(q, "prepared")
  /\ CallTo(q, "drained")
  /\ UNCHANGED <<intentVars, contentVars, storeVars, portable, upload, attempt, honor,
                 boot, faultVars, historyVars>>
Drain(q) ==
  /\ CallIs(q, "prepared")
  /\ IF Drained THEN CallTo(q, "drained") ELSE CallOver(q)
  /\ UNCHANGED <<intentVars, contentVars, storeVars, portable, upload, attempt, honor,
                 boot, faultVars, historyVars>>

(* The second redaction check refuses: cancel_unstored_preparation. *)
CancelUnstored(q) ==
  LET d == call[q].doc IN
  /\ CallIs(q, "drained")
  /\ forgets' = IF Status(d) = "preparing" /\ forgets[d].manifest = None
                THEN [forgets EXCEPT ![d].status = "none"] ELSE forgets
  /\ CallOver(q)
  /\ UNCHANGED <<work, contentVars, storeVars, portable, upload, attempt, honor, boot,
                 faultVars, historyVars>>

RepsOf(d) == {r \in reps : LineageOf[r[1]] = d}
Nominated(d) == {Raw(v) : v \in VersionsOf(d) \cap spine}
                  \cup {Artifact(r[1], r[2]) : r \in RepsOf(d)}
Inventory(q, d) == [objects |-> Nominated(d), claims |-> claims \cap VersionsOf(d),
                    asked |-> IF q = Boot THEN "prepared" ELSE "request"]

NamedBy(d, kept) == {[s EXCEPT !.named = @ \cup {d}] : s \in kept}

InventoryAndStoreManifest(q) ==
  LET d == call[q].doc IN
  /\ CallIs(q, "drained")
  /\ \/ /\ Status(d) # "none" /\ forgets[d].manifest # None
        /\ call' = [call EXCEPT ![q].pc = "stored", ![q].manifest = forgets[d].manifest]
        /\ UNCHANGED <<forgets, snapshots, backup>>
     \/ /\ Status(d) # "none" /\ forgets[d].manifest = None
        /\ call' = [call EXCEPT ![q].pc = "stored", ![q].manifest = Inventory(q, d)]
        /\ forgets' = [forgets EXCEPT ![d].manifest = Inventory(q, d)]
        /\ snapshots' = NamedBy(d, snapshots)
        /\ backup' = IF backup = None THEN None
                     ELSE [backup EXCEPT !.snapshots =
                             (@ \ snapshots) \cup NamedBy(d, @ \cap snapshots)]
     \/ /\ Status(d) = "none"
        /\ CallOver(q)
        /\ UNCHANGED <<forgets, snapshots, backup>>
  /\ UNCHANGED <<work, contentVars, objects, portable, upload, attempt, honor, boot,
                 faults, historyVars>>

(* ForgetManifestPort.append: once, and only the same bytes again. *)
Append(q) ==
  LET d == call[q].doc IN
  /\ call[q].pc \in {"stored", "known"}
  /\ IF portable[d] \in {None, call[q].manifest}
     THEN /\ portable' = [portable EXCEPT ![d] = call[q].manifest]
          /\ IF CallIs(q, "stored") THEN CallTo(q, "appended") ELSE Return(q)
     ELSE CallOver(q) /\ UNCHANGED portable
  /\ UNCHANGED <<intentVars, contentVars, storeVars, upload, attempt, honor, boot,
                 faultVars, historyVars>>

(* accept_and_enqueue *)
AcceptedFirst(q) ==   \* mutant
  /\ CallIs(q, "stored")
  /\ forgets' = [forgets EXCEPT ![call[q].doc].status = "accepted"]
  /\ work' = [work EXCEPT ![call[q].doc] = "pending"]
  /\ Return(q)
  /\ UNCHANGED <<contentVars, storeVars, portable, upload, attempt, honor, boot, faultVars,
                 historyVars>>
AcceptAndEnqueue(q) ==
  LET d == call[q].doc IN
  /\ CallIs(q, "appended")
  /\ IF forgets[d].manifest = call[q].manifest
     THEN /\ forgets' = [forgets EXCEPT ![d].status =
                           IF @ = "complete" THEN @ ELSE "accepted"]
          /\ work' = [work EXCEPT ![d] = IF @ = "none" THEN "pending" ELSE @]
          /\ Return(q)
     ELSE CallOver(q) /\ UNCHANGED <<intentVars>>
  /\ UNCHANGED <<contentVars, storeVars, portable, upload, attempt, honor, boot, faultVars,
                 historyVars>>

CallDies(q) ==
  /\ q \in Callers /\ ~CallIs(q, "idle")
  /\ CallOver(q)
  /\ UNCHANGED <<intentVars, contentVars, storeVars, portable, upload, attempt, honor,
                 boot, faultVars, historyVars>>

-----------------------------------------------------------------------------
(* HardForgetHandler.honor: the stores one by one, from the top after every
   failure.  Boot's erasure belongs to the readiness step, a honorer's to the
   hard_forget row it claimed. *)

FaultsLeft  == faults.deaths + faults.restores < MaxFaults
Fault(kind) == FaultsLeft /\ faults' = [faults EXCEPT ![kind] = @ + 1]

NotReady == [pc |-> "start", todo |-> {}]
NoHonor == [pc |-> "idle", doc |-> None, manifest |-> None]
HonorAt(h, pc) == honor[h].pc = pc
HonorTo(h, pc) == honor' = [honor EXCEPT ![h].pc = pc]
Target(h)      == honor[h].doc

(* claim_one lets hard_forget rows pass the barrier. *)
BarredClaim(h, d) ==   \* mutant
  /\ Available /\ HonorAt(h, "idle") /\ work[d] = "pending"
  /\ work' = [work EXCEPT ![d] = h]
  /\ honor' = [honor EXCEPT ![h] = [pc |-> "delete", doc |-> d,
                                    manifest |-> forgets[d].manifest]]
  /\ UNCHANGED <<forgets, contentVars, storeVars, portable, upload, attempt, call, boot,
                 faultVars, historyVars>>
ClaimForget(h, d) ==
  /\ HonorAt(h, "idle")
  /\ work[d] = "pending"
  /\ work' = [work EXCEPT ![d] = h]
  /\ honor' = [honor EXCEPT ![h] = [pc |-> "delete", doc |-> d,
                                    manifest |-> forgets[d].manifest]]
  /\ UNCHANGED <<forgets, contentVars, storeVars, portable, upload, attempt, call, boot,
                 faultVars, historyVars>>

(* An exception leaves the erasure; its row is to be retried, and the
   readiness step starts again. *)
HonorRaises(h) ==
  /\ honor' = [honor EXCEPT ![h] = NoHonor]
  /\ work' = [d \in Docs |-> IF work[d] = h THEN "pending" ELSE work[d]]
  /\ boot' = IF h = Boot THEN NotReady ELSE boot

(* delete_lineage reads the document's row before it tombstones anything.  A
   spine restored from a copy older than the upload has none, though its forget
   has been materialised: every erasure of it raises here. *)
DeleteLineage(h) ==
  LET d == Target(h) IN
  /\ HonorAt(h, "delete")
  /\ IF Owned(d)
     THEN HonorTo(h, "scrub") /\ tombstones' = tombstones \cup {d} /\ UNCHANGED <<work, boot>>
     ELSE HonorRaises(h) /\ UNCHANGED tombstones
  /\ UNCHANGED <<forgets, spine, reps, claims, rows, storeVars, portable, upload, attempt,
                 call, faultVars, historyVars>>

(* _POSTGRES_SCRUB: every row of the lineage, whatever the manifest lists. *)
ScrubRows(d) ==
  /\ spine' = spine \ VersionsOf(d)
  /\ tombstones' = tombstones \cup {d}
  /\ reps' = reps \ RepsOf(d)
  /\ claims' = claims \ VersionsOf(d)

ScrubPostgres(h) ==
  LET d == Target(h) IN
  /\ HonorAt(h, "scrub")
  /\ IF forgets[d].manifest = honor[h].manifest
     THEN HonorTo(h, "objects") /\ ScrubRows(d) /\ UNCHANGED <<work, boot>>
     ELSE HonorRaises(h) /\ UNCHANGED <<spine, tombstones, reps, claims>>
  /\ UNCHANGED <<forgets, rows, storeVars, portable, upload, attempt, call, faultVars,
                 historyVars>>

PurgeObjects(h) ==
  /\ HonorAt(h, "objects") /\ HonorTo(h, "rebuild")
  /\ objects' = objects \ honor[h].manifest.objects
  /\ UNCHANGED <<intentVars, contentVars, snapshots, portable, upload, attempt, call, boot,
                 faultVars, historyVars>>

(* The clean build shows the live catalogue: of the erased lineage what was
   written late, of another frozen one (an erasure is run again after the next
   inventory, or rows were restored that readiness has yet to honour) all that
   is not scrubbed yet, in a snapshot that the other's manifest cannot name. *)
ShownAgain(h) == {d \in Shown \ {Target(h)} : Frozen(d)}
ShownLate     == {d \in Shown : \E v \in VersionsOf(d), n \in Attempts : Rep(v, n) \in late}

RebuildProjection(h) ==
  /\ HonorAt(h, "rebuild") /\ HonorTo(h, "snapshots")
  /\ snapshots' = snapshots \cup
       {[docs |-> Shown, named |-> {}, late |-> ShownAgain(h) \cup ShownLate]}
  /\ UNCHANGED <<intentVars, contentVars, objects, portable, upload, attempt, call, boot,
                 faultVars, historyVars>>

PurgeProjections(h) ==
  /\ HonorAt(h, "snapshots") /\ HonorTo(h, "verify")
  /\ snapshots' = {s \in snapshots : Target(h) \notin s.named}
  /\ UNCHANGED <<intentVars, contentVars, objects, portable, upload, attempt, call, boot,
                 faultVars, historyVars>>

(* The verifications look for what the manifest names and for rows of the
   document. *)
RowsScrubbed(d) == (spine \cup claims) \cap VersionsOf(d) = {} /\ RepsOf(d) = {}
Verified(h) ==
  /\ objects \cap honor[h].manifest.objects = {}
  /\ \A s \in snapshots : Target(h) \notin s.named
  /\ RowsScrubbed(Target(h))

Verify(h) ==
  /\ HonorAt(h, "verify")
  /\ IF Verified(h) THEN HonorTo(h, "complete") /\ UNCHANGED <<work, boot>>
     ELSE HonorRaises(h)
  /\ UNCHANGED <<forgets, contentVars, storeVars, portable, upload, attempt, call,
                 faultVars, historyVars>>

(* mark_complete *)
MarkComplete(h) ==
  LET d == Target(h) IN
  /\ HonorAt(h, "complete")
  /\ IF Status(d) \in {"accepted", "complete"} /\ forgets[d].manifest = honor[h].manifest
     THEN /\ forgets' = [forgets EXCEPT ![d].status = "complete"]
          /\ HonorTo(h, "done")
          /\ UNCHANGED <<work, boot>>
     ELSE HonorRaises(h) /\ UNCHANGED forgets
  /\ UNCHANGED <<contentVars, storeVars, portable, upload, attempt, call, faultVars,
                 historyVars>>

(* The ledger completes the row, in a transaction of its own. *)
CompleteForget(h) ==
  /\ h \in Honorers /\ HonorAt(h, "done")
  /\ work' = [d \in Docs |-> IF work[d] = h THEN "done" ELSE work[d]]
  /\ honor' = [honor EXCEPT ![h] = NoHonor]
  /\ UNCHANGED <<forgets, contentVars, storeVars, portable, upload, attempt, call, boot,
                 faultVars, historyVars>>

HonorDies(h) ==
  /\ ~HonorAt(h, "idle")
  /\ honor' = [honor EXCEPT ![h] = NoHonor]
  /\ boot' = IF h = Boot THEN NotReady ELSE boot
  /\ Fault("deaths")
  /\ UNCHANGED <<intentVars, contentVars, storeVars, portable, upload, attempt, call,
                 backup, historyVars>>

(* The lease of a hard_forget row expires: its runner is dead, or stalls. *)
ReapForget(d) ==
  /\ work[d] \in Honorers
  /\ IF Target(work[d]) = d THEN Fault("deaths") ELSE UNCHANGED faults
  /\ work' = [work EXCEPT ![d] = "pending"]
  /\ UNCHANGED <<forgets, contentVars, storeVars, portable, upload, attempt, driverVars,
                 backup, historyVars>>

HonorStep(h) ==
  \/ DeleteLineage(h) \/ ScrubPostgres(h) \/ PurgeObjects(h) \/ RebuildProjection(h)
  \/ PurgeProjections(h) \/ Verify(h) \/ MarkComplete(h) \/ CompleteForget(h)

-----------------------------------------------------------------------------
(* Restores, and HardForgetReadiness.ensure_ready before the deployment serves
   again: the preparation that was interrupted is asked for again, then every
   portable manifest is materialised and honoured. *)

ManifestsKept == {d \in Docs : portable[d] # None}

Copy == [forgets |-> forgets, work |-> work, spine |-> spine, tombstones |-> tombstones,
         reps |-> reps, claims |-> claims, rows |-> rows,
         listed |-> listed, objects |-> objects, snapshots |-> snapshots]

TakeBackup ==
  /\ backup = None /\ FaultsLeft
  /\ backup' = Copy
  /\ UNCHANGED <<intentVars, contentVars, storeVars, portable, upload, attempt, driverVars,
                 faults, historyVars>>

(* The deployment stops, some of its stores go back to the copy, and it starts. *)
Restore(lost) ==
  LET from == [store \in {"spine", "objects", "snapshots"} |->
                 IF store \in lost THEN backup ELSE Copy]
      pg   == from["spine"] IN
  /\ backup # None /\ Fault("restores")
  /\ forgets' = pg.forgets /\ work' = pg.work /\ spine' = pg.spine
  /\ tombstones' = pg.tombstones /\ reps' = pg.reps /\ claims' = pg.claims
  /\ rows' = pg.rows
  /\ objects' = from["objects"].objects /\ snapshots' = from["snapshots"].snapshots
  /\ upload' = [v \in Versions |-> "idle"]
  /\ attempt' = [v \in Versions |-> [n \in Attempts |->
                   IF attempt[v][n] = "none" THEN "none" ELSE "over"]]
  /\ call' = [q \in Callers \cup {Boot} |-> NoCall]
  /\ honor' = [h \in Honorers \cup {Boot} |-> NoHonor]
  /\ boot' = NotReady
  /\ listed' = pg.listed \cup UNION {portable[d].objects : d \in ManifestsKept}
  /\ UNCHANGED <<portable, backup, crossed, late>>

Preparing == {d \in Docs : Status(d) = "preparing"}

BootRequest(d) ==
  /\ boot.pc = "start" /\ Preparing = {d}
  /\ boot' = [boot EXCEPT !.pc = "request"]
  /\ call' = [call EXCEPT ![Boot] = [pc |-> "asked", doc |-> d, manifest |-> None]]
  /\ UNCHANGED <<intentVars, contentVars, storeVars, portable, upload, attempt, honor,
                 faultVars, historyVars>>

(* The readiness step raises and is started again. *)
BootRaises ==
  /\ boot.pc = "request" /\ CallIs(Boot, "idle")
  /\ boot' = [boot EXCEPT !.pc = "start"]
  /\ UNCHANGED <<intentVars, contentVars, storeVars, portable, upload, attempt, call,
                 honor, faultVars, historyVars>>

HonoredSkipped ==   \* mutant
  /\ \/ boot.pc = "start" /\ Preparing = {}
     \/ boot.pc = "request" /\ CallIs(Boot, "returned")
  /\ boot' = [pc |-> "honor", todo |-> {d \in ManifestsKept : Status(d) # "complete"}]
  /\ call' = [call EXCEPT ![Boot] = NoCall]
  /\ UNCHANGED <<intentVars, contentVars, storeVars, portable, upload, attempt, honor,
                 faultVars, historyVars>>
BootEnumerate ==
  /\ \/ boot.pc = "start" /\ Preparing = {}
     \/ boot.pc = "request" /\ CallIs(Boot, "returned")
  /\ boot' = [pc |-> "honor", todo |-> ManifestsKept]
  /\ call' = [call EXCEPT ![Boot] = NoCall]
  /\ UNCHANGED <<intentVars, contentVars, storeVars, portable, upload, attempt, honor,
                 faultVars, historyVars>>

(* materialize_portable, and the erasure begins.  A row that has a manifest is
   only compared with the portable one. *)
Materialize(d) ==
  /\ boot.pc = "honor" /\ d \in boot.todo
  /\ HonorAt(Boot, "idle")
  /\ forgets[d].manifest \in {None, portable[d]}
  /\ forgets' = IF forgets[d].manifest = None
                THEN [forgets EXCEPT ![d] = [status |-> "accepted", manifest |-> portable[d]]]
                ELSE forgets
  /\ honor' = [honor EXCEPT ![Boot] = [pc |-> "delete", doc |-> d, manifest |-> portable[d]]]
  /\ UNCHANGED <<work, contentVars, storeVars, portable, upload, attempt, call, boot,
                 faultVars, historyVars>>

BootHonored ==
  /\ boot.pc = "honor" /\ HonorAt(Boot, "done")
  /\ boot' = [boot EXCEPT !.todo = @ \ {Target(Boot)}]
  /\ honor' = [honor EXCEPT ![Boot] = NoHonor]
  /\ UNCHANGED <<intentVars, contentVars, storeVars, portable, upload, attempt, call,
                 faultVars, historyVars>>

BootServes ==
  /\ boot.pc = "honor" /\ boot.todo = {}
  /\ boot' = [boot EXCEPT !.pc = "up"]
  /\ UNCHANGED <<intentVars, contentVars, storeVars, portable, upload, attempt, call,
                 honor, faultVars, historyVars>>

-----------------------------------------------------------------------------
(* Specification *)

NoRow == [status |-> "none", manifest |-> None]

Init ==
  /\ forgets = [d \in Docs |-> NoRow]
  /\ work = [d \in Docs |-> "none"]
  /\ spine = {} /\ tombstones = {} /\ reps = {} /\ claims = {}
  /\ rows = [v \in Versions |-> NotEnqueued]
  /\ objects = {} /\ snapshots = {}
  /\ portable = [d \in Docs |-> None]
  /\ upload = [v \in Versions |-> "idle"]
  /\ attempt = [v \in Versions |-> [n \in Attempts |-> "none"]]
  /\ call = [q \in Callers \cup {Boot} |-> NoCall]
  /\ honor = [h \in Honorers \cup {Boot} |-> NoHonor]
  /\ boot = [pc |-> "up", todo |-> {}]
  /\ backup = None
  /\ faults = [deaths |-> 0, restores |-> 0]
  /\ listed = {} /\ crossed = {} /\ late = {}

IngestNext(v) == GuardIngest(v) \/ WriteRaw(v) \/ RecordUpload(v) \/ UploadDies(v)

WorkNext(v, n) ==
  \/ ReadBarrier(v, n) \/ ClaimRow(v, n) \/ ReadSource(v, n) \/ WriteArtifacts(v, n)
  \/ RecordRepresentation(v, n) \/ PublishExtraction(v, n) \/ Project(v, n)
  \/ Complete(v, n) \/ AttemptEnds(v, n)

CallNext(q) ==
  \/ \E d \in Docs : Prepare(q, d)
  \/ Drain(q) \/ CancelUnstored(q) \/ InventoryAndStoreManifest(q)
  \/ Append(q) \/ AcceptAndEnqueue(q) \/ CallDies(q)

BootNext ==
  \/ \E d \in Docs : BootRequest(d) \/ Materialize(d)
  \/ BootRaises \/ BootEnumerate \/ BootHonored \/ BootServes

Next ==
  \/ \E v \in Versions : IngestNext(v) \/ ReapRow(v)
  \/ \E v \in Versions, n \in Attempts : WorkNext(v, n)
  \/ \E q \in Callers \cup {Boot} : CallNext(q)
  \/ \E h \in Honorers, d \in Docs : ClaimForget(h, d)
  \/ \E h \in Honorers \cup {Boot} : HonorStep(h) \/ HonorDies(h)
  \/ \E d \in Docs : ReapForget(d)
  \/ BootNext
  \/ TakeBackup
  \/ \E lost \in Losses : Restore(lost)

Spec == Init /\ [][Next]_vars

(* The worker loop claims, runs and sweeps the hard_forget row. *)
ErasureProgress ==
  \/ \E h \in Honorers, d \in Docs : ClaimForget(h, d)
  \/ \E h \in Honorers : HonorStep(h)
  \/ \E d \in Docs : ReapForget(d)

(* A readiness step that raises is started again. *)
ReadinessProgress ==
  \/ BootNext
  \/ \E d \in Docs : Prepare(Boot, d)
  \/ Drain(Boot) \/ InventoryAndStoreManifest(Boot) \/ Append(Boot)
  \/ AcceptAndEnqueue(Boot)
  \/ HonorStep(Boot)

FairSpec == Spec /\ WF_vars(ErasureProgress) /\ WF_vars(ReadinessProgress)

-----------------------------------------------------------------------------
(* Properties *)

TypeOK ==
  /\ forgets \in [Docs -> [status : Statuses, manifest : Manifests \cup {None}]]
  /\ work \in [Docs -> {"none", "pending", "done"} \cup Honorers]
  /\ spine \subseteq Versions /\ claims \subseteq Versions
  /\ tombstones \subseteq Docs
  /\ reps \subseteq Reps
  /\ rows \in [Versions -> RowStates]
  /\ objects \subseteq Objects
  /\ snapshots \subseteq Snapshots
  /\ portable \in [Docs -> Manifests \cup {None}]
  /\ faults \in [deaths : 0..MaxFaults, restores : 0..MaxFaults]
  /\ listed \subseteq Objects /\ crossed \subseteq Versions \X Attempts
  /\ \A d \in Docs : Status(d) \in {"accepted", "complete"} => forgets[d].manifest # None

Serving == boot.pc = "up"

(* What the verifications promise when the barrier opens: nothing the manifest
   names and no row of the lineage is left in any store, but for what was
   written after the cut, snapshots that another lineage's erasure built from
   rows it had still to scrub included. *)
Erased(d) ==
  /\ {o \in objects \cap listed : LineageOf[o[2]] = d} \subseteq late
  /\ {VersionRow(v) : v \in spine \cap VersionsOf(d)} \subseteq late
  /\ {Rep(r[1], r[2]) : r \in RepsOf(d)} \subseteq late
  /\ {Claim(v) : v \in claims \cap VersionsOf(d)} \subseteq late
  /\ \A s \in snapshots : d \in s.docs => d \in s.late

(* A deployment that serves has erased every lineage it says it forgot, in
   whatever state its stores were restored. *)
ForgottenStaysErased ==
  \A d \in Docs : Serving /\ Status(d) = "complete" => Erased(d)

(* The acceptance cut as far as it is fenced: from the stored manifest to the end
   of the erasure no extraction outside it is published. *)
NoClaimAfterTheCut ==
  \A d \in ActiveForgets : Serving /\ forgets[d].manifest # None =>
    claims \cap VersionsOf(d) \subseteq forgets[d].manifest.claims

(* The drain: once the inventory is frozen, no ordinary row runs but those whose
   claim read the barrier before it was raised, or after another call's cancellation
   had opened it between this call's drain and its inventory. *)
DrainedBeforeTheCut ==
  \A d \in ActiveForgets : forgets[d].manifest # None /\ faults.restores = 0 =>
    \A v \in Versions, n \in Attempts : rows[v] = Running(n) => <<v, n>> \in crossed

(* "The request is accepted only after a versioned ForgetManifest has been
   appended": accepted intent is in the store no restore takes back, and a
   deployment serves only with all of it materialised. *)
IntentIsDurable ==
  \A d \in Docs :
    /\ Status(d) \in {"accepted", "complete"} => portable[d] = forgets[d].manifest
    /\ Serving /\ portable[d] # None => Status(d) # "none"

(* HardForgetHandler.honor, its retries and the readiness step: an accepted forget
   is brought to its end, whichever of its runs die, unless a restore has left the
   spine without the row of a document whose manifest is kept.  That erasure raises
   every time, and the readiness step stops at it. *)
Honorable == \A d \in ManifestsKept : Owned(d)
AcceptedEnds ==
  \A d \in Docs : (Status(d) = "accepted") ~> (Status(d) # "accepted" \/ ~Honorable)
=============================================================================
