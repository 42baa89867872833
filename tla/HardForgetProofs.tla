--------------------------- MODULE HardForgetProofs ---------------------------
(***************************************************************************)
(* What holds of hard forgets for any lineages, callers, erasures and      *)
(* restores: accepted intent is where no restore reaches, no claim is      *)
(* published between the inventory of a lineage and the end of its         *)
(* erasure, no row claimed before its drain runs beside an inventory, and  *)
(* a deployment that serves has erased all it says it forgot.              *)
(*                                                                         *)
(* A manifest, once stored or appended, is never replaced; only a restore  *)
(* takes a stored one back, and then the readiness step runs before the    *)
(* deployment serves.  It starts without any call in flight, asks again    *)
(* for what was being prepared, and honours all that was appended.         *)
(*                                                                         *)
(* What a row has named of a lineage is then what its manifest names, or   *)
(* was written late, in the stores and in the copy; a snapshot that shows  *)
(* a frozen lineage is named by its manifest, or shows it late, or goes    *)
(* with one that readiness has still to honour.  An erasure that verified  *)
(* leaves nothing else, and nothing that follows but a restore adds to it. *)
(***************************************************************************)
EXTENDS HardForget, TLAPS

Settled == {"accepted", "complete"}

RowType   == [status : Statuses, manifest : Manifests \cup {None}]
CallType  == [pc : {"idle", "asked", "prepared", "drained", "stored", "appended", "known",
                    "returned"},
              doc : Docs \cup {None}, manifest : Manifests \cup {None}]
HonorType == [pc : {"idle", "delete", "scrub", "objects", "rebuild", "snapshots", "verify",
                    "complete", "done"},
              doc : Docs \cup {None}, manifest : Manifests \cup {None}]

Types ==
  /\ forgets \in [Docs -> RowType]
  /\ portable \in [Docs -> Manifests \cup {None}]
  /\ call \in [Callers \cup {Boot} -> CallType]
  /\ honor \in [Honorers \cup {Boot} -> HonorType]
  /\ boot \in [pc : {"up", "start", "request", "honor"}, todo : SUBSET Docs]
  /\ reps \subseteq Reps
  /\ backup # None =>
       /\ DOMAIN backup = {"forgets", "work", "spine", "tombstones", "reps", "claims", "rows",
                           "listed", "objects", "snapshots"}
       /\ backup.forgets \in [Docs -> RowType]
       /\ backup.reps \subseteq Reps

(* The manifest of a settled row has been appended.                        *)
Sound(table) ==
  \A d \in Docs :
    /\ table[d].status = "none" => table[d].manifest = None
    /\ table[d].status \in Settled => table[d].manifest # None /\ portable[d] = table[d].manifest

RowsSound == Sound(forgets) /\ (backup # None => Sound(backup.forgets))

(* What a call has learned of its document stays true while it runs.       *)
CallInv(q) ==
  /\ call[q].pc # "idle" => call[q].doc \in Docs
  /\ call[q].pc \in {"stored", "appended", "known"} =>
       /\ call[q].manifest # None
       /\ forgets[call[q].doc].manifest = call[q].manifest
  /\ call[q].pc = "appended" => portable[call[q].doc] = call[q].manifest
  /\ call[q].pc = "known" => Status(call[q].doc) \in Settled

(* No calls but its own while readiness runs, and that one only before it  *)
(* honours.                                                                *)
CallsAreOver ==
  /\ boot.pc # "up" => \A q \in Callers : call[q].pc = "idle"
  /\ call[Boot].pc # "idle" =>
       /\ boot.pc = "request"
       /\ Preparing \subseteq {call[Boot].doc}
       /\ call[Boot].pc = "returned" => Preparing = {}

(* What readiness has honoured, and what it works on.                      *)
BootInv ==
  /\ boot.pc = "up" => \A d \in Docs : portable[d] # None => forgets[d].manifest # None
  /\ boot.pc = "honor" =>
       /\ Preparing = {} /\ boot.todo \subseteq ManifestsKept
       /\ \A d \in Docs : portable[d] # None => d \in boot.todo \/ Status(d) = "complete"
  /\ honor[Boot].pc # "idle" =>
       /\ boot.pc = "honor" /\ honor[Boot].doc \in boot.todo
       /\ honor[Boot].pc = "done" => Status(honor[Boot].doc) = "complete"

ForgetInv ==
  /\ Types /\ RowsSound
  /\ \A q \in Callers \cup {Boot} : CallInv(q)
  /\ CallsAreOver /\ BootInv /\ NoClaimAfterTheCut

-----------------------------------------------------------------------------
(* Steps that touch neither intent nor its drivers.                        *)

LEMMA QuietStep ==
  ASSUME ForgetInv, UNCHANGED <<forgets, portable, call, honor, boot, backup>>,
         reps' \subseteq Reps, claims' \subseteq claims \/ Available
  PROVE  ForgetInv'
<1>1. Types' /\ RowsSound'
  BY DEF ForgetInv, Types, RowsSound, Sound
<1>2. \A q \in Callers \cup {Boot} : CallInv(q)'
  BY DEF ForgetInv, CallInv, Status
<1>3. CallsAreOver' /\ BootInv'
  BY DEF ForgetInv, CallsAreOver, BootInv, Preparing, ManifestsKept, Status
<1>4. NoClaimAfterTheCut'
  BY DEF ForgetInv, NoClaimAfterTheCut, Available, ActiveForgets, Serving, Status
<1> QED
  BY <1>1, <1>2, <1>3, <1>4 DEF ForgetInv

LEMMA WorkStep ==
  ASSUME ForgetInv,
         \/ \E v \in Versions : IngestNext(v) \/ ReapRow(v)
         \/ \E v \in Versions, n \in Attempts : WorkNext(v, n)
         \/ \E d \in Docs : ReapForget(d)
  PROVE  ForgetInv'
<1> USE DEF intentVars, contentVars, storeVars, driverVars, faultVars, historyVars
<1>1. ASSUME NEW v \in Versions, IngestNext(v) \/ ReapRow(v) PROVE ForgetInv'
  <2>1. UNCHANGED <<forgets, portable, call, honor, boot, backup, reps, claims>>
    BY <1>1 DEF IngestNext, GuardIngest, WriteRaw, RecordUpload, UploadDies, ReapRow
  <2> QED
    BY <2>1, QuietStep DEF ForgetInv, Types
<1>2. ASSUME NEW v \in Versions, NEW n \in Attempts, WorkNext(v, n) PROVE ForgetInv'
  <2>1. UNCHANGED <<forgets, portable, call, honor, boot, backup>>
    BY <1>2 DEF WorkNext, ReadBarrier, ClaimRow, ReadSource, WriteArtifacts,
                RecordRepresentation, PublishExtraction, Project, Complete, AttemptEnds
  <2>2. reps' \in {reps, reps \cup {<<v, n>>}}
    BY <1>2 DEF WorkNext, ReadBarrier, ClaimRow, ReadSource, WriteArtifacts,
                RecordRepresentation, PublishExtraction, Project, Complete, AttemptEnds
  <2>3. claims' \subseteq claims \/ Available
    BY <1>2 DEF WorkNext, ReadBarrier, ClaimRow, ReadSource, WriteArtifacts,
                RecordRepresentation, PublishExtraction, Project, Complete, AttemptEnds
  <2>4. reps' \subseteq Reps
    BY <2>2 DEF ForgetInv, Types, Reps
  <2> QED
    BY <2>1, <2>3, <2>4, QuietStep
<1>3. ASSUME NEW d \in Docs, ReapForget(d) PROVE ForgetInv'
  <2>1. UNCHANGED <<forgets, portable, call, honor, boot, backup, reps, claims>>
    BY <1>3 DEF ReapForget
  <2> QED
    BY <2>1, QuietStep DEF ForgetInv, Types
<1> QED
  BY <1>1, <1>2, <1>3

-----------------------------------------------------------------------------
(* Erasures: they take rows away and complete what has been accepted.      *)

(* A row keeps its manifest, and moves only from settled to complete.      *)
RowsKept ==
  /\ forgets' \in [Docs -> RowType]
  /\ \A d \in Docs : forgets'[d].manifest = forgets[d].manifest
  /\ \A d \in Docs : \/ forgets'[d].status = forgets[d].status
                     \/ forgets[d].status \in Settled /\ forgets'[d].status = "complete"

(* An erasure goes on, or ends; the readiness step's takes it back to its start. *)
ErasureMoves(h) ==
  /\ honor' \in [Honorers \cup {Boot} -> HonorType]
  /\ \A g \in (Honorers \cup {Boot}) \ {h} : honor'[g] = honor[g]
  /\ \/ boot' = boot
     \/ h = Boot /\ boot' = NotReady /\ honor'[Boot].pc = "idle" /\ honor[Boot].pc # "idle"
  /\ h = Boot /\ honor'[Boot].pc # "idle" =>
       /\ honor'[Boot].doc = honor[Boot].doc /\ honor[Boot].pc # "idle"
       /\ honor'[Boot].pc = "done" => forgets'[honor[Boot].doc].status = "complete"

LEMMA ErasureStep ==
  ASSUME ForgetInv, NEW h \in Honorers \cup {Boot},
         UNCHANGED <<portable, call, backup>>, RowsKept, ErasureMoves(h),
         reps' \subseteq reps, claims' \subseteq claims
  PROVE  ForgetInv'
<1>1. Types'
  BY DEF ForgetInv, Types, RowsKept, ErasureMoves, NotReady
<1>2. RowsSound'
  BY DEF ForgetInv, Types, RowsSound, Sound, RowsKept, RowType, Settled
<1>3. ASSUME NEW q \in Callers \cup {Boot} PROVE CallInv(q)'
  BY <1>3 DEF ForgetInv, CallInv, RowsKept, Status, Settled
<1>4. Preparing' = Preparing /\ ActiveForgets' \subseteq ActiveForgets
  BY DEF RowsKept, Preparing, ActiveForgets, Status, Settled
<1>5. CallsAreOver'
  BY <1>4 DEF ForgetInv, CallsAreOver, BootInv, ErasureMoves, NotReady
<1>6. \A d \in Docs : forgets[d].status = "complete" => forgets'[d].status = "complete"
  BY DEF RowsKept
<1>7. BootInv'
  <2>1. CASE boot' = boot
    <3>1. boot'.pc = "up" => \A d \in Docs : portable'[d] # None => forgets'[d].manifest # None
      BY <2>1 DEF ForgetInv, BootInv, RowsKept
    <3>2. boot'.pc = "honor" =>
            /\ Preparing' = {} /\ boot'.todo \subseteq ManifestsKept'
            /\ \A d \in Docs : portable'[d] # None =>
                 d \in boot'.todo \/ forgets'[d].status = "complete"
      BY <2>1, <1>4, <1>6 DEF ForgetInv, BootInv, ManifestsKept, Status
    <3>3. honor'[Boot].pc # "idle" =>
            /\ boot'.pc = "honor" /\ honor'[Boot].doc \in boot'.todo
            /\ honor'[Boot].pc = "done" => forgets'[honor'[Boot].doc].status = "complete"
      <4>1. CASE h = Boot
        BY <2>1, <4>1 DEF ForgetInv, BootInv, ErasureMoves
      <4>2. CASE h # Boot
        <5>1. honor'[Boot] = honor[Boot]
          BY <4>2 DEF ErasureMoves
        <5>2. honor[Boot].pc # "idle" => honor[Boot].doc \in Docs
          BY DEF ForgetInv, BootInv, Types
        <5> QED
          BY <2>1, <5>1, <5>2, <1>6 DEF ForgetInv, BootInv, Status
      <4> QED
        BY <4>1, <4>2
    <3> QED
      BY <3>1, <3>2, <3>3 DEF BootInv, Status, ManifestsKept, Preparing
  <2>2. CASE boot' = NotReady /\ honor'[Boot].pc = "idle"
    BY <2>2 DEF BootInv, NotReady
  <2> QED
    BY <2>1, <2>2 DEF ErasureMoves
<1>8. NoClaimAfterTheCut'
  BY <1>4 DEF ForgetInv, NoClaimAfterTheCut, RowsKept, ErasureMoves, NotReady, Serving,
              ActiveForgets
<1> QED
  BY <1>1, <1>2, <1>3, <1>5, <1>7, <1>8 DEF ForgetInv

LEMMA ErasureSteps ==
  ASSUME ForgetInv,
         \/ \E h \in Honorers, d \in Docs : ClaimForget(h, d)
         \/ \E h \in Honorers \cup {Boot} : HonorStep(h) \/ HonorDies(h)
  PROVE  ForgetInv'
<1> USE DEF intentVars, contentVars, storeVars, driverVars, faultVars, historyVars
<1>1. UNCHANGED forgets => RowsKept
  BY DEF ForgetInv, Types, RowsKept
<1>2. ASSUME NEW h \in Honorers, NEW d \in Docs, ClaimForget(h, d) PROVE ForgetInv'
  <2>1. UNCHANGED <<portable, call, backup, forgets, boot, reps, claims>>
    BY <1>2 DEF ClaimForget
  <2>2. honor' = [honor EXCEPT ![h] = [pc |-> "delete", doc |-> d,
                                       manifest |-> forgets[d].manifest]]
    BY <1>2 DEF ClaimForget
  <2>3. [pc |-> "delete", doc |-> d, manifest |-> forgets[d].manifest] \in HonorType
    BY DEF ForgetInv, Types, RowType, HonorType
  <2>4. ErasureMoves(h)
    BY <2>1, <2>2, <2>3, ForgetAssumption DEF ForgetInv, Types, ErasureMoves
  <2> QED
    BY <1>1, <2>1, <2>4, ErasureStep
<1>3. ASSUME NEW h \in Honorers \cup {Boot}, HonorStep(h) \/ HonorDies(h) PROVE ForgetInv'
  <2>1. UNCHANGED <<portable, call, backup>>
    BY <1>3 DEF HonorStep, DeleteLineage, ScrubPostgres, PurgeObjects, RebuildProjection,
                PurgeProjections, Verify, MarkComplete, CompleteForget, HonorDies
  <2>2. reps' \subseteq reps /\ claims' \subseteq claims
    BY <1>3 DEF HonorStep, DeleteLineage, ScrubPostgres, ScrubRows, PurgeObjects,
                RebuildProjection, PurgeProjections, Verify, MarkComplete, CompleteForget,
                HonorDies
  <2>3. honor[h] \in HonorType /\ NoHonor \in HonorType
    BY DEF ForgetInv, Types, HonorType, NoHonor
  <2>4. \/ /\ honor' = [honor EXCEPT ![h] = NoHonor]
           /\ boot' = IF h = Boot THEN NotReady ELSE boot
           /\ honor[h].pc # "idle"
        \/ /\ h \in Honorers /\ boot' = boot /\ honor' = [honor EXCEPT ![h] = NoHonor]
        \/ \E pc \in {"scrub", "objects", "rebuild", "snapshots", "verify", "complete"} :
             /\ honor[h].pc # "idle" /\ boot' = boot
             /\ honor' = [honor EXCEPT ![h].pc = pc]
        \/ /\ honor[h].pc # "idle" /\ boot' = boot
           /\ honor' = [honor EXCEPT ![h].pc = "done"]
           /\ forgets' = [forgets EXCEPT ![honor[h].doc].status = "complete"]
    <3> USE DEF HonorRaises, HonorAt, HonorTo, Target
    <3>1. CASE \/ DeleteLineage(h) \/ PurgeObjects(h) \/ RebuildProjection(h)
               \/ PurgeProjections(h)
      BY <3>1 DEF DeleteLineage, PurgeObjects, RebuildProjection, PurgeProjections
    <3>2. CASE ScrubPostgres(h)
      BY <3>2 DEF ScrubPostgres
    <3>3. CASE Verify(h)
      BY <3>3 DEF Verify
    <3>4. CASE MarkComplete(h)
      BY <3>4 DEF MarkComplete
    <3>5. CASE CompleteForget(h) \/ HonorDies(h)
      BY <3>5 DEF CompleteForget, HonorDies
    <3> QED
      BY <1>3, <3>1, <3>2, <3>3, <3>4, <3>5 DEF HonorStep
  <2>5. RowsKept
    <3>1. \/ UNCHANGED forgets
          \/ /\ forgets' = [forgets EXCEPT ![honor[h].doc].status = "complete"]
             /\ Status(honor[h].doc) \in Settled
      BY <1>3 DEF HonorStep, DeleteLineage, ScrubPostgres, PurgeObjects, RebuildProjection,
                  PurgeProjections, Verify, MarkComplete, CompleteForget, HonorDies,
                  Target, Settled
    <3>2. forgets \in [Docs -> RowType] /\ "complete" \in Statuses
      BY DEF ForgetInv, Types, Statuses
    <3>3. CASE UNCHANGED forgets
      BY <3>2, <3>3 DEF RowsKept
    <3>4. ASSUME NEW d, forgets' = [forgets EXCEPT ![d].status = "complete"],
                 forgets[d].status \in Settled
          PROVE  RowsKept
      BY <3>2, <3>4 DEF RowsKept, RowType
    <3> QED
      BY <3>1, <3>3, <3>4 DEF Status
  <2>6. ErasureMoves(h)
    <3>1. honor' \in [Honorers \cup {Boot} -> HonorType]
      BY <2>3, <2>4 DEF ForgetInv, Types, HonorType
    <3>2. \A g \in (Honorers \cup {Boot}) \ {h} : honor'[g] = honor[g]
      BY <2>4 DEF ForgetInv, Types
    <3>3. h = Boot /\ honor[Boot].pc # "idle" => honor[Boot].doc \in Docs
      BY DEF ForgetInv, BootInv, Types
    <3>4. \/ boot' = boot
          \/ h = Boot /\ boot' = NotReady /\ honor'[Boot].pc = "idle" /\ honor[Boot].pc # "idle"
      BY <2>4 DEF ForgetInv, Types, NoHonor
    <3>5. h = Boot /\ honor'[Boot].pc # "idle" =>
            /\ honor'[Boot].doc = honor[Boot].doc /\ honor[Boot].pc # "idle"
            /\ honor'[Boot].pc = "done" => forgets'[honor[Boot].doc].status = "complete"
      BY <2>4, <3>3 DEF ForgetInv, Types, NoHonor, RowType, HonorType
    <3> QED
      BY <3>1, <3>2, <3>4, <3>5 DEF ErasureMoves
  <2> QED
    BY <2>1, <2>2, <2>5, <2>6, ErasureStep
<1> QED
  BY <1>2, <1>3

-----------------------------------------------------------------------------
(* Calls: what is stored or appended stays so, and a first manifest is     *)
(* the inventory of its document.                                          *)

Kept ==
  \A d \in Docs :
    /\ portable[d] # None => portable'[d] = portable[d]
    /\ portable'[d] # portable[d] => forgets[d].manifest # None
    /\ forgets[d].manifest # None => forgets'[d].manifest = forgets[d].manifest
    /\ forgets[d].status \in Settled => forgets'[d].status = forgets[d].status

(* A row that becomes active has no manifest yet, and one that gets its    *)
(* manifest gets all the claims that its lineage has.                      *)
CutIsTaken ==
  \A d \in Docs : forgets'[d].manifest # None =>
    \/ /\ forgets'[d].manifest = forgets[d].manifest
       /\ d \in ActiveForgets' => d \in ActiveForgets
    \/ claims \cap VersionsOf(d) \subseteq forgets'[d].manifest.claims

BackupKept ==
  \/ backup' = backup
  \/ /\ backup # None
     /\ \E s : backup' = [backup EXCEPT !.snapshots = s]

(* The readiness step's call prepares no document but its own.             *)
BootCallKept ==
  call'[Boot].pc # "idle" =>
    /\ Preparing' \subseteq {call'[Boot].doc}
    /\ call'[Boot].pc = "returned" => Preparing' = {}

CallMoves(q) ==
  /\ forgets' \in [Docs -> RowType]
  /\ portable' \in [Docs -> Manifests \cup {None}]
  /\ call' \in [Callers \cup {Boot} -> CallType]
  /\ \A r \in (Callers \cup {Boot}) \ {q} : call'[r] = call[r]
  /\ boot.pc = IF q = Boot THEN "request" ELSE "up"
  /\ Kept /\ CutIsTaken /\ BackupKept
  /\ q = Boot => BootCallKept
  /\ Sound(forgets)' /\ CallInv(q)'

LEMMA CallStep ==
  ASSUME ForgetInv, NEW q \in Callers \cup {Boot},
         UNCHANGED <<honor, boot, reps, claims>>, CallMoves(q)
  PROVE  ForgetInv'
<1>1. BackupKept /\ backup' # None =>
        backup # None /\ backup'.forgets = backup.forgets /\ backup'.reps = backup.reps
          /\ DOMAIN backup' = DOMAIN backup
  BY DEF BackupKept, ForgetInv, Types
<1>2. Types'
  BY <1>1 DEF ForgetInv, Types, CallMoves
<1>3. Kept /\ Sound(forgets)'
  BY DEF CallMoves
<1>4. RowsSound'
  <2>1. ASSUME backup' # None PROVE Sound(backup.forgets)'
    BY <1>1, <1>3, <2>1 DEF CallMoves, ForgetInv, RowsSound, Sound, Kept
  <2> QED
    BY <1>3, <2>1 DEF RowsSound
<1>5. ASSUME NEW r \in Callers \cup {Boot} PROVE CallInv(r)'
  <2>1. CASE r = q
    BY <2>1 DEF CallMoves
  <2>2. CASE r # q
    <3>1. call'[r] = call[r] /\ CallInv(r)
      BY <2>2 DEF CallMoves, ForgetInv
    <3> QED
      BY <1>3, <3>1 DEF CallInv, Kept, Status
  <2> QED
    BY <2>1, <2>2
<1>6. CallsAreOver'
  <2>1. CASE q = Boot
    BY <2>1, ForgetAssumption DEF ForgetInv, CallsAreOver, CallMoves, BootCallKept
  <2>2. CASE q # Boot
    BY <2>2 DEF ForgetInv, CallsAreOver, CallMoves
  <2> QED
    BY <2>1, <2>2
<1>7. BootInv'
  BY <1>3 DEF ForgetInv, BootInv, CallMoves, Kept
<1>8. NoClaimAfterTheCut'
  BY DEF ForgetInv, NoClaimAfterTheCut, CallMoves, CutIsTaken, Serving, ActiveForgets
<1> QED
  BY <1>2, <1>4, <1>5, <1>6, <1>7, <1>8 DEF ForgetInv

LEMMA CallRuns ==
  ASSUME ForgetInv, NEW q \in Callers \cup {Boot}, call[q].pc # "idle"
  PROVE  /\ boot.pc = IF q = Boot THEN "request" ELSE "up"
         /\ call[q].doc \in Docs /\ call[q] \in CallType
         /\ q = Boot => Preparing \subseteq {call[q].doc}
  BY ForgetAssumption DEF ForgetInv, CallsAreOver, CallInv, Types

(* A call that only moves on, or ends.                                     *)
LEMMA CallAlone ==
  ASSUME ForgetInv, NEW q \in Callers \cup {Boot}, NEW c \in CallType,
         UNCHANGED <<forgets, portable, backup, honor, boot, reps, claims>>,
         boot.pc = IF q = Boot THEN "request" ELSE "up",
         call' = [call EXCEPT ![q] = c],
         \/ c.pc = "idle"
         \/ /\ c.pc \in {"prepared", "drained"} /\ c.doc \in Docs
            /\ q = Boot => Preparing \subseteq {c.doc}
  PROVE  ForgetInv'
<1>1. call'[q] = c /\ \A r \in (Callers \cup {Boot}) \ {q} : call'[r] = call[r]
  BY DEF ForgetInv, Types
<1>2. call' \in [Callers \cup {Boot} -> CallType]
  BY DEF ForgetInv, Types
<1>3. Kept /\ CutIsTaken /\ BackupKept /\ Sound(forgets)'
  BY DEF ForgetInv, RowsSound, Sound, Kept, CutIsTaken, BackupKept, ActiveForgets, Status
<1>4. CallInv(q)'
  BY <1>1 DEF CallInv
<1>5. q = Boot => BootCallKept
  BY <1>1 DEF BootCallKept, Preparing, Status
<1>6. CallMoves(q)
  BY <1>1, <1>2, <1>3, <1>4, <1>5 DEF CallMoves, ForgetInv, Types
<1> QED
  BY <1>6, CallStep

LEMMA NoCallType == NoCall \in CallType
  BY DEF NoCall, CallType

LEMMA PrepareStep ==
  ASSUME ForgetInv, NEW q \in Callers \cup {Boot}, NEW d \in Docs, Prepare(q, d)
  PROVE  ForgetInv'
<1> USE DEF intentVars, contentVars, storeVars, driverVars, faultVars, historyVars
<1>1. UNCHANGED <<portable, backup, honor, boot, reps, claims>>
  BY DEF Prepare
<1>2. /\ boot.pc = IF q = Boot THEN "request" ELSE "up"
      /\ q = Boot => Preparing \subseteq {d}
  BY CallRuns DEF Prepare, Asks, CallIs
<1>3. CASE UNCHANGED forgets /\ CallOver(q)
  BY <1>1, <1>2, <1>3, NoCallType, CallAlone DEF CallOver, NoCall
<1>4. ASSUME Continue(q, d, forgets'[d]),
             \/ UNCHANGED forgets /\ (d \in ActiveForgets \/ Status(d) = "complete")
             \/ /\ Status(d) = "none"
                /\ forgets' = [forgets EXCEPT ![d].status = "preparing"]
      PROVE  ForgetInv'
  <2>1. forgets' \in [Docs -> RowType]
    BY <1>4 DEF ForgetInv, Types, RowType, Statuses
  <2>2. /\ Status(d) = "none" => forgets[d].manifest = None
        /\ \A e \in Docs : forgets'[e].manifest = forgets[e].manifest
        /\ \A e \in Docs : e # d => forgets'[e] = forgets[e]
        /\ forgets'[d].status \in {forgets[d].status, "preparing"}
        /\ forgets'[d].status # "none"
        /\ forgets[d].status \in Settled => forgets'[d].status = forgets[d].status
    BY <1>4 DEF ForgetInv, Types, RowsSound, Sound, RowType, Status, ActiveForgets, Settled
  <2>3. Kept /\ BackupKept
    BY <1>1, <2>2 DEF Kept, BackupKept
  <2>4. CutIsTaken
    BY <1>4, <2>2 DEF CutIsTaken, ActiveForgets, Status
  <2>5. Sound(forgets)'
    BY <1>1, <2>2 DEF ForgetInv, RowsSound, Sound, Settled
  <2> DEFINE pc == CASE forgets'[d].status \in {"accepted", "complete"} -> "known"
                     [] forgets'[d].manifest # None -> "stored"
                     [] OTHER -> "prepared"
  <2>6. call' = [call EXCEPT ![q] = [doc |-> d, manifest |-> forgets'[d].manifest, pc |-> pc]]
    BY <1>4 DEF Continue, ContinueAt
  <2>7. [doc |-> d, manifest |-> forgets'[d].manifest, pc |-> pc] \in CallType
    BY <2>1 DEF CallType, RowType
  <2>8. /\ call' \in [Callers \cup {Boot} -> CallType]
        /\ call'[q] = [doc |-> d, manifest |-> forgets'[d].manifest, pc |-> pc]
        /\ \A r \in (Callers \cup {Boot}) \ {q} : call'[r] = call[r]
    BY <2>6, <2>7 DEF ForgetInv, Types
  <2>9. CallInv(q)'
    BY <2>8, <2>5 DEF CallInv, Status, Settled, Sound
  <2>10. q = Boot => BootCallKept
    BY <1>2, <2>2, <2>8 DEF BootCallKept, Preparing, Status
  <2>11. CallMoves(q)
    BY <1>1, <1>2, <2>1, <2>3, <2>4, <2>5, <2>8, <2>9, <2>10
    DEF CallMoves, ForgetInv, Types
  <2> QED
    BY <1>1, <2>11, CallStep
<1> QED
  BY <1>3, <1>4 DEF Prepare

LEMMA DrainStep ==
  ASSUME ForgetInv, NEW q \in Callers \cup {Boot}, Drain(q) \/ CallDies(q)
  PROVE  ForgetInv'
<1> USE DEF intentVars, contentVars, storeVars, driverVars, faultVars, historyVars
<1>1. /\ call[q].pc # "idle"
      /\ UNCHANGED <<forgets, portable, backup, honor, boot, reps, claims>>
  BY DEF Drain, CallDies, CallIs
<1>2. CASE CallOver(q)
  BY <1>1, <1>2, NoCallType, CallRuns, CallAlone DEF CallOver, NoCall
<1>3. CASE CallTo(q, "drained")
  <2> DEFINE c == [call[q] EXCEPT !.pc = "drained"]
  <2>1. c \in CallType /\ c.pc = "drained" /\ c.doc = call[q].doc
    BY <1>1, CallRuns DEF CallType
  <2>2. call' = [call EXCEPT ![q] = c]
    BY <1>3 DEF CallTo, ForgetInv, Types
  <2> HIDE DEF c
  <2> QED
    BY <1>1, <2>1, <2>2, CallRuns, CallAlone
<1> QED
  BY <1>2, <1>3 DEF Drain, CallDies

LEMMA CancelStep ==
  ASSUME ForgetInv, NEW q \in Callers \cup {Boot}, CancelUnstored(q)
  PROVE  ForgetInv'
<1> USE DEF intentVars, contentVars, storeVars, driverVars, faultVars, historyVars
<1>1. /\ call[q].pc # "idle" /\ CallOver(q)
      /\ UNCHANGED <<portable, backup, honor, boot, reps, claims>>
  BY DEF CancelUnstored, CallIs
<1>2. /\ forgets' \in [Docs -> RowType]
      /\ \A e \in Docs : forgets'[e].manifest = forgets[e].manifest
      /\ \A e \in Docs : \/ forgets'[e].status = forgets[e].status
                         \/ /\ forgets[e].status = "preparing" /\ forgets[e].manifest = None
                            /\ forgets'[e].status = "none"
  BY CallRuns, <1>1 DEF CancelUnstored, ForgetInv, Types, RowType, Statuses, Status
<1>3. Kept /\ CutIsTaken /\ BackupKept
  BY <1>1, <1>2 DEF Kept, CutIsTaken, BackupKept, ActiveForgets, Status, Settled
<1>4. Sound(forgets)'
  BY <1>1, <1>2 DEF ForgetInv, RowsSound, Sound, Settled
<1>5. /\ call' \in [Callers \cup {Boot} -> CallType] /\ call'[q].pc = "idle"
      /\ \A r \in (Callers \cup {Boot}) \ {q} : call'[r] = call[r]
  BY <1>1, NoCallType DEF CallOver, NoCall, ForgetInv, Types
<1>6. CallInv(q)' /\ (q = Boot => BootCallKept)
  BY <1>5 DEF CallInv, BootCallKept
<1>7. CallMoves(q)
  BY <1>1, <1>2, <1>3, <1>4, <1>5, <1>6, CallRuns DEF CallMoves, ForgetInv, Types
<1> QED
  BY <1>1, <1>7, CallStep

LEMMA InventoryIsManifest ==
  ASSUME ForgetInv, NEW q, NEW d \in Docs
  PROVE  Inventory(q, d) \in Manifests /\ Inventory(q, d) # None
<1>1. Nominated(d) \subseteq Objects
  BY DEF ForgetInv, Types, Nominated, Objects, RepsOf, Reps, VersionsOf, Raw, Artifact
<1>2. claims \cap VersionsOf(d) \subseteq Versions
  BY DEF VersionsOf
<1>3. Inventory(q, d) \in Manifests
  BY <1>1, <1>2 DEF Inventory, Manifests
<1> QED
  BY <1>3, ManifestAssumption

LEMMA InventoryStep ==
  ASSUME ForgetInv, NEW q \in Callers \cup {Boot}, InventoryAndStoreManifest(q)
  PROVE  ForgetInv'
<1> USE DEF intentVars, contentVars, storeVars, driverVars, faultVars, historyVars
<1> DEFINE d == call[q].doc
<1>1. /\ call[q].pc = "drained"
      /\ UNCHANGED <<portable, honor, boot, reps, claims>>
  BY DEF InventoryAndStoreManifest, CallIs
<1>2. /\ d \in Docs /\ call[q] \in CallType
      /\ boot.pc = IF q = Boot THEN "request" ELSE "up"
      /\ q = Boot => Preparing \subseteq {d}
  BY <1>1, CallRuns
<1>3. CASE UNCHANGED <<forgets, backup>> /\ CallOver(q)
  BY <1>1, <1>2, <1>3, NoCallType, CallAlone DEF CallOver, NoCall
<1>4. ASSUME NEW m \in Manifests,
             call' = [call EXCEPT ![q].pc = "stored", ![q].manifest = m],
             forgets' = [forgets EXCEPT ![d].manifest = m],
             Status(d) # "none", BackupKept, m # None,
             \/ forgets[d].manifest = m
             \/ forgets[d].manifest = None /\ m = Inventory(q, d)
      PROVE  ForgetInv'
  <2>1. /\ forgets' \in [Docs -> RowType]
        /\ \A e \in Docs : forgets'[e].status = forgets[e].status
        /\ \A e \in Docs : e # d => forgets'[e].manifest = forgets[e].manifest
        /\ forgets'[d].manifest = m
    BY <1>2, <1>4 DEF ForgetInv, Types, RowType
  <2>2. Kept
    BY <1>1, <1>4, <2>1 DEF Kept
  <2>3. CutIsTaken
    BY <1>4, <2>1 DEF CutIsTaken, ActiveForgets, Status, Inventory
  <2>4. Sound(forgets)'
    BY <1>1, <1>2, <1>4, <2>1 DEF ForgetInv, RowsSound, Sound, Settled, Status
  <2>5. /\ call' \in [Callers \cup {Boot} -> CallType]
        /\ call'[q].pc = "stored" /\ call'[q].doc = d /\ call'[q].manifest = m
        /\ \A r \in (Callers \cup {Boot}) \ {q} : call'[r] = call[r]
    BY <1>2, <1>4 DEF ForgetInv, Types, CallType
  <2>6. CallInv(q)'
    BY <1>2, <1>4, <2>1, <2>5 DEF CallInv
  <2>7. q = Boot => BootCallKept
    BY <1>2, <2>1, <2>5 DEF BootCallKept, Preparing, Status
  <2>8. CallMoves(q)
    BY <1>1, <1>2, <1>4, <2>1, <2>2, <2>3, <2>4, <2>5, <2>6, <2>7
    DEF CallMoves, ForgetInv, Types
  <2> QED
    BY <1>1, <2>8, CallStep
<1>5. CASE /\ Status(d) # "none" /\ forgets[d].manifest # None
           /\ call' = [call EXCEPT ![q].pc = "stored", ![q].manifest = forgets[d].manifest]
           /\ UNCHANGED <<forgets, backup>>
  <2>1. /\ forgets[d].manifest \in Manifests
        /\ forgets' = [forgets EXCEPT ![d].manifest = forgets[d].manifest]
    BY <1>2, <1>5 DEF ForgetInv, Types, RowType
  <2> QED
    BY <1>4, <1>5, <2>1 DEF BackupKept
<1>6. CASE /\ Status(d) # "none" /\ forgets[d].manifest = None
           /\ call' = [call EXCEPT ![q].pc = "stored", ![q].manifest = Inventory(q, d)]
           /\ forgets' = [forgets EXCEPT ![d].manifest = Inventory(q, d)]
           /\ backup' = IF backup = None THEN None
                        ELSE [backup EXCEPT !.snapshots =
                                (@ \ snapshots) \cup NamedBy(d, @ \cap snapshots)]
  <2>1. BackupKept
    BY <1>6 DEF BackupKept
  <2>2. Inventory(q, d) \in Manifests /\ Inventory(q, d) # None
    BY <1>2, InventoryIsManifest
  <2> QED
    BY <1>4, <1>6, <2>1, <2>2
<1> QED
  BY <1>3, <1>5, <1>6 DEF InventoryAndStoreManifest

LEMMA AppendStep ==
  ASSUME ForgetInv, NEW q \in Callers \cup {Boot}, Append(q)
  PROVE  ForgetInv'
<1> USE DEF intentVars, contentVars, storeVars, driverVars, faultVars, historyVars
<1> DEFINE d == call[q].doc
<1>1. /\ call[q].pc \in {"stored", "known"}
      /\ UNCHANGED <<forgets, backup, honor, boot, reps, claims>>
  BY DEF Append
<1>2. /\ d \in Docs /\ call[q] \in CallType /\ call[q].manifest # None
      /\ forgets[d].manifest = call[q].manifest
      /\ boot.pc = IF q = Boot THEN "request" ELSE "up"
      /\ q = Boot => Preparing \subseteq {d}
  BY <1>1, CallRuns DEF ForgetInv, CallInv
<1>3. CASE UNCHANGED portable /\ CallOver(q)
  BY <1>1, <1>2, <1>3, NoCallType, CallAlone DEF CallOver, NoCall
<1>4. CASE /\ portable[d] \in {None, call[q].manifest}
           /\ portable' = [portable EXCEPT ![d] = call[q].manifest]
           /\ IF CallIs(q, "stored") THEN CallTo(q, "appended") ELSE Return(q)
  <2>1. /\ portable' \in [Docs -> Manifests \cup {None}]
        /\ \A e \in Docs : e # d => portable'[e] = portable[e]
        /\ portable'[d] = call[q].manifest
    BY <1>2, <1>4 DEF ForgetInv, Types, CallType
  <2>2. Kept /\ CutIsTaken /\ BackupKept
    BY <1>1, <1>2, <1>4, <2>1 DEF Kept, CutIsTaken, BackupKept, ActiveForgets, Status
  <2>3. Sound(forgets)'
    BY <1>1, <1>2, <2>1 DEF ForgetInv, RowsSound, Sound
  <2>4. PICK c \in CallType :
          /\ call' = [call EXCEPT ![q] = c]
          /\ \/ call[q].pc = "stored" /\ c = [call[q] EXCEPT !.pc = "appended"]
             \/ call[q].pc = "known" /\ q = Boot /\ c = [call[q] EXCEPT !.pc = "returned"]
             \/ c = NoCall
    <3>1. CASE CallIs(q, "stored")
      BY <1>2, <1>4, <3>1 DEF CallIs, CallTo, CallType, ForgetInv, Types
    <3>2. CASE ~CallIs(q, "stored") /\ q = Boot
      BY <1>1, <1>2, <1>4, <3>2 DEF CallIs, CallTo, Return, CallType, ForgetInv, Types
    <3>3. CASE ~CallIs(q, "stored") /\ q # Boot
      BY <1>4, <3>3, NoCallType DEF Return, CallOver
    <3> QED
      BY <3>1, <3>2, <3>3
  <2>5. /\ call' \in [Callers \cup {Boot} -> CallType] /\ call'[q] = c
        /\ \A r \in (Callers \cup {Boot}) \ {q} : call'[r] = call[r]
    BY <2>4 DEF ForgetInv, Types
  <2>6. CallInv(q)'
    BY <1>1, <1>2, <2>1, <2>4, <2>5 DEF CallInv, CallType, NoCall
  <2>7. q = Boot => BootCallKept
    <3>1. call[q].pc = "known" => d \notin Preparing
      BY <1>2 DEF ForgetInv, CallInv, Settled, Preparing
    <3> QED
      BY <1>1, <1>2, <2>4, <2>5, <3>1 DEF BootCallKept, Preparing, Status, NoCall, CallType
  <2>8. CallMoves(q)
    BY <1>1, <1>2, <2>1, <2>2, <2>3, <2>5, <2>6, <2>7 DEF CallMoves, ForgetInv, Types
  <2> QED
    BY <1>1, <2>8, CallStep
<1> QED
  BY <1>3, <1>4 DEF Append

LEMMA AcceptStep ==
  ASSUME ForgetInv, NEW q \in Callers \cup {Boot}, AcceptAndEnqueue(q)
  PROVE  ForgetInv'
<1> USE DEF intentVars, contentVars, storeVars, driverVars, faultVars, historyVars
<1> DEFINE d == call[q].doc
<1>1. /\ call[q].pc = "appended"
      /\ UNCHANGED <<portable, backup, honor, boot, reps, claims>>
  BY DEF AcceptAndEnqueue, CallIs
<1>2. /\ d \in Docs /\ call[q] \in CallType /\ call[q].manifest # None
      /\ forgets[d].manifest = call[q].manifest /\ portable[d] = call[q].manifest
      /\ boot.pc = IF q = Boot THEN "request" ELSE "up"
      /\ q = Boot => Preparing \subseteq {d}
  BY <1>1, CallRuns DEF ForgetInv, CallInv
<1>3. /\ forgets' = [forgets EXCEPT ![d].status = IF @ = "complete" THEN @ ELSE "accepted"]
      /\ Return(q)
  BY <1>2 DEF AcceptAndEnqueue
<1>4. /\ forgets' \in [Docs -> RowType]
      /\ \A e \in Docs : forgets'[e].manifest = forgets[e].manifest
      /\ \A e \in Docs : e # d => forgets'[e].status = forgets[e].status
      /\ forgets'[d].status = IF forgets[d].status = "complete" THEN "complete" ELSE "accepted"
      /\ forgets[d].status # "none"
  BY <1>2, <1>3 DEF ForgetInv, Types, RowsSound, Sound, RowType, Statuses
<1>5. Kept /\ CutIsTaken /\ BackupKept
  BY <1>1, <1>2, <1>4 DEF Kept, CutIsTaken, BackupKept, ActiveForgets, Status, Settled
<1>6. Sound(forgets)'
  BY <1>1, <1>2, <1>4 DEF ForgetInv, RowsSound, Sound, Settled
<1>7. PICK c \in CallType :
        /\ call' = [call EXCEPT ![q] = c]
        /\ c = NoCall \/ (q = Boot /\ c = [call[q] EXCEPT !.pc = "returned"])
  <2>1. CASE q = Boot
    BY <1>2, <1>3, <2>1 DEF CallTo, Return, CallType, ForgetInv, Types
  <2>2. CASE q # Boot
    BY <1>3, <2>2, NoCallType DEF Return, CallOver
  <2> QED
    BY <2>1, <2>2
<1>8. /\ call' \in [Callers \cup {Boot} -> CallType] /\ call'[q] = c
      /\ \A r \in (Callers \cup {Boot}) \ {q} : call'[r] = call[r]
  BY <1>7 DEF ForgetInv, Types
<1>9. CallInv(q)'
  BY <1>2, <1>7, <1>8 DEF CallInv, CallType, NoCall
<1>10. q = Boot => BootCallKept
  BY <1>2, <1>4, <1>7, <1>8 DEF BootCallKept, Preparing, Status, NoCall, CallType
<1>11. CallMoves(q)
  BY <1>1, <1>2, <1>4, <1>5, <1>6, <1>8, <1>9, <1>10 DEF CallMoves, ForgetInv, Types
<1> QED
  BY <1>1, <1>11, CallStep

LEMMA CallSteps ==
  ASSUME ForgetInv, \E q \in Callers \cup {Boot} : CallNext(q)
  PROVE  ForgetInv'
<1>1. PICK q \in Callers \cup {Boot} : CallNext(q)
  OBVIOUS
<1> QED
  BY <1>1, PrepareStep, DrainStep, CancelStep, InventoryStep, AppendStep, AcceptStep
  DEF CallNext

-----------------------------------------------------------------------------
(* Readiness and restores.                                                 *)

LEMMA ReadinessStep ==
  ASSUME ForgetInv, BootNext
  PROVE  ForgetInv'
<1> USE DEF intentVars, contentVars, storeVars, driverVars, faultVars, historyVars
<1>1. ASSUME NEW d \in Docs, BootRequest(d) PROVE ForgetInv'
  <2>1. /\ boot.pc = "start" /\ Preparing = {d}
        /\ UNCHANGED <<forgets, portable, backup, honor, reps, claims>>
        /\ boot' = [boot EXCEPT !.pc = "request"]
    BY <1>1 DEF BootRequest
  <2>2. call' = [call EXCEPT ![Boot] = [pc |-> "asked", doc |-> d, manifest |-> None]]
    BY <1>1 DEF BootRequest
  <2>3. /\ call'[Boot] = [pc |-> "asked", doc |-> d, manifest |-> None]
        /\ \A q \in Callers : call'[q] = call[q]
    BY <2>2, ForgetAssumption DEF ForgetInv, Types
  <2>4. Types'
    BY <2>1, <2>2 DEF ForgetInv, Types, CallType
  <2>5. RowsSound'
    BY <2>1 DEF ForgetInv, RowsSound, Sound
  <2>6. \A q \in Callers \cup {Boot} : CallInv(q)'
    BY <2>1, <2>3 DEF ForgetInv, CallInv, Status
  <2>7. CallsAreOver'
    BY <2>1, <2>3 DEF ForgetInv, Types, CallsAreOver, Preparing, Status
  <2>8. BootInv'
    BY <2>1 DEF ForgetInv, Types, BootInv
  <2>9. NoClaimAfterTheCut'
    BY <2>1 DEF ForgetInv, Types, NoClaimAfterTheCut, Serving
  <2> QED
    BY <2>4, <2>5, <2>6, <2>7, <2>8, <2>9 DEF ForgetInv
<1>2. CASE BootRaises
  <2>1. /\ boot.pc = "request" /\ call[Boot].pc = "idle"
        /\ UNCHANGED <<forgets, portable, backup, call, honor, reps, claims>>
        /\ boot' = [boot EXCEPT !.pc = "start"]
    BY <1>2 DEF BootRaises, CallIs
  <2>2. Types' /\ RowsSound' /\ \A q \in Callers \cup {Boot} : CallInv(q)'
    BY <2>1 DEF ForgetInv, Types, RowsSound, Sound, CallInv, Status
  <2>3. CallsAreOver' /\ BootInv' /\ NoClaimAfterTheCut'
    BY <2>1 DEF ForgetInv, Types, CallsAreOver, BootInv, NoClaimAfterTheCut, Serving
  <2> QED
    BY <2>2, <2>3 DEF ForgetInv
<1>3. CASE BootEnumerate
  <2>1. /\ boot.pc \in {"start", "request"} /\ Preparing = {}
        /\ UNCHANGED <<forgets, portable, backup, honor, reps, claims>>
        /\ boot' = [pc |-> "honor", todo |-> ManifestsKept]
        /\ call' = [call EXCEPT ![Boot] = NoCall]
    BY <1>3 DEF BootEnumerate, CallIs, ForgetInv, CallsAreOver
  <2>2. /\ call'[Boot].pc = "idle"
        /\ \A q \in Callers : call'[q] = call[q]
    BY <2>1, ForgetAssumption DEF ForgetInv, Types, NoCall
  <2>3. Types'
    BY <2>1, NoCallType DEF ForgetInv, Types, ManifestsKept
  <2>4. RowsSound'
    BY <2>1 DEF ForgetInv, RowsSound, Sound
  <2>5. \A q \in Callers \cup {Boot} : CallInv(q)'
    BY <2>1, <2>2 DEF ForgetInv, CallInv, Status
  <2>6. CallsAreOver'
    BY <2>1, <2>2 DEF ForgetInv, CallsAreOver
  <2>7. BootInv'
    BY <2>1 DEF ForgetInv, BootInv, Preparing, ManifestsKept, Status
  <2>8. NoClaimAfterTheCut'
    BY <2>1 DEF NoClaimAfterTheCut, Serving
  <2> QED
    BY <2>3, <2>4, <2>5, <2>6, <2>7, <2>8 DEF ForgetInv
<1>4. ASSUME NEW d \in Docs, Materialize(d) PROVE ForgetInv'
  <2>1. /\ boot.pc = "honor" /\ d \in boot.todo /\ portable[d] # None
        /\ UNCHANGED <<portable, backup, call, boot, reps, claims>>
        /\ forgets' = IF forgets[d].manifest = None
                      THEN [forgets EXCEPT ![d] = [status |-> "accepted",
                                                   manifest |-> portable[d]]]
                      ELSE forgets
        /\ honor' = [honor EXCEPT ![Boot] = [pc |-> "delete", doc |-> d,
                                             manifest |-> portable[d]]]
    BY <1>4 DEF Materialize, ForgetInv, BootInv, ManifestsKept
  <2>2. /\ forgets' \in [Docs -> RowType]
        /\ \A e \in Docs : e # d => forgets'[e] = forgets[e]
        /\ \/ forgets'[d] = forgets[d]
           \/ /\ forgets[d].manifest = None
              /\ forgets'[d] = [status |-> "accepted", manifest |-> portable[d]]
    BY <2>1 DEF ForgetInv, Types, RowType, Statuses
  <2>3. honor'[Boot] = [pc |-> "delete", doc |-> d, manifest |-> portable[d]]
    BY <2>1 DEF ForgetInv, Types
  <2>4. /\ \A q \in Callers \cup {Boot} : call[q].pc = "idle"
        /\ Preparing = {}
    BY <2>1 DEF ForgetInv, CallsAreOver, BootInv
  <2>5. Types'
    BY <2>1, <2>2 DEF ForgetInv, Types, HonorType
  <2>6. RowsSound'
    BY <2>1, <2>2 DEF ForgetInv, RowsSound, Sound, Settled
  <2>7. \A q \in Callers \cup {Boot} : CallInv(q)'
    BY <2>1, <2>4 DEF CallInv
  <2>8. CallsAreOver' /\ NoClaimAfterTheCut'
    BY <2>1, <2>4 DEF CallsAreOver, NoClaimAfterTheCut, Serving
  <2>9. BootInv'
    <3>1. \A e \in Docs : Status(e) = "complete" => forgets'[e].status = "complete"
      BY <2>2 DEF ForgetInv, RowsSound, Sound, Settled, Status
    <3>2. Preparing' = {}
      BY <2>2, <2>4 DEF Preparing, Status
    <3> QED
      BY <2>1, <2>3, <3>1, <3>2 DEF ForgetInv, BootInv, ManifestsKept, Status
  <2> QED
    BY <2>5, <2>6, <2>7, <2>8, <2>9 DEF ForgetInv
<1>5. CASE BootHonored
  <2>1. /\ boot.pc = "honor" /\ honor[Boot].pc = "done"
        /\ UNCHANGED <<forgets, portable, backup, call, reps, claims>>
        /\ boot' = [boot EXCEPT !.todo = @ \ {honor[Boot].doc}]
        /\ honor' = [honor EXCEPT ![Boot] = NoHonor]
    BY <1>5 DEF BootHonored, HonorAt, Target
  <2>2. honor'[Boot] = NoHonor /\ NoHonor \in HonorType
    BY <2>1 DEF ForgetInv, Types, HonorType, NoHonor
  <2>3. Types'
    BY <2>1, <2>2 DEF ForgetInv, Types
  <2>4. RowsSound' /\ \A q \in Callers \cup {Boot} : CallInv(q)'
    BY <2>1 DEF ForgetInv, RowsSound, Sound, CallInv, Status
  <2>5. CallsAreOver' /\ NoClaimAfterTheCut'
    BY <2>1 DEF ForgetInv, Types, CallsAreOver, NoClaimAfterTheCut, Serving
  <2>6. boot'.pc = "honor" /\ boot'.todo = boot.todo \ {honor[Boot].doc}
    BY <2>1 DEF ForgetInv, Types
  <2>7. Status(honor[Boot].doc) = "complete"
    BY <2>1 DEF ForgetInv, BootInv
  <2>8. BootInv'
    BY <2>1, <2>2, <2>6, <2>7 DEF ForgetInv, BootInv, NoHonor, Preparing, ManifestsKept, Status
  <2> QED
    BY <2>3, <2>4, <2>5, <2>8 DEF ForgetInv
<1>6. CASE BootServes
  <2>1. /\ boot.pc = "honor" /\ boot.todo = {}
        /\ UNCHANGED <<forgets, portable, backup, call, honor, reps, claims>>
        /\ boot' = [boot EXCEPT !.pc = "up"]
    BY <1>6 DEF BootServes
  <2>2. \A d \in Docs : portable[d] # None => Status(d) = "complete"
    BY <2>1 DEF ForgetInv, BootInv
  <2>3. \A d \in Docs : Status(d) = "complete" => forgets[d].manifest # None
    BY DEF ForgetInv, RowsSound, Sound, Settled, Status
  <2>4. \A d \in Docs : Status(d) = "accepted" => portable[d] # None
    BY DEF ForgetInv, RowsSound, Sound, Settled, Status
  <2>5. ActiveForgets = {}
    <3>1. Preparing = {}
      BY <2>1 DEF ForgetInv, BootInv
    <3>2. \A d \in Docs : Status(d) \in Statuses
      BY DEF ForgetInv, Types, RowType, Status
    <3> QED
      BY <2>2, <2>4, <3>1, <3>2 DEF ActiveForgets, Preparing, Statuses
  <2>6. honor[Boot].pc = "idle"
    BY <2>1 DEF ForgetInv, BootInv
  <2>7. Types' /\ RowsSound' /\ \A q \in Callers \cup {Boot} : CallInv(q)'
    BY <2>1 DEF ForgetInv, Types, RowsSound, Sound, CallInv, Status
  <2>8. CallsAreOver'
    BY <2>1 DEF ForgetInv, Types, CallsAreOver
  <2>9. BootInv'
    BY <2>1, <2>2, <2>3, <2>6 DEF ForgetInv, Types, BootInv, Status
  <2>10. NoClaimAfterTheCut'
    BY <2>1, <2>5 DEF NoClaimAfterTheCut, ActiveForgets, Status
  <2> QED
    BY <2>7, <2>8, <2>9, <2>10 DEF ForgetInv
<1> QED
  BY <1>1, <1>2, <1>3, <1>4, <1>5, <1>6 DEF BootNext

LEMMA RestoreStep ==
  ASSUME ForgetInv, TakeBackup \/ \E lost \in Losses : Restore(lost)
  PROVE  ForgetInv'
<1> USE DEF intentVars, contentVars, storeVars, driverVars, faultVars, historyVars
<1>1. CASE TakeBackup
  <2>1. /\ UNCHANGED <<forgets, portable, call, honor, boot, reps, claims>>
        /\ backup' = Copy
    BY <1>1 DEF TakeBackup
  <2>2. /\ backup'.forgets = forgets /\ backup'.reps = reps
        /\ DOMAIN backup' = {"forgets", "work", "spine", "tombstones", "reps", "claims",
                             "rows", "listed", "objects", "snapshots"}
    BY <2>1 DEF Copy
  <2>3. Types'
    BY <2>1, <2>2 DEF ForgetInv, Types
  <2>4. RowsSound'
    BY <2>1, <2>2 DEF ForgetInv, RowsSound, Sound
  <2>5. \A q \in Callers \cup {Boot} : CallInv(q)'
    BY <2>1 DEF ForgetInv, CallInv, Status
  <2>6. CallsAreOver' /\ BootInv'
    BY <2>1 DEF ForgetInv, CallsAreOver, BootInv, Preparing, ManifestsKept, Status
  <2>7. NoClaimAfterTheCut'
    BY <2>1 DEF ForgetInv, NoClaimAfterTheCut, ActiveForgets, Serving, Status
  <2> QED
    BY <2>3, <2>4, <2>5, <2>6, <2>7 DEF ForgetInv
<1>2. ASSUME NEW lost \in Losses, Restore(lost) PROVE ForgetInv'
  <2>1. /\ backup # None /\ UNCHANGED <<portable, backup>>
        /\ call' = [q \in Callers \cup {Boot} |-> NoCall]
        /\ honor' = [h \in Honorers \cup {Boot} |-> NoHonor]
        /\ boot' = NotReady
    BY <1>2 DEF Restore
  <2>2. \/ forgets' = forgets /\ reps' = reps
        \/ forgets' = backup.forgets /\ reps' = backup.reps
    BY <1>2 DEF Restore, Copy
  <2>3. NoHonor \in HonorType
    BY DEF HonorType, NoHonor
  <2>4. Types'
    BY <2>1, <2>2, <2>3, NoCallType DEF ForgetInv, Types, NotReady
  <2>5. RowsSound'
    BY <2>1, <2>2 DEF ForgetInv, RowsSound, Sound
  <2>6. \A q \in Callers \cup {Boot} : CallInv(q)'
    BY <2>1 DEF CallInv, NoCall
  <2>7. CallsAreOver' /\ BootInv' /\ NoClaimAfterTheCut'
    BY <2>1 DEF CallsAreOver, BootInv, NoClaimAfterTheCut, Serving, NotReady, NoCall, NoHonor
  <2> QED
    BY <2>4, <2>5, <2>6, <2>7 DEF ForgetInv
<1> QED
  BY <1>1, <1>2

-----------------------------------------------------------------------------
(* All steps together.                                                     *)

LEMMA InitForget == Init => ForgetInv
<1> SUFFICES ASSUME Init PROVE ForgetInv
  OBVIOUS
<1>1. Types
  BY NoCallType DEF Init, Types, RowType, Statuses, NoRow, HonorType, NoHonor
<1>2. RowsSound
  BY DEF Init, RowsSound, Sound, NoRow, Settled
<1>3. \A q \in Callers \cup {Boot} : CallInv(q)
  BY DEF Init, CallInv, NoCall
<1>4. CallsAreOver /\ BootInv
  BY DEF Init, CallsAreOver, BootInv, NoCall, NoHonor
<1>5. NoClaimAfterTheCut
  BY DEF Init, NoClaimAfterTheCut, ActiveForgets, Status, NoRow
<1> QED
  BY <1>1, <1>2, <1>3, <1>4, <1>5 DEF ForgetInv

LEMMA NextForget == ForgetInv /\ [Next]_vars => ForgetInv'
<1> SUFFICES ASSUME ForgetInv, [Next]_vars PROVE ForgetInv'
  OBVIOUS
<1>1. CASE UNCHANGED vars
  <2>1. UNCHANGED <<forgets, portable, call, honor, boot, backup, reps, claims>>
    BY <1>1 DEF vars, intentVars, contentVars, driverVars, faultVars
  <2> QED
    BY <2>1, QuietStep DEF ForgetInv, Types
<1>2. CASE Next
  BY <1>2, WorkStep, CallSteps, ErasureSteps, ReadinessStep, RestoreStep DEF Next
<1> QED
  BY <1>1, <1>2

-----------------------------------------------------------------------------
(* The stores, and the drain.                                              *)

StoreTypes ==
  /\ work \in [Docs -> {"none", "pending", "done"} \cup Honorers]
  /\ spine \subseteq Versions /\ claims \subseteq Versions /\ tombstones \subseteq Docs
  /\ rows \in [Versions -> RowStates]
  /\ objects \subseteq Objects /\ snapshots \subseteq Snapshots
  /\ faults \in [deaths : 0..MaxFaults, restores : 0..MaxFaults]
  /\ listed \subseteq Objects /\ crossed \subseteq Versions \X Attempts

BackupTypes ==
  backup # None =>
    /\ backup.work \in [Docs -> {"none", "pending", "done"} \cup Honorers]
    /\ backup.spine \subseteq Versions /\ backup.claims \subseteq Versions
    /\ backup.tombstones \subseteq Docs
    /\ backup.rows \in [Versions -> RowStates]
    /\ backup.objects \subseteq Objects /\ backup.snapshots \subseteq Snapshots
    /\ backup.listed \subseteq Objects

(* As long as nothing was restored: a row that runs, uncrossed, was claimed *)
(* before any drain that could lead to an inventory.                       *)
BeforeDrains ==
  /\ \A q \in Callers \cup {Boot} : call[q].pc # "drained"
  /\ \A d \in ActiveForgets : forgets[d].manifest = None

DrainInv ==
  faults.restores = 0 =>
    /\ boot.pc = "up"
    /\ \A v \in Versions, n \in Attempts :
         rows[v] = Running(n) => <<v, n>> \in crossed \/ BeforeDrains

TargetsTyped ==
  \A h \in Honorers \cup {Boot} : honor[h].pc # "idle" => honor[h].doc \in Docs

StoreInv == ForgetInv /\ StoreTypes /\ BackupTypes /\ TargetsTyped

LEMMA FaultTypes ==
  ASSUME StoreTypes, NEW kind \in {"deaths", "restores"}, Fault(kind)
  PROVE  faults' \in [deaths : 0..MaxFaults, restores : 0..MaxFaults]
  BY ForgetAssumption DEF StoreTypes, Fault, FaultsLeft

LEMMA ObjectsTyped ==
  \A v \in Versions : /\ Raw(v) \in Objects
                      /\ \A n \in Attempts : Artifact(v, n) \in Objects /\ Side(v, n) \in Objects
  BY DEF Objects

LEMMA RowsTyped ==
  /\ NotEnqueued \in RowStates /\ Queued \in RowStates /\ Finished \in RowStates
  /\ \A n \in Attempts : Running(n) \in RowStates
  BY DEF RowStates

LEMMA WorkTypes ==
  ASSUME StoreInv,
         \/ \E v \in Versions : IngestNext(v) \/ ReapRow(v)
         \/ \E v \in Versions, n \in Attempts : WorkNext(v, n)
         \/ \E d \in Docs : ReapForget(d)
  PROVE  StoreTypes' /\ BackupTypes' /\ TargetsTyped'
<1> USE DEF intentVars, contentVars, storeVars, driverVars, faultVars, historyVars, StoreInv
<1>1. ASSUME NEW v \in Versions, IngestNext(v) \/ ReapRow(v)
      PROVE  StoreTypes' /\ BackupTypes' /\ TargetsTyped'
  <2>1. /\ UNCHANGED <<work, claims, snapshots, faults, crossed, backup, honor>>
        /\ spine' \in {spine, spine \cup {v}} /\ tombstones' \subseteq tombstones
        /\ objects' \in {objects, objects \cup {Raw(v)}}
        /\ listed' \in {listed, listed \cup {Raw(v)}}
    BY <1>1 DEF IngestNext, GuardIngest, WriteRaw, RecordUpload, UploadDies, ReapRow
  <2>2. \/ rows' = rows
        \/ rows' = [rows EXCEPT ![v] = Queued]
    BY <1>1 DEF IngestNext, GuardIngest, WriteRaw, RecordUpload, UploadDies, ReapRow, StoreTypes
  <2>3. rows' \in [Versions -> RowStates]
    BY <2>2, RowsTyped DEF StoreTypes
  <2> QED
    BY <2>1, <2>3, ObjectsTyped DEF StoreTypes, BackupTypes, TargetsTyped
<1>2. ASSUME NEW v \in Versions, NEW n \in Attempts, WorkNext(v, n)
      PROVE  StoreTypes' /\ BackupTypes' /\ TargetsTyped'
  <2>1. /\ UNCHANGED <<work, spine, tombstones, faults, backup, honor>>
        /\ claims' \in {claims, claims \cup {v}}
        /\ objects' \in {objects, objects \cup {Artifact(v, n), Side(v, n)}}
        /\ listed' \in {listed, listed \cup {Artifact(v, n)}}
        /\ crossed' \in {crossed, crossed \cup {<<v, n>>}}
    BY <1>2 DEF WorkNext, ReadBarrier, ClaimRow, ReadSource, WriteArtifacts,
                RecordRepresentation, PublishExtraction, Project, Complete, AttemptEnds
  <2>2. \/ rows' = rows
        \/ \E r \in {Running(n), Finished, Queued} : rows' = [rows EXCEPT ![v] = r]
    BY <1>2 DEF WorkNext, ReadBarrier, ClaimRow, ReadSource, WriteArtifacts,
                RecordRepresentation, PublishExtraction, Project, Complete, AttemptEnds,
                StoreTypes
  <2>3. rows' \in [Versions -> RowStates]
    BY <2>2, RowsTyped DEF StoreTypes
  <2>4. snapshots' \subseteq Snapshots
    <3>1. \/ snapshots' = snapshots
          \/ snapshots' = snapshots \cup
               {[docs |-> Shown, named |-> {}, late |-> {d \in Shown : Frozen(d)}]}
      BY <1>2 DEF WorkNext, ReadBarrier, ClaimRow, ReadSource, WriteArtifacts,
                  RecordRepresentation, PublishExtraction, Project, Complete, AttemptEnds
    <3>2. [docs |-> Shown, named |-> {}, late |-> {d \in Shown : Frozen(d)}] \in Snapshots
      BY DEF Shown, Snapshots
    <3> QED
      BY <3>1, <3>2 DEF StoreTypes
  <2> QED
    BY <2>1, <2>3, <2>4, ObjectsTyped DEF StoreTypes, BackupTypes, TargetsTyped
<1>3. ASSUME NEW d \in Docs, ReapForget(d) PROVE StoreTypes' /\ BackupTypes' /\ TargetsTyped'
  <2>1. /\ UNCHANGED <<spine, claims, tombstones, rows, objects, snapshots, listed, crossed,
                       backup, honor>>
        /\ work' = [work EXCEPT ![d] = "pending"]
        /\ Fault("deaths") \/ UNCHANGED faults
    BY <1>3 DEF ReapForget
  <2> QED
    BY <2>1, FaultTypes DEF StoreTypes, BackupTypes, TargetsTyped
<1> QED
  BY <1>1, <1>2, <1>3

LEMMA CallTypes ==
  ASSUME StoreInv, NEW q \in Callers \cup {Boot}, CallNext(q)
  PROVE  StoreTypes' /\ BackupTypes'
<1> USE DEF intentVars, contentVars, storeVars, driverVars, faultVars, historyVars, StoreInv
<1>1. UNCHANGED <<spine, claims, tombstones, rows, objects, faults, listed, crossed>>
  BY DEF CallNext, Prepare, Drain, CancelUnstored, InventoryAndStoreManifest, Append,
         AcceptAndEnqueue, CallDies
<1>2. CASE InventoryAndStoreManifest(q)
  <2>1. work' = work /\ call[q].doc \in Docs
    BY <1>2, CallRuns DEF InventoryAndStoreManifest, CallIs
  <2>2. \A kept \in SUBSET Snapshots : NamedBy(call[q].doc, kept) \subseteq Snapshots
    BY <2>1 DEF NamedBy, Snapshots
  <2>3. CASE UNCHANGED <<snapshots, backup>>
    BY <1>1, <2>1, <2>3 DEF StoreTypes, BackupTypes
  <2>4. CASE /\ snapshots' = NamedBy(call[q].doc, snapshots)
             /\ backup' = IF backup = None THEN None
                          ELSE [backup EXCEPT !.snapshots =
                                  (@ \ snapshots) \cup NamedBy(call[q].doc, @ \cap snapshots)]
    <3>1. StoreTypes'
      BY <1>1, <2>1, <2>2, <2>4 DEF StoreTypes
    <3>2. ASSUME backup # None PROVE BackupTypes'
      <4>1. backup' = [backup EXCEPT !.snapshots =
                         (@ \ snapshots) \cup NamedBy(call[q].doc, @ \cap snapshots)]
        BY <2>4, <3>2
      <4>2. backup.snapshots \subseteq Snapshots
        BY <3>2 DEF BackupTypes
      <4>3. NamedBy(call[q].doc, backup.snapshots \cap snapshots) \subseteq Snapshots
        BY <2>2, <4>2
      <4>4. /\ backup'.snapshots = (backup.snapshots \ snapshots)
                 \cup NamedBy(call[q].doc, backup.snapshots \cap snapshots)
            /\ backup'.work = backup.work /\ backup'.spine = backup.spine
            /\ backup'.claims = backup.claims /\ backup'.tombstones = backup.tombstones
            /\ backup'.rows = backup.rows /\ backup'.objects = backup.objects
            /\ backup'.listed = backup.listed
        BY <3>2, <4>1 DEF ForgetInv, Types
      <4> QED
        BY <3>2, <4>2, <4>3, <4>4 DEF BackupTypes
    <3>3. backup = None => BackupTypes'
      BY <2>4 DEF BackupTypes
    <3> QED
      BY <3>1, <3>2, <3>3
  <2> QED
    BY <1>2, <2>3, <2>4 DEF InventoryAndStoreManifest
<1>3. CASE ~InventoryAndStoreManifest(q)
  <2>1. UNCHANGED <<snapshots, backup>>
    BY <1>3 DEF CallNext, Prepare, Drain, CancelUnstored, Append, AcceptAndEnqueue, CallDies
  <2>2. \/ work' = work
        \/ \E d : work' = [work EXCEPT ![d] = IF @ = "none" THEN "pending" ELSE @]
    BY <1>3 DEF CallNext, Prepare, Drain, CancelUnstored, Append, AcceptAndEnqueue, CallDies
  <2>3. work' \in [Docs -> {"none", "pending", "done"} \cup Honorers]
    BY <2>2 DEF StoreTypes
  <2> QED
    BY <1>1, <2>1, <2>3 DEF StoreTypes, BackupTypes
<1> QED
  BY <1>2, <1>3

LEMMA ErasureTypes ==
  ASSUME StoreInv,
         \/ \E h \in Honorers, d \in Docs : ClaimForget(h, d)
         \/ \E h \in Honorers \cup {Boot} : HonorStep(h) \/ HonorDies(h)
  PROVE  StoreTypes' /\ BackupTypes' /\ TargetsTyped'
<1> USE DEF intentVars, contentVars, storeVars, driverVars, faultVars, historyVars, StoreInv
<1>1. ASSUME NEW h \in Honorers, NEW d \in Docs, ClaimForget(h, d)
      PROVE  StoreTypes' /\ BackupTypes' /\ TargetsTyped'
  <2>1. /\ UNCHANGED <<spine, claims, tombstones, rows, objects, snapshots, faults, listed,
                       crossed, backup>>
        /\ work' = [work EXCEPT ![d] = h]
        /\ honor' = [honor EXCEPT ![h] = [pc |-> "delete", doc |-> d,
                                          manifest |-> forgets[d].manifest]]
    BY <1>1 DEF ClaimForget
  <2>2. StoreTypes' /\ BackupTypes'
    BY <2>1 DEF StoreTypes, BackupTypes
  <2>3. TargetsTyped'
    BY <2>1 DEF TargetsTyped, ForgetInv, Types
  <2> QED
    BY <2>2, <2>3
<1>2. ASSUME NEW h \in Honorers \cup {Boot}, HonorStep(h) \/ HonorDies(h)
      PROVE  StoreTypes' /\ BackupTypes' /\ TargetsTyped'
  <2>1. /\ UNCHANGED <<rows, listed, crossed, backup>>
        /\ spine' \subseteq spine /\ claims' \subseteq claims /\ objects' \subseteq objects
        /\ tombstones' \in {tombstones, tombstones \cup {honor[h].doc}}
        /\ honor[h].pc = "idle" => UNCHANGED tombstones
    BY <1>2 DEF HonorStep, DeleteLineage, ScrubPostgres, ScrubRows, PurgeObjects,
                RebuildProjection, PurgeProjections, Verify, MarkComplete, CompleteForget,
                HonorDies, HonorAt, Target
  <2>2. \/ work' = work
        \/ work' = [d \in Docs |-> IF work[d] = h THEN "pending" ELSE work[d]]
        \/ work' = [d \in Docs |-> IF work[d] = h THEN "done" ELSE work[d]]
    BY <1>2 DEF HonorStep, DeleteLineage, ScrubPostgres, PurgeObjects, RebuildProjection,
                PurgeProjections, Verify, MarkComplete, CompleteForget, HonorDies, HonorRaises
  <2>3. work' \in [Docs -> {"none", "pending", "done"} \cup Honorers]
    BY <2>2 DEF StoreTypes
  <2>4. snapshots' \subseteq Snapshots
    <3> DEFINE fresh == [docs |-> Shown, named |-> {},
                         late |-> ShownAgain(h) \cup ShownLate]
    <3>1. snapshots' \subseteq snapshots \/ snapshots' = snapshots \cup {fresh}
      BY <1>2 DEF HonorStep, DeleteLineage, ScrubPostgres, PurgeObjects, RebuildProjection,
                  PurgeProjections, Verify, MarkComplete, CompleteForget, HonorDies
    <3>2. fresh \in Snapshots
      BY DEF Shown, ShownAgain, ShownLate, Snapshots
    <3> QED
      BY <3>1, <3>2 DEF StoreTypes
  <2>5. faults' \in [deaths : 0..MaxFaults, restores : 0..MaxFaults]
    <3>1. faults' = faults \/ Fault("deaths")
      BY <1>2 DEF HonorStep, DeleteLineage, ScrubPostgres, PurgeObjects, RebuildProjection,
                  PurgeProjections, Verify, MarkComplete, CompleteForget, HonorDies
    <3> QED
      BY <3>1, FaultTypes DEF StoreTypes
  <2>6. tombstones' \subseteq Docs
    BY <2>1 DEF StoreTypes, TargetsTyped
  <2>7. StoreTypes' /\ BackupTypes'
    BY <2>1, <2>3, <2>4, <2>5, <2>6 DEF StoreTypes, BackupTypes
  <2>8. \/ honor' = [honor EXCEPT ![h] = NoHonor]
        \/ \E pc : honor[h].pc # "idle" /\ honor' = [honor EXCEPT ![h].pc = pc]
    BY <1>2 DEF HonorStep, DeleteLineage, ScrubPostgres, PurgeObjects, RebuildProjection,
                PurgeProjections, Verify, MarkComplete, CompleteForget, HonorDies,
                HonorRaises, HonorAt, HonorTo
  <2>9. TargetsTyped'
    BY <2>8 DEF TargetsTyped, NoHonor, ForgetInv, Types, HonorType
  <2> QED
    BY <2>7, <2>9
<1> QED
  BY <1>1, <1>2

LEMMA ReadinessTypes ==
  ASSUME StoreInv, BootNext \/ TakeBackup
  PROVE  StoreTypes' /\ BackupTypes' /\ TargetsTyped'
<1> USE DEF intentVars, contentVars, storeVars, driverVars, faultVars, historyVars, StoreInv
<1>1. UNCHANGED <<work, spine, claims, tombstones, rows, objects, snapshots, faults, listed,
                  crossed>>
  BY DEF BootNext, BootRequest, BootRaises, BootEnumerate, Materialize, BootHonored,
         BootServes, TakeBackup
<1>2. BackupTypes'
  <2>1. CASE BootNext
    <3>1. backup' = backup
      BY <2>1 DEF BootNext, BootRequest, BootRaises, BootEnumerate, Materialize, BootHonored,
                  BootServes
    <3> QED
      BY <3>1 DEF BackupTypes
  <2>2. CASE TakeBackup
    BY <2>2 DEF TakeBackup, Copy, StoreTypes, BackupTypes
  <2> QED
    BY <2>1, <2>2
<1>3. \/ honor' = honor
      \/ honor' = [honor EXCEPT ![Boot] = NoHonor]
      \/ \E d \in Docs : honor' = [honor EXCEPT ![Boot] = [pc |-> "delete", doc |-> d,
                                                            manifest |-> portable[d]]]
  BY DEF BootNext, BootRequest, BootRaises, BootEnumerate, Materialize, BootHonored,
         BootServes, TakeBackup
<1>4. TargetsTyped'
  BY <1>3 DEF TargetsTyped, NoHonor, ForgetInv, Types
<1> QED
  BY <1>1, <1>2, <1>4 DEF StoreTypes

LEMMA RestoreTypes ==
  ASSUME StoreInv, NEW lost \in Losses, Restore(lost)
  PROVE  StoreTypes' /\ BackupTypes' /\ TargetsTyped'
<1> USE DEF StoreInv
<1>1. /\ backup # None /\ Fault("restores") /\ UNCHANGED <<backup, crossed, portable>>
      /\ honor' = [h \in Honorers \cup {Boot} |-> NoHonor]
  BY DEF Restore
<1>2. \/ /\ work' = work /\ spine' = spine /\ tombstones' = tombstones /\ claims' = claims
         /\ rows' = rows
         /\ listed' = listed \cup UNION {portable[d].objects : d \in ManifestsKept}
      \/ /\ work' = backup.work /\ spine' = backup.spine /\ tombstones' = backup.tombstones
         /\ claims' = backup.claims /\ rows' = backup.rows
         /\ listed' = backup.listed \cup UNION {portable[d].objects : d \in ManifestsKept}
  BY DEF Restore, Copy
<1>3. objects' \in {objects, backup.objects} /\ snapshots' \in {snapshots, backup.snapshots}
  BY DEF Restore, Copy
<1>4. \A d \in ManifestsKept : portable[d].objects \subseteq Objects
  BY DEF ManifestsKept, ForgetInv, Types, Manifests
<1>5. StoreTypes'
  BY <1>1, <1>2, <1>3, <1>4, FaultTypes DEF StoreTypes, BackupTypes
<1>6. BackupTypes' /\ TargetsTyped'
  BY <1>1 DEF BackupTypes, TargetsTyped, NoHonor
<1> QED
  BY <1>5, <1>6

LEMMA StoreStep ==
  ASSUME StoreInv, [Next]_vars
  PROVE  StoreInv'
<1>1. ForgetInv'
  BY NextForget DEF StoreInv
<1>2. StoreTypes' /\ BackupTypes' /\ TargetsTyped'
  <2>1. CASE UNCHANGED vars
    BY <2>1 DEF StoreInv, StoreTypes, BackupTypes, TargetsTyped, vars, intentVars, contentVars,
                storeVars, driverVars, faultVars, historyVars
  <2>2. CASE \/ \E v \in Versions : IngestNext(v) \/ ReapRow(v)
             \/ \E v \in Versions, n \in Attempts : WorkNext(v, n)
             \/ \E d \in Docs : ReapForget(d)
    BY <2>2, WorkTypes
  <2>3. ASSUME NEW q \in Callers \cup {Boot}, CallNext(q)
        PROVE  StoreTypes' /\ BackupTypes' /\ TargetsTyped'
    <3>1. honor' = honor
      BY <2>3 DEF CallNext, Prepare, Drain, CancelUnstored, InventoryAndStoreManifest, Append,
                  AcceptAndEnqueue, CallDies
    <3> QED
      BY <2>3, <3>1, CallTypes DEF StoreInv, TargetsTyped
  <2> QED
    BY <2>1, <2>2, <2>3, ErasureTypes, ReadinessTypes, RestoreTypes DEF Next
<1> QED
  BY <1>1, <1>2 DEF StoreInv

LEMMA DrainStaysGood ==
  ASSUME StoreInv, DrainInv, [Next]_vars
  PROVE  DrainInv'
<1> USE DEF intentVars, contentVars, storeVars, driverVars, faultVars, historyVars
<1> DEFINE Goal == /\ boot'.pc = "up"
                   /\ \A v \in Versions, n \in Attempts : rows'[v] = Running(n) =>
                        <<v, n>> \in crossed' \/ BeforeDrains'
<1> SUFFICES ASSUME faults'.restores = 0
             PROVE  Goal
  BY DEF DrainInv
<1>1. ForgetInv /\ StoreTypes
  BY DEF StoreInv
<1>2. ASSUME faults.restores = 0, boot' = boot, UNCHANGED <<rows, crossed>>,
             ASSUME BeforeDrains, NEW v \in Versions, NEW n \in Attempts,
                    rows[v] = Running(n)
             PROVE  BeforeDrains'
      PROVE  Goal
  BY <1>2 DEF DrainInv
<1>3. ASSUME UNCHANGED <<faults, boot, forgets, call>>,
             \A v \in Versions, n \in Attempts :
               rows'[v] = Running(n) => rows[v] = Running(n) \/ <<v, n>> \in crossed'
                                          \/ BeforeDrains,
             crossed \subseteq crossed'
      PROVE  Goal
  BY <1>3 DEF DrainInv, BeforeDrains, ActiveForgets, Status
<1>4. CASE UNCHANGED vars
  BY <1>3, <1>4 DEF vars
<1>5. ASSUME NEW v \in Versions, IngestNext(v)
      PROVE  Goal
  <2>1. UNCHANGED <<faults, boot, forgets, call, crossed>>
    BY <1>5 DEF IngestNext, GuardIngest, WriteRaw, RecordUpload, UploadDies
  <2>2. rows' = rows \/ (rows' = [rows EXCEPT ![v] = IF @ = NotEnqueued THEN Queued ELSE @])
    BY <1>5 DEF IngestNext, GuardIngest, WriteRaw, RecordUpload, UploadDies
  <2>3. \A w \in Versions, n \in Attempts : rows'[w] = Running(n) => rows[w] = Running(n)
    BY <1>1, <2>2 DEF StoreTypes, Running, Queued
  <2> QED
    BY <1>3, <2>1, <2>3
<1>6. ASSUME NEW v \in Versions, ReapRow(v)
      PROVE  Goal
  <2>1. UNCHANGED <<faults, boot, forgets, call, crossed>>
    BY <1>6 DEF ReapRow
  <2>2. \A w \in Versions, n \in Attempts : rows'[w] = Running(n) => rows[w] = Running(n)
    BY <1>1, <1>6 DEF ReapRow, StoreTypes, Running, Queued
  <2> QED
    BY <1>3, <2>1, <2>2
<1>7. ASSUME NEW v \in Versions, NEW n \in Attempts, WorkNext(v, n)
      PROVE  Goal
  <2>1. UNCHANGED <<faults, boot, forgets, call>> /\ crossed \subseteq crossed'
    BY <1>7 DEF WorkNext, ReadBarrier, ClaimRow, ReadSource, WriteArtifacts,
                RecordRepresentation, PublishExtraction, Project, Complete, AttemptEnds
  <2>2. CASE ClaimRow(v, n)
    <3>1. /\ rows' = [rows EXCEPT ![v] = Running(n)]
          /\ <<v, n>> \in crossed' \/ BeforeDrains
      BY <2>2 DEF ClaimRow, BeforeDrains, Available
    <3>2. \A w \in Versions, m \in Attempts :
            rows'[w] = Running(m) => rows[w] = Running(m) \/ (w = v /\ m = n)
      BY <1>1, <3>1 DEF StoreTypes, Running
    <3> QED
      BY <1>3, <2>1, <3>1, <3>2
  <2>3. CASE ~ClaimRow(v, n)
    <3>1. \/ rows' = rows
          \/ \E r \in {Finished, Queued} : rows' = [rows EXCEPT ![v] = r]
      BY <1>1, <1>7, <2>3 DEF WorkNext, ReadBarrier, ReadSource, WriteArtifacts, StoreTypes,
                         RecordRepresentation, PublishExtraction, Project, Complete, AttemptEnds
    <3>2. \A w \in Versions, m \in Attempts : rows'[w] = Running(m) => rows[w] = Running(m)
      BY <1>1, <3>1 DEF StoreTypes, Running, Queued, Finished
    <3> QED
      BY <1>3, <2>1, <3>2
  <2> QED
    BY <2>2, <2>3
<1>8. ASSUME NEW q \in Callers \cup {Boot}, CallNext(q)
      PROVE  Goal
  <2>1. UNCHANGED <<faults, boot, rows, crossed>>
    BY <1>8 DEF CallNext, Prepare, Drain, CancelUnstored, InventoryAndStoreManifest, Append,
                AcceptAndEnqueue, CallDies
  <2>2. ASSUME BeforeDrains, NEW v \in Versions, NEW n \in Attempts, rows[v] = Running(n)
        PROVE  BeforeDrains'
    <3>1. ~InventoryAndStoreManifest(q) /\ ~CancelUnstored(q)
      BY <2>2 DEF InventoryAndStoreManifest, CancelUnstored, CallIs, BeforeDrains
    <3>2. ~Drained
      BY <2>2 DEF Drained
    <3>3. \A r \in Callers \cup {Boot} : call'[r].pc # "drained"
      <4>1. CASE \E d \in Docs : Prepare(q, d)
        BY <1>1, <2>2, <4>1 DEF Prepare, Continue, ContinueAt, CallOver, NoCall, BeforeDrains,
                                ForgetInv, Types
      <4>2. CASE Drain(q) \/ CallDies(q)
        BY <1>1, <2>2, <3>2, <4>2 DEF Drain, CallDies, CallOver, NoCall, BeforeDrains,
                                      ForgetInv, Types
      <4>3. CASE Append(q) \/ AcceptAndEnqueue(q)
        BY <1>1, <2>2, <4>3 DEF Append, AcceptAndEnqueue, Return, CallTo, CallOver, NoCall,
                                BeforeDrains, ForgetInv, Types, CallType
      <4> QED
        BY <1>8, <3>1, <4>1, <4>2, <4>3 DEF CallNext
    <3>4. \A d \in ActiveForgets' : forgets'[d].manifest = None
      <4>1. CASE UNCHANGED forgets
        BY <2>2, <4>1 DEF BeforeDrains, ActiveForgets, Status
      <4>2. ASSUME NEW d \in Docs, Prepare(q, d), ~UNCHANGED forgets
            PROVE  \A e \in ActiveForgets' : forgets'[e].manifest = None
        <5>1. /\ Status(d) = "none"
              /\ forgets' = [forgets EXCEPT ![d].status = "preparing"]
          BY <4>2 DEF Prepare
        <5>2. forgets[d].manifest = None
          BY <1>1, <5>1 DEF ForgetInv, RowsSound, Sound, Status
        <5> QED
          BY <1>1, <2>2, <5>1, <5>2 DEF BeforeDrains, ActiveForgets, Status, ForgetInv, Types
      <4>3. CASE AcceptAndEnqueue(q)
        <5>1. /\ call[q].pc = "appended" /\ call[q].doc \in Docs
              /\ forgets[call[q].doc].manifest # None
          BY <1>1, <4>3 DEF AcceptAndEnqueue, CallIs, ForgetInv, CallInv
        <5>2. forgets[call[q].doc].status # "none" /\ call[q].doc \notin ActiveForgets
          BY <1>1, <2>2, <5>1 DEF BeforeDrains, ForgetInv, RowsSound, Sound
        <5>3. forgets[call[q].doc].status = "complete"
          BY <5>1, <5>2 DEF ActiveForgets, Status
        <5>4. UNCHANGED forgets \/
              forgets' = [forgets EXCEPT ![call[q].doc].status =
                            IF @ = "complete" THEN @ ELSE "accepted"]
          BY <4>3 DEF AcceptAndEnqueue
        <5>5. \A d \in Docs : /\ forgets'[d].status = forgets[d].status
                              /\ forgets'[d].manifest = forgets[d].manifest
          BY <1>1, <5>1, <5>3, <5>4 DEF ForgetInv, Types, RowType
        <5> QED
          BY <2>2, <5>5 DEF BeforeDrains, ActiveForgets, Status
      <4>4. CASE Drain(q) \/ Append(q) \/ CallDies(q)
        BY <4>1, <4>4 DEF Drain, Append, CallDies
      <4> QED
        BY <1>8, <3>1, <4>1, <4>2, <4>3, <4>4 DEF CallNext
    <3> QED
      BY <3>3, <3>4 DEF BeforeDrains
  <2> QED
    BY <1>2, <2>1, <2>2
<1>9. ASSUME NEW h \in Honorers, NEW d \in Docs, ClaimForget(h, d)
      PROVE  Goal
  BY <1>3, <1>9 DEF ClaimForget
<1>10. ASSUME NEW h \in Honorers \cup {Boot}, HonorStep(h) \/ HonorDies(h)
       PROVE  Goal
  <2>1. UNCHANGED <<rows, crossed, call>>
    BY <1>10 DEF HonorStep, DeleteLineage, ScrubPostgres, PurgeObjects, RebuildProjection,
                 PurgeProjections, Verify, MarkComplete, CompleteForget, HonorDies
  <2>2. faults' = faults \/ Fault("deaths")
    BY <1>10 DEF HonorStep, DeleteLineage, ScrubPostgres, PurgeObjects, RebuildProjection,
                 PurgeProjections, Verify, MarkComplete, CompleteForget, HonorDies
  <2>3. faults.restores = 0 /\ boot.pc = "up"
    BY <1>1, <2>2 DEF Fault, StoreTypes, DrainInv
  <2>4. boot' = boot
    <3>1. honor[Boot].pc = "idle"
      BY <1>1, <2>3 DEF ForgetInv, BootInv
    <3>2. h = Boot => ~HonorStep(h) /\ ~HonorDies(h)
      BY <3>1 DEF HonorStep, DeleteLineage, ScrubPostgres, PurgeObjects, RebuildProjection,
                  PurgeProjections, Verify, MarkComplete, CompleteForget, HonorDies, HonorAt
    <3>3. h # Boot
      BY <1>10, <3>2
    <3> QED
      BY <1>10, <3>3 DEF HonorStep, DeleteLineage, ScrubPostgres, PurgeObjects,
                         RebuildProjection, PurgeProjections, Verify, MarkComplete,
                         CompleteForget, HonorDies, HonorRaises
  <2>5. \/ UNCHANGED forgets
        \/ \E d : forgets' = [forgets EXCEPT ![d].status = "complete"]
    BY <1>10 DEF HonorStep, DeleteLineage, ScrubPostgres, PurgeObjects, RebuildProjection,
                 PurgeProjections, Verify, MarkComplete, CompleteForget, HonorDies
  <2>6. \A d \in Docs : /\ forgets'[d].manifest = forgets[d].manifest
                        /\ forgets'[d].status \in {forgets[d].status, "complete"}
    BY <1>1, <2>5 DEF ForgetInv, Types, RowType
  <2>7. BeforeDrains => BeforeDrains'
    BY <2>1, <2>6 DEF BeforeDrains, ActiveForgets, Status
  <2> QED
    BY <1>2, <2>1, <2>3, <2>4, <2>7
<1>11. ASSUME NEW d \in Docs, ReapForget(d)
       PROVE  Goal
  <2>1. UNCHANGED <<rows, crossed, call, boot, forgets>> /\ (Fault("deaths") \/ UNCHANGED faults)
    BY <1>11 DEF ReapForget
  <2>2. faults.restores = 0
    BY <1>1, <2>1 DEF Fault, StoreTypes
  <2>3. BeforeDrains => BeforeDrains'
    BY <2>1 DEF BeforeDrains, ActiveForgets, Status
  <2> QED
    BY <1>2, <2>1, <2>2, <2>3
<1>12. ~BootNext
  <2>1. BootNext => faults' = faults
    BY DEF BootNext, BootRequest, BootRaises, BootEnumerate, Materialize, BootHonored,
           BootServes
  <2>2. BootNext => boot.pc # "up"
    BY DEF BootNext, BootRequest, BootRaises, BootEnumerate, Materialize, BootHonored,
           BootServes
  <2> QED
    BY <2>1, <2>2 DEF DrainInv
<1>13. CASE TakeBackup
  BY <1>3, <1>13 DEF TakeBackup
<1>14. ~\E lost \in Losses : Restore(lost)
  <2>1. ASSUME NEW lost \in Losses, Restore(lost) PROVE FALSE
    <3>1. faults'.restores = faults.restores + 1 /\ faults.restores \in 0..MaxFaults
      BY <1>1, <2>1 DEF Restore, Fault, StoreTypes
    <3> QED
      BY <3>1, ForgetAssumption
  <2> QED
    BY <2>1
<1> QED
  BY <1>4, <1>5, <1>6, <1>7, <1>8, <1>9, <1>10, <1>11, <1>12, <1>13, <1>14 DEF Next

-----------------------------------------------------------------------------
(* The theorems.                                                           *)

LEMMA InitStores == Init => StoreInv /\ DrainInv
<1> SUFFICES ASSUME Init PROVE StoreInv /\ DrainInv
  OBVIOUS
<1>1. StoreTypes
  BY ForgetAssumption, RowsTyped DEF Init, StoreTypes
<1>2. BackupTypes /\ TargetsTyped
  BY DEF Init, BackupTypes, TargetsTyped, NoHonor
<1>3. DrainInv
  BY DEF Init, DrainInv, Running, NotEnqueued
<1> QED
  BY <1>1, <1>2, <1>3, InitForget DEF StoreInv

LEMMA NextStores == StoreInv /\ DrainInv /\ [Next]_vars => (StoreInv /\ DrainInv)'
<1> SUFFICES ASSUME StoreInv, DrainInv, [Next]_vars PROVE StoreInv' /\ DrainInv'
  OBVIOUS
<1> QED
  BY StoreStep, DrainStaysGood

(* Every reachable state has sound rows, calls whose knowledge is true, a  *)
(* readiness step that serves only when all it kept is honoured, and no    *)
(* drain that a running row belies.                                        *)
THEOREM ForgetInvariant == Spec => [](StoreInv /\ DrainInv)
<1> QED
  BY InitStores, NextStores, PTL DEF Spec

(* Accepted intent is in the manifest store, unchanged, whatever restores  *)
(* took back, and a deployment serves only with all of it materialised:    *)
(* HardForgetService.request appends before it accepts, and ensure_ready   *)
(* materialises every portable manifest.                                   *)
THEOREM IntentStays == Spec => []IntentIsDurable
<1>1. ForgetInv => IntentIsDurable
  <2> SUFFICES ASSUME ForgetInv, NEW d \in Docs
               PROVE  /\ Status(d) \in {"accepted", "complete"} =>
                           portable[d] = forgets[d].manifest
                      /\ Serving /\ portable[d] # None => Status(d) # "none"
    BY DEF IntentIsDurable
  <2> QED
    BY DEF ForgetInv, RowsSound, Sound, BootInv, Settled, Status, Serving
<1>2. StoreInv => ForgetInv
  BY DEF StoreInv
<1> QED
  BY <1>1, <1>2, ForgetInvariant, PTL

(* While the deployment serves, a lineage whose inventory is stored gets no *)
(* claim that the inventory does not list: extractions are published under *)
(* the lock under which the barrier is raised.                             *)
THEOREM CutHolds == Spec => []NoClaimAfterTheCut
<1>1. StoreInv => NoClaimAfterTheCut
  BY DEF StoreInv, ForgetInv
<1> QED
  BY <1>1, ForgetInvariant, PTL

(* Every store holds what the model says it may, an accepted row has its   *)
(* manifest, and erasures and restores stay within their bound.            *)
THEOREM TypeCorrect == Spec => []TypeOK
<1>1. StoreInv => TypeOK
  BY DEF StoreInv, ForgetInv, Types, StoreTypes, TypeOK, RowType, RowsSound, Sound, Settled,
         Status
<1> QED
  BY <1>1, ForgetInvariant, PTL

(* Before the first restore, ordinary work that runs beside a stored       *)
(* inventory read the barrier before it was raised, or was claimed after   *)
(* a drain that another call's cancellation had voided: claim_one reads    *)
(* the barrier without its lock, and request drains before it inventories. *)
THEOREM DrainHolds == Spec => []DrainedBeforeTheCut
<1>1. StoreInv /\ DrainInv => DrainedBeforeTheCut
  <2> SUFFICES ASSUME StoreInv, DrainInv, NEW d \in ActiveForgets,
                      forgets[d].manifest # None, faults.restores = 0,
                      NEW v \in Versions, NEW n \in Attempts, rows[v] = Running(n)
               PROVE  <<v, n>> \in crossed
    BY DEF DrainedBeforeTheCut
  <2> QED
    BY DEF DrainInv, BeforeDrains
<1> QED
  BY <1>1, ForgetInvariant, PTL

-----------------------------------------------------------------------------
(* Erasure: what a forgotten lineage leaves behind.                        *)

(* Attempts run once, so an attempt's artifacts are listed only after it   *)
(* has written them.                                                       *)
AttemptTyped ==
  attempt \in [Versions -> [Attempts -> {"none", "checked", "claimed", "read", "written",
                                          "published", "extracted", "projected", "over"}]]
Written(v, n) == attempt[v][n] \in {"published", "extracted", "projected", "over"}
ObjectsOf(d)  == {o \in Objects : LineageOf[o[2]] = d}

(* What rows and manifests name is listed, under its own lineage.          *)
NamedIn(table, sp, rp, li) ==
  /\ \A v \in sp : Raw(v) \in li
  /\ \A r \in rp : Artifact(r[1], r[2]) \in li
  /\ \A d \in Docs : table[d].manifest # None =>
       table[d].manifest.objects \subseteq li \cap ObjectsOf(d)

ListedInv ==
  /\ \A v \in Versions, n \in Attempts :
       /\ Side(v, n) \notin listed
       /\ Artifact(v, n) \in listed => Written(v, n)
  /\ NamedIn(forgets, spine, reps, listed)
  /\ \A d \in Docs : portable[d] # None => portable[d].objects \subseteq listed \cap ObjectsOf(d)
  /\ backup # None =>
       /\ NamedIn(backup.forgets, backup.spine, backup.reps, backup.listed)
       /\ backup.listed \subseteq listed
       /\ \A d \in Docs : backup.forgets[d].manifest # None => forgets[d].manifest # None

(* What is listed of a lineage is what its manifest names, or an inventory *)
(* would, but for what was written late.                                   *)
NominatedIn(sp, rp, d) ==
  {Raw(v) : v \in VersionsOf(d) \cap sp}
    \cup {Artifact(r[1], r[2]) : r \in {r \in rp : LineageOf[r[1]] = d}}
CoveredIn(table, sp, rp, d) ==
  IF portable[d] # None THEN portable[d].objects
  ELSE IF table[d].manifest # None THEN table[d].manifest.objects
  ELSE NominatedIn(sp, rp, d)

CoverInv ==
  \A d \in Docs :
    /\ listed \cap ObjectsOf(d) \subseteq CoveredIn(forgets, spine, reps, d) \cup late
    /\ backup # None =>
         backup.listed \cap ObjectsOf(d) \subseteq
           CoveredIn(backup.forgets, backup.spine, backup.reps, d) \cup late

(* A snapshot that shows a frozen lineage is named by its manifest, or was *)
(* purged for another lineage and came back with a restore: then readiness *)
(* has still to honour that one.                                           *)
Outstanding(e) ==
  \/ boot.pc \in {"start", "request"} /\ portable[e] # None
  \/ boot.pc = "honor" /\ e \in boot.todo

Shows(s, d) == d \in s.late \/ d \in s.named \/ \E e \in s.named : Outstanding(e)

SnapInv ==
  /\ \A s \in snapshots : \A d \in s.docs : Frozen(d) => Shows(s, d)
  /\ backup # None => \A s \in backup.snapshots :
       s \in snapshots \/ \E e \in s.named : portable[e] # None

(* A hard_forget row is one of an accepted forget.                         *)
WorkInv ==
  \A d \in Docs :
    /\ work[d] # "none" => forgets[d].status \in Settled
    /\ backup # None /\ backup.work[d] # "none" => backup.forgets[d].status \in Settled

RowsLate(d) ==
  /\ \A v \in spine \cap VersionsOf(d) : VersionRow(v) \in late
  /\ \A r \in reps : LineageOf[r[1]] = d => Rep(r[1], r[2]) \in late
  /\ \A v \in claims \cap VersionsOf(d) : Claim(v) \in late
ObjectsLate(d) == objects \cap listed \cap ObjectsOf(d) \subseteq late
Purged(d) == \A s \in snapshots : d \notin s.named
Gone(d) == ObjectsLate(d) /\ RowsLate(d) /\ Purged(d)

(* How far an erasure has come.                                            *)
HonorInv(h) ==
  LET d == honor[h].doc IN
  honor[h].pc # "idle" =>
    /\ d \in Docs /\ forgets[d].status \in Settled
    /\ forgets[d].manifest = honor[h].manifest
    /\ honor[h].pc \notin {"delete", "scrub"} => RowsLate(d)
    /\ honor[h].pc \in {"complete", "done"} => Gone(d)

GoneInv ==
  \A d \in Docs :
    /\ boot.pc = "up" /\ forgets[d].status = "complete" => Gone(d)
    /\ boot.pc = "honor" /\ portable[d] # None /\ d \notin boot.todo => Gone(d)

HonorsSound == \A h \in Honorers \cup {Boot} : HonorInv(h)

EraseInv ==
  AttemptTyped /\ ListedInv /\ CoverInv /\ SnapInv /\ WorkInv /\ HonorsSound /\ GoneInv

-----------------------------------------------------------------------------
(* Every step but a backup and a restore moves the stores on.              *)

WrittenStays == \A v \in Versions, n \in Attempts : Written(v, n) => Written(v, n)'

ManifestsMove ==
  \A d \in Docs :
    /\ forgets[d].manifest # None => forgets'[d].manifest = forgets[d].manifest
    /\ forgets[d].manifest = None /\ forgets'[d].manifest # None =>
         \/ portable[d] # None /\ forgets'[d].manifest = portable[d]
         \/ forgets'[d].manifest.objects = NominatedIn(spine, reps, d) /\ listed' = listed
    /\ portable'[d] # portable[d] =>
         portable[d] = None /\ forgets[d].manifest # None /\ portable'[d] = forgets[d].manifest
    /\ forgets[d].status \in Settled => forgets'[d].status \in Settled
    /\ work'[d] # "none" => work[d] # "none" \/ forgets'[d].status \in Settled

RowsMove ==
  /\ \A v \in spine' \ spine :
       Raw(v) \in listed' /\ (Frozen(LineageOf[v]) => VersionRow(v) \in late')
  /\ \A v \in spine \ spine' : forgets[LineageOf[v]].manifest # None
  /\ \A r \in reps' \ reps : /\ Artifact(r[1], r[2]) \in listed'
                             /\ Frozen(LineageOf[r[1]]) => Rep(r[1], r[2]) \in late'
  /\ \A r \in reps \ reps' : forgets[LineageOf[r[1]]].manifest # None
  /\ \A v \in claims' \ claims : Frozen(LineageOf[v]) => Claim(v) \in late'

ListMoves ==
  /\ listed \subseteq listed' /\ late \subseteq late'
  /\ \A o \in listed' \ listed : Frozen(LineageOf[o[2]]) => o \in late'
  /\ \A v \in Versions : Raw(v) \in listed' \ listed => v \in spine'
  /\ \A v \in Versions, n \in Attempts :
       /\ Side(v, n) \in listed' => Side(v, n) \in listed
       /\ Artifact(v, n) \in listed' \ listed => <<v, n>> \in reps' /\ Written(v, n)'

ObjectsMove == \A o \in (objects' \ objects) \cap listed' : Frozen(LineageOf[o[2]]) => o \in late'

StoresMove == WrittenStays /\ ManifestsMove /\ RowsMove /\ ListMoves /\ ObjectsMove /\ BackupKept

LEMMA ObjectParts ==
  ASSUME NEW v \in Versions, NEW n \in Attempts
  PROVE  /\ Raw(v) \in Objects /\ Artifact(v, n) \in Objects /\ Side(v, n) \in Objects
         /\ Raw(v)[2] = v /\ Artifact(v, n)[2] = v /\ Side(v, n)[2] = v
<1>1. Raw(v)[2] = v /\ Artifact(v, n)[2] = v /\ Side(v, n)[2] = v
  BY DEF Raw, Artifact, Side
<1> QED
  BY <1>1 DEF Objects

LEMMA ObjectKinds ==
  ASSUME NEW v, NEW n, NEW w, NEW m
  PROVE  /\ Raw(v) # Artifact(w, m) /\ Raw(v) # Side(w, m) /\ Artifact(v, n) # Side(w, m)
         /\ Raw(v) = Raw(w) => v = w
         /\ Artifact(v, n) = Artifact(w, m) => v = w /\ n = m
         /\ Side(v, n) = Side(w, m) => v = w /\ n = m
<1>1. "raw" # "artifact" /\ "raw" # "side" /\ "artifact" # "side"
  OBVIOUS
<1> QED
  BY <1>1 DEF Raw, Artifact, Side

LEMMA NominatedAre ==
  ASSUME NEW sp, sp \subseteq Versions, NEW rp, rp \subseteq Reps, NEW d \in Docs
  PROVE  /\ NominatedIn(sp, rp, d) \subseteq ObjectsOf(d)
         /\ \A v \in sp : LineageOf[v] = d => Raw(v) \in NominatedIn(sp, rp, d)
         /\ \A r \in rp : LineageOf[r[1]] = d => Artifact(r[1], r[2]) \in NominatedIn(sp, rp, d)
         /\ \A li : /\ \A v \in sp : Raw(v) \in li
                    /\ \A r \in rp : Artifact(r[1], r[2]) \in li
                    => NominatedIn(sp, rp, d) \subseteq li
<1>1. \A r \in rp : r[1] \in Versions /\ r[2] \in Attempts
  BY DEF Reps
<1>2. \A v \in VersionsOf(d) \cap sp : Raw(v) \in ObjectsOf(d)
  <2> TAKE v \in VersionsOf(d) \cap sp
  <2>1. v \in Versions /\ LineageOf[v] = d
    BY DEF VersionsOf
  <2>2. Raw(v)[2] = v /\ Raw(v) \in Objects
    BY <2>1 DEF Raw, Objects
  <2> QED
    BY <2>1, <2>2 DEF ObjectsOf
<1>3. \A r \in rp : LineageOf[r[1]] = d => Artifact(r[1], r[2]) \in ObjectsOf(d)
  BY <1>1, ObjectParts DEF ObjectsOf
<1>4. \A o \in NominatedIn(sp, rp, d) :
        \/ \E v \in VersionsOf(d) \cap sp : o = Raw(v)
        \/ \E r \in rp : LineageOf[r[1]] = d /\ o = Artifact(r[1], r[2])
  BY DEF NominatedIn
<1>5. \A v \in sp : LineageOf[v] = d => Raw(v) \in NominatedIn(sp, rp, d)
  BY DEF NominatedIn, VersionsOf
<1>6. \A r \in rp : LineageOf[r[1]] = d => Artifact(r[1], r[2]) \in NominatedIn(sp, rp, d)
  BY DEF NominatedIn
<1> QED
  BY <1>2, <1>3, <1>4, <1>5, <1>6

LEMMA BackupFields ==
  ASSUME StoreInv, BackupKept, backup' # None
  PROVE  /\ backup # None
         /\ backup'.forgets = backup.forgets /\ backup'.work = backup.work
         /\ backup'.spine = backup.spine /\ backup'.reps = backup.reps
         /\ backup'.listed = backup.listed
  BY DEF BackupKept, StoreInv, ForgetInv, Types

LEMMA ListedKept ==
  ASSUME StoreInv, StoreInv', ListedInv, StoresMove
  PROVE  ListedInv'
<1>1. ASSUME NEW v \in Versions, NEW n \in Attempts
      PROVE  Side(v, n) \notin listed' /\ (Artifact(v, n) \in listed' => Written(v, n)')
  BY <1>1 DEF ListedInv, StoresMove, ListMoves, WrittenStays
<1>2. NamedIn(forgets, spine, reps, listed)'
  <2>1. \A v \in spine' : Raw(v) \in listed'
    BY DEF ListedInv, NamedIn, StoresMove, RowsMove, ListMoves
  <2>2. \A r \in reps' : Artifact(r[1], r[2]) \in listed'
    BY DEF ListedInv, NamedIn, StoresMove, RowsMove, ListMoves
  <2>3. ASSUME NEW d \in Docs, forgets'[d].manifest # None
        PROVE  forgets'[d].manifest.objects \subseteq listed' \cap ObjectsOf(d)
    <3>1. listed \subseteq listed'
      BY DEF StoresMove, ListMoves
    <3>2. CASE forgets[d].manifest # None
      BY <3>1, <3>2 DEF ListedInv, NamedIn, StoresMove, ManifestsMove
    <3>3. CASE portable[d] # None /\ forgets'[d].manifest = portable[d]
      BY <3>1, <3>3 DEF ListedInv
    <3>4. CASE forgets'[d].manifest.objects = NominatedIn(spine, reps, d)
      <4>1. spine \subseteq Versions /\ reps \subseteq Reps
        BY DEF StoreInv, StoreTypes, ForgetInv, Types
      <4>2. NominatedIn(spine, reps, d) \subseteq listed \cap ObjectsOf(d)
        BY <4>1, NominatedAre DEF ListedInv, NamedIn
      <4> QED
        BY <3>1, <3>4, <4>2
    <3> QED
      BY <2>3, <3>2, <3>3, <3>4 DEF StoresMove, ManifestsMove
  <2> QED
    BY <2>1, <2>2, <2>3 DEF NamedIn
<1>3. ASSUME NEW d \in Docs, portable'[d] # None
      PROVE  portable'[d].objects \subseteq listed' \cap ObjectsOf(d)
  BY <1>3 DEF ListedInv, NamedIn, StoresMove, ManifestsMove, ListMoves
<1>4. ASSUME backup' # None
      PROVE  /\ NamedIn(backup.forgets, backup.spine, backup.reps, backup.listed)'
             /\ backup'.listed \subseteq listed'
             /\ \A d \in Docs : backup'.forgets[d].manifest # None => forgets'[d].manifest # None
  <2>1. /\ backup # None
        /\ backup'.forgets = backup.forgets /\ backup'.spine = backup.spine
        /\ backup'.reps = backup.reps /\ backup'.listed = backup.listed
    BY <1>4, BackupFields DEF StoresMove
  <2>2. NamedIn(backup.forgets, backup.spine, backup.reps, backup.listed)'
    BY <2>1 DEF ListedInv, NamedIn
  <2>3. \A d \in Docs : forgets[d].manifest # None => forgets'[d].manifest # None
    BY DEF StoresMove, ManifestsMove
  <2> QED
    BY <2>1, <2>2, <2>3 DEF ListedInv, StoresMove, ListMoves
<1> QED
  BY <1>1, <1>2, <1>3, <1>4 DEF ListedInv

LEMMA CoverKept ==
  ASSUME StoreInv, StoreInv', ListedInv, CoverInv, StoresMove
  PROVE  CoverInv'
<1> SUFFICES ASSUME NEW d \in Docs
             PROVE  /\ listed' \cap ObjectsOf(d) \subseteq
                         CoveredIn(forgets, spine, reps, d)' \cup late'
                    /\ backup' # None =>
                         backup'.listed \cap ObjectsOf(d) \subseteq
                           CoveredIn(backup.forgets, backup.spine, backup.reps, d)' \cup late'
  BY DEF CoverInv
<1>1. listed \subseteq listed' /\ late \subseteq late'
  BY DEF StoresMove, ListMoves
<1>2. /\ spine \subseteq Versions /\ reps \subseteq Reps
      /\ spine' \subseteq Versions /\ reps' \subseteq Reps
      /\ listed' \subseteq Objects
  BY DEF StoreInv, StoreTypes, ForgetInv, Types
<1>3. CASE portable[d] # None
  <2>1. portable'[d] = portable[d] /\ portable'[d] # None
    BY <1>3 DEF StoresMove, ManifestsMove
  <2>2. listed \cap ObjectsOf(d) \subseteq portable[d].objects \cup late
    BY <1>3 DEF CoverInv, CoveredIn
  <2>3. \A o \in listed' \cap ObjectsOf(d) : o \in listed \/ o \in late'
    BY <1>3 DEF StoresMove, ListMoves, Frozen, ObjectsOf
  <2>4. listed' \cap ObjectsOf(d) \subseteq portable'[d].objects \cup late'
    BY <1>1, <2>1, <2>2, <2>3
  <2>5. backup' # None => backup'.listed \subseteq listed
    BY BackupFields DEF StoresMove, ListedInv
  <2> QED
    BY <1>1, <2>1, <2>2, <2>4, <2>5 DEF CoveredIn
<1>4. CASE portable[d] = None /\ forgets[d].manifest # None
  <2>1. /\ forgets'[d].manifest = forgets[d].manifest
        /\ portable'[d] \in {None, forgets[d].manifest}
    BY <1>4 DEF StoresMove, ManifestsMove
  <2>2. listed \cap ObjectsOf(d) \subseteq forgets[d].manifest.objects \cup late
    BY <1>4 DEF CoverInv, CoveredIn
  <2>3. \A o \in listed' \cap ObjectsOf(d) : o \in listed \/ o \in late'
    BY <1>4 DEF StoresMove, ListMoves, Frozen, ObjectsOf
  <2>4. listed' \cap ObjectsOf(d) \subseteq CoveredIn(forgets, spine, reps, d)' \cup late'
    BY <1>1, <1>4, <2>1, <2>2, <2>3 DEF CoveredIn
  <2>5. ASSUME backup' # None
        PROVE  backup'.listed \cap ObjectsOf(d) \subseteq
                 CoveredIn(backup.forgets, backup.spine, backup.reps, d)' \cup late'
    <3>1. /\ backup # None
          /\ backup'.forgets = backup.forgets /\ backup'.spine = backup.spine
          /\ backup'.reps = backup.reps /\ backup'.listed = backup.listed
      BY <2>5, BackupFields DEF StoresMove
    <3>2. CASE portable'[d] = None
      BY <1>1, <1>4, <3>1, <3>2 DEF CoverInv, CoveredIn, NominatedIn
    <3>3. CASE portable'[d] = forgets[d].manifest
      BY <1>1, <1>4, <2>2, <3>1, <3>3 DEF CoveredIn, ListedInv
    <3> QED
      BY <2>1, <3>2, <3>3
  <2> QED
    BY <2>4, <2>5
<1>5. CASE portable[d] = None /\ forgets[d].manifest = None
  <2>1. portable'[d] = None
    BY <1>5 DEF StoresMove, ManifestsMove
  <2>2. listed \cap ObjectsOf(d) \subseteq NominatedIn(spine, reps, d) \cup late
    BY <1>5 DEF CoverInv, CoveredIn
  <2>3. \A v \in spine : LineageOf[v] = d => v \in spine'
    BY <1>5 DEF StoresMove, RowsMove
  <2>4. \A r \in reps : LineageOf[r[1]] = d => r \in reps'
    BY <1>5 DEF StoresMove, RowsMove
  <2>5. ASSUME forgets'[d].manifest = None
        PROVE  listed' \cap ObjectsOf(d) \subseteq NominatedIn(spine', reps', d) \cup late'
    <3> SUFFICES ASSUME NEW o \in listed' \cap ObjectsOf(d)
                 PROVE  o \in NominatedIn(spine', reps', d) \cup late'
      OBVIOUS
    <3>1. NominatedIn(spine, reps, d) \subseteq NominatedIn(spine', reps', d)
      BY <2>3, <2>4 DEF NominatedIn, VersionsOf
    <3>2. CASE o \in listed
      BY <1>1, <2>2, <3>1, <3>2
    <3>3. CASE o \notin listed
      <4>1. CASE \E v \in Versions : o = Raw(v)
        <5>1. PICK v \in Versions : o = Raw(v)
          BY <4>1
        <5>2. v \in spine'
          BY <3>3, <5>1 DEF StoresMove, ListMoves
        <5>3. LineageOf[v] = d
          BY <5>1 DEF ObjectsOf, Raw
        <5> QED
          BY <1>2, <5>1, <5>2, <5>3, NominatedAre
      <4>2. CASE \E v \in Versions, n \in Attempts : o = Artifact(v, n)
        <5>1. PICK v \in Versions, n \in Attempts : o = Artifact(v, n)
          BY <4>2
        <5>2. <<v, n>> \in reps'
          BY <3>3, <5>1 DEF StoresMove, ListMoves
        <5>3. LineageOf[v] = d
          BY <5>1 DEF ObjectsOf, Artifact
        <5>4. Artifact(v, n) = Artifact(<<v, n>>[1], <<v, n>>[2]) /\ <<v, n>>[1] = v
          OBVIOUS
        <5>5. Artifact(<<v, n>>[1], <<v, n>>[2]) \in NominatedIn(spine', reps', d)
          BY <1>2, <5>2, <5>3, <5>4, NominatedAre
        <5> QED
          BY <5>1, <5>4, <5>5
      <4>3. CASE \E v \in Versions, n \in Attempts : o = Side(v, n)
        BY <3>3, <4>3 DEF StoresMove, ListMoves
      <4> QED
        BY <1>2, <4>1, <4>2, <4>3 DEF Objects
    <3> QED
      BY <3>2, <3>3
  <2>6. ASSUME forgets'[d].manifest # None
        PROVE  listed' \cap ObjectsOf(d) \subseteq forgets'[d].manifest.objects \cup late'
    <3>1. forgets'[d].manifest.objects = NominatedIn(spine, reps, d) /\ listed' = listed
      BY <1>5, <2>6 DEF StoresMove, ManifestsMove
    <3> QED
      BY <1>1, <2>2, <3>1
  <2>7. backup' # None =>
          backup'.listed \cap ObjectsOf(d) \subseteq
            CoveredIn(backup.forgets, backup.spine, backup.reps, d)' \cup late'
    <3>1. SUFFICES ASSUME backup' # None
                   PROVE  backup'.listed \cap ObjectsOf(d) \subseteq
                            CoveredIn(backup.forgets, backup.spine, backup.reps, d)' \cup late'
      OBVIOUS
    <3>2. /\ backup # None
          /\ backup'.forgets = backup.forgets /\ backup'.spine = backup.spine
          /\ backup'.reps = backup.reps /\ backup'.listed = backup.listed
      BY <3>1, BackupFields DEF StoresMove
    <3> QED
      BY <1>1, <1>5, <2>1, <3>2 DEF CoverInv, CoveredIn, NominatedIn
  <2> QED
    BY <2>1, <2>5, <2>6, <2>7 DEF CoveredIn
<1> QED
  BY <1>3, <1>4, <1>5

LEMMA WorkKept ==
  ASSUME StoreInv, WorkInv, StoresMove
  PROVE  WorkInv'
<1> SUFFICES ASSUME NEW d \in Docs
             PROVE  /\ work'[d] # "none" => forgets'[d].status \in Settled
                    /\ backup' # None /\ backup'.work[d] # "none" =>
                         backup'.forgets[d].status \in Settled
  BY DEF WorkInv
<1>1. work'[d] # "none" => forgets'[d].status \in Settled
  BY DEF WorkInv, StoresMove, ManifestsMove
<1>2. backup' # None =>
        backup # None /\ backup'.forgets = backup.forgets /\ backup'.work = backup.work
  BY BackupFields DEF StoresMove
<1> QED
  BY <1>1, <1>2 DEF WorkInv

(* A snapshot that is new shows frozen lineages as late; one that was there *)
(* gains the name of a lineage only with its inventory.                     *)
SnapsMove ==
  \A s \in snapshots' :
    \/ \E t \in snapshots : /\ s.docs = t.docs /\ t.late \subseteq s.late
                            /\ t.named \subseteq s.named
                            /\ \A d \in s.named : d \in t.named \/ forgets[d].manifest = None
    \/ s.named = {} /\ \A d \in s.docs : Frozen(d) => d \in s.late

LEMMA RowsStayLate ==
  ASSUME StoresMove, NEW d \in Docs, Frozen(d), RowsLate(d)
  PROVE  RowsLate(d)'
<1>1. late \subseteq late'
  BY DEF StoresMove, ListMoves
<1>2. \A v \in spine' \cap VersionsOf(d) : VersionRow(v) \in late'
  BY <1>1 DEF RowsLate, StoresMove, RowsMove, VersionsOf
<1>3. \A r \in reps' : LineageOf[r[1]] = d => Rep(r[1], r[2]) \in late'
  BY <1>1 DEF RowsLate, StoresMove, RowsMove
<1>4. \A v \in claims' \cap VersionsOf(d) : Claim(v) \in late'
  BY <1>1 DEF RowsLate, StoresMove, RowsMove, VersionsOf
<1> QED
  BY <1>2, <1>3, <1>4 DEF RowsLate

LEMMA ObjectsStayLate ==
  ASSUME StoresMove, NEW d \in Docs, Frozen(d), ObjectsLate(d)
  PROVE  ObjectsLate(d)'
  BY DEF StoresMove, ListMoves, ObjectsMove, ObjectsLate, ObjectsOf

LEMMA StaysPurged ==
  ASSUME SnapsMove, NEW d \in Docs, forgets[d].manifest # None, Purged(d)
  PROVE  Purged(d)'
  BY DEF SnapsMove, Purged

LEMMA StaysGone ==
  ASSUME StoresMove, SnapsMove, NEW d \in Docs, forgets[d].manifest # None, Gone(d)
  PROVE  Gone(d)'
  BY RowsStayLate, ObjectsStayLate, StaysPurged DEF Gone, Frozen

LEMMA CompleteHasManifest ==
  ASSUME StoreInv, NEW d \in Docs
  PROVE  /\ forgets[d].status \in Settled =>
              forgets[d].manifest # None /\ portable[d] = forgets[d].manifest
         /\ boot.pc = "honor" /\ portable[d] # None /\ d \notin boot.todo =>
              forgets[d].status = "complete" /\ forgets[d].manifest # None
  BY DEF StoreInv, ForgetInv, RowsSound, Sound, BootInv, Settled, Status

LEMMA HonorStays ==
  ASSUME StoreInv, StoresMove, SnapsMove, NEW h \in Honorers \cup {Boot}, HonorInv(h),
         honor'[h] = honor[h]
  PROVE  HonorInv(h)'
<1> SUFFICES ASSUME honor[h].pc # "idle" PROVE HonorInv(h)'
  BY DEF HonorInv
<1> DEFINE d == honor[h].doc
<1>1. /\ d \in Docs /\ forgets[d].status \in Settled
      /\ forgets[d].manifest = honor[h].manifest
      /\ honor[h].pc \notin {"delete", "scrub"} => RowsLate(d)
      /\ honor[h].pc \in {"complete", "done"} => Gone(d)
  BY DEF HonorInv
<1>2. forgets[d].manifest # None
  BY <1>1, CompleteHasManifest
<1>3. forgets'[d].status \in Settled /\ forgets'[d].manifest = forgets[d].manifest
  BY <1>1, <1>2 DEF StoresMove, ManifestsMove
<1>4. RowsLate(d) => RowsLate(d)'
  BY <1>1, <1>2, RowsStayLate DEF Frozen
<1>5. Gone(d) => Gone(d)'
  BY <1>1, <1>2, StaysGone
<1> QED
  BY <1>1, <1>3, <1>4, <1>5 DEF HonorInv

(* Steps of uploads, ordinary work and calls leave erasures where they are. *)
LEMMA DriversStill ==
  ASSUME StoreInv, HonorsSound, GoneInv, StoresMove, SnapsMove,
         UNCHANGED <<honor, boot>>,
         \A d \in Docs : forgets'[d].status = "complete" => forgets[d].status = "complete",
         portable' = portable \/ boot.pc # "honor"
  PROVE  HonorsSound' /\ GoneInv'
<1>2. HonorsSound'
  BY HonorStays DEF HonorsSound
<1>3. ASSUME NEW d \in Docs, boot'.pc = "up", forgets'[d].status = "complete" PROVE Gone(d)'
  BY <1>3, CompleteHasManifest, StaysGone DEF GoneInv, Settled
<1>4. ASSUME NEW d \in Docs, boot'.pc = "honor", portable'[d] # None, d \notin boot'.todo
      PROVE  Gone(d)'
  BY <1>4, CompleteHasManifest, StaysGone DEF GoneInv
<1> QED
  BY <1>2, <1>3, <1>4 DEF GoneInv

(* No lineage is frozen but by its inventory.                              *)
FrozenStays == \A d \in Docs : forgets'[d].manifest # None => Frozen(d)
CopiesMove  == \A s \in snapshots : s \in snapshots' \/ \E e \in s.named : portable[e] # None
StillOutstanding == \A e \in Docs : Outstanding(e) => Outstanding(e)' \/ Purged(e)'

LEMMA SnapKept ==
  ASSUME StoreInv, StoreInv', SnapInv, StoresMove, SnapsMove, FrozenStays, CopiesMove,
         StillOutstanding, UNCHANGED backup
  PROVE  SnapInv'
<1>1. ASSUME NEW s \in snapshots', NEW d \in s.docs, Frozen(d)', d \in Docs
      PROVE  Shows(s, d)'
  <2>1. Frozen(d)
    BY <1>1 DEF Frozen, FrozenStays, StoresMove, ManifestsMove
  <2>2. CASE d \in s.late
    BY <2>2 DEF Shows
  <2>3. ASSUME NEW t \in snapshots, s.docs = t.docs, t.late \subseteq s.late,
               t.named \subseteq s.named
        PROVE  Shows(s, d)'
    <3>1. Shows(t, d)
      BY <2>1, <2>3 DEF SnapInv
    <3>2. CASE d \in t.late \/ d \in t.named
      BY <2>3, <3>2 DEF Shows
    <3>3. CASE \E e \in t.named : Outstanding(e)
      <4>1. PICK e \in t.named : Outstanding(e)
        BY <3>3
      <4>2. e \in Docs /\ e \in s.named
        BY <2>3 DEF StoreInv, StoreTypes, Snapshots
      <4>3. Outstanding(e)'
        BY <4>1, <4>2 DEF StillOutstanding, Purged
      <4> QED
        BY <4>2, <4>3 DEF Shows
    <3> QED
      BY <3>1, <3>2, <3>3 DEF Shows
  <2> QED
    BY <2>1, <2>2, <2>3 DEF SnapsMove
<1>2. \A s \in snapshots' : s.docs \subseteq Docs
  BY DEF StoreInv, StoreTypes, Snapshots
<1>3. ASSUME backup' # None, NEW s \in backup'.snapshots
      PROVE  s \in snapshots' \/ \E e \in s.named : portable'[e] # None
  <2>1. s \in snapshots \/ \E e \in s.named : portable[e] # None
    BY <1>3 DEF SnapInv
  <2>2. \/ s \in snapshots'
        \/ \E e \in s.named : portable[e] # None
    BY <2>1 DEF CopiesMove
  <2>3. s.named \subseteq Docs
    BY <1>3 DEF StoreInv, BackupTypes, Snapshots
  <2> QED
    BY <2>2, <2>3 DEF StoresMove, ManifestsMove
<1> QED
  BY <1>1, <1>2, <1>3 DEF SnapInv

LEMMA StoresStill ==
  ASSUME StoreInv, WrittenStays,
         UNCHANGED <<forgets, work, spine, reps, claims, objects, portable, backup, listed, late>>
  PROVE  StoresMove /\ FrozenStays
<1>1. ManifestsMove /\ FrozenStays
  BY DEF ManifestsMove, FrozenStays, Frozen
<1>2. RowsMove /\ ListMoves /\ ObjectsMove /\ BackupKept
  BY DEF RowsMove, ListMoves, ObjectsMove, BackupKept
<1> QED
  BY <1>1, <1>2 DEF StoresMove

LEMMA SnapsStill ==
  ASSUME UNCHANGED snapshots
  PROVE  SnapsMove /\ CopiesMove
  BY DEF SnapsMove, CopiesMove

LEMMA AttemptStays ==
  ASSUME UNCHANGED attempt
  PROVE  WrittenStays
  BY DEF WrittenStays, Written

-----------------------------------------------------------------------------
(* Uploads and ordinary work.                                              *)

LEMMA WorkMoves ==
  ASSUME StoreInv, StoreInv', EraseInv, AttemptTyped', StoresMove, SnapsMove, CopiesMove,
         UNCHANGED <<forgets, portable, honor, boot, backup>>
  PROVE  EraseInv'
<1>1. FrozenStays /\ StillOutstanding
  BY DEF FrozenStays, StillOutstanding, Frozen, Outstanding
<1>2. ListedInv' /\ CoverInv' /\ WorkInv'
  BY ListedKept, CoverKept, WorkKept DEF EraseInv
<1>3. SnapInv'
  BY <1>1, SnapKept DEF EraseInv
<1>4. HonorsSound' /\ GoneInv'
  BY DriversStill DEF EraseInv
<1> QED
  BY <1>2, <1>3, <1>4 DEF EraseInv

LEMMA LateBecomes ==
  ASSUME NEW d, NEW written, Late(d, written)
  PROVE  late \subseteq late' /\ (Frozen(d) => written \subseteq late')
  BY DEF Late

LEMMA AttemptMoves ==
  ASSUME AttemptTyped, NEW v \in Versions, NEW n \in Attempts,
         NEW to \in {"checked", "claimed", "read", "written", "published", "extracted",
                     "projected", "over"},
         attempt' = [attempt EXCEPT ![v][n] = to],
         Written(v, n) => to \in {"published", "extracted", "projected", "over"}
  PROVE  /\ AttemptTyped' /\ WrittenStays
         /\ Written(v, n)' <=> to \in {"published", "extracted", "projected", "over"}
  BY DEF AttemptTyped, WrittenStays, Written

LEMMA IngestErase ==
  ASSUME StoreInv, StoreInv', EraseInv, NEW v \in Versions, IngestNext(v) \/ ReapRow(v)
  PROVE  EraseInv'
<1> USE DEF intentVars, contentVars, storeVars, driverVars, faultVars, historyVars
<1>1. /\ UNCHANGED <<forgets, work, portable, honor, boot, backup, snapshots, attempt, reps,
                     claims>>
      /\ WrittenStays /\ AttemptTyped' /\ SnapsMove /\ CopiesMove
  <2>1. UNCHANGED <<forgets, work, portable, honor, boot, backup, snapshots, attempt, reps,
                    claims>>
    BY DEF IngestNext, GuardIngest, WriteRaw, RecordUpload, UploadDies, ReapRow
  <2> QED
    BY <2>1, AttemptStays, SnapsStill DEF EraseInv, AttemptTyped
<1>2. ManifestsMove /\ BackupKept
  BY <1>1 DEF ManifestsMove, BackupKept
<1>3. Raw(v)[2] = v
  BY DEF Raw
<1>4. CASE WriteRaw(v)
  <2>1. /\ UNCHANGED <<spine, listed>>
        /\ objects' = objects \cup {Raw(v)}
        /\ Late(LineageOf[v], {Raw(v)} \ objects)
    BY <1>4 DEF WriteRaw
  <2>2. RowsMove /\ ListMoves
    BY <1>1, <2>1, LateBecomes DEF RowsMove, ListMoves
  <2>3. ObjectsMove
    BY <1>3, <2>1, LateBecomes DEF ObjectsMove
  <2> QED
    BY <1>1, <1>2, <2>2, <2>3, WorkMoves DEF StoresMove
<1>5. CASE RecordUpload(v)
  <2>1. /\ UNCHANGED objects
        /\ spine' = spine \cup {v} /\ listed' = listed \cup {Raw(v)}
        /\ Late(LineageOf[v], {VersionRow(v), Raw(v)})
    BY <1>5 DEF RecordUpload
  <2>2. RowsMove
    BY <1>1, <2>1, LateBecomes DEF RowsMove
  <2>3. ListMoves
    <3>1. \A w \in Versions : Raw(w) \in listed' \ listed => w \in spine'
      BY <2>1, ObjectKinds
    <3>2. \A w \in Versions, n \in Attempts :
            /\ Side(w, n) \in listed' => Side(w, n) \in listed
            /\ Artifact(w, n) \notin listed' \ listed
      BY <2>1, ObjectKinds
    <3> QED
      BY <1>3, <2>1, <3>1, <3>2, LateBecomes DEF ListMoves
  <2>4. ObjectsMove
    BY <2>1 DEF ObjectsMove
  <2> QED
    BY <1>1, <1>2, <2>2, <2>3, <2>4, WorkMoves DEF StoresMove
<1>6. CASE GuardIngest(v) \/ UploadDies(v) \/ ReapRow(v)
  <2>1. UNCHANGED <<spine, objects, listed, late>>
    BY <1>6 DEF GuardIngest, UploadDies, ReapRow
  <2> QED
    BY <1>1, <2>1, StoresStill, WorkMoves
<1> QED
  BY <1>4, <1>5, <1>6 DEF IngestNext

LEMMA WorkErase ==
  ASSUME StoreInv, StoreInv', EraseInv, NEW v \in Versions, NEW n \in Attempts, WorkNext(v, n)
  PROVE  EraseInv'
<1> USE DEF intentVars, contentVars, storeVars, driverVars, faultVars, historyVars
<1>1. UNCHANGED <<forgets, work, portable, honor, boot, backup, spine>>
  BY DEF WorkNext, ReadBarrier, ClaimRow, ReadSource, WriteArtifacts, RecordRepresentation,
         PublishExtraction, Project, Complete, AttemptEnds
<1>2. ManifestsMove /\ BackupKept
  BY <1>1 DEF ManifestsMove, BackupKept
<1>3. AttemptTyped
  BY DEF EraseInv
<1>4. Artifact(v, n)[2] = v /\ Side(v, n)[2] = v
  BY DEF Artifact, Side
<1>5. CASE ReadBarrier(v, n) \/ ClaimRow(v, n) \/ ReadSource(v, n) \/ Complete(v, n)
             \/ AttemptEnds(v, n)
  <2>1. UNCHANGED <<reps, claims, objects, snapshots, listed, late>>
    BY <1>5 DEF ReadBarrier, ClaimRow, ReadSource, Complete, AttemptEnds
  <2>2. PICK to \in {"checked", "claimed", "read", "over"} :
          attempt' = [attempt EXCEPT ![v][n] = to] /\ (Written(v, n) => to = "over")
    BY <1>5 DEF ReadBarrier, ClaimRow, ReadSource, Complete, AttemptEnds, AttemptStep, Written
  <2>3. AttemptTyped' /\ WrittenStays
    BY <1>3, <2>2, AttemptMoves
  <2> QED
    BY <1>1, <2>1, <2>3, StoresStill, SnapsStill, WorkMoves
<1>6. CASE WriteArtifacts(v, n)
  <2>1. /\ UNCHANGED <<reps, claims, snapshots, listed, late>>
        /\ objects' = objects \cup {Artifact(v, n), Side(v, n)}
        /\ attempt[v][n] = "read" /\ attempt' = [attempt EXCEPT ![v][n] = "written"]
    BY <1>6 DEF WriteArtifacts, AttemptStep
  <2>2. AttemptTyped' /\ WrittenStays /\ ~Written(v, n)
    BY <1>3, <2>1, AttemptMoves DEF Written
  <2>3. Artifact(v, n) \notin listed /\ Side(v, n) \notin listed
    BY <2>2 DEF EraseInv, ListedInv
  <2>4. ObjectsMove
    BY <2>1, <2>3 DEF ObjectsMove
  <2>5. RowsMove /\ ListMoves
    BY <1>1, <2>1 DEF RowsMove, ListMoves
  <2> QED
    BY <1>1, <1>2, <2>1, <2>2, <2>4, <2>5, SnapsStill, WorkMoves DEF StoresMove
<1>7. CASE RecordRepresentation(v, n)
  <2>1. /\ UNCHANGED <<claims, snapshots, objects>>
        /\ reps' = reps \cup {<<v, n>>} /\ listed' = listed \cup {Artifact(v, n)}
        /\ Late(LineageOf[v], {Rep(v, n), Artifact(v, n)})
        /\ attempt[v][n] = "written" /\ attempt' = [attempt EXCEPT ![v][n] = "published"]
    BY <1>7 DEF RecordRepresentation, AttemptStep
  <2>2. AttemptTyped' /\ WrittenStays /\ Written(v, n)'
    BY <1>3, <2>1, AttemptMoves DEF Written
  <2>3. <<v, n>>[1] = v /\ <<v, n>>[2] = n
    OBVIOUS
  <2>4. RowsMove
    BY <1>1, <2>1, <2>3, LateBecomes DEF RowsMove
  <2>5. ListMoves
    <3>1. \A w \in Versions, m \in Attempts :
            Artifact(w, m) \in listed' \ listed => w = v /\ m = n
      BY <2>1, ObjectKinds
    <3>2. \A w \in Versions, m \in Attempts :
            /\ Side(w, m) \in listed' => Side(w, m) \in listed
            /\ Raw(w) \notin listed' \ listed
      BY <2>1, ObjectKinds
    <3>3. \A w \in Versions, m \in Attempts :
            Artifact(w, m) \in listed' \ listed => <<w, m>> \in reps' /\ Written(w, m)'
      BY <2>1, <2>2, <3>1
    <3>4. \A w \in Versions : Raw(w) \in listed' \ listed => w \in spine'
      BY <2>1, ObjectKinds
    <3>5. \A o \in listed' \ listed : Frozen(LineageOf[o[2]]) => o \in late'
      BY <1>4, <2>1, LateBecomes
    <3> QED
      BY <2>1, <3>2, <3>3, <3>4, <3>5, LateBecomes DEF ListMoves
  <2>6. ObjectsMove
    BY <2>1 DEF ObjectsMove
  <2> QED
    BY <1>1, <1>2, <2>1, <2>2, <2>4, <2>5, <2>6, SnapsStill, WorkMoves DEF StoresMove
<1>8. CASE PublishExtraction(v, n)
  <2>1. /\ UNCHANGED <<reps, snapshots, objects, listed>>
        /\ claims' = claims \cup {v}
        /\ Late(LineageOf[v], {Claim(v)})
        /\ attempt[v][n] = "published" /\ attempt' = [attempt EXCEPT ![v][n] = "extracted"]
    BY <1>8 DEF PublishExtraction, AttemptStep
  <2>2. AttemptTyped' /\ WrittenStays
    BY <1>3, <2>1, AttemptMoves
  <2>3. RowsMove /\ ListMoves /\ ObjectsMove
    BY <1>1, <2>1, LateBecomes DEF RowsMove, ListMoves, ObjectsMove
  <2> QED
    BY <1>1, <1>2, <2>1, <2>2, <2>3, SnapsStill, WorkMoves DEF StoresMove
<1>9. CASE Project(v, n)
  <2>1. /\ UNCHANGED <<reps, claims, objects, listed, late>>
        /\ snapshots' = snapshots \cup
             {[docs |-> Shown, named |-> {}, late |-> {d \in Shown : Frozen(d)}]}
        /\ attempt[v][n] = "extracted" /\ attempt' = [attempt EXCEPT ![v][n] = "projected"]
    BY <1>9 DEF Project, AttemptStep
  <2>2. AttemptTyped' /\ WrittenStays
    BY <1>3, <2>1, AttemptMoves
  <2>3. SnapsMove /\ CopiesMove
    BY <2>1 DEF SnapsMove, CopiesMove
  <2> QED
    BY <1>1, <2>1, <2>2, <2>3, StoresStill, WorkMoves
<1> QED
  BY <1>5, <1>6, <1>7, <1>8, <1>9 DEF WorkNext

-----------------------------------------------------------------------------
(* Calls.                                                                  *)

LEMMA CallMovesOn ==
  ASSUME StoreInv, StoreInv', EraseInv, ManifestsMove, FrozenStays, boot.pc # "honor",
         UNCHANGED <<spine, reps, claims, objects, snapshots, backup, attempt, honor, boot,
                     listed, late>>,
         \A d \in Docs : forgets'[d].status = "complete" => forgets[d].status = "complete"
  PROVE  EraseInv'
<1>1. AttemptTyped' /\ WrittenStays /\ SnapsMove /\ CopiesMove
  BY AttemptStays, SnapsStill DEF EraseInv, AttemptTyped
<1>2. StoresMove
  BY <1>1 DEF StoresMove, RowsMove, ListMoves, ObjectsMove, BackupKept
<1>3. StillOutstanding
  BY DEF StillOutstanding, Outstanding, ManifestsMove
<1>4. ListedInv' /\ CoverInv' /\ WorkInv'
  BY <1>2, ListedKept, CoverKept, WorkKept DEF EraseInv
<1>5. SnapInv'
  BY <1>1, <1>2, <1>3, SnapKept DEF EraseInv
<1>6. HonorsSound' /\ GoneInv'
  BY <1>1, <1>2, DriversStill DEF EraseInv
<1> QED
  BY <1>1, <1>4, <1>5, <1>6 DEF EraseInv

(* The inventory names every snapshot there is, in the copy too.           *)
LEMMA InventoryErase ==
  ASSUME StoreInv, StoreInv', EraseInv, NEW q \in Callers \cup {Boot},
         InventoryAndStoreManifest(q)
  PROVE  EraseInv'
<1> USE DEF intentVars, contentVars, storeVars, driverVars, faultVars, historyVars
<1> DEFINE d == call[q].doc
<1>1. /\ call[q].pc = "drained"
      /\ UNCHANGED <<work, spine, reps, claims, objects, portable, attempt, honor, boot, listed,
                     late>>
  BY DEF InventoryAndStoreManifest, CallIs
<1>2. d \in Docs /\ boot.pc # "honor"
  BY <1>1, CallRuns DEF StoreInv
<1>3. CASE UNCHANGED <<forgets, snapshots, backup>>
  BY <1>1, <1>2, <1>3, CallMovesOn DEF ManifestsMove, FrozenStays, Frozen
<1>4. CASE /\ forgets[d].manifest = None
           /\ forgets' = [forgets EXCEPT ![d].manifest = Inventory(q, d)]
           /\ snapshots' = NamedBy(d, snapshots)
           /\ backup' = IF backup = None THEN None
                        ELSE [backup EXCEPT !.snapshots =
                                (@ \ snapshots) \cup NamedBy(d, @ \cap snapshots)]
  <2>1. /\ forgets'[d].manifest = Inventory(q, d)
        /\ \A e \in Docs : e # d => forgets'[e].manifest = forgets[e].manifest
        /\ \A e \in Docs : forgets'[e].status = forgets[e].status
    BY <1>2, <1>4 DEF StoreInv, ForgetInv, Types, RowType
  <2>2. Inventory(q, d).objects = NominatedIn(spine, reps, d)
    BY DEF Inventory, Nominated, NominatedIn, RepsOf
  <2>3. ManifestsMove
    BY <1>1, <1>4, <2>1, <2>2 DEF ManifestsMove
  <2>4. AttemptTyped' /\ WrittenStays
    BY <1>1, AttemptStays DEF EraseInv, AttemptTyped
  <2>5. BackupKept
    BY <1>4 DEF BackupKept
  <2>6. StoresMove
    BY <1>1, <2>3, <2>4, <2>5 DEF StoresMove, RowsMove, ListMoves, ObjectsMove
  <2>7. ASSUME NEW s \in snapshots'
        PROVE  \E t \in snapshots : /\ s.docs = t.docs /\ s.late = t.late
                                    /\ s.named = t.named \cup {d}
    <3>1. PICK t \in snapshots : s = [t EXCEPT !.named = @ \cup {d}]
      BY <1>4, <2>7 DEF NamedBy
    <3>2. t \in Snapshots
      BY DEF StoreInv, StoreTypes
    <3> QED
      BY <3>1, <3>2 DEF Snapshots
  <2>8. SnapsMove
    BY <1>4, <2>7 DEF SnapsMove
  <2>9. ASSUME NEW s \in snapshots', NEW e \in s.docs, Frozen(e)' PROVE Shows(s, e)'
    <3>1. PICK t \in snapshots : /\ s.docs = t.docs /\ s.late = t.late
                                 /\ s.named = t.named \cup {d}
      BY <2>7
    <3>2. e \in Docs
      BY <3>1 DEF StoreInv, StoreTypes, Snapshots
    <3>3. CASE e = d
      BY <3>1, <3>3 DEF Shows
    <3>4. CASE e # d
      <4>1. Shows(t, e)
        BY <1>1, <2>1, <2>9, <3>1, <3>2, <3>4 DEF SnapInv, EraseInv, Frozen
      <4>2. \A f : Outstanding(f) => Outstanding(f)'
        BY <1>1 DEF Outstanding
      <4> QED
        BY <3>1, <4>1, <4>2 DEF Shows
    <3> QED
      BY <3>3, <3>4
  <2>10. ASSUME backup' # None, NEW s \in backup'.snapshots
         PROVE  s \in snapshots' \/ \E e \in s.named : portable'[e] # None
    <3>1. backup # None
      BY <1>4, <2>10
    <3>2. backup'.snapshots =
            (backup.snapshots \ snapshots) \cup NamedBy(d, backup.snapshots \cap snapshots)
      BY <1>4, <3>1 DEF StoreInv, ForgetInv, Types
    <3>3. CASE s \in backup.snapshots \ snapshots
      BY <1>1, <3>1, <3>3 DEF EraseInv, SnapInv
    <3>4. CASE s \in NamedBy(d, backup.snapshots \cap snapshots)
      BY <1>4, <3>4 DEF NamedBy
    <3> QED
      BY <2>10, <3>2, <3>3, <3>4
  <2>11. SnapInv'
    BY <2>9, <2>10 DEF SnapInv
  <2>12. ListedInv' /\ CoverInv' /\ WorkInv'
    BY <2>6, ListedKept, CoverKept, WorkKept DEF EraseInv
  <2>13. HonorsSound' /\ GoneInv'
    BY <1>1, <2>1, <2>6, <2>8, DriversStill DEF EraseInv
  <2> QED
    BY <2>4, <2>11, <2>12, <2>13 DEF EraseInv
<1> QED
  BY <1>3, <1>4 DEF InventoryAndStoreManifest

LEMMA CallErase ==
  ASSUME StoreInv, StoreInv', EraseInv, \E q \in Callers \cup {Boot} : CallNext(q)
  PROVE  EraseInv'
<1> USE DEF intentVars, contentVars, storeVars, driverVars, faultVars, historyVars
<1>1. PICK q \in Callers \cup {Boot} : CallNext(q)
  OBVIOUS
<1>2. call[q].pc # "idle" => call[q].doc \in Docs /\ boot.pc # "honor"
  BY CallRuns DEF StoreInv
<1>3. ASSUME NEW d \in Docs, Prepare(q, d) PROVE EraseInv'
  <2>1. /\ UNCHANGED <<work, spine, reps, claims, objects, snapshots, backup, portable, attempt,
                       honor, boot, listed, late>>
        /\ boot.pc # "honor"
    BY <1>2, <1>3 DEF Prepare, Asks, CallIs
  <2>2. \/ UNCHANGED forgets
        \/ Status(d) = "none" /\ forgets' = [forgets EXCEPT ![d].status = "preparing"]
    BY <1>3 DEF Prepare
  <2>3. \A e \in Docs : /\ forgets'[e].manifest = forgets[e].manifest
                        /\ \/ forgets'[e].status = forgets[e].status
                           \/ forgets[e].status = "none" /\ forgets'[e].status = "preparing"
    BY <2>2 DEF StoreInv, ForgetInv, Types, RowType, Status
  <2>4. ManifestsMove /\ FrozenStays
    BY <2>1, <2>3 DEF ManifestsMove, FrozenStays, Frozen, Settled
  <2> QED
    BY <2>1, <2>3, <2>4, CallMovesOn
<1>4. CASE Drain(q) \/ CallDies(q)
  <2>1. /\ UNCHANGED <<forgets, work, spine, reps, claims, objects, snapshots, backup, portable,
                       attempt, honor, boot, listed, late>>
        /\ boot.pc # "honor"
    BY <1>2, <1>4 DEF Drain, CallDies, CallIs
  <2> QED
    BY <2>1, CallMovesOn DEF ManifestsMove, FrozenStays, Frozen
<1>5. CASE CancelUnstored(q)
  <2>1. /\ UNCHANGED <<work, spine, reps, claims, objects, snapshots, backup, portable, attempt,
                       honor, boot, listed, late>>
        /\ boot.pc # "honor" /\ call[q].doc \in Docs
    BY <1>2, <1>5 DEF CancelUnstored, CallIs
  <2>2. \A e \in Docs : /\ forgets'[e].manifest = forgets[e].manifest
                        /\ \/ forgets'[e].status = forgets[e].status
                           \/ forgets[e].status = "preparing" /\ forgets'[e].status = "none"
    BY <1>5, <2>1 DEF CancelUnstored, StoreInv, ForgetInv, Types, RowType, Status
  <2>3. ManifestsMove /\ FrozenStays
    BY <2>1, <2>2 DEF ManifestsMove, FrozenStays, Frozen, Settled
  <2> QED
    BY <2>1, <2>2, <2>3, CallMovesOn
<1>6. CASE Append(q)
  <2> DEFINE d == call[q].doc
  <2>1. /\ UNCHANGED <<forgets, work, spine, reps, claims, objects, snapshots, backup, attempt,
                       honor, boot, listed, late>>
        /\ call[q].pc \in {"stored", "known"}
    BY <1>6 DEF Append
  <2>2. /\ boot.pc # "honor" /\ d \in Docs
        /\ forgets[d].manifest = call[q].manifest /\ call[q].manifest # None
    BY <1>2, <2>1 DEF StoreInv, ForgetInv, CallInv
  <2>3. \/ UNCHANGED portable
        \/ /\ portable[d] \in {None, forgets[d].manifest}
           /\ portable' = [portable EXCEPT ![d] = forgets[d].manifest]
    BY <1>6, <2>2 DEF Append
  <2>4. \A e \in Docs : portable'[e] # portable[e] =>
          /\ portable[e] = None /\ forgets[e].manifest # None
          /\ portable'[e] = forgets[e].manifest
    BY <2>2, <2>3 DEF StoreInv, ForgetInv, Types
  <2>5. ManifestsMove /\ FrozenStays
    BY <2>1, <2>4 DEF ManifestsMove, FrozenStays, Frozen
  <2> QED
    BY <2>1, <2>2, <2>5, CallMovesOn
<1>7. CASE AcceptAndEnqueue(q)
  <2> DEFINE d == call[q].doc
  <2>1. /\ UNCHANGED <<portable, spine, reps, claims, objects, snapshots, backup, attempt,
                       honor, boot, listed, late>>
        /\ boot.pc # "honor" /\ d \in Docs
    BY <1>2, <1>7 DEF AcceptAndEnqueue, CallIs
  <2>2. \/ UNCHANGED <<forgets, work>>
        \/ /\ forgets' = [forgets EXCEPT ![d].status =
                           IF @ = "complete" THEN @ ELSE "accepted"]
           /\ work' = [work EXCEPT ![d] = IF @ = "none" THEN "pending" ELSE @]
    BY <1>7 DEF AcceptAndEnqueue
  <2>3. \A e \in Docs : /\ forgets'[e].manifest = forgets[e].manifest
                        /\ \/ forgets'[e].status = forgets[e].status
                           \/ forgets'[e].status = "accepted"
                        /\ \/ work'[e] = work[e]
                           \/ forgets'[e].status \in Settled
    BY <2>1, <2>2 DEF StoreInv, StoreTypes, ForgetInv, Types, RowType, Settled
  <2>4. ManifestsMove /\ FrozenStays
    BY <2>1, <2>3 DEF ManifestsMove, FrozenStays, Frozen, Settled
  <2> QED
    BY <2>1, <2>3, <2>4, CallMovesOn
<1> QED
  BY <1>1, <1>3, <1>4, <1>5, <1>6, <1>7, InventoryErase DEF CallNext

-----------------------------------------------------------------------------
(* Erasures.                                                               *)

LEMMA ErasureMovesOn ==
  ASSUME StoreInv, StoreInv', EraseInv, NEW h \in Honorers \cup {Boot},
         ManifestsMove, FrozenStays, RowsMove, SnapsMove, CopiesMove, objects' \subseteq objects,
         UNCHANGED <<portable, backup, attempt, listed, late>>,
         \A g \in (Honorers \cup {Boot}) \ {h} : honor'[g] = honor[g],
         HonorInv(h)',
         boot' = boot \/ boot' = NotReady,
         \A d \in Docs : forgets'[d].status = "complete" /\ forgets[d].status # "complete" =>
           forgets[d].manifest # None /\ Gone(d)
  PROVE  EraseInv'
<1>1. AttemptTyped' /\ WrittenStays
  BY AttemptStays DEF EraseInv, AttemptTyped
<1>2. StoresMove
  BY <1>1 DEF StoresMove, ListMoves, ObjectsMove, BackupKept
<1>3. StillOutstanding
  BY DEF StillOutstanding, Outstanding, NotReady, StoreInv, ForgetInv, BootInv, ManifestsKept
<1>4. ListedInv' /\ CoverInv' /\ WorkInv'
  BY <1>2, ListedKept, CoverKept, WorkKept DEF EraseInv
<1>5. SnapInv'
  BY <1>2, <1>3, SnapKept DEF EraseInv
<1>6. HonorsSound'
  <2> SUFFICES ASSUME NEW g \in (Honorers \cup {Boot}) \ {h} PROVE HonorInv(g)'
    BY DEF HonorsSound
  <2> QED
    BY <1>2, HonorStays DEF EraseInv, HonorsSound
<1>7. ASSUME NEW d \in Docs, boot'.pc = "up", forgets'[d].status = "complete" PROVE Gone(d)'
  <2>1. boot.pc = "up"
    BY <1>7 DEF NotReady
  <2>2. forgets[d].manifest # None /\ Gone(d)
    BY <1>7, <2>1, CompleteHasManifest DEF EraseInv, GoneInv, Settled
  <2> QED
    BY <1>2, <2>2, StaysGone
<1>8. ASSUME NEW d \in Docs, boot'.pc = "honor", portable'[d] # None, d \notin boot'.todo
      PROVE  Gone(d)'
  <2>1. boot' = boot
    BY <1>8 DEF NotReady
  <2>2. forgets[d].manifest # None /\ Gone(d)
    BY <1>8, <2>1, CompleteHasManifest DEF EraseInv, GoneInv
  <2> QED
    BY <1>2, <2>2, StaysGone
<1> QED
  BY <1>1, <1>4, <1>5, <1>6, <1>7, <1>8 DEF EraseInv, GoneInv

LEMMA ClaimForgetErase ==
  ASSUME StoreInv, StoreInv', EraseInv, NEW h \in Honorers, NEW d \in Docs, ClaimForget(h, d)
  PROVE  EraseInv'
<1> USE DEF intentVars, contentVars, storeVars, driverVars, faultVars, historyVars
<1>1. /\ UNCHANGED <<forgets, spine, reps, claims, objects, snapshots, portable, backup, attempt,
                     boot, listed, late>>
      /\ work[d] = "pending" /\ work' = [work EXCEPT ![d] = h]
      /\ honor' = [honor EXCEPT ![h] = [pc |-> "delete", doc |-> d,
                                        manifest |-> forgets[d].manifest]]
  BY DEF ClaimForget
<1>2. forgets[d].status \in Settled
  BY <1>1 DEF EraseInv, WorkInv
<1>3. /\ honor'[h] = [pc |-> "delete", doc |-> d, manifest |-> forgets[d].manifest]
      /\ \A g \in (Honorers \cup {Boot}) \ {h} : honor'[g] = honor[g]
  BY <1>1 DEF StoreInv, ForgetInv, Types
<1>4. HonorInv(h)'
  BY <1>1, <1>2, <1>3 DEF HonorInv
<1>5. ManifestsMove /\ FrozenStays
  BY <1>1, <1>2 DEF ManifestsMove, FrozenStays, Frozen, StoreInv, StoreTypes
<1>6. RowsMove
  BY <1>1 DEF RowsMove
<1> QED
  BY <1>1, <1>3, <1>4, <1>5, <1>6, SnapsStill, ErasureMovesOn

LEMMA HonorFacts ==
  ASSUME StoreInv, EraseInv, NEW h \in Honorers \cup {Boot}, honor[h].pc # "idle"
  PROVE  /\ honor[h].doc \in Docs /\ forgets[honor[h].doc].status \in Settled
         /\ forgets[honor[h].doc].manifest = honor[h].manifest
         /\ portable[honor[h].doc] = honor[h].manifest /\ honor[h].manifest # None
         /\ honor[h].pc \notin {"delete", "scrub"} => RowsLate(honor[h].doc)
         /\ honor[h].pc \in {"complete", "done"} => Gone(honor[h].doc)
BY CompleteHasManifest DEF EraseInv, HonorsSound, HonorInv

(* An erasure that raises, dies or ends.                                   *)
LEMMA HonorEnds ==
  ASSUME StoreInv, StoreInv', EraseInv, NEW h \in Honorers \cup {Boot},
         UNCHANGED <<forgets, spine, reps, claims, objects, snapshots, portable, backup, attempt,
                     listed, late>>,
         honor' = [honor EXCEPT ![h] = NoHonor],
         boot' = boot \/ boot' = NotReady,
         \A d \in Docs : work'[d] # "none" => work[d] # "none"
  PROVE  EraseInv'
<1>1. /\ honor'[h].pc = "idle"
      /\ \A g \in (Honorers \cup {Boot}) \ {h} : honor'[g] = honor[g]
  BY DEF StoreInv, ForgetInv, Types, NoHonor
<1>2. HonorInv(h)' /\ ManifestsMove /\ FrozenStays /\ RowsMove
  BY <1>1 DEF HonorInv, ManifestsMove, FrozenStays, Frozen, RowsMove
<1> QED
  BY <1>1, <1>2, SnapsStill, ErasureMovesOn

LEMMA WorkOf ==
  ASSUME StoreInv, NEW h \in Honorers \cup {Boot}, NEW to,
         work' = [d \in Docs |-> IF work[d] = h THEN to ELSE work[d]]
  PROVE  \A d \in Docs : work'[d] # "none" => work[d] # "none"
  BY ForgetAssumption DEF StoreInv, StoreTypes

LEMMA RaiseErase ==
  ASSUME StoreInv, StoreInv', EraseInv, NEW h \in Honorers \cup {Boot}, HonorRaises(h),
         UNCHANGED <<forgets, spine, reps, claims, objects, snapshots, portable, backup, attempt,
                     listed, late>>
  PROVE  EraseInv'
<1>1. /\ honor' = [honor EXCEPT ![h] = NoHonor]
      /\ work' = [d \in Docs |-> IF work[d] = h THEN "pending" ELSE work[d]]
      /\ boot' = boot \/ boot' = NotReady
  BY DEF HonorRaises
<1> QED
  BY <1>1, WorkOf, HonorEnds

(* A step of an erasure that goes on.                                      *)
LEMMA HonorGoesOn ==
  ASSUME StoreInv, StoreInv', EraseInv, NEW h \in Honorers \cup {Boot}, honor[h].pc # "idle",
         NEW pc \in {"scrub", "objects", "rebuild", "snapshots", "verify", "complete", "done"},
         honor' = [honor EXCEPT ![h].pc = pc],
         ManifestsMove, FrozenStays, RowsMove, SnapsMove, CopiesMove, objects' \subseteq objects,
         UNCHANGED <<portable, backup, attempt, listed, late, boot>>,
         NEW d \in Docs, d = honor[h].doc,
         pc # "scrub" => RowsLate(d)', pc \in {"complete", "done"} => Gone(d)',
         \A e \in Docs : forgets'[e].status = "complete" /\ forgets[e].status # "complete" =>
           forgets[e].manifest # None /\ Gone(e)
  PROVE  EraseInv'
<1>1. /\ honor'[h].pc = pc /\ honor'[h].doc = honor[h].doc
      /\ honor'[h].manifest = honor[h].manifest
      /\ \A g \in (Honorers \cup {Boot}) \ {h} : honor'[g] = honor[g]
  BY DEF StoreInv, ForgetInv, Types, HonorType
<1>2. /\ forgets'[honor[h].doc].status \in Settled
      /\ forgets'[honor[h].doc].manifest = honor[h].manifest /\ honor[h].doc \in Docs
  BY HonorFacts DEF ManifestsMove
<1>3. HonorInv(h)'
  BY <1>1, <1>2 DEF HonorInv
<1> QED
  BY <1>1, <1>3, ErasureMovesOn

LEMMA HonorErase ==
  ASSUME StoreInv, StoreInv', EraseInv, NEW h \in Honorers \cup {Boot},
         HonorStep(h) \/ HonorDies(h)
  PROVE  EraseInv'
<1> USE DEF intentVars, contentVars, storeVars, driverVars, faultVars, historyVars
<1>1. /\ UNCHANGED <<portable, backup, attempt, listed, late>>
      /\ honor[h].pc # "idle"
  BY DEF HonorStep, DeleteLineage, ScrubPostgres, PurgeObjects, RebuildProjection,
         PurgeProjections, Verify, MarkComplete, CompleteForget, HonorDies, HonorAt
<1>2. PICK d \in Docs :
      /\ d = honor[h].doc /\ forgets[d].status \in Settled
      /\ forgets[d].manifest = honor[h].manifest /\ portable[d] = honor[h].manifest
      /\ honor[h].manifest # None
      /\ honor[h].pc \notin {"delete", "scrub"} => RowsLate(d)
      /\ honor[h].pc \in {"complete", "done"} => Gone(d)
  BY <1>1, HonorFacts
<1>3. UNCHANGED <<forgets, work>> => ManifestsMove /\ FrozenStays
  BY <1>1 DEF ManifestsMove, FrozenStays, Frozen
<1>4. UNCHANGED <<spine, reps, claims>> => RowsMove
  BY DEF RowsMove
<1>5. UNCHANGED <<spine, reps, claims>> /\ RowsLate(d) => RowsLate(d)'
  BY <1>1 DEF RowsLate
<1>6. CASE DeleteLineage(h)
  <2>1. CASE Owned(d)
    <3>1. /\ UNCHANGED <<forgets, work, spine, reps, claims, objects, snapshots, boot>>
          /\ honor' = [honor EXCEPT ![h].pc = "scrub"]
      BY <1>2, <1>6, <2>1 DEF DeleteLineage, HonorTo, Target
    <3> QED
      BY <1>1, <1>2, <1>3, <1>4, <3>1, SnapsStill, HonorGoesOn
  <2>2. CASE ~Owned(d)
    BY <1>2, <1>6, <2>2, RaiseErase DEF DeleteLineage, Target
  <2> QED
    BY <2>1, <2>2
<1>7. CASE ScrubPostgres(h)
  <2>1. /\ UNCHANGED <<forgets, work, objects, snapshots, boot>>
        /\ honor' = [honor EXCEPT ![h].pc = "objects"]
        /\ spine' = spine \ VersionsOf(d) /\ reps' = reps \ RepsOf(d)
        /\ claims' = claims \ VersionsOf(d)
    BY <1>2, <1>7 DEF ScrubPostgres, ScrubRows, HonorTo, Target
  <2>2. RowsMove
    BY <1>2, <2>1 DEF RowsMove, VersionsOf, RepsOf, StoreInv, StoreTypes
  <2>3. RowsLate(d)'
    BY <2>1 DEF RowsLate, RepsOf
  <2> QED
    BY <1>1, <1>2, <1>3, <2>1, <2>2, <2>3, SnapsStill, HonorGoesOn
<1>8. CASE PurgeObjects(h)
  <2>1. /\ UNCHANGED <<forgets, work, spine, reps, claims, snapshots, boot>>
        /\ honor[h].pc = "objects" /\ honor' = [honor EXCEPT ![h].pc = "rebuild"]
        /\ objects' \subseteq objects
    BY <1>8 DEF PurgeObjects, HonorTo, HonorAt
  <2> QED
    BY <1>1, <1>2, <1>3, <1>4, <1>5, <2>1, SnapsStill, HonorGoesOn
<1>9. CASE RebuildProjection(h)
  <2>1. /\ UNCHANGED <<forgets, work, spine, reps, claims, objects, boot>>
        /\ honor[h].pc = "rebuild" /\ honor' = [honor EXCEPT ![h].pc = "snapshots"]
        /\ snapshots' = snapshots \cup
             {[docs |-> Shown, named |-> {}, late |-> ShownAgain(h) \cup ShownLate]}
    BY <1>9 DEF RebuildProjection, HonorTo, HonorAt
  <2>2. RowsLate(d)
    BY <1>2, <2>1
  <2>3. ASSUME NEW e \in Shown, Frozen(e) PROVE e \in ShownAgain(h) \cup ShownLate
    <3>1. CASE e # d
      BY <1>2, <2>3, <3>1 DEF ShownAgain, Target
    <3>2. CASE e = d
      <4>1. PICK v \in VersionsOf(d), n \in Attempts : <<v, n>> \in reps
        BY <3>2 DEF Shown
      <4>2. <<v, n>>[1] = v /\ <<v, n>>[2] = n /\ LineageOf[v] = d
        BY DEF VersionsOf
      <4>3. Rep(v, n) \in late
        BY <2>2, <4>1, <4>2 DEF RowsLate
      <4> QED
        BY <3>2, <4>3 DEF ShownLate
    <3> QED
      BY <3>1, <3>2
  <2>4. SnapsMove /\ CopiesMove
    BY <2>1, <2>3 DEF SnapsMove, CopiesMove
  <2> QED
    BY <1>1, <1>2, <1>3, <1>4, <1>5, <2>1, <2>2, <2>4, HonorGoesOn
<1>10. CASE PurgeProjections(h)
  <2>1. /\ UNCHANGED <<forgets, work, spine, reps, claims, objects, boot>>
        /\ honor[h].pc = "snapshots" /\ honor' = [honor EXCEPT ![h].pc = "verify"]
        /\ snapshots' = {s \in snapshots : d \notin s.named}
    BY <1>2, <1>10 DEF PurgeProjections, HonorTo, HonorAt, Target
  <2>2. SnapsMove /\ CopiesMove
    BY <1>2, <2>1 DEF SnapsMove, CopiesMove
  <2> QED
    BY <1>1, <1>2, <1>3, <1>4, <1>5, <2>1, <2>2, HonorGoesOn
<1>11. CASE Verify(h) /\ Verified(h)
  <2>1. /\ UNCHANGED <<forgets, work, spine, reps, claims, objects, snapshots, boot>>
        /\ honor[h].pc = "verify" /\ honor' = [honor EXCEPT ![h].pc = "complete"]
    BY <1>11 DEF Verify, HonorTo, HonorAt
  <2>2. ObjectsLate(d)
    <3>1. listed \cap ObjectsOf(d) \subseteq honor[h].manifest.objects \cup late
      BY <1>2 DEF EraseInv, CoverInv, CoveredIn
    <3>2. objects \cap honor[h].manifest.objects = {}
      BY <1>11 DEF Verified
    <3> QED
      BY <3>1, <3>2 DEF ObjectsLate
  <2>3. Purged(d)
    BY <1>2, <1>11 DEF Verified, Purged, Target
  <2>4. Gone(d)'
    BY <1>1, <1>2, <2>1, <2>2, <2>3 DEF Gone, ObjectsLate, RowsLate, Purged
  <2>5. RowsLate(d)'
    BY <2>4 DEF Gone
  <2> QED
    BY <1>1, <1>2, <1>3, <1>4, <2>1, <2>4, <2>5, SnapsStill, HonorGoesOn
<1>12. CASE MarkComplete(h)
  <2>1. /\ UNCHANGED <<work, spine, reps, claims, objects, snapshots, boot>>
        /\ honor[h].pc = "complete" /\ honor' = [honor EXCEPT ![h].pc = "done"]
        /\ forgets' = [forgets EXCEPT ![d].status = "complete"]
    BY <1>2, <1>12 DEF MarkComplete, HonorTo, HonorAt, Target, Status, Settled
  <2>2. \A e \in Docs : /\ forgets'[e].manifest = forgets[e].manifest
                        /\ forgets'[e].status = IF e = d THEN "complete" ELSE forgets[e].status
    BY <2>1 DEF StoreInv, ForgetInv, Types, RowType
  <2>3. ManifestsMove /\ FrozenStays
    BY <1>1, <2>1, <2>2 DEF ManifestsMove, FrozenStays, Frozen, Settled
  <2>4. Gone(d) /\ Gone(d)'
    BY <1>1, <1>2, <2>1 DEF Gone, ObjectsLate, RowsLate, Purged
  <2> QED
    BY <1>1, <1>2, <1>4, <2>1, <2>2, <2>3, <2>4, SnapsStill, HonorGoesOn DEF Gone
<1>13. CASE Verify(h) /\ ~Verified(h)
  BY <1>13, RaiseErase DEF Verify
<1>14. CASE CompleteForget(h)
  <2>1. /\ UNCHANGED <<forgets, spine, reps, claims, objects, snapshots, boot>>
        /\ honor' = [honor EXCEPT ![h] = NoHonor]
        /\ work' = [e \in Docs |-> IF work[e] = h THEN "done" ELSE work[e]]
    BY <1>14 DEF CompleteForget
  <2> QED
    BY <1>1, <2>1, WorkOf, HonorEnds
<1>15. CASE HonorDies(h)
  <2>1. /\ UNCHANGED <<forgets, work, spine, reps, claims, objects, snapshots>>
        /\ honor' = [honor EXCEPT ![h] = NoHonor]
        /\ boot' = boot \/ boot' = NotReady
    BY <1>15 DEF HonorDies
  <2> QED
    BY <1>1, <2>1, HonorEnds
<1> QED
  BY <1>6, <1>7, <1>8, <1>9, <1>10, <1>11, <1>12, <1>13, <1>14, <1>15 DEF HonorStep

LEMMA ReapErase ==
  ASSUME StoreInv, StoreInv', EraseInv, NEW d \in Docs, ReapForget(d)
  PROVE  EraseInv'
<1> USE DEF intentVars, contentVars, storeVars, driverVars, faultVars, historyVars
<1>1. /\ UNCHANGED <<forgets, spine, reps, claims, objects, snapshots, portable, backup, attempt,
                     honor, boot, listed, late>>
      /\ work' = [work EXCEPT ![d] = "pending"] /\ work[d] \in Honorers
  BY DEF ReapForget
<1>2. \A e \in Docs : work'[e] # "none" => work[e] # "none"
  BY <1>1, ForgetAssumption DEF StoreInv, StoreTypes
<1>3. ManifestsMove /\ FrozenStays /\ RowsMove
  BY <1>1, <1>2 DEF ManifestsMove, FrozenStays, Frozen, RowsMove
<1>4. HonorInv(Boot)'
  <2>1. StoresMove /\ SnapsMove
    BY <1>1, <1>3, AttemptStays, SnapsStill DEF StoresMove, ListMoves, ObjectsMove, BackupKept
  <2> QED
    BY <1>1, <2>1, HonorStays DEF EraseInv, HonorsSound
<1> QED
  BY <1>1, <1>3, <1>4, SnapsStill, ErasureMovesOn

-----------------------------------------------------------------------------
(* Readiness.                                                              *)

LEMMA BootMovesOn ==
  ASSUME StoreInv, StoreInv', EraseInv, ManifestsMove, FrozenStays, StillOutstanding,
         UNCHANGED <<spine, reps, claims, objects, snapshots, portable, backup, attempt,
                     listed, late>>,
         \A h \in Honorers : honor'[h] = honor[h],
         HonorInv(Boot)', GoneInv'
  PROVE  EraseInv'
<1>1. AttemptTyped' /\ WrittenStays /\ SnapsMove /\ CopiesMove
  BY AttemptStays, SnapsStill DEF EraseInv, AttemptTyped
<1>2. StoresMove
  BY <1>1 DEF StoresMove, RowsMove, ListMoves, ObjectsMove, BackupKept
<1>3. ListedInv' /\ CoverInv' /\ WorkInv'
  BY <1>2, ListedKept, CoverKept, WorkKept DEF EraseInv
<1>4. SnapInv'
  BY <1>1, <1>2, SnapKept DEF EraseInv
<1>5. HonorsSound'
  BY <1>1, <1>2, HonorStays DEF EraseInv, HonorsSound
<1> QED
  BY <1>1, <1>3, <1>4, <1>5 DEF EraseInv

LEMMA StillGone ==
  ASSUME UNCHANGED <<spine, reps, claims, objects, snapshots, listed, late>>, NEW d \in Docs
  PROVE  Gone(d) => Gone(d)'
  BY DEF Gone, ObjectsLate, RowsLate, Purged

LEMMA MaterializeErase ==
  ASSUME StoreInv, StoreInv', EraseInv, NEW d \in Docs, Materialize(d)
  PROVE  EraseInv'
<1> USE DEF intentVars, contentVars, storeVars, driverVars, faultVars, historyVars
<1>1. /\ UNCHANGED <<work, spine, reps, claims, objects, snapshots, portable, backup, attempt,
                     boot, listed, late>>
      /\ boot.pc = "honor" /\ d \in boot.todo /\ honor[Boot].pc = "idle"
      /\ forgets[d].manifest \in {None, portable[d]}
      /\ forgets' = IF forgets[d].manifest = None
                    THEN [forgets EXCEPT ![d] = [status |-> "accepted", manifest |-> portable[d]]]
                    ELSE forgets
      /\ honor' = [honor EXCEPT ![Boot] = [pc |-> "delete", doc |-> d, manifest |-> portable[d]]]
  BY DEF Materialize, HonorAt
<1>2. /\ portable[d] # None
      /\ \A e \in Docs : forgets[e].manifest # None => forgets[e].status \in Settled
      /\ forgets[d].manifest = None => forgets[d].status = "none"
  BY <1>1 DEF StoreInv, ForgetInv, Types, RowType, RowsSound, Sound, BootInv, ManifestsKept,
              Preparing, Settled, Status, Statuses
<1>3. /\ honor'[Boot] = [pc |-> "delete", doc |-> d, manifest |-> portable[d]]
      /\ \A h \in Honorers : honor'[h] = honor[h]
  BY <1>1, ForgetAssumption DEF StoreInv, ForgetInv, Types
<1>4. /\ forgets'[d].status \in Settled /\ forgets'[d].manifest = portable[d]
      /\ \A e \in Docs \ {d} : forgets'[e] = forgets[e]
      /\ forgets[d].manifest # None => forgets' = forgets
  BY <1>1, <1>2 DEF Settled, StoreInv, ForgetInv, Types
<1>5. ManifestsMove
  <2> SUFFICES ASSUME NEW e \in Docs
               PROVE  /\ forgets[e].manifest # None => forgets'[e].manifest = forgets[e].manifest
                      /\ forgets[e].manifest = None /\ forgets'[e].manifest # None =>
                           portable[e] # None /\ forgets'[e].manifest = portable[e]
                      /\ forgets[e].status \in Settled => forgets'[e].status \in Settled
    BY <1>1 DEF ManifestsMove
  <2> QED
    BY <1>2, <1>4
<1>6. FrozenStays
  BY <1>2, <1>4 DEF FrozenStays, Frozen
<1>7. StillOutstanding
  BY <1>1 DEF StillOutstanding, Outstanding
<1>8. HonorInv(Boot)'
  BY <1>3, <1>4 DEF HonorInv
<1>9. GoneInv'
  BY <1>1, StillGone DEF EraseInv, GoneInv
<1> QED
  BY <1>1, <1>3, <1>5, <1>6, <1>7, <1>8, <1>9, BootMovesOn

LEMMA BootErase ==
  ASSUME StoreInv, StoreInv', EraseInv, BootNext
  PROVE  EraseInv'
<1> USE DEF intentVars, contentVars, storeVars, driverVars, faultVars, historyVars
<1>1. CASE \E d \in Docs : Materialize(d)
  BY <1>1, MaterializeErase
<1>2. ASSUME UNCHANGED <<forgets, work, spine, reps, claims, objects, snapshots, portable, backup,
                         attempt, listed, late>>,
             \A h \in Honorers : honor'[h] = honor[h],
             HonorInv(Boot)', StillOutstanding,
             boot'.pc = "up" => \A d \in Docs : forgets[d].status = "complete" => Gone(d),
             boot'.pc = "honor" =>
               \A d \in Docs : portable[d] # None /\ d \notin boot'.todo => Gone(d)
      PROVE  EraseInv'
  <2>1. ManifestsMove /\ FrozenStays
    BY <1>2 DEF ManifestsMove, FrozenStays, Frozen
  <2>2. GoneInv'
    BY <1>2, StillGone DEF GoneInv
  <2> QED
    BY <1>2, <2>1, <2>2, BootMovesOn
<1>3. boot.pc # "honor" => honor[Boot].pc = "idle"
  BY DEF StoreInv, ForgetInv, BootInv
<1>4. boot \in [pc : {"up", "start", "request", "honor"}, todo : SUBSET Docs]
  BY DEF StoreInv, ForgetInv, Types
<1>5. CASE \E d \in Docs : BootRequest(d)
  <2>1. /\ UNCHANGED <<forgets, work, spine, reps, claims, objects, snapshots, portable, backup,
                       attempt, listed, late, honor>>
        /\ boot.pc = "start" /\ boot'.pc = "request"
    BY <1>4, <1>5 DEF BootRequest
  <2>2. HonorInv(Boot)' /\ StillOutstanding
    BY <1>3, <2>1 DEF HonorInv, StillOutstanding, Outstanding
  <2> QED
    BY <1>2, <2>1, <2>2
<1>6. CASE BootRaises
  <2>1. /\ UNCHANGED <<forgets, work, spine, reps, claims, objects, snapshots, portable, backup,
                       attempt, listed, late, honor>>
        /\ boot.pc = "request" /\ boot'.pc = "start"
    BY <1>4, <1>6 DEF BootRaises
  <2>2. HonorInv(Boot)' /\ StillOutstanding
    BY <1>3, <2>1 DEF HonorInv, StillOutstanding, Outstanding
  <2> QED
    BY <1>2, <2>1, <2>2
<1>7. CASE BootEnumerate
  <2>1. /\ UNCHANGED <<forgets, work, spine, reps, claims, objects, snapshots, portable, backup,
                       attempt, listed, late, honor>>
        /\ boot.pc \in {"start", "request"} /\ boot' = [pc |-> "honor", todo |-> ManifestsKept]
    BY <1>7 DEF BootEnumerate
  <2>2. HonorInv(Boot)' /\ StillOutstanding
    BY <1>3, <2>1 DEF HonorInv, StillOutstanding, Outstanding, ManifestsKept
  <2>3. \A d \in Docs : portable[d] # None => d \in boot'.todo
    BY <2>1 DEF ManifestsKept
  <2> QED
    BY <1>2, <2>1, <2>2, <2>3
<1>8. CASE BootHonored
  <2>1. /\ UNCHANGED <<forgets, work, spine, reps, claims, objects, snapshots, portable, backup,
                       attempt, listed, late>>
        /\ boot.pc = "honor" /\ honor[Boot].pc = "done"
        /\ boot' = [boot EXCEPT !.todo = @ \ {honor[Boot].doc}]
        /\ honor' = [honor EXCEPT ![Boot] = NoHonor]
    BY <1>8 DEF BootHonored, HonorAt, Target
  <2>2. honor[Boot].doc \in Docs /\ Gone(honor[Boot].doc)
    BY <2>1, HonorFacts
  <2>3. /\ honor'[Boot].pc = "idle" /\ \A h \in Honorers : honor'[h] = honor[h]
        /\ boot'.pc = "honor" /\ boot'.todo = boot.todo \ {honor[Boot].doc}
    BY <1>4, <2>1, ForgetAssumption DEF StoreInv, ForgetInv, Types, NoHonor
  <2>4. HonorInv(Boot)'
    BY <2>3 DEF HonorInv
  <2>5. StillOutstanding
    <3>1. \A e \in Docs : Purged(e) => Purged(e)'
      BY <2>1 DEF Purged
    <3>2. \A e \in Docs : e \in boot.todo => e \in boot'.todo \/ Purged(e)'
      BY <2>2, <2>3, <3>1 DEF Gone
    <3> QED
      BY <2>1, <2>3, <3>2 DEF StillOutstanding, Outstanding
  <2>6. \A d \in Docs : portable[d] # None /\ d \notin boot'.todo => Gone(d)
    BY <2>1, <2>2, <2>3 DEF EraseInv, GoneInv
  <2> QED
    BY <1>2, <2>1, <2>3, <2>4, <2>5, <2>6
<1>9. CASE BootServes
  <2>1. /\ UNCHANGED <<forgets, work, spine, reps, claims, objects, snapshots, portable, backup,
                       attempt, listed, late, honor>>
        /\ boot.pc = "honor" /\ boot.todo = {} /\ boot'.pc = "up"
    BY <1>4, <1>9 DEF BootServes
  <2>2. honor[Boot].pc = "idle"
    BY <2>1 DEF StoreInv, ForgetInv, BootInv
  <2>3. HonorInv(Boot)' /\ StillOutstanding
    BY <2>1, <2>2 DEF HonorInv, StillOutstanding, Outstanding
  <2>4. \A d \in Docs : forgets[d].status = "complete" => Gone(d)
    BY <2>1, CompleteHasManifest DEF EraseInv, GoneInv, Settled
  <2> QED
    BY <1>2, <2>1, <2>3, <2>4
<1> QED
  BY <1>1, <1>5, <1>6, <1>7, <1>8, <1>9 DEF BootNext

-----------------------------------------------------------------------------
(* Backups and restores.                                                   *)

LEMMA TakeBackupErase ==
  ASSUME StoreInv, StoreInv', EraseInv, TakeBackup
  PROVE  EraseInv'
<1> USE DEF intentVars, contentVars, storeVars, driverVars, faultVars, historyVars
<1>1. /\ UNCHANGED <<forgets, work, spine, reps, claims, objects, snapshots, portable, attempt,
                     honor, boot, listed, late>>
      /\ backup'.forgets = forgets /\ backup'.work = work /\ backup'.spine = spine
      /\ backup'.reps = reps /\ backup'.listed = listed /\ backup'.snapshots = snapshots
  BY DEF TakeBackup, Copy
<1>2. AttemptTyped'
  BY <1>1 DEF EraseInv, AttemptTyped
<1>3. ListedInv'
  BY <1>1 DEF EraseInv, ListedInv, NamedIn, Written
<1>4. CoverInv'
  BY <1>1 DEF EraseInv, CoverInv, CoveredIn, NominatedIn
<1>5. SnapInv'
  BY <1>1 DEF EraseInv, SnapInv, Shows, Frozen, Outstanding
<1>6. WorkInv'
  BY <1>1 DEF EraseInv, WorkInv
<1>7. HonorsSound' /\ GoneInv'
  BY <1>1 DEF EraseInv, HonorsSound, HonorInv, GoneInv, Gone, ObjectsLate, RowsLate, Purged
<1> QED
  BY <1>2, <1>3, <1>4, <1>5, <1>6, <1>7 DEF EraseInv

(* What a restore leaves of the rows is the copy's or what there was, and  *)
(* so are the snapshots; the manifest store keeps what it has.             *)
RestoredRows(from) ==
  /\ forgets' = from.forgets /\ work' = from.work /\ spine' = from.spine
  /\ reps' = from.reps
  /\ listed' = from.listed \cup UNION {portable[d].objects : d \in ManifestsKept}

LEMMA RestoreErase ==
  ASSUME StoreInv, StoreInv', EraseInv, NEW lost \in Losses, Restore(lost)
  PROVE  EraseInv'
<1> DEFINE kept == UNION {portable[d].objects : d \in ManifestsKept}
<1>1. /\ backup # None /\ backup' = backup /\ portable' = portable /\ late' = late
      /\ honor' = [h \in Honorers \cup {Boot} |-> NoHonor] /\ boot' = NotReady
      /\ attempt' = [v \in Versions |-> [n \in Attempts |->
                       IF attempt[v][n] = "none" THEN "none" ELSE "over"]]
  BY DEF Restore
<1>2. \/ /\ forgets' = backup.forgets /\ work' = backup.work /\ spine' = backup.spine
         /\ reps' = backup.reps /\ listed' = backup.listed \cup kept
      \/ /\ forgets' = forgets /\ work' = work /\ spine' = spine
         /\ reps' = reps /\ listed' = listed \cup kept
  <2>1. RestoredRows(IF "spine" \in lost THEN backup ELSE Copy)
    BY DEF Restore, RestoredRows
  <2>2. CASE "spine" \in lost
    BY <2>1, <2>2 DEF RestoredRows
  <2>3. CASE "spine" \notin lost
    BY <2>1, <2>3 DEF RestoredRows, Copy
  <2> QED
    BY <2>2, <2>3
<1>3. snapshots' = backup.snapshots \/ snapshots' = snapshots
  BY DEF Restore, Copy
<1>4. /\ kept \subseteq listed
      /\ \A d \in Docs : portable[d] # None => portable[d].objects \subseteq kept
      /\ \A o \in kept : \E d \in Docs : portable[d] # None /\ o \in portable[d].objects
  BY DEF ManifestsKept, EraseInv, ListedInv
<1> HIDE DEF kept
<1>5. listed' \subseteq listed /\ backup.listed \subseteq listed'
  BY <1>1, <1>2, <1>4 DEF EraseInv, ListedInv
<1>6. AttemptTyped' /\ WrittenStays
  BY <1>1 DEF EraseInv, AttemptTyped, WrittenStays, Written
<1>7. ListedInv'
  <2>1. \A v \in Versions, n \in Attempts :
          Side(v, n) \notin listed' /\ (Artifact(v, n) \in listed' => Written(v, n)')
    BY <1>5, <1>6 DEF EraseInv, ListedInv, WrittenStays
  <2>2. NamedIn(forgets, spine, reps, listed)'
    BY <1>1, <1>2 DEF EraseInv, ListedInv, NamedIn
  <2>3. \A d \in Docs : portable'[d] # None =>
          portable'[d].objects \subseteq listed' \cap ObjectsOf(d)
    BY <1>1, <1>2, <1>4 DEF EraseInv, ListedInv
  <2>4. NamedIn(backup.forgets, backup.spine, backup.reps, backup.listed)'
    BY <1>1 DEF EraseInv, ListedInv
  <2>5. \A d \in Docs : backup'.forgets[d].manifest # None => forgets'[d].manifest # None
    BY <1>1, <1>2 DEF EraseInv, ListedInv
  <2> QED
    BY <1>1, <1>5, <2>1, <2>2, <2>3, <2>4, <2>5 DEF ListedInv
<1>8. CoverInv'
  <2> SUFFICES ASSUME NEW d \in Docs
               PROVE  /\ listed' \cap ObjectsOf(d) \subseteq
                           CoveredIn(forgets, spine, reps, d)' \cup late'
                      /\ backup' # None =>
                           backup'.listed \cap ObjectsOf(d) \subseteq
                             CoveredIn(backup.forgets, backup.spine, backup.reps, d)' \cup late'
    BY DEF CoverInv
  <2>1. kept \cap ObjectsOf(d) \subseteq CoveredIn(forgets, spine, reps, d)'
    <3> SUFFICES ASSUME NEW o \in kept, o \in ObjectsOf(d)
                 PROVE  o \in CoveredIn(forgets, spine, reps, d)'
      OBVIOUS
    <3>1. PICK e \in Docs : portable[e] # None /\ o \in portable[e].objects
      BY <1>4
    <3>2. o \in ObjectsOf(e)
      BY <3>1 DEF EraseInv, ListedInv
    <3>3. e = d
      BY <3>2 DEF ObjectsOf
    <3> QED
      BY <1>1, <3>1, <3>3 DEF CoveredIn
  <2>2. backup.listed \cap ObjectsOf(d) \subseteq
          CoveredIn(backup.forgets, backup.spine, backup.reps, d) \cup late
    BY <1>1 DEF EraseInv, CoverInv
  <2>3. listed \cap ObjectsOf(d) \subseteq CoveredIn(forgets, spine, reps, d) \cup late
    BY DEF EraseInv, CoverInv
  <2>4. /\ CoveredIn(forgets, spine, reps, d)' =
             IF portable[d] # None THEN portable[d].objects
             ELSE IF forgets'[d].manifest # None THEN forgets'[d].manifest.objects
             ELSE NominatedIn(spine', reps', d)
        /\ CoveredIn(backup.forgets, backup.spine, backup.reps, d)' =
             CoveredIn(backup.forgets, backup.spine, backup.reps, d)
    BY <1>1 DEF CoveredIn, NominatedIn
  <2>5. CASE /\ forgets' = backup.forgets /\ spine' = backup.spine
             /\ reps' = backup.reps /\ listed' = backup.listed \cup kept
    BY <1>1, <2>1, <2>2, <2>4, <2>5 DEF CoveredIn
  <2>6. CASE /\ forgets' = forgets /\ spine' = spine
             /\ reps' = reps /\ listed' = listed \cup kept
    BY <1>1, <2>1, <2>2, <2>3, <2>4, <2>6 DEF CoveredIn
  <2> QED
    BY <1>2, <2>5, <2>6
<1>9. SnapInv'
  <2>1. \A e \in Docs : portable[e] # None => Outstanding(e)'
    BY <1>1 DEF Outstanding, NotReady
  <2>2. \A e : Outstanding(e) => (e \in Docs => portable[e] # None)
    BY DEF Outstanding, StoreInv, ForgetInv, BootInv, ManifestsKept
  <2>3. \A d \in Docs : Frozen(d)' => Frozen(d)
    BY <1>1, <1>2 DEF Frozen, EraseInv, ListedInv
  <2>4. /\ \A s \in snapshots : s.docs \subseteq Docs /\ s.named \subseteq Docs
        /\ \A s \in backup.snapshots : s.docs \subseteq Docs /\ s.named \subseteq Docs
    BY <1>1 DEF StoreInv, StoreTypes, BackupTypes, Snapshots
  <2>5. \A s \in snapshots : \A d \in s.docs : Frozen(d)' => Shows(s, d)'
    BY <2>1, <2>2, <2>3, <2>4 DEF EraseInv, SnapInv, Shows
  <2>6. \A s \in backup.snapshots : s \in snapshots \/ \E e \in s.named : portable[e] # None
    BY <1>1 DEF EraseInv, SnapInv
  <2>7. \A s \in backup.snapshots : \A d \in s.docs : Frozen(d)' => Shows(s, d)'
    BY <2>1, <2>4, <2>5, <2>6 DEF Shows
  <2> QED
    BY <1>1, <1>3, <2>5, <2>6, <2>7 DEF SnapInv
<1>10. WorkInv'
  BY <1>1, <1>2 DEF EraseInv, WorkInv
<1>11. HonorsSound' /\ GoneInv'
  BY <1>1 DEF HonorsSound, HonorInv, GoneInv, NoHonor, NotReady
<1> QED
  BY <1>6, <1>7, <1>8, <1>9, <1>10, <1>11 DEF EraseInv

-----------------------------------------------------------------------------
LEMMA InitErase == Init => EraseInv
<1> SUFFICES ASSUME Init PROVE EraseInv
  OBVIOUS
<1>1. /\ \A d \in Docs : forgets[d].status = "none" /\ forgets[d].manifest = None
                         /\ portable[d] = None /\ work[d] = "none"
      /\ \A h \in Honorers \cup {Boot} : honor[h].pc = "idle"
      /\ backup = None /\ listed = {} /\ snapshots = {} /\ spine = {} /\ reps = {}
      /\ boot.pc = "up"
  BY DEF Init, NoRow, NoHonor
<1>2. AttemptTyped
  BY DEF Init, AttemptTyped
<1>3. ListedInv /\ CoverInv
  BY <1>1 DEF ListedInv, NamedIn, CoverInv
<1>4. SnapInv /\ WorkInv /\ HonorsSound /\ GoneInv
  BY <1>1 DEF SnapInv, WorkInv, HonorsSound, HonorInv, GoneInv
<1> QED
  BY <1>2, <1>3, <1>4 DEF EraseInv

LEMMA NextErase == StoreInv /\ StoreInv' /\ EraseInv /\ [Next]_vars => EraseInv'
<1> SUFFICES ASSUME StoreInv, StoreInv', EraseInv, [Next]_vars PROVE EraseInv'
  OBVIOUS
<1>1. CASE UNCHANGED vars
  BY <1>1 DEF vars, intentVars, contentVars, storeVars, driverVars, faultVars, historyVars,
              EraseInv, AttemptTyped, ListedInv, NamedIn, Written, CoverInv, CoveredIn,
              NominatedIn, SnapInv, Shows, Frozen, Outstanding, WorkInv, HonorsSound, HonorInv,
              GoneInv, Gone, ObjectsLate, RowsLate, Purged
<1>2. CASE \E v \in Versions : IngestNext(v) \/ ReapRow(v)
  BY <1>2, IngestErase
<1>3. CASE \E v \in Versions, n \in Attempts : WorkNext(v, n)
  BY <1>3, WorkErase
<1>4. CASE \E q \in Callers \cup {Boot} : CallNext(q)
  BY <1>4, CallErase
<1>5. CASE \E h \in Honorers, d \in Docs : ClaimForget(h, d)
  BY <1>5, ClaimForgetErase
<1>6. CASE \E h \in Honorers \cup {Boot} : HonorStep(h) \/ HonorDies(h)
  BY <1>6, HonorErase
<1>7. CASE \E d \in Docs : ReapForget(d)
  BY <1>7, ReapErase
<1>8. CASE BootNext
  BY <1>8, BootErase
<1>9. CASE TakeBackup
  BY <1>9, TakeBackupErase
<1>10. CASE \E lost \in Losses : Restore(lost)
  BY <1>10, RestoreErase
<1> QED
  BY <1>1, <1>2, <1>3, <1>4, <1>5, <1>6, <1>7, <1>8, <1>9, <1>10 DEF Next

THEOREM ErasureInvariant == Spec => []EraseInv
<1>1. StoreInv /\ StoreInv' /\ EraseInv /\ [Next]_vars => EraseInv'
  BY NextErase
<1> QED
  BY <1>1, InitErase, ForgetInvariant, PTL DEF Spec

(* A deployment that serves has erased every lineage it says it forgot,    *)
(* whichever stores were lost and restored, whatever died in between and   *)
(* whatever stalled attempts woke up: of its listed objects, its rows, its *)
(* claims and the snapshots that show it only what was written after its   *)
(* inventory is left (HardForgetHandler.honor, ensure_ready).              *)
THEOREM ForgottenAreErased == Spec => []ForgottenStaysErased
<1>1. StoreInv /\ EraseInv => ForgottenStaysErased
  <2> SUFFICES ASSUME StoreInv, EraseInv, NEW d \in Docs, Serving, Status(d) = "complete"
               PROVE  Erased(d)
    BY DEF ForgottenStaysErased
  <2>1. Gone(d) /\ Frozen(d)
    BY CompleteHasManifest DEF Serving, Status, EraseInv, GoneInv, Frozen, Settled
  <2>2. {o \in objects \cap listed : LineageOf[o[2]] = d} \subseteq late
    BY <2>1 DEF Gone, ObjectsLate, ObjectsOf, StoreInv, StoreTypes
  <2>3. {VersionRow(v) : v \in spine \cap VersionsOf(d)} \subseteq late
    BY <2>1 DEF Gone, RowsLate
  <2>4. {Rep(r[1], r[2]) : r \in RepsOf(d)} \subseteq late
    BY <2>1 DEF Gone, RowsLate, RepsOf
  <2>5. {Claim(v) : v \in claims \cap VersionsOf(d)} \subseteq late
    BY <2>1 DEF Gone, RowsLate
  <2>6. ASSUME NEW s \in snapshots, d \in s.docs PROVE d \in s.late
    <3>1. Shows(s, d)
      BY <2>1, <2>6 DEF EraseInv, SnapInv
    <3>2. d \notin s.named
      BY <2>1 DEF Gone, Purged
    <3>3. \A e : ~Outstanding(e)
      BY DEF Outstanding, Serving
    <3> QED
      BY <3>1, <3>2, <3>3 DEF Shows
  <2> QED
    BY <2>2, <2>3, <2>4, <2>5, <2>6 DEF Erased
<1> QED
  BY <1>1, ForgetInvariant, ErasureInvariant, PTL
=============================================================================
