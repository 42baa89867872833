------------------------- MODULE ProcessingLayers -------------------------
(***************************************************************************)
(* The processing layers of one lineage: which of its versions enters the  *)
(* claims layer and the facts layer, and when.                             *)
(*                                                                         *)
(* A configured deployment decides at two boundaries, records a gap for    *)
(* the version there and runs one procedure, advance, that enters the      *)
(* lineage's next version.  The same procedure runs when a version reaches *)
(* a layer's frontier, when a version is deleted and when setup seeds.     *)
(* Every such event is one transaction under the shared layer fence and    *)
(* the lineage lock, and a configuration change takes the fence            *)
(* exclusively: each is one action here.  The reconcile handler is not:    *)
(* it reads, supersedes and completes in three transactions.               *)
(***************************************************************************)
EXTENDS Integers, FiniteSets

CONSTANTS
  LastVersion,      \* bound on the versions ingested
  InitialConfigs,   \* configurations the deployment may start with
  LineageModes,     \* versioning modes: TRUE for living, FALSE for snapshot
  ZeroChunkSets,    \* the sets of versions that may turn out to have no chunk
  MaxDeleted,       \* bound on the versions deleted one by one
  MaxSwitches,      \* bound on configuration changes
  MayDie            \* the stages whose rows may dead-letter

Versions   == 1..LastVersion
Layers     == {"claims", "facts"}
Stages     == {"extract", "facts", "full", "claimEmbed", "tail"}
Reconciles == {"full", "tail"}
Unset      == 0   \* no version: a NULL current_version_id

Configs == {c \in [configured : BOOLEAN, claims : BOOLEAN, facts : BOOLEAN] :
               /\ c.facts => c.claims
               /\ ~c.configured => c.facts}

ASSUME LayersAssumption ==
  /\ LastVersion \in Nat
  /\ InitialConfigs \subseteq Configs
  /\ LineageModes \subseteq BOOLEAN
  /\ ZeroChunkSets \subseteq SUBSET Versions
  /\ MaxDeleted \in Nat
  /\ MaxSwitches \in Nat
  /\ MayDie \subseteq Stages

VARIABLES
  living,      \* the lineage's versioning mode
  zeroChunk,   \* the versions whose chunk grid is empty
  config,      \* deployment_processing_layers
  seedOwed,    \* the layers setup has still to seed
  lin,         \* the lineage: its versions, gaps and work rows
  testimony,   \* the claims only this version carries: none, current, retired
  seen,        \* the current version a reconcile read before superseding
  cascading,   \* deleted versions whose currency cascade has not run
  switches     \* configuration changes so far

layerVars == <<living, zeroChunk, config, seedOwed, lin, testimony, seen,
               cascading, switches>>
vars == layerVars

(* Statuses of a work row: a reconcile passes through read and applied. *)
RowStatuses == {"none", "open", "read", "applied", "done", "dead"}
InFlight    == {"open", "read", "applied"}

-----------------------------------------------------------------------------
(* Reading a lineage *)

Live(s, v)            == v \notin s.deleted
SourcesComplete(s, v) == s.sources[v] = "embedded"

OccurrencesComplete(s, v) ==
  SourcesComplete(s, v) /\ (v \in zeroChunk \/ s.work[v]["extract"] = "done")

Frontier(s, layer, v) ==
  IF layer = "claims"
  THEN OccurrencesComplete(s, v) /\ s.work[v]["claimEmbed"] = "done"
  ELSE s.work[v]["full"] = "done"

Settled(s, layer, v) == Frontier(s, layer, v) \/ s.gap[v][layer] = "discharged"

FactsSettledOnceGapped(s, v) ==   \* mutant
  s.work[v]["full"] = "done" \/ s.gap[v]["facts"] # "none"

FactsSettled(s, v) ==
  s.work[v]["full"] = "done" \/ s.gap[v]["facts"] \in {"open", "discharged"}

Earlier(s, v) == {u \in 1..(v - 1) : Live(s, u) /\ SourcesComplete(s, u)}

Waiting(s, layer) == {v \in Versions : Live(s, v) /\ s.gap[v][layer] = "open"}

(* The version advance would enter next: at most one. *)
Target(s, layer) ==
  {v \in Waiting(s, layer) :
     IF living THEN v = s.current ELSE \A u \in Waiting(s, layer) : v <= u}

AdmitsBesideTail(s, layer, v) ==   \* mutant
  /\ SourcesComplete(s, v)
  /\ \A u \in Earlier(s, v) : Settled(s, layer, u)
  /\ layer = "facts" => OccurrencesComplete(s, v)

Admits(s, layer, v) ==
  /\ SourcesComplete(s, v)
  /\ \A u \in Earlier(s, v) : Settled(s, layer, u)
  /\ layer = "facts" => /\ OccurrencesComplete(s, v)
                        /\ s.work[v]["tail"] \in {"none", "done"}

-----------------------------------------------------------------------------
(* What a transaction does to a lineage *)

Enqueue(s, v, stages) ==
  [s EXCEPT !.work[v] = [st \in Stages |->
     IF st \in stages /\ @[st] = "none" THEN "open" ELSE @[st]]]

RecordGap(s, v, layer) ==
  [s EXCEPT !.gap[v][layer] = IF @ = "none" THEN "open" ELSE @]

(* The layer and every layer built from it. *)
Dependent(layer) == IF layer = "claims" THEN Layers ELSE {layer}

ReopenCurrent(s, layer) ==
  IF s.current # Unset /\ s.gap[s.current][layer] = "discharged"
  THEN [s EXCEPT !.gap[s.current] = [l \in Layers |->
          IF l \in Dependent(layer) /\ @[l] = "discharged" THEN "open" ELSE @[l]]]
  ELSE s

DischargeSuperseded(s, layer) ==
  [s EXCEPT !.gap = [v \in Versions |->
     IF v # s.current /\ s.gap[v][layer] = "open"
     THEN [l \in Layers |-> IF l \in Dependent(layer) /\ s.gap[v][l] # "entered"
                            THEN "discharged" ELSE s.gap[v][l]]
     ELSE s.gap[v]]]

OpenTails(s, versions) ==
  [s EXCEPT !.work = [v \in Versions |->
     IF v \in versions
     THEN [st \in Stages |-> IF /\ st \in {"claimEmbed", "tail"}
                                /\ s.work[v][st] = "none"
                             THEN "open" ELSE s.work[v][st]]
     ELSE s.work[v]]]

(* The claims tails the lineage owes and may open, one version being admitted
   to facts. *)
OwedTails(s, factsOn, admitted) ==
  {v \in Versions \ (admitted \cup s.deleted) :
     /\ s.gap[v]["facts"] \in {"open", "discharged"}
     /\ s.work[v]["tail"] = "none"
     /\ OccurrencesComplete(s, v)
     /\ \/ ~factsOn
        \/ s.gap[v]["facts"] = "discharged"
        \/ ~living /\ \E u \in Waiting(s, "facts") : u < v
     /\ \A u \in Earlier(s, v) : FactsSettled(s, u)}

EnterFacts(s, v) ==
  Enqueue(s, v, IF v \in zeroChunk THEN {"full", "claimEmbed"} ELSE {"facts"})

Stamp(s, layer, v) == [s EXCEPT !.gap[v][layer] = "entered"]

ReopenedIfEnabled(s, layer) ==   \* mutant
  IF living /\ config[layer] THEN ReopenCurrent(s, layer) ELSE s

Reopened(s, layer) == IF living THEN ReopenCurrent(s, layer) ELSE s

Prepared(s, layer) ==
  LET r == Reopened(s, layer)
  IN IF config[layer] /\ living THEN DischargeSuperseded(r, layer) ELSE r

Admitted(s, layer) ==
  {v \in Target(s, layer) : config[layer] /\ Admits(s, layer, v)}

AdvanceFacts(s) ==
  LET p == Prepared(s, "facts")
      admitted == Admitted(p, "facts")
      o == OpenTails(p, OwedTails(p, config.facts, admitted))
  IN IF admitted = {} THEN o
     ELSE LET v == CHOOSE v \in admitted : TRUE
          IN EnterFacts(Stamp(o, "facts", v), v)

FactsBoundaryTailOnly(s, v) ==   \* mutant
  IF Live(s, v) /\ config.facts THEN AdvanceFacts(RecordGap(s, v, "facts"))
  ELSE IF config.facts THEN EnterFacts(s, v)
  ELSE OpenTails(s, {v})

FactsBoundary(s, v) ==
  IF Live(s, v) THEN AdvanceFacts(RecordGap(s, v, "facts"))
  ELSE IF config.facts THEN EnterFacts(s, v)
  ELSE OpenTails(s, {v})

EnterClaims(s, v) ==
  IF v \in zeroChunk THEN FactsBoundary(s, v) ELSE Enqueue(s, v, {"extract"})

AdvanceClaims(s) ==
  LET p == Prepared(s, "claims")
      admitted == Admitted(p, "claims")
  IN IF admitted = {} THEN p
     ELSE LET v == CHOOSE v \in admitted : TRUE
          IN EnterClaims(Stamp(p, "claims", v), v)

ClaimsBoundary(s, v) ==
  IF config.claims
  THEN IF Live(s, v) THEN AdvanceClaims(RecordGap(s, v, "claims"))
       ELSE EnterClaims(s, v)
  ELSE IF Live(s, v) THEN RecordGap(RecordGap(s, v, "claims"), v, "facts")
  ELSE s

FrontierReached(s, v, layer) ==
  LET g == [s EXCEPT !.gap[v][layer] = "none"]
  IN IF layer = "claims" THEN AdvanceClaims(g) ELSE AdvanceFacts(g)

LineageChangedKeepsGaps(s) ==   \* mutant
  IF config.configured THEN AdvanceFacts(AdvanceClaims(s)) ELSE s

LineageChanged(s) ==
  LET g == [s EXCEPT !.gap = [v \in Versions |->
              IF v \in s.deleted THEN [l \in Layers |-> "none"] ELSE s.gap[v]]]
  IN IF config.configured THEN AdvanceFacts(AdvanceClaims(g)) ELSE s

-----------------------------------------------------------------------------
Init ==
  /\ living \in LineageModes
  /\ zeroChunk \in ZeroChunkSets
  /\ config \in InitialConfigs
  /\ seedOwed = {}
  /\ lin = [latest  |-> 0, current |-> Unset, deleted |-> {},
            sources |-> [v \in Versions |-> "absent"],
            gap     |-> [v \in Versions |-> [l \in Layers |-> "none"]],
            work    |-> [v \in Versions |-> [st \in Stages |-> "none"]]]
  /\ testimony = [v \in Versions |-> "none"]
  /\ seen = [v \in Versions |-> Unset]
  /\ cascading = {}
  /\ switches = 0

Static     == <<living, zeroChunk>>
SetupVars  == <<config, seedOwed, switches>>
CurrencyOf == <<testimony, seen, cascading>>

-----------------------------------------------------------------------------
(* The sources layer *)

(* A new version; it revives a lineage that was deleted as a whole. *)
Ingest ==
  /\ lin.latest < LastVersion
  /\ lin' = [lin EXCEPT !.latest = @ + 1, !.sources[lin.latest + 1] = "converting"]
  /\ UNCHANGED <<Static, SetupVars, CurrencyOf>>

(* Structuring makes the version ready and moves the lineage's pointer
   forward.  It looks neither at deletion nor at the layers. *)
Structured(v) ==
  /\ lin.sources[v] = "converting"
  /\ lin' = [lin EXCEPT !.sources[v] = "ready",
                        !.current = IF @ = Unset \/ @ < v THEN v ELSE @]
  /\ UNCHANGED <<Static, SetupVars, CurrencyOf>>

EmbedCompletes(v) ==
  /\ lin.sources[v] = "ready"
  /\ LET s == [lin EXCEPT !.sources[v] = "embedded"]
     IN lin' = IF config.configured THEN ClaimsBoundary(s, v)
               ELSE IF v \in zeroChunk THEN EnterFacts(s, v)
               ELSE Enqueue(s, v, {"extract"})
  /\ UNCHANGED <<Static, SetupVars, CurrencyOf>>

-----------------------------------------------------------------------------
(* The claims and facts layers *)

Done(v, stage) == [lin EXCEPT !.work[v][stage] = "done"]

(* The extraction of a deleted version publishes nothing and never succeeds. *)
ExtractCompletes(v) ==
  /\ lin.work[v]["extract"] = "open" /\ Live(lin, v)
  /\ lin' = LET s == Done(v, "extract")
            IN IF config.configured THEN FactsBoundary(s, v) ELSE EnterFacts(s, v)
  /\ testimony' = [testimony EXCEPT ![v] = "current"]
  /\ UNCHANGED <<Static, SetupVars, seen, cascading>>

FactsComplete(v) ==
  /\ lin.work[v]["facts"] = "open"
  /\ lin' = Enqueue(Done(v, "facts"), v, {"full", "claimEmbed"})
  /\ UNCHANGED <<Static, SetupVars, CurrencyOf>>

ClaimsEmbedded(v) ==
  /\ lin.work[v]["claimEmbed"] = "open"
  /\ LET s == Done(v, "claimEmbed")
     IN lin' = IF config.configured THEN FrontierReached(s, v, "claims") ELSE s
  /\ UNCHANGED <<Static, SetupVars, CurrencyOf>>

(* Testimony no longer carried once version cur is the lineage's content. *)
Superseded(cur) ==
  [u \in Versions |-> IF u # cur /\ testimony[u] = "current" THEN "retired"
                      ELSE testimony[u]]

(* The handler reads the version's context.  Late work of a deleted version is
   retired here; a snapshot lineage supersedes nothing. *)
ReconcileReads(v, stage) ==
  /\ lin.work[v][stage] = "open"
  /\ IF Live(lin, v) /\ living /\ lin.current # Unset
     THEN /\ lin' = [lin EXCEPT !.work[v][stage] = "read"]
          /\ seen' = [seen EXCEPT ![v] = lin.current]
     ELSE /\ lin' = [lin EXCEPT !.work[v][stage] = "applied"]
          /\ UNCHANGED seen
  /\ testimony' = IF Live(lin, v) \/ testimony[v] # "current" THEN testimony
                  ELSE [testimony EXCEPT ![v] = "retired"]
  /\ UNCHANGED <<Static, SetupVars, cascading>>

(* Supersession: unguarded against the version read before, or, configured,
   against the present one if its occurrences are complete. *)
Guarded(v) ==
  /\ lin.current # Unset
  /\ lin.current = v \/ OccurrencesComplete(lin, lin.current)

ReconcileSupersedes(v, stage) ==
  /\ lin.work[v][stage] = "read"
  /\ testimony' = IF ~config.configured THEN Superseded(seen[v])
                  ELSE IF Guarded(v) THEN Superseded(lin.current)
                  ELSE testimony
  /\ lin' = [lin EXCEPT !.work[v][stage] = "applied"]
  /\ seen' = [seen EXCEPT ![v] = Unset]
  /\ UNCHANGED <<Static, SetupVars, cascading>>

ReconcileCompletesQuietly(v, stage) ==   \* mutant
  /\ lin.work[v][stage] = "applied"
  /\ LET s == Done(v, stage)
     IN lin' = IF config.configured /\ stage = "full" THEN FrontierReached(s, v, "facts")
               ELSE s
  /\ UNCHANGED <<Static, SetupVars, CurrencyOf>>

ReconcileCompletes(v, stage) ==
  /\ lin.work[v][stage] = "applied"
  /\ LET s == Done(v, stage)
     IN lin' = IF ~config.configured THEN s
               ELSE IF stage = "full" THEN FrontierReached(s, v, "facts")
               ELSE AdvanceFacts(s)
  /\ UNCHANGED <<Static, SetupVars, CurrencyOf>>

DeadLetters(v, stage) ==
  /\ lin.work[v][stage] \in InFlight
  /\ stage \in MayDie \/ (stage = "extract" /\ ~Live(lin, v))
  /\ lin' = [lin EXCEPT !.work[v][stage] = "dead"]
  /\ seen' = [seen EXCEPT ![v] = IF lin.work[v][stage] = "read" THEN Unset ELSE @]
  /\ UNCHANGED <<Static, SetupVars, testimony, cascading>>

Replays(v, stage) ==
  /\ lin.work[v][stage] = "dead"
  /\ lin' = [lin EXCEPT !.work[v][stage] = "open"]
  /\ UNCHANGED <<Static, SetupVars, CurrencyOf>>

-----------------------------------------------------------------------------
(* Deletion *)

Remaining(v) == {u \in Versions \ (lin.deleted \cup {v}) :
                   lin.sources[u] \in {"ready", "embedded"}}

Repointed(v) ==
  IF lin.current # v THEN lin.current
  ELSE IF Remaining(v) = {} THEN Unset
  ELSE CHOOSE u \in Remaining(v) : \A w \in Remaining(v) : w <= u

DeleteVersion(v) ==
  /\ Cardinality(lin.deleted) < MaxDeleted /\ v <= lin.latest /\ Live(lin, v)
  /\ lin' = LineageChanged([lin EXCEPT !.deleted = @ \cup {v},
                                       !.current = Repointed(v)])
  /\ cascading' = cascading \cup {v}
  /\ UNCHANGED <<Static, SetupVars, testimony, seen>>

(* The deletion's currency cascade, later: the version's own testimony ends,
   the current version's is current again. *)
Cascade(v) ==
  /\ v \in cascading
  /\ cascading' = cascading \ {v}
  /\ testimony' = [u \in Versions |->
       IF u = lin.current /\ testimony[u] = "retired" THEN "current"
       ELSE IF u = v /\ testimony[u] = "current" THEN "retired"
       ELSE testimony[u]]
  /\ UNCHANGED <<Static, SetupVars, lin, seen>>

(* The public document deletion: tombstones and cascade in one transaction. *)
DeleteDocument ==
  /\ Cardinality(lin.deleted) < MaxDeleted /\ \E v \in 1..lin.latest : Live(lin, v)
  /\ lin' = LineageChanged([lin EXCEPT !.deleted = 1..lin.latest])
  /\ testimony' = [v \in Versions |->
       IF v \in 1..lin.latest /\ testimony[v] = "current" THEN "retired"
       ELSE testimony[v]]
  /\ UNCHANGED <<Static, SetupVars, seen, cascading>>

-----------------------------------------------------------------------------
(* setup *)

(* Under the exclusive fence; setup then seeds both layers. *)
Switch ==
  /\ switches < MaxSwitches
  /\ \E c \in Configs : /\ c.configured
                        /\ <<c.claims, c.facts>> # <<config.claims, config.facts>>
                        /\ config' = c
  /\ switches' = switches + 1
  /\ seedOwed' = Layers
  /\ UNCHANGED <<Static, lin, CurrencyOf>>

Seeds(layer) ==
  /\ layer \in seedOwed
  /\ layer = "facts" => "claims" \notin seedOwed
  /\ seedOwed' = seedOwed \ {layer}
  /\ lin' = IF ~config[layer] \/ (\A v \in Versions : lin.gap[v][layer] # "open")
            THEN lin
            ELSE IF layer = "claims" THEN AdvanceClaims(lin) ELSE AdvanceFacts(lin)
  /\ UNCHANGED <<Static, config, switches, CurrencyOf>>

-----------------------------------------------------------------------------
Next ==
  \/ Ingest \/ DeleteDocument \/ Switch
  \/ \E layer \in Layers : Seeds(layer)
  \/ \E v \in Versions :
       \/ Structured(v) \/ EmbedCompletes(v) \/ ExtractCompletes(v)
       \/ FactsComplete(v) \/ ClaimsEmbedded(v)
       \/ DeleteVersion(v) \/ Cascade(v)
       \/ \E stage \in Reconciles : \/ ReconcileReads(v, stage)
                                    \/ ReconcileSupersedes(v, stage)
                                    \/ ReconcileCompletes(v, stage)
       \/ \E stage \in Stages : DeadLetters(v, stage) \/ Replays(v, stage)

(* Workers keep finishing claimed rows, and setup, once begun, seeds.  Which row
   is left to the ledger; nothing obliges sources to be processed, operators to
   replay, or anybody to switch or delete. *)
Progress ==
  \/ \E layer \in Layers : Seeds(layer)
  \/ \E v \in Versions :
       \/ ExtractCompletes(v) \/ FactsComplete(v) \/ ClaimsEmbedded(v)
       \/ \E stage \in Reconciles : \/ ReconcileReads(v, stage)
                                    \/ ReconcileSupersedes(v, stage)
                                    \/ ReconcileCompletes(v, stage)

Spec == Init /\ [][Next]_vars /\ WF_vars(Progress)

-----------------------------------------------------------------------------
(* Properties *)

TypeOK ==
  /\ config \in Configs /\ seedOwed \subseteq Layers /\ switches \in 0..MaxSwitches
  /\ lin.latest \in 0..LastVersion /\ lin.deleted \subseteq 1..lin.latest
  /\ lin.current \in 0..lin.latest /\ cascading \subseteq lin.deleted
  /\ \A v \in Versions :
       /\ lin.gap[v] \in [Layers -> {"none", "open", "entered", "discharged"}]
       /\ lin.work[v] \in [Stages -> RowStatuses]
       /\ lin.gap[v] # [l \in Layers |-> "none"] => Live(lin, v) /\ SourcesComplete(lin, v)
       /\ lin.work[v] # [st \in Stages |-> "none"] => SourcesComplete(lin, v)
       /\ testimony[v] \in {"none", "current", "retired"}

FactWorkAdmitted(v) == Live(lin, v) /\ lin.gap[v]["facts"] = "entered"

(* The claims of a version are being normalised, or have yet to be. *)
Normalising(v) == FactWorkAdmitted(v) /\ lin.work[v]["full"] = "none"

(* The claims-mode reconcile of a version, which may retire testimony, is never
   in flight beside that version's own admitted fact work (design 5.2). *)
TailNeverBesideFactWork ==
  \A v \in Versions : FactWorkAdmitted(v) => lin.work[v]["tail"] \notin InFlight

(* Fact work reads testimony without asking whether it is current.  No
   reconcile of a later live version retires the testimony of a version whose
   admitted fact work is still running. *)
Applies(v) == \E stage \in Reconciles : /\ lin.work[v][stage] = "read"
                                        /\ lin'.work[v][stage] = "applied"
LaterReconcilesWait ==
  [][\A u, v \in Versions :
       u < v /\ Applies(v) /\ Live(lin, v) /\ FactWorkAdmitted(u)
             /\ testimony[u] = "current"
         => testimony'[u] = "current"]_vars

(* An older version's fact work always runs while its claims are still current
   (design 4.3). *)
AdmittedTestimonyStands ==
  \A v \in Versions : Normalising(v) => testimony[v] # "retired"

(* A deletion may make a discharged version current again: a living lineage's
   live current version is never left discharged. *)
CurrentNeverDischarged ==
  living /\ lin.current # Unset /\ Live(lin, lin.current)
    => \A l \in Layers : lin.gap[lin.current][l] # "discharged"

(* Nothing can happen by itself: no row of a live version is waiting to run or
   dead, and setup has seeded. *)
Drained ==
  /\ seedOwed = {}
  /\ \A v \in Versions : Live(lin, v) =>
       \A st \in Stages : lin.work[v][st] \in {"none", "done"}

(* When all work has drained no version past its sources is lost: it has its
   facts, or a facts gap, or a claims gap that was never entered. *)
DrainedIsAccounted ==
  Drained => \A v \in Versions :
    Live(lin, v) /\ SourcesComplete(lin, v) =>
      \/ Frontier(lin, "facts", v)
      \/ lin.gap[v]["facts"] # "none"
      \/ lin.gap[v]["claims"] = "open"

(* Every gap is eventually entered, by an event that is certain to happen
   (design 5.2): a gap of an enabled layer stops waiting, unless a row is dead
   or a living lineage has left its version behind. *)
Awaits(v, layer) ==
  /\ Live(lin, v) /\ lin.gap[v][layer] = "open"
  /\ config[layer] /\ (living => v = lin.current)

SomeRowDead == \E v \in Versions, st \in Stages : lin.work[v][st] = "dead"

GapsAreEntered ==
  \A v \in Versions, layer \in Layers :
    Awaits(v, layer) ~> ~Awaits(v, layer) \/ SomeRowDead
=============================================================================
