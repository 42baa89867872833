# Verification of the RememberStack pipeline

RememberStack turns documents into a memory that agents query. Documents go
through a chain of stages (convert, structure, chunk, embed, extract, ground,
normalise, adjudicate, reconcile), each a row of one Postgres table that worker
slots claim, run and finish. This directory models the parts of that pipeline
whose correctness depends on the order in which independent processes act, checks
them with TLC and proves what can be proved with TLAPS. All paths are relative to
the repository root; most of the code is in `src/rememberstack/`.

## 1. Inventory

| Component | State | Operations | Talks to |
| --- | --- | --- | --- |
| **Work ledger** `spine/work_ledger.py` | `processing_state` rows: status, attempts, max_attempts, lane, not_before, lease_until, defer_reason; `cost_ledger` | enqueue (idempotent, promotes lanes), claim with budget pre-flight, renew, reap, complete, fail, park on a fact, release, replay a dead letter, record a call | everything: one transaction per call |
| **Worker and loop** `workers/base.py`, `adapters/selfhost/queue.py` | the claim a slot holds, in memory | run a claimed row: handler, renewal thread, finishing call, finalizer; sweep expired leases | ledger, handlers |
| **Convert and structure** `workers/e0.py`, `spine/document_catalog.py` | content objects (MIME), versions (status, live reading), representations | ingest, convert, record, structure, mark failed | ledger, stores, meter |
| **Managed metering** `spine/managed_metering.py` | one measurement per version and its outcome receipt | measure, deliver, approve and release, report the outcome | ledger, control plane |
| **Fan-in barriers** `complete_chunk_*`, `complete_claim_normalize`, `complete_entity_obs_flush` | sibling rows of a representation, advisory locks, `obs_flush_version_state` | complete one sibling and maybe open the next stage | ledger, layers |
| **Processing layers** `spine/processing_layers.py` | layer configuration, gaps of a version per layer | boundary, frontier, advance, seed, switch, deletion hook | ledger, lifecycle |
| **Hard forget** `spine/forget.py`, `workers/forget.py`, `profiles/selfhost_forget.py` | forget request, portable manifest, every store | prepare (barrier), drain, inventory, append, accept, purge store by store, verify, complete; materialise and honour again after a restore | ledger claim, ingest, all stores |
| **Fact application** `spine/fact_applications.py`, `spine/fact_adjudication.py`, `spine/apply_fact_decision.py` | one application per assertion, its attempt and receipt, facts with their evidence and counts | admit in source order, prepare without locks, publish the answer, revalidate and apply under locks | model providers, lifecycle, clustering |
| **Lifecycle, reconcile, sync** `spine/lifecycle.py`, `workers/reconcile.py`, `spine/sync.py` | currency of versions and claims, the ledger of currency changes, connector cycles | delete, repoint, reconcile, recount, close, close a cycle | layers, facts, ledger |
| **Knowledge layer** `spine/knowledge.py`, `workers/knowledge_driver.py`, `adapters/selfhost/git.py` | pages (owner, status, recorded hash), pending compilations, quarantines, structure decisions; a git repository | clone, recover, sync authored pages, apply decisions, quarantine drift, compile, record, publish, commit, stamp; triage, retire, hand over | facts layer, authors' git |
| Entity registry, projections, readiness, surfaces, converters, pure text algorithms | derived or read-only | | |

What is hard, and what makes each part correct:

- **Ledger and worker.** Claims are leases. A stalled attempt can wake after its
  row was given to someone else; a process can die between any two transactions;
  a park gives an attempt number back. Correct when only the owner of a claim can
  finish it, every row is always claimable, running or settled, calls are billed
  to the attempt that made them, finishing and chaining are one step, and no row
  is forgotten whoever dies.
- **Convert, structure, metering.** A handler is several transactions and only
  the ledger call at the end is fenced. Parks wait for facts (a route, an
  approval) that other transactions change. Correct when a parked row really has
  to wait, nothing is paid before approval, and a version's status tells the truth
  about its conversion whatever attempt wrote it.
- **Barriers.** Sibling completions race; a claim may belong to several
  representations. Correct when the next stage opens exactly when all siblings
  are done, by somebody.
- **Layers.** Versions of a lineage enter a layer in order; switches, deletions
  and repoints change what is owed. Correct when fact work runs on testimony that
  is still current, no version falls between the layers, and no gap waits for an
  event that never comes.
- **Hard forget.** A barrier against new work, a drain, a frozen cut, then a long
  restartable erasure. Correct when nothing runs across the cut and completion
  means that every store is clean.
- **Fact application and lifecycle.** A model is asked outside any transaction
  while other drains, reconciliations and merges go on; a reconciliation is a
  sequence of transactions. Correct when what is applied answers what there is at
  its commit, and counts and closures agree with the testimony in the end.
- **Knowledge.** Two stores, git and Postgres, without a common transaction, and
  people who commit to one of them. Correct when what Postgres calls live has been
  published, a cycle that died half-way is recovered as what it is, and nobody's
  edit is lost.

`PROJECT.json` lists every hazard with its line and the properties that watch it.

## 2. Plan

All of it is done: `WorkLedger`, its abstract specification `Worklist` and
`WorkLedgerProofs`; `ConvertStage` on top of the ledger and `ConvertStageProofs`;
`ProcessingLayers` and `ProcessingLayersProofs`; `FanInBarriers` and
`FanInBarriersProofs`; `HardForget` and `HardForgetProofs`; `FactApplications` and
`FactApplicationsProofs`; `KnowledgeCommit` and `KnowledgeCommitProofs`. The modules
meet where one leaves a choice to another: the barriers leave it open whether a version
enters facts at its boundary (`ProcessingLayers` says when), fact applications leave it
open which claims a reconciliation ends (again `ProcessingLayers`), the forget barrier
stands where the ledger's claim reads it, and `ConvertStage` extends `WorkLedger`.

What could follow: outcome receipts of the meter, connector cycles, moves and merges of
knowledge pages.

## 3. Modules

### WorkLedger

One action per ledger method; each method is one transaction that locks the row
it changes, so the action is the method. A slot (`Workers`) holds at most one
claim (`heldRow`, `heldAttempt`, and `heldCalls`, the call keys it billed); a
sweeper (`Sweepers`) is the loop's reaping thread. Both owe finalizers for rows
they dead-lettered (`owed`) until they run them or die.

Abstractions: `not_before` and `lease_until` are two booleans, because the code
only compares them with the clock; the budget pre-flight is a nondeterministic
`BudgetPark` on lanes that have a budget; routes are not modelled (a claim may
take any claimable row); `Reap` may take any set of expired rows, which is what
`SKIP LOCKED` gives; `last_error`, timestamps and payloads are left out. `owner`
is a history variable. `MayPark` says that a parking handler billed nothing: the
two parking exceptions are raised only by the convert handler, before its
converter runs or for a route that bills nothing, and `ConvertStage` checks that
(`ParkedClaimBilledNothing`).

`AttemptCeiling` bounds the replay allowance (32767, a smallint, in the code).

### Worklist

What the ledger promises with slots, leases, attempts, lanes and parks taken
away: open, done and dropped units of work; finishing opens the chained units in
the same step. `WorkLedger!ImplementsWorklist` is the refinement.

### ConvertStage

Extends `WorkLedger`. A slot's handler is a program counter `step`: load the
source, gate on the meter, look an earlier reading up, convert, record, measure,
and then one of five endings (finish, retryable or fatal failure, and the two
parks). Every step is one transaction of the code and, as in the code, is not
fenced: a slot that lost its claim goes on writing until a ledger call refuses
it. An ingest transaction is split where READ COMMITTED lets others in: it reads
the MIME, or locks and adopts it and picks the parked rows to release, and then
commits or aborts. All versions share one content object, because that is the
only place where lineages meet in this stage.

Abstractions: two classes of MIME (a route exists or not) and three cost classes
(`free`, also no meter; `doc-text`, measured after a free local reading;
`doc-scan`, counted before paid OCR); the structure handler's model calls are one
`Bill`, its writes before `record_section_tree` (immutable, keyed) are left out;
lineage currency, deletion, size limits and budgets are not in this module. The
route tables of ingesting processes and of the operator's `resume-no-route` may
know a route the workers do not (separately restarted processes): that is how a
handler comes to find no route for a row that was not parked at ingest.
`MaxReadings` bounds the readings a version can be given.

### ProcessingLayers

One lineage of up to `LastVersion` versions. `lin` holds what advance reads:
the pointer to the current version, the tombstones, where each version's sources
stand, its gap in each layer (`none`, `open`, `entered`, `discharged`) and the
status of its work in five stages. A stage stands for the rows between two
decisions: `extract` (selection, claimify, grounding of every chunk), `facts`
(normalisation and observation flush), `full` (adjudication and the full
reconcile), and the claims tail, `claimEmbed` and `tail` (the claims-mode
reconcile). `testimony` is the claims only this version carries, so what a
reconcile retires can be told.

A boundary, a frontier, a deletion and a seeding are one transaction each, under
the shared layer fence and the lineage lock, and a configuration change takes the
fence exclusively, so each is one action; the operators on lineages (`AdvanceFacts`,
`FactsBoundary`, ...) are the functions of `processing_layers.py`, composed as
there. A reconcile is three actions: its handler reads the version and the current
pointer, then supersedes (guarded, in a transaction of its own, or unguarded in an
unconfigured deployment), then completes. A version deletion is two: tombstone and
repoint, and later the currency cascade. The public document deletion is one.

Abstractions: budget lanes, the read side (`admit_layers_on`, states, gap counts),
held window reviews, the connector cycle an entry reopens, and claims or chunks
shared by several versions. `seed` is one action per layer: with a single lineage
it is one transaction. A version has no chunks when it is in `zeroChunk`, chosen
at the start. The extraction of a deleted version never succeeds, as its source
check refuses; it may dead-letter. Other stages dead-letter when in `MayDie`.
`MaxDeleted` and `MaxSwitches` bound deletions and configuration changes.

### FanInBarriers

The rows of the stages between selection and supersession for a few versions that
share claims. The completing transactions are steps: `Begin` reads the candidate
versions, `TakeLock` takes one advisory lock, `Evaluate` evaluates one candidate,
`Commit` and `Abort` end it. A read sees what is committed and the transaction's
own row as succeeded (`Sees`); unique keys two transactions insert make the second
wait (`Unblocked`). `tx[r].inserts`, `marks`, `defers`, `enters` are its
uncommitted writes.

Abstractions: claims, leases and retries are `WorkLedger`'s, here a row is handled,
completed, or rolled back and tried again; one representation per version and one
generation of component versions; handlers write only what barriers count
(occurrences, subjects, applications). Whether a deployment is configured is
chosen at the start, whether a version is admitted to facts at once or by a later
event whenever it is asked. `raced` is history: the versions for which a
completion and their last grounding, or their entry, were open together.

### HardForget

Uploads, attempts of ordinary work, request calls, erasures and the readiness step
are processes with a program counter each; one ordinary row per version stands for
all its stages. Every store is a set: content rows, representations, claims,
objects, projection snapshots, the portable manifests. `Restore` puts a set of
stores back to `backup`, a copy taken at any earlier moment, never the portable
manifests, which live outside what is restored.

Abstractions: the row-by-row scrub statements are one step that empties the
lineage's rows; the knowledge repository is treated as the projections are; the
redaction preflight either refuses or does not; checkpoints are left out, since an
erasure restarts from the top; a dead-lettered erasure is a row somebody replays.
As in the self-hosted wiring, ordinary workers do not wait for the readiness step,
and media assets, source maps and the artifacts of attempts that died before they
recorded a representation are never nominated by an inventory (`Side`, `listed`).

### FactApplications

Drainers run the rows of flush units: admit the head of the subject's stream,
prepare (freeze the snapshot), ask, publish the answer, begin the apply (validate
under the locks), commit it. Reconciliations are at most six transactions each,
interrupted anywhere and retried. Merges and their reversals join and split
subjects. Every other transaction is one step; the apply is two because other
transactions may run between its validation and its commit as far as its locks
let them (`LockedRoots`, `LockedFacts`, `LockedClaims`).

Abstractions: facts are compared by the model's answer, which may be any the scope
validation lets through; statements, windows, contradictions, stances (every
assertion supports), objects, contexts, limits on what is shown and support reviews are
left out, as is the forget fence; at most one new fact and one moved support per
decision; taking the locks is atomic; what a unit has staged is a constant; which
claims a run ends, and which it makes current again, are constants too. The
guarded supersession, which checks and applies in one transaction, is covered by
the two steps of the unguarded one.

`Snapshot` is what the code hashes: the canonical subject, the open facts about any of
its entities with their counts, who supports them and on which claims, the supporting
assertions a decision may move (those about the subject), and the currency of the
claims. The entities of the subject are not part of it. So a merge that gives the
subject no open fact and makes no assertion movable, while its root stays, leaves an
answer valid, and it is applied.

### KnowledgeCommit

One driver (the commit lease is a session lock) with its clone, and the authors and
reviewers beside it; each read and each transaction of `run_cycle` is an action in
the code's order. Bodies are compared only for equality: an author's commit is a
member of `Edits` or, when it is not UTF-8, of `Garbled`; a compiled body is the number
of its cycle. `open` holds each page's unresolved quarantine as the set of bodies with
its detected hash: one body, or all of `Garbled`, which share the hash of a placeholder
(`Detected`). A page becomes its author's in two ways: a reviewer adopts a quarantined
page (`Adopt`), or the planner's compiled-to-authored decision, accepted or applied at
once, adopts any live compiled page and leaves a quarantine it has open (`Convert`).

Abstractions: any page may be found stale at any time; the planner and writer, the
page tree, moves, splits, merges, citations, notifications and dispatches are left
out; `Resume` is both the rejection of a quarantined edit and its acceptance into
the sidecar; `Fail` is any error or crash; the sync of authored pages is one step
and their own hash (it drives review flags only) is not kept; two compilations of a
page never give the same body. `owed`, `exposed`, `published` and `disturbed` are
history: authors' commits nobody has replaced, those made while a clone was open,
the cycles that reached the repository, and whether an unfinished cycle had a page
edited, retired or given to an author, or lost its facts layer.

## 4. Runs

| Run | Instance | Shows |
| --- | --- | --- |
| `ledger` | 2 rows (a conversion chaining a structure row), 2 slots, 1 sweeper, 1 call key, attempts up to 2 | fencing, no stranded rows, attribution, finality, refinement of `Worklist`; every row that is not parked on a fact settles |
| `convert` | 1 version, 2 slots, both metered cost classes, 2 readings | parks stand only while their fact does, nothing is paid before approval, a conversion settles or waits for a fact still to come |
| `layers_order` | 3 versions, the second without chunks, both modes, all layers on at first, 1 deletion, 1 switch, claims-mode reconciles may die | no tail beside fact work, later reconciles wait, the current version is never discharged |
| `layers_backfill` | 2 versions, both modes, unconfigured at first, 1 deletion, 2 switches | nothing falls between layers, every gap is entered |
| `barriers_fire` | 2 versions, 3 chunks, 2 claims both of which they share, 2 entities or none, 2 open transactions, 1 rollback | no stage opens early, no circular wait, a barrier is missed only in one race, every other version completes |
| `forget_erasure` | 1 lineage, 1 version, 1 attempt, 1 request call, 1 erasing slot, 1 death or restore of some or all stores | what was forgotten stays erased, nothing is published past the cut, the drain holds, accepted intent survives, an accepted forget ends unless the spine lost its document |
| `facts_apply` | 2 assertions of 2 claims about 2 names, a unit each, 2 drains, 1 reconciliation that ends a claim and regains the other, 1 failure, stall, death or interruption, 1 merge | answers are applied only to what they were given for; counts, closures and completed units are right |
| `facts_settle` | 2 assertions about one subject in 2 units, 2 drains, 1 reconciliation, no failures | sharing a subject does not keep drains from finishing |
| `knowledge_cycle` | 2 pages, 1 edit, 1 body that is not UTF-8, 1 recorded cycle, 1 failure, 1 retirement or handover, 1 switch | what is live was published, watched text edits are kept, a published cycle is recovered |
| `layers_retired_under_work` | 3 versions of a living lineage, the last without chunks | finding 1 |
| `barriers_missed` | the versions of `barriers_fire`, no rollback | finding 2 |
| `knowledge_authors` | 2 pages, 1 edit, 1 cycle | finding 3 |

Why the bounds are enough. Two slots give the stalled attempt and its successor; two
attempts give a first, a last and (through a park) a reused number; one sweeper is
enough to race both slots, sweepers never race each other beyond `SKIP LOCKED`; a
chained row gives the refinement something to lose. Three versions give an earlier one
that still runs, one that waits and a later one that supersedes both; two switches turn
a layer off and on again; one deletion repoints the lineage. Two versions that share
both claims, one of them with its chunks apart, give partial claim sets on one side and
whole ones on the other; the barrier code relates two transactions at a time, which
`MaxOpen` allows; entities or none gives the empty flush. One version and one fault give
every interleaving of an upload, an attempt, a request and an erasure with a crash or a
restore at each step; with a second request call the inventory of one call can follow
the drain of another, a case section 5 describes and the theorem `DrainHolds` includes.
Two assertions, drains and names give every pair of transactions the locks are about;
`MaxFailures` and `MaxMerges` allow a stall and a replay beside a merge and its
reversal; clustering proposes one merge, of the second name into the first (`Merges`).
Two pages tell "all of a cycle" from "some of it"; any number of cycles may follow the
one that recorded compilations, one of them may fail anywhere, others abort as the code
does, and the pages that were there before carry the body of an earlier one; a body that
is not UTF-8 beside an edit gives an open quarantine and what comes after it. Adoptions
are not bounded. The theorems cover any number of recorded cycles and of failures.
Symmetry (slots, drains and pages) is used only where no liveness is checked; versions
are ordered, so there is none. Deadlock is not checked: when all work is settled and
nobody uploads, replays or commits, the pipeline stops, and an apply waits for locks
that somebody else holds.

Properties, and the mutation of the code each one is known to catch, are in
`PROJECT.json`.

Fairness. Clocks advance; a live slot's handler returns and ends its attempt; a
slot that is gone stops renewing, so its lease lapses; some worker loop keeps
sweeping every expired row (`_reap_if_due` runs every poll interval in each
process); a row claimable again and again is claimed in the end (claims go oldest
`not_before` first, and polls never stop); an open ingest transaction commits or
aborts. In `ProcessingLayers` fairness is weaker: as long as some row of the
lineage can be finished, or a layer is to be seeded, some such step happens
(setup runs to its end, and the ledger's own liveness gives the rest); which one
is open, and a dead row excuses the wait. `FanInBarriers` asks the same of rows and
open transactions together. In `HardForget`, as long as some step of the erasure (its
claim, the handler's next step, the reap of its lease) is possible, some such step
happens, and the same holds of the readiness step, which is started again when it
raised: both are loops of the deployment's own processes. In `FactApplications` each
drain that has a unit takes its next step, each pending unit is claimed and each
expired lease reaped in the end. Nothing obliges callers, operators, authors or
the control plane to act, or processes to stay alive. `KnowledgeCommit` has no
fairness: a cycle may be blocked for good (section 5).

## 5. Findings

Each of these has a run that finds the behaviour.

1. **Testimony can be retired under fact work** (`layers_retired_under_work`). A
   living version enters facts although an earlier, discharged version's claims-mode
   reconcile still runs. Let a third version, without chunks, become current: its
   occurrences are complete at once, and the slow reconcile, whose guard looks only
   at that, retires the second version's claims while they are being normalised.
   `layers_order` shows that the reconcile of a *later* live version, in contrast,
   never retires testimony under an earlier version's fact work.
2. **A barrier can be missed** (`barriers_missed`). The extract barrier is evaluated
   under the d84 lock of its representation, the normalise barrier under the d88
   locks of every representation its claim occurs in. When a version's last chunk is
   grounded while another version's normalisation of a shared claim completes,
   neither transaction sees the other and nothing asks for the flush.
   `MissedOnlyInTheRace` shows that it is the only way to miss one.
3. **An author's commit can be wiped** (`knowledge_authors`). A cycle publishes by
   resetting the repository to its clone, which is as old as its compilations are
   slow; a commit made in between leaves the branch.

The models also contain the following behaviours, which no run asks about. They
were seen by checking a property or an instance that is not kept here.

- *A dead-lettered convert can leave its document in flight for good*: the finalizer
  runs after the dead-letter commit and no later sweep looks at the row again
  (`workers/base.py:663`).
- *A reaped attempt can demote a ready version*: `record_representation` sets
  `structuring` without fence or status guard (`spine/document_catalog.py:1028`).
- *Two lineages that share bytes* can leave a conversion parked without a route that
  exists: an upload reads the MIME without a lock while the other's upload adopts
  one. Within a lineage `convert` shows the opposite.
- *A claims tail can be stranded* in a snapshot lineage when claims are switched off
  while a later version is being extracted; *a gap can stay entered for good* when a
  version without chunks reaches the facts frontier before claims are seeded.
- *The inventory's cut is not frozen*: a claim reads the forget barrier without the
  lock under which it is raised (`spine/work_ledger.py:155`), so an attempt may run
  past the drain; it cannot publish an extraction (`NoClaimAfterTheCut`), but it can
  write artifacts nothing nominates. With two request calls, one call's drain may
  precede the other's cancellation and a new preparation; work claimed in between
  then runs beside the inventory too. `crossed` records both, and
  `DrainedBeforeTheCut` says there is no other way.
- *A restored deployment may never serve again.* A spine put back to a copy older than
  the upload has no row of the document, but its forget is materialised all the same
  (`forget_manifests.doc_id` has no foreign key). Every erasure of it starts with
  `delete_lineage`, which reads the document's row with `scalar_one` and raises
  (`spine/lifecycle.py:709-712`, called from `workers/forget.py:209` through
  `workers/reconcile.py:671`): the forget stays accepted and the readiness step stops at
  it. `AcceptedEnds` excepts exactly the states in which some kept manifest's document
  is missing (`Honorable`).
- *Readiness asks again for a restored `preparing` row with another `requested_at`*,
  and the append-only manifest store refuses the different manifest.
- *`delete_version` retries without the ledger of its earlier attempt*
  (`workers/reconcile.py:626-660`, against `_with_recorded` at 860): if it died between
  the change of testimony and the recount, counts stay stale. `CountsSettle` fails when
  `ReplaysLedger` is empty.
- *Facts closed for want of support stay closed* when a claim of theirs becomes current
  again. It need not come later: between the transition with which a run makes a claim
  current again and its recount, another run may close the fact on the count as it was.
  `ClosedHaveNoSupport` therefore has a hypothesis; `ClosedUnlessRegained` has none.
- *Readiness shows one forgotten lineage again while it erases another.* After a restore
  every erasure rebuilds the whole projection (`workers/forget.py:66-69`, 230), the first
  ones while rows of lineages further down the list are back and not scrubbed
  (`ensure_ready`, 292-298). The snapshots they publish show those lineages, whose frozen
  manifests cannot name them (`_PROJECTION_PREFIXES`, `spine/forget.py:1130`); the design
  asks for their bytes to be deleted ("pre-forget P3 build bytes",
  `plan/designs/hard_forget_design.md:202-206`, 256-260). The same happens when a reaped
  erasure runs beside a later forget's inventory. The models count such a lineage as
  `late` in the snapshot (`ShownAgain`); the run has one lineage, an instance with two
  reaches it.
- *A retired page blocks the knowledge plane*: its file is still there when the next
  cycle syncs authored pages, which raises ("authored sync path is owned by a non-live
  compiled artifact", `spine/knowledge.py:965-971`) before the step that would remove
  it. A retirement takes effect only when it is accepted between the two steps of one
  cycle.
- *A handover accepted between the reading of decisions and the schedule* lets the
  author's body be overwritten before it is copied to the sidecar (`exposed` covers
  it). A file at the path of a page that was never compiled is overwritten unseen.
- *After a published cycle died*, an edit of one of its pages, a retirement, an adoption
  (a reviewer's, or a compiled-to-authored decision of the planner, which may be applied
  without review, `core/knowledge_planner.py:52-62`), or the facts layer being off when
  the next cycle looks makes the machine's own prose of the other pages a quarantined
  edit; `PublishedIsRecovered` excepts these cases.
- *An edit that is not UTF-8 is not kept*: the quarantine archives a fixed text in its
  place (`workers/knowledge_driver.py:247-252`), and once it is triaged the page is
  compiled over the bytes. `EditsSurvive` speaks of text only. An
  authored page, or a body to be handed over, that is not UTF-8 stops every cycle at the
  sync of authored pages or at the plan files.
- *A quarantine may outlive its page's adoption*: a compiled-to-authored decision does
  not look at open quarantines of the page. If the page is later handed over, compiled and
  edited again, the open row stands in the way of a new one: the same body is left as it
  is, unmarked, and the page may be compiled over it (it is in the archive already);
  another body raises ("quarantined body changed again before triage",
  `spine/knowledge.py:308`), and with it every cycle, until the old row is triaged.
- *A `mark_stale` during a compile is lost* when the cycle commits, which sets the page
  active again whatever it has become since.

## 6. Proofs

Seven modules (and `NaturalFacts`, a lemma three of them share), each for any values of
its module's constants that satisfy the assumption there: no bound of section 4 is
used.

**`WorkLedgerProofs`** proves `TypeCorrect`, `FenceIsOwnership`, `NoRowIsStranded`,
`ChecksNeverFire` and `BudgetParksAreOwn` (both about table constraints no run
repeats), `CallsAreAttributed`, the action property `SettledIsFinal`, and
`Refinement`: `Spec => Promise!Spec`. None of them is inductive alone. The inductive
invariant `IInv` has three main parts. `ClaimInv` (who owns what): the types; a held
attempt number is positive and one the row has reached; a slot that passes the fence
is the row's owner. `RowInv` relates status, attempts, budget and defer reason.
`CostsReached`: no call is recorded under a number the row has not reached. What
makes a park safe is that only the owner can do it, and its number is the row's
count: any other holder of that number would pass the fence while the row runs, hence
be the owner too. So after the refund every held number is still at most the row's
count, and the next claim takes a number nobody holds. The refinement maps `Reap` and
`FailTerminal` to `GiveUp`, `Complete` to `Finish`, an enqueue of a fresh key to
`Ask`, a replay to `Reopen`, and everything else to a stutter.

**`ConvertStageProofs`** proves `StageTypeCorrect`, `NothingPaidEarly`,
`ParkedClaimsAreUnbilled`, `AdmissionParksStand`, `HandlersParksStand` and
`LedgerUnderStages`, for any versions that share the content, and
`ParksOfALineageStand` for one lineage. Every step of the stages but an ingest's commit is a
step of the ledger or leaves it alone, so `IInv` is kept; the commit, which releases
parked rows and enqueues one in the same transaction, keeps it too, since what it
releases was parked (`ParkInv`: rows locked for a release stay parked). On top of that
`HandlerInv` follows a handler, fenced or not: past the gate its version is approved
or it will measure before it finishes; one that finishes a conversion has it approved;
one about to park for the meter has a measurement; and it bills calls only where no
park follows, because what is measured after reading (`doc-text`) calls no provider.
An approval is never taken back, so what a handler learned at the gate survives the
loss of its lease. That a park for a missing route stands (`NoRouteParkStands`) is
false across lineages that share bytes (section 5), so what is proved is two things.
For any lineages, no step but the commit of an ingest breaks it, because a park reads
the MIME under the lock an adopter holds. For one lineage (`OneLineage`, what the run
checks with two slots) it is invariant, by `RouteInv`: an open ingest that read no route
still reads true and is not the adopter, and what the adopter has locked to release is
every row parked for a route, since nothing parks while it holds the content row.

**`ProcessingLayersProofs`** proves `TypeCorrect`, `TailsApart`, `CurrentStays`,
`AccountHolds` and `LaterReconcilesHold`. Advance is a composition of functions on a
lineage, and a step may run it twice, so the invariant is not pushed through the steps
but through the functions: each maps a good lineage to a good one with the same versions
that leaves the current version discharged only if it was (`Follows`, which chains), and
the boundaries make a lineage good that is so except at the version that has arrived
(`AlmostGood`). A lineage is good when every version past its sources is on its way
(`OnItsWay`): extraction runs, a claims gap stands before it, or facts are asked or
recorded as missing (`Booked`). The strengthenings that make this inductive: a claims
gap that waits or is discharged has no extraction yet, so entering it starts one; and
the tail and the claims' embedding of a live version run only when it is booked, so
clearing a gap at a frontier loses nobody (`Chained`). A tail row is opened for versions
not entered into facts, and a version with one in flight is not admitted.

`LaterReconcilesHold` is proved by a second pass over the same functions, with a second
invariant (`OrderInv`), which the theorem shows to be stronger than what the run checks:
in a living lineage no later live version has its facts or its tail even asked for while
an earlier one is entered and has chunks (`NobodyOvertaken`), so no later reconcile reads
the lineage then. Three facts make it inductive. Only the current version of a living
lineage is entered, and it is the latest that is ready, also after a deletion has moved
the pointer back (`CurrentIsLatest`): when a version is entered, no later one has begun.
A version begins, by entry or by its tail, only when the facts of the earlier ones are
settled or known to be missing, and an entered version's are neither until its
reconcile is done, which clears its gap in the same transaction (`FactsFollow`). And a
version whose facts gap waits has asked for no facts yet; at the claims boundary, where
discharging a claims gap discharges the facts gap with it, that is so because the
extraction has not begun. Versions without chunks are left out: they have no testimony
to retire. TLC checked `OrderInv` before it was proved, on three versions with a deletion
and a switch, living and snapshot.

**`FanInBarriersProofs`** proves `TypeCorrect`, `FlushStandsOnTheWholeVersion`,
`SupersessionStandsOnTheFacts`, `LockWaitsAscend`, `NoCircularWaits` and
`BarriersMissedOnlyInTheRace`. The argument: a row that
succeeded stays so, and an occurrence, once committed, too, so whatever a transaction
read about siblings is still true when it commits. A gap is recorded only by the
grounding that is the version's last, and every marker of the version would have had
to see that grounding committed; hence what is marked is not waiting. A version is
marked by one open transaction at a time, because the others that could mark it wait
for its lock or have not seen it. Held locks are below the awaited ones, so whoever of the
waiting waits for the highest representation waits for nobody who waits.

`BarriersMissedOnlyInTheRace` needs, for each barrier, who is responsible while its
siblings are done and what follows is not asked for (`OpenedInv`): an open transaction
that has still to evaluate it and will see them all. Completions that meet at a barrier
take the same lock, so the last of them to take it has seen the others committed;
selections and groundings of one representation do (`SelectInv`, `ExtractInv`), the
units of a subject's flush do (`UnitInv`), and so do two normalisations of claims of one
version, but not a normalisation and the extraction, or the entry to facts, that makes
the version's last claim known (`GateInv`, which excepts exactly the versions in
`raced`). The assumption on constants is that every version has a chunk, since a version
without any has no row that could open its barrier (the code takes another path then,
which `ProcessingLayers` models).

**`HardForgetProofs`** proves `TypeCorrect`, `IntentStays`, `CutHolds`, `DrainHolds` and
`ForgottenAreErased`. A stored manifest is never replaced, and an accepted row's has been
appended (`RowsSound`), in the tables and in the copy a restore puts back; what a call
learned of its document stays true while it runs (`CallInv`), so the manifest it
appends is the stored one. A restore ends every call, and readiness asks for the one
document it finds preparing (`CallsAreOver`); then each document with an appended
manifest is either still to be honoured or complete (`BootInv`), so when the deployment
serves no forget is active, and there is no cut a claim could be past. A first manifest
lists every claim of its lineage, and while it is active extractions wait. For the
drain (`DrainInv`): as long as a row runs that was not claimed under a barrier or after
a drain, no call is past its drain and no active row has a manifest.

That a forgotten lineage stays erased is not inductive: a restore breaks every store,
and then readiness serves only after all of it. `EraseInv` holds through restores. What
rows have ever named of a lineage is what its appended or stored manifest names, or an
inventory would, but for what was written late (`CoverInv`, which says the same of the
copy with its own rows); it rests on `ListedInv`: an attempt's artifacts are listed only
after it wrote them, and an attempt runs once. A snapshot that shows a frozen lineage
shows it late, or is named by its manifest, or by another manifest that readiness has
still to honour (`SnapInv`, `Outstanding`): without the last case a copy brings back
snapshots purged for one lineage that show another. An erasure past its scrub has left
only late rows, and one that verified has left nothing else at all (`HonorInv`, `Gone`);
no step but a restore takes that back, because whatever is written of a frozen lineage
is late and no snapshot is named again. While readiness runs, `Gone` holds of what it
has honoured, and when it serves of all that is complete (`GoneInv`). `EraseInv` was
checked by TLC before it was proved, on one lineage with two faults and on two lineages
from the states of a guided prefix.

**`FactApplicationsProofs`** proves `TypeCorrect`, `AnswersFit`, `DoneIsApplied`,
`ChainsEnd`, `CountsAreRight`, `ClosedUnlessRegained` and `ClosedHaveNoSupport`. For
the first, what a drain validated must stay as it is until it commits (`CommitInv`).
What the model was shown are the open facts about the entities of one root, with
their counts, support and testimony, and which of their supporters are about that root.
Open transactions are about different roots
(`RootLocks`), and roots tell facts apart, so another commit makes and moves support
between other facts; recounts and closures spare the locked facts, currency changes
the locked claims, and merges wait. That roots tell facts apart needs redirects to end
(`RedirectsEnd`): a merge redirects one root to another, so no cycle arises. For the
second, admission numbers whatever of the stream is eligible, and the least number is
a head; a drain that found no head has none of its unit's applications left, and only
such a drain, while it owns the row, completes it.

The counts are stale for long stretches, from a run's change of currency to its recount.
`CountedInv` says who still has to repair each: a fact counts its current supporters, or
some run changed the currency of one of its claims and will come to it (`Owes`), because
it is on its way there or, if interrupted, starts again from what its ledger recorded.
A run that does not replay its ledger owes nothing once interrupted, so
`CountsAreRight` assumes that every run that may be interrupted does
(`Interruptible \subseteq ReplaysLedger`): the reconciliations that go through
`_with_recorded`. `delete_version` does not (section 5). For closures, `UncountedInv`
needs no such assumption: current testimony under a fact that counts nothing, or that is
closed, was made current again by a run. So a closed fact has no support if no run makes
testimony current again; and if runs do, it is true of one run at a time that replays
its ledger (`ClosedAlone`), which is the instance of the run, and false of two.

**`KnowledgeCommitProofs`** proves `TypeCorrect`, `LiveIsPublished`, `Recovered` and
`WatchedEditsSurvive`. A hash is written from the pending cycle only, and then either
its bodies were found in a clone, whose bodies come from the repository (`TreeInv`), or
the driver that commits has just published them (`CycleInv`). For recovery the invariant
says that while nobody disturbs an unfinished cycle (by an edit, a retirement, an
adoption or a switch) its pages stay schedulable and, once published, all its bodies are
in the repository (`AllOrNone`), so the next cycle finds all of them or none; what it
gives up was never published; and every other compiled body in the repository or a clone
is the recorded one (`Accounted`), so only an author's can drift.

For `WatchedEditsSurvive`: a due edit (text, owed, and not made
or handed over beside an open clone) is at the head of its page, in a sidecar or in
the archive (`EditsSurvive`), and only a publication replaces heads. The invariant
follows such an edit through a cycle. The clone has it (`CloneHasDue`); the page is
still watched, unless the edit was set aside in an earlier cycle (`DueIsWatched`); a
recorded hash is never an edit (`HashIsCompiled`), so a page with a hash drifts and is
quarantined, its body archived, now or when the open quarantine was made that has
this body (`OpenIsArchived`), and one without was handed over and its body copied
(`HandedOverIsCopied`). Hence what is compiled has been saved (`UndriftedIsSaved`,
`CompiledIsSaved`), and what the publication leaves out of the repository is in the
clone's sidecars, which only grow, or in the archive (`PublishKeepsDue`).

Only model-checked: the liveness properties, which rest on fairness and are out of the
prover's reach; and the findings, which say that something does not hold.

## 7. Not modelled

`PROJECT.json` gives the reason for each part left out: derived data (projections,
entity clustering, profiles), read-only reports and queries (readiness, operations,
read surfaces), external services (converters, model providers), and sequential
functions that unit tests cover well (the text algorithms). Of the modelled parts,
these operations are left out: outcome receipts and quarantine of the meter, connector
cycles and source sync, window reviews and contradiction groups, moves, splits and
merges of knowledge pages and everything the planner and the writer do, the checkpoint
bookkeeping of a forget. No run has an unmetered conversion: it is the metered one
without its gate.
