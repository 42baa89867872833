--------------------------- MODULE FanInBarriers ---------------------------
(***************************************************************************)
(* The fan-in barriers of the work ledger.  The chunks of a version are    *)
(* selected and grounded one row each, its claims are normalised one row   *)
(* each and its entities adjudicated one row each; the transaction that    *)
(* completes one sibling also evaluates whether it was the last, and if so *)
(* inserts the rows of the next stage.                                     *)
(*                                                                         *)
(* These transactions run under READ COMMITTED, serialised by advisory     *)
(* locks: a selection or a grounding takes the d84 lock of its own         *)
(* representation, a normalisation the d88 locks of every representation   *)
(* its claim occurs in, an entity flush the d88 lock of its version.  They *)
(* are therefore several steps here: begin, take the locks, evaluate one   *)
(* candidate version after the other, commit.  Reads see what is committed *)
(* and the transaction's own row as succeeded.                             *)
(*                                                                         *)
(* Claims, leases and the attempt fence are in WorkLedger; here a row is   *)
(* handled, completed, or rolled back and retried.  Every version has one  *)
(* representation.  Whether a configured deployment admits a version to    *)
(* facts at its boundary or at a later event is ProcessingLayers' subject, *)
(* here it is a choice.                                                    *)
(***************************************************************************)
EXTENDS Integers, FiniteSets

CONSTANTS
  Versions,      \* versions; their numbers order the representation locks
  Chunks,
  Claims,
  Entities,
  VersionOf,     \* the version a chunk belongs to
  ClaimsIn,      \* the claims grounding a chunk attaches to it
  SubjectMaps,   \* what normalising may answer: subject entities by claim
  Modes,         \* whether the deployment may be configured: a set of Booleans
  MaxOpen,       \* bound on the completing transactions open at once
  MaxAborts      \* bound on the transactions rolled back

NoVersion == 0

ASSUME BarrierAssumption ==
  /\ Versions \subseteq Nat \ {NoVersion} /\ IsFiniteSet(Versions)
  /\ VersionOf \in [Chunks -> Versions]
  \* a version without chunks is finished by the handlers that find none
  /\ \A v \in Versions : \E ch \in Chunks : VersionOf[ch] = v
  /\ ClaimsIn \in [Chunks -> SUBSET Claims]
  /\ SubjectMaps \subseteq [Claims -> SUBSET Entities]
  /\ Modes \subseteq BOOLEAN
  /\ MaxOpen \in Nat
  /\ MaxAborts \in Nat

(* processing_state rows, named by stage and target *)
Selection(ch)  == <<"select", ch>>
Grounding(ch)  == <<"ground", ch>>
Normalize(c)   == <<"normalize", c>>
Flush(v, e)    == <<"flush", v, e>>
Supersession(v) == <<"supersede", v>>
Entry(v)       == <<"enter", v>>   \* not a row: the later event that lets v
                                   \* enter facts, a transaction of its own

SelectionRows == {Selection(ch) : ch \in Chunks}
GroundingRows == {Grounding(ch) : ch \in Chunks}
NormalizeRows == {Normalize(c) : c \in Claims}
FlushRows     == {Flush(v, e) : v \in Versions, e \in Entities}
SiblingRows   == SelectionRows \cup GroundingRows \cup NormalizeRows
                   \cup FlushRows \cup {Entry(v) : v \in Versions}
Rows          == SiblingRows \cup {Supersession(v) : v \in Versions}

Statuses    == {"absent", "pending", "handled", "succeeded"}
FlushStates == {"none", "materialized", "empty_complete", "barrier_complete"}

VARIABLES
  subjects,   \* subject entities of each claim's frozen normalisation output
  configured, \* whether deployment_processing_layers has a row
  waiting,    \* versions with an unentered facts gap
  status,     \* status of every row; handled: its handler has returned
  attached,   \* chunks whose claim occurrences (chunk_claims) are committed
  applied,    \* applications <<claim, subject>> whose decision is applied
  flushState, \* obs_flush_version_state
  holder,     \* <<lock class, version>> -> the row completing under it
  tx,         \* the open transaction of each row
  raced,      \* history: versions whose barrier met an open transaction
  aborts      \* transactions rolled back so far

vars == <<subjects, configured, waiting, status, attached, applied, flushState, holder, tx, raced, aborts>>

-----------------------------------------------------------------------------
(* The expected sets *)

ChunksOf(v)    == {ch \in Chunks : VersionOf[ch] = v}
AllClaimsOf(v) == UNION {ClaimsIn[ch] : ch \in ChunksOf(v)}
ClaimsOf(v)    == UNION {ClaimsIn[ch] : ch \in ChunksOf(v) \cap attached}
EntitiesOf(v)  == UNION {subjects[c] : c \in ClaimsOf(v)}
FlushUnits(v)  == {Flush(v, e) : e \in Entities} \cap
                    {r \in FlushRows : status[r] # "absent"}
Applications(v) == {p \in ClaimsOf(v) \X Entities : p[2] \in subjects[p[1]]}

VersionsWith(c) == {v \in Versions : c \in ClaimsOf(v)}

-----------------------------------------------------------------------------
(* Transactions *)

LockClass(r)  == IF r[1] \in {"select", "ground"} THEN "d84" ELSE "d88"
Locks         == {"d84", "d88"} \X Versions
NoHolder      == <<"nobody">>

(* A transaction: the locks it has still to take, the versions it has still to
   evaluate, and its uncommitted writes. *)
NoTx == [open |-> FALSE, locks |-> {}, todo |-> {},
         inserts |-> {}, marks |-> {}, defers |-> {}, enters |-> {}]

OpenTx   == {r \in SiblingRows : tx[r].open}
Waiting(r) == tx[r].locks # {}

(* The versions whose barrier completing r may close. *)
Candidates(r) ==
  CASE r[1] \in {"select", "ground"} -> {VersionOf[r[2]]}
    [] r[1] = "normalize"            -> VersionsWith(r[2])
    [] r[1] \in {"flush", "enter"}   -> {r[2]}

NoChunkLocks(r) ==   \* mutant
  IF r[1] \in {"select", "ground", "enter"} THEN {} ELSE Candidates(r)
LocksFor(r) == IF r[1] = "enter" THEN {} ELSE Candidates(r)

(* What the transaction completing r reads as succeeded. *)
Sees(r, x) == x = r \/ status[x] = "succeeded"

ExtractReady(r, v)   == \A ch \in ChunksOf(v) : Sees(r, Grounding(ch))
NormalizeReady(r, v) == \A c \in ClaimsOf(v) : Sees(r, Normalize(c))
FlushReadyWithSelf(r, v) == v \in Versions /\ r \in FlushRows   \* mutant
FlushReady(r, v) ==
  /\ FlushUnits(v) # {}
  /\ \A u \in FlushUnits(v) : Sees(r, u)
  /\ Applications(v) \subseteq applied

(* Completing claims of one version wait for each other only if they take the
   representation locks in one order: sorted(by_rep). *)
AnyLock(r, v) == v \in tx[r].locks   \* mutant
NextLock(r, v) == v \in tx[r].locks /\ \A w \in tx[r].locks : v <= w

Nothing == [rows |-> {}, marks |-> {}, defers |-> {}, enters |-> {}]

(* _enqueue_entity_obs_flush_fanout: once per version. *)
FlushFanout(v) ==
  IF flushState[v] # "none" THEN Nothing
  ELSE IF EntitiesOf(v) = {}
  THEN [Nothing EXCEPT !.rows = {Supersession(v)},
                       !.marks = {<<v, "empty_complete">>}]
  ELSE [Nothing EXCEPT !.rows = {Flush(v, e) : e \in EntitiesOf(v)},
                       !.marks = {<<v, "materialized">>}]

(* _enqueue_claim_normalize_fanout: every claim of the version, and what
   follows when all of them were normalised for another version already. *)
RowsOnlyFanout(r, v) ==   \* mutant
  [Nothing EXCEPT !.rows = IF r \in SiblingRows THEN {Normalize(c) : c \in ClaimsOf(v)}
                           ELSE {}]
NormalizeFanout(r, v) ==
  LET next == IF NormalizeReady(r, v) THEN FlushFanout(v) ELSE Nothing
  IN  [next EXCEPT !.rows = @ \cup {Normalize(c) : c \in ClaimsOf(v)}]

SelectionBarrier(r, v) ==
  IF \A ch \in ChunksOf(v) : Sees(r, Selection(ch))
  THEN {[Nothing EXCEPT !.rows = {Grounding(ch) : ch \in ChunksOf(v)}]}
  ELSE {Nothing}

(* The facts boundary: a configured deployment may record a gap and leave the
   entry to a later event. *)
ExtractBarrier(r, v) ==
  IF ~ExtractReady(r, v) THEN {Nothing}
  ELSE {NormalizeFanout(r, v)} \cup
       (IF configured
        THEN {[Nothing EXCEPT !.rows = {Entry(v)}, !.defers = {v}]} ELSE {})

(* A version a completed claim is shared with opens only when its own occurrences
   are all there, and only if it has entered facts. *)
PartialNormalizeBarrier(r, v) ==   \* mutant
  IF NormalizeReady(r, v) /\ (configured => v \notin waiting)
  THEN {FlushFanout(v)} ELSE {Nothing}
NormalizeBarrier(r, v) ==
  IF /\ ExtractReady(r, v) /\ NormalizeReady(r, v)
     /\ configured => v \notin waiting
  THEN {FlushFanout(v)} ELSE {Nothing}

EnterFacts(r, v) == {[NormalizeFanout(r, v) EXCEPT !.enters = {v}]}

UncheckedFlushBarrier(r, v) ==   \* mutant
  IF FlushReady(r, v)
  THEN {[Nothing EXCEPT !.rows = {Supersession(v)}, !.marks = {<<v, "complete">>}]}
  ELSE {Nothing}
FlushBarrier(r, v) ==
  IF FlushReady(r, v) /\ flushState[v] \in {"materialized", "barrier_complete"}
  THEN {[Nothing EXCEPT !.rows = {Supersession(v)},
                        !.marks = {<<v, "barrier_complete">>}]}
  ELSE {Nothing}

(* What evaluating candidate v may write. *)
Outcomes(r, v) ==
  CASE r[1] = "select"    -> SelectionBarrier(r, v)
    [] r[1] = "ground"    -> ExtractBarrier(r, v)
    [] r[1] = "normalize" -> NormalizeBarrier(r, v)
    [] r[1] = "enter"     -> EnterFacts(r, v)
    [] r[1] = "flush"     -> FlushBarrier(r, v)

(* A transaction that has evaluated v and written out. *)
Written(t, v, out) ==
  [open    |-> t.open,
   locks   |-> t.locks,
   todo    |-> t.todo \ {v},
   inserts |-> t.inserts \cup out.rows,
   marks   |-> t.marks \cup out.marks,
   defers  |-> t.defers \cup out.defers,
   enters  |-> t.enters \cup out.enters]

(* A key another transaction has written and not committed is waited for. *)
Unblocked(r, out) ==
  \A x \in OpenTx \ {r} :
    /\ tx[x].inserts \cap out.rows = {}
    /\ \A m \in tx[x].marks, n \in out.marks : m[1] # n[1]

(* The transaction x is past the point where it could see what completing a
   sibling of v does, and has not committed. *)
Passed(x, v) == x \in OpenTx /\ v \notin tx[x].todo

(* Completing r evaluates v while the transaction that should see it, or be seen
   by it, has passed v: each may miss the other. *)
Races(r, v) ==
  \/ /\ r[1] \in {"ground", "enter"} /\ ExtractReady(r, v)
     /\ \E c \in ClaimsOf(v) : Passed(Normalize(c), v)
  \/ /\ r[1] = "normalize"
     /\ \E x \in {Grounding(ch) : ch \in ChunksOf(v)} \cup {Entry(v)} : Passed(x, v)

-----------------------------------------------------------------------------
(* Actions *)

Init ==
  /\ subjects \in SubjectMaps
  /\ configured \in Modes
  /\ waiting = {}
  /\ status = [r \in Rows |-> IF r \in SelectionRows THEN "pending" ELSE "absent"]
  /\ attached = {}
  /\ applied = {}
  /\ flushState = [v \in Versions |-> "none"]
  /\ holder = [l \in Locks |-> NoHolder]
  /\ tx = [r \in SiblingRows |-> NoTx]
  /\ raced = {}
  /\ aborts = 0

(* The applications draining subject e reaches: those that are a member of a
   version whose unit for e exists. *)
Eligible(e) ==
  {<<c, e>> : c \in {d \in Claims : /\ e \in subjects[d]
                                    /\ \E v \in VersionsWith(d) :
                                          status[Flush(v, e)] # "absent"}}

(* A handler runs to its end: its own transactions are committed before the
   row's completion begins. *)
Handle(r) ==
  /\ status[r] = "pending"
  /\ status' = [status EXCEPT ![r] = "handled"]
  /\ attached' = IF r \in GroundingRows THEN attached \cup {r[2]} ELSE attached
  /\ applied' = IF r \in FlushRows THEN applied \cup Eligible(r[3]) ELSE applied
  /\ UNCHANGED <<subjects, configured, waiting, flushState, holder, tx, raced, aborts>>

(* The completion begins: the candidate versions are read before any lock. *)
Begin(r) ==
  /\ status[r] = "handled"
  /\ ~tx[r].open
  /\ Cardinality(OpenTx) < MaxOpen
  /\ tx' = [tx EXCEPT ![r] = [NoTx EXCEPT !.open = TRUE,
                                          !.locks = LocksFor(r),
                                          !.todo = Candidates(r)]]
  /\ UNCHANGED <<subjects, configured, waiting, status, attached, applied, flushState, holder, raced, aborts>>

TakeLock(r) ==
  \E v \in Versions :
    /\ tx[r].open
    /\ NextLock(r, v)
    /\ holder[<<LockClass(r), v>>] = NoHolder
    /\ holder' = [holder EXCEPT ![<<LockClass(r), v>>] = r]
    /\ tx' = [tx EXCEPT ![r].locks = @ \ {v}]
    /\ UNCHANGED <<subjects, configured, waiting, status, attached, applied, flushState, raced, aborts>>

(* With every lock held and its own row updated, the transaction looks at one
   candidate version and inserts what that version is ready for. *)
Evaluate(r) ==
  \E v \in tx[r].todo : \E out \in Outcomes(r, v) :
    /\ ~Waiting(r)
    /\ \A w \in tx[r].todo : v <= w
    /\ Unblocked(r, out)
    /\ tx' = [tx EXCEPT ![r] = Written(tx[r], v, out)]
    /\ raced' = IF Races(r, v) THEN raced \cup {v} ELSE raced
    /\ UNCHANGED <<subjects, configured, waiting, status, attached, applied, flushState,
                   holder, aborts>>

Release(r) == [l \in Locks |-> IF holder[l] = r THEN NoHolder ELSE holder[l]]

Commit(r) ==
  /\ tx[r].open
  /\ tx[r].locks = {} /\ tx[r].todo = {}
  /\ status' = [x \in Rows |->
                  IF x = r THEN "succeeded"
                  ELSE IF x \in tx[r].inserts /\ status[x] = "absent" THEN "pending"
                  ELSE status[x]]
  /\ flushState' = [v \in Versions |->
                      IF \E s \in FlushStates : <<v, s>> \in tx[r].marks
                      THEN CHOOSE s \in FlushStates : <<v, s>> \in tx[r].marks
                      ELSE flushState[v]]
  /\ waiting' = (waiting \cup tx[r].defers) \ tx[r].enters
  /\ holder' = Release(r)
  /\ tx' = [tx EXCEPT ![r] = NoTx]
  /\ UNCHANGED <<subjects, configured, attached, applied, raced, aborts>>

(* The transaction is rolled back (its process died, or the database refused
   it) and the row is reaped and handled again. *)
Abort(r) ==
  /\ tx[r].open
  /\ aborts < MaxAborts
  /\ aborts' = aborts + 1
  /\ status' = [status EXCEPT ![r] = "pending"]
  /\ holder' = Release(r)
  /\ tx' = [tx EXCEPT ![r] = NoTx]
  /\ UNCHANGED <<subjects, configured, waiting, attached, applied, flushState, raced>>

Progress == \E r \in SiblingRows :
              Handle(r) \/ Begin(r) \/ TakeLock(r) \/ Evaluate(r) \/ Commit(r)

Next == \E r \in SiblingRows :
  \/ Handle(r)
  \/ Begin(r)
  \/ TakeLock(r)
  \/ Evaluate(r)
  \/ Commit(r)
  \/ Abort(r)

Spec     == Init /\ [][Next]_vars
FairSpec == Spec /\ WF_vars(Progress)

-----------------------------------------------------------------------------
(* Properties *)

Done(r) == status[r] = "succeeded"

ExtractDone(v)   == \A ch \in ChunksOf(v) : Done(Grounding(ch))
NormalizeDone(v) == \A c \in AllClaimsOf(v) : Done(Normalize(c))

(* Types of the state. *)
TypeOK ==
  /\ subjects \in SubjectMaps
  /\ configured \in BOOLEAN
  /\ waiting \subseteq Versions
  /\ status \in [Rows -> Statuses]
  /\ attached \subseteq Chunks
  /\ applied \subseteq Claims \X Entities
  /\ flushState \in [Versions -> FlushStates]
  /\ holder \in [Locks -> SiblingRows \cup {NoHolder}]
  /\ tx \in [SiblingRows -> [open : BOOLEAN,
                             locks : SUBSET Versions, todo : SUBSET Versions,
                             inserts : SUBSET Rows,
                             marks : SUBSET (Versions \X FlushStates),
                             defers : SUBSET Versions, enters : SUBSET Versions]]
  /\ raced \subseteq Versions
  /\ aborts \in 0..MaxAborts

(* complete_chunk_extract, complete_claim_normalize: observations of a version
   are flushed only when every chunk is grounded and every claim of the whole
   grid is normalised, whichever version's work completed them, and only in a
   version that has entered facts. *)
FlushCoversTheVersion ==
  \A v \in Versions : flushState[v] # "none" =>
    ExtractDone(v) /\ NormalizeDone(v) /\ v \notin waiting

(* complete_entity_obs_flush: the version goes on to supersession when every
   fact its claims state has been applied, also those that another version's
   units drained. *)
SupersessionAfterFacts ==
  \A v \in Versions : status[Supersession(v)] # "absent" =>
    /\ flushState[v] \in {"empty_complete", "barrier_complete"}
    /\ \A ch \in ChunksOf(v) : \A c \in ClaimsIn[ch] :
          \A e \in subjects[c] : <<c, e>> \in applied

(* sorted(by_rep): completions that take the locks of several representations
   never wait for each other in a circle. *)
Blocked(x) == \E v \in Versions : NextLock(x, v) /\ holder[<<LockClass(x), v>>] # NoHolder
WaitsFor(x, y) == \E v \in Versions : NextLock(x, v) /\ holder[<<LockClass(x), v>>] = y
NoWaitCycle ==
  \A S \in SUBSET {x \in OpenTx : Blocked(x)} :
    S # {} => \E x \in S : \A y \in S : ~WaitsFor(x, y)

(* Each barrier of v that has all its siblings has opened what follows. *)
SelectionOpened(v) ==
  (\A ch \in ChunksOf(v) : Done(Selection(ch)))
     => \A ch \in ChunksOf(v) : status[Grounding(ch)] # "absent"
ExtractOpened(v) ==
  ExtractDone(v) => \/ status[Entry(v)] \in {"pending", "handled"}
                    \/ \A c \in AllClaimsOf(v) : status[Normalize(c)] # "absent"
NormalizeOpened(v) ==
  (ExtractDone(v) /\ NormalizeDone(v) /\ v \notin waiting) => flushState[v] # "none"
FlushOpened(v) ==
  (flushState[v] = "materialized") => \E u \in FlushUnits(v) : ~Done(u)
BarriersOpened(v) ==
  SelectionOpened(v) /\ ExtractOpened(v) /\ NormalizeOpened(v) /\ FlushOpened(v)

(* The docstrings of complete_chunk_extract and complete_claim_normalize: the
   last sibling opens the next stage, so that between transactions no barrier
   of a version is closed and unopened. *)
BarriersFire == OpenTx = {} => \A v \in Versions : BarriersOpened(v)

(* What the locks do achieve: a barrier is missed only when a claim shared with
   another version completes while the version's last chunk, or its entry to
   facts, does. *)
MissedOnlyInTheRace == OpenTx = {} => \A v \in Versions \ raced : BarriersOpened(v)

(* Every version outside that race is brought to supersession. *)
VersionsComplete ==
  <>(\A v \in Versions : status[Supersession(v)] # "absent" \/ v \in raced)
=============================================================================
