------------------------ MODULE KnowledgeCommitProofs ------------------------
(***************************************************************************)
(* Proofs about the knowledge plane's commit cycle, for any numbers of     *)
(* pages, edits, cycles, failures and decisions.                           *)
(*                                                                         *)
(* What Postgres calls live has been in the repository because a hash is   *)
(* written from the pending cycle only, and then either that cycle's       *)
(* bodies were found in a clone, whose bodies come from the repository, or *)
(* the driver that commits has just published them.                        *)
(***************************************************************************)
EXTENDS KnowledgeCommit, TLAPS

(* Bodies compilers wrote, wherever they are, have been in the repository, *)
(* but for those the driver is about to publish.                           *)
HeadInv == \A p \in Pages : head[p] \in Outputs => head[p] \in published

TreeInv ==
  \A p \in Pages : driver.tree[p] \in Outputs =>
    \/ driver.tree[p] \in published
    \/ driver.step = "publish" /\ driver.todo # {} /\ driver.tree[p] = cycles

(* The cycle the driver publishes is the pending one; once published, it   *)
(* is what Commit makes live.                                              *)
CycleInv ==
  /\ driver.step = "publish" /\ driver.todo # {} => pending.body = cycles
  /\ driver.step = "commit" => pending.body \in published

KnowledgeInv == TypeOK /\ HeadInv /\ TreeInv /\ CycleInv /\ NothingLiveIsUnpublished

DriverType == [step : Steps, tree : [Pages -> Bodies \cup {None}],
               side : [Pages -> SUBSET Bodies], todo : SUBSET Pages, changed : BOOLEAN]

PageType == [kind : Kinds, status : Statuses, hash : Bodies \cup {None}]

OpenType == [Pages -> SUBSET (Bodies \cup {None})]

(* The parts of TypeOK that relate a page's fields to each other.          *)
Owned(pg) ==
  \A p \in Pages : /\ pg[p].kind = "authored" => pg[p].status = "active"
                   /\ pg[p].kind = "compiled" /\ pg[p].status = "active" => pg[p].hash # None

Triaged(pg, op) == \A p \in Pages : pg[p].status = "quarantined" => op[p] # {}

LEMMA IdleType == Idle \in DriverType /\ Idle.step = "idle" /\ Idle.tree = NoClone
  BY DEF Idle, DriverType, NoClone, NoNotes, Steps

LEMMA NoneIsNoOutput ==
  ASSUME KnowledgeAssumption
  PROVE  None \notin Outputs /\ 0 \in Outputs /\ Outputs \subseteq Nat
  BY DEF KnowledgeAssumption, Outputs

LEMMA InitType == ASSUME KnowledgeAssumption, Init PROVE KnowledgeInv
<1> USE NoneIsNoOutput
<1>1. Initially \subseteq PageType
  BY DEF Initially, PageType, Kinds, Statuses, Bodies
<1>2. page \in [Pages -> PageType] /\ Owned(page) /\ Triaged(page, open)
  BY <1>1 DEF Init, Owned, Triaged, Initially
<1>3. head \in [Pages -> Bodies \cup {None}]
  BY DEF Init, Bodies
<1>4. pending \in [pages : SUBSET Pages, body : Outputs]
  BY DEF Init, Nothing
<1>5. budget \in [failures : 0..MaxFailures, accepted : 0..MaxAccepted, switches : 0..MaxSwitches]
  BY DEF Init, KnowledgeAssumption
<1>6. TypeOK
  BY <1>2, <1>3, <1>4, <1>5, IdleType
  DEF Init, TypeOK, Owned, Triaged, PageType, DriverType, NoNotes
<1>7. HeadInv /\ TreeInv /\ CycleInv
  BY IdleType DEF Init, HeadInv, TreeInv, CycleInv, NoClone
<1>8. NothingLiveIsUnpublished
  BY DEF Init, Initially, NothingLiveIsUnpublished
<1> QED
  BY <1>6, <1>7, <1>8 DEF KnowledgeInv

-----------------------------------------------------------------------------
(* The driver's steps.                                                     *)

LEMMA StepTypes ==
  ASSUME KnowledgeInv
  PROVE  /\ driver \in DriverType
         /\ page \in [Pages -> PageType] /\ Owned(page)
         /\ open \in OpenType /\ Triaged(page, open)
         /\ \A s \in Steps : /\ [driver EXCEPT !.step = s] \in DriverType
                            /\ [driver EXCEPT !.step = s].step = s
                            /\ [driver EXCEPT !.step = s].tree = driver.tree
                            /\ [driver EXCEPT !.step = s].todo = driver.todo
<1>1. /\ driver \in DriverType /\ page \in [Pages -> PageType] /\ Owned(page)
      /\ open \in OpenType /\ Triaged(page, open)
  BY DEF KnowledgeInv, TypeOK, DriverType, PageType, OpenType, Owned, Triaged
<1> QED
  BY <1>1 DEF DriverType

(* A cycle that begins, or reads, changes only the driver, and its clone   *)
(* holds only what the repository held.                                    *)
LEMMA QuietStep ==
  ASSUME KnowledgeAssumption, KnowledgeInv,
         UNCHANGED <<control, facts, repo, cycles, budget, history>>,
         driver' \in DriverType,
         driver'.step \notin {"publish", "commit"},
         \A p \in Pages : driver'.tree[p] \in Outputs => driver'.tree[p] \in published
  PROVE  KnowledgeInv'
<1>1. TypeOK'
  BY DEF KnowledgeInv, TypeOK, DriverType, control, repo, history
<1>2. HeadInv' /\ NothingLiveIsUnpublished'
  BY DEF KnowledgeInv, HeadInv, NothingLiveIsUnpublished, control, repo, history
<1>3. TreeInv' /\ CycleInv'
  BY DEF TreeInv, CycleInv, history
<1> QED
  BY <1>1, <1>2, <1>3 DEF KnowledgeInv

(* Before a cycle publishes, its clone holds only published prose.         *)
LEMMA CloneIsPublished ==
  ASSUME KnowledgeInv, driver.step # "publish", NEW p \in Pages, driver.tree[p] \in Outputs
  PROVE  driver.tree[p] \in published
  BY DEF KnowledgeInv, TreeInv

LEMMA AbortStep ==
  ASSUME KnowledgeAssumption, KnowledgeInv, Abort,
         UNCHANGED <<control, facts, repo, cycles, budget, history>>
  PROVE  KnowledgeInv'
<1>1. driver' \in DriverType /\ driver'.step = "idle"
  BY IdleType DEF Abort
<1>2. \A p \in Pages : driver'.tree[p] = None
  BY IdleType DEF Abort, NoClone
<1> QED
  BY <1>1, <1>2, QuietStep, NoneIsNoOutput

LEMMA BeginStep ==
  ASSUME KnowledgeAssumption, KnowledgeInv, Begin
  PROVE  KnowledgeInv'
<1>1. driver' = [step |-> "recover", tree |-> head, side |-> sidecars, todo |-> {},
                 changed |-> FALSE]
  BY DEF Begin, Idle
<1>2. driver' \in DriverType
  BY <1>1 DEF DriverType, Steps, KnowledgeInv, TypeOK
<1>3. \A p \in Pages : driver'.tree[p] \in Outputs => driver'.tree[p] \in published
  BY <1>1 DEF KnowledgeInv, HeadInv
<1> QED
  BY <1>1, <1>2, <1>3, QuietStep DEF Begin

LEMMA ReadingStep ==
  ASSUME KnowledgeAssumption, KnowledgeInv, ReadRecovery \/ ReadDrift
  PROVE  KnowledgeInv'
<1>1. PICK s \in {"settle", "quarantine"}, T \in SUBSET Pages :
        driver' = [driver EXCEPT !.step = s, !.todo = T]
  BY Zenon DEF ReadRecovery, ReadDrift, Schedulable
<1>2. driver' \in DriverType /\ driver'.step = s /\ driver'.tree = driver.tree
  BY <1>1, StepTypes DEF DriverType, Steps
<1>3. driver.step # "publish"
  BY DEF ReadRecovery, ReadDrift, At
<1> QED
  BY <1>2, <1>3, QuietStep, CloneIsPublished DEF ReadRecovery, ReadDrift

LEMMA SyncStep ==
  ASSUME KnowledgeAssumption, KnowledgeInv, Sync
  PROVE  KnowledgeInv'
<1>1. CASE Abort
  BY <1>1, AbortStep DEF Sync
<1>2. CASE GoTo("plan")
  <2>1. driver' \in DriverType /\ driver'.step = "plan" /\ driver'.tree = driver.tree
    BY <1>2, StepTypes DEF GoTo, Steps
  <2> QED
    BY <2>1, QuietStep, CloneIsPublished DEF Sync, At
<1> QED
  BY <1>1, <1>2 DEF Sync

LEMMA PlanStep ==
  ASSUME KnowledgeAssumption, KnowledgeInv, Plan
  PROVE  KnowledgeInv'
<1> DEFINE gone  == {p \in Pages : <<"retire", p>> \in plan}
           taken == {p \in Pages : <<"handover", p>> \in plan}
           tree  == [p \in Pages |-> IF p \in gone THEN None ELSE driver.tree[p]]
           side  == [p \in Pages |-> IF p \in taken THEN driver.side[p] \cup {driver.tree[p]}
                                                    ELSE driver.side[p]]
           moved == tree # driver.tree \/ side # driver.side
<1>1. CASE Abort
  BY <1>1, AbortStep DEF Plan
<1>2. CASE /\ \A p \in taken : driver.tree[p] # None
           /\ driver' = [driver EXCEPT !.step = "drift", !.tree = tree, !.side = side,
                            !.changed = moved]
  <2>1. tree \in [Pages -> Bodies \cup {None}]
    BY StepTypes DEF DriverType
  <2>2. side \in [Pages -> SUBSET Bodies]
    BY <1>2, StepTypes DEF DriverType
  <2> HIDE DEF tree, side, gone, taken
  <2>3. moved \in BOOLEAN
    OBVIOUS
  <2> HIDE DEF moved
  <2>4. driver' \in DriverType /\ driver'.step = "drift" /\ driver'.tree = tree
    BY <1>2, <2>1, <2>2, <2>3, StepTypes, Zenon DEF DriverType, Steps
  <2>5. \A p \in Pages : tree[p] \in Outputs => tree[p] \in published
    BY CloneIsPublished, NoneIsNoOutput DEF tree, Plan, At
  <2> QED
    BY <2>4, <2>5, QuietStep DEF Plan
<1> QED
  BY <1>1, <1>2 DEF Plan

LEMMA ScheduleStep ==
  ASSUME KnowledgeAssumption, KnowledgeInv, Schedule
  PROVE  KnowledgeInv'
<1> SUFFICES ASSUME ~Abort PROVE KnowledgeInv'
  BY AbortStep DEF Schedule
<1>1. PICK T \in SUBSET Pages, s \in {"compile", "publish", "stamp"} :
        /\ driver' = [driver EXCEPT !.todo = T, !.step = s]
        /\ s = "publish" => T = {}
  BY Zenon DEF Schedule, Schedulable
<1>2. /\ driver' \in DriverType
      /\ driver'.step = s /\ driver'.tree = driver.tree /\ driver'.todo = T
  BY <1>1, StepTypes DEF DriverType, Steps
<1>3. driver.step = "quarantine"
  BY DEF Schedule, At
<1>4. TypeOK'
  BY <1>2, Zenon DEF Schedule, KnowledgeInv, TypeOK, DriverType, control, repo, history
<1>5. HeadInv' /\ NothingLiveIsUnpublished'
  BY DEF Schedule, KnowledgeInv, HeadInv, NothingLiveIsUnpublished, control, repo, history
<1>6. TreeInv' /\ CycleInv'
  BY <1>1, <1>2, <1>3, CloneIsPublished DEF Schedule, TreeInv, CycleInv, history
<1> QED
  BY <1>4, <1>5, <1>6 DEF KnowledgeInv

(* Pages become live with the body of the pending cycle.                   *)
LEMMA LivePages ==
  ASSUME KnowledgeAssumption, KnowledgeInv, CanCommit, pending.body \in published,
         page' = Live(page), UNCHANGED <<open, published>>
  PROVE  /\ page' \in [Pages -> PageType] /\ Owned(page)' /\ Triaged(page, open)'
         /\ NothingLiveIsUnpublished'
<1>1. pending.body \in Bodies /\ pending.body # None
  BY NoneIsNoOutput DEF KnowledgeInv, TypeOK, Bodies
<1>2. ASSUME NEW p \in Pages
      PROVE  /\ page'[p] \in PageType
             /\ page'[p].kind = page[p].kind
             /\ page'[p] = page[p] \/ ( /\ p \in pending.pages /\ page'[p].status = "active"
                                      /\ page'[p].hash = pending.body)
  <2>1. CASE p \in pending.pages
    <3>1. page'[p] = [page[p] EXCEPT !.status = "active", !.hash = pending.body]
      BY <2>1, Zenon DEF Live
    <3>2. page[p] \in PageType
      BY StepTypes
    <3> QED
      BY <3>1, <3>2, <2>1, <1>1, ZenonT(40) DEF PageType, Statuses
  <2>2. CASE p \notin pending.pages
    BY <2>2, StepTypes, Zenon DEF Live
  <2> QED
    BY <2>1, <2>2
<1>3. page' \in [Pages -> PageType]
  BY <1>2, Zenon DEF Live
<1>4. Owned(page)'
  <2> SUFFICES ASSUME NEW p \in Pages
               PROVE  /\ page'[p].kind = "authored" => page'[p].status = "active"
                      /\ page'[p].kind = "compiled" /\ page'[p].status = "active"
                           => page'[p].hash # None
    BY DEF Owned
  <2> QED
    BY <1>1, <1>2, StepTypes DEF Owned
<1>5. NothingLiveIsUnpublished' /\ Triaged(page, open)'
  BY <1>2, StepTypes DEF KnowledgeInv, NothingLiveIsUnpublished, Triaged
<1> QED
  BY <1>3, <1>4, <1>5

LEMMA SettleStep ==
  ASSUME KnowledgeAssumption, KnowledgeInv, Settle
  PROVE  KnowledgeInv'
<1>1. /\ driver' \in DriverType /\ driver'.step = "sync" /\ driver'.tree = driver.tree
      /\ driver.step = "settle"
  BY StepTypes DEF Settle, At, DriverType, Steps
<1>2. pending' \in [pages : SUBSET Pages, body : Outputs]
  BY NoneIsNoOutput DEF Settle, Nothing, KnowledgeInv, TypeOK
<1>3. /\ page' \in [Pages -> PageType] /\ Owned(page)' /\ Triaged(page, open)'
      /\ NothingLiveIsUnpublished'
  <2>1. CASE page' = page
    BY <2>1, StepTypes
    DEF Settle, KnowledgeInv, NothingLiveIsUnpublished, Owned, Triaged, history
  <2>2. CASE pending.pages # {} /\ Matches /\ CanCommit /\ page' = Live(page)
    <3>1. PICK p \in pending.pages : TRUE
      BY <2>2
    <3>2. p \in Pages /\ pending.body \in Outputs
      BY <3>1 DEF KnowledgeInv, TypeOK
    <3>3. pending.body \in published
      BY <2>2, <3>1, <3>2, <1>1, CloneIsPublished DEF Matches
    <3> QED
      BY <2>2, <3>3, LivePages DEF Settle, history
  <2> QED
    BY <2>1, <2>2 DEF Settle
<1>4. TypeOK'
  BY <1>1, <1>2, <1>3
  DEF Settle, KnowledgeInv, TypeOK, PageType, Owned, Triaged, DriverType, repo, history
<1>5. HeadInv' /\ TreeInv' /\ CycleInv'
  BY <1>1, CloneIsPublished
  DEF Settle, KnowledgeInv, HeadInv, TreeInv, CycleInv, repo, history
<1> QED
  BY <1>3, <1>4, <1>5 DEF KnowledgeInv

(* The page of a quarantine, and its two tables.                           *)
LEMMA DetectedIsSome ==
  ASSUME KnowledgeInv, NEW p \in Pages
  PROVE  /\ Detected(p) # {} /\ Detected(p) \subseteq Bodies \cup {None}
         /\ driver.tree[p] \in Detected(p)
  BY StepTypes DEF Detected, DriverType, Bodies

LEMMA QuarantinedPage ==
  ASSUME KnowledgeInv, NEW p \in Pages, NEW q \in Pages,
         page' = [page EXCEPT ![p].status = "quarantined"]
  PROVE  /\ page'[q] \in PageType /\ page'[q].kind = page[q].kind
         /\ page'[q].hash = page[q].hash
         /\ page'[q].status = IF q = p THEN "quarantined" ELSE page[q].status
  BY StepTypes DEF PageType, Statuses

LEMMA QuarantineStep ==
  ASSUME KnowledgeAssumption, KnowledgeInv, NEW p \in Pages, Quarantine(p)
  PROVE  KnowledgeInv'
<1>1. CASE Abort /\ UNCHANGED <<page, archive, open>>
  BY <1>1, AbortStep DEF Quarantine, control
<1>2. ASSUME driver' = [driver EXCEPT !.todo = @ \ {p}]
      PROVE  /\ driver' \in DriverType /\ driver'.step = "quarantine"
             /\ driver'.tree = driver.tree /\ driver.step = "quarantine"
  BY <1>2, StepTypes DEF Quarantine, At, DriverType
<1>3. CASE /\ Drifted(p)
           /\ page' = [page EXCEPT ![p].status = "quarantined"]
           /\ archive' = archive \cup ({driver.tree[p]} \ ({None} \cup Garbled))
           /\ open' = [open EXCEPT ![p] = Detected(p)]
           /\ driver' = [driver EXCEPT !.todo = @ \ {p}]
  <2>1. archive' \subseteq Bodies
    BY <1>3, StepTypes DEF DriverType, KnowledgeInv, TypeOK
  <2>2. open' \in OpenType /\ open'[p] # {} /\ \A q \in Pages : q # p => open'[q] = open[q]
    BY <1>3, StepTypes, DetectedIsSome DEF OpenType
  <2>3. /\ page' \in [Pages -> PageType] /\ Owned(page)' /\ Triaged(page, open)'
        /\ NothingLiveIsUnpublished'
    <3>1. page' \in [Pages -> PageType]
      BY <1>3, StepTypes, QuarantinedPage
    <3>2. Owned(page)'
      BY <1>3, StepTypes, QuarantinedPage DEF Owned, Drifted, Compilable
    <3>3. Triaged(page, open)'
      BY <1>3, <2>2, StepTypes, QuarantinedPage DEF Triaged
    <3>4. NothingLiveIsUnpublished'
      BY <1>3, QuarantinedPage
      DEF KnowledgeInv, NothingLiveIsUnpublished, Quarantine, history
    <3> QED
      BY <3>1, <3>2, <3>3, <3>4
  <2>4. TypeOK'
    BY <1>2, <1>3, <2>1, <2>2, <2>3
    DEF Quarantine, KnowledgeInv, TypeOK, PageType, OpenType, Owned, Triaged, DriverType, repo,
        history
  <2>5. HeadInv' /\ TreeInv' /\ CycleInv'
    BY <1>2, <1>3, CloneIsPublished
    DEF Quarantine, KnowledgeInv, HeadInv, TreeInv, CycleInv, repo, history
  <2> QED
    BY <2>3, <2>4, <2>5 DEF KnowledgeInv
<1>4. CASE driver' = [driver EXCEPT !.todo = @ \ {p}] /\ UNCHANGED <<page, archive, open>>
  <2>1. \A q \in Pages : driver'.tree[q] \in Outputs => driver'.tree[q] \in published
    BY <1>2, <1>4, CloneIsPublished
  <2> QED
    BY <1>2, <1>4, <2>1, QuietStep DEF Quarantine, control
<1> QED
  BY <1>1, <1>3, <1>4 DEF Quarantine

LEMMA RecordStep ==
  ASSUME KnowledgeAssumption, KnowledgeInv, Record
  PROVE  KnowledgeInv'
<1> DEFINE n == cycles + 1
           written == [p \in Pages |-> IF p \in driver.todo THEN n ELSE driver.tree[p]]
<1>1. n \in Outputs /\ n \in Bodies /\ cycles' = n
  BY DEF Record, KnowledgeInv, TypeOK, KnowledgeAssumption, Outputs, Bodies
<1>2. written \in [Pages -> Bodies \cup {None}]
  BY <1>1, StepTypes DEF DriverType
<1>3. /\ driver' = [driver EXCEPT !.step = "publish", !.tree = written]
      /\ pending' = [pages |-> driver.todo, body |-> n]
      /\ driver.step = "compile"
  BY DEF Record, At
<1> HIDE DEF written, n
<1>4. /\ driver' \in DriverType /\ driver'.step = "publish" /\ driver'.tree = written
      /\ driver'.todo = driver.todo
  BY <1>2, <1>3, StepTypes DEF DriverType, Steps
<1>5. pending' \in [pages : SUBSET Pages, body : Outputs] /\ pending'.body = n
  BY <1>1, <1>3, StepTypes DEF DriverType
<1>6. TypeOK'
  BY <1>1, <1>4, <1>5, Zenon DEF Record, KnowledgeInv, TypeOK, DriverType, repo, history
<1>7. HeadInv' /\ NothingLiveIsUnpublished'
  BY DEF Record, KnowledgeInv, HeadInv, NothingLiveIsUnpublished, repo, history
<1>8. TreeInv'
  <2> SUFFICES ASSUME NEW p \in Pages, driver'.tree[p] \in Outputs
               PROVE  \/ driver'.tree[p] \in published'
                      \/ driver'.step = "publish" /\ driver'.todo # {} /\ driver'.tree[p] = cycles'
    BY DEF TreeInv
  <2>1. CASE p \in driver.todo
    BY <2>1, <1>1, <1>4 DEF written
  <2>2. CASE p \notin driver.todo
    BY <2>2, <1>3, <1>4, CloneIsPublished DEF written, Record, history
  <2> QED
    BY <2>1, <2>2
<1>9. CycleInv'
  BY <1>1, <1>4, <1>5 DEF CycleInv
<1> QED
  BY <1>6, <1>7, <1>8, <1>9 DEF KnowledgeInv

LEMMA PublishStep ==
  ASSUME KnowledgeAssumption, KnowledgeInv, Publish
  PROVE  KnowledgeInv'
<1>1. PICK s \in {"stamp", "commit"} :
        /\ driver' = [driver EXCEPT !.step = s]
        /\ s = "stamp" <=> driver.todo = {}
  BY DEF Publish, GoTo
<1>2. /\ driver' \in DriverType /\ driver'.step = s /\ driver'.tree = driver.tree
      /\ driver.step = "publish"
  BY <1>1, StepTypes DEF Publish, At, Steps
<1>3. /\ published \subseteq published' /\ published' \subseteq Outputs
      /\ driver.todo # {} => cycles \in published'
  BY DEF Publish, KnowledgeInv, TypeOK
<1>4. head' = driver.tree /\ sidecars' = driver.side
  BY DEF Publish
<1>5. TypeOK'
  BY <1>2, <1>3, <1>4, StepTypes
  DEF Publish, KnowledgeInv, TypeOK, DriverType, control
<1>6. \A p \in Pages : driver.tree[p] \in Outputs => driver.tree[p] \in published'
  BY <1>3 DEF KnowledgeInv, TreeInv
<1>7. HeadInv' /\ TreeInv'
  BY <1>2, <1>4, <1>6 DEF HeadInv, TreeInv
<1>8. CycleInv'
  BY <1>1, <1>2, <1>3 DEF CycleInv, KnowledgeInv, Publish, control
<1>9. NothingLiveIsUnpublished'
  BY <1>3 DEF Publish, KnowledgeInv, NothingLiveIsUnpublished, control
<1> QED
  BY <1>5, <1>7, <1>8, <1>9 DEF KnowledgeInv

LEMMA CommitStep ==
  ASSUME KnowledgeAssumption, KnowledgeInv, Commit
  PROVE  KnowledgeInv'
<1>1. CASE Abort /\ UNCHANGED <<page, pending>>
  BY <1>1, AbortStep DEF Commit, control
<1>2. CASE CanCommit /\ page' = Live(page) /\ pending' = Nothing /\ GoTo("stamp")
  <2>1. /\ driver' \in DriverType /\ driver'.step = "stamp" /\ driver'.tree = driver.tree
        /\ driver.step = "commit"
    BY <1>2, StepTypes DEF Commit, At, GoTo, Steps
  <2>2. pending' \in [pages : SUBSET Pages, body : Outputs]
    BY <1>2, NoneIsNoOutput DEF Nothing
  <2>3. /\ page' \in [Pages -> PageType] /\ Owned(page)' /\ Triaged(page, open)'
        /\ NothingLiveIsUnpublished'
    BY <1>2, <2>1, LivePages DEF Commit, KnowledgeInv, CycleInv, history
  <2>4. TypeOK'
    BY <2>1, <2>2, <2>3
    DEF Commit, KnowledgeInv, TypeOK, PageType, Owned, Triaged, DriverType, repo, history
  <2>5. HeadInv' /\ TreeInv' /\ CycleInv'
    BY <2>1, CloneIsPublished
    DEF Commit, KnowledgeInv, HeadInv, TreeInv, CycleInv, repo, history
  <2> QED
    BY <2>3, <2>4, <2>5 DEF KnowledgeInv
<1> QED
  BY <1>1, <1>2 DEF Commit

LEMMA StampStep ==
  ASSUME KnowledgeAssumption, KnowledgeInv, Stamp
  PROVE  KnowledgeInv'
<1>1. driver' \in DriverType /\ driver'.step = "idle" /\ \A p \in Pages : driver'.tree[p] = None
  BY IdleType DEF Stamp, NoClone
<1>2. TypeOK'
  BY <1>1 DEF Stamp, KnowledgeInv, TypeOK, DriverType, repo, history
<1>3. HeadInv' /\ TreeInv' /\ CycleInv' /\ NothingLiveIsUnpublished'
  BY <1>1, NoneIsNoOutput
  DEF Stamp, KnowledgeInv, HeadInv, TreeInv, CycleInv, NothingLiveIsUnpublished, repo, history
<1> QED
  BY <1>2, <1>3 DEF KnowledgeInv

LEMMA FailStep ==
  ASSUME KnowledgeAssumption, KnowledgeInv, Fail
  PROVE  KnowledgeInv'
<1>1. /\ driver' \in DriverType /\ driver'.step = "idle"
      /\ \A p \in Pages : driver'.tree[p] = None
  BY IdleType DEF Fail, Abort, NoClone
<1>2. budget' \in [failures : 0..MaxFailures, accepted : 0..MaxAccepted, switches : 0..MaxSwitches]
  BY DEF Fail, KnowledgeInv, TypeOK, KnowledgeAssumption
<1>3. TypeOK'
  BY <1>1, <1>2 DEF Fail, KnowledgeInv, TypeOK, DriverType, control, repo, history
<1>4. HeadInv' /\ TreeInv' /\ CycleInv' /\ NothingLiveIsUnpublished'
  BY <1>1, NoneIsNoOutput
  DEF Fail, KnowledgeInv, HeadInv, TreeInv, CycleInv, NothingLiveIsUnpublished, control, repo,
      history
<1> QED
  BY <1>3, <1>4 DEF KnowledgeInv

-----------------------------------------------------------------------------
(* Everybody else's.                                                       *)

(* One page is given to somebody, or another status, and no other hash.    *)
LEMMA PageStep ==
  ASSUME KnowledgeAssumption, KnowledgeInv, NEW p \in Pages, NEW pg \in PageType,
         pg.hash \in {page[p].hash, None},
         pg.kind = "authored" => pg.status = "active",
         pg.kind = "compiled" /\ pg.status = "active" => pg.hash # None,
         page' = [page EXCEPT ![p] = pg],
         open' \in OpenType, \A q \in Pages : q # p => open'[q] = open[q],
         pg.status = "quarantined" => open'[p] # {},
         plan' \subseteq {"retire", "handover"} \X Pages,
         budget' \in [failures : 0..MaxFailures, accepted : 0..MaxAccepted,
                     switches : 0..MaxSwitches],
         owed' \subseteq owed, exposed' \subseteq Edits, disturbed' \in BOOLEAN,
         UNCHANGED <<archive, pending, facts, repo, driver, cycles, published>>
  PROVE  KnowledgeInv'
<1>1. \A q \in Pages : page'[q] = IF q = p THEN pg ELSE page[q]
  BY StepTypes
<1>2. page' \in [Pages -> PageType] /\ Owned(page)' /\ Triaged(page, open)'
  BY <1>1, StepTypes DEF Owned, Triaged
<1>3. TypeOK'
  BY <1>2 DEF KnowledgeInv, TypeOK, PageType, OpenType, Owned, Triaged, repo
<1>4. HeadInv' /\ TreeInv' /\ CycleInv'
  BY DEF KnowledgeInv, HeadInv, TreeInv, CycleInv, repo
<1>5. NothingLiveIsUnpublished'
  BY <1>1 DEF KnowledgeInv, NothingLiveIsUnpublished
<1> QED
  BY <1>3, <1>4, <1>5 DEF KnowledgeInv

LEMMA ReviewStep ==
  ASSUME KnowledgeAssumption, KnowledgeInv, NEW p \in Pages,
         MarkStale(p) \/ Resume(p) \/ Adopt(p) \/ Convert(p) \/ Retire(p) \/ Handover(p)
  PROVE  KnowledgeInv'
<1>1. \A s \in Statuses : [page[p] EXCEPT !.status = s] \in PageType
  BY StepTypes DEF PageType
<1>2. plan \subseteq {"retire", "handover"} \X Pages /\ disturbed \in BOOLEAN
      /\ exposed \subseteq Edits
      /\ budget \in [failures : 0..MaxFailures, accepted : 0..MaxAccepted,
                     switches : 0..MaxSwitches]
  BY DEF KnowledgeInv, TypeOK
<1>3. ASSUME NEW d \in {"retire", "handover"} \X Pages, Accept(d)
      PROVE  /\ plan' \subseteq {"retire", "handover"} \X Pages
             /\ budget' \in [failures : 0..MaxFailures, accepted : 0..MaxAccepted,
                             switches : 0..MaxSwitches]
  BY <1>2, <1>3 DEF Accept, KnowledgeAssumption
<1> DEFINE closed == [open EXCEPT ![p] = {}]
<1>o. /\ open \in OpenType /\ closed \in OpenType
      /\ \A q \in Pages : q # p => closed[q] = open[q]
  BY StepTypes DEF OpenType
<1> HIDE DEF closed
<1>4. CASE MarkStale(p)
  <2> DEFINE pg == [page[p] EXCEPT !.status = "stale"]
  <2>1. pg \in PageType /\ pg.hash = page[p].hash /\ pg.kind = page[p].kind
        /\ pg.status = "stale" /\ page' = [page EXCEPT ![p] = pg]
    BY <1>1, <1>4, StepTypes DEF MarkStale, Statuses, PageType
  <2> HIDE DEF pg
  <2> QED
    BY <1>2, <1>4, <1>o, <2>1, PageStep DEF MarkStale, Compilable, history
<1>5. CASE Resume(p)
  <2> DEFINE pg == IF page[p].status = "quarantined" THEN Resumed(p) ELSE page[p]
  <2>1. /\ Resumed(p) \in PageType /\ Resumed(p).hash = None
        /\ Resumed(p).kind = page[p].kind /\ Resumed(p).status = "stale"
    BY StepTypes, ZenonT(40) DEF Resumed, PageType, Statuses
  <2>2. /\ pg \in PageType /\ pg.hash \in {page[p].hash, None} /\ pg.status # "quarantined"
        /\ pg.kind = "authored" => pg.status = "active"
        /\ pg.kind = "compiled" /\ pg.status = "active" => pg.hash # None
    BY <2>1, StepTypes DEF Owned
  <2>3. page' = [page EXCEPT ![p] = pg] /\ open' = closed
    BY <1>5, StepTypes DEF Resume, closed
  <2>4. UNCHANGED <<archive, pending, plan, facts, repo, driver, cycles, budget, published,
                    owed, exposed, disturbed>>
    BY <1>5 DEF Resume, history
  <2> HIDE DEF pg
  <2> QED
    BY <1>2, <1>o, <2>2, <2>3, <2>4, PageStep
<1>6. CASE Adopt(p) \/ Convert(p)
  <2> DEFINE pg == [kind |-> "authored", status |-> "active", hash |-> None]
  <2>1. pg \in PageType /\ page' = [page EXCEPT ![p] = pg]
    BY <1>6 DEF Adopt, Convert, BecomesAuthored, PageType, Kinds, Statuses
  <2>2. disturbed' \in BOOLEAN /\ open' \in {open, closed}
    BY <1>2, <1>6 DEF Adopt, Convert, BecomesAuthored, closed
  <2> QED
    BY <1>2, <1>6, <1>o, <2>1, <2>2, PageStep DEF Adopt, Convert, BecomesAuthored
<1>7. CASE Retire(p)
  <2> DEFINE pg == [page[p] EXCEPT !.status = "tombstoned"]
  <2>1. pg \in PageType /\ pg.hash = page[p].hash /\ pg.kind = page[p].kind
        /\ pg.status = "tombstoned" /\ page' = [page EXCEPT ![p] = pg]
    BY <1>1, <1>7, StepTypes DEF Retire, Statuses, PageType
  <2> HIDE DEF pg
  <2>2. owed' \subseteq owed /\ disturbed' \in BOOLEAN
    BY <1>2, <1>7 DEF Retire
  <2> QED
    BY <1>2, <1>3, <1>7, <1>o, <2>1, <2>2, PageStep DEF Retire, Compilable
<1>8. CASE Handover(p)
  <2> DEFINE pg == [kind |-> "compiled", status |-> "stale", hash |-> None]
  <2>1. pg \in PageType /\ page' = [page EXCEPT ![p] = pg]
    BY <1>8 DEF Handover, PageType, Kinds, Statuses
  <2>2. exposed' \subseteq Edits
    BY <1>2, <1>8 DEF Handover
  <2> QED
    BY <1>2, <1>3, <1>8, <1>o, <2>1, <2>2, PageStep DEF Handover
<1> QED
  BY <1>4, <1>5, <1>6, <1>7, <1>8

LEMMA EditStep ==
  ASSUME KnowledgeAssumption, KnowledgeInv,
         NEW p \in Pages, NEW e \in Edits \cup Garbled, Edit(p, e)
  PROVE  KnowledgeInv'
<1>1. /\ head' \in [Pages -> Bodies \cup {None}]
      /\ \A q \in Pages : head'[q] = IF q = p THEN e ELSE head[q]
  BY DEF Edit, KnowledgeInv, TypeOK, Bodies
<1>2. owed' \subseteq Edits /\ exposed' \subseteq Edits /\ disturbed' \in BOOLEAN
  BY DEF Edit, KnowledgeInv, TypeOK
<1>3. TypeOK'
  BY <1>1, <1>2 DEF Edit, KnowledgeInv, TypeOK, control
<1>4. e \notin Outputs
  BY NoneIsNoOutput DEF KnowledgeAssumption
<1>5. HeadInv'
  BY <1>1, <1>4 DEF Edit, KnowledgeInv, HeadInv
<1>6. TreeInv' /\ CycleInv' /\ NothingLiveIsUnpublished'
  BY DEF Edit, KnowledgeInv, TreeInv, CycleInv, NothingLiveIsUnpublished, control
<1> QED
  BY <1>3, <1>5, <1>6 DEF KnowledgeInv

LEMMA SwitchStep ==
  ASSUME KnowledgeAssumption, KnowledgeInv, SwitchFacts
  PROVE  KnowledgeInv'
<1>1. budget' \in [failures : 0..MaxFailures, accepted : 0..MaxAccepted, switches : 0..MaxSwitches]
  BY DEF SwitchFacts, KnowledgeInv, TypeOK, KnowledgeAssumption
<1>2. facts' \in BOOLEAN /\ disturbed' \in BOOLEAN
  BY DEF SwitchFacts, KnowledgeInv, TypeOK
<1>3. TypeOK'
  BY <1>1, <1>2 DEF SwitchFacts, KnowledgeInv, TypeOK, control, repo
<1>4. HeadInv' /\ TreeInv' /\ CycleInv' /\ NothingLiveIsUnpublished'
  BY DEF SwitchFacts, KnowledgeInv, HeadInv, TreeInv, CycleInv, NothingLiveIsUnpublished,
         control, repo
<1> QED
  BY <1>3, <1>4 DEF KnowledgeInv

-----------------------------------------------------------------------------
(* The theorems.                                                           *)

LEMMA StepInv ==
  ASSUME KnowledgeAssumption, KnowledgeInv, [Next]_vars
  PROVE  KnowledgeInv'
<1>1. CASE Cycle
  <2>1. CASE SettleRaises
    BY <2>1, AbortStep DEF SettleRaises
  <2> QED
    BY <1>1, <2>1, BeginStep, ReadingStep, SettleStep, SyncStep, PlanStep, QuarantineStep,
       ScheduleStep, RecordStep, PublishStep, CommitStep, StampStep DEF Cycle
<1>2. CASE UNCHANGED vars
  BY <1>2 DEF vars, control, repo, history, KnowledgeInv, TypeOK, HeadInv, TreeInv, CycleInv,
              NothingLiveIsUnpublished
<1> QED
  BY <1>1, <1>2, FailStep, SwitchStep, EditStep, ReviewStep DEF Next

(* The invariant the theorems below stand on.                              *)
THEOREM Invariance == Spec => []KnowledgeInv
<1>1. Init => KnowledgeInv
  BY InitType, KnowledgeAssumption
<1>2. KnowledgeInv /\ [Next]_vars => KnowledgeInv'
  BY StepInv, KnowledgeAssumption
<1> QED
  BY <1>1, <1>2, PTL DEF Spec

(* Rows, clone, repository and histories stay well formed; an authored     *)
(* page is active, and an active compiled one has a recorded body.         *)
THEOREM TypeCorrect == Spec => []TypeOK
<1>1. KnowledgeInv => TypeOK
  BY DEF KnowledgeInv
<1> QED
  BY <1>1, Invariance, PTL

(* No interleaving of cycles that die, edits, reviews and decisions makes  *)
(* a body live that has not been in the repository.                        *)
THEOREM LiveIsPublished == Spec => []NothingLiveIsUnpublished
<1>1. KnowledgeInv => NothingLiveIsUnpublished
  BY DEF KnowledgeInv
<1> QED
  BY <1>1, Invariance, PTL

-----------------------------------------------------------------------------
(* A published cycle is recovered.  While nobody disturbs an unfinished    *)
(* cycle its pages stay schedulable and, once published, keep its bodies   *)
(* in the repository: all of them, or none.  So the next cycle, which sees *)
(* any, sees all and finishes it; and every other compiled body in the     *)
(* repository is the recorded one.                                         *)

CycleNumbers == published \subseteq 0..cycles /\ pending.body \in 0..cycles

Settled(d) == \/ d.step \in {"sync", "plan", "drift", "quarantine", "compile", "stamp"}
              \/ d.step = "publish" /\ d.todo = {}

OnlyPending ==
  /\ Settled(driver) => pending.pages = {}
  /\ driver.step = "publish" /\ driver.todo # {} =>
       /\ pending.pages = driver.todo
       /\ \A p \in driver.todo : driver.tree[p] = cycles

AllOrNone ==
  pending.body \in published =>
    \A p \in pending.pages :
      /\ head[p] = pending.body
      /\ driver.step \in {"recover", "settle"} => driver.tree[p] = pending.body
      /\ driver.step = "settle" => p \in driver.todo

StillSchedulable == Unfinished # {} => facts /\ \A p \in Unfinished : Compilable(p)

Accounted(body, p) ==
  body \in Outputs /\ page[p].hash # None =>
    body = page[p].hash \/ (p \in pending.pages /\ body = pending.body)

HeadAccounted == \A p \in Pages : Accounted(head[p], p)

TreeAccounted ==
  driver.step \notin {"commit", "stamp"} => \A p \in Pages : Accounted(driver.tree[p], p)

Orderly ==
  /\ AllOrNone /\ StillSchedulable /\ HeadAccounted /\ TreeAccounted
  /\ archive \subseteq Edits

RecoveryInv == CycleNumbers /\ OnlyPending /\ (~disturbed => Orderly)

LEMMA RecoveryInit == ASSUME KnowledgeAssumption, Init PROVE RecoveryInv
<1>1. CycleNumbers /\ OnlyPending
  BY DEF Init, CycleNumbers, OnlyPending, Settled, Nothing, Idle, Outputs
<1>2. AllOrNone /\ StillSchedulable
  BY DEF Init, AllOrNone, StillSchedulable, Unfinished, Nothing, Idle, At
<1>3. HeadAccounted
  BY NoneIsNoOutput DEF Init, Initially, HeadAccounted, Accounted
<1>4. TreeAccounted
  BY NoneIsNoOutput, IdleType DEF Init, TreeAccounted, Accounted, NoClone
<1> QED
  BY <1>1, <1>2, <1>3, <1>4 DEF Init, RecoveryInv, Orderly

(* A step of the driver that writes nothing anywhere.                      *)
LEMMA QuietRecovery ==
  ASSUME KnowledgeAssumption, KnowledgeInv, RecoveryInv,
         UNCHANGED <<page, archive, pending, facts, repo, cycles, published, disturbed>>,
         Settled(driver') => pending.pages = {},
         driver'.step # "publish" \/ driver'.todo = {},
         ~disturbed => /\ AllOrNone' /\ StillSchedulable'
                       /\ driver'.step \notin {"commit", "stamp"} =>
                            \A p \in Pages : Accounted(driver'.tree[p], p)
  PROVE  RecoveryInv'
<1>1. CycleNumbers' /\ OnlyPending'
  BY DEF RecoveryInv, CycleNumbers, OnlyPending
<1>2. ~disturbed => HeadAccounted' /\ TreeAccounted' /\ (archive \subseteq Edits)'
  BY DEF RecoveryInv, Orderly, HeadAccounted, TreeAccounted, Accounted, repo
<1> QED
  BY <1>1, <1>2 DEF RecoveryInv, Orderly

LEMMA AbortRecovery ==
  ASSUME KnowledgeAssumption, KnowledgeInv, RecoveryInv, Abort,
         UNCHANGED <<page, archive, pending, facts, repo, cycles, published, disturbed>>
  PROVE  RecoveryInv'
<1>1. driver'.step = "idle" /\ driver'.tree = NoClone
  BY IdleType DEF Abort
<1>2. ~disturbed => AllOrNone' /\ StillSchedulable'
  BY <1>1 DEF RecoveryInv, Orderly, AllOrNone, StillSchedulable, Unfinished, At, repo, Compilable
<1>3. \A p \in Pages : Accounted(driver'.tree[p], p)
  BY <1>1, NoneIsNoOutput DEF Accounted, NoClone
<1> QED
  BY <1>1, <1>2, <1>3, QuietRecovery DEF Settled

LEMMA BeginRecovery ==
  ASSUME KnowledgeAssumption, KnowledgeInv, RecoveryInv, Begin
  PROVE  RecoveryInv'
<1>1. driver'.step = "recover" /\ driver'.tree = head /\ driver'.todo = {}
  BY DEF Begin, Idle
<1>2. ~disturbed => AllOrNone' /\ StillSchedulable'
  BY <1>1 DEF Begin, RecoveryInv, Orderly, AllOrNone, StillSchedulable, Unfinished, At, repo,
              Compilable, control, history
<1>3. ~disturbed => \A p \in Pages : Accounted(driver'.tree[p], p)
  BY <1>1 DEF RecoveryInv, Orderly, HeadAccounted
<1> QED
  BY <1>1, <1>2, <1>3, QuietRecovery DEF Begin, Settled, control, history

LEMMA ReadRecoveryStep ==
  ASSUME KnowledgeAssumption, KnowledgeInv, RecoveryInv, ReadRecovery
  PROVE  RecoveryInv'
<1>1. /\ driver'.step = "settle" /\ driver'.tree = driver.tree /\ driver'.todo = Schedulable
      /\ driver.step = "recover"
  BY StepTypes DEF ReadRecovery, At, DriverType
<1>2. ~disturbed => StillSchedulable'
  BY <1>1
  DEF ReadRecovery, RecoveryInv, Orderly, StillSchedulable, Unfinished, At, Compilable, control
<1>3. ASSUME ~disturbed PROVE AllOrNone'
  <2>1. \A p \in pending.pages : p \in Schedulable
    BY <1>3
    DEF RecoveryInv, Orderly, StillSchedulable, Unfinished, Schedulable, KnowledgeInv, TypeOK
  <2> QED
    BY <1>1, <1>3, <2>1
    DEF ReadRecovery, RecoveryInv, Orderly, AllOrNone, repo, control, history
<1>4. ~disturbed => \A p \in Pages : Accounted(driver'.tree[p], p)
  BY <1>1 DEF RecoveryInv, Orderly, TreeAccounted
<1> QED
  BY <1>1, <1>2, <1>3, <1>4, QuietRecovery DEF ReadRecovery, Settled, control, history

(* With nothing pending, a cycle that only reads or prepares its clone.    *)
LEMMA CalmRecovery ==
  ASSUME KnowledgeAssumption, KnowledgeInv, RecoveryInv, pending.pages = {},
         UNCHANGED <<page, archive, pending, facts, repo, cycles, published, disturbed>>,
         driver'.step # "publish" \/ driver'.todo = {},
         driver'.step = "compile" => driver'.todo \subseteq Schedulable,
         ~disturbed /\ driver'.step \notin {"commit", "stamp"} =>
           \A p \in Pages : Accounted(driver'.tree[p], p)
  PROVE  RecoveryInv'
<1>1. AllOrNone'
  BY DEF AllOrNone
<1>2. StillSchedulable'
  BY DEF StillSchedulable, Unfinished, At, Schedulable, Compilable
<1> QED
  BY <1>1, <1>2, QuietRecovery

LEMMA SettledCalm ==
  ASSUME RecoveryInv, driver.step \in {"sync", "plan", "drift", "quarantine", "compile", "stamp"}
  PROVE  pending.pages = {}
  BY DEF RecoveryInv, OnlyPending, Settled

LEMMA PreparingRecovery ==
  ASSUME KnowledgeAssumption, KnowledgeInv, RecoveryInv, Sync \/ ReadDrift \/ Schedule \/ Stamp
  PROVE  RecoveryInv'
<1>1. driver.step \in {"sync", "drift", "quarantine", "stamp"}
  BY DEF Sync, ReadDrift, Schedule, Stamp, At
<1>2. UNCHANGED <<page, archive, pending, facts, repo, cycles, published, disturbed>>
  BY DEF Sync, ReadDrift, Schedule, Stamp, control, history
<1>3. CASE Abort \/ driver' = Idle
  BY <1>2, <1>3, AbortRecovery DEF Abort
<1>4. CASE Sync /\ GoTo("plan")
  <2>1. driver'.step = "plan" /\ driver'.tree = driver.tree
    BY <1>4, StepTypes DEF GoTo, Steps
  <2> QED
    BY <1>1, <1>2, <2>1, <1>4, SettledCalm, CalmRecovery
    DEF RecoveryInv, Orderly, TreeAccounted, Sync, At
<1>5. CASE ReadDrift
  <2>1. driver'.step = "quarantine" /\ driver'.tree = driver.tree /\ driver.step = "drift"
    BY <1>5, StepTypes DEF ReadDrift, DriverType, At
  <2> QED
    BY <1>1, <1>2, <2>1, SettledCalm, CalmRecovery DEF RecoveryInv, Orderly, TreeAccounted
<1>6. CASE Schedule
  <2> SUFFICES ASSUME ~Abort PROVE RecoveryInv'
    BY <1>3
  <2>1. PICK T \in SUBSET Schedulable, st \in {"compile", "publish", "stamp"} :
          /\ driver' = [driver EXCEPT !.todo = T, !.step = st]
          /\ st = "publish" => T = {}
    BY <1>6, Zenon DEF Schedule, Schedulable
  <2>2. /\ driver'.step = st /\ driver'.todo = T /\ driver'.tree = driver.tree
        /\ driver.step = "quarantine"
    BY <2>1, <1>6, StepTypes DEF DriverType, Schedule, At
  <2> QED
    BY <1>1, <1>2, <2>1, <2>2, SettledCalm, CalmRecovery DEF RecoveryInv, Orderly, TreeAccounted
<1> QED
  BY <1>3, <1>4, <1>5, <1>6 DEF Sync, Stamp

LEMMA PlanRecovery ==
  ASSUME KnowledgeAssumption, KnowledgeInv, RecoveryInv, Plan
  PROVE  RecoveryInv'
<1> DEFINE gone  == {p \in Pages : <<"retire", p>> \in plan}
           taken == {p \in Pages : <<"handover", p>> \in plan}
           tree  == [p \in Pages |-> IF p \in gone THEN None ELSE driver.tree[p]]
           side  == [p \in Pages |-> IF p \in taken THEN driver.side[p] \cup {driver.tree[p]}
                                                    ELSE driver.side[p]]
           moved == tree # driver.tree \/ side # driver.side
<1>1. /\ driver.step = "plan"
      /\ UNCHANGED <<page, archive, pending, facts, repo, cycles, published, disturbed>>
  BY DEF Plan, At, control, history
<1>2. CASE Abort
  BY <1>1, <1>2, AbortRecovery
<1>3. CASE driver' = [driver EXCEPT !.step = "drift", !.tree = tree, !.side = side,
                        !.changed = moved]
  <2>1. driver'.step = "drift" /\ driver'.tree = tree
    BY <1>3, StepTypes DEF DriverType
  <2>2. ~disturbed => \A p \in Pages : Accounted(tree[p], p)
    BY <1>1, NoneIsNoOutput DEF RecoveryInv, Orderly, TreeAccounted, Accounted
  <2> HIDE DEF tree
  <2> QED
    BY <1>1, <2>1, <2>2, SettledCalm, CalmRecovery
<1> QED
  BY <1>2, <1>3 DEF Plan

(* Prose that was published is found in the clone: what the next cycle     *)
(* gives up has not been in the repository.                                *)
LEMMA GivenUpIsUnpublished ==
  ASSUME RecoveryInv, ~disturbed, driver.step = "settle", ~Matches
  PROVE  pending.body \notin published
  BY DEF RecoveryInv, Orderly, AllOrNone, Matches

LEMMA LiveHash ==
  ASSUME KnowledgeAssumption, KnowledgeInv, NEW p \in pending.pages
  PROVE  p \in Pages /\ Live(page)[p].hash = pending.body
<1>1. p \in Pages /\ page[p] \in PageType
  BY StepTypes DEF KnowledgeInv, TypeOK
<1>2. Live(page)[p] = [page[p] EXCEPT !.status = "active", !.hash = pending.body]
  BY <1>1 DEF Live
<1> QED
  BY <1>1, <1>2 DEF PageType

LEMMA SettleRecovery ==
  ASSUME KnowledgeAssumption, KnowledgeInv, RecoveryInv, Settle
  PROVE  RecoveryInv'
<1>1. /\ driver.step = "settle" /\ driver'.step = "sync" /\ driver'.tree = driver.tree
      /\ driver'.todo = {}
      /\ UNCHANGED <<archive, facts, repo, cycles, published, disturbed>>
  BY StepTypes DEF Settle, At, DriverType, history
<1>2. pending'.pages = {} /\ (pending' = pending \/ pending' = Nothing)
  BY DEF Settle, Nothing
<1>3. pending.body \in Outputs /\ pending.pages \subseteq Pages /\ cycles \in Nat
  BY NoneIsNoOutput DEF KnowledgeInv, TypeOK
<1>4. CycleNumbers' /\ OnlyPending'
  BY <1>1, <1>2, <1>3 DEF RecoveryInv, CycleNumbers, OnlyPending, Nothing
<1>5. AllOrNone' /\ StillSchedulable'
  BY <1>1, <1>2 DEF AllOrNone, StillSchedulable, Unfinished, At
<1>6. ASSUME ~disturbed PROVE HeadAccounted' /\ TreeAccounted'
  <2>1. Orderly
    BY <1>6 DEF RecoveryInv
  <2>2. CASE pending.pages = {} /\ page' = page
    BY <2>1, <2>2, <1>1, <1>2 DEF Orderly, HeadAccounted, TreeAccounted, Accounted, repo
  <2>3. CASE pending.pages # {} /\ Matches /\ page' = Live(page)
    <3>1. pending.body \in published
      BY <1>1, <1>3, <2>3, CloneIsPublished DEF Matches
    <3>2. \A p \in pending.pages : /\ head[p] = pending.body /\ driver.tree[p] = pending.body
                                   /\ page'[p].hash = pending.body
      BY <2>1, <2>3, <3>1, LiveHash DEF Orderly, AllOrNone, Matches
    <3>3. \A p \in Pages \ pending.pages : page'[p] = page[p]
      BY <2>3, Zenon DEF Live
    <3> QED
      BY <2>1, <3>2, <3>3, <1>1 DEF Orderly, HeadAccounted, TreeAccounted, Accounted, repo
  <2>4. CASE ~Matches /\ page' = page
    <3>1. pending.body \notin published
      BY <1>1, <1>6, <2>4, GivenUpIsUnpublished
    <3>2. \A p \in Pages : head[p] # pending.body /\ driver.tree[p] # pending.body
      BY <3>1, <1>1, <1>3, CloneIsPublished DEF KnowledgeInv, HeadInv
    <3> QED
      BY <2>1, <2>4, <3>2, <1>1 DEF Orderly, HeadAccounted, TreeAccounted, Accounted, repo
  <2> QED
    BY <2>2, <2>3, <2>4 DEF Settle
<1> QED
  BY <1>1, <1>4, <1>5, <1>6 DEF RecoveryInv, Orderly

LEMMA QuarantineRecovery ==
  ASSUME KnowledgeAssumption, KnowledgeInv, RecoveryInv, NEW p \in Pages, Quarantine(p)
  PROVE  RecoveryInv'
<1>1. /\ driver.step = "quarantine" /\ pending.pages = {}
      /\ UNCHANGED <<pending, facts, repo, cycles, published, disturbed>>
  BY SettledCalm DEF Quarantine, At, history
<1>2. CASE Abort /\ UNCHANGED <<page, archive, open>>
  BY <1>1, <1>2, AbortRecovery
<1>3. CASE /\ Drifted(p)
           /\ page' = [page EXCEPT ![p].status = "quarantined"]
           /\ archive' = archive \cup ({driver.tree[p]} \ ({None} \cup Garbled))
           /\ driver' = [driver EXCEPT !.todo = @ \ {p}]
  <2>1. driver'.step = "quarantine" /\ driver'.tree = driver.tree
    BY <1>1, <1>3, StepTypes DEF DriverType
  <2>2. CycleNumbers' /\ OnlyPending' /\ AllOrNone' /\ StillSchedulable'
    BY <1>1, <2>1
    DEF RecoveryInv, CycleNumbers, OnlyPending, AllOrNone, StillSchedulable, Unfinished, At
  <2>3. ASSUME ~disturbed PROVE HeadAccounted' /\ TreeAccounted' /\ archive' \subseteq Edits
    <3>1. \A q \in Pages : page'[q].hash = page[q].hash
      BY <1>3, StepTypes DEF PageType
    <3>2. HeadAccounted' /\ TreeAccounted'
      BY <1>1, <2>1, <2>3, <3>1
      DEF RecoveryInv, Orderly, HeadAccounted, TreeAccounted, Accounted, repo
    <3>3. driver.tree[p] \notin Outputs
      BY <1>1, <1>3, <2>3 DEF RecoveryInv, Orderly, TreeAccounted, Accounted, Drifted
    <3>4. driver.tree[p] \in Edits \cup Garbled \cup {None}
      BY <3>3, StepTypes DEF DriverType, Bodies
    <3> QED
      BY <1>3, <2>3, <3>2, <3>4 DEF RecoveryInv, Orderly
  <2> QED
    BY <1>1, <2>2, <2>3 DEF RecoveryInv, Orderly
<1>4. CASE driver' = [driver EXCEPT !.todo = @ \ {p}] /\ UNCHANGED <<page, archive, open>>
  <2>1. driver'.step = "quarantine" /\ driver'.tree = driver.tree
    BY <1>1, <1>4, StepTypes DEF DriverType
  <2> QED
    BY <1>1, <1>4, <2>1, CalmRecovery DEF RecoveryInv, Orderly, TreeAccounted
<1> QED
  BY <1>2, <1>3, <1>4 DEF Quarantine

LEMMA RecordRecovery ==
  ASSUME KnowledgeAssumption, KnowledgeInv, RecoveryInv, Record
  PROVE  RecoveryInv'
<1> DEFINE n == cycles + 1
           written == [p \in Pages |-> IF p \in driver.todo THEN n ELSE driver.tree[p]]
<1>1. /\ driver.step = "compile" /\ pending.pages = {}
      /\ cycles' = n /\ pending' = [pages |-> driver.todo, body |-> n]
      /\ UNCHANGED <<page, archive, facts, repo, published, disturbed>>
  BY SettledCalm DEF Record, At, history
<1>2. cycles \in Nat /\ driver.todo \subseteq Pages
  BY NoneIsNoOutput, StepTypes DEF KnowledgeInv, TypeOK, DriverType
<1>3. driver'.step = "publish" /\ driver'.tree = written /\ driver'.todo = driver.todo
  BY StepTypes DEF Record, DriverType
<1> HIDE DEF written
<1>4. CycleNumbers'
  BY <1>1, <1>2 DEF RecoveryInv, CycleNumbers
<1>5. n \notin published
  BY <1>2 DEF RecoveryInv, CycleNumbers
<1>6. OnlyPending'
  BY <1>1, <1>2, <1>3 DEF OnlyPending, Settled, written
<1>7. AllOrNone'
  BY <1>1, <1>5 DEF AllOrNone
<1>8. ~disturbed => StillSchedulable'
  BY <1>1, <1>3 DEF RecoveryInv, Orderly, StillSchedulable, Unfinished, At, Compilable
<1>9. ~disturbed => HeadAccounted' /\ TreeAccounted'
  BY <1>1, <1>2, <1>3
  DEF RecoveryInv, Orderly, HeadAccounted, TreeAccounted, Accounted, repo, written
<1> QED
  BY <1>1, <1>4, <1>6, <1>7, <1>8, <1>9 DEF RecoveryInv, Orderly

LEMMA PublishRecovery ==
  ASSUME KnowledgeAssumption, KnowledgeInv, RecoveryInv, Publish
  PROVE  RecoveryInv'
<1>1. /\ driver.step = "publish" /\ head' = driver.tree
      /\ UNCHANGED <<page, archive, pending, facts, cycles, disturbed>>
  BY DEF Publish, At, control
<1>2. /\ driver'.step = (IF driver.todo = {} THEN "stamp" ELSE "commit")
      /\ driver'.todo = driver.todo
  BY StepTypes DEF Publish, GoTo, Steps
<1>3. CycleNumbers'
  BY <1>1 DEF RecoveryInv, CycleNumbers, Publish, KnowledgeInv, TypeOK, Outputs
<1>4. OnlyPending'
  BY <1>1, <1>2 DEF RecoveryInv, OnlyPending, Settled
<1>5. AllOrNone'
  <2>1. CASE driver.todo = {}
    BY <1>1, <2>1 DEF RecoveryInv, OnlyPending, Settled, AllOrNone
  <2>2. CASE driver.todo # {}
    BY <1>1, <1>2, <2>2 DEF RecoveryInv, OnlyPending, AllOrNone, KnowledgeInv, CycleInv
  <2> QED
    BY <2>1, <2>2
<1>6. ~disturbed => StillSchedulable' /\ HeadAccounted' /\ TreeAccounted'
  BY <1>1, <1>2
  DEF RecoveryInv, Orderly, StillSchedulable, Unfinished, At, Compilable,
      HeadAccounted, TreeAccounted, Accounted
<1> QED
  BY <1>1, <1>3, <1>4, <1>5, <1>6 DEF RecoveryInv, Orderly

LEMMA CommitRecovery ==
  ASSUME KnowledgeAssumption, KnowledgeInv, RecoveryInv, Commit
  PROVE  RecoveryInv'
<1>1. /\ driver.step = "commit"
      /\ UNCHANGED <<archive, facts, repo, cycles, published, disturbed>>
  BY DEF Commit, At, history
<1>2. CASE Abort /\ UNCHANGED <<page, pending>>
  BY <1>1, <1>2, AbortRecovery
<1>3. CASE page' = Live(page) /\ pending' = Nothing /\ GoTo("stamp")
  <2>1. driver'.step = "stamp" /\ pending'.pages = {} /\ pending'.body = 0
    BY <1>3, StepTypes DEF GoTo, Steps, Nothing
  <2>2. CycleNumbers' /\ OnlyPending' /\ AllOrNone' /\ StillSchedulable' /\ TreeAccounted'
    BY <1>1, <2>1, NoneIsNoOutput
    DEF RecoveryInv, CycleNumbers, OnlyPending, AllOrNone, StillSchedulable, Unfinished, At,
        TreeAccounted, KnowledgeInv, TypeOK
  <2>3. ASSUME ~disturbed PROVE HeadAccounted'
    <3>1. \A p \in pending.pages : p \in Pages /\ head[p] = pending.body
                                   /\ page'[p].hash = pending.body
      BY <1>1, <1>3, <2>3, LiveHash DEF KnowledgeInv, CycleInv, RecoveryInv, Orderly, AllOrNone
    <3>2. \A p \in Pages \ pending.pages : page'[p] = page[p]
      BY <1>3, Zenon DEF Live
    <3> QED
      BY <1>1, <2>3, <3>1, <3>2 DEF RecoveryInv, Orderly, HeadAccounted, Accounted, repo
  <2> QED
    BY <1>1, <2>2, <2>3 DEF RecoveryInv, Orderly
<1> QED
  BY <1>2, <1>3 DEF Commit

(* A review or decision on a page of no unfinished cycle, or one that      *)
(* leaves its page schedulable.                                            *)
LEMMA PageRecovery ==
  ASSUME KnowledgeAssumption, KnowledgeInv, RecoveryInv, NEW p \in Pages, NEW pg \in PageType,
         page' = [page EXCEPT ![p] = pg],
         pg.hash \in {page[p].hash, None},
         ~disturbed' => p \notin Unfinished
                            \/ (pg.kind = "compiled" /\ pg.status \in {"active", "stale"}),
         UNCHANGED <<archive, pending, facts, repo, driver, cycles, published>>,
         ~disturbed' => ~disturbed
  PROVE  RecoveryInv'
<1>1. \A q \in Pages : page'[q] = IF q = p THEN pg ELSE page[q]
  BY StepTypes
<1>2. CycleNumbers' /\ OnlyPending'
  BY DEF RecoveryInv, CycleNumbers, OnlyPending
<1>3. ASSUME ~disturbed' PROVE Orderly'
  <2>1. AllOrNone' /\ archive' \subseteq Edits
    BY <1>3 DEF RecoveryInv, Orderly, AllOrNone, repo
  <2>2. StillSchedulable'
    BY <1>1, <1>3, StepTypes
    DEF RecoveryInv, Orderly, StillSchedulable, Unfinished, At, Compilable, KnowledgeInv, TypeOK
  <2>3. HeadAccounted' /\ TreeAccounted'
    BY <1>1, <1>3 DEF RecoveryInv, Orderly, HeadAccounted, TreeAccounted, Accounted, repo
  <2> QED
    BY <2>1, <2>2, <2>3 DEF Orderly
<1> QED
  BY <1>2, <1>3 DEF RecoveryInv

LEMMA ReviewRecovery ==
  ASSUME KnowledgeAssumption, KnowledgeInv, RecoveryInv, NEW p \in Pages,
         MarkStale(p) \/ Resume(p) \/ Adopt(p) \/ Convert(p) \/ Retire(p) \/ Handover(p)
  PROVE  RecoveryInv'
<1>1. UNCHANGED <<archive, pending, facts, repo, driver, cycles, published>>
  BY DEF MarkStale, Resume, Adopt, Convert, BecomesAuthored, Retire, Handover, history
<1>2. ASSUME ~disturbed, ~Compilable(p) PROVE p \notin Unfinished
  BY <1>2 DEF RecoveryInv, Orderly, StillSchedulable
<1>3. ~disturbed' => /\ ~disturbed
                     /\ Retire(p) \/ Adopt(p) \/ Convert(p) => p \notin Unfinished
  BY DEF MarkStale, Resume, Adopt, Convert, BecomesAuthored, Retire, Handover, history
<1>4. CASE MarkStale(p) \/ Retire(p)
  <2>1. PICK s \in {"stale", "tombstoned"} : /\ page' = [page EXCEPT ![p].status = s]
                                             /\ MarkStale(p) => s = "stale"
    BY <1>4 DEF MarkStale, Retire
  <2> DEFINE pg == [page[p] EXCEPT !.status = s]
  <2>2. pg \in PageType /\ pg.hash = page[p].hash /\ pg.kind = page[p].kind
        /\ pg.status = s /\ page' = [page EXCEPT ![p] = pg]
    BY <2>1, StepTypes DEF Statuses, PageType
  <2> HIDE DEF pg
  <2> QED
    <3>1. ~disturbed' => p \notin Unfinished
                            \/ (pg.kind = "compiled" /\ pg.status \in {"active", "stale"})
      BY <1>3, <1>4, <2>1, <2>2 DEF MarkStale, Compilable
    <3> QED
      BY <1>1, <1>3, <2>2, <3>1, PageRecovery
<1>5. CASE Resume(p)
  <2> DEFINE pg == IF page[p].status = "quarantined" THEN Resumed(p) ELSE page[p]
  <2>1. Resumed(p) \in PageType /\ Resumed(p).hash = None
    BY StepTypes, ZenonT(40) DEF Resumed, PageType, Statuses
  <2>2. /\ pg \in PageType /\ pg.hash \in {page[p].hash, None}
        /\ Compilable(p) => pg = page[p]
        /\ page' = [page EXCEPT ![p] = pg]
    BY <1>5, <2>1, StepTypes DEF Resume, Compilable
  <2> HIDE DEF pg
  <2>3. ~disturbed' => p \notin Unfinished
                          \/ (pg.kind = "compiled" /\ pg.status \in {"active", "stale"})
    BY <1>2, <1>3, <2>2 DEF Compilable
  <2> QED
    BY <1>1, <1>3, <2>2, <2>3, PageRecovery
<1>6. CASE Adopt(p) \/ Convert(p) \/ Handover(p)
  <2>1. PICK k \in Kinds, s \in Statuses :
          page' = [page EXCEPT ![p] = [kind |-> k, status |-> s, hash |-> None]]
    BY <1>6 DEF Adopt, Convert, BecomesAuthored, Handover, Kinds, Statuses
  <2>2. ~disturbed' => p \notin Unfinished
    BY <1>2, <1>3, <1>6 DEF Handover, Compilable
  <2> QED
    BY <1>1, <1>3, <2>1, <2>2, PageRecovery DEF PageType
<1> QED
  BY <1>4, <1>5, <1>6

LEMMA EditRecovery ==
  ASSUME KnowledgeAssumption, KnowledgeInv, RecoveryInv,
         NEW p \in Pages, NEW e \in Edits \cup Garbled, Edit(p, e)
  PROVE  RecoveryInv'
<1>1. /\ \A q \in Pages : head'[q] = IF q = p THEN e ELSE head[q]
      /\ UNCHANGED <<page, archive, pending, facts, driver, cycles, published>>
      /\ ~disturbed' => ~disturbed /\ p \notin Unfinished
  BY DEF Edit, KnowledgeInv, TypeOK, control
<1>2. e \notin Outputs
  BY NoneIsNoOutput DEF KnowledgeAssumption
<1>3. CycleNumbers' /\ OnlyPending'
  BY <1>1 DEF RecoveryInv, CycleNumbers, OnlyPending
<1>4. ASSUME ~disturbed, p \notin Unfinished PROVE Orderly'
  <2>1. AllOrNone' /\ archive' \subseteq Edits
    BY <1>1, <1>4 DEF RecoveryInv, Orderly, AllOrNone, Unfinished, KnowledgeInv, TypeOK
  <2>2. StillSchedulable' /\ HeadAccounted' /\ TreeAccounted'
    BY <1>1, <1>2, <1>4
    DEF RecoveryInv, Orderly, StillSchedulable, Unfinished, At, Compilable,
        HeadAccounted, TreeAccounted, Accounted
  <2> QED
    BY <2>1, <2>2 DEF Orderly
<1> QED
  BY <1>1, <1>3, <1>4 DEF RecoveryInv

LEMMA SwitchRecovery ==
  ASSUME KnowledgeAssumption, KnowledgeInv, RecoveryInv, SwitchFacts
  PROVE  RecoveryInv'
<1>1. /\ UNCHANGED <<page, archive, pending, repo, driver, cycles, published>>
      /\ ~disturbed' => ~disturbed /\ Unfinished = {}
  BY DEF SwitchFacts, control
<1>2. CycleNumbers' /\ OnlyPending'
  BY <1>1 DEF RecoveryInv, CycleNumbers, OnlyPending
<1>3. ~disturbed /\ Unfinished = {} => Orderly'
  BY <1>1
  DEF RecoveryInv, Orderly, AllOrNone, StillSchedulable, Unfinished, At, repo,
      HeadAccounted, TreeAccounted, Accounted
<1> QED
  BY <1>1, <1>2, <1>3 DEF RecoveryInv

LEMMA RecoveryStep ==
  ASSUME KnowledgeAssumption, KnowledgeInv, RecoveryInv, [Next]_vars
  PROVE  RecoveryInv'
<1>1. CASE SettleRaises \/ Fail
  BY <1>1, AbortRecovery DEF SettleRaises, Fail, control, history
<1>2. CASE Cycle
  BY <1>1, <1>2, BeginRecovery, ReadRecoveryStep, SettleRecovery, PreparingRecovery,
     PlanRecovery, QuarantineRecovery, RecordRecovery, PublishRecovery, CommitRecovery
  DEF Cycle
<1>3. CASE UNCHANGED vars
  BY <1>3
  DEF vars, control, repo, history, RecoveryInv, Orderly, CycleNumbers, OnlyPending, AllOrNone,
      StillSchedulable, Unfinished, At, Compilable, HeadAccounted, TreeAccounted, Accounted
<1> QED
  BY <1>1, <1>2, <1>3, SwitchRecovery, EditRecovery, ReviewRecovery DEF Next

(* However cycles die and are recovered: unless an edit, a retirement, an  *)
(* adoption or a switch of the facts layer met an unfinished cycle, only   *)
(* authors' bodies have been quarantined.                                  *)
THEOREM Recovered == Spec => []PublishedIsRecovered
<1>1. Init => KnowledgeInv /\ RecoveryInv
  BY InitType, RecoveryInit, KnowledgeAssumption
<1>2. KnowledgeInv /\ RecoveryInv /\ [Next]_vars => KnowledgeInv' /\ RecoveryInv'
  BY StepInv, RecoveryStep, KnowledgeAssumption
<1>3. RecoveryInv => PublishedIsRecovered
  BY DEF RecoveryInv, Orderly, PublishedIsRecovered
<1> QED
  BY <1>1, <1>2, <1>3, PTL DEF Spec

-----------------------------------------------------------------------------
(* No watched edit is lost: the proof of EditsSurvive.                     *)
(*                                                                         *)
(* An edit that is due is in the repository until a cycle publishes, and   *)
(* that cycle's clone has it, for it was committed before the clone was    *)
(* opened.  The clone gives it up only by overwriting its page, which the  *)
(* cycle compiles; by then the page has drifted from its recorded body and *)
(* the edit is in the archive, or the page was handed over and the edit is *)
(* in the clone's sidecar, or it was set aside in an earlier cycle.        *)

Due   == owed \ exposed
Aside == archive \cup UNION {sidecars[p] : p \in Pages}
Saved == archive \cup UNION {driver.side[p] : p \in Pages}

(* The steps before a cycle writes to its clone's pages.                   *)
Early == {"recover", "settle", "sync", "plan", "drift", "quarantine", "compile"}

(* What holds whether or not a cycle is open.                              *)
HashIsCompiled == \A p \in Pages : page[p].hash \notin Edits

RetiredIsOwedNothing ==
  \A p \in Pages : /\ <<"retire", p>> \in plan => page[p].status = "tombstoned"
                   /\ page[p].status = "tombstoned" => head[p] \notin owed

DueIsWatched == \A p \in Pages : head[p] \in Due => Watched(p) \/ head[p] \in Aside

OpenIsArchived == \A p \in Pages : open[p] \cap Edits \subseteq archive

StandingInv ==
  HashIsCompiled /\ RetiredIsOwedNothing /\ DueIsWatched /\ OpenIsArchived /\ EditsSurvive

(* What the open clone has of it.                                          *)
CloneIsCurrent == \A p \in Pages : driver.tree[p] \in owed => driver.tree[p] = head[p]

SidecarsGrow ==
  driver.step \in Early \cup {"publish"} => \A p \in Pages : sidecars[p] \subseteq driver.side[p]

CloneHasDue ==
  driver.step \in Early => \A p \in Pages : head[p] \in Due => driver.tree[p] = head[p]

HandedOverIsCopied ==
  driver.step = "drift" =>
    \A p \in Pages : <<"handover", p>> \in plan /\ head[p] \in Due => head[p] \in Saved

UndriftedIsSaved ==
  driver.step = "quarantine" =>
    \A p \in Pages : Compilable(p) /\ p \notin driver.todo /\ head[p] \in Due => head[p] \in Saved

CompiledIsSaved ==
  driver.step = "compile" => \A p \in driver.todo : head[p] \in Due => head[p] \in Saved

PublishKeepsDue ==
  driver.step = "publish" =>
    \A p \in Pages : head[p] \in Due => driver.tree[p] = head[p] \/ head[p] \in Saved

CloneInv ==
  /\ CloneIsCurrent /\ SidecarsGrow /\ CloneHasDue /\ HandedOverIsCopied
  /\ UndriftedIsSaved /\ CompiledIsSaved /\ PublishKeepsDue

EditInv == StandingInv /\ CloneInv

LEMMA EditsAreBodies ==
  ASSUME KnowledgeAssumption, KnowledgeInv
  PROVE  /\ owed \subseteq Edits
         /\ None \notin Edits
         /\ \A e \in Edits : e \notin Outputs /\ e # None
  BY NoneIsNoOutput DEF KnowledgeAssumption, KnowledgeInv, TypeOK

LEMMA EditsInit == ASSUME KnowledgeAssumption, Init PROVE EditInv
<1>1. driver.step = "idle" /\ \A p \in Pages : driver.tree[p] = None
  BY DEF Init, Idle, NoClone
<1>2. owed = {} /\ plan = {}
  BY DEF Init
<1>3. HashIsCompiled
  BY DEF Init, Initially, HashIsCompiled, KnowledgeAssumption
<1>4. RetiredIsOwedNothing /\ DueIsWatched /\ OpenIsArchived /\ EditsSurvive
  BY <1>2 DEF Init, NoNotes, RetiredIsOwedNothing, DueIsWatched, OpenIsArchived, Due, EditsSurvive
<1>5. CloneInv
  BY <1>1, <1>2 DEF CloneInv, CloneIsCurrent, SidecarsGrow, CloneHasDue, HandedOverIsCopied,
                    UndriftedIsSaved, CompiledIsSaved, PublishKeepsDue, Early
<1> QED
  BY <1>3, <1>4, <1>5 DEF EditInv, StandingInv

-----------------------------------------------------------------------------
(* Steps that change nothing but the clone.                                *)

LEMMA StandingFrame ==
  ASSUME StandingInv, UNCHANGED <<page, archive, open, plan, repo, owed, exposed>>
  PROVE  StandingInv'
  BY DEF StandingInv, HashIsCompiled, RetiredIsOwedNothing, DueIsWatched, OpenIsArchived,
         EditsSurvive, Due, Aside, Watched, Compilable, Kept, repo

LEMMA NoCloneOwed ==
  ASSUME KnowledgeAssumption, KnowledgeInv', driver' = Idle
  PROVE  CloneInv'
<1>1. driver'.step = "idle" /\ \A p \in Pages : driver'.tree[p] = None
  BY DEF Idle, NoClone
<1>2. None \notin owed'
  BY DEF KnowledgeAssumption, KnowledgeInv, TypeOK
<1> QED
  BY <1>1, <1>2 DEF CloneInv, CloneIsCurrent, SidecarsGrow, CloneHasDue, HandedOverIsCopied,
                    UndriftedIsSaved, CompiledIsSaved, PublishKeepsDue, Early

LEMMA EditsAbort ==
  ASSUME KnowledgeAssumption, KnowledgeInv', EditInv, Abort,
         UNCHANGED <<page, archive, open, plan, repo, owed, exposed>>
  PROVE  EditInv'
  BY StandingFrame, NoCloneOwed DEF EditInv, Abort

(* The repository as it is cloned has every edit that is owed.             *)
LEMMA EditsBegin ==
  ASSUME EditInv, Begin
  PROVE  EditInv'
<1>1. /\ driver'.step = "recover" /\ driver'.tree = head /\ driver'.side = sidecars
      /\ UNCHANGED <<page, archive, open, plan, repo, owed, exposed>>
  BY DEF Begin, Idle, control, history
<1>2. CloneInv'
  BY <1>1 DEF CloneInv, CloneIsCurrent, SidecarsGrow, CloneHasDue, HandedOverIsCopied,
              UndriftedIsSaved, CompiledIsSaved, PublishKeepsDue, Early, repo
<1> QED
  BY <1>1, <1>2, StandingFrame DEF EditInv

(* A step of the driver that keeps its clone and is followed by another    *)
(* before it looks for drift.                                              *)
LEMMA EditsPreparing ==
  ASSUME KnowledgeAssumption, KnowledgeInv, KnowledgeInv', EditInv,
         ReadRecovery \/ Sync
  PROVE  EditInv'
<1>1. UNCHANGED <<page, archive, open, plan, repo, owed, exposed>>
  BY DEF ReadRecovery, Sync, control, history
<1>2. CASE Abort
  BY <1>1, <1>2, EditsAbort
<1>3. CASE ~Abort
  <2>1. /\ driver.step \in {"recover", "sync"}
        /\ driver'.step \in {"settle", "plan"}
        /\ driver'.tree = driver.tree /\ driver'.side = driver.side
    <3>1. CASE ReadRecovery
      BY <3>1, StepTypes DEF ReadRecovery, At, DriverType
    <3>2. CASE Sync
      <4>1. driver.step = "sync" /\ driver' = [driver EXCEPT !.step = "plan"]
        BY <1>3, <3>2 DEF Sync, At, GoTo
      <4> QED
        BY <4>1, StepTypes DEF DriverType
    <3> QED
      BY <3>1, <3>2
  <2>2. CloneInv'
    BY <1>1, <2>1
    DEF EditInv, CloneInv, CloneIsCurrent, SidecarsGrow, CloneHasDue, HandedOverIsCopied,
        UndriftedIsSaved, CompiledIsSaved, PublishKeepsDue, Early, Due, repo
  <2> QED
    BY <1>1, <2>2, StandingFrame DEF EditInv
<1> QED
  BY <1>2, <1>3

LEMMA EditsPlan ==
  ASSUME KnowledgeAssumption, KnowledgeInv, KnowledgeInv', EditInv, Plan
  PROVE  EditInv'
<1> DEFINE gone  == {p \in Pages : <<"retire", p>> \in plan}
           taken == {p \in Pages : <<"handover", p>> \in plan}
           tree  == [p \in Pages |-> IF p \in gone THEN None ELSE driver.tree[p]]
           side  == [p \in Pages |-> IF p \in taken THEN driver.side[p] \cup {driver.tree[p]}
                                                    ELSE driver.side[p]]
           moved == tree # driver.tree \/ side # driver.side
<1>1. driver.step = "plan" /\ UNCHANGED <<page, archive, open, plan, repo, owed, exposed>>
  BY DEF Plan, At, control, history
<1>2. CASE Abort
  BY <1>1, <1>2, EditsAbort
<1>3. CASE driver' = [driver EXCEPT !.step = "drift", !.tree = tree, !.side = side,
                        !.changed = moved]
  <2>1. driver'.step = "drift" /\ driver'.tree = tree /\ driver'.side = side
    BY <1>3, StepTypes DEF DriverType
  <2>2. \A p \in Pages : p \in gone => head[p] \notin owed
    BY DEF EditInv, StandingInv, RetiredIsOwedNothing
  <2>3. \A p \in Pages : head[p] \in Due => driver.tree[p] = head[p]
    BY <1>1 DEF EditInv, CloneInv, CloneHasDue, Early
  <2>4. CloneIsCurrent' /\ CloneHasDue'
    BY <1>1, <2>1, <2>2, <2>3, EditsAreBodies
    DEF EditInv, CloneInv, CloneIsCurrent, CloneHasDue, Due, repo
  <2>5. SidecarsGrow'
    BY <1>1, <2>1 DEF EditInv, CloneInv, SidecarsGrow, Early, repo
  <2>6. HandedOverIsCopied'
    <3>1. \A p \in taken : head[p] \in Due => head[p] \in side[p]
      BY <2>3
    <3> HIDE DEF side, taken
    <3>2. \A p \in taken : head[p] \in Due => head[p] \in UNION {side[q] : q \in Pages}
      BY <3>1 DEF taken
    <3> QED
      BY <1>1, <2>1, <3>2 DEF HandedOverIsCopied, Due, Saved, repo, taken
  <2> QED
    BY <1>1, <2>1, <2>4, <2>5, <2>6, StandingFrame
    DEF EditInv, CloneInv, UndriftedIsSaved, CompiledIsSaved, PublishKeepsDue
<1> QED
  BY <1>2, <1>3 DEF Plan

(* A compiled page that holds a due edit has drifted, for its recorded     *)
(* body is not an edit, unless it has no recorded body; then it was handed *)
(* over, or its edit set aside.                                            *)
LEMMA EditsReadDrift ==
  ASSUME KnowledgeAssumption, KnowledgeInv, EditInv, ReadDrift
  PROVE  EditInv'
<1>1. /\ driver.step = "drift" /\ driver'.step = "quarantine"
      /\ driver'.tree = driver.tree /\ driver'.side = driver.side
      /\ driver'.todo = {p \in Pages : Drifted(p)}
      /\ UNCHANGED <<page, archive, open, plan, repo, owed, exposed>>
  BY StepTypes DEF ReadDrift, At, DriverType, control, history
<1>2. CloneIsCurrent' /\ SidecarsGrow' /\ CloneHasDue'
  BY <1>1 DEF EditInv, CloneInv, CloneIsCurrent, SidecarsGrow, CloneHasDue, Early, Due, repo
<1>3. ASSUME NEW p \in Pages, Compilable(p), ~Drifted(p), head[p] \in Due
      PROVE  head[p] \in Saved
  <2>1. driver.tree[p] = head[p] /\ head[p] \in Edits
    BY <1>1, <1>3, EditsAreBodies DEF EditInv, CloneInv, CloneHasDue, Early, Due
  <2>2. page[p].hash = None
    BY <1>3, <2>1 DEF Drifted, EditInv, StandingInv, HashIsCompiled
  <2>3. <<"handover", p>> \in plan \/ head[p] \in Aside
    BY <1>3, <2>2 DEF EditInv, StandingInv, DueIsWatched, Watched, Compilable
  <2>4. Aside \subseteq Saved
    BY <1>1 DEF EditInv, CloneInv, SidecarsGrow, Early, Aside, Saved
  <2> QED
    BY <1>1, <1>3, <2>3, <2>4 DEF EditInv, CloneInv, HandedOverIsCopied
<1>4. UndriftedIsSaved'
  BY <1>1, <1>3 DEF UndriftedIsSaved, Compilable, Due, Saved, repo
<1> QED
  BY <1>1, <1>2, <1>4, StandingFrame
  DEF EditInv, CloneInv, HandedOverIsCopied, CompiledIsSaved, PublishKeepsDue

LEMMA EditsSchedule ==
  ASSUME KnowledgeAssumption, KnowledgeInv, KnowledgeInv', EditInv, Schedule
  PROVE  EditInv'
<1> DEFINE stale == {p \in Schedulable : page[p].status = "stale"}
<1>1. /\ driver.step = "quarantine" /\ driver.todo = {}
      /\ UNCHANGED <<page, archive, open, plan, repo, owed, exposed>>
  BY DEF Schedule, At, control, history
<1> SUFFICES ASSUME ~Abort PROVE EditInv'
  BY <1>1, EditsAbort
<1>2. PICK s \in {"compile", "publish", "stamp"} :
        driver' = [driver EXCEPT !.todo = stale, !.step = s]
  BY DEF Schedule
<1> HIDE DEF stale
<1>3. /\ driver'.step = s /\ driver'.todo = stale
      /\ driver'.tree = driver.tree /\ driver'.side = driver.side
  BY <1>2, StepTypes DEF DriverType
<1>4. CloneIsCurrent' /\ SidecarsGrow' /\ CloneHasDue'
  BY <1>1, <1>3
  DEF EditInv, CloneInv, CloneIsCurrent, SidecarsGrow, CloneHasDue, Early, Due, repo
<1>5. CompiledIsSaved'
  BY <1>1, <1>3
  DEF EditInv, CloneInv, UndriftedIsSaved, CompiledIsSaved, stale, Schedulable, Due, Saved, repo
<1>6. PublishKeepsDue'
  BY <1>1, <1>3 DEF EditInv, CloneInv, CloneHasDue, PublishKeepsDue, Early, Due, repo
<1> QED
  BY <1>1, <1>3, <1>4, <1>5, <1>6, StandingFrame
  DEF EditInv, CloneInv, HandedOverIsCopied, UndriftedIsSaved

LEMMA EditsRecord ==
  ASSUME KnowledgeAssumption, KnowledgeInv, EditInv, Record
  PROVE  EditInv'
<1> DEFINE written == [p \in Pages |-> IF p \in driver.todo THEN cycles + 1 ELSE driver.tree[p]]
<1>1. driver.step = "compile" /\ UNCHANGED <<page, archive, open, plan, repo, owed, exposed>>
  BY DEF Record, At, history
<1>2. driver'.step = "publish" /\ driver'.tree = written /\ driver'.side = driver.side
  BY StepTypes DEF Record, DriverType
<1>3. cycles + 1 \notin owed
  BY EditsAreBodies DEF Record, KnowledgeInv, TypeOK, KnowledgeAssumption, Outputs
<1>4. CloneIsCurrent' /\ SidecarsGrow' /\ CloneHasDue'
  BY <1>1, <1>2, <1>3
  DEF EditInv, CloneInv, CloneIsCurrent, SidecarsGrow, CloneHasDue, Early, Due, repo
<1>5. PublishKeepsDue'
  BY <1>1, <1>2
  DEF EditInv, CloneInv, CloneHasDue, CompiledIsSaved, PublishKeepsDue, Early, Due, Saved, repo
<1> QED
  BY <1>1, <1>2, <1>4, <1>5, StandingFrame
  DEF EditInv, CloneInv, HandedOverIsCopied, UndriftedIsSaved, CompiledIsSaved

-----------------------------------------------------------------------------
(* Steps that change whose a page is, or the repository.                   *)

(* A page that changes hands keeps its due edit watched, or has it aside.  *)
LEMMA StandingPages ==
  ASSUME StandingInv, UNCHANGED <<plan, repo, owed, exposed>>, archive \subseteq archive',
         OpenIsArchived',
         \A p \in Pages : \/ page'[p] = page[p]
                          \/ /\ page'[p].hash \notin Edits
                             /\ page[p].status # "tombstoned" /\ page'[p].status # "tombstoned"
                             /\ head[p] \in Due => Watched(p)' \/ head[p] \in Aside'
  PROVE  StandingInv'
<1>1. HashIsCompiled' /\ RetiredIsOwedNothing'
  BY DEF StandingInv, HashIsCompiled, RetiredIsOwedNothing, repo
<1>2. DueIsWatched'
  <2> SUFFICES ASSUME NEW p \in Pages, head[p] \in Due
               PROVE  Watched(p)' \/ head[p] \in Aside'
    BY DEF DueIsWatched, Due, repo
  <2>1. CASE page'[p] = page[p]
    BY <2>1 DEF StandingInv, DueIsWatched, Watched, Compilable, Aside, repo
  <2> QED
    BY <2>1
<1>3. EditsSurvive'
  BY DEF StandingInv, EditsSurvive, Kept, repo
<1> QED
  BY <1>1, <1>2, <1>3 DEF StandingInv

LEMMA StandingLive ==
  ASSUME KnowledgeAssumption, KnowledgeInv, StandingInv, CanCommit, page' = Live(page),
         UNCHANGED <<archive, open, plan, repo, owed, exposed>>
  PROVE  StandingInv'
<1>1. pending.body \in Outputs /\ pending.body # None /\ pending.body \notin Edits
  BY NoneIsNoOutput, EditsAreBodies DEF KnowledgeInv, TypeOK
<1>2. ASSUME NEW p \in Pages, p \in pending.pages
      PROVE  /\ page'[p].hash = pending.body /\ page'[p].status = "active"
             /\ page'[p].kind = "compiled" /\ page[p].status # "tombstoned"
  <2>1. page'[p] = [page[p] EXCEPT !.status = "active", !.hash = pending.body]
    BY <1>2, Zenon DEF Live
  <2> QED
    BY <1>2, <2>1, StepTypes DEF PageType, CanCommit, Compilable
<1>3. \A p \in Pages : p \in pending.pages => Watched(p)'
  BY <1>1, <1>2 DEF Watched, Compilable
<1>4. \A p \in Pages : p \notin pending.pages => page'[p] = page[p]
  BY Zenon DEF Live
<1>5. OpenIsArchived'
  BY DEF StandingInv, OpenIsArchived
<1> QED
  BY <1>1, <1>2, <1>3, <1>4, <1>5, StandingPages

LEMMA EditsSettle ==
  ASSUME KnowledgeAssumption, KnowledgeInv, EditInv, Settle
  PROVE  EditInv'
<1>1. /\ driver.step = "settle" /\ driver'.step = "sync"
      /\ driver'.tree = driver.tree /\ driver'.side = driver.side
      /\ UNCHANGED <<archive, open, plan, repo, owed, exposed>>
  BY StepTypes DEF Settle, At, DriverType, history
<1>2. StandingInv'
  <2>1. CASE page' = page
    BY <1>1, <2>1, StandingFrame DEF EditInv
  <2>2. CASE CanCommit /\ page' = Live(page)
    BY <1>1, <2>2, StandingLive DEF EditInv
  <2> QED
    BY <2>1, <2>2 DEF Settle
<1>3. CloneInv'
  BY <1>1
  DEF EditInv, CloneInv, CloneIsCurrent, SidecarsGrow, CloneHasDue, HandedOverIsCopied,
      UndriftedIsSaved, CompiledIsSaved, PublishKeepsDue, Early, Due, repo
<1> QED
  BY <1>2, <1>3 DEF EditInv

LEMMA EditsCommit ==
  ASSUME KnowledgeAssumption, KnowledgeInv, KnowledgeInv', EditInv, Commit
  PROVE  EditInv'
<1>1. driver.step = "commit" /\ UNCHANGED <<archive, open, plan, repo, owed, exposed>>
  BY DEF Commit, At, history
<1>2. CASE Abort /\ UNCHANGED page
  BY <1>1, <1>2, EditsAbort
<1>3. CASE CanCommit /\ page' = Live(page) /\ GoTo("stamp")
  <2>1. driver'.step = "stamp" /\ driver'.tree = driver.tree
    BY <1>3, StepTypes DEF GoTo, Steps
  <2>2. CloneInv'
    BY <1>1, <2>1
    DEF EditInv, CloneInv, CloneIsCurrent, SidecarsGrow, CloneHasDue, HandedOverIsCopied,
        UndriftedIsSaved, CompiledIsSaved, PublishKeepsDue, Early, repo
  <2> QED
    BY <1>1, <1>3, <2>2, StandingLive DEF EditInv
<1> QED
  BY <1>2, <1>3 DEF Commit

(* The body set aside is the one in the clone; a due edit is in the clone. *)
(* With a quarantine still open the body is the one it has set aside.      *)
LEMMA EditsQuarantine ==
  ASSUME KnowledgeAssumption, KnowledgeInv, KnowledgeInv', EditInv,
         NEW p \in Pages, Quarantine(p)
  PROVE  EditInv'
<1>1. driver.step = "quarantine" /\ UNCHANGED <<plan, repo, owed, exposed>>
  BY DEF Quarantine, At, history
<1>2. CASE Abort /\ UNCHANGED <<page, archive, open>>
  BY <1>1, <1>2, EditsAbort
<1>3. head[p] \in Due => head[p] = driver.tree[p] /\ head[p] \in Edits /\ head[p] \notin Garbled
  BY <1>1, EditsAreBodies DEF EditInv, CloneInv, CloneHasDue, Early, Due, KnowledgeAssumption
<1>4. Detected(p) \cap Edits \subseteq {driver.tree[p]}
  BY DEF Detected, KnowledgeAssumption
<1>5. ASSUME driver' = [driver EXCEPT !.todo = @ \ {p}],
             \A q \in Pages : q # p => page'[q] = page[q],
             Compilable(p)' /\ head[p] \in Due => head[p] \in Saved',
             archive \subseteq archive'
      PROVE  CloneInv'
  <2>1. /\ driver'.step = "quarantine" /\ driver'.todo = driver.todo \ {p}
        /\ driver'.tree = driver.tree /\ driver'.side = driver.side
    BY <1>1, <1>5, StepTypes DEF DriverType
  <2>2. CloneIsCurrent' /\ SidecarsGrow' /\ CloneHasDue'
    BY <1>1, <2>1
    DEF EditInv, CloneInv, CloneIsCurrent, SidecarsGrow, CloneHasDue, Early, Due, repo
  <2>3. UndriftedIsSaved'
    BY <1>1, <1>5, <2>1
    DEF EditInv, CloneInv, UndriftedIsSaved, Compilable, Due, Saved, repo
  <2> QED
    BY <2>1, <2>2, <2>3 DEF CloneInv, HandedOverIsCopied, CompiledIsSaved, PublishKeepsDue
<1>6. CASE /\ Drifted(p)
           /\ page' = [page EXCEPT ![p].status = "quarantined"]
           /\ archive' = archive \cup ({driver.tree[p]} \ ({None} \cup Garbled))
           /\ open' = [open EXCEPT ![p] = Detected(p)]
           /\ driver' = [driver EXCEPT !.todo = @ \ {p}]
  <2>1. \A q \in Pages : q # p => page'[q] = page[q]
    BY <1>6, StepTypes
  <2>2. /\ page'[p].hash = page[p].hash /\ page'[p].status = "quarantined"
        /\ page[p].status # "tombstoned"
    BY <1>6, StepTypes DEF PageType, Drifted, Compilable
  <2>3. head[p] \in Due => head[p] \in archive'
    BY <1>3, <1>6, EditsAreBodies
  <2>4. OpenIsArchived'
    <3>1. \A q \in Pages : open'[q] = IF q = p THEN Detected(p) ELSE open[q]
      BY <1>6, StepTypes DEF OpenType
    <3>2. Detected(p) \cap Edits \subseteq archive'
      BY <1>4, <1>6 DEF KnowledgeAssumption
    <3> QED
      BY <1>6, <3>1, <3>2 DEF EditInv, StandingInv, OpenIsArchived
  <2>5. StandingInv'
    BY <1>1, <1>6, <2>1, <2>2, <2>3, <2>4, StandingPages
    DEF EditInv, StandingInv, HashIsCompiled, Aside
  <2>6. ~Compilable(p)'
    BY <2>2 DEF Compilable
  <2> QED
    BY <1>5, <1>6, <2>1, <2>5, <2>6 DEF EditInv
<1>7. CASE /\ open[p] # {} /\ open[p] = Detected(p)
           /\ driver' = [driver EXCEPT !.todo = @ \ {p}] /\ UNCHANGED <<page, archive, open>>
  <2>1. StandingInv'
    BY <1>1, <1>7, StandingFrame DEF EditInv
  <2>2. head[p] \in Due => head[p] \in archive
    BY <1>3, <1>7, DetectedIsSome DEF EditInv, StandingInv, OpenIsArchived
  <2>3. CloneInv'
    BY <1>5, <1>7, <2>2 DEF Saved
  <2> QED
    BY <2>1, <2>3 DEF EditInv
<1> QED
  BY <1>2, <1>6, <1>7 DEF Quarantine

(* What the clone replaces in the repository it has in its sidecars, or is *)
(* in the archive.                                                         *)
LEMMA EditsPublish ==
  ASSUME KnowledgeAssumption, KnowledgeInv, EditInv, Publish
  PROVE  EditInv'
<1>1. /\ driver.step = "publish" /\ head' = driver.tree /\ sidecars' = driver.side
      /\ UNCHANGED <<page, archive, open, plan, owed, exposed>>
  BY DEF Publish, At, control
<1>2. driver'.step \in {"stamp", "commit"} /\ driver'.tree = driver.tree
  BY StepTypes DEF Publish, GoTo, Steps
<1>3. Aside \subseteq Saved /\ Aside' = Saved
  BY <1>1 DEF EditInv, CloneInv, SidecarsGrow, Aside, Saved
<1>4. \A p \in Pages : head'[p] \in owed => head'[p] = head[p]
  BY <1>1 DEF EditInv, CloneInv, CloneIsCurrent
<1>5. HashIsCompiled' /\ RetiredIsOwedNothing' /\ OpenIsArchived'
  BY <1>1, <1>4 DEF EditInv, StandingInv, HashIsCompiled, RetiredIsOwedNothing, OpenIsArchived
<1>6. DueIsWatched'
  BY <1>1, <1>3, <1>4 DEF EditInv, StandingInv, DueIsWatched, Due, Watched, Compilable
<1>7. EditsSurvive'
  <2> SUFFICES ASSUME NEW e \in Due PROVE e \in Kept'
    BY <1>1 DEF EditsSurvive, Due
  <2>1. Saved \subseteq Kept'
    BY <1>1 DEF Saved, Kept
  <2>2. CASE e \in Aside
    BY <1>3, <2>1, <2>2
  <2>3. ASSUME NEW p \in Pages, e = head[p] PROVE e \in Kept'
    <3>1. driver.tree[p] = e \/ e \in Saved
      BY <1>1, <2>3 DEF EditInv, CloneInv, PublishKeepsDue
    <3>2. head'[p] \in Kept'
      BY DEF Kept
    <3> QED
      BY <1>1, <2>1, <3>1, <3>2
  <2> QED
    BY <2>2, <2>3 DEF EditInv, StandingInv, EditsSurvive, Kept, Due, Aside
<1>8. CloneInv'
  BY <1>1, <1>2
  DEF CloneInv, CloneIsCurrent, SidecarsGrow, CloneHasDue, HandedOverIsCopied,
      UndriftedIsSaved, CompiledIsSaved, PublishKeepsDue, Early
<1> QED
  BY <1>5, <1>6, <1>7, <1>8 DEF EditInv, StandingInv

(* A handover is stamped when its page has been compiled.                  *)
LEMMA EditsStamp ==
  ASSUME KnowledgeAssumption, KnowledgeInv, KnowledgeInv', EditInv, Stamp
  PROVE  EditInv'
<1>1. /\ driver' = Idle /\ plan' = {d \in plan : ~Applied(d)}
      /\ UNCHANGED <<page, archive, open, repo, owed, exposed>>
  BY DEF Stamp, history
<1>2. ASSUME NEW p \in Pages, Watched(p) PROVE Watched(p)'
  <2>1. CASE <<"handover", p>> \in plan /\ Applied(<<"handover", p>>)
    BY <1>1, <1>2, <2>1, StepTypes DEF Applied, Watched, Compilable, Owned
  <2> QED
    BY <1>1, <1>2, <2>1 DEF Watched, Compilable
<1>3. StandingInv'
  BY <1>1, <1>2
  DEF EditInv, StandingInv, HashIsCompiled, RetiredIsOwedNothing, DueIsWatched, OpenIsArchived,
      EditsSurvive, Due, Aside, Kept, repo
<1> QED
  BY <1>1, <1>3, NoCloneOwed DEF EditInv

-----------------------------------------------------------------------------
(* Reviews, decisions and edits.                                           *)

LEMMA EditsMarkStale ==
  ASSUME KnowledgeAssumption, KnowledgeInv, EditInv, NEW p \in Pages, MarkStale(p)
  PROVE  EditInv'
<1>1. UNCHANGED <<archive, open, plan, repo, driver, owed, exposed>>
  BY DEF MarkStale, history
<1>2. \A q \in Pages : q # p => page'[q] = page[q]
  BY StepTypes DEF MarkStale
<1>3. /\ page'[p].kind = "compiled" /\ page'[p].status = "stale" /\ page'[p].hash = page[p].hash
      /\ page[p].status = "active" /\ Compilable(p)
  BY StepTypes DEF MarkStale, PageType, Compilable
<1>4. Watched(p)'
  BY <1>3, StepTypes DEF Watched, Compilable, Owned
<1>5. StandingInv'
  BY <1>1, <1>2, <1>3, <1>4, StandingPages
  DEF EditInv, StandingInv, HashIsCompiled, OpenIsArchived
<1>6. \A q \in Pages : Compilable(q)' => Compilable(q)
  BY <1>2, <1>3 DEF Compilable
<1>7. CloneInv'
  BY <1>1, <1>6
  DEF EditInv, CloneInv, CloneIsCurrent, SidecarsGrow, CloneHasDue, HandedOverIsCopied,
      UndriftedIsSaved, CompiledIsSaved, PublishKeepsDue, Due, Saved, repo
<1> QED
  BY <1>5, <1>7 DEF EditInv

(* A page that is compiled again was quarantined, and its due edit is      *)
(* aside; one that becomes an author's is watched.                         *)
LEMMA EditsReview ==
  ASSUME KnowledgeAssumption, KnowledgeInv, EditInv,
         NEW p \in Pages, Resume(p) \/ Adopt(p) \/ Convert(p)
  PROVE  EditInv'
<1>1. UNCHANGED <<archive, plan, repo, driver, owed, exposed>>
  BY DEF Resume, Adopt, Convert, BecomesAuthored, history
<1>2. PICK r \in PageType :
        /\ page' = [page EXCEPT ![p] = r]
        /\ \/ r = page[p]
           \/ r.hash = None /\ r.status = "stale" /\ page[p].status = "quarantined"
           \/ /\ r.hash = None /\ r.status = "active" /\ r.kind = "authored"
              /\ page[p].status # "tombstoned"
  <2>1. CASE Resume(p) /\ page[p].status = "quarantined"
    <3>1. /\ Resumed(p) \in PageType
          /\ Resumed(p).hash = None /\ Resumed(p).status = "stale"
      BY StepTypes, ZenonT(40) DEF Resumed, PageType, Statuses
    <3>2. page' = [page EXCEPT ![p] = Resumed(p)]
      BY <2>1 DEF Resume
    <3> QED
      BY <2>1, <3>1, <3>2
  <2>2. CASE Resume(p) /\ page[p].status # "quarantined"
    <3>1. page' = [page EXCEPT ![p] = page[p]] /\ page[p] \in PageType
      BY <2>2, StepTypes DEF Resume
    <3> QED
      BY <3>1
  <2>3. CASE Adopt(p) \/ Convert(p)
    <3> DEFINE r == [kind |-> "authored", status |-> "active", hash |-> None]
    <3>1. r \in PageType /\ r.hash = None /\ r.status = "active" /\ r.kind = "authored"
      BY DEF PageType, Kinds, Statuses
    <3>2. page' = [page EXCEPT ![p] = r] /\ page[p].status # "tombstoned"
      BY <2>3 DEF Adopt, Convert, BecomesAuthored
    <3> QED
      BY <3>1, <3>2
  <2> QED
    BY <2>1, <2>2, <2>3
<1>3. page'[p] = r /\ \A q \in Pages : q # p => page'[q] = page[q]
  BY <1>2, StepTypes
<1>4. page[p].status = "quarantined" /\ head[p] \in Due => head[p] \in Aside
  BY StepTypes DEF EditInv, StandingInv, DueIsWatched, Watched, Compilable, Owned
<1>5. Aside' = Aside
  BY <1>1 DEF Aside, repo
<1>6. OpenIsArchived'
  <2>1. open' = open \/ open' = [open EXCEPT ![p] = {}]
    BY DEF Resume, Adopt, Convert
  <2>2. \A q \in Pages : open'[q] = open[q] \/ open'[q] = {}
    BY <2>1, StepTypes DEF OpenType
  <2> QED
    BY <1>1, <2>2 DEF EditInv, StandingInv, OpenIsArchived
<1>7. StandingInv'
  <2>1. r.kind = "authored" => Watched(p)'
    BY <1>3 DEF Watched
  <2>2. \/ page'[p] = page[p]
        \/ /\ page'[p].hash \notin Edits
           /\ page[p].status # "tombstoned" /\ page'[p].status # "tombstoned"
           /\ head[p] \in Due => Watched(p)' \/ head[p] \in Aside'
    BY <1>2, <1>3, <1>4, <1>5, <2>1, EditsAreBodies
  <2> QED
    BY <1>1, <1>3, <1>6, <2>2, StandingPages DEF EditInv
<1>8. driver.step = "quarantine" => Aside \subseteq Saved
  BY DEF EditInv, CloneInv, SidecarsGrow, Early, Aside, Saved
<1>9. UndriftedIsSaved'
  <2>1. Compilable(p)' => Compilable(p) \/ page[p].status = "quarantined"
    BY <1>2, <1>3 DEF Compilable
  <2> QED
    BY <1>1, <1>3, <1>4, <1>8, <2>1
    DEF EditInv, CloneInv, UndriftedIsSaved, Compilable, Due, Saved, repo
<1>10. CloneInv'
  BY <1>1, <1>9
  DEF EditInv, CloneInv, CloneIsCurrent, SidecarsGrow, CloneHasDue, HandedOverIsCopied,
      CompiledIsSaved, PublishKeepsDue, Due, Saved, repo
<1> QED
  BY <1>7, <1>10 DEF EditInv

LEMMA EditsRetire ==
  ASSUME KnowledgeAssumption, KnowledgeInv, EditInv, NEW p \in Pages, Retire(p)
  PROVE  EditInv'
<1>1. /\ UNCHANGED <<archive, open, repo, driver, exposed>>
      /\ owed' = owed \ {head[p]} /\ plan' = plan \cup {<<"retire", p>>}
  BY DEF Retire, Accept
<1>2. \A q \in Pages : q # p => page'[q] = page[q]
  BY StepTypes DEF Retire
<1>3. page'[p].status = "tombstoned" /\ page'[p].hash = page[p].hash /\ ~Compilable(p)'
  BY StepTypes DEF Retire, PageType, Compilable
<1>4. Due' \subseteq Due /\ head[p] \notin Due'
  BY <1>1 DEF Due
<1>5. HashIsCompiled' /\ RetiredIsOwedNothing' /\ OpenIsArchived'
  <2>1. HashIsCompiled'
    BY <1>2, <1>3 DEF EditInv, StandingInv, HashIsCompiled
  <2>2. ASSUME NEW q \in Pages
        PROVE  /\ <<"retire", q>> \in plan' => page'[q].status = "tombstoned"
               /\ page'[q].status = "tombstoned" => head[q] \notin owed'
    BY <1>1, <1>2, <1>3 DEF EditInv, StandingInv, RetiredIsOwedNothing
  <2> QED
    BY <1>1, <2>1, <2>2 DEF EditInv, StandingInv, RetiredIsOwedNothing, OpenIsArchived, repo
<1>6. DueIsWatched'
  BY <1>1, <1>2, <1>4
  DEF EditInv, StandingInv, DueIsWatched, Watched, Compilable, Aside, repo
<1>7. EditsSurvive'
  BY <1>1 DEF EditInv, StandingInv, EditsSurvive, Kept, repo
<1>8. HandedOverIsCopied' /\ UndriftedIsSaved'
  BY <1>1, <1>2, <1>3, <1>4
  DEF EditInv, CloneInv, HandedOverIsCopied, UndriftedIsSaved, Compilable, Saved, repo
<1>9. CloneInv'
  BY <1>1, <1>4, <1>8
  DEF EditInv, CloneInv, CloneIsCurrent, SidecarsGrow, CloneHasDue,
      CompiledIsSaved, PublishKeepsDue, Saved, repo
<1> QED
  BY <1>5, <1>6, <1>7, <1>9 DEF EditInv, StandingInv

(* Beside an open clone, what is handed over is exposed.                   *)
LEMMA EditsHandover ==
  ASSUME KnowledgeAssumption, KnowledgeInv, EditInv, NEW p \in Pages, Handover(p)
  PROVE  EditInv'
<1>1. /\ UNCHANGED <<archive, open, repo, driver, owed>>
      /\ plan' = plan \cup {<<"handover", p>>}
      /\ exposed' = exposed \cup (IF At("idle") THEN {} ELSE {head[p]} \cap Edits)
  BY DEF Handover, Accept
<1>2. \A q \in Pages : q # p => page'[q] = page[q]
  BY StepTypes DEF Handover
<1>3. /\ page[p].kind = "authored" /\ page[p].status = "active"
      /\ page'[p].kind = "compiled" /\ page'[p].status = "stale" /\ page'[p].hash = None
  BY StepTypes DEF Handover, Owned
<1>4. Due' \subseteq Due /\ (driver.step # "idle" => head[p] \notin Due')
  BY <1>1, EditsAreBodies DEF Due, At
<1>5. HashIsCompiled' /\ RetiredIsOwedNothing' /\ OpenIsArchived'
  <2>1. HashIsCompiled'
    BY <1>2, <1>3, EditsAreBodies DEF EditInv, StandingInv, HashIsCompiled
  <2>2. ASSUME NEW q \in Pages
        PROVE  /\ <<"retire", q>> \in plan' => page'[q].status = "tombstoned"
               /\ page'[q].status = "tombstoned" => head[q] \notin owed'
    BY <1>1, <1>2, <1>3 DEF EditInv, StandingInv, RetiredIsOwedNothing
  <2> QED
    BY <1>1, <2>1, <2>2 DEF EditInv, StandingInv, RetiredIsOwedNothing, OpenIsArchived, repo
<1>6. DueIsWatched'
  <2>1. Watched(p)'
    BY <1>1, <1>3 DEF Watched, Compilable
  <2>2. ASSUME NEW q \in Pages, Watched(q) PROVE Watched(q)'
    BY <1>1, <1>2, <2>1, <2>2 DEF Watched, Compilable
  <2> QED
    BY <1>1, <1>4, <2>2 DEF EditInv, StandingInv, DueIsWatched, Aside, repo
<1>7. EditsSurvive'
  BY <1>1 DEF EditInv, StandingInv, EditsSurvive, Kept, repo
<1>8. HandedOverIsCopied' /\ UndriftedIsSaved'
  BY <1>1, <1>2, <1>4
  DEF EditInv, CloneInv, HandedOverIsCopied, UndriftedIsSaved, Compilable, Saved, repo
<1>9. CloneInv'
  BY <1>1, <1>4, <1>8
  DEF EditInv, CloneInv, CloneIsCurrent, SidecarsGrow, CloneHasDue,
      CompiledIsSaved, PublishKeepsDue, Saved, repo
<1> QED
  BY <1>5, <1>6, <1>7, <1>9 DEF EditInv, StandingInv

(* A new edit is due only if no clone is open and its page is watched; the *)
(* one it replaces is owed no more.                                        *)
LEMMA EditsEdit ==
  ASSUME KnowledgeAssumption, KnowledgeInv, EditInv,
         NEW p \in Pages, NEW e \in Edits \cup Garbled, Edit(p, e)
  PROVE  EditInv'
<1>1. /\ UNCHANGED <<page, archive, open, plan, sidecars, driver>>
      /\ owed' = (owed \ {head[p]}) \cup (IF Watched(p) THEN {e} \cap Edits ELSE {})
      /\ exposed' = exposed \cup (IF At("idle") THEN {} ELSE {e} \cap Edits)
  BY DEF Edit, control
<1>2. head' = [head EXCEPT ![p] = e]
  BY DEF Edit
<1>3. \A q \in Pages : head'[q] = IF q = p THEN e ELSE head[q]
  BY <1>2 DEF KnowledgeInv, TypeOK
<1>4. e \notin owed /\ \A q \in Pages : head[q] # e /\ driver.tree[q] # e
  BY DEF Edit, Used
<1>5. Due' \subseteq (Due \ {head[p]}) \cup {e} /\ (driver.step # "idle" => e \notin Due')
  BY <1>1, <1>4 DEF Due, At
<1>6. HashIsCompiled' /\ RetiredIsOwedNothing' /\ OpenIsArchived'
  <2>1. page[p].status = "tombstoned" => ~Watched(p)
    BY StepTypes DEF Watched, Compilable, Owned
  <2> QED
    BY <1>1, <1>3, <1>4, <2>1
    DEF EditInv, StandingInv, HashIsCompiled, RetiredIsOwedNothing, OpenIsArchived
<1>7. DueIsWatched'
  <2> SUFFICES ASSUME NEW q \in Pages, head'[q] \in Due'
               PROVE  Watched(q) \/ head'[q] \in Aside
    BY <1>1 DEF DueIsWatched, Watched, Compilable, Aside
  <2>1. CASE q = p
    BY <1>1, <1>3, <1>4, <2>1 DEF Due
  <2>2. CASE q # p
    BY <1>3, <1>4, <1>5, <2>2 DEF EditInv, StandingInv, DueIsWatched
  <2> QED
    BY <2>1, <2>2
<1>8. EditsSurvive'
  <2> SUFFICES ASSUME NEW x \in Due' PROVE x \in Kept'
    BY DEF EditsSurvive, Due
  <2>1. CASE x = e
    BY <1>3, <2>1 DEF Kept
  <2>2. CASE x # e
    <3>1. x \in Kept /\ x # head[p]
      BY <1>5, <2>2 DEF EditInv, StandingInv, EditsSurvive, Due
    <3>2. ASSUME NEW q \in Pages, x = head[q] PROVE x \in Kept'
      BY <1>3, <3>1, <3>2 DEF Kept
    <3> QED
      BY <1>1, <3>1, <3>2 DEF Kept
  <2> QED
    BY <2>1, <2>2
<1>9. CloneIsCurrent' /\ SidecarsGrow'
  BY <1>1, <1>3, <1>4 DEF EditInv, CloneInv, CloneIsCurrent, SidecarsGrow
<1>10. ASSUME NEW q \in Pages, driver.step # "idle", head'[q] \in Due'
       PROVE  head'[q] = head[q] /\ head[q] \in Due
  BY <1>3, <1>5, <1>10
<1>11. CloneHasDue' /\ HandedOverIsCopied' /\ UndriftedIsSaved' /\ CompiledIsSaved'
       /\ PublishKeepsDue'
  BY <1>1, <1>10, StepTypes
  DEF EditInv, CloneInv, CloneHasDue, HandedOverIsCopied, UndriftedIsSaved, CompiledIsSaved,
      PublishKeepsDue, Early, Saved, Compilable, DriverType
<1> QED
  BY <1>6, <1>7, <1>8, <1>9, <1>11 DEF EditInv, StandingInv, CloneInv

LEMMA EditsStep ==
  ASSUME KnowledgeAssumption, KnowledgeInv, KnowledgeInv', EditInv, [Next]_vars
  PROVE  EditInv'
<1>1. CASE SettleRaises \/ Fail
  BY <1>1, EditsAbort DEF SettleRaises, Fail, control, history
<1>2. CASE Cycle
  BY <1>1, <1>2, EditsBegin, EditsPreparing, EditsSettle, EditsPlan, EditsReadDrift,
     EditsQuarantine, EditsSchedule, EditsRecord, EditsPublish, EditsCommit, EditsStamp
  DEF Cycle
<1>3. CASE SwitchFacts \/ UNCHANGED vars
  <2>1. UNCHANGED <<page, archive, open, plan, repo, driver, owed, exposed>>
    BY <1>3 DEF SwitchFacts, vars, control, history
  <2>2. CloneInv'
    BY <2>1
    DEF EditInv, CloneInv, CloneIsCurrent, SidecarsGrow, CloneHasDue, HandedOverIsCopied,
        UndriftedIsSaved, CompiledIsSaved, PublishKeepsDue, Compilable, Due, Saved, repo
  <2> QED
    BY <2>1, <2>2, StandingFrame DEF EditInv
<1> QED
  BY <1>1, <1>2, <1>3, EditsMarkStale, EditsReview, EditsRetire, EditsHandover, EditsEdit
  DEF Next

(* An edit that is UTF-8 text, committed while no clone is open to a page  *)
(* the driver watches, stays in the repository, in a sidecar or in the     *)
(* archive.                                                                *)
THEOREM WatchedEditsSurvive == Spec => []EditsSurvive
<1>1. Init => KnowledgeInv /\ EditInv
  BY InitType, EditsInit, KnowledgeAssumption
<1>2. KnowledgeInv /\ EditInv /\ [Next]_vars => KnowledgeInv' /\ EditInv'
  BY StepInv, EditsStep, KnowledgeAssumption
<1>3. EditInv => EditsSurvive
  BY DEF EditInv, StandingInv
<1> QED
  BY <1>1, <1>2, <1>3, PTL DEF Spec

=============================================================================
