--------------------------- MODULE KnowledgeCommit ---------------------------
(***************************************************************************)
(* The commit cycle of the knowledge plane.  Pages live in a git           *)
(* repository that people commit to as well; whose a page is and what body *)
(* it was last given live in Postgres.  One driver at a time, holding the  *)
(* deployment's commit lease, clones the repository, finishes or abandons  *)
(* what an earlier cycle left pending, applies accepted structure          *)
(* decisions to its clone, quarantines compiled pages somebody edited,     *)
(* compiles the stale ones, records the compilations as pending, publishes *)
(* its clone and then makes the compilations live.  An error at any point  *)
(* ends the cycle like a crash: the clone is discarded, the lease freed,   *)
(* and what was committed to either store stays.                           *)
(*                                                                         *)
(* Beside the driver run the authors, who commit to the repository, and    *)
(* the reviewers, who triage quarantines and accept decisions.  Every read *)
(* or transaction of the driver is a step of its own.                      *)
(*                                                                         *)
(* Bodies are compared only for equality: an author's commit is a member   *)
(* of Edits or, when it is not UTF-8, of Garbled; what the compilers wrote *)
(* is the number of their cycle.  The router may find any page stale at    *)
(* any time, for what pages are compiled from is left out, as are the page *)
(* tree, moves, splits and merges, citations, notifications, dispatches,   *)
(* new, empty and deleted files, sidecars that are not UTF-8, and what an  *)
(* authored page's hash is for (its review flags).                         *)
(***************************************************************************)
EXTENDS Integers, FiniteSets

CONSTANTS
  Pages,
  Edits,        \* bodies authors commit; each is committed at most once
  Garbled,      \* bodies authors commit that are not UTF-8
  MaxCycles,    \* bound on cycles that record compilations
  MaxFailures,  \* bound on errors and crashes
  MaxAccepted,  \* bound on accepted structure decisions
  MaxSwitches,  \* bound on switches of the facts layer
  None          \* no file, no hash

ASSUME KnowledgeAssumption ==
  /\ MaxCycles \in Nat /\ MaxFailures \in Nat /\ MaxAccepted \in Nat /\ MaxSwitches \in Nat
  /\ Edits \cap Nat = {} /\ Garbled \cap (Nat \cup Edits) = {}
  /\ None \notin Nat \cup Edits \cup Garbled

Outputs == 0..MaxCycles   \* 0 is the body of a page that was there before
Bodies  == Outputs \cup Edits \cup Garbled

VARIABLES
  page,       \* knowledge_artifacts: page_kind, status, content_hash
  archive,    \* knowledge_quarantines: the bodies set aside, for ever ...
  open,       \* ... and each page's proposed row: the bodies with its detected hash
  pending,    \* knowledge_compilations neither committed nor failed: one cycle
  plan,       \* applied structure decisions without an application_commit
  facts,      \* whether the deployment serves its facts layer
  head,       \* the repository's page bodies ...
  sidecars,   \* ... and what each page's curation sidecar contains
  driver,     \* the cycle under way: its step, its clone, what it has read
  cycles,     \* cycles that have recorded compilations
  budget,     \* failures, decisions and switches still to come
  published,  \* history: the cycles whose bodies have been in the repository
  owed,       \* history: authors' commits nobody has replaced or retired
  exposed,    \* history: those made, or handed over, beside an open clone
  disturbed   \* history: somebody touched an unfinished cycle

control == <<page, archive, open, pending, plan>>
repo    == <<head, sidecars>>
history == <<published, owed, exposed, disturbed>>
vars    == <<control, facts, repo, driver, cycles, budget, history>>

Kinds    == {"compiled", "authored"}
Statuses == {"active", "stale", "quarantined", "tombstoned"}
Steps    == {"idle", "recover", "settle", "sync", "plan", "drift", "quarantine",
             "compile", "publish", "commit", "stamp"}

NoClone == [p \in Pages |-> None]
NoNotes == [p \in Pages |-> {}]
Idle    == [step |-> "idle", tree |-> NoClone, side |-> NoNotes, todo |-> {}, changed |-> FALSE]
Nothing == [pages |-> {}, body |-> 0]

TypeOK ==
  /\ page \in [Pages -> [kind : Kinds, status : Statuses, hash : Bodies \cup {None}]]
  /\ \A p \in Pages : /\ page[p].kind = "authored" => page[p].status = "active"
                      /\ page[p].kind = "compiled" /\ page[p].status = "active"
                           => page[p].hash # None
                      /\ page[p].status = "quarantined" => open[p] # {}
  /\ open \in [Pages -> SUBSET (Bodies \cup {None})]
  /\ archive \subseteq Bodies
  /\ pending \in [pages : SUBSET Pages, body : Outputs]
  /\ plan \subseteq {"retire", "handover"} \X Pages
  /\ facts \in BOOLEAN
  /\ head \in [Pages -> Bodies \cup {None}]
  /\ sidecars \in [Pages -> SUBSET Bodies]
  /\ driver \in [step : Steps, tree : [Pages -> Bodies \cup {None}],
                 side : [Pages -> SUBSET Bodies], todo : SUBSET Pages, changed : BOOLEAN]
  /\ cycles \in Outputs
  /\ budget \in [failures : 0..MaxFailures, accepted : 0..MaxAccepted, switches : 0..MaxSwitches]
  /\ published \subseteq Outputs
  /\ owed \subseteq Edits /\ exposed \subseteq Edits
  /\ disturbed \in BOOLEAN

(* A page compiled before, one the planner has just created, or an         *)
(* author's; whatever file there is.                                       *)
Initially ==
  {[kind |-> "compiled", status |-> "active", hash |-> 0],
   [kind |-> "compiled", status |-> "stale",  hash |-> None],
   [kind |-> "authored", status |-> "active", hash |-> None]}

Init ==
  /\ page \in [Pages -> Initially]
  /\ head = [p \in Pages |-> IF page[p].status = "stale" THEN None ELSE 0]
  /\ archive = {} /\ open = NoNotes /\ pending = Nothing /\ plan = {}
  /\ facts = TRUE
  /\ sidecars = NoNotes
  /\ driver = Idle
  /\ cycles = 0
  /\ budget = [failures |-> MaxFailures, accepted |-> MaxAccepted, switches |-> MaxSwitches]
  /\ published = {0}
  /\ owed = {} /\ exposed = {}
  /\ disturbed = FALSE

-----------------------------------------------------------------------------
(* The driver's cycle.                                                     *)

Compilable(p) == page[p].kind = "compiled" /\ page[p].status \in {"active", "stale"}
At(s)   == driver.step = s
GoTo(s) == driver' = [driver EXCEPT !.step = s]

(* compile_artifacts: nothing is schedulable while facts are not served.   *)
Schedulable == {p \in Pages : facts /\ Compilable(p)}

(* An error ends the cycle; only the clone and the lease are lost.         *)
Abort == driver' = Idle

Begin ==
  /\ At("idle")
  /\ driver' = [Idle EXCEPT !.step = "recover", !.tree = head, !.side = sidecars]
  /\ UNCHANGED <<control, facts, repo, cycles, budget, history>>

ReadRecovery ==
  /\ At("recover")
  /\ driver' = [driver EXCEPT !.step = "settle", !.todo = Schedulable]
  /\ UNCHANGED <<control, facts, repo, cycles, budget, history>>

(* commit_compilations: all pages of a cycle become live, or none.         *)
CanCommit == \A p \in pending.pages : Compilable(p)

Live(pg) == [p \in Pages |-> IF p \in pending.pages
                             THEN [pg[p] EXCEPT !.status = "active", !.hash = pending.body]
                             ELSE pg[p]]

MatchesRecorded ==   \* mutant
  \A p \in pending.pages : p \in driver.todo /\ driver.tree[p] = page[p].hash

MatchesAny ==   \* mutant
  pending.pages \subseteq driver.todo

(* The clone contains every body of the pending cycle: it was published.   *)
Matches ==
  \A p \in pending.pages : p \in driver.todo /\ driver.tree[p] = pending.body

Settle ==
  /\ At("settle")
  /\ \/ pending.pages = {} /\ UNCHANGED <<page, pending>>
     \/ pending.pages # {} /\ Matches /\ CanCommit /\ page' = Live(page) /\ pending' = Nothing
     \/ pending.pages # {} /\ ~Matches /\ pending' = Nothing /\ UNCHANGED page
  /\ driver' = [driver EXCEPT !.step = "sync", !.todo = {}]
  /\ UNCHANGED <<archive, open, plan, facts, repo, cycles, budget, history>>

(* A page of the recovered cycle has been retired since it was read.       *)
SettleRaises ==
  /\ At("settle")
  /\ pending.pages # {} /\ Matches /\ ~CanCommit
  /\ Abort
  /\ UNCHANGED <<control, facts, repo, cycles, budget, history>>

(* Every Markdown file no compiled page owns is read and registered as an  *)
(* author's: the row of a retired page forbids it, bytes that do not       *)
(* decode raise.                                                           *)
Sync ==
  LET blocked == \E p \in Pages :
                   \/ page[p].status = "tombstoned" /\ driver.tree[p] # None
                   \/ page[p].kind = "authored" /\ driver.tree[p] \in Garbled
  IN  /\ At("sync")
      /\ IF blocked THEN Abort ELSE GoTo("plan")
      /\ UNCHANGED <<control, facts, repo, cycles, budget, history>>

(* The applied decisions, on the clone: a retired page's file goes, a      *)
(* handed-over body is copied into the page's sidecar.                     *)
Plan ==
  LET gone  == {p \in Pages : <<"retire", p>> \in plan}
      taken == {p \in Pages : <<"handover", p>> \in plan}
      tree  == [p \in Pages |-> IF p \in gone THEN None ELSE driver.tree[p]]
      side  == [p \in Pages |-> IF p \in taken THEN driver.side[p] \cup {driver.tree[p]}
                                               ELSE driver.side[p]]
  IN  /\ At("plan")
      /\ IF \E p \in taken : driver.tree[p] \in {None} \cup Garbled
         THEN Abort
         ELSE driver' = [driver EXCEPT !.step = "drift", !.tree = tree, !.side = side,
                           !.changed = tree # driver.tree \/ side # driver.side]
      /\ UNCHANGED <<control, facts, repo, cycles, budget, history>>

DriftedActive(p) ==   \* mutant
  Compilable(p) /\ page[p].status = "active" /\ driver.tree[p] # page[p].hash

Drifted(p) == Compilable(p) /\ page[p].hash # None /\ driver.tree[p] # page[p].hash

ReadDrift ==
  /\ At("drift")
  /\ driver' = [driver EXCEPT !.step = "quarantine", !.todo = {p \in Pages : Drifted(p)}]
  /\ UNCHANGED <<control, facts, repo, cycles, budget, history>>

(* The bodies with the hash that p's has now: all that do not decode have  *)
(* that of one placeholder.                                                *)
Detected(p) == IF driver.tree[p] \in Garbled THEN Garbled ELSE {driver.tree[p]}

(* One page a transaction, which looks at the page again.  A row that is   *)
(* still open for the page is returned as it is, the page not marked, if   *)
(* it has this hash.  What is archived of a deleted file or of bytes that  *)
(* do not decode is a fixed text, nobody's body.                           *)
Quarantine(p) ==
  /\ At("quarantine") /\ p \in driver.todo
  /\ \/ /\ open[p] = {} /\ Drifted(p)
        /\ page' = [page EXCEPT ![p].status = "quarantined"]
        /\ archive' = archive \cup ({driver.tree[p]} \ ({None} \cup Garbled))
        /\ open' = [open EXCEPT ![p] = Detected(p)]
        /\ driver' = [driver EXCEPT !.todo = @ \ {p}]
     \/ /\ open[p] # {} /\ open[p] = Detected(p)
        /\ driver' = [driver EXCEPT !.todo = @ \ {p}]
        /\ UNCHANGED <<page, archive, open>>
     \/ /\ IF open[p] = {} THEN ~Drifted(p) ELSE open[p] # Detected(p)
        /\ Abort
        /\ UNCHANGED <<page, archive, open>>
  /\ UNCHANGED <<pending, plan, facts, repo, cycles, budget, history>>

(* Stale pages are compiled; with none, changed plan files are published.  *)
(* The compiler of a page that has a hash reads its previous body.         *)
Schedule ==
  LET stale      == {p \in Schedulable : page[p].status = "stale"}
      unreadable == {p \in stale : page[p].hash # None /\ driver.tree[p] \in Garbled}
  IN  /\ At("quarantine") /\ driver.todo = {}
      /\ IF unreadable # {}
         THEN Abort
         ELSE driver' = [driver EXCEPT !.todo = stale,
                           !.step = IF stale # {} THEN "compile"
                                    ELSE IF driver.changed THEN "publish" ELSE "stamp"]
      /\ UNCHANGED <<control, facts, repo, cycles, budget, history>>

(* All pages compiled: written to the clone and recorded as pending.       *)
Record ==
  /\ At("compile")
  /\ cycles < MaxCycles
  /\ cycles' = cycles + 1
  /\ pending' = [pages |-> driver.todo, body |-> cycles + 1]
  /\ driver' = [driver EXCEPT !.step = "publish",
       !.tree = [p \in Pages |-> IF p \in driver.todo THEN cycles + 1 ELSE driver.tree[p]]]
  /\ UNCHANGED <<page, archive, open, plan, facts, repo, budget, history>>

(* The repository is reset to the clone, whatever it contains by now.      *)
Publish ==
  /\ At("publish")
  /\ head' = driver.tree
  /\ sidecars' = driver.side
  /\ published' = published \cup (IF driver.todo = {} THEN {} ELSE {cycles})
  /\ GoTo(IF driver.todo = {} THEN "stamp" ELSE "commit")
  /\ UNCHANGED <<control, facts, cycles, budget, owed, exposed, disturbed>>

Commit ==
  /\ At("commit")
  /\ IF CanCommit
     THEN page' = Live(page) /\ pending' = Nothing /\ GoTo("stamp")
     ELSE Abort /\ UNCHANGED <<page, pending>>
  /\ UNCHANGED <<archive, open, plan, facts, repo, cycles, budget, history>>

Applied(d) ==
  LET p == d[2]
  IN  \/ d[1] = "retire" /\ page[p].status = "tombstoned" /\ driver.tree[p] = None
      \/ /\ d[1] = "handover" /\ Compilable(p) /\ page[p].status = "active"
         /\ driver.tree[p] # None /\ driver.side[p] # {}

Stamp ==
  /\ At("stamp")
  /\ plan' = {d \in plan : ~Applied(d)}
  /\ driver' = Idle
  /\ UNCHANGED <<page, archive, open, pending, facts, repo, cycles, budget, history>>

(* A compilation, a validation, git or the database fails; or the process  *)
(* dies.                                                                   *)
Fail ==
  /\ ~At("idle") /\ budget.failures > 0
  /\ budget' = [budget EXCEPT !.failures = @ - 1]
  /\ Abort
  /\ UNCHANGED <<control, facts, repo, cycles, history>>

-----------------------------------------------------------------------------
(* Everybody else.                                                         *)

(* The driver will look for an edit of p: it is an author's, compared with *)
(* a recorded hash, or about to be copied into the sidecar.                *)
Watched(p) ==
  \/ page[p].kind = "authored"
  \/ Compilable(p) /\ (page[p].hash # None \/ <<"handover", p>> \in plan)

(* The pages of a cycle that is being compiled or is pending.              *)
Unfinished == pending.pages \cup (IF At("compile") THEN driver.todo ELSE {})

Used == owed \cup exposed \cup archive \cup {head[p] : p \in Pages}
             \cup {driver.tree[p] : p \in Pages} \cup UNION {sidecars[p] : p \in Pages}

(* An author commits body e of p.  Only what is text is looked after.      *)
Edit(p, e) ==
  /\ e \notin Used
  /\ head' = [head EXCEPT ![p] = e]
  /\ owed' = (owed \ {head[p]}) \cup (IF Watched(p) THEN {e} \cap Edits ELSE {})
  /\ exposed' = exposed \cup (IF At("idle") THEN {} ELSE {e} \cap Edits)
  /\ disturbed' = (disturbed \/ p \in Unfinished)
  /\ UNCHANGED <<control, facts, sidecars, driver, cycles, budget, published>>

(* The router finds that what p was compiled from has changed.             *)
MarkStale(p) ==
  /\ Compilable(p) /\ page[p].status = "active"
  /\ page' = [page EXCEPT ![p].status = "stale"]
  /\ UNCHANGED <<archive, open, pending, plan, facts, repo, driver, cycles, budget, history>>

ResumedActive(p) == [page[p] EXCEPT !.status = "active", !.hash = None]   \* mutant

Resumed(p) == [page[p] EXCEPT !.status = "stale", !.hash = None]

(* The edit of an open quarantine is rejected, or accepted into the        *)
(* sidecar: a page that is still quarantined compiles again, and any body  *)
(* it has may be overwritten.                                              *)
Resume(p) ==
  /\ open[p] # {}
  /\ page' = [page EXCEPT ![p] = IF page[p].status = "quarantined" THEN Resumed(p) ELSE @]
  /\ open' = [open EXCEPT ![p] = {}]
  /\ UNCHANGED <<archive, pending, plan, facts, repo, driver, cycles, budget, history>>

(* A live compiled page, quarantined or not, becomes an author's.          *)
BecomesAuthored(p) ==
  /\ page[p].kind = "compiled" /\ page[p].status # "tombstoned"
  /\ page' = [page EXCEPT ![p] = [kind |-> "authored", status |-> "active", hash |-> None]]
  /\ disturbed' = (disturbed \/ p \in Unfinished)
  /\ UNCHANGED <<archive, pending, plan, facts, repo, driver, cycles, budget, published,
                 owed, exposed>>

(* The reviewer of an open quarantine gives the page to the editor.        *)
Adopt(p) ==
  /\ open[p] # {} /\ BecomesAuthored(p)
  /\ open' = [open EXCEPT ![p] = {}]

(* A decision of the planner, accepted or applied at once, makes the page  *)
(* an author's.  A quarantine the page has stays open, and no file changes.*)
Convert(p) == BecomesAuthored(p) /\ UNCHANGED open

Accept(d) ==
  /\ budget.accepted > 0
  /\ budget' = [budget EXCEPT !.accepted = @ - 1]
  /\ plan' = plan \cup {d}

Retire(p) ==
  /\ Compilable(p)
  /\ Accept(<<"retire", p>>)
  /\ page' = [page EXCEPT ![p].status = "tombstoned"]
  /\ owed' = owed \ {head[p]}
  /\ disturbed' = (disturbed \/ p \in Unfinished)
  /\ UNCHANGED <<archive, open, pending, facts, repo, driver, cycles, published, exposed>>

(* The author confirmed that a writer takes the page over.                 *)
Handover(p) ==
  /\ page[p].kind = "authored"
  /\ Accept(<<"handover", p>>)
  /\ page' = [page EXCEPT ![p] = [kind |-> "compiled", status |-> "stale", hash |-> None]]
  /\ exposed' = exposed \cup (IF At("idle") THEN {} ELSE {head[p]} \cap Edits)
  /\ UNCHANGED <<archive, open, pending, facts, repo, driver, cycles, published, owed, disturbed>>

SwitchFacts ==
  /\ budget.switches > 0
  /\ budget' = [budget EXCEPT !.switches = @ - 1]
  /\ facts' = ~facts
  /\ disturbed' = (disturbed \/ Unfinished # {})
  /\ UNCHANGED <<control, repo, driver, cycles, published, owed, exposed>>

Cycle ==
  \/ Begin \/ ReadRecovery \/ Settle \/ SettleRaises \/ Sync \/ Plan \/ ReadDrift
  \/ Schedule \/ Record \/ Publish \/ Commit \/ Stamp
  \/ \E p \in Pages : Quarantine(p)

Next ==
  \/ Cycle \/ Fail \/ SwitchFacts
  \/ \E p \in Pages, e \in Edits \cup Garbled : Edit(p, e)
  \/ \E p \in Pages : \/ MarkStale(p) \/ Resume(p) \/ Adopt(p) \/ Convert(p)
                      \/ Retire(p) \/ Handover(p)

Spec == Init /\ [][Next]_vars

-----------------------------------------------------------------------------
(* Properties.                                                             *)

(* What Postgres calls a page's live body has been in the repository: no   *)
(* crash between recording, publishing and committing makes readers be     *)
(* told of a body that was never published.                                *)
NothingLiveIsUnpublished ==
  \A p \in Pages : page[p].hash # None => page[p].hash \in published

Kept == archive \cup {head[p] : p \in Pages} \cup UNION {sidecars[p] : p \in Pages}

(* An edit that is UTF-8 text, committed while no cycle has the repository *)
(* open to a page the driver watches, is still there or has been set       *)
(* aside, whatever cycles, crashes, reviews and changes of ownership come  *)
(* after it.                                                               *)
EditsSurvive == owed \ exposed \subseteq Kept

(* "An author's work is never destroyed; it is moved to where it survives  *)
(* regeneration": also when it was committed beside an open clone.         *)
AuthorsWorkSurvives == owed \subseteq Kept

(* A cycle that died between publishing and committing is recovered: its   *)
(* prose is taken for somebody's edit only when a page of it was edited,   *)
(* retired or made an author's, or the facts layer switched, before the    *)
(* next cycle saw it.                                                      *)
PublishedIsRecovered == ~disturbed => archive \subseteq Edits

=============================================================================
