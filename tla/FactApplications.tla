--------------------------- MODULE FactApplications ---------------------------
(***************************************************************************)
(* Facts and the testimony under them.  Every assertion a claim makes is   *)
(* one application to the facts about its subject: an existing fact or a   *)
(* new one, decided by a model that is shown the subject's open facts.     *)
(* Units of work drain the applications of a subject: prepare the head of  *)
(* its stream, ask the model outside any transaction, publish the answer,  *)
(* and apply it if what the model was shown is still what there is.        *)
(*                                                                         *)
(* Against the drains run reconciliations, which withdraw the testimony of *)
(* a superseded or deleted version, recount the facts it supported and     *)
(* close those left without support, each of these in a transaction of its *)
(* own; and merges and unmerges of entities, which join and split streams. *)
(*                                                                         *)
(* The transaction that applies an answer holds the locks of the subject,  *)
(* of the claims and of the facts it validated from its validation to its  *)
(* commit; it is two steps here, every other transaction is one.           *)
(*                                                                         *)
(* Facts are compared by the model's answer alone: statements, windows,    *)
(* objects, contradiction groups, context bindings and the limits on what  *)
(* the model is shown are left out, and every assertion supports.  A       *)
(* decision creates at most one fact and moves the support of at most one  *)
(* earlier assertion.                                                      *)
(***************************************************************************)
EXTENDS Integers, FiniteSets

CONSTANTS
  Apps,           \* fact_applications, registered by normalization
  Claims,
  Docs,
  Entities,
  Units,          \* obs_flush_entity_units of all versions
  Drainers,       \* worker slots that run their rows
  Runs,           \* reconciliations and deletions
  ClaimOf,        \* the claim that makes an assertion
  SubjectOf,      \* its subject, as normalization resolved it
  Rank,           \* its place in source order
  DocOf,          \* the lineage of a claim
  MembersOf,      \* the applications staged for a unit
  SubjectOfUnit,
  Ends,           \* the claims whose testimony a run ends
  Regains,        \* the claims a run makes current again
  Merges,         \* the merges proposed: <<survivor, absorbed>>
  ReplaysLedger,  \* runs that start from the ledger of their earlier attempts
  Interruptible,  \* runs that may be interrupted
  MaxFailures,    \* bound on failures, stalls, deaths and interruptions
  MaxMerges,      \* bound on merges
  None

ASSUME ApplicationAssumption ==
  /\ IsFiniteSet(Apps) /\ IsFiniteSet(Docs) /\ IsFiniteSet(Drainers)
  /\ ClaimOf \in [Apps -> Claims]
  /\ SubjectOf \in [Apps -> Entities]
  /\ Rank \in [Apps -> Nat]
  /\ \A a, b \in Apps : Rank[a] = Rank[b] => a = b
  /\ DocOf \in [Claims -> Docs]
  /\ MembersOf \in [Units -> SUBSET Apps]
  /\ SubjectOfUnit \in [Units -> Entities]
  /\ \A u \in Units : \A a \in MembersOf[u] : SubjectOf[a] = SubjectOfUnit[u]
  /\ Ends \in [Runs -> SUBSET Claims]
  /\ Regains \in [Runs -> SUBSET Claims]
  /\ ReplaysLedger \subseteq Runs /\ Interruptible \subseteq Runs
  /\ Merges \subseteq Entities \X Entities
  /\ MaxFailures \in Nat /\ MaxMerges \in Nat
  /\ None \notin Apps \cup Entities \cup Units
  /\ Drainers \cap {"absent", "pending", "dead", "done"} = {}

(* new_fact_id: a fact is named after the application that creates it. *)
Facts == Apps

VARIABLES
  unit,      \* row of each unit: absent, pending, its drainer, done or dead
  drainer,   \* where each slot is in its drain
  admission, \* admission_sequence of each application, 0 if not admitted
  attempt,   \* attempt of each application: its id, its inputs, its answer
  applied,   \* applications with a receipt
  support,   \* the fact each applied assertion supports
  facts,     \* state of each fact: none, open, closed (invalidated_at)
  about,     \* the entity a fact is about
  evidence,  \* relation_evidence, observation_evidence: <<fact, claim>>
  count,     \* evidence_count
  current,   \* claims that are current testimony
  merged,    \* merged_into
  run,       \* where each reconciliation is
  ledger,    \* testimony_currency_events: claims whose currency a run changed
  disturbed  \* the failures, stalls, deaths and interruptions so far, and the merges

factVars == <<support, facts, about, evidence, count>>
workVars == <<admission, attempt, applied>>
vars == <<unit, drainer, workVars, factVars, current, merged, run, ledger, disturbed>>

-----------------------------------------------------------------------------
(* Identity *)

(* canonical_entity: where merged_into ends, which is in every set that has e
   and what its entities were merged into; and entity_members. *)
Followed(S) == \A e \in S : merged[e] = None \/ merged[e] \in S
Root(e) ==
  IF merged[e] = None THEN e
  ELSE CHOOSE r \in Entities :
          merged[r] = None /\ \A S \in SUBSET Entities : e \in S /\ Followed(S) => r \in S
Members(r) == {e \in Entities : Root(e) = r}

-----------------------------------------------------------------------------
(* What the model is shown *)

OpenFacts(members) == {f \in Facts : facts[f] = "open" /\ about[f] \in members}

(* application_snapshot, which snapshot_hash covers.  What is shown is that of
   all entities of the subject, but which entities they are is not part of it. *)
Snapshot(a) ==
  LET members == Members(Root(SubjectOf[a]))
      shown   == OpenFacts(members)
      about_  == {p \in evidence : p[1] \in shown}
      others  == {b \in applied : support[b] \in shown}
  IN  [root       |-> Root(SubjectOf[a]),
       assertions |-> {b \in others : SubjectOf[b] \in members},
       facts      |-> {<<f, count[f]>> : f \in shown},
       evidence   |-> about_,
       support    |-> {<<b, support[b]>> : b \in others},
       current    |-> current \cap ({ClaimOf[a]} \cup {p[2] : p \in about_})]

FactsIn(inputs)     == {p[1] : p \in inputs.facts}
ClaimsIn(a, inputs) == {ClaimOf[a]} \cup {p[2] : p \in inputs.evidence}

(* What a decision may do with the inputs it is made for (validate_application_scope):
   name a fact as target, and move one of the subject's assertions it is shown.  An
   answer that is out of scope is refused when it is applied. *)
Moves(a, inputs) ==
  {<<p[1], f>> : p \in {q \in inputs.support : q[1] \in inputs.assertions},
                 f \in FactsIn(inputs) \cup {a}}
     \ inputs.support
Answers(a, inputs) ==
  [asked : {inputs}, target : FactsIn(inputs) \cup {a},
   moves : {{}} \cup {{m} : m \in Moves(a, inputs)}]
OutOfScope(inputs) == [asked |-> inputs, target |-> None, moves |-> {}]
Decided(a, dec)    == dec # None /\ dec.target \in FactsIn(dec.asked) \cup {a}

(* With no open fact to compare with, a new one is the only answer. *)
SoleNewFact(a, inputs) ==
  IF inputs.facts = {} THEN [asked |-> inputs, target |-> a, moves |-> {}] ELSE None

NoAttempt == [id |-> 0, inputs |-> None, decision |-> None]
Idle      == [pc |-> "idle", unit |-> None, app |-> None, id |-> 0, inputs |-> None]

-----------------------------------------------------------------------------
(* The locks of the transactions that apply *)

Applying       == {d \in Drainers : drainer[d].pc = "commit"}
InputsOf(d)    == attempt[drainer[d].app].inputs
LockedRoots    == {InputsOf(d).root : d \in Applying}
LockedFacts    == UNION {FactsIn(InputsOf(d)) : d \in Applying}
NoClaimLocks   == {}   \* mutant
LockedClaims   == UNION {ClaimsIn(drainer[d].app, InputsOf(d)) : d \in Applying}

(* A drain takes the lock of its canonical subject, and the locks of what the
   application at its head is compared with. *)
Unlocked(e, a) ==
  /\ Root(e) \notin LockedRoots
  /\ a # None => ClaimsIn(a, Snapshot(a)) \cap LockedClaims = {}

-----------------------------------------------------------------------------
(* Units *)

Trouble ==
  /\ disturbed.failures < MaxFailures
  /\ disturbed' = [disturbed EXCEPT !.failures = @ + 1]

(* The normalize barrier of a version inserts its units. *)
OpenUnit(u) ==
  /\ unit[u] = "absent"
  /\ unit' = [unit EXCEPT ![u] = "pending"]
  /\ UNCHANGED <<drainer, workVars, factVars, current, merged, run, ledger, disturbed>>

ClaimUnit(d, u) ==
  /\ drainer[d].pc = "idle"
  /\ unit[u] = "pending"
  /\ unit' = [unit EXCEPT ![u] = d]
  /\ drainer' = [drainer EXCEPT ![d] = [Idle EXCEPT !.pc = "drain", !.unit = u]]
  /\ UNCHANGED <<workVars, factVars, current, merged, run, ledger, disturbed>>

(* The lease expires under a drainer that is gone, or that only stalls. *)
Reap(u) ==
  /\ unit[u] \in Drainers
  /\ IF drainer[unit[u]].unit = u THEN Trouble ELSE UNCHANGED disturbed
  /\ \E next \in {"pending", "dead"} : unit' = [unit EXCEPT ![u] = next]
  /\ UNCHANGED <<drainer, workVars, factVars, current, merged, run, ledger>>

(* The handler raises: the row is retried, or its attempts are used up. *)
Raise(d) ==
  /\ drainer' = [drainer EXCEPT ![d] = Idle]
  /\ \E next \in {"pending", "dead"} :
        unit' = [u \in Units |-> IF u = drainer[d].unit /\ unit[u] = d THEN next ELSE unit[u]]

DrainerDies(d) ==
  /\ drainer[d].pc # "idle"
  /\ Trouble
  /\ drainer' = [drainer EXCEPT ![d] = Idle]
  /\ UNCHANGED <<unit, workVars, factVars, current, merged, run, ledger>>

Replay(u) ==
  /\ unit[u] = "dead"
  /\ unit' = [unit EXCEPT ![u] = "pending"]
  /\ UNCHANGED <<drainer, workVars, factVars, current, merged, run, ledger, disturbed>>

UnfencedCompleteUnit(d) ==   \* mutant
  /\ drainer[d].pc = "drained"
  /\ unit' = [unit EXCEPT ![drainer[d].unit] = "done"]
  /\ drainer' = [drainer EXCEPT ![d] = Idle]
  /\ UNCHANGED <<workVars, factVars, current, merged, run, ledger, disturbed>>
CompleteUnit(d) ==
  /\ drainer[d].pc = "drained"
  /\ unit' = [u \in Units |-> IF u = drainer[d].unit /\ unit[u] = d THEN "done" ELSE unit[u]]
  /\ drainer' = [drainer EXCEPT ![d] = Idle]
  /\ UNCHANGED <<workVars, factVars, current, merged, run, ledger, disturbed>>

-----------------------------------------------------------------------------
(* Draining a subject *)

(* admit_head: number the eligible applications of the stream in source order,
   then take the lowest number that is not applied. *)
Eligible(a) ==
  \E u \in Units : a \in MembersOf[u] /\ unit[u] \notin {"absent", "dead"}
AdmitByRank(members) ==   \* mutant
  LET new  == {a \in Apps \ applied :
                 SubjectOf[a] \in members /\ admission[a] = 0 /\ Eligible(a)}
      last == Cardinality({a \in Apps : admission[a] # 0})
  IN  [a \in Apps |-> IF a \in new THEN last + Rank[a] ELSE admission[a]]
Admit(members) ==
  LET new  == {a \in Apps \ applied :
                 SubjectOf[a] \in members /\ admission[a] = 0 /\ Eligible(a)}
      last == Cardinality({a \in Apps : admission[a] # 0})
  IN  [a \in Apps |-> IF a \in new
                      THEN last + Cardinality({b \in new : Rank[b] <= Rank[a]})
                      ELSE admission[a]]
Heads(members, adm) ==
  {a \in Apps \ applied :
     /\ SubjectOf[a] \in members /\ adm[a] # 0
     /\ \A b \in Apps \ applied :
           SubjectOf[b] \in members /\ adm[b] # 0 => adm[a] <= adm[b]}

FreshId(a) ==
  LET used == {attempt[a].id} \cup {drainer[d].id : d \in {x \in Drainers : drainer[x].app = a}}
      free == (1..(Cardinality(Drainers) + 2)) \ used
  IN  CHOOSE i \in free : \A j \in free : i <= j

PrepareAfresh(d, a) ==   \* mutant
  LET inputs == Snapshot(a)
      next   == [id |-> FreshId(a), inputs |-> inputs, decision |-> SoleNewFact(a, inputs)]
  IN  /\ attempt' = [attempt EXCEPT ![a] = next]
      /\ drainer' = [drainer EXCEPT ![d] =
                       IF next.decision = None
                       THEN [@ EXCEPT !.pc = "ask", !.app = a, !.id = next.id, !.inputs = inputs]
                       ELSE [@ EXCEPT !.pc = "apply", !.app = a]]
(* prepare: keep the attempt whose inputs still hold, or make a new one. *)
PrepareHead(d, a) ==
  LET inputs == Snapshot(a)
      next   == IF attempt[a].id # 0 /\ attempt[a].inputs = inputs THEN attempt[a]
                ELSE [id |-> FreshId(a), inputs |-> inputs, decision |-> SoleNewFact(a, inputs)]
  IN  /\ attempt' = [attempt EXCEPT ![a] = next]
      /\ drainer' = [drainer EXCEPT ![d] =
                       IF next.decision = None
                       THEN [@ EXCEPT !.pc = "ask", !.app = a, !.id = next.id, !.inputs = inputs]
                       ELSE [@ EXCEPT !.pc = "apply", !.app = a]]

Prepare(d) ==
  LET e == SubjectOfUnit[drainer[d].unit]
  IN  /\ drainer[d].pc = "drain"
      /\ LET adm   == Admit(Members(Root(e)))
             heads == Heads(Members(Root(e)), adm)
         IN  /\ admission' = adm
             /\ \/ /\ heads = {}
                   /\ Unlocked(e, None)
                   /\ drainer' = [drainer EXCEPT ![d].pc = "drained"]
                   /\ UNCHANGED attempt
                \/ \E a \in heads : Unlocked(e, a) /\ PrepareHead(d, a)
      /\ UNCHANGED <<unit, applied, factVars, current, merged, run, ledger, disturbed>>

Back(d) == drainer' = [drainer EXCEPT ![d] = [Idle EXCEPT !.pc = "drain", !.unit = drainer[d].unit]]

(* The model answers what it was asked; publish_decision takes the answer only for
   the attempt it was asked for, if nobody answered that before. *)
MatchesLate(d, a) ==   \* mutant
  a \notin applied /\ attempt[a].id # 0 /\ attempt[a].decision = None /\ d \in Drainers
Matches(d, a) ==
  /\ a \notin applied
  /\ attempt[a].id = drainer[d].id /\ attempt[a].inputs = drainer[d].inputs
  /\ attempt[a].decision = None

Publish(d, dec) ==
  LET a == drainer[d].app
  IN  IF Matches(d, a)
      THEN /\ attempt' = [attempt EXCEPT ![a].decision = dec]
           /\ drainer' = [drainer EXCEPT ![d] = [Idle EXCEPT !.pc = "apply", !.app = a,
                                                              !.unit = drainer[d].unit]]
      ELSE Back(d) /\ UNCHANGED attempt
PublishAnswer(d) ==
  /\ drainer[d].pc = "ask"
  /\ \/ /\ \E dec \in Answers(drainer[d].app, drainer[d].inputs) : Publish(d, dec)
        /\ UNCHANGED disturbed
     \/ Publish(d, OutOfScope(drainer[d].inputs)) /\ Trouble
  /\ UNCHANGED <<unit, admission, applied, factVars, current, merged, run, ledger>>

ProviderFails(d) ==
  /\ drainer[d].pc = "ask"
  /\ Trouble
  /\ Raise(d)
  /\ UNCHANGED <<workVars, factVars, current, merged, run, ledger>>

(* apply, up to its final validation: an answer that comes too late, or that was
   given to other inputs, is dropped and the stream prepared again; one that is out
   of scope fails the drain. *)
BeginApply(d) ==
  LET a       == drainer[d].app
      members == Members(Root(SubjectOfUnit[drainer[d].unit]))
      adm     == Admit(members)
      answer  == attempt[a].decision
      late    == a \notin Heads(members, adm) \/ answer = None
      holds   == attempt[a].inputs = Snapshot(a)
  IN  /\ drainer[d].pc = "apply"
      /\ Unlocked(SubjectOfUnit[drainer[d].unit], a)
      /\ \/ /\ a \in applied
            /\ Back(d)
            /\ UNCHANGED <<unit, admission, attempt>>
         \/ /\ a \notin applied
            /\ admission' = adm
            /\ \/ /\ late
                  /\ Back(d)
                  /\ UNCHANGED <<unit, attempt>>
               \/ /\ ~late /\ ~holds
                  /\ attempt' = [attempt EXCEPT ![a] = NoAttempt]
                  /\ Back(d)
                  /\ UNCHANGED unit
               \/ /\ ~late /\ holds /\ ~Decided(a, answer)
                  /\ attempt' = [attempt EXCEPT ![a] = NoAttempt]
                  /\ Raise(d)
               \/ /\ ~late /\ holds /\ Decided(a, answer)
                  /\ drainer' = [drainer EXCEPT ![d].pc = "commit"]
                  /\ UNCHANGED <<attempt, unit>>
      /\ UNCHANGED <<applied, factVars, current, merged, run, ledger, disturbed>>

(* _recount_fact: the lineages whose current claims support f. *)
Supporters(f, ev, now) ==
  Cardinality({DocOf[c] : c \in {x \in now : <<f, x>> \in ev}})

(* The links that a decision's new pointers touch. *)
TouchedTargets(a, dec) ==   \* mutant
  {<<dec.target, ClaimOf[a]>>} \cup {<<m[2], ClaimOf[m[1]]>> : m \in dec.moves}
Touched(a, dec) ==
  {<<dec.target, ClaimOf[a]>>}
    \cup UNION {{<<support[m[1]], ClaimOf[m[1]]>>, <<m[2], ClaimOf[m[1]]>>} : m \in dec.moves}

(* apply_fact_decision *)
CommitApply(d) ==
  LET a     == drainer[d].app
      dec   == attempt[a].decision
      links == Touched(a, dec)
      made  == {a} \cap ({dec.target} \cup {m[2] : m \in dec.moves})
  IN  /\ drainer[d].pc = "commit"
      /\ facts' = [f \in Facts |-> IF f \in made THEN "open" ELSE facts[f]]
      /\ about' = [f \in Facts |-> IF f \in made THEN dec.asked.root ELSE about[f]]
      /\ support' = [b \in Apps |-> IF b = a THEN dec.target
                                    ELSE IF \E m \in dec.moves : m[1] = b
                                    THEN (CHOOSE m \in dec.moves : m[1] = b)[2]
                                    ELSE support[b]]
      /\ evidence' = (evidence \ links)
                       \cup {p \in links : \E b \in applied \cup {a} :
                                              support'[b] = p[1] /\ ClaimOf[b] = p[2]}
      /\ count' = [f \in Facts |-> IF f \in {p[1] : p \in links} \cup made
                                   THEN Supporters(f, evidence', current) ELSE count[f]]
      /\ applied' = applied \cup {a}
      /\ attempt' = [attempt EXCEPT ![a] = NoAttempt]
      /\ Back(d)
      /\ UNCHANGED <<unit, admission, current, merged, run, ledger, disturbed>>

DrainStep(d) ==
  \/ Prepare(d)
  \/ PublishAnswer(d)
  \/ BeginApply(d)
  \/ CommitApply(d)
  \/ CompleteUnit(d)

-----------------------------------------------------------------------------
(* Identity changes: under the exclusive identity lock, so beside no open
   application. *)

Merge(survivor, absorbed) ==
  /\ Applying = {}
  /\ disturbed.merges < MaxMerges
  /\ disturbed' = [disturbed EXCEPT !.merges = @ + 1]
  /\ merged[absorbed] = None
  /\ Root(absorbed) # Root(survivor)
  /\ merged' = [merged EXCEPT ![absorbed] = Root(survivor)]
  /\ UNCHANGED <<unit, drainer, workVars, factVars, current, run, ledger>>

Unmerge(absorbed) ==
  /\ Applying = {}
  /\ merged[absorbed] # None
  /\ merged' = [merged EXCEPT ![absorbed] = None]
  /\ UNCHANGED <<unit, drainer, workVars, factVars, current, run, ledger, disturbed>>

-----------------------------------------------------------------------------
(* Reconciliations: ReconcileHandler.handle and _cascade_run.  Which claims a
   version's completion or deletion ends is ProcessingLayers' subject, here it is
   given. *)

NotStarted == [pc |-> "idle", ends |-> {}, gains |-> {}, claims |-> {}, scope |-> {}, zero |-> {}]
RunAt(r, pc) == run[r].pc = pc

(* stale_for_supersession and its kin_by_current_version *)
ReadStale(r) ==
  /\ RunAt(r, "idle")
  /\ run' = [run EXCEPT ![r] = [NotStarted EXCEPT !.pc    = "read",
                                                  !.ends  = Ends[r] \cap current,
                                                  !.gains = Regains[r] \ current]]
  /\ UNCHANGED <<unit, drainer, workVars, factVars, current, merged, ledger, disturbed>>

LateTransition(r) ==   \* mutant
  LET flipped == run[r].ends \cup run[r].gains
  IN  /\ RunAt(r, "read")
      /\ flipped \cap LockedClaims = {}
      /\ current' = (current \ run[r].ends) \cup run[r].gains
      /\ ledger' = [ledger EXCEPT ![r] = @ \cup flipped]
      /\ run' = [run EXCEPT ![r].pc = "moved", ![r].claims = flipped]
      /\ UNCHANGED <<unit, drainer, workVars, factVars, merged, disturbed>>
(* apply_transitions; a handler's retry adds what its ledger holds. *)
ApplyTransitions(r) ==
  LET flipped == run[r].ends \cup run[r].gains
  IN  /\ RunAt(r, "read")
      /\ flipped \cap LockedClaims = {}
      /\ current' = (current \ run[r].ends) \cup run[r].gains
      /\ ledger' = [ledger EXCEPT ![r] = @ \cup flipped]
      /\ run' = [run EXCEPT ![r].pc = "moved",
                            ![r].claims = flipped \cup
                               (IF r \in ReplaysLedger THEN ledger[r] ELSE {})]
      /\ UNCHANGED <<unit, drainer, workVars, factVars, merged, disturbed>>

ReadAffected(r) ==
  /\ RunAt(r, "moved")
  /\ run' = [run EXCEPT ![r].pc = "affected",
                        ![r].scope = {f \in Facts : \E c \in run[r].claims : <<f, c>> \in evidence}]
  /\ UNCHANGED <<unit, drainer, workVars, factVars, current, merged, ledger, disturbed>>

Recount(r) ==
  /\ RunAt(r, "affected")
  /\ run[r].scope \cap LockedFacts = {}
  /\ count' = [f \in Facts |-> IF f \in run[r].scope THEN Supporters(f, evidence, current)
                               ELSE count[f]]
  /\ run' = [run EXCEPT ![r].pc = "counted"]
  /\ UNCHANGED <<unit, drainer, workVars, support, facts, about, evidence, current, merged,
                 ledger, disturbed>>

ReadZeroSupport(r) ==
  /\ RunAt(r, "counted")
  /\ run' = [run EXCEPT ![r].pc = "zero",
                        ![r].zero = {f \in run[r].scope : facts[f] = "open" /\ count[f] = 0}]
  /\ UNCHANGED <<unit, drainer, workVars, factVars, current, merged, ledger, disturbed>>

UncheckedCloseFacts(r) ==   \* mutant
  /\ RunAt(r, "zero")
  /\ run[r].zero \cap LockedFacts = {}
  /\ facts' = [f \in Facts |-> IF f \in run[r].zero THEN "closed" ELSE facts[f]]
  /\ run' = [run EXCEPT ![r] = [NotStarted EXCEPT !.pc = "done"]]
  /\ UNCHANGED <<unit, drainer, workVars, support, about, evidence, count, current, merged,
                 ledger, disturbed>>
(* close_relations, close_observations: the count is tested again. *)
CloseFacts(r) ==
  /\ RunAt(r, "zero")
  /\ run[r].zero \cap LockedFacts = {}
  /\ facts' = [f \in Facts |-> IF f \in run[r].zero /\ count[f] = 0 THEN "closed" ELSE facts[f]]
  /\ run' = [run EXCEPT ![r] = [NotStarted EXCEPT !.pc = "done"]]
  /\ UNCHANGED <<unit, drainer, workVars, support, about, evidence, count, current, merged,
                 ledger, disturbed>>

(* The process dies, or a step raises, and the run starts again. *)
Interrupted(r) ==
  /\ r \in Interruptible
  /\ run[r].pc \notin {"idle", "done"}
  /\ Trouble
  /\ run' = [run EXCEPT ![r] = NotStarted]
  /\ UNCHANGED <<unit, drainer, workVars, factVars, current, merged, ledger>>

-----------------------------------------------------------------------------
Init ==
  /\ unit = [u \in Units |-> "absent"]
  /\ drainer = [d \in Drainers |-> Idle]
  /\ admission = [a \in Apps |-> 0]
  /\ attempt = [a \in Apps |-> NoAttempt]
  /\ applied = {}
  /\ support = [a \in Apps |-> None]
  /\ facts = [f \in Facts |-> "none"]
  /\ about = [f \in Facts |-> None]
  /\ evidence = {}
  /\ count = [f \in Facts |-> 0]
  /\ current = Claims \ UNION {Regains[r] : r \in Runs}
  /\ merged = [e \in Entities |-> None]
  /\ run = [r \in Runs |-> NotStarted]
  /\ ledger = [r \in Runs |-> {}]
  /\ disturbed = [failures |-> 0, merges |-> 0]

Next ==
  \/ \E u \in Units : OpenUnit(u) \/ Reap(u) \/ Replay(u)
  \/ \E d \in Drainers, u \in Units : ClaimUnit(d, u)
  \/ \E d \in Drainers : DrainStep(d) \/ ProviderFails(d) \/ DrainerDies(d)
  \/ \E m \in Merges : Merge(m[1], m[2])
  \/ \E e \in Entities : Unmerge(e)
  \/ \E r \in Runs :
       \/ ReadStale(r) \/ ApplyTransitions(r) \/ ReadAffected(r) \/ Recount(r)
       \/ ReadZeroSupport(r) \/ CloseFacts(r) \/ Interrupted(r)

Spec == Init /\ [][Next]_vars

(* A live drainer goes on, a pending unit is claimed, an orphaned one swept. *)
FairSpec ==
  /\ Spec
  /\ \A d \in Drainers : WF_vars(DrainStep(d))
  /\ \A u \in Units : WF_vars(\E d \in Drainers : ClaimUnit(d, u)) /\ WF_vars(Reap(u))

-----------------------------------------------------------------------------
(* Properties *)

TypeOK ==
  /\ unit \in [Units -> {"absent", "pending", "dead", "done"} \cup Drainers]
  /\ \A d \in Drainers :
       /\ drainer[d].pc \in {"idle", "drain", "ask", "apply", "commit", "drained"}
       /\ drainer[d].unit \in Units \cup {None}
       /\ drainer[d].app \in Apps \cup {None}
       /\ drainer[d].pc \in {"ask", "apply", "commit"} => drainer[d].app # None
  /\ admission \in [Apps -> 0..Cardinality(Apps)]
  /\ \A a \in Apps : attempt[a].id \in 0..(Cardinality(Drainers) + 2)
  /\ applied \subseteq Apps
  /\ support \in [Apps -> Facts \cup {None}]
  /\ facts \in [Facts -> {"none", "open", "closed"}]
  /\ about \in [Facts -> Entities \cup {None}]
  /\ evidence \subseteq Facts \X Claims
  /\ count \in [Facts -> 0..Cardinality(Docs)]
  /\ current \subseteq Claims
  /\ merged \in [Entities -> Entities \cup {None}]
  /\ ledger \in [Runs -> SUBSET Claims]

(* publish_decision and apply: an application is applied as the model answered,
   and the answer was to the canonical subject, its open facts, their support and
   testimony and the assertions that may be moved, as they are when it is committed,
   whoever else drained, withdrew or merged since it was asked.  A merge that adds
   none of these to what is shown leaves the answer valid. *)
AnswersFitTheirInputs ==
  [][\A a \in applied' \ applied : attempt[a].decision.asked = Snapshot(a)]_vars

(* apply_fact_decision and recount: a fact's count is the number of lineages whose
   current claims assert it, or a run that changed the currency of one of its
   claims has yet to finish. *)
Asserting(f) ==
  Cardinality({DocOf[ClaimOf[a]] : a \in {b \in applied : support[b] = f /\ ClaimOf[b] \in current}})
CountsSettle ==
  \A f \in Facts : count[f] = Asserting(f) \/
    \E r \in Runs : /\ run[r].pc # "done"
                    /\ \E a \in applied : support[a] = f /\ ClaimOf[a] \in ledger[r]

(* close_relations, close_observations against apply: no fact is closed over the
   head of a current assertion that lands on it, and none lands on a closed fact. *)
ClosedFactsHaveNoSupport ==
  \A a \in applied : facts[support[a]] = "closed" => ClaimOf[a] \notin current

(* The flush barrier counts on it: a unit that succeeded has left none of its
   applications behind, whoever applied them. *)
DoneMeansApplied == \A u \in Units : unit[u] = "done" => MembersOf[u] \subseteq applied

(* Every unit is drained or dead-lettered: drains that share a subject do not
   keep each other from finishing. *)
UnitsSettle == \A u \in Units : (unit[u] = "pending") ~> (unit[u] \in {"done", "dead"})
=============================================================================
