------------------------ MODULE FactApplicationsProofs ------------------------
(***************************************************************************)
(* Proofs about fact applications, for any assertions, units, drains,      *)
(* reconciliations and merges.                                             *)
(*                                                                         *)
(* A drain that has validated its answer holds locks until it commits.     *)
(* The argument is that these locks are enough: what the model was shown   *)
(* are the open facts about the entities merged into one root, and what    *)
(* supports them.  Another drain commits under another root, so it makes   *)
(* and moves support between other facts; a recount or a closing spares    *)
(* the locked facts, a change of currency the locked claims, and a merge   *)
(* waits.  That roots tell facts apart needs redirects to end: a merge     *)
(* redirects a root to another root, so no cycle of redirects arises.      *)
(*                                                                         *)
(* Counts are recomputed in transactions of their own, after the change    *)
(* of testimony that made them stale.  Until then the run that made it     *)
(* owes the recount, and what it owes it finds again: the fact is linked   *)
(* to a claim in its ledger.                                               *)
(***************************************************************************)
EXTENDS FactApplications, FiniteSetTheorems, NaturalFacts, TLAPS

-----------------------------------------------------------------------------
(* Redirects                                                               *)

(* Every set of entities that is followed has one that is not merged.      *)
RedirectsEnd ==
  \A S \in SUBSET Entities : S # {} /\ Followed(S) => \E r \in S : merged[r] = None

MergedType == merged \in [Entities -> Entities \cup {None}]

IsRoot(r, e) ==
  /\ r \in Entities /\ merged[r] = None
  /\ \A S \in SUBSET Entities : e \in S /\ Followed(S) => r \in S

LEMMA RootIsRoot ==
  ASSUME RedirectsEnd, MergedType, NEW e \in Entities
  PROVE  IsRoot(Root(e), e)
<1> DEFINE C == {x \in Entities : \A S \in SUBSET Entities : e \in S /\ Followed(S) => x \in S}
<1>1. e \in C /\ C \in SUBSET Entities
  OBVIOUS
<1>2. Followed(C)
  BY DEF Followed, MergedType
<1>3. PICK r \in C : merged[r] = None
  BY <1>1, <1>2 DEF RedirectsEnd
<1>4. \E x \in Entities :
        merged[x] = None /\ \A S \in SUBSET Entities : e \in S /\ Followed(S) => x \in S
  BY <1>3
<1>5. CASE merged[e] = None
  BY <1>5 DEF IsRoot, Root
<1>6. CASE merged[e] # None
  BY <1>4, <1>6 DEF IsRoot, Root
<1> QED
  BY <1>5, <1>6

(* A root is its own root.                                                 *)
LEMMA RootOfRoot ==
  ASSUME RedirectsEnd, MergedType, NEW e \in Entities
  PROVE  Root(e) \in Entities /\ merged[Root(e)] = None /\ Root(Root(e)) = Root(e)
<1>1. Root(e) \in Entities /\ merged[Root(e)] = None
  BY RootIsRoot DEF IsRoot
<1>2. Followed({Root(e)})
  BY <1>1 DEF Followed
<1>3. IsRoot(Root(Root(e)), Root(e))
  BY <1>1, RootIsRoot
<1> QED
  BY <1>1, <1>2, <1>3 DEF IsRoot

LEMMA MergeEnds ==
  ASSUME RedirectsEnd, MergedType, ApplicationAssumption,
         NEW s \in Entities, NEW b \in Entities, Merge(s, b)
  PROVE  RedirectsEnd' /\ MergedType'
<1>1. /\ Root(s) \in Entities /\ merged[Root(s)] = None
      /\ Root(b) # Root(s) /\ merged[b] = None
      /\ merged' = [merged EXCEPT ![b] = Root(s)]
  BY RootOfRoot DEF Merge
<1>2. Root(b) = b
  <2>1. Followed({b}) /\ IsRoot(Root(b), b)
    BY <1>1, RootIsRoot DEF Followed
  <2> QED
    BY <2>1 DEF IsRoot
<1>3. \A e \in Entities : merged'[e] = IF e = b THEN Root(s) ELSE merged[e]
  BY <1>1 DEF MergedType
<1>4. ASSUME NEW S \in SUBSET Entities, S # {}, Followed(S)'
      PROVE  \E r \in S : merged'[r] = None
  <2>1. CASE b \in S
    <3>1. Root(s) \in S /\ Root(s) # b
      BY <1>1, <1>2, <1>3, <1>4, <2>1, RootOfRoot DEF Followed, ApplicationAssumption
    <3> QED
      BY <1>1, <1>3, <3>1
  <2>2. CASE b \notin S
    <3>1. Followed(S)
      BY <1>3, <1>4, <2>2 DEF Followed
    <3> QED
      BY <1>3, <1>4, <2>2, <3>1 DEF RedirectsEnd
  <2> QED
    BY <2>1, <2>2
<1> QED
  BY <1>1, <1>4 DEF RedirectsEnd, MergedType

LEMMA UnmergeEnds ==
  ASSUME RedirectsEnd, MergedType, NEW b \in Entities, Unmerge(b)
  PROVE  RedirectsEnd' /\ MergedType'
<1>1. \A e \in Entities : merged'[e] = IF e = b THEN None ELSE merged[e]
  BY DEF Unmerge, MergedType
<1>2. ASSUME NEW S \in SUBSET Entities, S # {}, Followed(S)'
      PROVE  \E r \in S : merged'[r] = None
  <2>1. CASE b \in S
    BY <1>1, <2>1
  <2>2. CASE b \notin S
    <3>1. Followed(S)
      BY <1>1, <1>2, <2>2 DEF Followed
    <3> QED
      BY <1>1, <1>2, <2>2, <3>1 DEF RedirectsEnd
  <2> QED
    BY <2>1, <2>2
<1> QED
  BY <1>2 DEF RedirectsEnd, MergedType, Unmerge

-----------------------------------------------------------------------------
(* The invariant                                                           *)

DrainerInv ==
  /\ DOMAIN drainer = Drainers
  /\ \A d \in Drainers :
       /\ DOMAIN drainer[d] = {"pc", "unit", "app", "id", "inputs"}
       /\ drainer[d].pc \in {"idle", "drain", "ask", "apply", "commit", "drained"}
       /\ drainer[d].pc # "idle" => drainer[d].unit \in Units
       /\ drainer[d].pc \in {"ask", "apply", "commit"} => drainer[d].app \in Apps

(* An answer belongs to the inputs of its attempt and moves support among  *)
(* what it was shown.                                                      *)
AttemptInv ==
  /\ DOMAIN attempt = Apps
  /\ \A a \in Apps :
       /\ DOMAIN attempt[a] = {"id", "inputs", "decision"}
       /\ attempt[a].decision # None =>
            /\ attempt[a].decision.asked = attempt[a].inputs
            /\ attempt[a].decision.moves \subseteq Moves(a, attempt[a].inputs)

Commits(d, a) == drainer[d].pc = "commit" /\ drainer[d].app = a

(* What an open transaction validated still holds.                         *)
CommitInv ==
  \A d \in Drainers, a \in Apps : Commits(d, a) =>
    /\ a \notin applied
    /\ Decided(a, attempt[a].decision)
    /\ attempt[a].inputs = Snapshot(a)

(* Open transactions are about different roots.                            *)
RootLocks ==
  \A c, d \in Drainers, a, b \in Apps :
    Commits(c, a) /\ Commits(d, b) /\ c # d => Root(SubjectOf[a]) # Root(SubjectOf[b])

(* An assertion that is not applied has made no fact.                      *)
UnmadeInv == applied \subseteq Apps /\ \A a \in Apps \ applied : facts[a] # "open"

FactInv ==
  /\ RedirectsEnd /\ MergedType
  /\ DrainerInv /\ AttemptInv /\ CommitInv /\ RootLocks /\ UnmadeInv

Shown(a) == OpenFacts(Members(Root(SubjectOf[a])))
ShownEvidence(a) == {p \in evidence : p[1] \in Shown(a)}
ShownApps(a) == {b \in applied : support[b] \in Shown(a)}
ShownSupport(a) == {<<b, support[b]>> : b \in ShownApps(a)}
Movable(a) == {b \in ShownApps(a) : SubjectOf[b] \in Members(Root(SubjectOf[a]))}
ShownClaims(a) == {ClaimOf[a]} \cup {p[2] : p \in ShownEvidence(a)}

LEMMA SnapshotParts ==
  ASSUME NEW a \in Apps
  PROVE  /\ Snapshot(a).root = Root(SubjectOf[a])
         /\ FactsIn(Snapshot(a)) = Shown(a)
         /\ ClaimsIn(a, Snapshot(a)) = ShownClaims(a)
         /\ Snapshot(a).support = ShownSupport(a)
<1>1. Snapshot(a) = [root     |-> Root(SubjectOf[a]),
                     assertions |-> Movable(a),
                     facts    |-> {<<f, count[f]>> : f \in Shown(a)},
                     evidence |-> ShownEvidence(a),
                     support  |-> ShownSupport(a),
                     current  |-> current \cap ShownClaims(a)]
  BY DEF Snapshot, Shown, ShownEvidence, ShownSupport, ShownClaims,
         ShownApps, Movable
<1> DEFINE counted == {<<f, count[f]>> : f \in Shown(a)}
<1>2. {p[1] : p \in counted} = Shown(a)
  <2>1. ASSUME NEW f \in Shown(a) PROVE \E p \in counted : p[1] = f
    <3>1. <<f, count[f]>> \in counted /\ <<f, count[f]>>[1] = f
      OBVIOUS
    <3> QED
      BY <3>1
  <2>2. ASSUME NEW p \in counted PROVE p[1] \in Shown(a)
    OBVIOUS
  <2> QED
    BY <2>1, <2>2
<1> QED
  BY <1>1, <1>2 DEF FactsIn, ClaimsIn, ShownClaims

(* The support a snapshot shows says which assertions it shows.            *)
LEMMA ShownAppsAre ==
  ASSUME NEW a \in Apps
  PROVE  ShownApps(a) = {q[1] : q \in ShownSupport(a)}
<1>1. ASSUME NEW b \in ShownApps(a) PROVE \E q \in ShownSupport(a) : q[1] = b
  <2>1. <<b, support[b]>> \in ShownSupport(a) /\ <<b, support[b]>>[1] = b
    BY DEF ShownSupport
  <2> QED
    BY <2>1
<1>2. ASSUME NEW q \in ShownSupport(a) PROVE q[1] \in ShownApps(a)
  BY DEF ShownSupport
<1> QED
  BY <1>1, <1>2

(* The snapshot an application would be given is unchanged.                *)
LEMMA SnapshotFrame ==
  ASSUME NEW a \in Apps, merged' = merged, Shown(a)' = Shown(a),
         \A f \in Shown(a) : count'[f] = count[f],
         ShownEvidence(a)' = ShownEvidence(a),
         ShownSupport(a)' = ShownSupport(a),
         current' \cap ShownClaims(a) = current \cap ShownClaims(a)
  PROVE  Snapshot(a)' = Snapshot(a)
<1>1. Root(SubjectOf[a])' = Root(SubjectOf[a])
  BY DEF Root, Followed
<1>2. Members(Root(SubjectOf[a]))' = Members(Root(SubjectOf[a]))
  BY <1>1 DEF Members, Root, Followed
<1>3. ShownClaims(a)' = ShownClaims(a)
  BY DEF ShownClaims
<1>4. {<<f, count'[f]>> : f \in Shown(a)'} = {<<f, count[f]>> : f \in Shown(a)}
  OBVIOUS
<1>7. ShownApps(a) = {q[1] : q \in ShownSupport(a)}
  BY ShownAppsAre
<1>8. ShownApps(a)' = {q[1] : q \in ShownSupport(a)'}
  <2>1. ASSUME NEW b \in ShownApps(a)' PROVE \E q \in ShownSupport(a)' : q[1] = b
    <3>1. <<b, support'[b]>> \in ShownSupport(a)' /\ <<b, support'[b]>>[1] = b
      BY DEF ShownSupport
    <3> QED
      BY <3>1
  <2>2. ASSUME NEW q \in ShownSupport(a)' PROVE q[1] \in ShownApps(a)'
    BY DEF ShownSupport
  <2> QED
    BY <2>1, <2>2
<1>9. Movable(a)' = Movable(a)
  BY <1>2, <1>7, <1>8 DEF Movable
<1>5. Snapshot(a) = [root     |-> Root(SubjectOf[a]),
                     assertions |-> Movable(a),
                     facts    |-> {<<f, count[f]>> : f \in Shown(a)},
                     evidence |-> ShownEvidence(a),
                     support  |-> ShownSupport(a),
                     current  |-> current \cap ShownClaims(a)]
  BY DEF Snapshot, Shown, ShownEvidence, ShownSupport, ShownClaims,
         ShownApps, Movable
<1>6. Snapshot(a)' = [root     |-> Root(SubjectOf[a])',
                      assertions |-> Movable(a)',
                      facts    |-> {<<f, count'[f]>> : f \in Shown(a)'},
                      evidence |-> ShownEvidence(a)',
                      support  |-> ShownSupport(a)',
                      current  |-> current' \cap ShownClaims(a)']
  BY DEF Snapshot, Shown, ShownEvidence, ShownSupport, ShownClaims,
         ShownApps, Movable
<1> QED
  BY <1>1, <1>3, <1>4, <1>5, <1>6, <1>9

LEMMA SnapshotSame ==
  ASSUME NEW a \in Apps, UNCHANGED <<factVars, applied, current, merged>>
  PROVE  Snapshot(a)' = Snapshot(a)
<1>1. Shown(a)' = Shown(a)
  BY DEF Shown, OpenFacts, Members, Root, Followed, factVars
<1>2. ShownEvidence(a)' = ShownEvidence(a) /\ ShownSupport(a)' = ShownSupport(a)
  BY <1>1 DEF ShownEvidence, ShownSupport, ShownApps, factVars
<1> QED
  BY <1>1, <1>2, SnapshotFrame DEF factVars

(* A step that opens no transaction and leaves those that are open what    *)
(* they validated.                                                         *)
LEMMA CommitFrame ==
  ASSUME FactInv, merged' = merged,
         \A d \in Drainers, a \in Apps : Commits(d, a)' =>
           /\ Commits(d, a) /\ a \notin applied'
           /\ attempt'[a] = attempt[a] /\ Snapshot(a)' = Snapshot(a)
  PROVE  CommitInv' /\ RootLocks'
<1>1. CommitInv'
  BY DEF FactInv, CommitInv, Decided
<1>2. \A a \in Apps : Root(SubjectOf[a])' = Root(SubjectOf[a])
  BY DEF Root, Followed
<1>3. RootLocks'
  BY <1>2 DEF FactInv, RootLocks
<1> QED
  BY <1>1, <1>3

LEMMA FactInit == ASSUME ApplicationAssumption, Init PROVE FactInv
<1>1. MergedType /\ RedirectsEnd
  BY DEF Init, MergedType, RedirectsEnd
<1>2. DrainerInv /\ CommitInv /\ RootLocks
  BY DEF Init, Idle, DrainerInv, CommitInv, RootLocks, Commits
<1>3. AttemptInv /\ UnmadeInv
  BY DEF Init, NoAttempt, AttemptInv, UnmadeInv, Facts
<1> QED
  BY <1>1, <1>2, <1>3 DEF FactInv

-----------------------------------------------------------------------------
(* Steps that leave facts and attempts alone.                              *)

LEMMA QuietStep ==
  ASSUME FactInv, UNCHANGED <<factVars, applied, attempt, current, merged>>, DrainerInv',
         \A d \in Drainers, a \in Apps : Commits(d, a)' => Commits(d, a)
  PROVE  FactInv'
<1>1. CommitInv' /\ RootLocks'
  BY SnapshotSame, CommitFrame DEF FactInv, CommitInv
<1>2. RedirectsEnd' /\ MergedType' /\ AttemptInv' /\ UnmadeInv'
  BY DEF FactInv, RedirectsEnd, Followed, MergedType, AttemptInv, Moves, FactsIn, UnmadeInv,
         factVars
<1> QED
  BY <1>1, <1>2 DEF FactInv

LEMMA UnitSteps ==
  ASSUME FactInv, NEW u \in Units, OpenUnit(u) \/ Reap(u) \/ Replay(u)
  PROVE  FactInv'
<1>1. UNCHANGED <<drainer, factVars, applied, attempt, current, merged>>
  BY DEF OpenUnit, Reap, Replay, workVars
<1>2. DrainerInv' /\ \A d \in Drainers, a \in Apps : Commits(d, a)' => Commits(d, a)
  BY <1>1 DEF FactInv, DrainerInv, Commits
<1> QED
  BY <1>1, <1>2, QuietStep

LEMMA RunReadSteps ==
  ASSUME FactInv, NEW r \in Runs,
         ReadStale(r) \/ ReadAffected(r) \/ ReadZeroSupport(r) \/ Interrupted(r)
  PROVE  FactInv'
<1>1. UNCHANGED <<drainer, factVars, applied, attempt, current, merged>>
  BY DEF ReadStale, ReadAffected, ReadZeroSupport, Interrupted, workVars
<1>2. DrainerInv' /\ \A d \in Drainers, a \in Apps : Commits(d, a)' => Commits(d, a)
  BY <1>1 DEF FactInv, DrainerInv, Commits
<1> QED
  BY <1>1, <1>2, QuietStep

(* A drain is where it was, or the drain d went to s, with app a.          *)
LEMMA DrainerMoves ==
  ASSUME DrainerInv, NEW d \in Drainers, NEW s,
         drainer' = [drainer EXCEPT ![d] = s],
         DOMAIN s = {"pc", "unit", "app", "id", "inputs"},
         s.pc \in {"idle", "drain", "ask", "apply", "commit", "drained"},
         s.pc # "idle" => s.unit \in Units,
         s.pc \in {"ask", "apply", "commit"} => s.app \in Apps
  PROVE  /\ DrainerInv'
         /\ drainer'[d] = s
         /\ \A c \in Drainers : c # d => drainer'[c] = drainer[c]
<1>1. \A c \in Drainers : drainer'[c] = IF c = d THEN s ELSE drainer[c]
  BY DEF DrainerInv
<1>2. DOMAIN drainer' = Drainers
  BY DEF DrainerInv
<1> QED
  BY <1>1, <1>2 DEF DrainerInv

LEMMA DrainerSteps ==
  ASSUME ApplicationAssumption, FactInv, NEW d \in Drainers,
         \/ \E u \in Units : ClaimUnit(d, u)
         \/ DrainerDies(d) \/ ProviderFails(d) \/ CompleteUnit(d)
  PROVE  FactInv'
<1>1. UNCHANGED <<factVars, applied, attempt, current, merged>>
  BY Zenon DEF ClaimUnit, DrainerDies, ProviderFails, CompleteUnit, workVars
<1>2. PICK s : /\ drainer' = [drainer EXCEPT ![d] = s]
               /\ DOMAIN s = {"pc", "unit", "app", "id", "inputs"}
               /\ s.pc \in {"idle", "drain"}
               /\ s.pc # "idle" => s.unit \in Units
  <2>1. CASE \E u \in Units : ClaimUnit(d, u)
    <3>1. PICK u \in Units : ClaimUnit(d, u)
      BY <2>1
    <3> DEFINE s == [Idle EXCEPT !.pc = "drain", !.unit = u]
    <3>2. /\ DOMAIN s = {"pc", "unit", "app", "id", "inputs"}
          /\ s.pc = "drain" /\ s.unit = u
      BY DEF Idle
    <3>3. drainer' = [drainer EXCEPT ![d] = s]
      BY <3>1, Zenon DEF ClaimUnit
    <3> HIDE DEF s
    <3> QED
      BY <3>2, <3>3
  <2>2. CASE DrainerDies(d) \/ ProviderFails(d) \/ CompleteUnit(d)
    <3>1. drainer' = [drainer EXCEPT ![d] = Idle]
      BY <2>2 DEF DrainerDies, ProviderFails, Raise, CompleteUnit
    <3>2. DOMAIN Idle = {"pc", "unit", "app", "id", "inputs"} /\ Idle.pc = "idle"
      BY DEF Idle
    <3> QED
      BY <3>1, <3>2
  <2> QED
    BY <2>1, <2>2
<1>3. DrainerInv' /\ drainer'[d] = s /\ \A c \in Drainers : c # d => drainer'[c] = drainer[c]
  BY <1>2, DrainerMoves DEF FactInv
<1>4. \A c \in Drainers, a \in Apps : Commits(c, a)' => Commits(c, a)
  BY <1>2, <1>3 DEF Commits
<1> QED
  BY <1>1, <1>3, <1>4, QuietStep

(* Identity changes wait for the open transactions.                        *)
LEMMA IdentitySteps ==
  ASSUME ApplicationAssumption, FactInv, NEW s \in Entities, NEW b \in Entities,
         Merge(s, b) \/ Unmerge(b)
  PROVE  FactInv'
<1>1. /\ Applying = {} /\ UNCHANGED <<drainer, attempt, applied, factVars>>
  BY DEF Merge, Unmerge, workVars
<1>2. \A d \in Drainers, a \in Apps : ~Commits(d, a)'
  BY <1>1 DEF Applying, Commits
<1>3. CommitInv' /\ RootLocks'
  BY <1>2 DEF CommitInv, RootLocks
<1>4. DrainerInv' /\ AttemptInv' /\ UnmadeInv'
  BY <1>1 DEF FactInv, DrainerInv, AttemptInv, Moves, FactsIn, UnmadeInv, factVars
<1>5. RedirectsEnd' /\ MergedType'
  BY MergeEnds, UnmergeEnds DEF FactInv
<1> QED
  BY <1>3, <1>4, <1>5 DEF FactInv

-----------------------------------------------------------------------------
(* Reconciliations spare what is locked.                                   *)

LEMMA LocksHold ==
  ASSUME FactInv, NEW d \in Drainers, NEW a \in Apps, Commits(d, a)
  PROVE  /\ Root(SubjectOf[a]) \in LockedRoots
         /\ Shown(a) \subseteq LockedFacts
         /\ ShownClaims(a) \subseteq LockedClaims
<1>1. d \in Applying /\ drainer[d].app = a
  BY DEF Applying, Commits
<1>2. InputsOf(d) = Snapshot(a)
  BY DEF FactInv, CommitInv, Commits, InputsOf
<1> QED
  BY <1>1, <1>2, SnapshotParts DEF LockedRoots, LockedFacts, LockedClaims

LEMMA TransitionStep ==
  ASSUME FactInv, NEW r \in Runs, ApplyTransitions(r)
  PROVE  FactInv'
<1> DEFINE flipped == run[r].ends \cup run[r].gains
<1>1. /\ UNCHANGED <<drainer, attempt, applied, factVars, merged>>
      /\ flipped \cap LockedClaims = {}
      /\ current' = (current \ run[r].ends) \cup run[r].gains
  BY DEF ApplyTransitions, workVars
<1>2. ASSUME NEW d \in Drainers, NEW a \in Apps, Commits(d, a)
      PROVE  Snapshot(a)' = Snapshot(a)
  <2>1. Shown(a)' = Shown(a)
    BY <1>1 DEF Shown, OpenFacts, Members, Root, Followed, factVars
  <2>2. ShownEvidence(a)' = ShownEvidence(a) /\ ShownSupport(a)' = ShownSupport(a)
    BY <1>1, <2>1 DEF ShownEvidence, ShownSupport, ShownApps, factVars
  <2>3. current' \cap ShownClaims(a) = current \cap ShownClaims(a)
    BY <1>1, <1>2, LocksHold
  <2> QED
    BY <1>1, <2>1, <2>2, <2>3, SnapshotFrame DEF factVars
<1>3. \A d \in Drainers, a \in Apps : Commits(d, a)' => Commits(d, a)
  BY <1>1 DEF Commits
<1>4. CommitInv' /\ RootLocks'
  BY <1>1, <1>2, <1>3, CommitFrame DEF FactInv, CommitInv
<1>5. RedirectsEnd' /\ MergedType' /\ DrainerInv' /\ AttemptInv' /\ UnmadeInv'
  BY <1>1 DEF FactInv, RedirectsEnd, Followed, MergedType, DrainerInv, AttemptInv, Moves,
              FactsIn, UnmadeInv, factVars
<1> QED
  BY <1>4, <1>5 DEF FactInv

LEMMA RecountStep ==
  ASSUME FactInv, NEW r \in Runs, Recount(r)
  PROVE  FactInv'
<1>1. /\ UNCHANGED <<drainer, attempt, applied, support, facts, about, evidence, current,
                     merged>>
      /\ run[r].scope \cap LockedFacts = {}
      /\ count' = [f \in Facts |-> IF f \in run[r].scope THEN Supporters(f, evidence, current)
                                   ELSE count[f]]
  BY DEF Recount, workVars
<1>2. ASSUME NEW d \in Drainers, NEW a \in Apps, Commits(d, a)
      PROVE  Snapshot(a)' = Snapshot(a)
  <2>1. Shown(a)' = Shown(a)
    BY <1>1 DEF Shown, OpenFacts, Members, Root, Followed
  <2>2. ShownEvidence(a)' = ShownEvidence(a) /\ ShownSupport(a)' = ShownSupport(a)
    BY <1>1, <2>1 DEF ShownEvidence, ShownSupport, ShownApps
  <2>3. \A f \in Shown(a) : count'[f] = count[f]
    BY <1>1, <1>2, LocksHold DEF Shown, OpenFacts
  <2> QED
    BY <1>1, <2>1, <2>2, <2>3, SnapshotFrame
<1>3. \A d \in Drainers, a \in Apps : Commits(d, a)' => Commits(d, a)
  BY <1>1 DEF Commits
<1>4. CommitInv' /\ RootLocks'
  BY <1>1, <1>2, <1>3, CommitFrame DEF FactInv, CommitInv
<1>5. RedirectsEnd' /\ MergedType' /\ DrainerInv' /\ AttemptInv' /\ UnmadeInv'
  BY <1>1 DEF FactInv, RedirectsEnd, Followed, MergedType, DrainerInv, AttemptInv, Moves,
              FactsIn, UnmadeInv
<1> QED
  BY <1>4, <1>5 DEF FactInv

LEMMA CloseStep ==
  ASSUME FactInv, NEW r \in Runs, CloseFacts(r)
  PROVE  FactInv'
<1>1. /\ UNCHANGED <<drainer, attempt, applied, support, about, evidence, count, current,
                     merged>>
      /\ run[r].zero \cap LockedFacts = {}
      /\ facts' = [f \in Facts |-> IF f \in run[r].zero /\ count[f] = 0 THEN "closed"
                                   ELSE facts[f]]
  BY DEF CloseFacts, workVars
<1>2. ASSUME NEW d \in Drainers, NEW a \in Apps, Commits(d, a)
      PROVE  Snapshot(a)' = Snapshot(a)
  <2>1. Members(Root(SubjectOf[a]))' = Members(Root(SubjectOf[a]))
    BY <1>1 DEF Members, Root, Followed
  <2>2. \A f \in Shown(a) : f \notin run[r].zero
    BY <1>1, <1>2, LocksHold
  <2>3. Shown(a)' = Shown(a)
    BY <1>1, <2>1, <2>2 DEF Shown, OpenFacts
  <2>4. ShownEvidence(a)' = ShownEvidence(a) /\ ShownSupport(a)' = ShownSupport(a)
    BY <1>1, <2>3 DEF ShownEvidence, ShownSupport, ShownApps
  <2> QED
    BY <1>1, <2>3, <2>4, SnapshotFrame
<1>3. \A d \in Drainers, a \in Apps : Commits(d, a)' => Commits(d, a)
  BY <1>1 DEF Commits
<1>4. CommitInv' /\ RootLocks'
  BY <1>1, <1>2, <1>3, CommitFrame DEF FactInv, CommitInv
<1>5. RedirectsEnd' /\ MergedType' /\ DrainerInv' /\ AttemptInv' /\ UnmadeInv'
  BY <1>1 DEF FactInv, RedirectsEnd, Followed, MergedType, DrainerInv, AttemptInv, Moves,
              FactsIn, UnmadeInv, Facts
<1> QED
  BY <1>4, <1>5 DEF FactInv

-----------------------------------------------------------------------------
(* Preparing and answering                                                 *)

(* A step that changes the attempt of one application, for which no        *)
(* transaction is open, and opens none.                                    *)
LEMMA AttemptFrame ==
  ASSUME FactInv, NEW a \in Apps, NEW next,
         attempt' = [attempt EXCEPT ![a] = next],
         DOMAIN next = {"id", "inputs", "decision"},
         next.decision # None => /\ next.decision.asked = next.inputs
                                 /\ next.decision.moves \subseteq Moves(a, next.inputs),
         UNCHANGED <<factVars, applied, current, merged>>, DrainerInv',
         \A c \in Drainers, b \in Apps : Commits(c, b)' => Commits(c, b) /\ b # a
  PROVE  FactInv'
<1>1. \A b \in Apps : attempt'[b] = IF b = a THEN next ELSE attempt[b]
  BY DEF FactInv, AttemptInv
<1>2. AttemptInv'
  BY <1>1 DEF FactInv, AttemptInv, Moves, FactsIn
<1>3. CommitInv' /\ RootLocks'
  BY <1>1, SnapshotSame, CommitFrame DEF FactInv, CommitInv
<1>4. RedirectsEnd' /\ MergedType' /\ UnmadeInv'
  BY DEF FactInv, RedirectsEnd, Followed, MergedType, UnmadeInv, factVars
<1> QED
  BY <1>2, <1>3, <1>4 DEF FactInv

(* The head of a stream is about the stream's root; while that root is not *)
(* locked, no transaction is open for it.                                  *)
LEMMA HeadIsFree ==
  ASSUME FactInv, NEW e \in Entities, NEW adm, NEW a \in Heads(Members(Root(e)), adm),
         Root(e) \notin LockedRoots
  PROVE  /\ a \in Apps \ applied /\ Root(SubjectOf[a]) = Root(e)
         /\ \A c \in Drainers : ~Commits(c, a)
<1>1. a \in Apps \ applied /\ Root(SubjectOf[a]) = Root(e)
  BY DEF Heads, Members
<1> QED
  BY <1>1, LocksHold

LEMMA PrepareStep ==
  ASSUME ApplicationAssumption, FactInv, NEW d \in Drainers, Prepare(d)
  PROVE  FactInv'
<1> DEFINE e == SubjectOfUnit[drainer[d].unit]
           adm == Admit(Members(Root(e)))
           heads == Heads(Members(Root(e)), adm)
<1>1. /\ drainer[d].pc = "drain" /\ UNCHANGED <<factVars, applied, current, merged>>
      /\ drainer[d].unit \in Units /\ e \in Entities
  BY DEF Prepare, FactInv, DrainerInv, ApplicationAssumption
<1>2. CASE drainer' = [drainer EXCEPT ![d].pc = "drained"] /\ UNCHANGED attempt
  <2> DEFINE s == [drainer[d] EXCEPT !.pc = "drained"]
  <2>1. /\ DOMAIN s = {"pc", "unit", "app", "id", "inputs"}
        /\ s.pc = "drained" /\ s.unit \in Units /\ drainer' = [drainer EXCEPT ![d] = s]
    BY <1>1, <1>2 DEF FactInv, DrainerInv
  <2> HIDE DEF s
  <2>2. /\ DrainerInv' /\ drainer'[d] = s
        /\ \A c \in Drainers : c # d => drainer'[c] = drainer[c]
    BY <2>1, DrainerMoves DEF FactInv
  <2>3. \A c \in Drainers, b \in Apps : Commits(c, b)' => Commits(c, b)
    BY <2>1, <2>2 DEF Commits
  <2> QED
    BY <1>1, <1>2, <2>2, <2>3, QuietStep
<1>3. ASSUME NEW a \in heads, Unlocked(e, a), PrepareHead(d, a)
      PROVE  FactInv'
  <2> DEFINE inputs == Snapshot(a)
             new == [id |-> FreshId(a), inputs |-> inputs, decision |-> SoleNewFact(a, inputs)]
             next == IF attempt[a].id # 0 /\ attempt[a].inputs = inputs THEN attempt[a] ELSE new
             s == IF next.decision = None
                  THEN [drainer[d] EXCEPT !.pc = "ask", !.app = a, !.id = next.id,
                                          !.inputs = inputs]
                  ELSE [drainer[d] EXCEPT !.pc = "apply", !.app = a]
  <2>1. a \in Apps /\ \A c \in Drainers : ~Commits(c, a)
    BY <1>1, <1>3, HeadIsFree DEF Unlocked
  <2>2. /\ DOMAIN next = {"id", "inputs", "decision"}
        /\ next.decision # None => /\ next.decision.asked = next.inputs
                                   /\ next.decision.moves \subseteq Moves(a, next.inputs)
    <3> HIDE DEF inputs
    <3>1. /\ DOMAIN new = {"id", "inputs", "decision"}
          /\ new.inputs = inputs /\ new.decision = SoleNewFact(a, inputs)
      OBVIOUS
    <3>2. SoleNewFact(a, inputs) # None => /\ SoleNewFact(a, inputs).asked = inputs
                                           /\ SoleNewFact(a, inputs).moves = {}
      BY DEF SoleNewFact
    <3> QED
      BY <2>1, <3>1, <3>2 DEF FactInv, AttemptInv
  <2>3. attempt' = [attempt EXCEPT ![a] = next] /\ drainer' = [drainer EXCEPT ![d] = s]
    BY <1>3 DEF PrepareHead
  <2>4. /\ DOMAIN s = {"pc", "unit", "app", "id", "inputs"}
        /\ s.pc \in {"ask", "apply"} /\ s.unit \in Units /\ s.app = a
    <3> HIDE DEF next, inputs
    <3> QED
      BY <1>1 DEF FactInv, DrainerInv
  <2> HIDE DEF next, s, inputs
  <2>5. /\ DrainerInv' /\ drainer'[d] = s
        /\ \A c \in Drainers : c # d => drainer'[c] = drainer[c]
    BY <2>1, <2>3, <2>4, DrainerMoves DEF FactInv
  <2>6. \A c \in Drainers, b \in Apps : Commits(c, b)' => Commits(c, b) /\ b # a
    BY <2>1, <2>4, <2>5 DEF Commits
  <2> QED
    BY <1>1, <2>1, <2>2, <2>3, <2>5, <2>6, AttemptFrame
<1> QED
  BY <1>2, <1>3 DEF Prepare

LEMMA BackStep ==
  ASSUME FactInv, NEW d \in Drainers, drainer[d].pc # "idle", Back(d)
  PROVE  /\ DrainerInv' /\ drainer'[d].pc = "drain"
         /\ \A c \in Drainers : c # d => drainer'[c] = drainer[c]
<1> DEFINE s == [Idle EXCEPT !.pc = "drain", !.unit = drainer[d].unit]
<1>1. /\ DOMAIN s = {"pc", "unit", "app", "id", "inputs"}
      /\ s.pc = "drain" /\ s.unit \in Units
  BY DEF Idle, FactInv, DrainerInv
<1>2. drainer' = [drainer EXCEPT ![d] = s]
  BY DEF Back
<1> HIDE DEF s
<1> QED
  BY <1>1, <1>2, DrainerMoves DEF FactInv

LEMMA PublishStep ==
  ASSUME FactInv, NEW d \in Drainers, drainer[d].pc = "ask",
         UNCHANGED <<factVars, applied, current, merged>>,
         NEW dec, dec.asked = drainer[d].inputs,
         dec.moves \subseteq Moves(drainer[d].app, drainer[d].inputs),
         Publish(d, dec)
  PROVE  FactInv'
<1> DEFINE a == drainer[d].app
<1>1. a \in Apps /\ drainer[d].unit \in Units
  BY DEF FactInv, DrainerInv
<1>2. CASE Matches(d, a)
  <2> DEFINE next == [attempt[a] EXCEPT !.decision = dec]
             s == [Idle EXCEPT !.pc = "apply", !.app = a, !.unit = drainer[d].unit]
  <2>1. attempt' = [attempt EXCEPT ![a] = next] /\ drainer' = [drainer EXCEPT ![d] = s]
    BY <1>2 DEF Publish
  <2>2. /\ DOMAIN next = {"id", "inputs", "decision"}
        /\ next.decision = dec /\ next.inputs = attempt[a].inputs
    BY <1>1 DEF FactInv, AttemptInv
  <2>3. /\ DOMAIN s = {"pc", "unit", "app", "id", "inputs"}
        /\ s.pc = "apply" /\ s.unit \in Units /\ s.app = a
    BY <1>1 DEF Idle
  <2>4. attempt[a].inputs = drainer[d].inputs /\ attempt[a].decision = None
    BY <1>2 DEF Matches
  <2> HIDE DEF next, s
  <2>5. /\ DrainerInv' /\ drainer'[d] = s
        /\ \A c \in Drainers : c # d => drainer'[c] = drainer[c]
    BY <1>1, <2>1, <2>3, DrainerMoves DEF FactInv
  <2>6. \A c \in Drainers : ~Commits(c, a)
    BY <1>1, <2>4 DEF FactInv, CommitInv, Decided
  <2>7. \A c \in Drainers, b \in Apps : Commits(c, b)' => Commits(c, b) /\ b # a
    BY <2>3, <2>5, <2>6 DEF Commits
  <2> QED
    BY <1>1, <2>1, <2>2, <2>4, <2>5, <2>7, AttemptFrame
<1>3. CASE ~Matches(d, a)
  <2>1. Back(d) /\ UNCHANGED attempt
    BY <1>3 DEF Publish
  <2>2. DrainerInv' /\ \A c \in Drainers, b \in Apps : Commits(c, b)' => Commits(c, b)
    BY <2>1, BackStep DEF Commits
  <2> QED
    BY <2>1, <2>2, QuietStep
<1> QED
  BY <1>2, <1>3

LEMMA AnswerStep ==
  ASSUME FactInv, NEW d \in Drainers, PublishAnswer(d)
  PROVE  FactInv'
<1> DEFINE a == drainer[d].app
           inputs == drainer[d].inputs
<1>1. drainer[d].pc = "ask" /\ UNCHANGED <<factVars, applied, current, merged>>
  BY DEF PublishAnswer
<1>2. ASSUME NEW dec \in Answers(a, inputs), Publish(d, dec) PROVE FactInv'
  <2>1. dec.asked = inputs /\ dec.moves \subseteq Moves(a, inputs)
    BY <1>2 DEF Answers
  <2> QED
    BY <1>1, <1>2, <2>1, PublishStep
<1>3. CASE Publish(d, OutOfScope(inputs))
  <2>1. OutOfScope(inputs).asked = inputs /\ OutOfScope(inputs).moves = {}
    BY DEF OutOfScope
  <2>2. OutOfScope(inputs).moves \subseteq Moves(a, inputs)
    BY <2>1
  <2> HIDE DEF inputs, a
  <2> QED
    BY <1>1, <1>3, <2>1, <2>2, PublishStep DEF inputs, a
<1> QED
  BY <1>2, <1>3 DEF PublishAnswer

-----------------------------------------------------------------------------
(* Applying                                                                *)

LEMMA BeginApplyStep ==
  ASSUME ApplicationAssumption, FactInv, NEW d \in Drainers, BeginApply(d)
  PROVE  FactInv'
<1> DEFINE a == drainer[d].app
           e == SubjectOfUnit[drainer[d].unit]
           members == Members(Root(e))
           adm == Admit(members)
           late == a \notin Heads(members, adm) \/ attempt[a].decision = None
<1>1. /\ drainer[d].pc = "apply" /\ a \in Apps /\ drainer[d].unit \in Units /\ e \in Entities
      /\ Root(e) \notin LockedRoots
      /\ UNCHANGED <<factVars, applied, current, merged>>
  BY DEF BeginApply, Unlocked, FactInv, DrainerInv, ApplicationAssumption
<1>2. CASE Back(d) /\ UNCHANGED attempt
  <2>1. DrainerInv' /\ \A c \in Drainers, b \in Apps : Commits(c, b)' => Commits(c, b)
    BY <1>1, <1>2, BackStep DEF Commits
  <2> QED
    BY <1>1, <1>2, <2>1, QuietStep
<1>3. CASE /\ ~late /\ attempt' = [attempt EXCEPT ![a] = NoAttempt]
           /\ Back(d) \/ Raise(d)
  <2>1. \A c \in Drainers : ~Commits(c, a)
    BY <1>1, <1>3, HeadIsFree
  <2>2. DOMAIN NoAttempt = {"id", "inputs", "decision"} /\ NoAttempt.decision = None
    BY DEF NoAttempt
  <2>3. /\ DrainerInv' /\ drainer'[d].pc # "commit"
        /\ \A c \in Drainers : c # d => drainer'[c] = drainer[c]
    <3>1. CASE Back(d)
      BY <1>1, <3>1, BackStep
    <3>2. CASE Raise(d)
      <4>1. /\ DOMAIN Idle = {"pc", "unit", "app", "id", "inputs"} /\ Idle.pc = "idle"
            /\ drainer' = [drainer EXCEPT ![d] = Idle]
        BY <3>2 DEF Idle, Raise
      <4> QED
        BY <4>1, DrainerMoves DEF FactInv
    <3> QED
      BY <1>3, <3>1, <3>2
  <2>4. \A c \in Drainers, b \in Apps : Commits(c, b)' => Commits(c, b) /\ b # a
    BY <2>1, <2>3 DEF Commits
  <2> QED
    BY <1>1, <1>3, <2>2, <2>3, <2>4, AttemptFrame, ZenonT(40)
<1>4. CASE /\ ~late /\ attempt[a].inputs = Snapshot(a) /\ Decided(a, attempt[a].decision)
           /\ drainer' = [drainer EXCEPT ![d].pc = "commit"] /\ UNCHANGED attempt
  <2> DEFINE s == [drainer[d] EXCEPT !.pc = "commit"]
  <2>1. /\ DOMAIN s = {"pc", "unit", "app", "id", "inputs"}
        /\ s.pc = "commit" /\ s.unit \in Units /\ s.app = a
        /\ drainer' = [drainer EXCEPT ![d] = s]
    BY <1>1, <1>4 DEF FactInv, DrainerInv
  <2> HIDE DEF s
  <2>2. /\ DrainerInv' /\ drainer'[d] = s
        /\ \A c \in Drainers : c # d => drainer'[c] = drainer[c]
    BY <1>1, <2>1, DrainerMoves DEF FactInv
  <2>3. a \notin applied /\ Root(SubjectOf[a]) = Root(e)
    BY <1>1, <1>4, HeadIsFree
  <2>4. ASSUME NEW c \in Drainers, NEW b \in Apps, Commits(c, b)'
        PROVE  (c = d /\ b = a) \/ (c # d /\ Commits(c, b))
    BY <2>1, <2>2, <2>4 DEF Commits
  <2>5. \A b \in Apps : Snapshot(b)' = Snapshot(b) /\ Root(SubjectOf[b])' = Root(SubjectOf[b])
    BY <1>1, SnapshotSame DEF Root, Followed
  <2>6. CommitInv'
    BY <1>1, <1>4, <2>3, <2>4, <2>5 DEF FactInv, CommitInv, Decided
  <2>7. \A c \in Drainers, b \in Apps : Commits(c, b) => Root(SubjectOf[b]) # Root(SubjectOf[a])
    BY <1>1, <2>3, LocksHold
  <2>8. RootLocks'
    BY <2>4, <2>5, <2>7 DEF FactInv, RootLocks
  <2>9. RedirectsEnd' /\ MergedType' /\ UnmadeInv' /\ AttemptInv'
    BY <1>1, <1>4 DEF FactInv, RedirectsEnd, Followed, MergedType, UnmadeInv, AttemptInv, Moves,
                      FactsIn, factVars
  <2> QED
    BY <2>2, <2>6, <2>8, <2>9 DEF FactInv
<1> QED
  BY <1>2, <1>3, <1>4 DEF BeginApply

(* What a decision touches is among the facts it was shown, or new.        *)
LEMMA TouchedIsShown ==
  ASSUME FactInv, NEW d \in Drainers, NEW a \in Apps, Commits(d, a)
  PROVE  /\ \A p \in Touched(a, attempt[a].decision) : p[1] \in Shown(a) \cup {a}
         /\ attempt[a].decision.target \in Shown(a) \cup {a}
         /\ \A m \in attempt[a].decision.moves :
              /\ m[2] \in Shown(a) \cup {a}
              /\ m[1] \in applied /\ support[m[1]] \in Shown(a)
         /\ attempt[a].decision.asked.root = Root(SubjectOf[a])
<1> DEFINE dec == attempt[a].decision
<1>1. /\ dec # None /\ dec.target \in FactsIn(dec.asked) \cup {a}
      /\ attempt[a].inputs = Snapshot(a)
  BY DEF FactInv, CommitInv, Decided
<1>2. dec.asked = Snapshot(a) /\ dec.moves \subseteq Moves(a, Snapshot(a))
  BY <1>1 DEF FactInv, AttemptInv
<1>3. dec.target \in Shown(a) \cup {a} /\ dec.asked.root = Root(SubjectOf[a])
  BY <1>1, <1>2, SnapshotParts
<1>4. ASSUME NEW m \in dec.moves
      PROVE  m[2] \in Shown(a) \cup {a} /\ m[1] \in applied /\ support[m[1]] \in Shown(a)
  <2>1. PICK p \in ShownSupport(a) : \E f \in Shown(a) \cup {a} : m = <<p[1], f>>
    BY <1>2, SnapshotParts DEF Moves
  <2>2. PICK f \in Shown(a) \cup {a} : m = <<p[1], f>>
    BY <2>1
  <2>3. PICK b \in applied : support[b] \in Shown(a) /\ p = <<b, support[b]>>
    BY DEF ShownSupport, ShownApps
  <2> QED
    BY <2>2, <2>3
<1>5. ASSUME NEW p \in Touched(a, dec) PROVE p[1] \in Shown(a) \cup {a}
  <2>1. CASE p = <<dec.target, ClaimOf[a]>>
    BY <1>3, <2>1
  <2>2. ASSUME NEW m \in dec.moves,
               p = <<support[m[1]], ClaimOf[m[1]]>> \/ p = <<m[2], ClaimOf[m[1]]>>
        PROVE  p[1] \in Shown(a) \cup {a}
    BY <1>4, <2>2
  <2> QED
    BY <2>1, <2>2 DEF Touched
<1> QED
  BY <1>3, <1>4, <1>5

LEMMA CommitApplyStep ==
  ASSUME ApplicationAssumption, FactInv, NEW d \in Drainers, CommitApply(d)
  PROVE  FactInv'
<1> DEFINE a == drainer[d].app
           dec == attempt[a].decision
           links == Touched(a, dec)
           made == {a} \cap ({dec.target} \cup {m[2] : m \in dec.moves})
           mine == Shown(a) \cup {a}
<1>1. a \in Apps /\ Commits(d, a) /\ a \notin applied /\ SubjectOf[a] \in Entities
  BY Zenon DEF CommitApply, FactInv, DrainerInv, CommitInv, Commits, ApplicationAssumption
<1>2. /\ \A p \in links : p[1] \in mine
      /\ dec.target \in mine
      /\ \A m \in dec.moves : m[2] \in mine /\ m[1] \in applied /\ support[m[1]] \in Shown(a)
      /\ dec.asked.root = Root(SubjectOf[a])
  BY <1>1, TouchedIsShown
<1>3. /\ facts' = [f \in Facts |-> IF f \in made THEN "open" ELSE facts[f]]
      /\ about' = [f \in Facts |-> IF f \in made THEN dec.asked.root ELSE about[f]]
      /\ support' = [b \in Apps |-> IF b = a THEN dec.target
                                    ELSE IF \E m \in dec.moves : m[1] = b
                                    THEN (CHOOSE m \in dec.moves : m[1] = b)[2]
                                    ELSE support[b]]
      /\ evidence' = (evidence \ links)
                       \cup {p \in links : \E b \in applied \cup {a} :
                                              support'[b] = p[1] /\ ClaimOf[b] = p[2]}
      /\ count' = [f \in Facts |-> IF f \in {p[1] : p \in links} \cup made
                                   THEN Supporters(f, evidence', current) ELSE count[f]]
      /\ applied' = applied \cup {a} /\ attempt' = [attempt EXCEPT ![a] = NoAttempt]
      /\ drainer[d].pc = "commit" /\ Back(d) /\ UNCHANGED <<current, merged>>
  BY Zenon DEF CommitApply
<1>4. made \subseteq {a}
  OBVIOUS
<1> HIDE DEF made, links
<1>5. /\ DrainerInv' /\ drainer'[d].pc = "drain"
      /\ \A c \in Drainers : c # d => drainer'[c] = drainer[c]
  BY <1>3, BackStep, Zenon
<1>6. \A b \in Apps : attempt'[b] = IF b = a THEN NoAttempt ELSE attempt[b]
  BY <1>3, Zenon DEF FactInv, AttemptInv
<1>7. ASSUME NEW c \in Drainers, NEW b \in Apps, Commits(c, b)'
      PROVE  c # d /\ Commits(c, b) /\ b # a /\ Root(SubjectOf[b]) # Root(SubjectOf[a])
  <2>1. c # d /\ Commits(c, b)
    BY <1>5, <1>7 DEF Commits
  <2> QED
    BY <1>1, <2>1 DEF FactInv, RootLocks
<1>8. ASSUME NEW b \in Apps, Root(SubjectOf[b]) # Root(SubjectOf[a])
      PROVE  Snapshot(b)' = Snapshot(b)
  <2>1. \A f \in mine : f \notin Shown(b)
    <3>1. a \notin Shown(b)
      BY <1>1 DEF FactInv, UnmadeInv, Shown, OpenFacts
    <3>2. ASSUME NEW f \in Shown(a), f \in Shown(b) PROVE FALSE
      BY <1>8, <3>2 DEF Shown, OpenFacts, Members
    <3> QED
      BY <3>1, <3>2
  <2>2. /\ Members(Root(SubjectOf[b]))' = Members(Root(SubjectOf[b]))
        /\ Root(SubjectOf[a]) \notin Members(Root(SubjectOf[b]))
    <3>1. \A x \in Entities : Root(x)' = Root(x)
      <4> HIDE DEF a, dec, mine
      <4> SUFFICES ASSUME NEW x \in Entities PROVE Root(x)' = Root(x)
        OBVIOUS
      <4>1. merged' = merged
        BY <1>3
      <4> QED
        BY ONLY <4>1 DEF Root, Followed
    <3>2. Root(SubjectOf[b])' = Root(SubjectOf[b])
      BY <3>1 DEF ApplicationAssumption
    <3>3. Root(Root(SubjectOf[a])) = Root(SubjectOf[a])
      BY <1>1, RootOfRoot DEF FactInv
    <3> QED
      BY <1>8, <3>1, <3>2, <3>3 DEF Members
  <2>3. Shown(b)' = Shown(b)
    <3>1. Shown(b)' = {f \in Facts : facts'[f] = "open"
                                       /\ about'[f] \in Members(Root(SubjectOf[b]))}
      BY <2>2 DEF Shown, OpenFacts
    <3>2. ASSUME NEW f \in Facts
          PROVE  f \in Shown(b)' <=> f \in Shown(b)
      <4>1. CASE f \in made
        BY <1>2, <1>3, <1>4, <2>1, <2>2, <3>1, <4>1, Zenon
      <4>2. CASE f \notin made
        BY <1>3, <3>1, <4>2, Zenon DEF Shown, OpenFacts
      <4> QED
        BY <4>1, <4>2
    <3>3. Shown(b) \subseteq Facts
      BY DEF Shown, OpenFacts
    <3> QED
      BY <3>1, <3>2, <3>3
  <2>4. \A f \in Shown(b) : count'[f] = count[f]
    <3>1. ASSUME NEW f \in Shown(b)
          PROVE  f \in Facts /\ f \notin {p[1] : p \in links} \cup made
      BY <1>2, <1>4, <2>1 DEF Shown, OpenFacts
    <3> QED
      BY <1>3, <3>1, Zenon
  <2>5. ShownEvidence(b)' = ShownEvidence(b)
    BY <1>2, <1>3, <2>1, <2>3, ZenonT(40) DEF ShownEvidence
  <2>6. ShownSupport(b)' = ShownSupport(b)
    <3>1. ASSUME NEW x \in applied'
          PROVE  /\ support'[x] \in Shown(b) <=> x \in applied /\ support[x] \in Shown(b)
                 /\ support[x] \in Shown(b) /\ x \in applied => support'[x] = support[x]
      <4>1. x \in Apps
        BY <1>1, <1>3, Zenon DEF FactInv, UnmadeInv
      <4>2. CASE x = a
        BY <1>1, <1>2, <1>3, <2>1, <4>2, Zenon
      <4>3. CASE x # a /\ \E m \in dec.moves : m[1] = x
        <5>1. PICK m \in dec.moves : m[1] = x /\ support'[x] = m[2]
          BY <1>3, <4>1, <4>3, Zenon
        <5> QED
          BY <1>2, <2>1, <5>1
      <4>4. CASE x # a /\ ~\E m \in dec.moves : m[1] = x
        BY <1>3, <4>1, <4>4, Zenon
      <4> QED
        BY <4>2, <4>3, <4>4
    <3>2. {x \in applied' : support'[x] \in Shown(b)} = {x \in applied : support[x] \in Shown(b)}
      BY <1>3, <3>1, Zenon
    <3>3. ShownSupport(b)' =
            {<<x, support'[x]>> : x \in {y \in applied' : support'[y] \in Shown(b)}}
      BY <2>3 DEF ShownSupport, ShownApps
    <3>4. \A x \in {y \in applied : support[y] \in Shown(b)} : support'[x] = support[x]
      BY <1>3, <3>1, Zenon
    <3> QED
      BY <3>2, <3>3, <3>4 DEF ShownSupport, ShownApps
  <2> QED
    BY <1>3, <2>3, <2>4, <2>5, <2>6, SnapshotFrame, Zenon
<1>9. CommitInv' /\ RootLocks'
  <2>1. \A c \in Drainers, b \in Apps : Commits(c, b)' =>
          /\ Commits(c, b) /\ b \notin applied'
          /\ attempt'[b] = attempt[b] /\ Snapshot(b)' = Snapshot(b)
    BY <1>3, <1>6, <1>7, <1>8, Zenon DEF FactInv, CommitInv
  <2> QED
    BY <1>3, <2>1, CommitFrame, Zenon
<1>10. AttemptInv'
  <2> HIDE DEF a, dec, mine
  <2>1. \A b \in Apps : b # a =>
          Moves(b, attempt[b].inputs)' = Moves(b, attempt[b].inputs)
    BY ONLY <1>6 DEF Moves, FactsIn
  <2>2. DOMAIN attempt' = Apps
    BY <1>1, <1>3 DEF FactInv, AttemptInv
  <2> QED
    BY <1>6, <2>1, <2>2 DEF FactInv, AttemptInv, NoAttempt
<1>11. UnmadeInv'
  BY <1>1, <1>3, <1>4, Zenon DEF FactInv, UnmadeInv, Facts
<1>12. RedirectsEnd' /\ MergedType'
  BY <1>3, Zenon DEF FactInv, RedirectsEnd, Followed, MergedType
<1> QED
  BY <1>5, <1>9, <1>10, <1>11, <1>12 DEF FactInv

LEMMA FactStep ==
  ASSUME ApplicationAssumption, FactInv, [Next]_vars
  PROVE  FactInv'
<1>1. CASE UNCHANGED vars
  <2>1. UNCHANGED <<drainer, factVars, applied, attempt, current, merged>>
    BY <1>1 DEF vars, workVars
  <2>2. DrainerInv' /\ \A d \in Drainers, a \in Apps : Commits(d, a)' => Commits(d, a)
    BY <2>1 DEF FactInv, DrainerInv, Commits
  <2> QED
    BY <2>1, <2>2, QuietStep
<1> QED
  BY <1>1, UnitSteps, DrainerSteps, PrepareStep, AnswerStep, BeginApplyStep, CommitApplyStep,
     IdentitySteps, RunReadSteps, TransitionStep, RecountStep, CloseStep
  DEF Next, DrainStep

(* Only a commit applies, and it applies what it validated.                *)
LEMMA AppliedAsAsked ==
  ASSUME FactInv, [Next]_vars
  PROVE  \A a \in applied' \ applied : attempt[a].decision.asked = Snapshot(a)
<1>1. CASE \E d \in Drainers : CommitApply(d)
  <2>1. PICK d \in Drainers : CommitApply(d)
    BY <1>1
  <2>2. /\ applied' = applied \cup {drainer[d].app} /\ Commits(d, drainer[d].app)
        /\ drainer[d].app \in Apps
    BY <2>1, Zenon DEF CommitApply, Commits, FactInv, DrainerInv
  <2> QED
    BY <2>2 DEF FactInv, CommitInv, AttemptInv, Decided
<1>2. CASE ~\E d \in Drainers : CommitApply(d)
  <2>1. applied' = applied
    BY <1>2, Zenon
    DEF Next, vars, workVars, DrainStep, OpenUnit, Reap, Replay, ClaimUnit, ProviderFails,
        DrainerDies, Prepare, PublishAnswer, BeginApply, CompleteUnit, Merge, Unmerge, ReadStale,
        ApplyTransitions, ReadAffected, Recount, ReadZeroSupport, CloseFacts, Interrupted
  <2> QED
    BY <2>1
<1> QED
  BY <1>1, <1>2

(* For any assertions, drains, reconciliations and merges, what is applied *)
(* is the model's answer to the facts, the support, the testimony and the  *)
(* identity there are at its commit: the locks of an open transaction      *)
(* cover all it was shown.                                                 *)
THEOREM AnswersFit == Spec => AnswersFitTheirInputs
<1>1. Init => FactInv
  BY FactInit, ApplicationAssumption
<1>2. FactInv /\ [Next]_vars => FactInv'
  BY FactStep, ApplicationAssumption
<1>3. FactInv /\ [Next]_vars =>
        [\A a \in applied' \ applied : attempt[a].decision.asked = Snapshot(a)]_vars
  BY AppliedAsAsked
<1> QED
  BY <1>1, <1>2, <1>3, PTL DEF Spec, AnswersFitTheirInputs

(* For any merges and unmerges, every chain of redirects ends:             *)
(* canonical_entity never meets the cycle it refuses.                      *)
THEOREM ChainsEnd == Spec => []RedirectsEnd
<1>1. Init => FactInv
  BY FactInit, ApplicationAssumption
<1>2. FactInv /\ [Next]_vars => FactInv'
  BY FactStep, ApplicationAssumption
<1>3. FactInv => RedirectsEnd
  BY DEF FactInv
<1> QED
  BY <1>1, <1>2, <1>3, PTL DEF Spec

-----------------------------------------------------------------------------
(* A unit that succeeded has left nothing behind                           *)

UnitInv == unit \in [Units -> {"absent", "pending", "dead", "done"} \cup Drainers]

AdmissionInv == admission \in [Apps -> Nat]

(* A drain that found its stream empty, and still has its unit, has        *)
(* applied the unit's applications.                                        *)
Drained(d, u) == drainer[d].pc = "drained" /\ drainer[d].unit = u /\ unit[u] = d

DrainedInv == \A d \in Drainers, u \in Units : Drained(d, u) => MembersOf[u] \subseteq applied

DoneInv == UnitInv /\ AdmissionInv /\ DrainedInv /\ DoneMeansApplied

(* Admission numbers whatever of the stream is eligible.                   *)
LEMMA AdmitNumbers ==
  ASSUME ApplicationAssumption, AdmissionInv, NEW members
  PROVE  /\ Admit(members) \in [Apps -> Nat]
         /\ \A a \in Apps \ applied :
              SubjectOf[a] \in members /\ Eligible(a) => Admit(members)[a] # 0
<1> DEFINE new  == {a \in Apps \ applied :
                      SubjectOf[a] \in members /\ admission[a] = 0 /\ Eligible(a)}
           last == Cardinality({a \in Apps : admission[a] # 0})
           upto(a) == {b \in new : Rank[b] <= Rank[a]}
<1>1. last \in Nat
  <2>1. IsFiniteSet({a \in Apps : admission[a] # 0})
    BY FS_Subset DEF ApplicationAssumption
  <2> QED
    BY <2>1, FS_CardinalityType
<1>2. ASSUME NEW a \in Apps PROVE Cardinality(upto(a)) \in Nat
  <2>1. IsFiniteSet(upto(a))
    BY FS_Subset DEF ApplicationAssumption
  <2> QED
    BY <2>1, FS_CardinalityType
<1>3. ASSUME NEW a \in new PROVE Cardinality(upto(a)) # 0
  <2>1. a \in upto(a)
    BY DEF ApplicationAssumption
  <2>2. IsFiniteSet(upto(a))
    BY FS_Subset DEF ApplicationAssumption
  <2> QED
    BY <2>1, <2>2, FS_EmptySet
<1>4. Admit(members) = [a \in Apps |-> IF a \in new THEN last + Cardinality(upto(a))
                                       ELSE admission[a]]
  BY DEF Admit
<1> HIDE DEF last, upto
<1>5. Admit(members) \in [Apps -> Nat]
  BY <1>1, <1>2, <1>4 DEF AdmissionInv
<1>6. ASSUME NEW a \in Apps \ applied, SubjectOf[a] \in members, Eligible(a)
      PROVE  Admit(members)[a] # 0
  <2>1. CASE a \in new
    <3> DEFINE n == Cardinality(upto(a))
    <3>1. n \in Nat /\ n # 0
      BY <1>2, <1>3, <2>1
    <3>2. Admit(members)[a] = last + n
      BY <1>4, <2>1
    <3> HIDE DEF n
    <3> QED
      BY <1>1, <3>1, <3>2
  <2>2. CASE a \notin new
    BY <1>4, <1>6, <2>2
  <2> QED
    BY <2>1, <2>2
<1> QED
  BY <1>5, <1>6

(* An empty stream has no eligible application left.                       *)
LEMMA NoHeadNoWork ==
  ASSUME ApplicationAssumption, AdmissionInv, NEW members,
         Heads(members, Admit(members)) = {},
         NEW a \in Apps, SubjectOf[a] \in members, Eligible(a)
  PROVE  a \in applied
<1> DEFINE adm     == Admit(members)
           waiting == {b \in Apps \ applied : SubjectOf[b] \in members /\ adm[b] # 0}
           numbers == {adm[b] : b \in waiting}
<1> SUFFICES ASSUME a \notin applied PROVE FALSE
  OBVIOUS
<1>1. a \in waiting /\ adm \in [Apps -> Nat]
  BY AdmitNumbers
<1> HIDE DEF adm
<1>2. numbers \in SUBSET Nat /\ numbers # {}
  BY <1>1
<1>3. PICK n \in numbers : \A k \in numbers : n <= k
  BY <1>2, LeastNatural
<1>4. PICK b \in waiting : adm[b] = n
  BY <1>3
<1>5. b \in Heads(members, adm)
  BY <1>3, <1>4 DEF Heads
<1> QED
  BY <1>5 DEF adm

LEMMA DoneFrame ==
  ASSUME DoneInv, UnitInv', AdmissionInv', applied \subseteq applied',
         \A d \in Drainers, u \in Units :
            Drained(d, u)' => Drained(d, u) \/ MembersOf[u] \subseteq applied,
         \A u \in Units : unit'[u] = "done" => unit[u] = "done" \/ MembersOf[u] \subseteq applied
  PROVE  DoneInv'
<1>1. DrainedInv'
  BY DEF DoneInv, DrainedInv
<1>2. DoneMeansApplied'
  BY DEF DoneInv, DoneMeansApplied
<1> QED
  BY <1>1, <1>2 DEF DoneInv

(* A step of one slot, which may end in any unit it has or had.            *)
LEMMA DoneMove ==
  ASSUME ApplicationAssumption, DoneInv, NEW d \in Drainers, UnitInv', AdmissionInv',
         applied \subseteq applied', drainer'[d].pc # "drained",
         \A c \in Drainers : c # d => drainer'[c] = drainer[c],
         \A u \in Units : \/ unit'[u] = unit[u]
                          \/ unit'[u] \in {"pending", "dead", d}
                          \/ unit'[u] = "done" /\ MembersOf[u] \subseteq applied
  PROVE  DoneInv'
<1>1. \A c \in Drainers, u \in Units : Drained(c, u)' => Drained(c, u)
  BY DEF Drained, ApplicationAssumption
<1>2. \A u \in Units : unit'[u] = "done" => unit[u] = "done" \/ MembersOf[u] \subseteq applied
  BY DEF ApplicationAssumption
<1> QED
  BY <1>1, <1>2, DoneFrame

(* A slot that goes idle, or back to draining, is not drained.             *)
LEMMA NotDrained ==
  ASSUME FactInv, NEW d \in Drainers, NEW s, s.pc # "drained",
         drainer' = [drainer EXCEPT ![d] = s]
  PROVE  /\ drainer'[d].pc # "drained"
         /\ \A c \in Drainers : c # d => drainer'[c] = drainer[c]
BY DEF FactInv, DrainerInv

LEMMA IdleNotDrained ==
  ASSUME FactInv, NEW d \in Drainers, drainer' = [drainer EXCEPT ![d] = Idle] \/ Back(d)
  PROVE  /\ drainer'[d].pc # "drained"
         /\ \A c \in Drainers : c # d => drainer'[c] = drainer[c]
<1> DEFINE s == [Idle EXCEPT !.pc = "drain", !.unit = drainer[d].unit]
<1>1. Idle.pc # "drained" /\ s.pc # "drained"
  BY DEF Idle
<1>2. drainer' = [drainer EXCEPT ![d] = Idle] \/ drainer' = [drainer EXCEPT ![d] = s]
  BY DEF Back
<1> HIDE DEF s
<1> QED
  BY <1>1, <1>2, NotDrained

LEMMA DoneInit == ASSUME ApplicationAssumption, Init PROVE DoneInv
BY DEF Init, Idle, DoneInv, UnitInv, AdmissionInv, DrainedInv, Drained, DoneMeansApplied

(* Steps that do not touch units, slots, admission or receipts.            *)
LEMMA DoneQuiet ==
  ASSUME DoneInv, UNCHANGED <<unit, drainer, admission, applied>>
  PROVE  DoneInv'
BY DEF DoneInv, UnitInv, AdmissionInv, DrainedInv, Drained, DoneMeansApplied

LEMMA DoneUnits ==
  ASSUME ApplicationAssumption, DoneInv, NEW u \in Units, OpenUnit(u) \/ Reap(u) \/ Replay(u)
  PROVE  DoneInv'
<1>1. UNCHANGED <<drainer, admission, applied>>
  BY DEF OpenUnit, Reap, Replay, workVars
<1>2. PICK next \in {"pending", "dead"} : unit' = [unit EXCEPT ![u] = next]
  BY DEF OpenUnit, Reap, Replay
<1>3. \A v \in Units : unit'[v] = IF v = u THEN next ELSE unit[v]
  BY <1>2 DEF DoneInv, UnitInv
<1>4. UnitInv' /\ AdmissionInv'
  BY <1>1, <1>2 DEF DoneInv, UnitInv, AdmissionInv
<1>5. next \notin Drainers
  BY DEF ApplicationAssumption
<1>6. \A d \in Drainers, v \in Units : Drained(d, v)' => Drained(d, v)
  BY <1>1, <1>3, <1>5 DEF Drained
<1>7. \A v \in Units : unit'[v] = "done" => unit[v] = "done"
  BY <1>3
<1> QED
  BY <1>1, <1>4, <1>6, <1>7, DoneFrame

LEMMA DoneSlots ==
  ASSUME ApplicationAssumption, FactInv, DoneInv, NEW d \in Drainers,
         \/ \E u \in Units : ClaimUnit(d, u)
         \/ DrainerDies(d) \/ ProviderFails(d) \/ CompleteUnit(d)
  PROVE  DoneInv'
<1>1. UNCHANGED <<admission, applied>>
  BY Zenon DEF ClaimUnit, DrainerDies, ProviderFails, CompleteUnit, workVars
<1>2. /\ drainer'[d].pc # "drained"
      /\ \A c \in Drainers : c # d => drainer'[c] = drainer[c]
  <2>1. ASSUME NEW u \in Units, ClaimUnit(d, u)
        PROVE  \E s : s.pc # "drained" /\ drainer' = [drainer EXCEPT ![d] = s]
    <3> DEFINE s == [Idle EXCEPT !.pc = "drain", !.unit = u]
    <3>1. s.pc # "drained" /\ drainer' = [drainer EXCEPT ![d] = s]
      BY <2>1, Zenon DEF ClaimUnit, Idle
    <3> HIDE DEF s
    <3> QED
      BY <3>1
  <2>2. CASE drainer' = [drainer EXCEPT ![d] = Idle]
    BY <2>2, IdleNotDrained
  <2> QED
    BY <2>1, <2>2, NotDrained DEF DrainerDies, ProviderFails, Raise, CompleteUnit
<1>3. UnitInv' /\ \A u \in Units : \/ unit'[u] = unit[u]
                                   \/ unit'[u] \in {"pending", "dead", d}
                                   \/ unit'[u] = "done" /\ MembersOf[u] \subseteq applied
  <2>1. CASE \E u \in Units : ClaimUnit(d, u)
    <3>1. PICK u \in Units : unit' = [unit EXCEPT ![u] = d]
      BY <2>1, Zenon DEF ClaimUnit
    <3> QED
      BY <3>1 DEF DoneInv, UnitInv
  <2>2. CASE DrainerDies(d)
    BY <2>2 DEF DrainerDies, DoneInv, UnitInv
  <2>3. CASE ProviderFails(d)
    <3>1. PICK next \in {"pending", "dead"} :
            unit' = [u \in Units |-> IF u = drainer[d].unit /\ unit[u] = d THEN next ELSE unit[u]]
      BY <2>3 DEF ProviderFails, Raise
    <3> QED
      BY <3>1 DEF DoneInv, UnitInv
  <2>4. CASE CompleteUnit(d)
    <3>1. /\ drainer[d].pc = "drained"
          /\ unit' = [u \in Units |-> IF u = drainer[d].unit /\ unit[u] = d THEN "done"
                                      ELSE unit[u]]
      BY <2>4 DEF CompleteUnit
    <3> QED
      BY <3>1 DEF DoneInv, UnitInv, DrainedInv, Drained
  <2> QED
    BY <2>1, <2>2, <2>3, <2>4
<1>4. AdmissionInv'
  BY <1>1 DEF DoneInv, AdmissionInv
<1> QED
  BY <1>1, <1>2, <1>3, <1>4, DoneMove

(* A drain ends on an empty stream, and its unit's stream is its subject's. *)
LEMMA DonePrepare ==
  ASSUME ApplicationAssumption, FactInv, DoneInv, NEW d \in Drainers, Prepare(d)
  PROVE  DoneInv'
<1> DEFINE e == SubjectOfUnit[drainer[d].unit]
           adm == Admit(Members(Root(e)))
<1>1. /\ drainer[d].unit \in Units /\ e \in Entities
      /\ UNCHANGED <<unit, applied>> /\ admission' = adm
  BY DEF Prepare, FactInv, DrainerInv, ApplicationAssumption
<1>2. UnitInv' /\ AdmissionInv'
  BY <1>1, AdmitNumbers DEF DoneInv, UnitInv, AdmissionInv
<1>3. CASE /\ Heads(Members(Root(e)), adm) = {}
           /\ drainer' = [drainer EXCEPT ![d].pc = "drained"]
  <2>1. ASSUME unit[drainer[d].unit] = d, NEW a \in MembersOf[drainer[d].unit]
        PROVE  a \in applied
    <3>1. a \in Apps /\ SubjectOf[a] \in Members(Root(e))
      BY <1>1 DEF ApplicationAssumption, Members
    <3>2. Eligible(a)
      BY <1>1, <2>1 DEF Eligible, ApplicationAssumption
    <3> QED
      BY <1>3, <3>1, <3>2, NoHeadNoWork DEF DoneInv
  <2>2. \A c \in Drainers : /\ c # d => drainer'[c] = drainer[c]
                            /\ drainer'[c].unit = drainer[c].unit
    BY <1>3 DEF FactInv, DrainerInv
  <2>3. \A c \in Drainers, u \in Units :
           Drained(c, u)' => Drained(c, u) \/ MembersOf[u] \subseteq applied
    BY <1>1, <2>1, <2>2 DEF Drained
  <2> QED
    BY <1>1, <1>2, <2>3, DoneFrame DEF DoneInv, DoneMeansApplied
<1>4. ASSUME NEW a \in Apps, PrepareHead(d, a)
      PROVE  DoneInv'
  <2>1. /\ drainer'[d].pc # "drained"
        /\ \A c \in Drainers : c # d => drainer'[c] = drainer[c]
    BY <1>4 DEF PrepareHead, FactInv, DrainerInv
  <2> QED
    BY <1>1, <1>2, <2>1, DoneMove
<1> QED
  BY <1>3, <1>4, Zenon DEF Prepare, Heads

LEMMA DoneAnswer ==
  ASSUME ApplicationAssumption, FactInv, DoneInv, NEW d \in Drainers,
         PublishAnswer(d) \/ CommitApply(d)
  PROVE  DoneInv'
<1>1. UNCHANGED <<unit, admission>> /\ applied \subseteq applied'
  BY Zenon DEF PublishAnswer, CommitApply
<1>2. /\ drainer'[d].pc # "drained"
      /\ \A c \in Drainers : c # d => drainer'[c] = drainer[c]
  <2> DEFINE s == [Idle EXCEPT !.pc = "apply", !.app = drainer[d].app, !.unit = drainer[d].unit]
  <2>1. s.pc # "drained"
    BY DEF Idle
  <2>2. Back(d) \/ drainer' = [drainer EXCEPT ![d] = s]
    BY Zenon DEF PublishAnswer, CommitApply, Publish
  <2> HIDE DEF s
  <2> QED
    BY <2>1, <2>2, NotDrained, IdleNotDrained
<1>3. UnitInv' /\ AdmissionInv'
  BY <1>1 DEF DoneInv, UnitInv, AdmissionInv
<1> QED
  BY <1>1, <1>2, <1>3, DoneMove

LEMMA DoneBeginApply ==
  ASSUME ApplicationAssumption, FactInv, DoneInv, NEW d \in Drainers, BeginApply(d)
  PROVE  DoneInv'
<1> DEFINE members == Members(Root(SubjectOfUnit[drainer[d].unit]))
<1>1. applied' = applied /\ (admission' = admission \/ admission' = Admit(members))
  BY DEF BeginApply
<1>2. AdmissionInv'
  BY <1>1, AdmitNumbers DEF DoneInv, AdmissionInv
<1>3. /\ drainer'[d].pc # "drained"
      /\ \A c \in Drainers : c # d => drainer'[c] = drainer[c]
  <2>1. \/ Back(d) \/ drainer' = [drainer EXCEPT ![d] = Idle]
        \/ drainer' = [drainer EXCEPT ![d].pc = "commit"]
    BY DEF BeginApply, Raise
  <2>2. CASE drainer' = [drainer EXCEPT ![d].pc = "commit"]
    <3> DEFINE s == [drainer[d] EXCEPT !.pc = "commit"]
    <3>1. s.pc # "drained" /\ drainer' = [drainer EXCEPT ![d] = s]
      BY <2>2 DEF FactInv, DrainerInv
    <3> HIDE DEF s
    <3> QED
      BY <3>1, NotDrained
  <2> QED
    BY <2>1, <2>2, IdleNotDrained
<1>4. UnitInv' /\ \A u \in Units : unit'[u] = unit[u] \/ unit'[u] \in {"pending", "dead"}
  <2>1. CASE Raise(d)
    <3>1. PICK next \in {"pending", "dead"} :
            unit' = [u \in Units |-> IF u = drainer[d].unit /\ unit[u] = d THEN next ELSE unit[u]]
      BY <2>1 DEF Raise
    <3> QED
      BY <3>1 DEF DoneInv, UnitInv
  <2>2. CASE UNCHANGED unit
    BY <2>2 DEF DoneInv, UnitInv
  <2> QED
    BY <2>1, <2>2 DEF BeginApply
<1> QED
  BY <1>1, <1>2, <1>3, <1>4, DoneMove

LEMMA DoneStep ==
  ASSUME ApplicationAssumption, FactInv, DoneInv, [Next]_vars
  PROVE  DoneInv'
<1>1. CASE UNCHANGED vars
  BY <1>1, DoneQuiet DEF vars, workVars
<1>2. ASSUME NEW s \in Entities, NEW b \in Entities, Merge(s, b) \/ Unmerge(b)
      PROVE  DoneInv'
  BY <1>2, DoneQuiet DEF Merge, Unmerge, workVars
<1>3. ASSUME NEW r \in Runs,
             \/ ReadStale(r) \/ ApplyTransitions(r) \/ ReadAffected(r) \/ Recount(r)
             \/ ReadZeroSupport(r) \/ CloseFacts(r) \/ Interrupted(r)
      PROVE  DoneInv'
  <2>1. UNCHANGED <<unit, drainer, admission, applied>>
    BY <1>3 DEF ReadStale, ApplyTransitions, ReadAffected, Recount, ReadZeroSupport, CloseFacts,
                Interrupted, workVars
  <2> QED
    BY <2>1, DoneQuiet
<1> QED
  BY <1>1, <1>2, <1>3, DoneUnits, DoneSlots, DonePrepare, DoneAnswer, DoneBeginApply
  DEF Next, DrainStep

(* For any units and drains, stalled, reaped and replayed: a unit that     *)
(* succeeded has left none of its applications behind.                     *)
THEOREM DoneIsApplied == Spec => []DoneMeansApplied
<1>1. Init => FactInv /\ DoneInv
  BY FactInit, DoneInit, ApplicationAssumption
<1>2. FactInv /\ DoneInv /\ [Next]_vars => (FactInv /\ DoneInv)'
  BY FactStep, DoneStep, ApplicationAssumption
<1>3. DoneInv => DoneMeansApplied
  BY DEF DoneInv
<1> QED
  BY <1>1, <1>2, <1>3, PTL DEF Spec

-----------------------------------------------------------------------------
(* Counts                                                                  *)

RunPcs == {"idle", "read", "moved", "affected", "counted", "zero", "done"}
RunStates == [pc : RunPcs, ends : SUBSET Claims, gains : SUBSET Claims, claims : SUBSET Claims,
              scope : SUBSET Facts, zero : SUBSET Facts]

RunInv ==
  /\ run \in [Runs -> RunStates]
  /\ ledger \in [Runs -> SUBSET Claims]
  /\ current \subseteq Claims
  /\ \A r \in Runs : run[r].gains \subseteq Regains[r]

(* The evidence of the facts is what the applied assertions support.       *)
EvidenceInv ==
  /\ support \in [Apps -> Facts \cup {None}]
  /\ \A a \in applied : support[a] \in Facts
  /\ evidence = {<<support[a], ClaimOf[a]>> : a \in applied}

(* Run r changed the currency of a claim of f and has yet to recount f.    *)
Owes(r, f) ==
  \E c \in ledger[r] :
    /\ <<f, c>> \in evidence
    /\ \/ run[r].pc \in {"idle", "read"} /\ r \in ReplaysLedger
       \/ run[r].pc = "moved" /\ c \in run[r].claims
       \/ run[r].pc = "affected" /\ f \in run[r].scope

CountedInv ==
  \A f \in Facts : count[f] = Supporters(f, evidence, current) \/ \E r \in Runs : Owes(r, f)

(* A run has made claim c current again.                                   *)
Regained(c) == \E r \in Runs : c \in Regains[r] /\ c \in ledger[r]

(* Support nobody counted, and support of a closed fact, was regained.     *)
UncountedInv ==
  \A f \in Facts, c \in current :
    <<f, c>> \in evidence /\ (count[f] = 0 \/ facts[f] = "closed") => Regained(c)

LEMMA CountInit ==
  ASSUME ApplicationAssumption, Init
  PROVE  RunInv /\ EvidenceInv /\ CountedInv /\ UncountedInv
<1>1. RunInv
  BY DEF Init, NotStarted, RunInv, RunStates, RunPcs
<1>2. EvidenceInv /\ UncountedInv
  BY DEF Init, EvidenceInv, UncountedInv
<1>3. CountedInv
  <2>1. \A f \in Facts : {DocOf[c] : c \in {x \in current : <<f, x>> \in evidence}} = {}
    BY DEF Init
  <2>2. \A f \in Facts : Supporters(f, evidence, current) = 0
    BY <2>1, FS_EmptySet DEF Supporters
  <2> QED
    BY <2>2 DEF Init, CountedInv
<1> QED
  BY <1>1, <1>2, <1>3

(* The run r is in state s, every other run where it was.                  *)
LEMMA RunMoves ==
  ASSUME RunInv, NEW r \in Runs, NEW s \in RunStates, s.gains \subseteq Regains[r],
         run' = [run EXCEPT ![r] = s], ledger' \in [Runs -> SUBSET Claims],
         current' \subseteq Claims
  PROVE  RunInv' /\ run'[r] = s /\ \A q \in Runs : q # r => run'[q] = run[q]
<1>1. run' \in [Runs -> RunStates]
  BY DEF RunInv
<1>2. run'[r] = s /\ \A q \in Runs : q # r => run'[q] = run[q]
  BY DEF RunInv
<1> QED
  BY <1>1, <1>2 DEF RunInv

(* No step but a drain's commit touches evidence, and none but a run's     *)
(* transition the testimony.                                               *)
LEMMA EvidenceFrame ==
  ASSUME EvidenceInv, UNCHANGED <<support, applied, evidence>>
  PROVE  EvidenceInv'
BY DEF EvidenceInv

LEMMA CountFrame ==
  ASSUME UncountedInv, UNCHANGED <<evidence, count, facts, current, ledger>>,
         \A r \in Runs, f \in Facts : Owes(r, f) => Owes(r, f)'
  PROVE  UncountedInv' /\ (CountedInv => CountedInv')
<1>1. ASSUME CountedInv PROVE CountedInv'
  BY <1>1 DEF CountedInv, Supporters
<1>2. UncountedInv'
  BY DEF UncountedInv, Regained
<1> QED
  BY <1>1, <1>2

(* Steps that leave facts, testimony and runs alone.                       *)
LEMMA CountQuiet ==
  ASSUME RunInv, EvidenceInv, UncountedInv,
         UNCHANGED <<support, applied, evidence, count, facts, current, ledger, run>>
  PROVE  RunInv' /\ EvidenceInv' /\ UncountedInv' /\ (CountedInv => CountedInv')
<1>1. RunInv' /\ EvidenceInv'
  BY EvidenceFrame DEF RunInv
<1>2. \A r \in Runs, f \in Facts : Owes(r, f) => Owes(r, f)'
  BY DEF Owes
<1> QED
  BY <1>1, <1>2, CountFrame

(* A run's step that changes no testimony and no count and discharges      *)
(* nothing the run owes.                                                   *)
LEMMA RunFrame ==
  ASSUME RunInv, EvidenceInv, UncountedInv, NEW r \in Runs, NEW s \in RunStates,
         s.gains \subseteq Regains[r], run' = [run EXCEPT ![r] = s],
         UNCHANGED <<support, applied, evidence, count, facts, current, ledger>>,
         \A f \in Facts : Owes(r, f) => Owes(r, f)'
  PROVE  RunInv' /\ EvidenceInv' /\ UncountedInv' /\ (CountedInv => CountedInv')
<1>1. RunInv' /\ \A q \in Runs : q # r => run'[q] = run[q]
  BY RunMoves DEF RunInv
<1>2. ASSUME NEW q \in Runs, NEW f \in Facts, Owes(q, f)
      PROVE  Owes(q, f)'
  <2>1. CASE q = r
    BY <1>2, <2>1
  <2>2. CASE q # r
    BY <1>1, <1>2, <2>2 DEF Owes
  <2> QED
    BY <2>1, <2>2
<1> QED
  BY <1>1, <1>2, EvidenceFrame, CountFrame

LEMMA CountReadStale ==
  ASSUME ApplicationAssumption, RunInv, EvidenceInv, UncountedInv,
         NEW r \in Runs, ReadStale(r)
  PROVE  RunInv' /\ EvidenceInv' /\ UncountedInv' /\ (CountedInv => CountedInv')
<1> DEFINE s == [NotStarted EXCEPT !.pc = "read", !.ends = Ends[r] \cap current,
                                   !.gains = Regains[r] \ current]
<1>1. /\ run[r].pc = "idle" /\ run' = [run EXCEPT ![r] = s]
      /\ UNCHANGED <<support, applied, evidence, count, facts, current, ledger>>
  BY DEF ReadStale, RunAt, workVars, factVars
<1>2. s \in RunStates /\ s.gains \subseteq Regains[r] /\ s.pc = "read"
  BY DEF NotStarted, RunStates, RunPcs, ApplicationAssumption, RunInv
<1> HIDE DEF s
<1>3. run'[r] = s
  BY <1>1 DEF RunInv
<1>4. \A f \in Facts : Owes(r, f) => Owes(r, f)'
  BY <1>1, <1>2, <1>3 DEF Owes
<1> QED
  BY <1>1, <1>2, <1>4, RunFrame

(* An interrupted run owes what its ledger holds.                          *)
LEMMA CountInterrupted ==
  ASSUME ApplicationAssumption, RunInv, EvidenceInv, UncountedInv,
         NEW r \in Runs, Interrupted(r)
  PROVE  /\ RunInv' /\ EvidenceInv' /\ UncountedInv'
         /\ Interruptible \subseteq ReplaysLedger /\ CountedInv => CountedInv'
<1>1. /\ run' = [run EXCEPT ![r] = NotStarted] /\ r \in Interruptible
      /\ UNCHANGED <<support, applied, evidence, count, facts, current, ledger>>
  BY DEF Interrupted, workVars, factVars
<1>2. NotStarted \in RunStates /\ NotStarted.gains = {} /\ NotStarted.pc = "idle"
  BY DEF NotStarted, RunStates, RunPcs
<1>3. /\ RunInv' /\ run'[r] = NotStarted
      /\ \A q \in Runs : q # r => run'[q] = run[q]
  BY <1>1, <1>2, RunMoves DEF RunInv
<1>4. EvidenceInv' /\ UncountedInv'
  BY <1>1, EvidenceFrame DEF UncountedInv, Regained
<1>5. ASSUME Interruptible \subseteq ReplaysLedger, CountedInv
      PROVE  CountedInv'
  <2>1. \A q \in Runs, f \in Facts : Owes(q, f) => Owes(q, f)'
    BY <1>1, <1>2, <1>3, <1>5 DEF Owes
  <2>2. \A f \in Facts : Supporters(f, evidence, current)' = Supporters(f, evidence, current)
    BY <1>1 DEF Supporters
  <2> QED
    BY <1>1, <1>5, <2>1, <2>2 DEF CountedInv
<1> QED
  BY <1>3, <1>4, <1>5

(* Whose count the transition makes stale, the run owes.                   *)
LEMMA CountTransition ==
  ASSUME ApplicationAssumption, RunInv, EvidenceInv, UncountedInv,
         NEW r \in Runs, ApplyTransitions(r)
  PROVE  RunInv' /\ EvidenceInv' /\ UncountedInv' /\ (CountedInv => CountedInv')
<1> DEFINE flipped == run[r].ends \cup run[r].gains
           claims == flipped \cup (IF r \in ReplaysLedger THEN ledger[r] ELSE {})
           s == [run[r] EXCEPT !.pc = "moved", !.claims = claims]
<1>1. /\ run[r].pc = "read"
      /\ current' = (current \ run[r].ends) \cup run[r].gains
      /\ ledger' = [ledger EXCEPT ![r] = @ \cup flipped]
      /\ UNCHANGED <<support, applied, evidence, count, facts>>
  BY DEF ApplyTransitions, RunAt, workVars, factVars
<1>2. /\ run[r] \in RunStates /\ flipped \in SUBSET Claims /\ claims \in SUBSET Claims
      /\ run[r].gains \subseteq Regains[r]
  BY DEF RunInv, RunStates
<1>3. run' = [run EXCEPT ![r] = s]
  <2>1. run' = [run EXCEPT ![r].pc = "moved", ![r].claims = claims]
    BY DEF ApplyTransitions
  <2> HIDE DEF claims
  <2> QED
    BY <2>1 DEF RunInv
<1>4. s \in RunStates /\ s.gains = run[r].gains /\ s.pc = "moved" /\ s.claims = claims
  <2> HIDE DEF claims
  <2> QED
    BY <1>2 DEF RunStates, RunPcs
<1>5. /\ ledger' \in [Runs -> SUBSET Claims] /\ ledger'[r] = ledger[r] \cup flipped
      /\ \A q \in Runs : q # r => ledger'[q] = ledger[q]
  BY <1>1, <1>2 DEF RunInv
<1>6. current' \subseteq Claims
  BY <1>1, <1>2 DEF RunInv
<1> HIDE DEF s
<1>7. RunInv' /\ run'[r] = s /\ \A q \in Runs : q # r => run'[q] = run[q]
  BY <1>2, <1>3, <1>4, <1>5, <1>6, RunMoves
<1>8. EvidenceInv'
  BY <1>1, EvidenceFrame
<1>9. UncountedInv'
  <2>1. \A c \in Claims : Regained(c) => Regained(c)'
    BY <1>5 DEF Regained
  <2>2. \A c \in run[r].gains : Regained(c)'
    BY <1>2, <1>5 DEF Regained
  <2>3. \A c \in current' : c \in current \/ c \in run[r].gains
    BY <1>1
  <2> QED
    BY <1>1, <1>6, <2>1, <2>2, <2>3 DEF UncountedInv
<1>10. ASSUME CountedInv PROVE CountedInv'
  <2> SUFFICES ASSUME NEW f \in Facts
               PROVE  count'[f] = Supporters(f, evidence, current)' \/ \E q \in Runs : Owes(q, f)'
    BY DEF CountedInv
  <2>1. CASE \E c \in flipped : <<f, c>> \in evidence
    <3>1. Owes(r, f)'
      BY <1>1, <1>4, <1>5, <1>7, <2>1 DEF Owes
    <3> QED
      BY <3>1
  <2>2. CASE ~\E c \in flipped : <<f, c>> \in evidence
    <3>1. {x \in current' : <<f, x>> \in evidence'} = {x \in current : <<f, x>> \in evidence}
      BY <1>1, <2>2
    <3>2. Supporters(f, evidence, current)' = Supporters(f, evidence, current)
      BY <3>1 DEF Supporters
    <3>3. ASSUME NEW q \in Runs, Owes(q, f) PROVE Owes(q, f)'
      BY <1>1, <1>4, <1>5, <1>7, <3>3, ZenonT(40) DEF Owes
    <3> QED
      BY <1>1, <1>10, <3>2, <3>3 DEF CountedInv
  <2> QED
    BY <2>1, <2>2
<1> QED
  BY <1>7, <1>8, <1>9, <1>10

LEMMA CountReadAffected ==
  ASSUME RunInv, EvidenceInv, UncountedInv, NEW r \in Runs, ReadAffected(r)
  PROVE  RunInv' /\ EvidenceInv' /\ UncountedInv' /\ (CountedInv => CountedInv')
<1> DEFINE scope == {f \in Facts : \E c \in run[r].claims : <<f, c>> \in evidence}
           s == [run[r] EXCEPT !.pc = "affected", !.scope = scope]
<1>1. /\ run[r].pc = "moved" /\ run' = [run EXCEPT ![r].pc = "affected", ![r].scope = scope]
      /\ UNCHANGED <<support, applied, evidence, count, facts, current, ledger>>
  BY DEF ReadAffected, RunAt, workVars, factVars
<1>2. run[r] \in RunStates /\ run[r].gains \subseteq Regains[r] /\ scope \in SUBSET Facts
  BY DEF RunInv
<1>3. \A f \in Facts : Owes(r, f) => f \in scope
  BY <1>1 DEF Owes
<1> HIDE DEF scope
<1>4. run' = [run EXCEPT ![r] = s]
  BY <1>1 DEF RunInv
<1>5. s \in RunStates /\ s.gains = run[r].gains /\ s.pc = "affected" /\ s.scope = scope
  BY <1>2 DEF RunStates, RunPcs
<1> HIDE DEF s
<1>6. run'[r] = s
  BY <1>4 DEF RunInv
<1>7. \A f \in Facts : Owes(r, f) => Owes(r, f)'
  BY <1>1, <1>3, <1>5, <1>6 DEF Owes
<1> QED
  BY <1>1, <1>2, <1>4, <1>5, <1>7, RunFrame

(* A count of zero is a count of no current claim.                         *)
LEMMA NoSupporters ==
  ASSUME ApplicationAssumption, NEW f, NEW ev, NEW now \in SUBSET Claims
  PROVE  /\ Supporters(f, ev, now) \in 0..Cardinality(Docs)
         /\ Supporters(f, ev, now) = 0 => \A c \in now : <<f, c>> \notin ev
<1> DEFINE docs == {DocOf[c] : c \in {x \in now : <<f, x>> \in ev}}
<1>1. docs \in SUBSET Docs /\ IsFiniteSet(Docs)
  <2>1. \A c \in now : DocOf[c] \in Docs
    BY DEF ApplicationAssumption
  <2>2. IsFiniteSet(Docs)
    BY DEF ApplicationAssumption
  <2>3. ASSUME NEW x \in docs PROVE x \in Docs
    <3>1. PICK c \in {y \in now : <<f, y>> \in ev} : x = DocOf[c]
      BY <2>3
    <3>2. c \in now
      BY <3>1
    <3> QED
      BY <2>1, <3>1, <3>2
  <2> HIDE DEF docs
  <2> QED
    BY <2>2, <2>3
<1>2. \A c \in now : <<f, c>> \in ev => DocOf[c] \in docs
  OBVIOUS
<1>3. Supporters(f, ev, now) = Cardinality(docs)
  BY DEF Supporters
<1> HIDE DEF docs
<1>4. /\ Cardinality(docs) \in Nat /\ Cardinality(Docs) \in Nat
      /\ Cardinality(docs) <= Cardinality(Docs)
      /\ Cardinality(docs) = 0 => docs = {}
  BY <1>1, FS_Subset, FS_CardinalityType, FS_EmptySet
<1> QED
  BY <1>2, <1>3, <1>4

LEMMA CountRecount ==
  ASSUME ApplicationAssumption, RunInv, EvidenceInv, UncountedInv, NEW r \in Runs, Recount(r)
  PROVE  RunInv' /\ EvidenceInv' /\ UncountedInv' /\ (CountedInv => CountedInv')
<1> DEFINE s == [run[r] EXCEPT !.pc = "counted"]
<1>1. /\ run[r].pc = "affected" /\ run' = [run EXCEPT ![r].pc = "counted"]
      /\ count' = [f \in Facts |-> IF f \in run[r].scope THEN Supporters(f, evidence, current)
                                   ELSE count[f]]
      /\ UNCHANGED <<support, applied, evidence, facts, current, ledger>>
  BY DEF Recount, RunAt, workVars
<1>2. run[r] \in RunStates /\ run[r].gains \subseteq Regains[r] /\ current \subseteq Claims
  BY DEF RunInv
<1>3. run' = [run EXCEPT ![r] = s] /\ s \in RunStates /\ s.gains = run[r].gains
  BY <1>1, <1>2 DEF RunInv, RunStates, RunPcs
<1> HIDE DEF s
<1>4. RunInv' /\ \A q \in Runs : q # r => run'[q] = run[q]
  BY <1>1, <1>2, <1>3, RunMoves DEF RunInv
<1>5. EvidenceInv'
  BY <1>1, EvidenceFrame
<1>6. UncountedInv'
  <2> SUFFICES ASSUME NEW f \in Facts, NEW c \in current, <<f, c>> \in evidence,
                      count'[f] = 0 \/ facts[f] = "closed"
               PROVE  Regained(c)
    BY <1>1 DEF UncountedInv, Regained
  <2>1. CASE f \in run[r].scope /\ count'[f] = 0
    BY <1>1, <1>2, <2>1, NoSupporters
  <2>2. CASE f \notin run[r].scope \/ facts[f] = "closed"
    BY <1>1, <2>2 DEF UncountedInv
  <2> QED
    BY <2>1, <2>2
<1>7. ASSUME CountedInv PROVE CountedInv'
  <2> SUFFICES ASSUME NEW f \in Facts, f \notin run[r].scope
               PROVE  \/ count[f] = Supporters(f, evidence, current)
                      \/ \E q \in Runs : Owes(q, f)'
    BY <1>1 DEF CountedInv, Supporters
  <2>1. ~Owes(r, f)
    BY <1>1 DEF Owes
  <2>2. \A q \in Runs : Owes(q, f) => Owes(q, f)'
    BY <1>1, <1>4, <2>1 DEF Owes
  <2> QED
    BY <1>7, <2>2 DEF CountedInv
<1> QED
  BY <1>4, <1>5, <1>6, <1>7

LEMMA CountReadZero ==
  ASSUME RunInv, EvidenceInv, UncountedInv, NEW r \in Runs, ReadZeroSupport(r)
  PROVE  RunInv' /\ EvidenceInv' /\ UncountedInv' /\ (CountedInv => CountedInv')
<1> DEFINE zero == {f \in run[r].scope : facts[f] = "open" /\ count[f] = 0}
           s == [run[r] EXCEPT !.pc = "zero", !.zero = zero]
<1>1. /\ run[r].pc = "counted" /\ run' = [run EXCEPT ![r].pc = "zero", ![r].zero = zero]
      /\ UNCHANGED <<support, applied, evidence, count, facts, current, ledger>>
  BY DEF ReadZeroSupport, RunAt, workVars, factVars
<1>2. run[r] \in RunStates /\ run[r].gains \subseteq Regains[r] /\ zero \in SUBSET Facts
  BY DEF RunInv, RunStates
<1> HIDE DEF zero
<1>3. run' = [run EXCEPT ![r] = s] /\ s \in RunStates /\ s.gains = run[r].gains
  BY <1>1, <1>2 DEF RunInv, RunStates, RunPcs
<1> HIDE DEF s
<1>4. \A f \in Facts : ~Owes(r, f)
  BY <1>1 DEF Owes
<1> QED
  BY <1>1, <1>2, <1>3, <1>4, RunFrame

LEMMA CountClose ==
  ASSUME RunInv, EvidenceInv, UncountedInv, NEW r \in Runs, CloseFacts(r)
  PROVE  RunInv' /\ EvidenceInv' /\ UncountedInv' /\ (CountedInv => CountedInv')
<1> DEFINE s == [NotStarted EXCEPT !.pc = "done"]
<1>1. /\ run[r].pc = "zero" /\ run' = [run EXCEPT ![r] = s]
      /\ facts' = [f \in Facts |-> IF f \in run[r].zero /\ count[f] = 0 THEN "closed"
                                   ELSE facts[f]]
      /\ UNCHANGED <<support, applied, evidence, count, current, ledger>>
  BY DEF CloseFacts, RunAt, workVars
<1>2. s \in RunStates /\ s.gains = {}
  BY DEF NotStarted, RunStates, RunPcs
<1> HIDE DEF s
<1>3. RunInv' /\ \A q \in Runs : q # r => run'[q] = run[q]
  BY <1>1, <1>2, RunMoves DEF RunInv
<1>4. EvidenceInv'
  BY <1>1, EvidenceFrame
<1>5. UncountedInv'
  BY <1>1 DEF UncountedInv, Regained
<1>6. ASSUME CountedInv PROVE CountedInv'
  <2>1. \A q \in Runs, f \in Facts : Owes(q, f) => Owes(q, f)'
    BY <1>1, <1>3 DEF Owes
  <2> QED
    BY <1>1, <1>6, <2>1 DEF CountedInv, Supporters
<1> QED
  BY <1>3, <1>4, <1>5, <1>6

(* The evidence that a decision touches is about facts that it leaves open. *)
LEMMA TouchedStaysOpen ==
  ASSUME ApplicationAssumption, FactInv, EvidenceInv, NEW d \in Drainers, NEW a \in Apps,
         drainer[d].app = a, CommitApply(d), NEW p \in Touched(a, attempt[a].decision)
  PROVE  p[1] \in Facts /\ p = <<p[1], p[2]>> /\ facts'[p[1]] = "open"
<1> DEFINE dec == attempt[a].decision
           made == {a} \cap ({dec.target} \cup {m[2] : m \in dec.moves})
<1>1. Commits(d, a)
  BY DEF CommitApply, Commits
<1>2. /\ p[1] \in Shown(a) \cup {a}
      /\ \A m \in dec.moves : support[m[1]] \in Shown(a)
  BY <1>1, TouchedIsShown
<1>3. facts' = [f \in Facts |-> IF f \in made THEN "open" ELSE facts[f]]
  BY DEF CommitApply
<1>4. p = <<p[1], p[2]>> /\ (p[1] \in Shown(a) \/ p[1] \in made)
  <2>1. CASE p = <<dec.target, ClaimOf[a]>>
    BY <1>2, <2>1
  <2>2. ASSUME NEW m \in dec.moves, p = <<support[m[1]], ClaimOf[m[1]]>>
        PROVE  p = <<p[1], p[2]>> /\ p[1] \in Shown(a)
    BY <1>2, <2>2
  <2>3. ASSUME NEW m \in dec.moves, p = <<m[2], ClaimOf[m[1]]>>
        PROVE  p = <<p[1], p[2]>> /\ (p[1] \in Shown(a) \/ p[1] \in made)
    BY <1>2, <2>3
  <2> QED
    BY <2>1, <2>2, <2>3 DEF Touched
<1> HIDE DEF made
<1>5. Shown(a) \subseteq Facts /\ \A f \in Shown(a) : facts[f] = "open"
  BY DEF Shown, OpenFacts
<1> QED
  BY <1>2, <1>3, <1>4, <1>5 DEF Facts

(* What is linked stays what is supported: the links a decision touches    *)
(* are all those that its new and its moved support change.                *)
LEMMA CommitEvidence ==
  ASSUME ApplicationAssumption, FactInv, EvidenceInv, NEW d \in Drainers, CommitApply(d)
  PROVE  EvidenceInv'
<1> DEFINE a == drainer[d].app
           dec == attempt[a].decision
           links == Touched(a, dec)
<1>1. a \in Apps /\ Commits(d, a) /\ a \notin applied /\ applied \subseteq Apps
  BY Zenon DEF CommitApply, FactInv, DrainerInv, CommitInv, Commits, UnmadeInv
<1>2. /\ dec.target \in Facts
      /\ \A m \in dec.moves : m[2] \in Facts /\ m[1] \in applied
  BY <1>1, TouchedIsShown DEF Shown, OpenFacts, Facts
<1>3. /\ support' = [b \in Apps |-> IF b = a THEN dec.target
                                    ELSE IF \E m \in dec.moves : m[1] = b
                                    THEN (CHOOSE m \in dec.moves : m[1] = b)[2]
                                    ELSE support[b]]
      /\ evidence' = (evidence \ links)
                       \cup {p \in links : \E b \in applied \cup {a} :
                                              support'[b] = p[1] /\ ClaimOf[b] = p[2]}
      /\ applied' = applied \cup {a}
  BY Zenon DEF CommitApply
<1>4. /\ <<dec.target, ClaimOf[a]>> \in links
      /\ \A m \in dec.moves : /\ <<support[m[1]], ClaimOf[m[1]]>> \in links
                              /\ <<m[2], ClaimOf[m[1]]>> \in links
  BY DEF Touched
<1>5. \A p \in links : p = <<p[1], p[2]>>
  BY <1>1, TouchedStaysOpen
<1> HIDE DEF links, a, dec
<1>6. support'[a] = dec.target
  BY <1>1, <1>3
<1>7. ASSUME NEW b \in Apps, b # a, \E m \in dec.moves : m[1] = b
      PROVE  \E m \in dec.moves : m[1] = b /\ support'[b] = m[2]
  BY <1>3, <1>7
<1>8. ASSUME NEW b \in Apps, b # a, ~\E m \in dec.moves : m[1] = b
      PROVE  support'[b] = support[b]
  BY <1>3, <1>8
<1>9. \A b \in Apps : support'[b] \in Facts \cup {None}
  BY <1>2, <1>6, <1>7, <1>8 DEF EvidenceInv
<1>10. \A b \in applied' : b \in Apps /\ support'[b] \in Facts
  BY <1>1, <1>2, <1>3, <1>6, <1>7, <1>8 DEF EvidenceInv
<1>11. ASSUME NEW p \in evidence'
       PROVE  \E b \in applied' : p = <<support'[b], ClaimOf[b]>>
  <2>1. CASE p \in evidence \ links
    <3>1. PICK b \in applied : p = <<support[b], ClaimOf[b]>>
      BY <2>1 DEF EvidenceInv
    <3>2. b \in Apps /\ b # a /\ ~\E m \in dec.moves : m[1] = b
      BY <1>1, <1>4, <2>1, <3>1
    <3> QED
      BY <1>3, <1>8, <3>1, <3>2
  <2>2. CASE p \in links /\ \E b \in applied \cup {a} : support'[b] = p[1] /\ ClaimOf[b] = p[2]
    BY <1>3, <1>5, <2>2
  <2> QED
    BY <1>3, <2>1, <2>2
<1>12. ASSUME NEW b \in applied'
       PROVE  <<support'[b], ClaimOf[b]>> \in evidence'
  <2> DEFINE p == <<support'[b], ClaimOf[b]>>
  <2>1. /\ p[1] = support'[b] /\ p[2] = ClaimOf[b]
        /\ support'[b] = support[b] => p = <<support[b], ClaimOf[b]>>
    OBVIOUS
  <2> HIDE DEF p
  <2>2. CASE p \in links
    <3>1. \E x \in applied \cup {a} : support'[x] = p[1] /\ ClaimOf[x] = p[2]
      BY <1>3, <2>1
    <3>2. p \in evidence'
      BY <1>3, <2>2, <3>1
    <3> QED
      BY <3>2 DEF p
  <2>3. CASE p \notin links
    <3>1. b # a /\ b \in Apps /\ ~\E m \in dec.moves : m[1] = b
      BY <1>4, <1>6, <1>7, <1>10, <2>3 DEF p
    <3>2. b \in applied /\ support'[b] = support[b]
      BY <1>3, <1>8, <3>1
    <3>3. p \in evidence
      BY <2>1, <3>2 DEF EvidenceInv
    <3>4. p \in evidence'
      BY <1>3, <2>3, <3>3
    <3> QED
      BY <3>4 DEF p
  <2> QED
    BY <2>2, <2>3
<1>13. support' \in [Apps -> Facts \cup {None}]
  BY <1>3, <1>9
<1> QED
  BY <1>10, <1>11, <1>12, <1>13 DEF EvidenceInv

LEMMA CountCommit ==
  ASSUME ApplicationAssumption, FactInv, RunInv, EvidenceInv, UncountedInv,
         NEW d \in Drainers, CommitApply(d)
  PROVE  RunInv' /\ EvidenceInv' /\ UncountedInv' /\ (CountedInv => CountedInv')
<1> DEFINE a == drainer[d].app
           dec == attempt[a].decision
           links == Touched(a, dec)
           made == {a} \cap ({dec.target} \cup {m[2] : m \in dec.moves})
           recounted == {p[1] : p \in links} \cup made
<1>1. a \in Apps /\ Commits(d, a)
  BY Zenon DEF CommitApply, FactInv, DrainerInv, Commits
<1>2. /\ facts' = [f \in Facts |-> IF f \in made THEN "open" ELSE facts[f]]
      /\ evidence' = (evidence \ links)
                       \cup {p \in links : \E b \in applied \cup {a} :
                                              support'[b] = p[1] /\ ClaimOf[b] = p[2]}
      /\ count' = [f \in Facts |-> IF f \in recounted
                                   THEN Supporters(f, evidence', current) ELSE count[f]]
      /\ UNCHANGED <<current, run, ledger>>
  BY Zenon DEF CommitApply
<1>3. \A p \in links : p[1] \in Facts /\ facts'[p[1]] = "open"
  BY <1>1, TouchedStaysOpen
<1> HIDE DEF made, links
<1>4. \A f \in Facts \cap recounted : facts'[f] = "open"
  BY <1>2, <1>3
<1>5. \A f \in Facts \ recounted : \A c : <<f, c>> \in evidence' <=> <<f, c>> \in evidence
  <2>1. ASSUME NEW f \in Facts \ recounted, NEW c, <<f, c>> \in links PROVE FALSE
    <3>1. <<f, c>>[1] = f
      OBVIOUS
    <3> QED
      BY <2>1, <3>1
  <2> QED
    BY <1>2, <2>1, Zenon
<1>6. \A f \in Facts \ recounted :
        count'[f] = count[f] /\ (facts'[f] = "closed" => facts[f] = "closed")
  BY <1>2
<1>7. \A f \in Facts \cap recounted : count'[f] = Supporters(f, evidence', current)
  BY <1>2
<1> HIDE DEF recounted
<1>8. RunInv' /\ EvidenceInv'
  BY <1>2, CommitEvidence DEF RunInv
<1>9. UncountedInv'
  <2> SUFFICES ASSUME NEW f \in Facts, NEW c \in current, <<f, c>> \in evidence',
                      count'[f] = 0 \/ facts'[f] = "closed"
               PROVE  Regained(c)
    BY <1>2 DEF UncountedInv, Regained
  <2>1. CASE f \in recounted
    <3>1. Supporters(f, evidence', current) = 0
      BY <1>4, <1>7, <2>1
    <3>2. current \in SUBSET Claims
      BY DEF RunInv
    <3> QED
      BY <3>1, <3>2, NoSupporters
  <2>2. CASE f \notin recounted
    BY <1>5, <1>6, <2>2 DEF UncountedInv
  <2> QED
    BY <2>1, <2>2
<1>10. ASSUME CountedInv PROVE CountedInv'
  <2> SUFFICES ASSUME NEW f \in Facts, f \notin recounted
               PROVE  \/ count'[f] = Supporters(f, evidence, current)'
                      \/ \E q \in Runs : Owes(q, f)'
    BY <1>2, <1>7 DEF CountedInv, Supporters
  <2>1. {x \in current : <<f, x>> \in evidence'} = {x \in current : <<f, x>> \in evidence}
    BY <1>5
  <2>2. Supporters(f, evidence, current)' = Supporters(f, evidence, current)
    BY <1>2, <2>1 DEF Supporters
  <2>3. \A q \in Runs : Owes(q, f) => Owes(q, f)'
    BY <1>2, <1>5 DEF Owes
  <2> QED
    BY <1>6, <1>10, <2>2, <2>3 DEF CountedInv
<1> QED
  BY <1>8, <1>9, <1>10

LEMMA CountStep ==
  ASSUME ApplicationAssumption, FactInv, RunInv, EvidenceInv, UncountedInv, [Next]_vars
  PROVE  /\ RunInv' /\ EvidenceInv' /\ UncountedInv'
         /\ Interruptible \subseteq ReplaysLedger /\ CountedInv => CountedInv'
<1> DEFINE Goal == /\ RunInv' /\ EvidenceInv' /\ UncountedInv'
                   /\ Interruptible \subseteq ReplaysLedger /\ CountedInv => CountedInv'
<1>1. ASSUME UNCHANGED <<support, applied, evidence, count, facts, current, ledger, run>>
      PROVE  Goal
  BY <1>1, CountQuiet
<1>2. ASSUME NEW r \in Runs,
             ReadStale(r) \/ ReadAffected(r) \/ ReadZeroSupport(r)
      PROVE  Goal
  BY <1>2, CountReadStale, CountReadAffected, CountReadZero
<1>3. ASSUME NEW r \in Runs,
             ApplyTransitions(r) \/ Recount(r) \/ CloseFacts(r) \/ Interrupted(r)
      PROVE  Goal
  BY <1>3, CountTransition, CountRecount, CountClose, CountInterrupted
<1>4. ASSUME NEW d \in Drainers, CommitApply(d) PROVE Goal
  BY <1>4, CountCommit
<1>5. ASSUME UNCHANGED vars PROVE Goal
  BY <1>1, <1>5 DEF vars, workVars, factVars
<1>6. ASSUME NEW u \in Units, OpenUnit(u) \/ Reap(u) \/ Replay(u) PROVE Goal
  BY <1>1, <1>6 DEF OpenUnit, Reap, Replay, workVars, factVars
<1>7. ASSUME NEW d \in Drainers,
             \/ \E u \in Units : ClaimUnit(d, u)
             \/ DrainerDies(d) \/ ProviderFails(d) \/ CompleteUnit(d)
             \/ Prepare(d) \/ PublishAnswer(d) \/ BeginApply(d)
      PROVE  Goal
  BY <1>1, <1>7, Zenon
  DEF ClaimUnit, DrainerDies, ProviderFails, CompleteUnit, Prepare, PublishAnswer, BeginApply,
      workVars, factVars
<1>8. ASSUME NEW e \in Entities, NEW b \in Entities, Merge(e, b) \/ Unmerge(b) PROVE Goal
  BY <1>1, <1>8 DEF Merge, Unmerge, workVars, factVars
<1> HIDE DEF Goal
<1>9. Goal
  BY <1>2, <1>3, <1>4, <1>5, <1>6, <1>7, <1>8 DEF Next, DrainStep
<1> QED
  BY <1>9 DEF Goal

(* What a count says is what the applied assertions say.                   *)
LEMMA AssertingIsSupporters ==
  ASSUME ApplicationAssumption, UnmadeInv, EvidenceInv, NEW f \in Facts
  PROVE  Asserting(f) = Supporters(f, evidence, current)
<1> DEFINE A == {b \in applied : support[b] = f /\ ClaimOf[b] \in current}
           C == {x \in current : <<f, x>> \in evidence}
<1>1. ASSUME NEW b \in A PROVE ClaimOf[b] \in C
  BY DEF EvidenceInv
<1>2. ASSUME NEW c \in C PROVE \E b \in A : ClaimOf[b] = c
  BY DEF EvidenceInv
<1>3. {DocOf[ClaimOf[b]] : b \in A} = {DocOf[c] : c \in C}
  <2> HIDE DEF A, C
  <2>1. ASSUME NEW x \in {DocOf[ClaimOf[b]] : b \in A} PROVE x \in {DocOf[c] : c \in C}
    BY <1>1
  <2>2. ASSUME NEW x \in {DocOf[c] : c \in C} PROVE x \in {DocOf[ClaimOf[b]] : b \in A}
    <3>1. PICK c \in C : x = DocOf[c]
      OBVIOUS
    <3>2. PICK b \in A : ClaimOf[b] = c
      BY <1>2
    <3> QED
      BY <3>1, <3>2
  <2> QED
    BY <2>1, <2>2
<1> QED
  BY <1>3 DEF Asserting, Supporters

(* For any assertions, drains, merges and reconciliations of any lineages, *)
(* interrupted anywhere: if an interrupted run starts again from its       *)
(* ledger, the count of every fact is the number of lineages that assert   *)
(* it, or a run that changed the currency of one of its claims has yet to  *)
(* finish.                                                                 *)
THEOREM CountsAreRight ==
  ASSUME Interruptible \subseteq ReplaysLedger
  PROVE  Spec => []CountsSettle
<1> DEFINE CountInv == RunInv /\ EvidenceInv /\ UncountedInv /\ CountedInv
<1>1. Init => FactInv /\ CountInv
  BY FactInit, CountInit, ApplicationAssumption
<1>2. FactInv /\ CountInv /\ [Next]_vars => FactInv' /\ CountInv'
  BY FactStep, CountStep, ApplicationAssumption
<1>3. FactInv /\ CountInv => CountsSettle
  <2> SUFFICES ASSUME FactInv, CountInv, NEW f \in Facts, NEW r \in Runs, Owes(r, f)
               PROVE  /\ run[r].pc # "done"
                      /\ \E a \in applied : support[a] = f /\ ClaimOf[a] \in ledger[r]
    BY AssertingIsSupporters, ApplicationAssumption DEF CountedInv, CountsSettle, FactInv
  <2>1. PICK c \in ledger[r] : <<f, c>> \in evidence
    BY DEF Owes
  <2>2. PICK a \in applied : <<f, c>> = <<support[a], ClaimOf[a]>>
    BY <2>1 DEF EvidenceInv
  <2> QED
    BY <2>1, <2>2 DEF Owes
<1> HIDE DEF CountInv
<1> QED
  BY <1>1, <1>2, <1>3, PTL DEF Spec

(* The only current testimony under a closed fact is what a run made       *)
(* current again.                                                          *)
OnlyRegainedUnderClosed ==
  \A a \in applied :
    facts[support[a]] = "closed" /\ ClaimOf[a] \in current => Regained(ClaimOf[a])

(* This holds for any assertions, drains, merges and reconciliations,      *)
(* interrupted anywhere.                                                   *)
THEOREM ClosedUnlessRegained == Spec => []OnlyRegainedUnderClosed
<1>1. Init => FactInv /\ RunInv /\ EvidenceInv /\ UncountedInv
  BY FactInit, CountInit, ApplicationAssumption
<1>2. FactInv /\ RunInv /\ EvidenceInv /\ UncountedInv /\ [Next]_vars
        => FactInv' /\ RunInv' /\ EvidenceInv' /\ UncountedInv'
  BY FactStep, CountStep, ApplicationAssumption
<1>3. EvidenceInv /\ UncountedInv => OnlyRegainedUnderClosed
  BY DEF EvidenceInv, UncountedInv, OnlyRegainedUnderClosed
<1> QED
  BY <1>1, <1>2, <1>3, PTL DEF Spec

(* With one run, a fact is closed only when that run is done.              *)
Alone == \A r, q \in Runs : r = q

ClosedAlone == \A f \in Facts : facts[f] = "closed" =>
  /\ \A r \in Runs : run[r].pc = "done"
  /\ \A c \in current : <<f, c>> \notin evidence

LEMMA ClosedAloneStep ==
  ASSUME ApplicationAssumption, Alone, FactInv, RunInv, EvidenceInv, CountedInv, ClosedAlone,
         [Next]_vars
  PROVE  ClosedAlone'
<1>1. ASSUME UNCHANGED <<facts, run, current, evidence>> PROVE ClosedAlone'
  BY <1>1 DEF ClosedAlone
<1>2. CASE UNCHANGED vars
  BY <1>1, <1>2 DEF vars, workVars, factVars
<1>3. ASSUME NEW u \in Units, OpenUnit(u) \/ Reap(u) \/ Replay(u) PROVE ClosedAlone'
  BY <1>1, <1>3 DEF OpenUnit, Reap, Replay, workVars, factVars
<1>4. ASSUME NEW d \in Drainers,
             \/ \E u \in Units : ClaimUnit(d, u)
             \/ DrainerDies(d) \/ ProviderFails(d) \/ CompleteUnit(d)
             \/ Prepare(d) \/ PublishAnswer(d) \/ BeginApply(d)
      PROVE  ClosedAlone'
  BY <1>1, <1>4, Zenon
  DEF ClaimUnit, DrainerDies, ProviderFails, CompleteUnit, Prepare, PublishAnswer, BeginApply,
      workVars, factVars
<1>5. ASSUME NEW e \in Entities, NEW b \in Entities, Merge(e, b) \/ Unmerge(b)
      PROVE  ClosedAlone'
  BY <1>1, <1>5 DEF Merge, Unmerge, workVars, factVars
<1>6. ASSUME NEW r \in Runs,
             \/ ReadStale(r) \/ ApplyTransitions(r) \/ ReadAffected(r) \/ Recount(r)
             \/ ReadZeroSupport(r) \/ Interrupted(r)
      PROVE  ClosedAlone'
  <2>1. run[r].pc # "done" /\ UNCHANGED facts
    BY <1>6 DEF ReadStale, ApplyTransitions, ReadAffected, Recount, ReadZeroSupport, Interrupted,
                RunAt, factVars
  <2> QED
    BY <2>1 DEF ClosedAlone
<1>7. ASSUME NEW d \in Drainers, CommitApply(d) PROVE ClosedAlone'
  <2> DEFINE a == drainer[d].app
             dec == attempt[a].decision
             links == Touched(a, dec)
             made == {a} \cap ({dec.target} \cup {m[2] : m \in dec.moves})
  <2>1. a \in Apps
    BY <1>7, Zenon DEF CommitApply, FactInv, DrainerInv
  <2>2. \A p \in links : facts'[p[1]] = "open"
    BY <1>7, <2>1, TouchedStaysOpen
  <2>3. /\ facts' = [f \in Facts |-> IF f \in made THEN "open" ELSE facts[f]]
        /\ evidence' \subseteq evidence \cup links
        /\ UNCHANGED <<current, run>>
    BY <1>7, Zenon DEF CommitApply
  <2> HIDE DEF made, links
  <2>4. ASSUME NEW f \in Facts, facts'[f] = "closed", NEW c \in current, <<f, c>> \in links
        PROVE  FALSE
    <3>1. <<f, c>>[1] = f
      OBVIOUS
    <3> QED
      BY <2>2, <2>4, <3>1
  <2>5. \A f \in Facts : facts'[f] = "closed" => facts[f] = "closed"
    BY <2>3
  <2> QED
    BY <2>3, <2>4, <2>5 DEF ClosedAlone
<1>8. ASSUME NEW r \in Runs, CloseFacts(r) PROVE ClosedAlone'
  <2> DEFINE s == [NotStarted EXCEPT !.pc = "done"]
  <2>1. /\ run[r].pc = "zero" /\ run' = [run EXCEPT ![r] = s]
        /\ facts' = [f \in Facts |-> IF f \in run[r].zero /\ count[f] = 0 THEN "closed"
                                     ELSE facts[f]]
        /\ UNCHANGED <<evidence, current>>
    BY <1>8 DEF CloseFacts, RunAt
  <2>2. s.pc = "done"
    BY DEF NotStarted
  <2> HIDE DEF s
  <2>3. \A q \in Runs : run'[q].pc = "done"
    BY <2>1, <2>2 DEF RunInv, Alone
  <2>4. ASSUME NEW f \in Facts, count[f] = 0, NEW c \in current PROVE <<f, c>> \notin evidence
    <3>1. ~\E q \in Runs : Owes(q, f)
      BY <2>1 DEF Owes, Alone
    <3>2. Supporters(f, evidence, current) = 0 /\ current \in SUBSET Claims
      BY <2>4, <3>1 DEF CountedInv, RunInv
    <3> QED
      BY <3>2, NoSupporters
  <2>5. ASSUME NEW f \in Facts, facts'[f] = "closed"
        PROVE  facts[f] = "closed" \/ count[f] = 0
    BY <2>1, <2>5
  <2> QED
    BY <2>1, <2>3, <2>4, <2>5 DEF ClosedAlone
<1> QED
  BY <1>2, <1>3, <1>4, <1>5, <1>6, <1>7, <1>8 DEF Next, DrainStep

(* No fact is closed over the head of a current assertion that lands on    *)
(* it, and none lands on a closed fact: for any runs that regain nothing,  *)
(* however they and the drains interleave, and for one run alone whatever  *)
(* it regains.                                                             *)
THEOREM ClosedHaveNoSupport ==
  ASSUME \/ \A r \in Runs : Regains[r] = {}
         \/ Alone /\ Interruptible \subseteq ReplaysLedger
  PROVE  Spec => []ClosedFactsHaveNoSupport
<1> DEFINE Common == FactInv /\ RunInv /\ EvidenceInv /\ UncountedInv
           Single == CountedInv /\ ClosedAlone
<1>1. Init => Common /\ Single
  BY FactInit, CountInit, ApplicationAssumption DEF Init, ClosedAlone
<1>2. Common /\ [Next]_vars => Common'
  BY FactStep, CountStep, ApplicationAssumption
<1>3. CASE \A r \in Runs : Regains[r] = {}
  <2>1. Common => ClosedFactsHaveNoSupport
    BY <1>3 DEF EvidenceInv, UncountedInv, Regained, ClosedFactsHaveNoSupport
  <2> HIDE DEF Common, Single
  <2> QED
    BY <1>1, <1>2, <2>1, PTL DEF Spec
<1>4. CASE Alone /\ Interruptible \subseteq ReplaysLedger
  <2>1. Common /\ Single /\ [Next]_vars => Single'
    BY <1>4, CountStep, ClosedAloneStep, ApplicationAssumption
  <2>2. Common /\ Single => ClosedFactsHaveNoSupport
    BY DEF EvidenceInv, ClosedAlone, ClosedFactsHaveNoSupport
  <2> HIDE DEF Common, Single
  <2> QED
    BY <1>1, <1>2, <2>1, <2>2, PTL DEF Spec
<1> QED
  BY <1>3, <1>4

-----------------------------------------------------------------------------
(* Types                                                                   *)

SlotInv ==
  \A d \in Drainers : drainer[d].unit \in Units \cup {None} /\ drainer[d].app \in Apps \cup {None}

IdInv == \A a \in Apps : attempt[a].id \in 0..(Cardinality(Drainers) + 2)

NumberInv == admission \in [Apps -> 0..Cardinality(Apps)]

FactTypes ==
  /\ facts \in [Facts -> {"none", "open", "closed"}]
  /\ about \in [Facts -> Entities \cup {None}]
  /\ count \in [Facts -> 0..Cardinality(Docs)]

TypeInv == SlotInv /\ IdInv /\ NumberInv /\ FactTypes

(* There is a fresh id: used are at most the attempt's and one per slot.   *)
LEMMA FreshIdExists ==
  ASSUME ApplicationAssumption, NEW a \in Apps
  PROVE  FreshId(a) \in 0..(Cardinality(Drainers) + 2)
<1> DEFINE n    == Cardinality(Drainers)
           ids  == {drainer[d].id : d \in Drainers}
           held == {drainer[d].id : d \in {x \in Drainers : drainer[x].app = a}}
           used == {attempt[a].id} \cup held
           free == (1..(n + 2)) \ used
           idOf == [d \in Drainers |-> drainer[d].id]
<1>1. IsFiniteSet(Drainers) /\ n \in Nat
  BY FS_CardinalityType DEF ApplicationAssumption
<1>2. IsFiniteSet(ids) /\ Cardinality(ids) <= n
  <2>1. idOf \in Surjection(Drainers, ids)
    BY DEF Surjection
  <2> HIDE DEF idOf, ids
  <2> QED
    BY <1>1, <2>1, FS_Surjection
<1>3. held \in SUBSET ids
  OBVIOUS
<1> HIDE DEF n, ids, held
<1>4. IsFiniteSet(used) /\ Cardinality(used) <= n + 1
  <2>1. IsFiniteSet(held) /\ Cardinality(held) <= Cardinality(ids)
    BY <1>2, <1>3, FS_Subset
  <2>2. Cardinality(held) \in Nat /\ Cardinality(ids) \in Nat
    BY <1>2, <2>1, FS_CardinalityType
  <2>3. used = held \cup {attempt[a].id}
    OBVIOUS
  <2>4. /\ IsFiniteSet(held \cup {attempt[a].id})
        /\ \/ Cardinality(held \cup {attempt[a].id}) = Cardinality(held)
           \/ Cardinality(held \cup {attempt[a].id}) = Cardinality(held) + 1
    BY <2>1, FS_AddElement
  <2> HIDE DEF used
  <2> QED
    BY <1>1, <1>2, <2>1, <2>2, <2>3, <2>4
<1>5. free # {}
  <2> SUFFICES ASSUME free = {} PROVE FALSE
    OBVIOUS
  <2>1. (1..(n + 2)) \in SUBSET used
    OBVIOUS
  <2> HIDE DEF used
  <2>2. Cardinality(1..(n + 2)) <= Cardinality(used)
    BY <1>4, <2>1, FS_Subset
  <2>3. Cardinality(1..(n + 2)) = n + 2
    BY <1>1, FS_Interval
  <2>4. Cardinality(used) \in Nat
    BY <1>4, FS_CardinalityType
  <2> QED
    BY <1>1, <1>4, <2>2, <2>3, <2>4
<1>6. free \in SUBSET Nat
  BY <1>1
<1>7. FreshId(a) = CHOOSE i \in free : \A j \in free : i <= j
  BY DEF FreshId, n, held
<1>8. free \subseteq 0..(n + 2)
  BY <1>1
<1> HIDE DEF free
<1>9. \E i \in free : \A j \in free : i <= j
  BY <1>5, <1>6, LeastNatural
<1>10. FreshId(a) \in free
  BY <1>7, <1>9
<1> QED
  BY <1>8, <1>10 DEF n

(* Numbers given out do not exceed the applications.                       *)
LEMMA AdmitBounded ==
  ASSUME ApplicationAssumption, NumberInv, NEW members
  PROVE  Admit(members) \in [Apps -> 0..Cardinality(Apps)]
<1> DEFINE new   == {a \in Apps \ applied :
                       SubjectOf[a] \in members /\ admission[a] = 0 /\ Eligible(a)}
           given == {a \in Apps : admission[a] # 0}
           last  == Cardinality(given)
           upto(a) == {b \in new : Rank[b] <= Rank[a]}
<1>1. IsFiniteSet(Apps) /\ Cardinality(Apps) \in Nat
  BY FS_CardinalityType DEF ApplicationAssumption
<1>2. given \in SUBSET Apps /\ new \in SUBSET Apps /\ given \cap new = {}
  OBVIOUS
<1>3. ASSUME NEW a \in Apps
      PROVE  last + Cardinality(upto(a)) \in 0..Cardinality(Apps)
  <2> DEFINE U == upto(a)
  <2>1. U \in SUBSET Apps /\ given \cap U = {} /\ given \cup U \in SUBSET Apps
    BY <1>2
  <2> HIDE DEF U, given
  <2>2. IsFiniteSet(given) /\ IsFiniteSet(U)
    BY <1>1, <1>2, <2>1, FS_Subset
  <2>3. Cardinality(given \cup U) = last + Cardinality(U) - Cardinality(given \cap U)
    BY <2>2, FS_Union
  <2>4. Cardinality(given \cap U) = 0
    BY <2>1, FS_EmptySet
  <2>5. Cardinality(given \cup U) <= Cardinality(Apps)
    BY <1>1, <2>1, FS_Subset
  <2>6. last \in Nat /\ Cardinality(U) \in Nat
    BY <2>2, FS_CardinalityType
  <2>7. last + Cardinality(U) \in 0..Cardinality(Apps)
    <3> HIDE DEF last
    <3> QED
      BY <1>1, <2>3, <2>4, <2>5, <2>6
  <2> QED
    BY <2>7 DEF U
<1>4. Admit(members) = [a \in Apps |-> IF a \in new THEN last + Cardinality(upto(a))
                                       ELSE admission[a]]
  BY DEF Admit
<1> HIDE DEF last, upto, new
<1> QED
  BY <1>3, <1>4 DEF NumberInv

LEMMA TypeInit == ASSUME ApplicationAssumption, Init PROVE TypeInv
<1>1. Cardinality(Apps) \in Nat /\ Cardinality(Drainers) \in Nat /\ Cardinality(Docs) \in Nat
  BY FS_CardinalityType DEF ApplicationAssumption
<1>2. SlotInv /\ FactTypes
  BY <1>1 DEF Init, Idle, SlotInv, FactTypes
<1>3. IdInv /\ NumberInv
  BY <1>1 DEF Init, NoAttempt, IdInv, NumberInv
<1> QED
  BY <1>2, <1>3 DEF TypeInv

(* Where a step leaves the slots.                                          *)
LEMMA SlotMoves ==
  ASSUME FactInv, SlotInv, NEW d \in Drainers, NEW s, drainer' = [drainer EXCEPT ![d] = s],
         s.unit \in Units \cup {None}, s.app \in Apps \cup {None}
  PROVE  SlotInv'
BY DEF FactInv, DrainerInv, SlotInv

LEMMA SlotBack ==
  ASSUME FactInv, SlotInv, NEW d \in Drainers,
         \/ drainer' = [drainer EXCEPT ![d] = Idle]
         \/ Back(d)
         \/ \E u \in Units : drainer' = [drainer EXCEPT ![d] = [Idle EXCEPT !.pc = "drain",
                                                                           !.unit = u]]
         \/ drainer' = [drainer EXCEPT ![d] = [Idle EXCEPT !.pc = "apply",
                                                           !.app = drainer[d].app,
                                                           !.unit = drainer[d].unit]]
  PROVE  SlotInv'
<1> USE DEF Idle
<1>1. CASE drainer' = [drainer EXCEPT ![d] = Idle]
  BY <1>1, SlotMoves
<1>2. CASE Back(d)
  <2> DEFINE s == [Idle EXCEPT !.pc = "drain", !.unit = drainer[d].unit]
  <2>1. /\ s.unit \in Units \cup {None} /\ s.app \in Apps \cup {None}
        /\ drainer' = [drainer EXCEPT ![d] = s]
    BY <1>2 DEF Back, SlotInv
  <2> HIDE DEF s
  <2> QED
    BY <2>1, SlotMoves, Zenon
<1>3. ASSUME NEW u \in Units,
             drainer' = [drainer EXCEPT ![d] = [Idle EXCEPT !.pc = "drain", !.unit = u]]
      PROVE  SlotInv'
  <2> DEFINE s == [Idle EXCEPT !.pc = "drain", !.unit = u]
  <2>1. /\ s.unit \in Units \cup {None} /\ s.app \in Apps \cup {None}
        /\ drainer' = [drainer EXCEPT ![d] = s]
    BY <1>3, Zenon
  <2> HIDE DEF s
  <2> QED
    BY <2>1, SlotMoves, Zenon
<1>4. CASE drainer' = [drainer EXCEPT ![d] = [Idle EXCEPT !.pc = "apply", !.app = drainer[d].app,
                                                          !.unit = drainer[d].unit]]
  <2> DEFINE s == [Idle EXCEPT !.pc = "apply", !.app = drainer[d].app, !.unit = drainer[d].unit]
  <2>1. /\ s.unit \in Units \cup {None} /\ s.app \in Apps \cup {None}
        /\ drainer' = [drainer EXCEPT ![d] = s]
    BY <1>4 DEF SlotInv
  <2> HIDE DEF s
  <2> QED
    BY <2>1, SlotMoves, Zenon
<1> QED
  BY <1>1, <1>2, <1>3, <1>4, Zenon

LEMMA SlotStep ==
  ASSUME ApplicationAssumption, FactInv, SlotInv, NEW d \in Drainers,
         \/ \E u \in Units : ClaimUnit(d, u)
         \/ DrainerDies(d) \/ ProviderFails(d) \/ DrainStep(d)
  PROVE  SlotInv'
<1>1. CASE \/ \E u \in Units : ClaimUnit(d, u)
           \/ DrainerDies(d) \/ ProviderFails(d) \/ CompleteUnit(d)
  BY <1>1, SlotBack, Zenon DEF ClaimUnit, DrainerDies, ProviderFails, Raise, CompleteUnit
<1>2. CASE PublishAnswer(d) \/ CommitApply(d)
  BY <1>2, SlotBack, Zenon DEF PublishAnswer, Publish, CommitApply
<1>3. ASSUME NEW pc, drainer' = [drainer EXCEPT ![d].pc = pc] PROVE SlotInv'
  <2> DEFINE s == [drainer[d] EXCEPT !.pc = pc]
  <2>1. /\ s.unit \in Units \cup {None} /\ s.app \in Apps \cup {None}
        /\ drainer' = [drainer EXCEPT ![d] = s]
    BY <1>3 DEF SlotInv, FactInv, DrainerInv
  <2> HIDE DEF s
  <2> QED
    BY <2>1, SlotMoves, Zenon
<1>4. CASE BeginApply(d)
  BY <1>3, <1>4, SlotBack, Zenon DEF BeginApply, Raise
<1>5. CASE Prepare(d)
  <2>1. ASSUME NEW a \in Apps, PrepareHead(d, a) PROVE SlotInv'
    <3>1. PICK i, inputs :
            \/ drainer' = [drainer EXCEPT ![d] = [@ EXCEPT !.pc = "ask", !.app = a, !.id = i,
                                                           !.inputs = inputs]]
            \/ drainer' = [drainer EXCEPT ![d] = [@ EXCEPT !.pc = "apply", !.app = a]]
      BY <2>1, Zenon DEF PrepareHead
    <3> DEFINE s == [drainer[d] EXCEPT !.pc = "ask", !.app = a, !.id = i, !.inputs = inputs]
               t == [drainer[d] EXCEPT !.pc = "apply", !.app = a]
    <3>2. drainer' = [drainer EXCEPT ![d] = s] \/ drainer' = [drainer EXCEPT ![d] = t]
      BY <3>1
    <3>3. /\ s.unit \in Units \cup {None} /\ s.app \in Apps \cup {None}
          /\ t.unit \in Units \cup {None} /\ t.app \in Apps \cup {None}
      BY DEF SlotInv, FactInv, DrainerInv
    <3> HIDE DEF s, t
    <3> QED
      BY <3>2, <3>3, SlotMoves
  <2> QED
    BY <1>3, <1>5, <2>1 DEF Prepare, Heads
<1> QED
  BY <1>1, <1>2, <1>4, <1>5 DEF DrainStep

LEMMA IdStep ==
  ASSUME ApplicationAssumption, FactInv, IdInv, NEW d \in Drainers, DrainStep(d)
  PROVE  IdInv'
<1>1. ASSUME NEW a \in Apps, attempt' = [attempt EXCEPT ![a] = NoAttempt] PROVE IdInv'
  <2>1. NoAttempt.id = 0 /\ 0 \in 0..(Cardinality(Drainers) + 2)
    BY FS_CardinalityType DEF NoAttempt, ApplicationAssumption
  <2> QED
    BY <1>1, <2>1 DEF FactInv, AttemptInv, IdInv
<1>2. CASE UNCHANGED attempt
  BY <1>2 DEF IdInv
<1>3. CASE CompleteUnit(d)
  BY <1>2, <1>3 DEF CompleteUnit, workVars
<1>4. CASE CommitApply(d) \/ BeginApply(d)
  BY <1>1, <1>2, <1>4, Zenon DEF CommitApply, BeginApply, FactInv, DrainerInv
<1>5. CASE PublishAnswer(d)
  <2>1. PICK dec : attempt' = [attempt EXCEPT ![drainer[d].app].decision = dec]
                     \/ UNCHANGED attempt
    BY <1>5 DEF PublishAnswer, Publish
  <2>2. \A a \in Apps : attempt'[a].id = attempt[a].id
    BY <2>1 DEF FactInv, AttemptInv
  <2> QED
    BY <2>2 DEF IdInv
<1>6. ASSUME NEW a \in Apps, PrepareHead(d, a) PROVE IdInv'
  <2> DEFINE next == IF attempt[a].id # 0 /\ attempt[a].inputs = Snapshot(a) THEN attempt[a]
                     ELSE [id |-> FreshId(a), inputs |-> Snapshot(a),
                           decision |-> SoleNewFact(a, Snapshot(a))]
  <2>1. attempt' = [attempt EXCEPT ![a] = next]
    BY <1>6 DEF PrepareHead
  <2>2. next.id \in 0..(Cardinality(Drainers) + 2)
    BY FreshIdExists DEF IdInv
  <2> HIDE DEF next
  <2> QED
    BY <2>1, <2>2 DEF FactInv, AttemptInv, IdInv
<1>7. CASE Prepare(d)
  BY <1>2, <1>6, <1>7 DEF Prepare, Heads
<1> QED
  BY <1>3, <1>4, <1>5, <1>7 DEF DrainStep

LEMMA NumberStep ==
  ASSUME ApplicationAssumption, NumberInv, NEW d \in Drainers, DrainStep(d)
  PROVE  NumberInv'
<1>1. CASE UNCHANGED admission
  BY <1>1 DEF NumberInv
<1>2. ASSUME NEW members, admission' = Admit(members) PROVE NumberInv'
  BY <1>2, AdmitBounded DEF NumberInv
<1> QED
  BY <1>1, <1>2, Zenon
  DEF DrainStep, Prepare, PublishAnswer, BeginApply, CommitApply, CompleteUnit, workVars

LEMMA FactTypesStep ==
  ASSUME ApplicationAssumption, FactInv, RunInv, FactTypes,
         \/ \E d \in Drainers : CommitApply(d)
         \/ \E r \in Runs : Recount(r) \/ CloseFacts(r)
  PROVE  FactTypes'
<1>0. current \in SUBSET Claims
  BY DEF RunInv
<1>1. ASSUME NEW d \in Drainers, CommitApply(d) PROVE FactTypes'
  <2> DEFINE a == drainer[d].app
             dec == attempt[a].decision
             links == Touched(a, dec)
             made == {a} \cap ({dec.target} \cup {m[2] : m \in dec.moves})
             recounted == {p[1] : p \in links} \cup made
  <2>1. /\ facts' = [f \in Facts |-> IF f \in made THEN "open" ELSE facts[f]]
        /\ about' = [f \in Facts |-> IF f \in made THEN dec.asked.root ELSE about[f]]
        /\ count' = [f \in Facts |-> IF f \in recounted
                                     THEN Supporters(f, evidence', current) ELSE count[f]]
    BY <1>1, Zenon DEF CommitApply
  <2>2. a \in Apps /\ Commits(d, a)
    BY <1>1, Zenon DEF CommitApply, FactInv, DrainerInv, Commits
  <2>3. dec.asked.root \in Entities
    BY <2>2, TouchedIsShown, RootOfRoot DEF ApplicationAssumption, FactInv
  <2>4. \A f \in Facts : Supporters(f, evidence', current) \in 0..Cardinality(Docs)
    BY <1>0, NoSupporters
  <2> HIDE DEF recounted, made, a, dec
  <2> QED
    BY <2>1, <2>3, <2>4 DEF FactTypes
<1>2. ASSUME NEW r \in Runs, Recount(r) PROVE FactTypes'
  <2>1. \A f \in Facts : Supporters(f, evidence, current) \in 0..Cardinality(Docs)
    BY <1>0, NoSupporters
  <2> QED
    BY <1>2, <2>1 DEF Recount, FactTypes
<1>3. ASSUME NEW r \in Runs, CloseFacts(r) PROVE FactTypes'
  BY <1>3 DEF CloseFacts, FactTypes
<1> QED
  BY <1>1, <1>2, <1>3

LEMMA TypeStep ==
  ASSUME ApplicationAssumption, FactInv, RunInv, TypeInv, [Next]_vars
  PROVE  TypeInv'
<1>1. CASE \E d \in Drainers : DrainStep(d)
  <2>1. PICK d \in Drainers : DrainStep(d)
    BY <1>1
  <2>2. SlotInv' /\ IdInv' /\ NumberInv'
    BY <2>1, SlotStep, IdStep, NumberStep DEF TypeInv
  <2>3. FactTypes'
    <3>1. CASE CommitApply(d)
      BY <3>1, FactTypesStep DEF TypeInv
    <3>2. CASE ~CommitApply(d)
      <4>1. UNCHANGED <<facts, about, count>>
        BY <2>1, <3>2
        DEF DrainStep, Prepare, PublishAnswer, BeginApply, CompleteUnit, factVars
      <4> QED
        BY <4>1 DEF TypeInv, FactTypes
    <3> QED
      BY <3>1, <3>2
  <2> QED
    BY <2>2, <2>3 DEF TypeInv
<1>2. ASSUME NEW d \in Drainers,
             \/ \E u \in Units : ClaimUnit(d, u)
             \/ ProviderFails(d) \/ DrainerDies(d)
      PROVE  TypeInv'
  <2>1. SlotInv'
    BY <1>2, SlotStep DEF TypeInv
  <2>2. UNCHANGED <<attempt, admission, facts, about, count>>
    BY <1>2, Zenon DEF ClaimUnit, ProviderFails, DrainerDies, workVars, factVars
  <2> QED
    BY <2>1, <2>2 DEF TypeInv, IdInv, NumberInv, FactTypes
<1>3. ASSUME UNCHANGED <<drainer, attempt, admission, facts, about, count>> PROVE TypeInv'
  BY <1>3 DEF TypeInv, SlotInv, IdInv, NumberInv, FactTypes
<1>4. ASSUME NEW r \in Runs, Recount(r) \/ CloseFacts(r) PROVE TypeInv'
  <2>1. FactTypes' /\ UNCHANGED <<drainer, attempt, admission>>
    BY <1>4, FactTypesStep DEF Recount, CloseFacts, workVars, TypeInv
  <2> QED
    BY <2>1 DEF TypeInv, SlotInv, IdInv, NumberInv
<1>5. ASSUME NEW r \in Runs,
             \/ ReadStale(r) \/ ApplyTransitions(r) \/ ReadAffected(r)
             \/ ReadZeroSupport(r) \/ Interrupted(r)
      PROVE  TypeInv'
  BY <1>3, <1>5
  DEF ReadStale, ApplyTransitions, ReadAffected, ReadZeroSupport, Interrupted, workVars, factVars
<1>6. ASSUME NEW e \in Entities, NEW b \in Entities, Merge(e, b) \/ Unmerge(b) PROVE TypeInv'
  BY <1>3, <1>6 DEF Merge, Unmerge, workVars, factVars
<1>7. ASSUME NEW u \in Units, OpenUnit(u) \/ Reap(u) \/ Replay(u) PROVE TypeInv'
  BY <1>3, <1>7 DEF OpenUnit, Reap, Replay, workVars, factVars
<1>8. CASE UNCHANGED vars
  BY <1>3, <1>8 DEF vars, workVars, factVars
<1> QED
  BY <1>1, <1>2, <1>4, <1>5, <1>6, <1>7, <1>8 DEF Next

(* The state is well formed for any assertions, drains, runs and           *)
(* identities: attempt ids and admission numbers stay within their ranges, *)
(* and no count exceeds the number of lineages.                            *)
THEOREM TypeCorrect == Spec => []TypeOK
<1> DEFINE Inv == FactInv /\ DoneInv /\ RunInv /\ EvidenceInv /\ UncountedInv /\ TypeInv
<1>1. Init => Inv
  BY FactInit, DoneInit, CountInit, TypeInit, ApplicationAssumption
<1>2. Inv /\ [Next]_vars => Inv'
  BY FactStep, DoneStep, CountStep, TypeStep, ApplicationAssumption
<1>3. Inv => TypeOK
  <2> SUFFICES ASSUME Inv PROVE TypeOK
    OBVIOUS
  <2>1. unit \in [Units -> {"absent", "pending", "dead", "done"} \cup Drainers]
    BY DEF DoneInv, UnitInv
  <2>2. \A d \in Drainers :
          /\ drainer[d].pc \in {"idle", "drain", "ask", "apply", "commit", "drained"}
          /\ drainer[d].unit \in Units \cup {None}
          /\ drainer[d].app \in Apps \cup {None}
          /\ drainer[d].pc \in {"ask", "apply", "commit"} => drainer[d].app # None
    BY ApplicationAssumption DEF FactInv, DrainerInv, TypeInv, SlotInv, ApplicationAssumption
  <2>3. /\ applied \subseteq Apps /\ support \in [Apps -> Facts \cup {None}]
        /\ merged \in [Entities -> Entities \cup {None}]
        /\ current \subseteq Claims /\ ledger \in [Runs -> SUBSET Claims]
    BY DEF FactInv, UnmadeInv, EvidenceInv, MergedType, RunInv
  <2>4. evidence \subseteq Facts \X Claims
    BY <2>3, ApplicationAssumption DEF EvidenceInv, ApplicationAssumption
  <2> QED
    BY <2>1, <2>2, <2>3, <2>4 DEF TypeOK, TypeInv, IdInv, NumberInv, FactTypes
<1> HIDE DEF Inv
<1> QED
  BY <1>1, <1>2, <1>3, PTL DEF Spec
=============================================================================
