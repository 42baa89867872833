------------------------ MODULE ProcessingLayersProofs ------------------------
(***************************************************************************)
(* What holds of the processing layers of a lineage, for any number of     *)
(* versions, deletions and configuration changes: tails never run beside   *)
(* fact work, the current version of a living lineage is never left        *)
(* discharged, a lineage at rest has lost no version, and no reconcile of  *)
(* a later version runs beside the fact work of an earlier one.            *)
(*                                                                         *)
(* Advance is a composition of functions on a lineage.  Each of them is    *)
(* shown to keep a lineage good, and the boundaries to make one good again *)
(* whose version has just arrived; the second half of the module shows the *)
(* same of its order.                                                      *)
(***************************************************************************)
EXTENDS ProcessingLayers, NaturalFacts, TLAPS

GapStates == {"none", "open", "entered", "discharged"}

Lineage == [latest : Nat, current : {Unset} \cup Versions, deleted : SUBSET Versions,
            sources : [Versions -> {"absent", "converting", "ready", "embedded"}],
            gap : [Versions -> [Layers -> GapStates]],
            work : [Versions -> [Stages -> RowStatuses]]]

(* Gaps and rows of a version, and the order of its tail and fact work.    *)
RowsFit(s, v) ==
  /\ \A l \in Layers : s.gap[v][l] # "none" => Live(s, v) /\ SourcesComplete(s, v)
  /\ \A st \in Stages : s.work[v][st] # "none" => SourcesComplete(s, v)
  /\ s.gap[v]["facts"] = "entered" => s.work[v]["tail"] \in {"none", "done"}
  /\ s.gap[v]["claims"] \in {"open", "discharged"} => s.work[v]["extract"] = "none"

(* Facts have been asked of the version, or are recorded as missing.       *)
Booked(s, v) == s.gap[v]["facts"] # "none" \/ s.work[v]["full"] # "none"

Chained(s, v) ==
  Live(s, v) =>
    /\ s.work[v]["claimEmbed"] # "none" \/ s.work[v]["tail"] # "none" => Booked(s, v)
    /\ s.work[v]["facts"] = "done" => s.work[v]["full"] # "none"

(* A version past its sources is somewhere on its way.                     *)
OnItsWay(s, v) ==
  Live(s, v) /\ SourcesComplete(s, v) =>
    \/ Booked(s, v) \/ s.work[v]["facts"] # "none"
    \/ s.work[v]["extract"] \notin {"none", "done"}
    \/ s.work[v]["extract"] = "none" /\ s.gap[v]["claims"] = "open"

(* A good lineage, and one whose version v is just at a boundary.          *)
AlmostGood(s, v) ==
  /\ s \in Lineage
  /\ \A u \in Versions : RowsFit(s, u) /\ Chained(s, u)
  /\ \A u \in Versions \ {v} : OnItsWay(s, u)

Good(s) ==
  /\ s \in Lineage
  /\ \A u \in Versions : RowsFit(s, u) /\ Chained(s, u) /\ OnItsWay(s, u)

Undischarged(s, layer) ==
  living /\ s.current # Unset /\ Live(s, s.current) => s.gap[s.current][layer] # "discharged"

(* Whom the lineage knows, and what a deployment not configured leaves out.*)
Placed(s) ==
  /\ s.latest <= LastVersion /\ s.deleted \subseteq 1..s.latest /\ s.current <= s.latest
  /\ \A v \in Versions : s.sources[v] # "absent" => v <= s.latest
  /\ \A l \in Layers : Undischarged(s, l)
  /\ config.configured \/ \A v \in Versions, l \in Layers : s.gap[v][l] = "none"

LayersInv ==
  /\ config \in Configs /\ seedOwed \subseteq Layers /\ switches \in 0..MaxSwitches
  /\ testimony \in [Versions -> {"none", "current", "retired"}]
  /\ cascading \subseteq lin.deleted
  /\ config.configured \/ seedOwed = {}
  /\ Good(lin) /\ Placed(lin)

-----------------------------------------------------------------------------
(* What the functions on a lineage change.                                 *)

(* A result with the same versions, whose gaps and rows are these.         *)
Becomes(s, t, gap, work) ==
  /\ t \in Lineage
  /\ t.latest = s.latest /\ t.current = s.current
  /\ t.deleted = s.deleted /\ t.sources = s.sources
  /\ t.gap = gap /\ t.work = work

LEMMA Enqueues ==
  ASSUME NEW s \in Lineage, NEW v \in Versions, NEW stages
  PROVE  Becomes(s, Enqueue(s, v, stages), s.gap,
                 [s.work EXCEPT ![v] = [st \in Stages |->
                    IF st \in stages /\ s.work[v][st] = "none" THEN "open"
                    ELSE s.work[v][st]]])
<1> DEFINE work == [s.work EXCEPT ![v] = [st \in Stages |->
                      IF st \in stages /\ s.work[v][st] = "none" THEN "open"
                      ELSE s.work[v][st]]]
<1>1. Enqueue(s, v, stages) = [s EXCEPT !.work = work]
  BY DEF Enqueue, Lineage
<1>2. work \in [Versions -> [Stages -> RowStatuses]]
  BY DEF Lineage, RowStatuses
<1> HIDE DEF work
<1>3. Becomes(s, [s EXCEPT !.work = work], s.gap, work)
  BY <1>2 DEF Becomes, Lineage
<1> QED
  BY <1>1, <1>3 DEF work

LEMMA RecordsGap ==
  ASSUME NEW s \in Lineage, NEW v \in Versions, NEW layer \in Layers
  PROVE  Becomes(s, RecordGap(s, v, layer),
                 [s.gap EXCEPT ![v][layer] = IF @ = "none" THEN "open" ELSE @], s.work)
<1> DEFINE gap == [s.gap EXCEPT ![v][layer] = IF @ = "none" THEN "open" ELSE @]
<1>1. RecordGap(s, v, layer) = [s EXCEPT !.gap = gap]
  BY DEF RecordGap, Lineage
<1>2. gap \in [Versions -> [Layers -> GapStates]]
  BY DEF Lineage, GapStates
<1> HIDE DEF gap
<1>3. Becomes(s, [s EXCEPT !.gap = gap], gap, s.work)
  BY <1>2 DEF Becomes, Lineage
<1> QED
  BY <1>1, <1>3 DEF gap

LEMMA Stamps ==
  ASSUME NEW s \in Lineage, NEW v \in Versions, NEW layer \in Layers
  PROVE  Becomes(s, Stamp(s, layer, v), [s.gap EXCEPT ![v][layer] = "entered"], s.work)
<1> DEFINE gap == [s.gap EXCEPT ![v][layer] = "entered"]
<1>1. Stamp(s, layer, v) = [s EXCEPT !.gap = gap]
  BY DEF Stamp, Lineage
<1>2. gap \in [Versions -> [Layers -> GapStates]]
  BY DEF Lineage, GapStates
<1> HIDE DEF gap
<1>3. Becomes(s, [s EXCEPT !.gap = gap], gap, s.work)
  BY <1>2 DEF Becomes, Lineage
<1> QED
  BY <1>1, <1>3 DEF gap

LEMMA OpensTails ==
  ASSUME NEW s \in Lineage, NEW versions
  PROVE  Becomes(s, OpenTails(s, versions), s.gap,
                 [v \in Versions |->
                    IF v \in versions
                    THEN [st \in Stages |-> IF /\ st \in {"claimEmbed", "tail"}
                                               /\ s.work[v][st] = "none"
                                            THEN "open" ELSE s.work[v][st]]
                    ELSE s.work[v]])
<1> DEFINE work == [v \in Versions |->
                      IF v \in versions
                      THEN [st \in Stages |-> IF /\ st \in {"claimEmbed", "tail"}
                                                 /\ s.work[v][st] = "none"
                                              THEN "open" ELSE s.work[v][st]]
                      ELSE s.work[v]]
<1>1. OpenTails(s, versions) = [s EXCEPT !.work = work]
  BY DEF OpenTails
<1>2. work \in [Versions -> [Stages -> RowStatuses]]
  BY DEF Lineage, RowStatuses
<1> HIDE DEF work
<1>3. Becomes(s, [s EXCEPT !.work = work], s.gap, work)
  BY <1>2 DEF Becomes, Lineage
<1> QED
  BY <1>1, <1>3 DEF work

LEMMA Discharges ==
  ASSUME NEW s \in Lineage, NEW layer \in Layers
  PROVE  Becomes(s, DischargeSuperseded(s, layer),
                 [v \in Versions |->
                    IF v # s.current /\ s.gap[v][layer] = "open"
                    THEN [l \in Layers |-> IF l \in Dependent(layer) /\ s.gap[v][l] # "entered"
                                           THEN "discharged" ELSE s.gap[v][l]]
                    ELSE s.gap[v]], s.work)
<1> DEFINE gap == [v \in Versions |->
                     IF v # s.current /\ s.gap[v][layer] = "open"
                     THEN [l \in Layers |-> IF l \in Dependent(layer) /\ s.gap[v][l] # "entered"
                                            THEN "discharged" ELSE s.gap[v][l]]
                     ELSE s.gap[v]]
<1>1. DischargeSuperseded(s, layer) = [s EXCEPT !.gap = gap]
  BY DEF DischargeSuperseded
<1>2. gap \in [Versions -> [Layers -> GapStates]]
  BY DEF Lineage, GapStates
<1> HIDE DEF gap
<1>3. Becomes(s, [s EXCEPT !.gap = gap], gap, s.work)
  BY <1>2 DEF Becomes, Lineage
<1> QED
  BY <1>1, <1>3 DEF gap

LEMMA Reopens ==
  ASSUME NEW s \in Lineage, NEW layer \in Layers
  PROVE  Becomes(s, ReopenCurrent(s, layer),
                 [v \in Versions |->
                    IF v = s.current /\ v # Unset /\ s.gap[v][layer] = "discharged"
                    THEN [l \in Layers |-> IF l \in Dependent(layer) /\ s.gap[v][l] = "discharged"
                                           THEN "open" ELSE s.gap[v][l]]
                    ELSE s.gap[v]], s.work)
<1> DEFINE gap == [v \in Versions |->
                     IF v = s.current /\ v # Unset /\ s.gap[v][layer] = "discharged"
                     THEN [l \in Layers |-> IF l \in Dependent(layer)
                                               /\ s.gap[v][l] = "discharged"
                                            THEN "open" ELSE s.gap[v][l]]
                     ELSE s.gap[v]]
<1>1. gap \in [Versions -> [Layers -> GapStates]]
  BY DEF Lineage, GapStates
<1>2. CASE s.current # Unset /\ s.gap[s.current][layer] = "discharged"
  <2>1. ReopenCurrent(s, layer).gap = gap
    BY <1>2 DEF ReopenCurrent, Lineage
  <2>2. ReopenCurrent(s, layer) = [s EXCEPT !.gap = ReopenCurrent(s, layer).gap]
    BY <1>2 DEF ReopenCurrent, Lineage
  <2> HIDE DEF gap
  <2>3. Becomes(s, [s EXCEPT !.gap = gap], gap, s.work)
    BY <1>1 DEF Becomes, Lineage
  <2> QED
    BY <2>1, <2>2, <2>3 DEF gap
<1>3. CASE ~(s.current # Unset /\ s.gap[s.current][layer] = "discharged")
  <2>1. gap = s.gap
    BY <1>3 DEF Lineage
  <2> HIDE DEF gap
  <2>2. Becomes(s, s, gap, s.work)
    BY <2>1 DEF Becomes
  <2> QED
    BY <1>3, <2>2 DEF ReopenCurrent, gap
<1> QED
  BY <1>2, <1>3

-----------------------------------------------------------------------------
(* Each of them keeps a lineage good.                                      *)

SameVersions(s, t) ==
  /\ t.latest = s.latest /\ t.current = s.current
  /\ t.deleted = s.deleted /\ t.sources = s.sources

(* A good lineage of the same versions, that no more leaves its current    *)
(* version discharged than s did.                                          *)
Follows(s, t) ==
  /\ Good(t) /\ SameVersions(s, t)
  /\ \A l \in Layers : Undischarged(s, l) => Undischarged(t, l)

LEMMA FollowsChains ==
  ASSUME NEW s, NEW t, NEW u, Follows(s, t), Follows(t, u)
  PROVE  Follows(s, u)
  BY DEF Follows, SameVersions

LEMMA StaysPut ==
  ASSUME NEW s, Good(s)
  PROVE  Follows(s, s)
  BY DEF Follows, SameVersions

LEMMA BookingMakesGood ==
  ASSUME NEW s, NEW v \in Versions, AlmostGood(s, v), Live(s, v), SourcesComplete(s, v)
  PROVE  Follows(s, RecordGap(s, v, "facts"))
<1> DEFINE t == RecordGap(s, v, "facts")
<1>1. /\ s \in Lineage /\ t \in Lineage /\ SameVersions(s, t) /\ t.work = s.work
      /\ t.gap = [s.gap EXCEPT ![v]["facts"] = IF @ = "none" THEN "open" ELSE @]
  BY RecordsGap DEF AlmostGood, Becomes, SameVersions, Layers
<1> HIDE DEF t
<1>2. /\ \A u \in Versions \ {v} : t.gap[u] = s.gap[u]
      /\ t.gap[v]["claims"] = s.gap[v]["claims"]
      /\ t.gap[v]["facts"] = IF s.gap[v]["facts"] = "none" THEN "open" ELSE s.gap[v]["facts"]
  BY <1>1 DEF Lineage, Layers
<1>3. ASSUME NEW u \in Versions PROVE RowsFit(t, u) /\ Chained(t, u) /\ OnItsWay(t, u)
  <2>1. CASE u = v
    BY <1>1, <1>2, <2>1 DEF AlmostGood, RowsFit, Chained, OnItsWay, Booked, Live,
                            SourcesComplete, SameVersions, Layers
  <2>2. CASE u # v
    BY <1>1, <1>2, <2>2 DEF AlmostGood, RowsFit, Chained, OnItsWay, Booked, Live,
                            SourcesComplete, SameVersions
  <2> QED
    BY <2>1, <2>2
<1>4. ASSUME NEW l \in Layers, Undischarged(s, l) PROVE Undischarged(t, l)
  <2>1. s.current \in {Unset} \cup Versions
    BY <1>1 DEF Lineage
  <2> QED
    BY <1>1, <1>2, <1>4, <2>1 DEF Undischarged, SameVersions, Live, Layers
<1> QED
  BY <1>1, <1>3, <1>4 DEF Follows, Good, t

LEMMA EnteringMakesGood ==
  ASSUME NEW s, NEW v \in Versions, AlmostGood(s, v), SourcesComplete(s, v)
  PROVE  Follows(s, EnterFacts(s, v))
<1> DEFINE stages == IF v \in zeroChunk THEN {"full", "claimEmbed"} ELSE {"facts"}
           t == EnterFacts(s, v)
<1>1. /\ s \in Lineage /\ t \in Lineage /\ SameVersions(s, t) /\ t.gap = s.gap
      /\ t.work = [s.work EXCEPT ![v] = [st \in Stages |->
                     IF st \in stages /\ s.work[v][st] = "none" THEN "open"
                     ELSE s.work[v][st]]]
  BY Enqueues DEF AlmostGood, Becomes, SameVersions, EnterFacts
<1> HIDE DEF t
<1>2. /\ \A u \in Versions \ {v} : t.work[u] = s.work[u]
      /\ \A st \in Stages : t.work[v][st] = IF st \in stages /\ s.work[v][st] = "none"
                                            THEN "open" ELSE s.work[v][st]
  BY <1>1 DEF Lineage
<1>3. ASSUME NEW u \in Versions PROVE RowsFit(t, u) /\ Chained(t, u) /\ OnItsWay(t, u)
  <2>1. CASE u = v
    BY <1>1, <1>2, <2>1 DEF AlmostGood, RowsFit, Chained, OnItsWay, Booked, Live,
                            SourcesComplete, SameVersions, Stages
  <2>2. CASE u # v
    BY <1>1, <1>2, <2>2 DEF AlmostGood, RowsFit, Chained, OnItsWay, Booked, Live,
                            SourcesComplete, SameVersions
  <2> QED
    BY <2>1, <2>2
<1>4. ASSUME NEW l \in Layers, Undischarged(s, l) PROVE Undischarged(t, l)
  BY <1>1, <1>4 DEF Undischarged, SameVersions, Live
<1> QED
  BY <1>1, <1>3, <1>4 DEF Follows, Good, t

(* The claims layer: the gap is entered and the extraction enqueued.       *)
LEMMA ExtractionKeepsGood ==
  ASSUME NEW s, NEW v \in Versions, Good(s), s.gap[v]["claims"] = "open"
  PROVE  Follows(s, Enqueue(Stamp(s, "claims", v), v, {"extract"}))
<1> DEFINE r == Stamp(s, "claims", v)
           t == Enqueue(r, v, {"extract"})
<1>1. /\ s \in Lineage /\ r \in Lineage /\ SameVersions(s, r) /\ r.work = s.work
      /\ r.gap = [s.gap EXCEPT ![v]["claims"] = "entered"]
  BY Stamps DEF Good, Becomes, SameVersions, Layers
<1> HIDE DEF r
<1>2. /\ t \in Lineage /\ SameVersions(r, t) /\ t.gap = r.gap
      /\ t.work = [r.work EXCEPT ![v] = [st \in Stages |->
                     IF st \in {"extract"} /\ r.work[v][st] = "none" THEN "open"
                     ELSE r.work[v][st]]]
  BY <1>1, Enqueues, SMTT(30) DEF Becomes, SameVersions
<1> HIDE DEF t
<1>3. /\ \A u \in Versions \ {v} : t.work[u] = s.work[u] /\ t.gap[u] = s.gap[u]
      /\ \A st \in Stages \ {"extract"} : t.work[v][st] = s.work[v][st]
      /\ t.work[v]["extract"] = IF s.work[v]["extract"] = "none" THEN "open"
                                ELSE s.work[v]["extract"]
      /\ t.gap[v]["claims"] = "entered" /\ t.gap[v]["facts"] = s.gap[v]["facts"]
  BY <1>1, <1>2 DEF Lineage, Layers, Stages
<1>4. s.work[v]["extract"] = "none" /\ Live(s, v) /\ SourcesComplete(s, v)
  BY DEF Good, RowsFit, Layers
<1>5. ASSUME NEW u \in Versions PROVE RowsFit(t, u) /\ Chained(t, u) /\ OnItsWay(t, u)
  <2>1. CASE u = v
    BY <1>1, <1>2, <1>3, <1>4, <2>1 DEF Good, RowsFit, Chained, OnItsWay, Booked, Live,
                            SourcesComplete, SameVersions, Stages, Layers
  <2>2. CASE u # v
    BY <1>1, <1>2, <1>3, <2>2 DEF Good, RowsFit, Chained, OnItsWay, Booked, Live,
                            SourcesComplete, SameVersions
  <2> QED
    BY <2>1, <2>2
<1>6. ASSUME NEW l \in Layers, Undischarged(s, l) PROVE Undischarged(t, l)
  <2>1. s.current \in {Unset} \cup Versions
    BY <1>1 DEF Lineage
  <2> QED
    BY <1>1, <1>2, <1>3, <1>6, <2>1 DEF Undischarged, SameVersions, Live, Layers
<1> QED
  BY <1>1, <1>2, <1>5, <1>6 DEF Follows, Good, SameVersions, r, t

(* Of a deleted version nothing is expected any more.                      *)
LEMMA LateExtractionKeepsGood ==
  ASSUME NEW s, NEW v \in Versions, AlmostGood(s, v), SourcesComplete(s, v), ~Live(s, v)
  PROVE  Follows(s, Enqueue(s, v, {"extract"})) /\ Follows(s, OpenTails(s, {v}))
<1> DEFINE t == Enqueue(s, v, {"extract"})
           r == OpenTails(s, {v})
<1>0. s \in Lineage
  BY DEF AlmostGood
<1>1. /\ t \in Lineage /\ SameVersions(s, t) /\ t.gap = s.gap
      /\ t.work = [s.work EXCEPT ![v] = [st \in Stages |->
                     IF st \in {"extract"} /\ s.work[v][st] = "none" THEN "open"
                     ELSE s.work[v][st]]]
  BY <1>0, Enqueues DEF Becomes, SameVersions
<1>2. /\ r \in Lineage /\ SameVersions(s, r) /\ r.gap = s.gap
      /\ r.work = [u \in Versions |->
                     IF u \in {v}
                     THEN [st \in Stages |-> IF /\ st \in {"claimEmbed", "tail"}
                                                /\ s.work[u][st] = "none"
                                             THEN "open" ELSE s.work[u][st]]
                     ELSE s.work[u]]
  BY <1>0, OpensTails DEF Becomes, SameVersions
<1> HIDE DEF t, r
<1>3. \A u \in Versions \ {v} : t.work[u] = s.work[u] /\ r.work[u] = s.work[u]
  BY <1>0, <1>1, <1>2 DEF Lineage
<1>4. \A l \in Layers : s.gap[v][l] = "none"
  BY DEF AlmostGood, RowsFit
<1>5. ASSUME NEW u \in Versions
      PROVE  /\ RowsFit(t, u) /\ Chained(t, u) /\ OnItsWay(t, u)
             /\ RowsFit(r, u) /\ Chained(r, u) /\ OnItsWay(r, u)
  <2>1. CASE u = v
    BY <1>1, <1>2, <1>4, <2>1 DEF RowsFit, Chained, OnItsWay, Live,
                            SourcesComplete, SameVersions, Layers
  <2>2. CASE u # v
    BY <1>1, <1>2, <1>3, <2>2 DEF AlmostGood, RowsFit, Chained, OnItsWay, Booked, Live,
                            SourcesComplete, SameVersions
  <2> QED
    BY <2>1, <2>2
<1>6. ASSUME NEW l \in Layers, Undischarged(s, l)
      PROVE  Undischarged(t, l) /\ Undischarged(r, l)
  BY <1>1, <1>2, <1>6 DEF Undischarged, SameVersions, Live
<1> QED
  BY <1>1, <1>2, <1>5, <1>6 DEF Follows, Good, t, r

LEMMA ReopeningKeepsGood ==
  ASSUME NEW s, NEW layer \in Layers, Good(s)
  PROVE  Follows(s, ReopenCurrent(s, layer)) /\ Undischarged(ReopenCurrent(s, layer), layer)
<1> DEFINE t == ReopenCurrent(s, layer)
<1>1. s \in Lineage
  BY DEF Good
<1>2. /\ t \in Lineage /\ SameVersions(s, t) /\ t.work = s.work
      /\ t.gap = [v \in Versions |->
           IF v = s.current /\ v # Unset /\ s.gap[v][layer] = "discharged"
           THEN [l \in Layers |-> IF l \in Dependent(layer) /\ s.gap[v][l] = "discharged"
                                  THEN "open" ELSE s.gap[v][l]]
           ELSE s.gap[v]]
  BY <1>1, Reopens DEF Becomes, SameVersions
<1> HIDE DEF t
<1>3. \A v \in Versions, l \in Layers :
        \/ t.gap[v][l] = s.gap[v][l]
        \/ s.gap[v][l] = "discharged" /\ t.gap[v][l] = "open"
  BY <1>2
<1>4. ASSUME NEW v \in Versions PROVE RowsFit(t, v) /\ Chained(t, v) /\ OnItsWay(t, v)
  BY <1>2, <1>3 DEF Good, RowsFit, Chained, OnItsWay, Booked, Live, SourcesComplete,
                    SameVersions, Layers
<1>5. s.current \in {Unset} \cup Versions
  BY <1>1 DEF Lineage
<1>6. ASSUME NEW l \in Layers, Undischarged(s, l) PROVE Undischarged(t, l)
  BY <1>2, <1>3, <1>5, <1>6 DEF Undischarged, SameVersions, Live
<1>7. Undischarged(t, layer)
  BY <1>2, <1>3, <1>5 DEF Undischarged, SameVersions, Live, Dependent, Layers
<1> QED
  BY <1>2, <1>4, <1>6, <1>7 DEF Follows, Good, t

LEMMA DischargingKeepsGood ==
  ASSUME NEW s, NEW layer \in Layers, Good(s)
  PROVE  Follows(s, DischargeSuperseded(s, layer))
<1> DEFINE t == DischargeSuperseded(s, layer)
<1>1. s \in Lineage
  BY DEF Good
<1>2. /\ t \in Lineage /\ SameVersions(s, t) /\ t.work = s.work
      /\ t.gap = [v \in Versions |->
           IF v # s.current /\ s.gap[v][layer] = "open"
           THEN [l \in Layers |-> IF l \in Dependent(layer) /\ s.gap[v][l] # "entered"
                                  THEN "discharged" ELSE s.gap[v][l]]
           ELSE s.gap[v]]
  BY <1>1, Discharges DEF Becomes, SameVersions
<1> HIDE DEF t
<1>3. ASSUME NEW v \in Versions PROVE RowsFit(t, v) /\ Chained(t, v) /\ OnItsWay(t, v)
  <2>1. CASE v # s.current /\ s.gap[v][layer] = "open"
    <3>1. /\ Live(s, v) /\ SourcesComplete(s, v)
          /\ \A l \in Layers : t.gap[v][l] = IF l \in Dependent(layer) /\ s.gap[v][l] # "entered"
                                             THEN "discharged" ELSE s.gap[v][l]
      BY <1>2, <2>1, SMTT(30) DEF Good, RowsFit
    <3>2. CASE layer = "claims"
      BY <1>2, <2>1, <3>1, <3>2, SMTT(30) DEF Good, RowsFit, Chained, OnItsWay, Booked, Live,
                                    SourcesComplete, SameVersions, Layers, Dependent
    <3>3. CASE layer = "facts"
      BY <1>2, <2>1, <3>1, <3>3 DEF Good, RowsFit, Chained, OnItsWay, Booked, Live,
                                    SourcesComplete, SameVersions, Layers, Dependent
    <3> QED
      BY <3>2, <3>3 DEF Layers
  <2>2. CASE ~(v # s.current /\ s.gap[v][layer] = "open")
    BY <1>2, <2>2 DEF Good, RowsFit, Chained, OnItsWay, Booked, Live, SourcesComplete,
                      SameVersions
  <2> QED
    BY <2>1, <2>2
<1>4. ASSUME NEW l \in Layers, Undischarged(s, l) PROVE Undischarged(t, l)
  <2>1. s.current \in {Unset} \cup Versions
    BY <1>1 DEF Lineage
  <2> QED
    BY <1>2, <1>4, <2>1 DEF Undischarged, SameVersions, Live
<1> QED
  BY <1>2, <1>3, <1>4 DEF Follows, Good, t

LEMMA PreparingKeepsGood ==
  ASSUME NEW s, NEW layer \in Layers, Good(s)
  PROVE  Follows(s, Prepared(s, layer)) /\ Undischarged(Prepared(s, layer), layer)
<1> DEFINE r == Reopened(s, layer)
<1>1. Follows(s, r) /\ Undischarged(r, layer)
  <2>1. CASE living
    BY <2>1, ReopeningKeepsGood DEF Reopened
  <2>2. CASE ~living
    <3>1. r = s
      BY <2>2 DEF Reopened
    <3> QED
      BY <2>2, <3>1, StaysPut DEF Undischarged
  <2> QED
    BY <2>1, <2>2
<1>2. Prepared(s, layer) \in {r, DischargeSuperseded(r, layer)}
  BY DEF Prepared
<1> HIDE DEF r
<1>3. Follows(r, DischargeSuperseded(r, layer))
  BY <1>1, DischargingKeepsGood DEF Follows
<1>4. Follows(r, r)
  BY <1>1, StaysPut DEF Follows
<1>5. Follows(r, Prepared(s, layer))
  BY <1>2, <1>3, <1>4
<1>6. Follows(s, Prepared(s, layer))
  BY <1>1, <1>5, FollowsChains
<1>7. Undischarged(Prepared(s, layer), layer)
  BY <1>1, <1>5 DEF Follows
<1> QED
  BY <1>6, <1>7

(* The tails that are owed are of versions not entered into facts.         *)
LEMMA OwedTailsKeepGood ==
  ASSUME NEW s, Good(s), NEW factsOn, NEW admitted
  PROVE  Follows(s, OpenTails(s, OwedTails(s, factsOn, admitted)))
<1> DEFINE owed == OwedTails(s, factsOn, admitted)
           t == OpenTails(s, owed)
<1>1. s \in Lineage
  BY DEF Good
<1>2. \A v \in owed : /\ v \in Versions /\ s.gap[v]["facts"] \in {"open", "discharged"}
                      /\ SourcesComplete(s, v)
  BY DEF OwedTails, OccurrencesComplete
<1> HIDE DEF owed
<1>3. /\ t \in Lineage /\ SameVersions(s, t) /\ t.gap = s.gap
      /\ t.work = [v \in Versions |->
           IF v \in owed
           THEN [st \in Stages |-> IF /\ st \in {"claimEmbed", "tail"}
                                      /\ s.work[v][st] = "none"
                                   THEN "open" ELSE s.work[v][st]]
           ELSE s.work[v]]
  BY <1>1, OpensTails DEF Becomes, SameVersions
<1> HIDE DEF t
<1>4. ASSUME NEW v \in Versions PROVE RowsFit(t, v) /\ Chained(t, v) /\ OnItsWay(t, v)
  <2>1. CASE v \in owed
    <3>1. \A st \in Stages : t.work[v][st] = IF /\ st \in {"claimEmbed", "tail"}
                                                /\ s.work[v][st] = "none"
                                             THEN "open" ELSE s.work[v][st]
      BY <1>3, <2>1
    <3>2. t.gap[v] = s.gap[v] /\ t.gap[v]["facts"] \notin {"none", "entered"}
      BY <1>2, <1>3, <2>1
    <3>3. Booked(t, v) /\ SourcesComplete(t, v)
      BY <1>2, <1>3, <2>1, <3>2 DEF Booked, SourcesComplete, SameVersions
    <3>4. RowsFit(s, v) /\ Chained(s, v)
      BY DEF Good
    <3>5. RowsFit(t, v)
      BY <1>3, <3>1, <3>2, <3>3, <3>4 DEF RowsFit, Live, SourcesComplete, SameVersions, Stages
    <3>6. Chained(t, v)
      BY <1>3, <3>1, <3>3, <3>4 DEF Chained, Live, SameVersions, Stages
    <3> QED
      BY <3>3, <3>5, <3>6 DEF OnItsWay
  <2>2. CASE v \notin owed
    BY <1>3, <2>2 DEF Good, RowsFit, Chained, OnItsWay, Booked, Live, SourcesComplete,
                      SameVersions
  <2> QED
    BY <2>1, <2>2
<1>5. ASSUME NEW l \in Layers, Undischarged(s, l) PROVE Undischarged(t, l)
  BY <1>3, <1>5 DEF Undischarged, SameVersions, Live
<1> QED
  BY <1>3, <1>4, <1>5 DEF Follows, Good, t, owed

(* A version whose tail is not in flight enters facts.                     *)
LEMMA StampingFactsKeepsGood ==
  ASSUME NEW s, NEW v \in Versions, Good(s), s.gap[v]["facts"] = "open",
         s.work[v]["tail"] \in {"none", "done"}
  PROVE  Follows(s, Stamp(s, "facts", v))
<1> DEFINE t == Stamp(s, "facts", v)
<1>1. s \in Lineage
  BY DEF Good
<1>2. /\ t \in Lineage /\ SameVersions(s, t) /\ t.work = s.work
      /\ t.gap = [s.gap EXCEPT ![v]["facts"] = "entered"]
  BY <1>1, Stamps DEF Becomes, SameVersions, Layers
<1> HIDE DEF t
<1>3. /\ \A u \in Versions \ {v} : t.gap[u] = s.gap[u]
      /\ t.gap[v]["facts"] = "entered" /\ t.gap[v]["claims"] = s.gap[v]["claims"]
  BY <1>1, <1>2 DEF Lineage, Layers
<1>4. ASSUME NEW u \in Versions PROVE RowsFit(t, u) /\ Chained(t, u) /\ OnItsWay(t, u)
  <2>1. CASE u = v
    BY <1>2, <1>3, <2>1 DEF Good, RowsFit, Chained, OnItsWay, Booked, Live, SourcesComplete,
                            SameVersions, Layers
  <2>2. CASE u # v
    BY <1>2, <1>3, <2>2 DEF Good, RowsFit, Chained, OnItsWay, Booked, Live, SourcesComplete,
                            SameVersions
  <2> QED
    BY <2>1, <2>2
<1>5. ASSUME NEW l \in Layers, Undischarged(s, l) PROVE Undischarged(t, l)
  <2>1. s.current \in {Unset} \cup Versions
    BY <1>1 DEF Lineage
  <2> QED
    BY <1>2, <1>3, <1>5, <2>1 DEF Undischarged, SameVersions, Live, Layers
<1> QED
  BY <1>2, <1>4, <1>5 DEF Follows, Good, t

-----------------------------------------------------------------------------
(* The boundaries and advance.                                             *)

LEMMA GoodIsAlmostGood ==
  ASSUME NEW s, NEW v, Good(s)
  PROVE  AlmostGood(s, v)
  BY DEF Good, AlmostGood

LEMMA AdvancingFactsKeepsGood ==
  ASSUME NEW s, Good(s)
  PROVE  Follows(s, AdvanceFacts(s)) /\ Undischarged(AdvanceFacts(s), "facts")
<1> DEFINE p == Prepared(s, "facts")
           admitted == Admitted(p, "facts")
           owed == OwedTails(p, config.facts, admitted)
           o == OpenTails(p, owed)
           v == CHOOSE v \in admitted : TRUE
           t == IF admitted = {} THEN o ELSE EnterFacts(Stamp(o, "facts", v), v)
<1>1. Follows(s, p) /\ Undischarged(p, "facts") /\ Good(p)
  BY PreparingKeepsGood DEF Layers, Follows
<1>2. AdvanceFacts(s) = t
  BY DEF AdvanceFacts
<1> HIDE DEF p
<1>3. Follows(p, o)
  BY <1>1, OwedTailsKeepGood
<1>4. CASE admitted = {}
  BY <1>1, <1>2, <1>3, <1>4, FollowsChains DEF Follows, Layers
<1>5. CASE admitted # {}
  <2>1. v \in admitted
    BY <1>5
  <2>2. /\ v \in Versions /\ SourcesComplete(p, v) /\ p.gap[v]["facts"] = "open"
        /\ p.work[v]["tail"] \in {"none", "done"}
    BY <2>1, Zenon DEF Admitted, Target, Waiting, Admits
  <2>3. v \notin owed
    BY <2>1 DEF OwedTails
  <2>4. p \in Lineage
    BY <1>1 DEF Good
  <2>5. t = EnterFacts(Stamp(o, "facts", v), v)
    BY <1>5
  <2> HIDE DEF admitted, owed, v
  <2>6. Becomes(p, o, p.gap,
          [u \in Versions |->
             IF u \in owed
             THEN [st \in Stages |-> IF /\ st \in {"claimEmbed", "tail"}
                                        /\ p.work[u][st] = "none"
                                     THEN "open" ELSE p.work[u][st]]
             ELSE p.work[u]])
    BY <2>4, OpensTails
  <2>7. o.gap = p.gap /\ o.work[v] = p.work[v]
    BY <2>2, <2>3, <2>6 DEF Becomes
  <2> HIDE DEF o
  <2>8. Good(o)
    BY <1>3 DEF Follows
  <2>9. Follows(o, Stamp(o, "facts", v))
    BY <2>2, <2>7, <2>8, StampingFactsKeepsGood
  <2>10. Good(Stamp(o, "facts", v)) /\ SourcesComplete(Stamp(o, "facts", v), v)
    BY <1>3, <2>2, <2>9 DEF Follows, SameVersions, SourcesComplete
  <2>11. AlmostGood(Stamp(o, "facts", v), v)
    BY <2>10, GoodIsAlmostGood
  <2>12. Follows(Stamp(o, "facts", v), t)
    BY <2>2, <2>5, <2>10, <2>11, EnteringMakesGood
  <2>13. Follows(p, t)
    BY <1>3, <2>9, <2>12, FollowsChains
  <2>14. Follows(s, t)
    BY <1>1, <2>13, FollowsChains
  <2>15. Undischarged(t, "facts")
    BY <1>1, <2>13 DEF Follows, Layers
  <2> QED
    BY <1>2, <2>14, <2>15
<1> QED
  BY <1>4, <1>5

LEMMA FactsBoundaryMakesGood ==
  ASSUME NEW s, NEW v \in Versions, AlmostGood(s, v), SourcesComplete(s, v)
  PROVE  Follows(s, FactsBoundary(s, v))
<1>1. CASE Live(s, v)
  <2> DEFINE r == RecordGap(s, v, "facts")
  <2>1. Follows(s, r)
    BY <1>1, BookingMakesGood
  <2>2. Follows(r, AdvanceFacts(r))
    BY <2>1, AdvancingFactsKeepsGood DEF Follows
  <2> QED
    BY <1>1, <2>1, <2>2, FollowsChains DEF FactsBoundary
<1>2. CASE ~Live(s, v)
  BY <1>2, EnteringMakesGood, LateExtractionKeepsGood DEF FactsBoundary
<1> QED
  BY <1>1, <1>2

(* A version whose claims gap is entered, its extraction not enqueued yet. *)
LEMMA StampingClaimsKeepsAlmostGood ==
  ASSUME NEW s, NEW v \in Versions, Good(s), s.gap[v]["claims"] = "open"
  PROVE  /\ AlmostGood(Stamp(s, "claims", v), v) /\ SameVersions(s, Stamp(s, "claims", v))
         /\ SourcesComplete(Stamp(s, "claims", v), v)
         /\ \A l \in Layers : Undischarged(s, l) => Undischarged(Stamp(s, "claims", v), l)
<1> DEFINE t == Stamp(s, "claims", v)
<1>1. s \in Lineage
  BY DEF Good
<1>2. /\ t \in Lineage /\ SameVersions(s, t) /\ t.work = s.work
      /\ t.gap = [s.gap EXCEPT ![v]["claims"] = "entered"]
  BY <1>1, Stamps DEF Becomes, SameVersions, Layers
<1> HIDE DEF t
<1>3. /\ \A u \in Versions \ {v} : t.gap[u] = s.gap[u]
      /\ t.gap[v]["claims"] = "entered" /\ t.gap[v]["facts"] = s.gap[v]["facts"]
  BY <1>1, <1>2 DEF Lineage, Layers
<1>4. SourcesComplete(s, v) /\ Live(s, v)
  BY DEF Good, RowsFit, Layers
<1>5. ASSUME NEW u \in Versions \ {v} PROVE RowsFit(t, u) /\ Chained(t, u) /\ OnItsWay(t, u)
  BY <1>2, <1>3 DEF Good, RowsFit, Chained, OnItsWay, Booked, Live, SourcesComplete,
                    SameVersions
<1>6. RowsFit(t, v) /\ Chained(t, v)
  BY <1>2, <1>3, <1>4 DEF Good, RowsFit, Chained, Booked, Live, SourcesComplete,
                          SameVersions, Layers
<1>7. ASSUME NEW l \in Layers, Undischarged(s, l) PROVE Undischarged(t, l)
  <2>1. s.current \in {Unset} \cup Versions
    BY <1>1 DEF Lineage
  <2> QED
    BY <1>2, <1>3, <1>7, <2>1 DEF Undischarged, SameVersions, Live, Layers
<1>8. SourcesComplete(t, v)
  BY <1>2, <1>4 DEF SourcesComplete, SameVersions
<1> QED
  BY <1>2, <1>5, <1>6, <1>7, <1>8 DEF AlmostGood, t

LEMMA AdvancingClaimsKeepsGood ==
  ASSUME NEW s, Good(s)
  PROVE  Follows(s, AdvanceClaims(s)) /\ Undischarged(AdvanceClaims(s), "claims")
<1> DEFINE p == Prepared(s, "claims")
           admitted == Admitted(p, "claims")
           v == CHOOSE v \in admitted : TRUE
           r == Stamp(p, "claims", v)
           t == IF admitted = {} THEN p ELSE EnterClaims(r, v)
<1>1. Follows(s, p) /\ Undischarged(p, "claims") /\ Good(p)
  BY PreparingKeepsGood DEF Layers, Follows
<1>2. AdvanceClaims(s) = t
  BY DEF AdvanceClaims
<1> HIDE DEF p
<1>3. CASE admitted = {}
  BY <1>1, <1>2, <1>3
<1>4. CASE admitted # {}
  <2>1. v \in admitted
    BY <1>4
  <2>2. v \in Versions /\ p.gap[v]["claims"] = "open"
    BY <2>1 DEF Admitted, Target, Waiting
  <2>3. t = EnterClaims(r, v)
    BY <1>4
  <2> HIDE DEF admitted, v
  <2>4. Follows(p, t)
    <3>1. CASE v \in zeroChunk
      <4>1. /\ AlmostGood(r, v) /\ SameVersions(p, r) /\ SourcesComplete(r, v)
            /\ \A l \in Layers : Undischarged(p, l) => Undischarged(r, l)
        BY <1>1, <2>2, StampingClaimsKeepsAlmostGood
      <4> HIDE DEF r, t
      <4>2. Follows(r, FactsBoundary(r, v))
        BY <2>2, <4>1, FactsBoundaryMakesGood
      <4>3. t = FactsBoundary(r, v)
        BY <2>3, <3>1 DEF EnterClaims
      <4>4. Follows(r, t)
        BY <4>2, <4>3
      <4> QED
        BY <4>1, <4>4 DEF Follows, SameVersions
    <3>2. CASE v \notin zeroChunk
      <4>1. t = Enqueue(Stamp(p, "claims", v), v, {"extract"})
        BY <2>3, <3>2 DEF EnterClaims
      <4>2. Follows(p, Enqueue(Stamp(p, "claims", v), v, {"extract"}))
        BY <1>1, <2>2, ExtractionKeepsGood
      <4> QED
        BY <4>1, <4>2
    <3> QED
      BY <3>1, <3>2
  <2>5. Follows(s, t)
    BY <1>1, <2>4, FollowsChains
  <2>6. Undischarged(t, "claims")
    BY <1>1, <2>4 DEF Follows, Layers
  <2> QED
    BY <1>2, <2>5, <2>6
<1> QED
  BY <1>3, <1>4

(* A version that has just finished its sources: nothing is recorded of it. *)
Fresh(s, v) ==
  /\ \A l \in Layers : s.gap[v][l] = "none"
  /\ \A st \in Stages : s.work[v][st] = "none"

LEMMA AwaitingClaimsMakesGood ==
  ASSUME NEW s, NEW v \in Versions, AlmostGood(s, v), SourcesComplete(s, v), Live(s, v),
         Fresh(s, v)
  PROVE  Follows(s, RecordGap(s, v, "claims"))
<1> DEFINE t == RecordGap(s, v, "claims")
<1>1. /\ s \in Lineage /\ t \in Lineage /\ SameVersions(s, t) /\ t.work = s.work
      /\ t.gap = [s.gap EXCEPT ![v]["claims"] = IF @ = "none" THEN "open" ELSE @]
  BY RecordsGap DEF AlmostGood, Becomes, SameVersions, Layers
<1> HIDE DEF t
<1>2. /\ \A u \in Versions \ {v} : t.gap[u] = s.gap[u]
      /\ t.gap[v]["claims"] = "open" /\ t.gap[v]["facts"] = "none"
      /\ t.work[v]["extract"] = "none"
  BY <1>1 DEF Lineage, Layers, Fresh, Stages
<1>3. ASSUME NEW u \in Versions PROVE RowsFit(t, u) /\ Chained(t, u) /\ OnItsWay(t, u)
  <2>1. CASE u = v
    BY <1>1, <1>2, <2>1 DEF AlmostGood, RowsFit, Chained, OnItsWay, Booked, Live,
                            SourcesComplete, SameVersions, Layers, Stages, Fresh
  <2>2. CASE u # v
    BY <1>1, <1>2, <2>2 DEF AlmostGood, RowsFit, Chained, OnItsWay, Booked, Live,
                            SourcesComplete, SameVersions
  <2> QED
    BY <2>1, <2>2
<1>4. ASSUME NEW l \in Layers, Undischarged(s, l) PROVE Undischarged(t, l)
  <2>1. s.current \in {Unset} \cup Versions
    BY <1>1 DEF Lineage
  <2> QED
    BY <1>1, <1>2, <1>4, <2>1 DEF Undischarged, SameVersions, Live, Layers
<1> QED
  BY <1>1, <1>3, <1>4 DEF Follows, Good, t

LEMMA ClaimsBoundaryMakesGood ==
  ASSUME NEW s, NEW v \in Versions, AlmostGood(s, v), SourcesComplete(s, v), Fresh(s, v)
  PROVE  Follows(s, ClaimsBoundary(s, v))
<1> DEFINE r == RecordGap(s, v, "claims")
<1>1. CASE Live(s, v)
  <2>1. Follows(s, r)
    BY <1>1, AwaitingClaimsMakesGood
  <2>2. Follows(r, AdvanceClaims(r))
    BY <2>1, AdvancingClaimsKeepsGood DEF Follows
  <2>3. Good(r) /\ Live(r, v) /\ SourcesComplete(r, v)
    BY <1>1, <2>1 DEF Follows, SameVersions, Live, SourcesComplete
  <2> HIDE DEF r
  <2>4. AlmostGood(r, v)
    BY <2>3, GoodIsAlmostGood
  <2>5. Follows(r, RecordGap(r, v, "facts"))
    BY <2>3, <2>4, BookingMakesGood
  <2>6. Follows(s, AdvanceClaims(r)) /\ Follows(s, RecordGap(r, v, "facts"))
    BY <2>1, <2>2, <2>5, FollowsChains
  <2>7. ClaimsBoundary(s, v) \in {AdvanceClaims(r), RecordGap(r, v, "facts")}
    BY <1>1 DEF ClaimsBoundary, r
  <2> QED
    BY <2>6, <2>7
<1>2. CASE ~Live(s, v)
  <2>1. Good(s)
    BY <1>2 DEF AlmostGood, Good, OnItsWay
  <2>2. Follows(s, EnterClaims(s, v))
    BY <1>2, FactsBoundaryMakesGood, LateExtractionKeepsGood DEF EnterClaims
  <2> QED
    BY <1>2, <2>1, <2>2, StaysPut DEF ClaimsBoundary
<1> QED
  BY <1>1, <1>2

(* A frontier is reached once facts have been asked of the version, and the *)
(* facts frontier once its reconcile is done.                              *)
LEMMA FrontierClearsGap ==
  ASSUME NEW s, NEW v \in Versions, NEW layer \in Layers, Good(s),
         layer = "claims" /\ Live(s, v) => Booked(s, v),
         layer = "facts" => s.work[v]["full"] # "none"
  PROVE  Follows(s, [s EXCEPT !.gap[v][layer] = "none"])
<1> DEFINE gap == [s.gap EXCEPT ![v][layer] = "none"]
           g == [s EXCEPT !.gap[v][layer] = "none"]
<1>1. s \in Lineage
  BY DEF Good
<1>2. g = [s EXCEPT !.gap = gap]
  BY <1>1 DEF Lineage
<1>3. gap \in [Versions -> [Layers -> GapStates]]
  BY <1>1 DEF Lineage, GapStates
<1>4. /\ \A u \in Versions \ {v} : gap[u] = s.gap[u]
      /\ gap[v][layer] = "none"
      /\ \A l \in Layers \ {layer} : gap[v][l] = s.gap[v][l]
  BY <1>1 DEF Lineage
<1> HIDE DEF gap
<1>5. g \in Lineage /\ SameVersions(s, g) /\ g.work = s.work /\ g.gap = gap
  BY <1>1, <1>2, <1>3 DEF Lineage, SameVersions
<1> HIDE DEF g
<1>6. ASSUME NEW u \in Versions PROVE RowsFit(g, u) /\ Chained(g, u) /\ OnItsWay(g, u)
  <2>1. CASE u = v
    <3>1. CASE layer = "claims"
      BY <1>4, <1>5, <2>1, <3>1 DEF Good, RowsFit, Chained, OnItsWay, Booked, Live,
                                    SourcesComplete, SameVersions, Layers
    <3>2. CASE layer = "facts"
      BY <1>4, <1>5, <2>1, <3>2 DEF Good, RowsFit, Chained, OnItsWay, Booked, Live,
                                    SourcesComplete, SameVersions, Layers
    <3> QED
      BY <3>1, <3>2 DEF Layers
  <2>2. CASE u # v
    BY <1>4, <1>5, <2>2 DEF Good, RowsFit, Chained, OnItsWay, Booked, Live,
                            SourcesComplete, SameVersions
  <2> QED
    BY <2>1, <2>2
<1>7. ASSUME NEW l \in Layers, Undischarged(s, l) PROVE Undischarged(g, l)
  <2>1. s.current \in {Unset} \cup Versions
    BY <1>1 DEF Lineage
  <2> QED
    BY <1>4, <1>5, <1>7, <2>1 DEF Undischarged, SameVersions, Live
<1> QED
  BY <1>5, <1>6, <1>7 DEF Follows, Good, g

LEMMA FrontierKeepsGood ==
  ASSUME NEW s, NEW v \in Versions, NEW layer \in Layers, Good(s),
         layer = "claims" /\ Live(s, v) => Booked(s, v),
         layer = "facts" => s.work[v]["full"] # "none"
  PROVE  Follows(s, FrontierReached(s, v, layer))
<1> DEFINE g == [s EXCEPT !.gap[v][layer] = "none"]
<1>1. Follows(s, g)
  BY FrontierClearsGap
<1>2. FrontierReached(s, v, layer) \in {AdvanceClaims(g), AdvanceFacts(g)}
  BY DEF FrontierReached
<1> HIDE DEF g
<1>3. Follows(g, AdvanceClaims(g)) /\ Follows(g, AdvanceFacts(g))
  BY <1>1, AdvancingClaimsKeepsGood, AdvancingFactsKeepsGood DEF Follows
<1>4. Follows(s, AdvanceClaims(g)) /\ Follows(s, AdvanceFacts(g))
  BY <1>1, <1>3, FollowsChains
<1> QED
  BY <1>2, <1>4

(* After a deletion: good again once the gaps of the deleted are cleared.  *)
Cleared(s) ==
  [s EXCEPT !.gap = [v \in Versions |->
     IF v \in s.deleted THEN [l \in Layers |-> "none"] ELSE s.gap[v]]]

LEMMA ClearingMakesGood ==
  ASSUME NEW s \in Lineage,
         \A u \in Versions : Live(s, u) => RowsFit(s, u) /\ Chained(s, u) /\ OnItsWay(s, u),
         \A u \in Versions, st \in Stages : s.work[u][st] # "none" => SourcesComplete(s, u)
  PROVE  /\ Good(Cleared(s)) /\ SameVersions(s, Cleared(s)) /\ Cleared(s).work = s.work
         /\ \A u \in Versions \cap s.deleted, l \in Layers : Cleared(s).gap[u][l] = "none"
         /\ \A u \in Versions \ s.deleted : Cleared(s).gap[u] = s.gap[u]
<1> DEFINE gap == [v \in Versions |->
                     IF v \in s.deleted THEN [l \in Layers |-> "none"] ELSE s.gap[v]]
           g == [s EXCEPT !.gap = gap]
<1>1. gap \in [Versions -> [Layers -> GapStates]]
  BY DEF Lineage, GapStates
<1>2. /\ \A u \in Versions \cap s.deleted, l \in Layers : gap[u][l] = "none"
      /\ \A u \in Versions \ s.deleted : gap[u] = s.gap[u]
  OBVIOUS
<1>3. Cleared(s) = g
  BY DEF Cleared
<1> HIDE DEF gap
<1>4. g \in Lineage /\ SameVersions(s, g) /\ g.work = s.work /\ g.gap = gap
  BY <1>1 DEF Lineage, SameVersions
<1> HIDE DEF g
<1>5. ASSUME NEW u \in Versions PROVE RowsFit(g, u) /\ Chained(g, u) /\ OnItsWay(g, u)
  <2>1. CASE u \in s.deleted
    BY <1>2, <1>4, <2>1 DEF RowsFit, Chained, OnItsWay, Live, SourcesComplete, SameVersions,
                            Layers
  <2>2. CASE u \notin s.deleted
    BY <1>2, <1>4, <2>2 DEF RowsFit, Chained, OnItsWay, Booked, Live, SourcesComplete,
                            SameVersions
  <2> QED
    BY <2>1, <2>2
<1> QED
  BY <1>2, <1>3, <1>4, <1>5 DEF Good

(* A lineage that records no gap is good whatever was deleted of it.       *)
LEMMA RestingIsGood ==
  ASSUME NEW s \in Lineage,
         \A u \in Versions : Live(s, u) => RowsFit(s, u) /\ Chained(s, u) /\ OnItsWay(s, u),
         \A u \in Versions, st \in Stages : s.work[u][st] # "none" => SourcesComplete(s, u),
         \A u \in Versions, l \in Layers : s.gap[u][l] = "none"
  PROVE  Good(s)
<1>1. ASSUME NEW u \in Versions PROVE RowsFit(s, u) /\ Chained(s, u) /\ OnItsWay(s, u)
  <2>1. CASE Live(s, u)
    BY <2>1
  <2>2. CASE ~Live(s, u)
    BY <2>2 DEF RowsFit, Chained, OnItsWay, Layers
  <2> QED
    BY <2>1, <2>2
<1> QED
  BY <1>1 DEF Good

LEMMA DeletionMakesGood ==
  ASSUME NEW s \in Lineage,
         \A u \in Versions : Live(s, u) => RowsFit(s, u) /\ Chained(s, u) /\ OnItsWay(s, u),
         \A u \in Versions, st \in Stages : s.work[u][st] # "none" => SourcesComplete(s, u),
         config.configured \/ \A u \in Versions, l \in Layers : s.gap[u][l] = "none"
  PROVE  /\ Good(LineageChanged(s)) /\ SameVersions(s, LineageChanged(s))
         /\ \A l \in Layers : Undischarged(LineageChanged(s), l)
         /\ config.configured \/ \A u \in Versions, l \in Layers :
                                   LineageChanged(s).gap[u][l] = "none"
<1> DEFINE g == Cleared(s)
           c == AdvanceClaims(g)
           f == AdvanceFacts(c)
<1>1. /\ Good(g) /\ SameVersions(s, g)
      /\ \A u \in Versions \cap s.deleted, l \in Layers : g.gap[u][l] = "none"
      /\ \A u \in Versions \ s.deleted : g.gap[u] = s.gap[u]
  BY ClearingMakesGood
<1>2. LineageChanged(s) = IF config.configured THEN f ELSE s
  BY DEF LineageChanged, Cleared
<1> HIDE DEF g
<1>3. Follows(g, c) /\ Undischarged(c, "claims") /\ Good(c)
  BY <1>1, AdvancingClaimsKeepsGood DEF Follows
<1> HIDE DEF c
<1>4. Follows(c, f) /\ Undischarged(f, "facts")
  BY <1>3, AdvancingFactsKeepsGood
<1> HIDE DEF f
<1>5. CASE config.configured
  BY <1>1, <1>2, <1>3, <1>4, <1>5 DEF Follows, SameVersions, Layers
<1>6. CASE ~config.configured
  <2>1. LineageChanged(s) = s /\ \A u \in Versions, l \in Layers : s.gap[u][l] = "none"
    BY <1>2, <1>6
  <2>2. Good(s)
    BY <2>1, RestingIsGood
  <2>3. s.current \in {Unset} \cup Versions
    BY DEF Lineage
  <2>4. \A l \in Layers : Undischarged(s, l)
    BY <2>1, <2>3 DEF Undischarged
  <2> QED
    BY <2>1, <2>2, <2>4 DEF SameVersions
<1> QED
  BY <1>5, <1>6

-----------------------------------------------------------------------------
(* One row of a version moves on.                                          *)

LEMMA SetsRow ==
  ASSUME NEW s \in Lineage, NEW v \in Versions, NEW stage \in Stages, NEW status \in RowStatuses
  PROVE  /\ [s EXCEPT !.work[v][stage] = status] \in Lineage
         /\ SameVersions(s, [s EXCEPT !.work[v][stage] = status])
         /\ [s EXCEPT !.work[v][stage] = status].gap = s.gap
         /\ [s EXCEPT !.work[v][stage] = status].work
              = [s.work EXCEPT ![v][stage] = status]
<1> DEFINE work == [s.work EXCEPT ![v][stage] = status]
<1>1. [s EXCEPT !.work[v][stage] = status] = [s EXCEPT !.work = work]
  BY DEF Lineage
<1>2. work \in [Versions -> [Stages -> RowStatuses]]
  BY DEF Lineage
<1> HIDE DEF work
<1>3. /\ [s EXCEPT !.work = work] \in Lineage
      /\ SameVersions(s, [s EXCEPT !.work = work])
      /\ [s EXCEPT !.work = work].gap = s.gap
      /\ [s EXCEPT !.work = work].work = work
  BY <1>2 DEF Lineage, SameVersions
<1> QED
  BY <1>1, <1>3 DEF work

(* The row was enqueued and not done: a tail then is not beside fact work. *)
LEMMA RowMoveKeepsGood ==
  ASSUME NEW s, Good(s), NEW v \in Versions, NEW stage \in Stages,
         NEW status \in RowStatuses \ {"none"}, s.work[v][stage] \notin {"none", "done"},
         status = "done" => stage \notin {"extract", "facts"}
  PROVE  Follows(s, [s EXCEPT !.work[v][stage] = status])
<1> DEFINE t == [s EXCEPT !.work[v][stage] = status]
<1>1. s \in Lineage
  BY DEF Good
<1>2. /\ t \in Lineage /\ SameVersions(s, t) /\ t.gap = s.gap
      /\ t.work = [s.work EXCEPT ![v][stage] = status]
  BY <1>1, SetsRow
<1> HIDE DEF t
<1>3. /\ \A u \in Versions \ {v} : t.work[u] = s.work[u]
      /\ t.work[v][stage] = status
      /\ \A st \in Stages \ {stage} : t.work[v][st] = s.work[v][st]
  BY <1>1, <1>2 DEF Lineage
<1>4. ASSUME NEW u \in Versions PROVE RowsFit(t, u) /\ Chained(t, u) /\ OnItsWay(t, u)
  <2>1. CASE u = v
    <3>1. RowsFit(s, v) /\ Chained(s, v) /\ OnItsWay(s, v) /\ SourcesComplete(s, v)
      BY DEF Good, RowsFit
    <3>2. RowsFit(t, v)
      BY <1>2, <1>3, <3>1 DEF RowsFit, Live, SourcesComplete, SameVersions, Layers, Stages
    <3>3. Chained(t, v)
      BY <1>2, <1>3, <3>1 DEF Chained, Booked, Live, SameVersions, Stages
    <3>4. OnItsWay(t, v)
      BY <1>2, <1>3, <3>1 DEF OnItsWay, Booked, Live, SourcesComplete, SameVersions, Stages
    <3> QED
      BY <2>1, <3>2, <3>3, <3>4
  <2>2. CASE u # v
    BY <1>2, <1>3, <2>2 DEF Good, RowsFit, Chained, OnItsWay, Booked, Live,
                            SourcesComplete, SameVersions
  <2> QED
    BY <2>1, <2>2
<1>5. ASSUME NEW l \in Layers, Undischarged(s, l) PROVE Undischarged(t, l)
  BY <1>2, <1>5 DEF Undischarged, SameVersions, Live
<1> QED
  BY <1>2, <1>4, <1>5 DEF Follows, Good, t

(* An extraction is done: its version is at the facts boundary.            *)
LEMMA ExtractionAlmostGood ==
  ASSUME NEW s, Good(s), NEW v \in Versions, s.work[v]["extract"] = "open"
  PROVE  /\ AlmostGood([s EXCEPT !.work[v]["extract"] = "done"], v)
         /\ SourcesComplete([s EXCEPT !.work[v]["extract"] = "done"], v)
         /\ SameVersions(s, [s EXCEPT !.work[v]["extract"] = "done"])
         /\ [s EXCEPT !.work[v]["extract"] = "done"].gap = s.gap
<1> DEFINE t == [s EXCEPT !.work[v]["extract"] = "done"]
<1>1. s \in Lineage
  BY DEF Good
<1>2. /\ t \in Lineage /\ SameVersions(s, t) /\ t.gap = s.gap
      /\ t.work = [s.work EXCEPT ![v]["extract"] = "done"]
  BY <1>1, SetsRow, ZenonT(40) DEF Stages, RowStatuses
<1> HIDE DEF t
<1>3. /\ \A u \in Versions \ {v} : t.work[u] = s.work[u]
      /\ t.work[v]["extract"] = "done"
      /\ \A st \in Stages \ {"extract"} : t.work[v][st] = s.work[v][st]
  BY <1>1, <1>2 DEF Lineage, Stages
<1>4. RowsFit(s, v) /\ Chained(s, v) /\ SourcesComplete(s, v)
  BY DEF Good, RowsFit, Stages
<1>5. RowsFit(t, v) /\ Chained(t, v) /\ SourcesComplete(t, v)
  BY <1>2, <1>3, <1>4 DEF RowsFit, Chained, Booked, Live, SourcesComplete, SameVersions,
                          Layers, Stages
<1>6. ASSUME NEW u \in Versions \ {v} PROVE RowsFit(t, u) /\ Chained(t, u) /\ OnItsWay(t, u)
  BY <1>2, <1>3 DEF Good, RowsFit, Chained, OnItsWay, Booked, Live, SourcesComplete,
                    SameVersions
<1> QED
  BY <1>2, <1>5, <1>6 DEF AlmostGood, t

(* Normalisation is done and the reconcile and the claims' embedding asked.*)
LEMMA NormalisedKeepsGood ==
  ASSUME NEW s, Good(s), NEW v \in Versions, s.work[v]["facts"] = "open"
  PROVE  /\ Follows(s, Enqueue([s EXCEPT !.work[v]["facts"] = "done"], v,
                               {"full", "claimEmbed"}))
         /\ Enqueue([s EXCEPT !.work[v]["facts"] = "done"], v, {"full", "claimEmbed"}).gap
              = s.gap
<1> DEFINE r == [s EXCEPT !.work[v]["facts"] = "done"]
           t == Enqueue(r, v, {"full", "claimEmbed"})
<1>1. s \in Lineage
  BY DEF Good
<1>2. /\ r \in Lineage /\ SameVersions(s, r) /\ r.gap = s.gap
      /\ r.work = [s.work EXCEPT ![v]["facts"] = "done"]
  BY <1>1, SetsRow, ZenonT(40) DEF Stages, RowStatuses
<1> HIDE DEF r
<1>3. /\ t \in Lineage /\ SameVersions(r, t) /\ t.gap = r.gap
      /\ t.work = [r.work EXCEPT ![v] = [st \in Stages |->
                     IF st \in {"full", "claimEmbed"} /\ r.work[v][st] = "none" THEN "open"
                     ELSE r.work[v][st]]]
  BY <1>2, Enqueues DEF Becomes, SameVersions
<1> HIDE DEF t
<1>4. /\ \A u \in Versions \ {v} : t.work[u] = s.work[u]
      /\ \A st \in {"extract", "tail"} : t.work[v][st] = s.work[v][st]
      /\ \A st \in {"full", "claimEmbed", "facts"} : t.work[v][st] # "none"
  BY <1>1, <1>2, <1>3 DEF Lineage, Stages
<1>5. SameVersions(s, t) /\ t.gap = s.gap
  BY <1>2, <1>3 DEF SameVersions
<1>6. ASSUME NEW u \in Versions PROVE RowsFit(t, u) /\ Chained(t, u) /\ OnItsWay(t, u)
  <2>1. CASE u = v
    <3>1. RowsFit(s, v) /\ SourcesComplete(s, v) /\ Booked(t, v)
      BY <1>4 DEF Good, RowsFit, Stages, Booked
    <3> QED
      BY <1>4, <1>5, <2>1, <3>1 DEF RowsFit, Chained, OnItsWay, Live, SourcesComplete,
                                    SameVersions, Layers, Stages
  <2>2. CASE u # v
    BY <1>4, <1>5, <2>2 DEF Good, RowsFit, Chained, OnItsWay, Booked, Live,
                            SourcesComplete, SameVersions
  <2> QED
    BY <2>1, <2>2
<1>7. ASSUME NEW l \in Layers, Undischarged(s, l) PROVE Undischarged(t, l)
  BY <1>5, <1>7 DEF Undischarged, SameVersions, Live
<1> QED
  BY <1>3, <1>5, <1>6, <1>7 DEF Follows, Good, r, t

-----------------------------------------------------------------------------
(* Every step keeps the invariant.                                         *)

LEMMA FollowingKeepsPlaced ==
  ASSUME NEW s, NEW t, Placed(s), Follows(s, t), config.configured \/ t.gap = s.gap
  PROVE  Placed(t)
  BY DEF Placed, Follows, SameVersions

(* Whatever a transaction does to the lineage it read follows from it.     *)
LEMMA FollowingKeepsInv ==
  ASSUME LayersInv, NEW s, Placed(s), s.deleted = lin.deleted, Follows(s, lin'),
         config.configured \/ lin'.gap = s.gap, UNCHANGED <<living, config, switches>>,
         seedOwed' \subseteq seedOwed, cascading' \subseteq cascading,
         testimony' \in [Versions -> {"none", "current", "retired"}]
  PROVE  LayersInv'
<1>1. Placed(lin')
  BY FollowingKeepsPlaced
<1>2. Placed(lin)'
  BY <1>1 DEF Placed, Undischarged, Live
<1>3. Good(lin)' /\ lin'.deleted = lin.deleted
  BY DEF Follows, SameVersions, Good, Lineage, RowsFit, Chained, OnItsWay, Booked, Live,
         SourcesComplete
<1> QED
  BY <1>2, <1>3 DEF LayersInv

LEMMA CurrencyTyped ==
  ASSUME testimony \in [Versions -> {"none", "current", "retired"}], NEW cur
  PROVE  Superseded(cur) \in [Versions -> {"none", "current", "retired"}]
  BY DEF Superseded

LEMMA IngestKeepsInv ==
  ASSUME LayersInv, LayersAssumption, Ingest
  PROVE  LayersInv'
<1> DEFINE new == lin.latest + 1
           sources == [lin.sources EXCEPT ![new] = "converting"]
<1>1. lin \in Lineage /\ Good(lin) /\ Placed(lin)
  BY DEF LayersInv, Good
<1>2. new \in Versions /\ lin.latest \in Nat /\ new \in Nat /\ lin.latest < new
  BY <1>1 DEF Lineage, Ingest, Versions, LayersAssumption
<1>3. lin.sources[new] = "absent"
  BY <1>1, <1>2 DEF Placed, Lineage
<1>4. /\ lin'.latest = new /\ lin'.sources = sources
      /\ lin'.current = lin.current /\ lin'.deleted = lin.deleted
      /\ lin'.gap = lin.gap /\ lin'.work = lin.work
  BY <1>1 DEF Ingest, Lineage
<1>5. sources \in [Versions -> {"absent", "converting", "ready", "embedded"}]
  BY <1>1 DEF Lineage
<1>6. lin' = [lin EXCEPT !.latest = new, !.sources = sources]
  BY <1>1 DEF Ingest, Lineage
<1>7. \A u \in Versions \ {new} : sources[u] = lin.sources[u]
  BY <1>1, <1>2 DEF Lineage
<1>8. sources[new] = "converting"
  BY <1>1, <1>2 DEF Lineage
<1>9. new <= LastVersion
  BY <1>1, <1>2 DEF Versions, LayersAssumption
<1> HIDE DEF sources, new
<1>10. lin' \in Lineage
  BY <1>1, <1>2, <1>5, <1>6 DEF Lineage
<1>11. ASSUME NEW u \in Versions
       PROVE  RowsFit(lin', u) /\ Chained(lin', u) /\ OnItsWay(lin', u)
  BY <1>1, <1>3, <1>4, <1>7, <1>8 DEF Good, RowsFit, Chained, OnItsWay, Booked, Live,
                                      SourcesComplete
<1>12. Good(lin)'
  BY <1>10, <1>11 DEF Good, Lineage, RowsFit, Chained, OnItsWay, Booked, Live, SourcesComplete
<1>13. \A l \in Layers : Undischarged(lin, l)'
  BY <1>1, <1>4 DEF Placed, Undischarged, Live, Ingest, Static
<1>14. 1..lin.latest \subseteq 1..new /\ lin.current <= new
  <2>1. lin.current \in Nat
    BY <1>1 DEF Lineage, Versions, Unset
  <2> QED
    BY <1>1, <1>2, <2>1 DEF Placed
<1>15. \A v \in Versions : lin'.sources[v] # "absent" => v <= new
  BY <1>1, <1>2, <1>4, <1>7 DEF Placed, Versions
<1>16. Placed(lin)'
  BY <1>1, <1>4, <1>9, <1>13, <1>14, <1>15 DEF Placed, Ingest, SetupVars
<1> QED
  BY <1>4, <1>12, <1>16 DEF LayersInv, Ingest, Static, SetupVars, CurrencyOf

LEMMA StructuredKeepsInv ==
  ASSUME LayersInv, LayersAssumption, NEW v \in Versions, Structured(v)
  PROVE  LayersInv'
<1> DEFINE sources == [lin.sources EXCEPT ![v] = "ready"]
           current == IF lin.current = Unset \/ lin.current < v THEN v ELSE lin.current
<1>1. lin \in Lineage /\ Good(lin) /\ Placed(lin)
  BY DEF LayersInv, Good
<1>2. sources \in [Versions -> {"absent", "converting", "ready", "embedded"}]
  BY <1>1 DEF Lineage
<1>3. lin' = [lin EXCEPT !.sources = sources, !.current = current]
  BY <1>1 DEF Structured, Lineage
<1>4. current \in {Unset} \cup Versions
  BY <1>1 DEF Lineage
<1>5. /\ \A u \in Versions \ {v} : sources[u] = lin.sources[u]
      /\ sources[v] = "ready" /\ lin.sources[v] = "converting"
  BY <1>1 DEF Lineage, Structured
<1> HIDE DEF sources
<1>6. current \in {v, lin.current} /\ (current = lin.current \/ current = v)
  OBVIOUS
<1> HIDE DEF current
<1>7. /\ lin' \in Lineage /\ lin'.latest = lin.latest /\ lin'.sources = sources
      /\ lin'.current = current /\ lin'.deleted = lin.deleted
      /\ lin'.gap = lin.gap /\ lin'.work = lin.work
  BY <1>1, <1>2, <1>3, <1>4 DEF Lineage
<1>8. ASSUME NEW u \in Versions
      PROVE  RowsFit(lin', u) /\ Chained(lin', u) /\ OnItsWay(lin', u)
  BY <1>1, <1>5, <1>7 DEF Good, RowsFit, Chained, OnItsWay, Booked, Live, SourcesComplete
<1>9. Good(lin)'
  BY <1>7, <1>8 DEF Good, Lineage, RowsFit, Chained, OnItsWay, Booked, Live, SourcesComplete
<1>10. \A l \in Layers : lin.gap[v][l] = "none"
  BY <1>1, <1>5 DEF Good, RowsFit, SourcesComplete
<1>11. \A l \in Layers : Undischarged(lin, l)'
  BY <1>1, <1>6, <1>7, <1>10 DEF Placed, Undischarged, Live, Structured, Static
<1>12. v <= lin.latest
  BY <1>1, <1>5 DEF Placed
<1>13. Placed(lin)'
  BY <1>1, <1>5, <1>6, <1>7, <1>11, <1>12 DEF Placed, Structured, SetupVars
<1> QED
  BY <1>7, <1>9, <1>13 DEF LayersInv, Structured, Static, SetupVars, CurrencyOf

(* Only rows have moved. *)
LEMMA PlacedBesides ==
  ASSUME NEW s, NEW t, Placed(s), SameVersions(s, t), t.gap = s.gap
  PROVE  Placed(t)
  BY DEF Placed, SameVersions, Undischarged, Live

LEMMA EnteringKeepsGaps ==
  ASSUME NEW s \in Lineage, NEW v \in Versions
  PROVE  EnterFacts(s, v).gap = s.gap
  BY Enqueues, ZenonT(40) DEF EnterFacts, Becomes

LEMMA FreshExtractionMakesGood ==
  ASSUME NEW s, NEW v \in Versions, AlmostGood(s, v), SourcesComplete(s, v), Fresh(s, v)
  PROVE  Follows(s, Enqueue(s, v, {"extract"})) /\ Enqueue(s, v, {"extract"}).gap = s.gap
<1> DEFINE t == Enqueue(s, v, {"extract"})
<1>1. /\ s \in Lineage /\ t \in Lineage /\ SameVersions(s, t) /\ t.gap = s.gap
      /\ t.work = [s.work EXCEPT ![v] = [st \in Stages |->
                     IF st \in {"extract"} /\ s.work[v][st] = "none" THEN "open"
                     ELSE s.work[v][st]]]
  BY Enqueues DEF AlmostGood, Becomes, SameVersions
<1> HIDE DEF t
<1>2. /\ \A u \in Versions \ {v} : t.work[u] = s.work[u]
      /\ \A st \in Stages \ {"extract"} : t.work[v][st] = "none"
      /\ t.work[v]["extract"] = "open"
  BY <1>1 DEF Lineage, Fresh, Stages
<1>3. ASSUME NEW u \in Versions PROVE RowsFit(t, u) /\ Chained(t, u) /\ OnItsWay(t, u)
  <2>1. CASE u = v
    BY <1>1, <1>2, <2>1 DEF RowsFit, Chained, OnItsWay, Booked, Live,
                            SourcesComplete, SameVersions, Layers, Stages, Fresh
  <2>2. CASE u # v
    BY <1>1, <1>2, <2>2 DEF AlmostGood, RowsFit, Chained, OnItsWay, Booked, Live,
                            SourcesComplete, SameVersions
  <2> QED
    BY <2>1, <2>2
<1>4. ASSUME NEW l \in Layers, Undischarged(s, l) PROVE Undischarged(t, l)
  BY <1>1, <1>4 DEF Undischarged, SameVersions, Live
<1> QED
  BY <1>1, <1>3, <1>4 DEF Follows, Good, t

LEMMA EmbedKeepsInv ==
  ASSUME LayersInv, NEW v \in Versions, EmbedCompletes(v)
  PROVE  LayersInv'
<1> DEFINE s == [lin EXCEPT !.sources[v] = "embedded"]
           sources == [lin.sources EXCEPT ![v] = "embedded"]
<1>1. lin \in Lineage /\ Good(lin) /\ Placed(lin)
  BY DEF LayersInv, Good
<1>2. sources \in [Versions -> {"absent", "converting", "ready", "embedded"}]
  BY <1>1 DEF Lineage
<1>3. s = [lin EXCEPT !.sources = sources]
  BY <1>1 DEF Lineage
<1>4. /\ \A u \in Versions \ {v} : sources[u] = lin.sources[u]
      /\ sources[v] = "embedded" /\ lin.sources[v] = "ready"
  BY <1>1 DEF Lineage, EmbedCompletes
<1>5. /\ lin' = IF config.configured THEN ClaimsBoundary(s, v)
                ELSE IF v \in zeroChunk THEN EnterFacts(s, v)
                ELSE Enqueue(s, v, {"extract"})
      /\ UNCHANGED <<living, config, switches, seedOwed, testimony, cascading>>
  BY DEF EmbedCompletes, Static, SetupVars, CurrencyOf
<1> HIDE DEF sources
<1>6. /\ s \in Lineage /\ s.latest = lin.latest /\ s.sources = sources
      /\ s.current = lin.current /\ s.deleted = lin.deleted
      /\ s.gap = lin.gap /\ s.work = lin.work
  BY <1>1, <1>2, <1>3 DEF Lineage
<1> HIDE DEF s
<1>7. Fresh(s, v) /\ SourcesComplete(s, v)
  BY <1>1, <1>4, <1>6 DEF Good, RowsFit, SourcesComplete, Fresh
<1>8. ASSUME NEW u \in Versions \ {v} PROVE RowsFit(s, u) /\ Chained(s, u) /\ OnItsWay(s, u)
  BY <1>1, <1>4, <1>6 DEF Good, RowsFit, Chained, OnItsWay, Booked, Live, SourcesComplete
<1>9. RowsFit(s, v) /\ Chained(s, v)
  BY <1>7 DEF RowsFit, Chained, Fresh, Layers, Stages
<1>10. AlmostGood(s, v)
  BY <1>6, <1>8, <1>9 DEF AlmostGood
<1>11. Placed(s)
  BY <1>1, <1>4, <1>6 DEF Placed, Undischarged, Live
<1>12. Follows(s, ClaimsBoundary(s, v)) /\ Follows(s, EnterFacts(s, v))
       /\ Follows(s, Enqueue(s, v, {"extract"}))
  BY <1>7, <1>10, ClaimsBoundaryMakesGood, EnteringMakesGood, FreshExtractionMakesGood
<1>13. EnterFacts(s, v).gap = s.gap /\ Enqueue(s, v, {"extract"}).gap = s.gap
  BY <1>6, <1>7, <1>10, EnteringKeepsGaps, FreshExtractionMakesGood
<1>14. Follows(s, lin') /\ (config.configured \/ lin'.gap = s.gap)
  BY <1>5, <1>12, <1>13
<1>15. /\ testimony' \in [Versions -> {"none", "current", "retired"}]
       /\ seedOwed' \subseteq seedOwed /\ cascading' \subseteq cascading
  BY <1>5 DEF LayersInv
<1> QED
  BY <1>5, <1>6, <1>11, <1>14, <1>15, FollowingKeepsInv

LEMMA ExtractKeepsInv ==
  ASSUME LayersInv, NEW v \in Versions, ExtractCompletes(v)
  PROVE  LayersInv'
<1> DEFINE s == Done(v, "extract")
<1>1. lin \in Lineage /\ Good(lin) /\ Placed(lin) /\ lin.work[v]["extract"] = "open"
  BY DEF LayersInv, Good, ExtractCompletes
<1>2. /\ lin' = IF config.configured THEN FactsBoundary(s, v) ELSE EnterFacts(s, v)
      /\ UNCHANGED <<living, config, switches, seedOwed, cascading>>
      /\ testimony' = [testimony EXCEPT ![v] = "current"]
  BY DEF ExtractCompletes, Static, SetupVars
<1>3. /\ AlmostGood(s, v) /\ SourcesComplete(s, v) /\ SameVersions(lin, s)
      /\ s.gap = lin.gap
  BY <1>1, ExtractionAlmostGood DEF Done
<1> HIDE DEF s
<1>4. Placed(s) /\ s \in Lineage /\ s.deleted = lin.deleted
  BY <1>1, <1>3, PlacedBesides DEF AlmostGood, SameVersions
<1>5. Follows(s, FactsBoundary(s, v)) /\ Follows(s, EnterFacts(s, v))
  BY <1>3, FactsBoundaryMakesGood, EnteringMakesGood
<1>6. Follows(s, lin') /\ (config.configured \/ lin'.gap = s.gap)
  BY <1>2, <1>4, <1>5, EnteringKeepsGaps
<1>7. /\ testimony' \in [Versions -> {"none", "current", "retired"}]
      /\ seedOwed' \subseteq seedOwed /\ cascading' \subseteq cascading
  BY <1>2 DEF LayersInv
<1> QED
  BY <1>2, <1>4, <1>6, <1>7, FollowingKeepsInv

LEMMA FactsKeepInv ==
  ASSUME LayersInv, NEW v \in Versions, FactsComplete(v)
  PROVE  LayersInv'
<1>1. Good(lin) /\ Placed(lin) /\ lin.work[v]["facts"] = "open"
  BY DEF LayersInv, FactsComplete
<1>2. Follows(lin, lin') /\ lin'.gap = lin.gap
  BY <1>1, NormalisedKeepsGood DEF FactsComplete, Done
<1>3. /\ testimony' \in [Versions -> {"none", "current", "retired"}]
      /\ seedOwed' \subseteq seedOwed /\ cascading' \subseteq cascading
      /\ UNCHANGED <<living, config, switches>>
  BY DEF LayersInv, FactsComplete, Static, SetupVars, CurrencyOf
<1> QED
  BY <1>1, <1>2, <1>3, FollowingKeepsInv

LEMMA ClaimsEmbeddedKeepsInv ==
  ASSUME LayersInv, NEW v \in Versions, ClaimsEmbedded(v)
  PROVE  LayersInv'
<1> DEFINE s == Done(v, "claimEmbed")
<1>1. lin \in Lineage /\ Good(lin) /\ Placed(lin) /\ lin.work[v]["claimEmbed"] = "open"
  BY DEF LayersInv, Good, ClaimsEmbedded
<1>2. /\ lin' = IF config.configured THEN FrontierReached(s, v, "claims") ELSE s
      /\ UNCHANGED <<living, config, switches, seedOwed, cascading, testimony>>
  BY DEF ClaimsEmbedded, Static, SetupVars, CurrencyOf
<1>3. Follows(lin, s)
  BY <1>1, RowMoveKeepsGood DEF Done, Stages, RowStatuses
<1>4. s.gap = lin.gap /\ s.work = [lin.work EXCEPT ![v]["claimEmbed"] = "done"]
  BY <1>1, SetsRow DEF Done, Stages, RowStatuses
<1> HIDE DEF s
<1>5. Good(s) /\ s \in Lineage
  BY <1>3 DEF Follows, Good
<1>6. Live(s, v) => Booked(s, v)
  BY <1>1, <1>4, <1>5 DEF Good, Chained, Lineage, Stages
<1>7. Follows(s, FrontierReached(s, v, "claims"))
  BY <1>5, <1>6, FrontierKeepsGood DEF Layers
<1>8. Follows(lin, FrontierReached(s, v, "claims"))
  BY <1>3, <1>7, FollowsChains
<1>9. Follows(lin, lin') /\ (config.configured \/ lin'.gap = lin.gap)
  BY <1>2, <1>3, <1>4, <1>8
<1>10. /\ testimony' \in [Versions -> {"none", "current", "retired"}]
       /\ seedOwed' \subseteq seedOwed /\ cascading' \subseteq cascading
  BY <1>2 DEF LayersInv
<1> QED
  BY <1>1, <1>2, <1>9, <1>10, FollowingKeepsInv

LEMMA ReconcileKeepsInv ==
  ASSUME LayersInv, NEW v \in Versions, NEW stage \in Reconciles,
         ReconcileReads(v, stage) \/ ReconcileSupersedes(v, stage)
  PROVE  LayersInv'
<1>1. /\ lin \in Lineage /\ Good(lin) /\ Placed(lin) /\ stage \in Stages
      /\ testimony \in [Versions -> {"none", "current", "retired"}]
  BY DEF LayersInv, Good, Reconciles, Stages
<1>2. /\ UNCHANGED <<living, config, switches, seedOwed>> /\ cascading' \subseteq cascading
      /\ seedOwed' \subseteq seedOwed
  BY DEF ReconcileReads, ReconcileSupersedes, Static, SetupVars
<1>3. testimony' \in [Versions -> {"none", "current", "retired"}]
  <2>1. CASE ReconcileReads(v, stage)
    BY <1>1, <2>1 DEF ReconcileReads
  <2>2. CASE ReconcileSupersedes(v, stage)
    BY <1>1, <2>2, CurrencyTyped DEF ReconcileSupersedes
  <2> QED
    BY <2>1, <2>2
<1>4. PICK status \in {"read", "applied"} :
        /\ lin' = [lin EXCEPT !.work[v][stage] = status]
        /\ lin.work[v][stage] \in {"open", "read"}
  BY DEF ReconcileReads, ReconcileSupersedes
<1>5. /\ status \in RowStatuses \ {"none"} /\ status \in RowStatuses
      /\ lin.work[v][stage] \notin {"none", "done"} /\ status # "done"
  BY <1>4 DEF RowStatuses
<1>6. Follows(lin, [lin EXCEPT !.work[v][stage] = status])
  BY <1>1, <1>5, RowMoveKeepsGood
<1>7. [lin EXCEPT !.work[v][stage] = status].gap = lin.gap
  BY <1>1, <1>5, SetsRow
<1> QED
  BY <1>1, <1>2, <1>3, <1>4, <1>6, <1>7, FollowingKeepsInv

LEMMA ReconcileDoneKeepsInv ==
  ASSUME LayersInv, NEW v \in Versions, NEW stage \in Reconciles, ReconcileCompletes(v, stage)
  PROVE  LayersInv'
<1> DEFINE s == Done(v, stage)
<1>1. /\ lin \in Lineage /\ Good(lin) /\ Placed(lin) /\ lin.work[v][stage] = "applied"
      /\ stage \in Stages
  BY DEF LayersInv, Good, ReconcileCompletes, Reconciles, Stages
<1>2. /\ lin' = IF ~config.configured THEN s
                ELSE IF stage = "full" THEN FrontierReached(s, v, "facts")
                ELSE AdvanceFacts(s)
      /\ UNCHANGED <<living, config, switches, seedOwed, cascading, testimony>>
  BY DEF ReconcileCompletes, Static, SetupVars, CurrencyOf
<1>3. Follows(lin, s)
  BY <1>1, RowMoveKeepsGood DEF Done, RowStatuses, Reconciles
<1>4. s.gap = lin.gap /\ s.work = [lin.work EXCEPT ![v][stage] = "done"]
  BY <1>1, SetsRow DEF Done, RowStatuses
<1> HIDE DEF s
<1>5. Good(s) /\ s \in Lineage
  BY <1>3 DEF Follows, Good
<1>6. stage = "full" => s.work[v]["full"] # "none"
  BY <1>1, <1>4 DEF Lineage
<1>7. stage = "full" => Follows(s, FrontierReached(s, v, "facts"))
  BY <1>5, <1>6, FrontierKeepsGood DEF Layers
<1>8. Follows(s, AdvanceFacts(s))
  BY <1>5, AdvancingFactsKeepsGood
<1>9. Follows(lin, AdvanceFacts(s))
  BY <1>3, <1>8, FollowsChains
<1>10. stage = "full" => Follows(lin, FrontierReached(s, v, "facts"))
  BY <1>3, <1>7, FollowsChains
<1>11. Follows(lin, lin') /\ (config.configured \/ lin'.gap = lin.gap)
  BY <1>2, <1>3, <1>4, <1>9, <1>10
<1>12. /\ testimony' \in [Versions -> {"none", "current", "retired"}]
       /\ seedOwed' \subseteq seedOwed /\ cascading' \subseteq cascading
  BY <1>2 DEF LayersInv
<1> QED
  BY <1>1, <1>2, <1>11, <1>12, FollowingKeepsInv

(* A dead row is replayed as an open one; a dead tail was not admitted to   *)
(* run beside fact work, and is not now.                                    *)
LEMMA DyingKeepsInv ==
  ASSUME LayersInv, NEW v \in Versions, NEW stage \in Stages,
         DeadLetters(v, stage) \/ Replays(v, stage)
  PROVE  LayersInv'
<1>1. /\ lin \in Lineage /\ Good(lin) /\ Placed(lin)
      /\ testimony \in [Versions -> {"none", "current", "retired"}]
  BY DEF LayersInv, Good
<1>2. /\ UNCHANGED <<living, config, switches, seedOwed, testimony, cascading>>
  BY DEF DeadLetters, Replays, Static, SetupVars, CurrencyOf
<1>3. PICK status \in {"dead", "open"} :
        /\ lin' = [lin EXCEPT !.work[v][stage] = status]
        /\ lin.work[v][stage] \in {"open", "read", "applied", "dead"}
  BY DEF DeadLetters, Replays, InFlight
<1>4. /\ status \in RowStatuses \ {"none"} /\ status \in RowStatuses
      /\ lin.work[v][stage] \notin {"none", "done"} /\ status # "done"
  BY <1>3 DEF RowStatuses
<1>5. Follows(lin, [lin EXCEPT !.work[v][stage] = status])
  BY <1>1, <1>4, RowMoveKeepsGood
<1>6. [lin EXCEPT !.work[v][stage] = status].gap = lin.gap
  BY <1>1, <1>4, SetsRow
<1>7. /\ testimony' \in [Versions -> {"none", "current", "retired"}]
      /\ seedOwed' \subseteq seedOwed /\ cascading' \subseteq cascading
  BY <1>1, <1>2
<1> QED
  BY <1>1, <1>2, <1>3, <1>5, <1>6, <1>7, FollowingKeepsInv

(* The versions a lineage is repointed to are its own. *)
LEMMA RepointedIsOwn ==
  ASSUME LayersInv, LayersAssumption, NEW v \in Versions
  PROVE  Repointed(v) \in {Unset} \cup Versions /\ Repointed(v) <= lin.latest
<1> DEFINE R == Remaining(v)
           up(u) == LastVersion - u
<1>1. lin \in Lineage /\ Placed(lin) /\ lin.latest \in Nat
  BY DEF LayersInv, Good, Lineage
<1>2. CASE lin.current # v \/ R = {}
  BY <1>1, <1>2 DEF Repointed, Lineage, Placed, Unset
<1>3. CASE lin.current = v /\ R # {}
  <2> DEFINE T == {up(u) : u \in R}
  <2>1. T \in SUBSET Nat /\ T # {} /\ R \subseteq Versions /\ R \subseteq Nat
    BY <1>3 DEF Remaining, Versions, LayersAssumption
  <2>2. PICK x \in T : \A y \in T : x <= y
    BY <2>1, LeastNatural
  <2>3. PICK m \in R : x = up(m)
    OBVIOUS
  <2>4. \A w \in R : up(m) <= up(w) /\ w \in Nat
    BY <2>1, <2>2, <2>3
  <2>5. \A w \in R : w <= m
    BY <2>1, <2>4 DEF LayersAssumption
  <2>6. Repointed(v) \in R
    BY <1>3, <2>5 DEF Repointed
  <2> QED
    BY <1>1, <2>1, <2>6 DEF Placed, Remaining
<1> QED
  BY <1>2, <1>3

(* A lineage whose deletions, and perhaps whose pointer, have changed. *)
LEMMA ClearingKeepsInv ==
  ASSUME LayersInv, LayersAssumption, NEW deleted, NEW current,
         lin.deleted \subseteq deleted, deleted \subseteq 1..lin.latest,
         current \in {Unset} \cup Versions, current <= lin.latest,
         lin' = LineageChanged([lin EXCEPT !.deleted = deleted, !.current = current]),
         UNCHANGED <<living, config, switches, seedOwed>>, cascading' \subseteq deleted,
         testimony' \in [Versions -> {"none", "current", "retired"}]
  PROVE  LayersInv'
<1> DEFINE s == [lin EXCEPT !.deleted = deleted, !.current = current]
<1>1. lin \in Lineage /\ Good(lin) /\ Placed(lin) /\ lin.latest \in Nat
  BY DEF LayersInv, Good, Lineage
<1>2. deleted \in SUBSET Versions
  BY <1>1 DEF Placed, Versions, LayersAssumption
<1>3. /\ s \in Lineage /\ s.latest = lin.latest /\ s.sources = lin.sources
      /\ s.deleted = deleted /\ s.current = current
      /\ s.gap = lin.gap /\ s.work = lin.work
  BY <1>1, <1>2 DEF Lineage
<1>4. lin' = LineageChanged(s)
  OBVIOUS
<1> HIDE DEF s
<1>5. \A u \in Versions : Live(s, u) => RowsFit(s, u) /\ Chained(s, u) /\ OnItsWay(s, u)
  BY <1>1, <1>3 DEF Good, RowsFit, Chained, OnItsWay, Booked, Live, SourcesComplete
<1>6. \A u \in Versions, st \in Stages : s.work[u][st] # "none" => SourcesComplete(s, u)
  BY <1>1, <1>3 DEF Good, RowsFit, SourcesComplete
<1>7. config.configured \/ \A u \in Versions, l \in Layers : s.gap[u][l] = "none"
  BY <1>1, <1>3 DEF Placed
<1>8. /\ Good(lin') /\ SameVersions(s, lin')
      /\ \A l \in Layers : Undischarged(lin', l)
      /\ config.configured \/ \A u \in Versions, l \in Layers : lin'.gap[u][l] = "none"
  BY <1>3, <1>4, <1>5, <1>6, <1>7, DeletionMakesGood
<1>9. Placed(lin')
  BY <1>1, <1>3, <1>8 DEF Placed, SameVersions
<1>10. Placed(lin)'
  BY <1>9 DEF Placed, Undischarged, Live
<1>11. Good(lin)' /\ lin'.deleted = deleted
  BY <1>3, <1>8 DEF SameVersions, Good, Lineage, RowsFit, Chained, OnItsWay, Booked, Live,
                    SourcesComplete
<1> QED
  BY <1>10, <1>11 DEF LayersInv

LEMMA DeletingKeepsInv ==
  ASSUME LayersInv, LayersAssumption, NEW v \in Versions, DeleteVersion(v)
  PROVE  LayersInv'
<1>1. Repointed(v) \in {Unset} \cup Versions /\ Repointed(v) <= lin.latest
  BY RepointedIsOwn
<1>2. /\ lin.deleted \cup {v} \subseteq 1..lin.latest
      /\ testimony' \in [Versions -> {"none", "current", "retired"}]
      /\ cascading' \subseteq lin.deleted \cup {v}
  BY DEF LayersInv, Placed, DeleteVersion, Versions, Good, Lineage
<1>3. /\ lin' = LineageChanged([lin EXCEPT !.deleted = lin.deleted \cup {v},
                                           !.current = Repointed(v)])
      /\ UNCHANGED <<living, config, switches, seedOwed>>
  BY DEF DeleteVersion, Static, SetupVars
<1> QED
  BY <1>1, <1>2, <1>3, ClearingKeepsInv, Zenon

LEMMA DeletingDocumentKeepsInv ==
  ASSUME LayersInv, LayersAssumption, DeleteDocument
  PROVE  LayersInv'
<1>1. lin \in Lineage /\ Placed(lin)
  BY DEF LayersInv, Good
<1>2. /\ lin.deleted \subseteq 1..lin.latest
      /\ lin.current \in {Unset} \cup Versions /\ lin.current <= lin.latest
  BY <1>1 DEF Placed, Lineage
<1>3. [lin EXCEPT !.deleted = 1..lin.latest]
        = [lin EXCEPT !.deleted = 1..lin.latest, !.current = lin.current]
  BY <1>1 DEF Lineage
<1>4. /\ lin' = LineageChanged([lin EXCEPT !.deleted = 1..lin.latest,
                                           !.current = lin.current])
      /\ UNCHANGED <<living, config, switches, seedOwed>>
  BY <1>3 DEF DeleteDocument, Static, SetupVars
<1>5. cascading' \subseteq 1..lin.latest
  BY <1>2 DEF DeleteDocument, LayersInv
<1>6. testimony' \in [Versions -> {"none", "current", "retired"}]
  BY DEF DeleteDocument, LayersInv
<1> QED
  BY <1>2, <1>4, <1>5, <1>6, ClearingKeepsInv, Zenon

LEMMA CascadeKeepsInv ==
  ASSUME LayersInv, NEW v \in Versions, Cascade(v)
  PROVE  LayersInv'
<1>1. Good(lin) /\ Placed(lin)
  BY DEF LayersInv
<1>2. Follows(lin, lin') /\ lin'.gap = lin.gap
  BY <1>1, StaysPut DEF Cascade
<1>3. /\ UNCHANGED <<living, config, switches, seedOwed>>
      /\ seedOwed' \subseteq seedOwed /\ cascading' \subseteq cascading
      /\ testimony' \in [Versions -> {"none", "current", "retired"}]
  BY DEF Cascade, LayersInv, Static, SetupVars
<1> QED
  BY <1>1, <1>2, <1>3, FollowingKeepsInv

LEMMA SwitchKeepsInv ==
  ASSUME LayersInv, LayersAssumption, Switch
  PROVE  LayersInv'
<1>1. Good(lin) /\ Placed(lin)
  BY DEF LayersInv
<1>2. config' \in Configs /\ config'.configured /\ UNCHANGED <<living, lin>>
  BY DEF Switch, Static
<1>3. Good(lin)'
  BY <1>1, <1>2
<1>4. Placed(lin)'
  BY <1>1, <1>2 DEF Placed, Undischarged, Live
<1>5. switches' \in 0..MaxSwitches /\ seedOwed' \subseteq Layers
  BY DEF LayersInv, Switch, LayersAssumption
<1> QED
  BY <1>2, <1>3, <1>4, <1>5 DEF LayersInv, Switch, CurrencyOf

LEMMA SeedingKeepsInv ==
  ASSUME LayersInv, NEW layer \in Layers, Seeds(layer)
  PROVE  LayersInv'
<1>1. Good(lin) /\ Placed(lin) /\ config.configured
  BY DEF LayersInv, Seeds
<1>2. Follows(lin, lin)
  BY <1>1, StaysPut
<1>3. Follows(lin, AdvanceClaims(lin)) /\ Follows(lin, AdvanceFacts(lin))
  BY <1>1, AdvancingClaimsKeepsGood, AdvancingFactsKeepsGood
<1>4. lin' \in {lin, AdvanceClaims(lin), AdvanceFacts(lin)}
  BY DEF Seeds
<1>5. Follows(lin, lin')
  BY <1>2, <1>3, <1>4
<1>6. /\ UNCHANGED <<living, config, switches>>
      /\ seedOwed' \subseteq seedOwed /\ cascading' \subseteq cascading
      /\ testimony' \in [Versions -> {"none", "current", "retired"}]
  BY DEF Seeds, LayersInv, Static, CurrencyOf
<1> QED
  BY <1>1, <1>5, <1>6, FollowingKeepsInv

LEMMA InitSetsInv ==
  ASSUME LayersAssumption, Init
  PROVE  LayersInv
<1>1. lin \in Lineage
  BY DEF Init, Lineage, GapStates, RowStatuses, Unset
<1>2. /\ \A v \in Versions, l \in Layers : lin.gap[v][l] = "none"
      /\ \A v \in Versions, st \in Stages : lin.work[v][st] = "none"
      /\ \A v \in Versions : lin.sources[v] = "absent"
      /\ lin.latest = 0 /\ lin.current = 0 /\ lin.deleted = {}
  BY DEF Init, Unset
<1>3. Good(lin)
  BY <1>1, <1>2 DEF Good, RowsFit, Chained, OnItsWay, SourcesComplete, Layers, Stages
<1>4. Placed(lin)
  BY <1>2 DEF Placed, Undischarged, Unset, LayersAssumption
<1> QED
  BY <1>3, <1>4 DEF LayersInv, Init, LayersAssumption

LEMMA StepKeepsInv ==
  ASSUME LayersInv, LayersAssumption, [Next]_vars
  PROVE  LayersInv'
<1>1. CASE UNCHANGED vars
  BY <1>1 DEF vars, layerVars, LayersInv, Good, Placed, Lineage, RowsFit, Chained, OnItsWay,
              Booked, Live, SourcesComplete, Undischarged
<1>2. CASE Ingest
  BY <1>2, IngestKeepsInv
<1>3. CASE DeleteDocument
  BY <1>3, DeletingDocumentKeepsInv
<1>4. CASE Switch
  BY <1>4, SwitchKeepsInv
<1>5. CASE \E layer \in Layers : Seeds(layer)
  BY <1>5, SeedingKeepsInv
<1>6. ASSUME NEW v \in Versions,
             \/ Structured(v) \/ EmbedCompletes(v) \/ ExtractCompletes(v)
             \/ FactsComplete(v) \/ ClaimsEmbedded(v)
             \/ DeleteVersion(v) \/ Cascade(v)
      PROVE  LayersInv'
  BY <1>6, StructuredKeepsInv, EmbedKeepsInv, ExtractKeepsInv, FactsKeepInv,
     ClaimsEmbeddedKeepsInv, DeletingKeepsInv, CascadeKeepsInv
<1>7. ASSUME NEW v \in Versions, NEW stage \in Reconciles,
             \/ ReconcileReads(v, stage) \/ ReconcileSupersedes(v, stage)
             \/ ReconcileCompletes(v, stage)
      PROVE  LayersInv'
  BY <1>7, ReconcileKeepsInv, ReconcileDoneKeepsInv
<1>8. ASSUME NEW v \in Versions, NEW stage \in Stages,
             DeadLetters(v, stage) \/ Replays(v, stage)
      PROVE  LayersInv'
  BY <1>8, DyingKeepsInv
<1> QED
  BY <1>1, <1>2, <1>3, <1>4, <1>5, <1>6, <1>7, <1>8 DEF Next

(* The lineage is always as the transactions of spine/processing_layers    *)
(* expect it: its work, gaps and versions fit together.                    *)
THEOREM InvHolds == Spec => []LayersInv
<1>1. Init => LayersInv
  BY LayersAssumption, InitSetsInv
<1>2. LayersInv /\ [Next]_vars => LayersInv'
  BY LayersAssumption, StepKeepsInv
<1> QED
  BY <1>1, <1>2, PTL DEF Spec

-----------------------------------------------------------------------------
(* What it gives.                                                          *)

(* Every gap and every work row is of a version past its sources, a gap    *)
(* moreover of one that is live, whatever the transactions did.            *)
THEOREM TypeCorrect == Spec => []TypeOK
<1>1. LayersInv => TypeOK
  <2> SUFFICES ASSUME LayersInv PROVE TypeOK
    OBVIOUS
  <2>1. lin \in Lineage /\ Good(lin) /\ Placed(lin)
    BY DEF LayersInv, Good
  <2>2. /\ lin.latest \in 0..LastVersion /\ lin.deleted \subseteq 1..lin.latest
        /\ lin.current \in 0..lin.latest
    BY <2>1, LayersAssumption DEF Placed, Lineage, Versions, Unset
  <2>3. ASSUME NEW v \in Versions
        PROVE  /\ lin.gap[v] \in [Layers -> {"none", "open", "entered", "discharged"}]
               /\ lin.work[v] \in [Stages -> RowStatuses]
               /\ lin.gap[v] # [l \in Layers |-> "none"]
                    => Live(lin, v) /\ SourcesComplete(lin, v)
               /\ lin.work[v] # [st \in Stages |-> "none"] => SourcesComplete(lin, v)
               /\ testimony[v] \in {"none", "current", "retired"}
    <3>1. /\ lin.gap[v] \in [Layers -> {"none", "open", "entered", "discharged"}]
          /\ lin.work[v] \in [Stages -> RowStatuses]
      BY <2>1 DEF Lineage, GapStates
    <3>2. RowsFit(lin, v) /\ testimony[v] \in {"none", "current", "retired"}
      BY <2>1 DEF Good, LayersInv
    <3> QED
      BY <3>1, <3>2 DEF RowsFit
  <2> QED
    BY <2>2, <2>3 DEF TypeOK, LayersInv
<1> QED
  BY <1>1, InvHolds, PTL

(* Design 5.2: the claims-mode reconcile of a version is never in flight   *)
(* beside that version's admitted fact work.                               *)
THEOREM TailsApart == Spec => []TailNeverBesideFactWork
<1>1. LayersInv => TailNeverBesideFactWork
  BY DEF LayersInv, Good, RowsFit, TailNeverBesideFactWork, FactWorkAdmitted, InFlight
<1> QED
  BY <1>1, InvHolds, PTL

(* A living lineage's live current version is never left discharged: every *)
(* event that may move the pointer back, a deletion, advances both layers, *)
(* and advance reopens the current version before it discharges others.    *)
THEOREM CurrentStays == Spec => []CurrentNeverDischarged
<1>1. LayersInv => CurrentNeverDischarged
  BY DEF LayersInv, Placed, Undischarged, CurrentNeverDischarged
<1> QED
  BY <1>1, InvHolds, PTL

(* When all work has drained, no version past its sources is lost.         *)
THEOREM AccountHolds == Spec => []DrainedIsAccounted
<1>1. LayersInv => DrainedIsAccounted
  <2> SUFFICES ASSUME LayersInv, Drained, NEW v \in Versions, Live(lin, v),
                      SourcesComplete(lin, v)
               PROVE  \/ Frontier(lin, "facts", v)
                      \/ lin.gap[v]["facts"] # "none"
                      \/ lin.gap[v]["claims"] = "open"
    BY DEF DrainedIsAccounted
  <2>1. Chained(lin, v) /\ OnItsWay(lin, v)
    BY DEF LayersInv, Good
  <2>2. \A st \in Stages : lin.work[v][st] \in {"none", "done"}
    BY DEF Drained
  <2> QED
    BY <2>1, <2>2 DEF Chained, OnItsWay, Booked, Frontier, Stages
<1> QED
  BY <1>1, InvHolds, PTL

-----------------------------------------------------------------------------
(* A lineage in order.  Fact work of a version is never admitted while a   *)
(* later live one has begun: in a living lineage only the current version  *)
(* is entered, and it is the latest; a later version begins once the facts *)
(* of every earlier one are settled.                                       *)

(* The version's facts, or its tail, have been asked for. *)
Begun(s, v) == \E st \in {"facts", "full", "tail"} : s.work[v][st] # "none"

CurrentIsLatest(s) ==
  \A v \in Versions : Live(s, v) /\ s.sources[v] \in {"ready", "embedded"} =>
    s.current # Unset /\ v <= s.current

(* The facts of a version with chunks follow its extraction. *)
FactsFollow(s, v) ==
  /\ s.work[v]["facts"] # "none" \/ s.work[v]["full"] # "none"
       => s.work[v]["extract"] = "done"
  /\ s.gap[v]["facts"] \in {"open", "discharged"}
       => s.work[v]["facts"] = "none" /\ s.work[v]["full"] = "none"
  /\ s.gap[v]["facts"] = "entered" => s.work[v]["full"] # "done"

InSequence(s, v) ==
  /\ v \in zeroChunk => s.work[v]["extract"] = "none"
  /\ v \notin zeroChunk => FactsFollow(s, v)
  /\ living \/ \A st \in Reconciles : s.work[v][st] # "read"

Overtaken(s, u, v) ==
  /\ u < v /\ Live(s, u) /\ Live(s, v) /\ Begun(s, v)
  /\ s.gap[u]["facts"] = "entered"

NobodyOvertaken(s) ==
  \A u \in Versions \ zeroChunk, v \in Versions : ~Overtaken(s, u, v)

Orderly(s) ==
  /\ \A v \in Versions : InSequence(s, v)
  /\ living => CurrentIsLatest(s) /\ NobodyOvertaken(s)

OrderInv ==
  /\ zeroChunk \subseteq Versions /\ Orderly(lin)
  /\ \A v \in zeroChunk : testimony[v] = "none"

(* What is needed of a good lineage, or of an almost good one. *)
Fit(s) == s \in Lineage /\ \A v \in Versions : RowsFit(s, v)

LEMMA GoodFits ==
  ASSUME NEW s, NEW v, Good(s) \/ AlmostGood(s, v)
  PROVE  Fit(s)
  BY DEF Good, AlmostGood, Fit

LEMMA FollowerFits ==
  ASSUME NEW s, NEW t, Follows(s, t)
  PROVE  Fit(t) /\ SameVersions(s, t)
  BY DEF Follows, Good, Fit

LEMMA LatestCarries ==
  ASSUME NEW s, NEW t, SameVersions(s, t), CurrentIsLatest(s)
  PROVE  CurrentIsLatest(t)
  BY DEF SameVersions, CurrentIsLatest, Live

(* Nothing has begun and nothing been entered that was not before. *)
LEMMA NothingBegins ==
  ASSUME NEW s, NEW t, SameVersions(s, t), NobodyOvertaken(s),
         \A v \in Versions : Live(t, v) /\ Begun(t, v) => Begun(s, v),
         \A v \in Versions : t.gap[v]["facts"] = "entered" => s.gap[v]["facts"] = "entered"
  PROVE  NobodyOvertaken(t)
  BY DEF SameVersions, NobodyOvertaken, Overtaken, Live

LEMMA BookingKeepsOrder ==
  ASSUME NEW s, NEW v \in Versions, NEW layer \in Layers, Fit(s), Orderly(s),
         layer = "facts" /\ v \notin zeroChunk /\ s.gap[v]["facts"] = "none"
           => s.work[v]["facts"] = "none" /\ s.work[v]["full"] = "none"
  PROVE  Orderly(RecordGap(s, v, layer))
<1> DEFINE t == RecordGap(s, v, layer)
<1>1. /\ s \in Lineage /\ SameVersions(s, t) /\ t.work = s.work
      /\ t.gap = [s.gap EXCEPT ![v][layer] = IF @ = "none" THEN "open" ELSE @]
  BY RecordsGap DEF Fit, Becomes, SameVersions
<1> HIDE DEF t
<1>2. /\ \A u \in Versions \ {v} : t.gap[u] = s.gap[u]
      /\ \/ t.gap[v]["facts"] = s.gap[v]["facts"]
         \/ layer = "facts" /\ s.gap[v]["facts"] = "none" /\ t.gap[v]["facts"] = "open"
  BY <1>1 DEF Lineage, Layers
<1>3. ASSUME NEW u \in Versions PROVE InSequence(t, u)
  BY <1>1, <1>2 DEF Orderly, InSequence, FactsFollow
<1>4. ASSUME living PROVE CurrentIsLatest(t) /\ NobodyOvertaken(t)
  <2>1. CurrentIsLatest(t)
    BY <1>1, <1>4, LatestCarries DEF Orderly
  <2>2. \A u \in Versions : t.gap[u]["facts"] = "entered" => s.gap[u]["facts"] = "entered"
    BY <1>2
  <2>3. NobodyOvertaken(t)
    BY <1>1, <1>4, <2>2, NothingBegins DEF Orderly, Begun
  <2> QED
    BY <2>1, <2>3
<1> QED
  BY <1>3, <1>4 DEF Orderly, t

LEMMA ReopeningKeepsOrder ==
  ASSUME NEW s, NEW layer \in Layers, Fit(s), Orderly(s)
  PROVE  Orderly(ReopenCurrent(s, layer))
<1> DEFINE t == ReopenCurrent(s, layer)
<1>1. /\ s \in Lineage /\ SameVersions(s, t) /\ t.work = s.work
      /\ t.gap = [v \in Versions |->
           IF v = s.current /\ v # Unset /\ s.gap[v][layer] = "discharged"
           THEN [l \in Layers |-> IF l \in Dependent(layer) /\ s.gap[v][l] = "discharged"
                                  THEN "open" ELSE s.gap[v][l]]
           ELSE s.gap[v]]
  BY Reopens DEF Fit, Becomes, SameVersions
<1> HIDE DEF t
<1>2. \A v \in Versions :
        \/ t.gap[v]["facts"] = s.gap[v]["facts"]
        \/ s.gap[v]["facts"] = "discharged" /\ t.gap[v]["facts"] = "open"
  BY <1>1 DEF Layers
<1>3. ASSUME NEW u \in Versions PROVE InSequence(t, u)
  BY <1>1, <1>2 DEF Orderly, InSequence, FactsFollow
<1>4. ASSUME living PROVE CurrentIsLatest(t) /\ NobodyOvertaken(t)
  <2>1. CurrentIsLatest(t)
    BY <1>1, <1>4, LatestCarries DEF Orderly
  <2>2. \A u \in Versions : t.gap[u]["facts"] = "entered" => s.gap[u]["facts"] = "entered"
    BY <1>2
  <2>3. NobodyOvertaken(t)
    BY <1>1, <1>4, <2>2, NothingBegins DEF Orderly, Begun
  <2> QED
    BY <2>1, <2>3
<1> QED
  BY <1>3, <1>4 DEF Orderly, t

(* A version discharged at the claims boundary was never extracted. *)
LEMMA DischargingKeepsOrder ==
  ASSUME NEW s, NEW layer \in Layers, Fit(s), Orderly(s)
  PROVE  Orderly(DischargeSuperseded(s, layer))
<1> DEFINE t == DischargeSuperseded(s, layer)
<1>1. /\ s \in Lineage /\ SameVersions(s, t) /\ t.work = s.work
      /\ t.gap = [v \in Versions |->
           IF v # s.current /\ s.gap[v][layer] = "open"
           THEN [l \in Layers |-> IF l \in Dependent(layer) /\ s.gap[v][l] # "entered"
                                  THEN "discharged" ELSE s.gap[v][l]]
           ELSE s.gap[v]]
  BY Discharges DEF Fit, Becomes, SameVersions
<1> HIDE DEF t
<1>2. ASSUME NEW v \in Versions
      PROVE  \/ t.gap[v]["facts"] = s.gap[v]["facts"]
             \/ /\ s.gap[v][layer] = "open" /\ t.gap[v]["facts"] = "discharged"
                /\ s.gap[v]["facts"] # "entered"
  BY <1>1 DEF Layers
<1>3. ASSUME NEW u \in Versions PROVE InSequence(t, u)
  <2>1. CASE t.gap[u]["facts"] = s.gap[u]["facts"]
    BY <1>1, <2>1 DEF Orderly, InSequence, FactsFollow
  <2>2. CASE t.gap[u]["facts"] # s.gap[u]["facts"]
    <3>1. s.gap[u][layer] = "open" /\ t.gap[u]["facts"] = "discharged"
      BY <1>2, <2>2
    <3>2. RowsFit(s, u) /\ InSequence(s, u)
      BY DEF Fit, Orderly
    <3>3. u \notin zeroChunk => s.work[u]["facts"] = "none" /\ s.work[u]["full"] = "none"
      <4>1. CASE layer = "claims"
        BY <3>1, <3>2, <4>1 DEF RowsFit, InSequence, FactsFollow
      <4>2. CASE layer = "facts"
        BY <3>1, <3>2, <4>2 DEF InSequence, FactsFollow
      <4> QED
        BY <4>1, <4>2 DEF Layers
    <3> QED
      BY <1>1, <3>1, <3>2, <3>3 DEF InSequence, FactsFollow
  <2> QED
    BY <2>1, <2>2
<1>4. ASSUME living PROVE CurrentIsLatest(t) /\ NobodyOvertaken(t)
  <2>1. CurrentIsLatest(t)
    BY <1>1, <1>4, LatestCarries DEF Orderly
  <2>2. \A u \in Versions : t.gap[u]["facts"] = "entered" => s.gap[u]["facts"] = "entered"
    BY <1>2
  <2>3. NobodyOvertaken(t)
    BY <1>1, <1>4, <2>2, NothingBegins DEF Orderly, Begun
  <2> QED
    BY <2>1, <2>3
<1> QED
  BY <1>3, <1>4 DEF Orderly, t

LEMMA PreparingKeepsOrder ==
  ASSUME NEW s, NEW layer \in Layers, Good(s), Orderly(s)
  PROVE  Orderly(Prepared(s, layer))
<1> DEFINE r == Reopened(s, layer)
<1>1. r \in {s, ReopenCurrent(s, layer)}
  BY DEF Reopened
<1>2. Follows(s, r)
  BY <1>1, StaysPut, ReopeningKeepsGood
<1>3. Orderly(r)
  BY <1>1, GoodFits, ReopeningKeepsOrder
<1>4. Fit(r)
  BY <1>2, FollowerFits
<1>5. Prepared(s, layer) \in {r, DischargeSuperseded(r, layer)}
  BY DEF Prepared
<1> HIDE DEF r
<1> QED
  BY <1>3, <1>4, <1>5, DischargingKeepsOrder

(* A tail waits until the facts of every earlier version are settled or    *)
(* known to be missing: none of them is entered.                           *)
LEMMA TailsKeepOrder ==
  ASSUME NEW s, Fit(s), Orderly(s), NEW factsOn, NEW admitted
  PROVE  Orderly(OpenTails(s, OwedTails(s, factsOn, admitted)))
<1> DEFINE owed == OwedTails(s, factsOn, admitted)
           t == OpenTails(s, owed)
<1>1. \A v \in owed : v \in Versions /\ \A u \in Earlier(s, v) : FactsSettled(s, u)
  BY DEF OwedTails
<1> HIDE DEF owed
<1>2. /\ s \in Lineage /\ SameVersions(s, t) /\ t.gap = s.gap
      /\ t.work = [v \in Versions |->
           IF v \in owed
           THEN [st \in Stages |-> IF /\ st \in {"claimEmbed", "tail"}
                                      /\ s.work[v][st] = "none"
                                   THEN "open" ELSE s.work[v][st]]
           ELSE s.work[v]]
  BY OpensTails DEF Fit, Becomes, SameVersions
<1> HIDE DEF t
<1>3. ASSUME NEW v \in Versions
      PROVE  /\ \A st \in {"extract", "facts", "full"} : t.work[v][st] = s.work[v][st]
             /\ t.work[v]["tail"] \in {s.work[v]["tail"], "open"}
             /\ v \notin owed => t.work[v] = s.work[v]
  BY <1>2 DEF Stages
<1>4. ASSUME NEW v \in Versions PROVE InSequence(t, v)
  BY <1>2, <1>3 DEF Orderly, InSequence, FactsFollow, Reconciles
<1>5. ASSUME living PROVE CurrentIsLatest(t) /\ NobodyOvertaken(t)
  <2>1. CurrentIsLatest(t)
    BY <1>2, <1>5, LatestCarries DEF Orderly
  <2>2. ASSUME NEW u \in Versions \ zeroChunk, NEW v \in Versions, Overtaken(t, u, v)
        PROVE  FALSE
    <3>1. /\ u < v /\ Live(s, u) /\ Live(s, v) /\ Begun(t, v)
          /\ s.gap[u]["facts"] = "entered"
      BY <1>2, <2>2 DEF Overtaken, SameVersions, Live
    <3>2. ~Begun(s, v)
      BY <1>5, <3>1 DEF Orderly, NobodyOvertaken, Overtaken
    <3>3. v \in owed
      BY <1>3, <3>1, <3>2 DEF Begun
    <3>4. u \in Earlier(s, v)
      BY <3>1 DEF Fit, RowsFit, Layers, Earlier, Versions
    <3>5. s.work[u]["full"] = "done"
      BY <1>1, <3>1, <3>3, <3>4 DEF FactsSettled
    <3> QED
      BY <3>1, <3>5 DEF Orderly, InSequence, FactsFollow
  <2> QED
    BY <2>1, <2>2 DEF NobodyOvertaken
<1> QED
  BY <1>4, <1>5 DEF Orderly, t, owed

(* Facts are entered of a version that nobody expects to be overtaken.     *)
LEMMA EnteringKeepsOrder ==
  ASSUME NEW s, NEW v \in Versions, Fit(s), Orderly(s),
         v \in zeroChunk \/ s.work[v]["extract"] = "done",
         s.gap[v]["facts"] \notin {"open", "discharged"},
         Live(s, v) => \A u \in Versions \ zeroChunk :
                         u < v /\ Live(s, u) => s.gap[u]["facts"] # "entered"
  PROVE  Orderly(EnterFacts(s, v))
<1> DEFINE stages == IF v \in zeroChunk THEN {"full", "claimEmbed"} ELSE {"facts"}
           t == EnterFacts(s, v)
<1>1. /\ s \in Lineage /\ SameVersions(s, t) /\ t.gap = s.gap
      /\ t.work = [s.work EXCEPT ![v] = [st \in Stages |->
                     IF st \in stages /\ s.work[v][st] = "none" THEN "open"
                     ELSE s.work[v][st]]]
  BY Enqueues DEF Fit, Becomes, SameVersions, EnterFacts
<1> HIDE DEF t
<1>2. /\ \A u \in Versions \ {v} : t.work[u] = s.work[u]
      /\ \A st \in Stages : t.work[v][st] = IF st \in stages /\ s.work[v][st] = "none"
                                            THEN "open" ELSE s.work[v][st]
  BY <1>1 DEF Lineage
<1>3. ASSUME NEW u \in Versions PROVE InSequence(t, u)
  <2>1. InSequence(s, u)
    BY DEF Orderly
  <2>2. CASE u = v
    <3>1. /\ t.work[v]["extract"] = s.work[v]["extract"]
          /\ v \notin zeroChunk => t.work[v]["full"] = s.work[v]["full"]
          /\ \A st \in Reconciles : t.work[v][st] \in {s.work[v][st], "open"}
      BY <1>2 DEF Stages, Reconciles
    <3> QED
      BY <1>1, <2>1, <2>2, <3>1 DEF InSequence, FactsFollow
  <2>3. CASE u # v
    BY <1>1, <1>2, <2>1, <2>3 DEF InSequence, FactsFollow
  <2> QED
    BY <2>2, <2>3
<1>4. ASSUME living PROVE CurrentIsLatest(t) /\ NobodyOvertaken(t)
  <2>1. CurrentIsLatest(t)
    BY <1>1, <1>4, LatestCarries DEF Orderly
  <2>2. ASSUME NEW u \in Versions \ zeroChunk, NEW w \in Versions, Overtaken(t, u, w)
        PROVE  FALSE
    <3>1. /\ u < w /\ Live(s, u) /\ Live(s, w) /\ Begun(t, w)
          /\ s.gap[u]["facts"] = "entered"
      BY <1>1, <2>2 DEF Overtaken, SameVersions, Live
    <3>2. w # v
      BY <3>1
    <3>3. Begun(s, w)
      BY <1>2, <3>1, <3>2 DEF Begun
    <3> QED
      BY <1>4, <3>1, <3>3 DEF Orderly, NobodyOvertaken, Overtaken
  <2> QED
    BY <2>1, <2>2 DEF NobodyOvertaken
<1> QED
  BY <1>3, <1>4 DEF Orderly, t

(* The version advance enters into facts: no later one has begun.          *)
LEMMA StampingFactsKeepsOrder ==
  ASSUME NEW s, NEW v \in Versions, Fit(s), Orderly(s), s.gap[v]["facts"] = "open",
         living => v = s.current
  PROVE  /\ Orderly(Stamp(s, "facts", v))
         /\ SameVersions(s, Stamp(s, "facts", v)) /\ Stamp(s, "facts", v).work = s.work
         /\ Stamp(s, "facts", v).gap = [s.gap EXCEPT ![v]["facts"] = "entered"]
<1> DEFINE t == Stamp(s, "facts", v)
<1>1. /\ s \in Lineage /\ SameVersions(s, t) /\ t.work = s.work
      /\ t.gap = [s.gap EXCEPT ![v]["facts"] = "entered"]
  BY Stamps DEF Fit, Becomes, SameVersions, Layers
<1> HIDE DEF t
<1>2. /\ \A u \in Versions \ {v} : t.gap[u] = s.gap[u]
      /\ t.gap[v]["facts"] = "entered"
  BY <1>1 DEF Lineage, Layers
<1>3. ASSUME NEW u \in Versions PROVE InSequence(t, u)
  <2>1. InSequence(s, u)
    BY DEF Orderly
  <2>2. CASE u = v
    BY <1>1, <1>2, <2>1, <2>2 DEF InSequence, FactsFollow
  <2>3. CASE u # v
    BY <1>1, <1>2, <2>1, <2>3 DEF InSequence, FactsFollow
  <2> QED
    BY <2>2, <2>3
<1>4. ASSUME living PROVE CurrentIsLatest(t) /\ NobodyOvertaken(t)
  <2>1. CurrentIsLatest(t)
    BY <1>1, <1>4, LatestCarries DEF Orderly
  <2>2. ASSUME NEW u \in Versions \ zeroChunk, NEW w \in Versions, Overtaken(t, u, w)
        PROVE  FALSE
    <3>1. u < w /\ Live(s, u) /\ Live(s, w) /\ Begun(s, w)
      BY <1>1, <2>2 DEF Overtaken, SameVersions, Live, Begun
    <3>2. u = v
      BY <1>2, <1>4, <2>2, <3>1 DEF Orderly, NobodyOvertaken, Overtaken
    <3>3. SourcesComplete(s, w)
      BY <3>1 DEF Begun, Fit, RowsFit, Stages
    <3>4. w <= v
      BY <1>4, <3>1, <3>3 DEF Orderly, CurrentIsLatest, SourcesComplete
    <3>5. u \in Int /\ w \in Int
      BY DEF Versions
    <3> QED
      BY <3>1, <3>2, <3>4, <3>5
  <2> QED
    BY <2>1, <2>2 DEF NobodyOvertaken
<1> QED
  BY <1>1, <1>3, <1>4 DEF Orderly, t

LEMMA AdvancingFactsKeepsOrder ==
  ASSUME NEW s, Good(s), Orderly(s)
  PROVE  Orderly(AdvanceFacts(s))
<1> DEFINE p == Prepared(s, "facts")
           admitted == Admitted(p, "facts")
           owed == OwedTails(p, config.facts, admitted)
           o == OpenTails(p, owed)
           v == CHOOSE v \in admitted : TRUE
           r == Stamp(o, "facts", v)
<1>1. Good(p) /\ Fit(p) /\ p \in Lineage /\ Orderly(p)
  BY PreparingKeepsGood, PreparingKeepsOrder, GoodFits DEF Layers, Follows, Fit
<1>2. AdvanceFacts(s) = IF admitted = {} THEN o ELSE EnterFacts(r, v)
  BY DEF AdvanceFacts
<1> HIDE DEF p
<1>3. Follows(p, o) /\ Orderly(o)
  BY <1>1, OwedTailsKeepGood, TailsKeepOrder
<1>4. Good(o) /\ Fit(o) /\ SameVersions(p, o)
  BY <1>3, GoodFits DEF Follows
<1>5. CASE admitted = {}
  BY <1>2, <1>3, <1>5
<1>6. CASE admitted # {}
  <2>1. v \in admitted
    BY <1>6
  <2>2. /\ v \in Versions /\ p.gap[v]["facts"] = "open" /\ (living => v = p.current)
        /\ v \in zeroChunk \/ p.work[v]["extract"] = "done"
        /\ p.work[v]["tail"] \in {"none", "done"}
        /\ \A u \in Earlier(p, v) : Settled(p, "facts", u)
    BY <2>1, Zenon DEF Admitted, Target, Waiting, Admits, OccurrencesComplete
  <2>3. v \notin owed
    BY <2>1 DEF OwedTails
  <2>4. AdvanceFacts(s) = EnterFacts(r, v)
    BY <1>2, <1>6
  <2> HIDE DEF admitted, owed, v
  <2>5. Becomes(p, o, p.gap,
          [u \in Versions |->
             IF u \in owed
             THEN [st \in Stages |-> IF /\ st \in {"claimEmbed", "tail"}
                                        /\ p.work[u][st] = "none"
                                     THEN "open" ELSE p.work[u][st]]
             ELSE p.work[u]])
    BY <1>1, OpensTails
  <2>6. o.gap = p.gap /\ o.work[v] = p.work[v]
    BY <2>2, <2>3, <2>5 DEF Becomes
  <2> HIDE DEF o
  <2>7. living => v = o.current
    BY <1>4, <2>2 DEF SameVersions
  <2>8. /\ Orderly(r) /\ SameVersions(o, r) /\ r.work = o.work
        /\ r.gap = [o.gap EXCEPT ![v]["facts"] = "entered"]
    BY <1>3, <1>4, <2>2, <2>6, <2>7, StampingFactsKeepsOrder
  <2>9. Follows(o, r)
    BY <1>4, <2>2, <2>6, StampingFactsKeepsGood
  <2>10. Fit(r)
    BY <2>9, FollowerFits
  <2> HIDE DEF r
  <2>11. r.gap[v]["facts"] = "entered" /\ \A u \in Versions \ {v} : r.gap[u] = p.gap[u]
    BY <1>1, <2>2, <2>6, <2>8 DEF Lineage, Layers
  <2>12. ASSUME NEW u \in Versions \ zeroChunk, u < v, Live(r, u), r.gap[u]["facts"] = "entered"
         PROVE  FALSE
    <3>1. u \in Int /\ v \in Int
      BY <2>2 DEF Versions
    <3>2. Live(p, u) /\ p.gap[u]["facts"] = "entered"
      BY <1>4, <2>8, <2>11, <2>12, <3>1 DEF SameVersions, Live
    <3>3. u \in Earlier(p, v)
      BY <1>1, <2>12, <3>1, <3>2 DEF Fit, RowsFit, Layers, Earlier, Versions
    <3>4. p.work[u]["full"] = "done"
      BY <2>2, <3>2, <3>3 DEF Settled, Frontier
    <3> QED
      BY <1>1, <3>2, <3>4 DEF Orderly, InSequence, FactsFollow
  <2>13. v \in zeroChunk \/ r.work[v]["extract"] = "done"
    BY <2>2, <2>6, <2>8
  <2>14. Orderly(EnterFacts(r, v))
    BY <2>2, <2>8, <2>10, <2>11, <2>12, <2>13, EnteringKeepsOrder
  <2> QED
    BY <2>4, <2>14
<1> QED
  BY <1>5, <1>6

(* Of a deleted version a tail overtakes nobody. *)
LEMMA LateTailKeepsOrder ==
  ASSUME NEW s, NEW v \in Versions, Fit(s), Orderly(s), ~Live(s, v)
  PROVE  Orderly(OpenTails(s, {v}))
<1> DEFINE t == OpenTails(s, {v})
<1>1. /\ s \in Lineage /\ SameVersions(s, t) /\ t.gap = s.gap
      /\ t.work = [u \in Versions |->
           IF u \in {v}
           THEN [st \in Stages |-> IF /\ st \in {"claimEmbed", "tail"}
                                      /\ s.work[u][st] = "none"
                                   THEN "open" ELSE s.work[u][st]]
           ELSE s.work[u]]
  BY OpensTails DEF Fit, Becomes, SameVersions
<1> HIDE DEF t
<1>2. ASSUME NEW u \in Versions
      PROVE  /\ \A st \in {"extract", "facts", "full"} : t.work[u][st] = s.work[u][st]
             /\ t.work[u]["tail"] \in {s.work[u]["tail"], "open"}
             /\ u # v => t.work[u] = s.work[u]
  BY <1>1 DEF Stages
<1>3. ASSUME NEW u \in Versions PROVE InSequence(t, u)
  BY <1>1, <1>2 DEF Orderly, InSequence, FactsFollow, Reconciles
<1>4. ASSUME living PROVE CurrentIsLatest(t) /\ NobodyOvertaken(t)
  <2>1. CurrentIsLatest(t)
    BY <1>1, <1>4, LatestCarries DEF Orderly
  <2>2. \A u \in Versions : Live(t, u) /\ Begun(t, u) => Begun(s, u)
    BY <1>1, <1>2 DEF Begun, Live, SameVersions
  <2>3. NobodyOvertaken(t)
    BY <1>1, <1>4, <2>2, NothingBegins DEF Orderly
  <2> QED
    BY <2>1, <2>3
<1> QED
  BY <1>3, <1>4 DEF Orderly, t

LEMMA ExtractionKeepsOrder ==
  ASSUME NEW s, NEW v \in Versions \ zeroChunk, Fit(s), Orderly(s)
  PROVE  Orderly(Enqueue(s, v, {"extract"}))
<1> DEFINE t == Enqueue(s, v, {"extract"})
<1>1. /\ s \in Lineage /\ SameVersions(s, t) /\ t.gap = s.gap
      /\ t.work = [s.work EXCEPT ![v] = [st \in Stages |->
                     IF st \in {"extract"} /\ s.work[v][st] = "none" THEN "open"
                     ELSE s.work[v][st]]]
  BY Enqueues DEF Fit, Becomes, SameVersions
<1> HIDE DEF t
<1>2. /\ \A u \in Versions \ {v} : t.work[u] = s.work[u]
      /\ \A st \in Stages \ {"extract"} : t.work[v][st] = s.work[v][st]
      /\ s.work[v]["extract"] # "none" => t.work[v]["extract"] = s.work[v]["extract"]
  BY <1>1 DEF Lineage, Stages
<1>3. ASSUME NEW u \in Versions PROVE InSequence(t, u)
  <2>1. InSequence(s, u)
    BY DEF Orderly
  <2>2. CASE u = v
    BY <1>1, <1>2, <2>1, <2>2 DEF InSequence, FactsFollow, Stages, Reconciles
  <2>3. CASE u # v
    BY <1>1, <1>2, <2>1, <2>3 DEF InSequence, FactsFollow
  <2> QED
    BY <2>2, <2>3
<1>4. ASSUME living PROVE CurrentIsLatest(t) /\ NobodyOvertaken(t)
  <2>1. CurrentIsLatest(t)
    BY <1>1, <1>4, LatestCarries DEF Orderly
  <2>2. \A u \in Versions : Begun(t, u) => Begun(s, u)
    BY <1>2 DEF Begun, Stages
  <2>3. NobodyOvertaken(t)
    BY <1>1, <1>4, <2>2, NothingBegins DEF Orderly
  <2> QED
    BY <2>1, <2>3
<1> QED
  BY <1>3, <1>4 DEF Orderly, t

(* A version at the facts boundary: it has no chunk, or its extraction is  *)
(* done and its facts have not been asked for.                             *)
AtFactsBoundary(s, v) ==
  v \in zeroChunk \/ /\ s.work[v]["extract"] = "done"
                     /\ s.work[v]["facts"] = "none" /\ s.work[v]["full"] = "none"

LEMMA FactsBoundaryKeepsOrder ==
  ASSUME NEW s, NEW v \in Versions, AlmostGood(s, v), SourcesComplete(s, v), Orderly(s),
         AtFactsBoundary(s, v)
  PROVE  Orderly(FactsBoundary(s, v))
<1>1. Fit(s)
  BY GoodFits
<1>2. CASE Live(s, v)
  <2> DEFINE r == RecordGap(s, v, "facts")
  <2>1. Good(r)
    BY <1>2, BookingMakesGood DEF Follows
  <2>2. Orderly(r)
    BY <1>1, BookingKeepsOrder DEF Layers, AtFactsBoundary
  <2> HIDE DEF r
  <2>3. Orderly(AdvanceFacts(r))
    BY <2>1, <2>2, AdvancingFactsKeepsOrder
  <2> QED
    BY <1>2, <2>3 DEF FactsBoundary, r
<1>3. CASE ~Live(s, v)
  <2>1. s.gap[v]["facts"] = "none"
    BY <1>1, <1>3 DEF Fit, RowsFit, Layers
  <2>2. Orderly(EnterFacts(s, v))
    BY <1>1, <1>3, <2>1, EnteringKeepsOrder DEF AtFactsBoundary
  <2>3. Orderly(OpenTails(s, {v}))
    BY <1>1, <1>3, LateTailKeepsOrder
  <2> QED
    BY <1>3, <2>2, <2>3 DEF FactsBoundary
<1> QED
  BY <1>2, <1>3

LEMMA EnteringClaimsKeepsOrder ==
  ASSUME NEW s, NEW v \in Versions, AlmostGood(s, v), SourcesComplete(s, v), Orderly(s)
  PROVE  Orderly(EnterClaims(s, v))
<1>1. CASE v \in zeroChunk
  BY <1>1, FactsBoundaryKeepsOrder DEF EnterClaims, AtFactsBoundary
<1>2. CASE v \notin zeroChunk
  BY <1>2, GoodFits, ExtractionKeepsOrder DEF EnterClaims
<1> QED
  BY <1>1, <1>2

(* The order is one of the facts layer alone. *)
LEMMA ClaimsGapsAside ==
  ASSUME NEW s, NEW t, Orderly(s), SameVersions(s, t), t.work = s.work,
         \A u \in Versions : t.gap[u]["facts"] = s.gap[u]["facts"]
  PROVE  Orderly(t)
<1>1. ASSUME NEW u \in Versions PROVE InSequence(t, u)
  BY DEF Orderly, InSequence, FactsFollow
<1>2. ASSUME living PROVE CurrentIsLatest(t) /\ NobodyOvertaken(t)
  BY <1>2, LatestCarries, NothingBegins DEF Orderly, Begun
<1> QED
  BY <1>1, <1>2 DEF Orderly

LEMMA AdvancingClaimsKeepsOrder ==
  ASSUME NEW s, Good(s), Orderly(s)
  PROVE  Orderly(AdvanceClaims(s))
<1> DEFINE p == Prepared(s, "claims")
           admitted == Admitted(p, "claims")
           v == CHOOSE v \in admitted : TRUE
           r == Stamp(p, "claims", v)
<1>1. Good(p) /\ p \in Lineage /\ Orderly(p)
  BY PreparingKeepsGood, PreparingKeepsOrder DEF Layers, Follows, Good
<1>2. AdvanceClaims(s) = IF admitted = {} THEN p ELSE EnterClaims(r, v)
  BY DEF AdvanceClaims
<1> HIDE DEF p
<1>3. CASE admitted = {}
  BY <1>1, <1>2, <1>3
<1>4. CASE admitted # {}
  <2>1. v \in admitted
    BY <1>4
  <2>2. v \in Versions /\ p.gap[v]["claims"] = "open"
    BY <2>1 DEF Admitted, Target, Waiting
  <2>3. AdvanceClaims(s) = EnterClaims(r, v)
    BY <1>2, <1>4
  <2> HIDE DEF admitted, v
  <2>4. AlmostGood(r, v) /\ SameVersions(p, r) /\ SourcesComplete(r, v)
    BY <1>1, <2>2, StampingClaimsKeepsAlmostGood
  <2>5. r.work = p.work /\ r.gap = [p.gap EXCEPT ![v]["claims"] = "entered"]
    BY <1>1, <2>2, Stamps DEF Becomes, Layers
  <2> HIDE DEF r
  <2>6. \A u \in Versions : r.gap[u]["facts"] = p.gap[u]["facts"]
    BY <1>1, <2>5 DEF Lineage, Layers
  <2>7. Orderly(r)
    BY <1>1, <2>4, <2>5, <2>6, ClaimsGapsAside
  <2>8. Orderly(EnterClaims(r, v))
    BY <2>2, <2>4, <2>7, EnteringClaimsKeepsOrder
  <2> QED
    BY <2>3, <2>8
<1> QED
  BY <1>3, <1>4

LEMMA ClaimsBoundaryKeepsOrder ==
  ASSUME NEW s, NEW v \in Versions, AlmostGood(s, v), SourcesComplete(s, v), Fresh(s, v),
         Orderly(s)
  PROVE  Orderly(ClaimsBoundary(s, v))
<1> DEFINE r == RecordGap(s, v, "claims")
<1>1. Fit(s)
  BY GoodFits
<1>2. CASE Live(s, v)
  <2>1. Follows(s, r) /\ r.work = s.work
    <3>1. Follows(s, r)
      BY <1>2, AwaitingClaimsMakesGood
    <3>2. r.work = s.work
      BY <1>1, RecordsGap DEF Becomes, Fit, Layers
    <3> QED
      BY <3>1, <3>2
  <2>2. Orderly(r)
    BY <1>1, BookingKeepsOrder DEF Layers
  <2> HIDE DEF r
  <2>3. Good(r) /\ Fit(r) /\ r.work = s.work
    BY <2>1, GoodFits DEF Follows
  <2>4. r.work[v]["facts"] = "none" /\ r.work[v]["full"] = "none"
    BY <2>3 DEF Fresh, Stages
  <2>5. Orderly(RecordGap(r, v, "facts"))
    BY <2>3, <2>2, <2>4, BookingKeepsOrder DEF Layers
  <2>6. Orderly(AdvanceClaims(r))
    BY <2>3, <2>2, AdvancingClaimsKeepsOrder
  <2>7. ClaimsBoundary(s, v) \in {AdvanceClaims(r), RecordGap(r, v, "facts")}
    BY <1>2 DEF ClaimsBoundary, r
  <2> QED
    BY <2>5, <2>6, <2>7
<1>3. CASE ~Live(s, v)
  BY <1>3, EnteringClaimsKeepsOrder DEF ClaimsBoundary
<1> QED
  BY <1>2, <1>3

LEMMA ClearsGap ==
  ASSUME NEW s \in Lineage, NEW v \in Versions, NEW layer \in Layers
  PROVE  /\ [s EXCEPT !.gap[v][layer] = "none"] \in Lineage
         /\ SameVersions(s, [s EXCEPT !.gap[v][layer] = "none"])
         /\ [s EXCEPT !.gap[v][layer] = "none"].work = s.work
         /\ [s EXCEPT !.gap[v][layer] = "none"].gap = [s.gap EXCEPT ![v][layer] = "none"]
<1> DEFINE gap == [s.gap EXCEPT ![v][layer] = "none"]
<1>1. [s EXCEPT !.gap[v][layer] = "none"] = [s EXCEPT !.gap = gap]
  BY DEF Lineage
<1>2. gap \in [Versions -> [Layers -> GapStates]]
  BY DEF Lineage, GapStates
<1> HIDE DEF gap
<1>3. /\ [s EXCEPT !.gap = gap] \in Lineage
      /\ SameVersions(s, [s EXCEPT !.gap = gap])
      /\ [s EXCEPT !.gap = gap].work = s.work
      /\ [s EXCEPT !.gap = gap].gap = gap
  BY <1>2 DEF Lineage, SameVersions
<1> QED
  BY <1>1, <1>3 DEF gap

LEMMA ClaimsFrontierKeepsOrder ==
  ASSUME NEW s, NEW v \in Versions, Good(s), Orderly(s), Live(s, v) => Booked(s, v)
  PROVE  Orderly(FrontierReached(s, v, "claims"))
<1> DEFINE g == [s EXCEPT !.gap[v]["claims"] = "none"]
<1>1. Good(g)
  BY FrontierClearsGap DEF Follows, Layers
<1>2. /\ s \in Lineage /\ SameVersions(s, g) /\ g.work = s.work
      /\ g.gap = [s.gap EXCEPT ![v]["claims"] = "none"]
  BY ClearsGap DEF Good, Layers
<1>3. FrontierReached(s, v, "claims") = AdvanceClaims(g)
  BY DEF FrontierReached
<1> HIDE DEF g
<1>4. \A u \in Versions : g.gap[u]["facts"] = s.gap[u]["facts"]
  BY <1>2 DEF Lineage, Layers
<1>5. Orderly(g)
  BY <1>2, <1>4, ClaimsGapsAside
<1> QED
  BY <1>1, <1>3, <1>5, AdvancingClaimsKeepsOrder

(* A row that was enqueued and not done moves on. *)
LEMMA RowMoveKeepsOrder ==
  ASSUME NEW s, NEW v \in Versions, NEW stage \in Stages, Fit(s), Orderly(s),
         NEW status \in RowStatuses \ {"none"}, s.work[v][stage] \notin {"none", "done"},
         status = "done" /\ stage = "full" => s.gap[v]["facts"] # "entered",
         status = "read" => living
  PROVE  Orderly([s EXCEPT !.work[v][stage] = status])
<1> DEFINE t == [s EXCEPT !.work[v][stage] = status]
<1>1. /\ s \in Lineage /\ SameVersions(s, t) /\ t.gap = s.gap
      /\ t.work = [s.work EXCEPT ![v][stage] = status]
  BY SetsRow DEF Fit
<1> HIDE DEF t
<1>2. /\ \A u \in Versions \ {v} : t.work[u] = s.work[u]
      /\ t.work[v][stage] = status
      /\ \A st \in Stages \ {stage} : t.work[v][st] = s.work[v][st]
  BY <1>1 DEF Lineage
<1>3. ASSUME NEW u \in Versions PROVE InSequence(t, u)
  <2>1. InSequence(s, u)
    BY DEF Orderly
  <2>2. CASE u = v
    <3>1. v \in zeroChunk => t.work[v]["extract"] = "none"
      BY <1>2, <2>1, <2>2 DEF InSequence, Stages
    <3>2. v \notin zeroChunk => FactsFollow(t, v)
      BY <1>1, <1>2, <2>1, <2>2 DEF InSequence, FactsFollow, Stages
    <3>3. living \/ \A st \in Reconciles : t.work[v][st] # "read"
      BY <1>2, <2>1, <2>2 DEF InSequence, Stages, Reconciles
    <3> QED
      BY <2>2, <3>1, <3>2, <3>3 DEF InSequence
  <2>3. CASE u # v
    BY <1>1, <1>2, <2>1, <2>3 DEF InSequence, FactsFollow
  <2> QED
    BY <2>2, <2>3
<1>4. ASSUME living PROVE CurrentIsLatest(t) /\ NobodyOvertaken(t)
  <2>1. CurrentIsLatest(t)
    BY <1>1, <1>4, LatestCarries DEF Orderly
  <2>2. \A u \in Versions : Begun(t, u) => Begun(s, u)
    BY <1>2 DEF Begun, Stages
  <2>3. NobodyOvertaken(t)
    BY <1>1, <1>4, <2>2, NothingBegins DEF Orderly
  <2> QED
    BY <2>1, <2>3
<1> QED
  BY <1>3, <1>4 DEF Orderly, t

(* The reconcile is done and its version's facts gap cleared, in one step. *)
LEMMA FactsFrontierKeepsOrder ==
  ASSUME NEW s, NEW v \in Versions, Good(s), Orderly(s), s.work[v]["full"] = "applied"
  PROVE  Orderly(FrontierReached([s EXCEPT !.work[v]["full"] = "done"], v, "facts"))
<1> DEFINE r == [s EXCEPT !.work[v]["full"] = "done"]
           g == [r EXCEPT !.gap[v]["facts"] = "none"]
<1>1. Good(r)
  BY RowMoveKeepsGood DEF Follows, Stages, RowStatuses
<1>2. /\ s \in Lineage /\ SameVersions(s, r) /\ r.gap = s.gap
      /\ r.work = [s.work EXCEPT ![v]["full"] = "done"]
  BY SetsRow, ZenonT(40) DEF Good, Stages, RowStatuses
<1>3. FrontierReached(r, v, "facts") = AdvanceFacts(g)
  BY DEF FrontierReached
<1> HIDE DEF r
<1>4. r.work[v]["full"] = "done"
  BY <1>2 DEF Lineage, Stages
<1>5. Good(g)
  BY <1>1, <1>4, FrontierClearsGap DEF Follows, Layers
<1>6. /\ r \in Lineage /\ SameVersions(r, g) /\ g.work = r.work
      /\ g.gap = [r.gap EXCEPT ![v]["facts"] = "none"]
  BY <1>1, ClearsGap DEF Good, Layers
<1> HIDE DEF g
<1>7. /\ \A u \in Versions \ {v} : g.work[u] = s.work[u] /\ g.gap[u] = s.gap[u]
      /\ \A st \in Stages \ {"full"} : g.work[v][st] = s.work[v][st]
      /\ g.work[v]["full"] = "done" /\ g.gap[v]["facts"] = "none"
      /\ SameVersions(s, g)
  BY <1>2, <1>6 DEF Lineage, Stages, Layers, SameVersions
<1>8. ASSUME NEW u \in Versions PROVE InSequence(g, u)
  <2>1. InSequence(s, u)
    BY DEF Orderly
  <2>2. CASE u = v
    BY <1>7, <2>1, <2>2 DEF InSequence, FactsFollow, Stages, Reconciles
  <2>3. CASE u # v
    BY <1>7, <2>1, <2>3 DEF InSequence, FactsFollow
  <2> QED
    BY <2>2, <2>3
<1>9. ASSUME living PROVE CurrentIsLatest(g) /\ NobodyOvertaken(g)
  <2>1. CurrentIsLatest(g)
    BY <1>7, <1>9, LatestCarries DEF Orderly
  <2>2. \A u \in Versions : Begun(g, u) => Begun(s, u)
    BY <1>7 DEF Begun, Stages
  <2>3. \A u \in Versions : g.gap[u]["facts"] = "entered" => s.gap[u]["facts"] = "entered"
    BY <1>7
  <2>4. NobodyOvertaken(g)
    BY <1>7, <1>9, <2>2, <2>3, NothingBegins DEF Orderly
  <2> QED
    BY <2>1, <2>4
<1>10. Orderly(g)
  BY <1>8, <1>9 DEF Orderly
<1>11. Orderly(AdvanceFacts(g))
  BY <1>5, <1>10, AdvancingFactsKeepsOrder
<1> QED
  BY <1>3, <1>11 DEF r

LEMMA NormalisedKeepsOrder ==
  ASSUME NEW s, NEW v \in Versions, Fit(s), Orderly(s), s.work[v]["facts"] = "open"
  PROVE  Orderly(Enqueue([s EXCEPT !.work[v]["facts"] = "done"], v, {"full", "claimEmbed"}))
<1> DEFINE r == [s EXCEPT !.work[v]["facts"] = "done"]
           t == Enqueue(r, v, {"full", "claimEmbed"})
<1>1. /\ s \in Lineage /\ r \in Lineage /\ SameVersions(s, r) /\ r.gap = s.gap
      /\ r.work = [s.work EXCEPT ![v]["facts"] = "done"]
  BY SetsRow, ZenonT(40) DEF Fit, Stages, RowStatuses
<1> HIDE DEF r
<1>2. /\ t \in Lineage /\ SameVersions(r, t) /\ t.gap = r.gap
      /\ t.work = [r.work EXCEPT ![v] = [st \in Stages |->
                     IF st \in {"full", "claimEmbed"} /\ r.work[v][st] = "none" THEN "open"
                     ELSE r.work[v][st]]]
  BY <1>1, Enqueues DEF Becomes, SameVersions
<1> HIDE DEF t
<1>3. /\ \A u \in Versions \ {v} : t.work[u] = s.work[u]
      /\ \A st \in {"extract", "tail"} : t.work[v][st] = s.work[v][st]
      /\ t.work[v]["full"] = IF s.work[v]["full"] = "none" THEN "open" ELSE s.work[v]["full"]
      /\ SameVersions(s, t) /\ t.gap = s.gap
  BY <1>1, <1>2 DEF Lineage, Stages, SameVersions
<1>4. ASSUME NEW u \in Versions PROVE InSequence(t, u)
  <2>1. InSequence(s, u)
    BY DEF Orderly
  <2>2. CASE u = v
    BY <1>3, <2>1, <2>2 DEF InSequence, FactsFollow, Reconciles
  <2>3. CASE u # v
    BY <1>3, <2>1, <2>3 DEF InSequence, FactsFollow
  <2> QED
    BY <2>2, <2>3
<1>5. ASSUME living PROVE CurrentIsLatest(t) /\ NobodyOvertaken(t)
  <2>1. CurrentIsLatest(t)
    BY <1>3, <1>5, LatestCarries DEF Orderly
  <2>2. \A u \in Versions : Begun(t, u) => Begun(s, u)
    BY <1>3 DEF Begun
  <2>3. NobodyOvertaken(t)
    BY <1>3, <1>5, <2>2, NothingBegins DEF Orderly
  <2> QED
    BY <2>1, <2>3
<1> QED
  BY <1>4, <1>5 DEF Orderly, r, t

(* Sources, deletions or the pointer have changed, and no gap or row. *)
LEMMA SourcesMove ==
  ASSUME NEW s, NEW t, Orderly(s), t.work = s.work, t.gap = s.gap, s.deleted \subseteq t.deleted,
         living => CurrentIsLatest(t)
  PROVE  Orderly(t)
<1>1. ASSUME NEW u \in Versions PROVE InSequence(t, u)
  BY DEF Orderly, InSequence, FactsFollow
<1>2. ASSUME living PROVE NobodyOvertaken(t)
  BY <1>2 DEF Orderly, NobodyOvertaken, Overtaken, Live, Begun
<1> QED
  BY <1>1, <1>2 DEF Orderly

LEMMA LineageChangedKeepsOrder ==
  ASSUME NEW s \in Lineage, Orderly(s),
         \A u \in Versions : Live(s, u) => RowsFit(s, u) /\ Chained(s, u) /\ OnItsWay(s, u),
         \A u \in Versions, st \in Stages : s.work[u][st] # "none" => SourcesComplete(s, u)
  PROVE  Orderly(LineageChanged(s))
<1> DEFINE g == Cleared(s)
           c == AdvanceClaims(g)
<1>1. /\ Good(g) /\ SameVersions(s, g) /\ g.work = s.work
      /\ \A u \in Versions \cap s.deleted, l \in Layers : g.gap[u][l] = "none"
      /\ \A u \in Versions \ s.deleted : g.gap[u] = s.gap[u]
  BY ClearingMakesGood
<1>2. LineageChanged(s) \in {s, AdvanceFacts(c)}
  BY DEF LineageChanged, Cleared
<1> HIDE DEF g
<1>3. ASSUME NEW u \in Versions
      PROVE  g.gap[u]["facts"] = "none" \/ g.gap[u]["facts"] = s.gap[u]["facts"]
  BY <1>1 DEF Layers
<1>4. ASSUME NEW u \in Versions PROVE InSequence(g, u)
  BY <1>1, <1>3 DEF Orderly, InSequence, FactsFollow
<1>5. ASSUME living PROVE CurrentIsLatest(g) /\ NobodyOvertaken(g)
  <2>1. CurrentIsLatest(g)
    BY <1>1, <1>5, LatestCarries DEF Orderly
  <2>2. \A u \in Versions : g.gap[u]["facts"] = "entered" => s.gap[u]["facts"] = "entered"
    BY <1>3
  <2>3. NobodyOvertaken(g)
    BY <1>1, <1>5, <2>2, NothingBegins DEF Orderly, Begun
  <2> QED
    BY <2>1, <2>3
<1>6. Orderly(g)
  BY <1>4, <1>5 DEF Orderly
<1>7. Good(c) /\ Orderly(c)
  BY <1>1, <1>6, AdvancingClaimsKeepsGood, AdvancingClaimsKeepsOrder DEF Follows
<1> HIDE DEF c
<1>8. Orderly(AdvanceFacts(c))
  BY <1>7, AdvancingFactsKeepsOrder
<1> QED
  BY <1>2, <1>8

(* Every step keeps the order. *)
LEMMA OrderingKeepsInv ==
  ASSUME OrderInv, Orderly(lin'), UNCHANGED <<living, zeroChunk>>,
         \A v \in zeroChunk : testimony[v] = "none" => testimony'[v] = "none"
  PROVE  OrderInv'
  BY DEF OrderInv, Orderly, InSequence, FactsFollow, CurrentIsLatest, NobodyOvertaken,
         Overtaken, Begun, Live

LEMMA IngestKeepsOrder ==
  ASSUME LayersInv, OrderInv, LayersAssumption, Ingest
  PROVE  OrderInv'
<1> DEFINE new == lin.latest + 1
<1>1. lin \in Lineage /\ Placed(lin) /\ Orderly(lin)
  BY DEF LayersInv, Good, OrderInv
<1>2. new \in Versions /\ lin.latest \in Nat
  BY <1>1 DEF Lineage, Ingest, Versions, LayersAssumption
<1>3. /\ lin'.work = lin.work /\ lin'.gap = lin.gap /\ lin'.deleted = lin.deleted
      /\ lin'.current = lin.current
      /\ lin'.sources = [lin.sources EXCEPT ![new] = "converting"]
  BY <1>1 DEF Ingest, Lineage
<1>4. \A u \in Versions : lin'.sources[u] \in {lin.sources[u], "converting"}
  BY <1>1, <1>3 DEF Lineage
<1>5. living => CurrentIsLatest(lin')
  BY <1>1, <1>3, <1>4 DEF Orderly, CurrentIsLatest, Live
<1>6. Orderly(lin')
  BY <1>1, <1>3, <1>5, SourcesMove
<1> QED
  BY <1>6, OrderingKeepsInv DEF Ingest, Static, CurrencyOf

LEMMA StructuredKeepsOrder ==
  ASSUME LayersInv, OrderInv, NEW v \in Versions, Structured(v)
  PROVE  OrderInv'
<1>1. lin \in Lineage /\ Orderly(lin)
  BY DEF LayersInv, Good, OrderInv
<1>2. /\ lin'.work = lin.work /\ lin'.gap = lin.gap /\ lin'.deleted = lin.deleted
      /\ lin'.current = IF lin.current = Unset \/ lin.current < v THEN v ELSE lin.current
      /\ lin'.sources = [lin.sources EXCEPT ![v] = "ready"]
  BY <1>1 DEF Structured, Lineage
<1>3. ASSUME living PROVE CurrentIsLatest(lin')
  <2> SUFFICES ASSUME NEW u \in Versions, Live(lin', u),
                      lin'.sources[u] \in {"ready", "embedded"}
               PROVE  lin'.current # Unset /\ u <= lin'.current
    BY DEF CurrentIsLatest
  <2>1. u \in Int /\ v \in Int /\ v # Unset /\ lin.current \in Int
    BY <1>1 DEF Versions, Unset, Lineage
  <2>2. CASE u = v
    BY <1>2, <2>1, <2>2
  <2>3. CASE u # v
    <3>1. lin.current # Unset /\ u <= lin.current
      BY <1>1, <1>2, <1>3, <2>3 DEF Orderly, CurrentIsLatest, Live, Lineage
    <3> QED
      BY <1>2, <2>1, <3>1
  <2> QED
    BY <2>2, <2>3
<1>4. Orderly(lin')
  BY <1>1, <1>2, <1>3, SourcesMove
<1> QED
  BY <1>4, OrderingKeepsInv DEF Structured, Static, CurrencyOf

(* A gap is recorded of no version of a deployment that is not configured. *)
LEMMA NoGapUnconfigured ==
  ASSUME LayersInv, ~config.configured
  PROVE  \A v \in Versions : lin.gap[v]["facts"] = "none"
  BY DEF LayersInv, Placed, Layers

LEMMA EmbedKeepsOrder ==
  ASSUME LayersInv, OrderInv, NEW v \in Versions, EmbedCompletes(v)
  PROVE  OrderInv'
<1> DEFINE s == [lin EXCEPT !.sources[v] = "embedded"]
           sources == [lin.sources EXCEPT ![v] = "embedded"]
<1>1. lin \in Lineage /\ Good(lin) /\ Orderly(lin)
  BY DEF LayersInv, Good, OrderInv
<1>2. sources \in [Versions -> {"absent", "converting", "ready", "embedded"}]
  BY <1>1 DEF Lineage
<1>3. s = [lin EXCEPT !.sources = sources]
  BY <1>1 DEF Lineage
<1>4. /\ \A u \in Versions \ {v} : sources[u] = lin.sources[u]
      /\ sources[v] = "embedded" /\ lin.sources[v] = "ready"
  BY <1>1 DEF Lineage, EmbedCompletes
<1>5. lin' = IF config.configured THEN ClaimsBoundary(s, v)
             ELSE IF v \in zeroChunk THEN EnterFacts(s, v)
             ELSE Enqueue(s, v, {"extract"})
  BY DEF EmbedCompletes
<1> HIDE DEF sources
<1>6. /\ s \in Lineage /\ s.latest = lin.latest /\ s.sources = sources
      /\ s.current = lin.current /\ s.deleted = lin.deleted
      /\ s.gap = lin.gap /\ s.work = lin.work
  BY <1>1, <1>2, <1>3 DEF Lineage
<1> HIDE DEF s
<1>7. Fresh(s, v) /\ SourcesComplete(s, v)
  BY <1>1, <1>4, <1>6 DEF Good, RowsFit, SourcesComplete, Fresh
<1>8. ASSUME NEW u \in Versions \ {v} PROVE RowsFit(s, u) /\ Chained(s, u) /\ OnItsWay(s, u)
  BY <1>1, <1>4, <1>6 DEF Good, RowsFit, Chained, OnItsWay, Booked, Live, SourcesComplete
<1>9. RowsFit(s, v) /\ Chained(s, v)
  BY <1>7 DEF RowsFit, Chained, Fresh, Layers, Stages
<1>10. AlmostGood(s, v) /\ Fit(s)
  BY <1>6, <1>8, <1>9 DEF AlmostGood, Fit
<1>11. living => CurrentIsLatest(s)
  BY <1>1, <1>4, <1>6 DEF Orderly, CurrentIsLatest, Live
<1>12. Orderly(s)
  BY <1>1, <1>6, <1>11, SourcesMove
<1>13. ASSUME config.configured PROVE Orderly(lin')
  BY <1>5, <1>7, <1>10, <1>12, <1>13, ClaimsBoundaryKeepsOrder
<1>14. ASSUME ~config.configured PROVE Orderly(lin')
  <2>1. \A u \in Versions : s.gap[u]["facts"] = "none"
    BY <1>6, <1>14, NoGapUnconfigured
  <2>2. CASE v \in zeroChunk
    BY <1>5, <1>10, <1>12, <1>14, <2>1, <2>2, EnteringKeepsOrder
  <2>3. CASE v \notin zeroChunk
    BY <1>5, <1>10, <1>12, <1>14, <2>3, ExtractionKeepsOrder
  <2> QED
    BY <2>2, <2>3
<1>15. Orderly(lin')
  BY <1>13, <1>14
<1> QED
  BY <1>15, OrderingKeepsInv DEF EmbedCompletes, Static, CurrencyOf

LEMMA ExtractKeepsOrder ==
  ASSUME LayersInv, OrderInv, NEW v \in Versions, ExtractCompletes(v)
  PROVE  OrderInv'
<1> DEFINE s == Done(v, "extract")
<1>1. lin \in Lineage /\ Good(lin) /\ Orderly(lin) /\ lin.work[v]["extract"] = "open"
  BY DEF LayersInv, Good, OrderInv, ExtractCompletes
<1>2. lin' = IF config.configured THEN FactsBoundary(s, v) ELSE EnterFacts(s, v)
  BY DEF ExtractCompletes
<1>3. /\ v \notin zeroChunk
      /\ lin.work[v]["facts"] = "none" /\ lin.work[v]["full"] = "none"
  BY <1>1 DEF Orderly, InSequence, FactsFollow
<1>4. /\ AlmostGood(s, v) /\ SourcesComplete(s, v) /\ s.gap = lin.gap
  BY <1>1, ExtractionAlmostGood DEF Done
<1>5. s.work = [lin.work EXCEPT ![v]["extract"] = "done"]
  BY <1>1, SetsRow DEF Done, Stages, RowStatuses
<1>6. Orderly(s)
  BY <1>1, GoodFits, RowMoveKeepsOrder DEF Done, Stages, RowStatuses
<1> HIDE DEF s
<1>7. AtFactsBoundary(s, v)
  BY <1>1, <1>3, <1>5 DEF AtFactsBoundary, Lineage, Stages
<1>8. ASSUME config.configured PROVE Orderly(lin')
  BY <1>2, <1>4, <1>6, <1>7, <1>8, FactsBoundaryKeepsOrder
<1>9. ASSUME ~config.configured PROVE Orderly(lin')
  <2>1. \A u \in Versions : s.gap[u]["facts"] = "none"
    BY <1>4, <1>9, NoGapUnconfigured
  <2>2. Fit(s)
    BY <1>4, GoodFits
  <2> QED
    BY <1>2, <1>6, <1>7, <1>9, <2>1, <2>2, EnteringKeepsOrder DEF AtFactsBoundary
<1>10. Orderly(lin')
  BY <1>8, <1>9
<1>11. \A u \in zeroChunk : testimony[u] = "none" => testimony'[u] = "none"
  BY <1>3 DEF ExtractCompletes, LayersInv
<1> QED
  BY <1>10, <1>11, OrderingKeepsInv DEF ExtractCompletes, Static

LEMMA FactsKeepOrder ==
  ASSUME LayersInv, OrderInv, NEW v \in Versions, FactsComplete(v)
  PROVE  OrderInv'
<1>1. Good(lin) /\ Orderly(lin)
  BY DEF LayersInv, OrderInv
<1>2. Orderly(lin')
  BY <1>1, GoodFits, NormalisedKeepsOrder DEF FactsComplete, Done
<1> QED
  BY <1>2, OrderingKeepsInv DEF FactsComplete, Static, CurrencyOf

LEMMA ClaimsEmbeddedKeepsOrder ==
  ASSUME LayersInv, OrderInv, NEW v \in Versions, ClaimsEmbedded(v)
  PROVE  OrderInv'
<1> DEFINE s == Done(v, "claimEmbed")
<1>1. /\ lin \in Lineage /\ Good(lin) /\ Fit(lin) /\ Orderly(lin)
      /\ lin.work[v]["claimEmbed"] = "open"
  BY GoodFits DEF LayersInv, Good, OrderInv, ClaimsEmbedded
<1>2. lin' = IF config.configured THEN FrontierReached(s, v, "claims") ELSE s
  BY DEF ClaimsEmbedded
<1>3. Follows(lin, s)
  BY <1>1, RowMoveKeepsGood DEF Done, Stages, RowStatuses
<1>4. s.gap = lin.gap /\ s.work = [lin.work EXCEPT ![v]["claimEmbed"] = "done"]
  BY <1>1, SetsRow DEF Done, Stages, RowStatuses
<1>5. Orderly(s)
  BY <1>1, RowMoveKeepsOrder DEF Done, Stages, RowStatuses
<1> HIDE DEF s
<1>6. Good(s) /\ s \in Lineage
  BY <1>3 DEF Follows, Good
<1>7. Live(s, v) => Booked(s, v)
  BY <1>1, <1>4, <1>6 DEF Good, Chained, Lineage, Stages
<1>8. Orderly(lin')
  BY <1>2, <1>5, <1>6, <1>7, ClaimsFrontierKeepsOrder
<1> QED
  BY <1>8, OrderingKeepsInv DEF ClaimsEmbedded, Static, CurrencyOf

LEMMA ReconcileKeepsOrder ==
  ASSUME LayersInv, OrderInv, NEW v \in Versions, NEW stage \in Reconciles,
         ReconcileReads(v, stage) \/ ReconcileSupersedes(v, stage)
  PROVE  OrderInv'
<1>1. Good(lin) /\ Fit(lin) /\ Orderly(lin) /\ stage \in Stages
  BY GoodFits DEF LayersInv, OrderInv, Reconciles, Stages
<1>2. PICK status \in {"read", "applied"} :
        /\ lin' = [lin EXCEPT !.work[v][stage] = status]
        /\ lin.work[v][stage] \in {"open", "read"}
        /\ status = "read" => living
  BY DEF ReconcileReads, ReconcileSupersedes
<1>3. /\ status \in RowStatuses \ {"none"} /\ status # "done"
      /\ lin.work[v][stage] \notin {"none", "done"}
  BY <1>2 DEF RowStatuses
<1>4. Orderly(lin')
  BY <1>1, <1>2, <1>3, RowMoveKeepsOrder
<1>5. \A u \in zeroChunk : testimony[u] = "none" => testimony'[u] = "none"
  BY DEF ReconcileReads, ReconcileSupersedes, Superseded, LayersInv, OrderInv
<1> QED
  BY <1>4, <1>5, OrderingKeepsInv DEF ReconcileReads, ReconcileSupersedes, Static

LEMMA ReconcileDoneKeepsOrder ==
  ASSUME LayersInv, OrderInv, NEW v \in Versions, NEW stage \in Reconciles,
         ReconcileCompletes(v, stage)
  PROVE  OrderInv'
<1> DEFINE s == Done(v, stage)
<1>1. /\ Good(lin) /\ Fit(lin) /\ Orderly(lin) /\ stage \in Stages
      /\ lin.work[v][stage] = "applied"
  BY GoodFits DEF LayersInv, OrderInv, ReconcileCompletes, Reconciles, Stages
<1>2. lin' = IF ~config.configured THEN s
             ELSE IF stage = "full" THEN FrontierReached(s, v, "facts")
             ELSE AdvanceFacts(s)
  BY DEF ReconcileCompletes
<1>3. Good(s)
  BY <1>1, RowMoveKeepsGood DEF Done, RowStatuses, Reconciles, Follows
<1>4. ASSUME config.configured /\ stage = "full" PROVE Orderly(lin')
  BY <1>1, <1>2, <1>4, FactsFrontierKeepsOrder DEF Done
<1>5. ASSUME ~(config.configured /\ stage = "full") PROVE Orderly(lin')
  <2>1. stage = "full" => lin.gap[v]["facts"] # "entered"
    BY <1>5, NoGapUnconfigured
  <2>2. Orderly(s)
    BY <1>1, <2>1, RowMoveKeepsOrder DEF Done, RowStatuses
  <2>3. Orderly(AdvanceFacts(s))
    BY <1>3, <2>2, AdvancingFactsKeepsOrder
  <2> QED
    BY <1>2, <1>5, <2>2, <2>3
<1>6. Orderly(lin')
  BY <1>4, <1>5
<1> QED
  BY <1>6, OrderingKeepsInv DEF ReconcileCompletes, Static, CurrencyOf

LEMMA DyingKeepsOrder ==
  ASSUME LayersInv, OrderInv, NEW v \in Versions, NEW stage \in Stages,
         DeadLetters(v, stage) \/ Replays(v, stage)
  PROVE  OrderInv'
<1>1. Good(lin) /\ Fit(lin) /\ Orderly(lin)
  BY GoodFits DEF LayersInv, OrderInv
<1>2. PICK status \in {"dead", "open"} :
        /\ lin' = [lin EXCEPT !.work[v][stage] = status]
        /\ lin.work[v][stage] \in {"open", "read", "applied", "dead"}
  BY DEF DeadLetters, Replays, InFlight
<1>3. /\ status \in RowStatuses \ {"none"} /\ status \notin {"done", "read"}
      /\ lin.work[v][stage] \notin {"none", "done"}
  BY <1>2 DEF RowStatuses
<1>4. Orderly(lin')
  BY <1>1, <1>2, <1>3, RowMoveKeepsOrder
<1> QED
  BY <1>4, OrderingKeepsInv DEF DeadLetters, Replays, Static, CurrencyOf

(* The pointer goes back to the latest version that remains. *)
LEMMA RepointedIsLatest ==
  ASSUME LayersInv, LayersAssumption, NEW v \in Versions, lin.current = v
  PROVE  \A w \in Remaining(v) : Repointed(v) # Unset /\ w <= Repointed(v)
<1> DEFINE R == Remaining(v)
           up(u) == LastVersion - u
           T == {up(u) : u \in R}
<1>1. SUFFICES ASSUME R # {}
               PROVE  \A w \in R : Repointed(v) # Unset /\ w <= Repointed(v)
  OBVIOUS
<1>2. T \in SUBSET Nat /\ T # {} /\ R \subseteq Versions /\ R \subseteq Nat
  BY <1>1 DEF Remaining, Versions, LayersAssumption
<1>3. PICK x \in T : \A y \in T : x <= y
  BY <1>2, LeastNatural
<1>4. PICK m \in R : x = up(m)
  OBVIOUS
<1>5. \A w \in R : up(m) <= up(w) /\ w \in Nat
  BY <1>2, <1>3, <1>4
<1>6. \A w \in R : w <= m
  BY <1>2, <1>5 DEF LayersAssumption
<1>7. Repointed(v) \in R /\ \A w \in R : w <= Repointed(v)
  BY <1>1, <1>6 DEF Repointed
<1> QED
  BY <1>2, <1>7 DEF Versions, Unset

LEMMA ClearingKeepsOrder ==
  ASSUME LayersInv, OrderInv, LayersAssumption, NEW deleted, NEW current,
         lin.deleted \subseteq deleted, deleted \subseteq Versions,
         current \in {Unset} \cup Versions,
         living => CurrentIsLatest([lin EXCEPT !.deleted = deleted, !.current = current]),
         lin' = LineageChanged([lin EXCEPT !.deleted = deleted, !.current = current]),
         UNCHANGED <<living, zeroChunk>>,
         \A v \in zeroChunk : testimony[v] = "none" => testimony'[v] = "none"
  PROVE  OrderInv'
<1> DEFINE s == [lin EXCEPT !.deleted = deleted, !.current = current]
<1>1. lin \in Lineage /\ Good(lin) /\ Orderly(lin)
  BY DEF LayersInv, Good, OrderInv
<1>2. /\ s \in Lineage /\ s.latest = lin.latest /\ s.sources = lin.sources
      /\ s.deleted = deleted /\ s.gap = lin.gap /\ s.work = lin.work
  BY <1>1 DEF Lineage
<1>3. lin' = LineageChanged(s) /\ (living => CurrentIsLatest(s))
  OBVIOUS
<1> HIDE DEF s
<1>4. \A u \in Versions : Live(s, u) => RowsFit(s, u) /\ Chained(s, u) /\ OnItsWay(s, u)
  BY <1>1, <1>2 DEF Good, RowsFit, Chained, OnItsWay, Booked, Live, SourcesComplete
<1>5. \A u \in Versions, st \in Stages : s.work[u][st] # "none" => SourcesComplete(s, u)
  BY <1>1, <1>2 DEF Good, RowsFit, SourcesComplete
<1>6. Orderly(s)
  BY <1>1, <1>2, <1>3, SourcesMove
<1>7. Orderly(lin')
  BY <1>2, <1>3, <1>4, <1>5, <1>6, LineageChangedKeepsOrder
<1> QED
  BY <1>7, OrderingKeepsInv

LEMMA DeletingKeepsOrder ==
  ASSUME LayersInv, OrderInv, LayersAssumption, NEW v \in Versions, DeleteVersion(v)
  PROVE  OrderInv'
<1> DEFINE s == [lin EXCEPT !.deleted = lin.deleted \cup {v}, !.current = Repointed(v)]
<1>1. lin \in Lineage /\ Orderly(lin)
  BY DEF LayersInv, Good, OrderInv
<1>2. Repointed(v) \in {Unset} \cup Versions
  BY RepointedIsOwn
<1>3. /\ s.sources = lin.sources /\ s.deleted = lin.deleted \cup {v}
      /\ s.current = Repointed(v)
  BY <1>1 DEF Lineage
<1>4. lin' = LineageChanged(s) /\ UNCHANGED <<living, zeroChunk, testimony>>
  BY DEF DeleteVersion, Static
<1> HIDE DEF s
<1>5. ASSUME living, NEW u \in Versions, Live(s, u), s.sources[u] \in {"ready", "embedded"}
      PROVE  s.current # Unset /\ u <= s.current
  <2>1. u \in Remaining(v) /\ Live(lin, u)
    BY <1>3, <1>5 DEF Remaining, Live
  <2>2. CASE lin.current = v
    BY <1>3, <2>1, <2>2, RepointedIsLatest
  <2>3. CASE lin.current # v
    BY <1>1, <1>3, <1>5, <2>1, <2>3 DEF Repointed, Orderly, CurrentIsLatest
  <2> QED
    BY <2>2, <2>3
<1>6. living => CurrentIsLatest(s)
  BY <1>5 DEF CurrentIsLatest
<1>7. lin.deleted \subseteq lin.deleted \cup {v} /\ lin.deleted \cup {v} \subseteq Versions
  BY <1>1 DEF Lineage
<1> QED
  BY <1>2, <1>4, <1>6, <1>7, ClearingKeepsOrder, ZenonT(40) DEF s

LEMMA DeletingDocumentKeepsOrder ==
  ASSUME LayersInv, OrderInv, LayersAssumption, DeleteDocument
  PROVE  OrderInv'
<1>1. PICK deleted : deleted = 1..lin.latest
  OBVIOUS
<1> DEFINE s == [lin EXCEPT !.deleted = deleted, !.current = lin.current]
<1>2. lin \in Lineage /\ Placed(lin)
  BY DEF LayersInv, Good
<1>3. s.sources = lin.sources /\ s.deleted = deleted
  BY <1>2 DEF Lineage
<1>4. s = [lin EXCEPT !.deleted = 1..lin.latest]
  BY <1>1, <1>2 DEF Lineage
<1>5. lin' = LineageChanged(s) /\ UNCHANGED <<living, zeroChunk>>
  BY <1>4 DEF DeleteDocument, Static
<1> HIDE DEF s
<1>6. CurrentIsLatest(s)
  BY <1>1, <1>2, <1>3 DEF CurrentIsLatest, Live, Placed, Versions
<1>7. /\ lin.deleted \subseteq deleted /\ deleted \subseteq Versions
      /\ lin.current \in {Unset} \cup Versions
  BY <1>1, <1>2 DEF Placed, Lineage, Versions, LayersAssumption
<1>8. \A u \in zeroChunk : testimony[u] = "none" => testimony'[u] = "none"
  BY DEF DeleteDocument, OrderInv
<1> QED
  BY <1>5, <1>6, <1>7, <1>8, ClearingKeepsOrder, ZenonT(40) DEF s

LEMMA BesidesKeepsOrder ==
  ASSUME LayersInv, OrderInv, NEW v, NEW layer,
         Cascade(v) \/ Switch \/ Seeds(layer)
  PROVE  OrderInv'
<1>1. Good(lin) /\ Orderly(lin)
  BY DEF LayersInv, OrderInv
<1>2. Orderly(AdvanceClaims(lin)) /\ Orderly(AdvanceFacts(lin))
  BY <1>1, AdvancingClaimsKeepsOrder, AdvancingFactsKeepsOrder
<1>3. lin' \in {lin, AdvanceClaims(lin), AdvanceFacts(lin)}
  BY DEF Cascade, Switch, Seeds
<1>4. Orderly(lin') /\ UNCHANGED <<living, zeroChunk>>
  BY <1>1, <1>2, <1>3 DEF Cascade, Switch, Seeds, Static
<1>5. \A u \in zeroChunk : testimony[u] = "none" => testimony'[u] = "none"
  BY DEF Cascade, Switch, Seeds, CurrencyOf, OrderInv
<1> QED
  BY <1>4, <1>5, OrderingKeepsInv

LEMMA InitSetsOrder ==
  ASSUME LayersAssumption, Init
  PROVE  OrderInv
<1>1. /\ \A v \in Versions, l \in Layers : lin.gap[v][l] = "none"
      /\ \A v \in Versions, st \in Stages : lin.work[v][st] = "none"
      /\ \A v \in Versions : lin.sources[v] = "absent" /\ testimony[v] = "none"
      /\ zeroChunk \subseteq Versions
  BY DEF Init, LayersAssumption
<1>2. Orderly(lin)
  BY <1>1 DEF Orderly, InSequence, FactsFollow, CurrentIsLatest, NobodyOvertaken, Overtaken,
              Begun, Stages, Layers, Reconciles
<1> QED
  BY <1>1, <1>2 DEF OrderInv

LEMMA StepKeepsOrder ==
  ASSUME LayersInv, OrderInv, LayersAssumption, [Next]_vars
  PROVE  OrderInv'
<1>1. CASE UNCHANGED vars
  <2>1. Orderly(lin')
    BY <1>1 DEF vars, layerVars, OrderInv
  <2> QED
    BY <1>1, <2>1, OrderingKeepsInv DEF vars, layerVars
<1>2. CASE Ingest
  BY <1>2, IngestKeepsOrder
<1>3. CASE DeleteDocument
  BY <1>3, DeletingDocumentKeepsOrder
<1>4. CASE Switch \/ \E layer \in Layers : Seeds(layer)
  BY <1>4, BesidesKeepsOrder
<1>5. ASSUME NEW v \in Versions,
             \/ Structured(v) \/ EmbedCompletes(v) \/ ExtractCompletes(v)
             \/ FactsComplete(v) \/ ClaimsEmbedded(v)
             \/ DeleteVersion(v) \/ Cascade(v)
      PROVE  OrderInv'
  BY <1>5, StructuredKeepsOrder, EmbedKeepsOrder, ExtractKeepsOrder, FactsKeepOrder,
     ClaimsEmbeddedKeepsOrder, DeletingKeepsOrder, BesidesKeepsOrder
<1>6. ASSUME NEW v \in Versions, NEW stage \in Reconciles,
             \/ ReconcileReads(v, stage) \/ ReconcileSupersedes(v, stage)
             \/ ReconcileCompletes(v, stage)
      PROVE  OrderInv'
  BY <1>6, ReconcileKeepsOrder, ReconcileDoneKeepsOrder
<1>7. ASSUME NEW v \in Versions, NEW stage \in Stages,
             DeadLetters(v, stage) \/ Replays(v, stage)
      PROVE  OrderInv'
  BY <1>7, DyingKeepsOrder
<1> QED
  BY <1>1, <1>2, <1>3, <1>4, <1>5, <1>6, <1>7 DEF Next

(* The lineage stays in order: no version whose chunks have fact work      *)
(* admitted is overtaken by a later live one of its lineage.               *)
THEOREM OrderHolds == Spec => []OrderInv
<1>1. Init => OrderInv
  BY LayersAssumption, InitSetsOrder
<1>2. LayersInv /\ OrderInv /\ [Next]_vars => OrderInv'
  BY LayersAssumption, StepKeepsOrder
<1> QED
  BY <1>1, <1>2, InvHolds, PTL DEF Spec

(* No reconcile of a later live version retires the testimony of a version *)
(* whose admitted fact work is still running: none can even have read      *)
(* the lineage.  A reconcile reads in a living lineage only, where nobody  *)
(* is overtaken, and a version without chunks has no testimony.            *)
THEOREM LaterReconcilesHold == Spec => LaterReconcilesWait
<1>1. ASSUME LayersInv, OrderInv, NEW u \in Versions, NEW v \in Versions,
             u < v, Applies(v), Live(lin, v), FactWorkAdmitted(u), testimony[u] = "current"
      PROVE  FALSE
  <2>1. PICK stage \in Reconciles : lin.work[v][stage] = "read"
    BY <1>1 DEF Applies
  <2>2. living /\ Begun(lin, v)
    BY <1>1, <2>1 DEF OrderInv, Orderly, InSequence, Begun, Reconciles
  <2>3. u \notin zeroChunk
    BY <1>1 DEF OrderInv
  <2> QED
    BY <1>1, <2>2, <2>3 DEF OrderInv, Orderly, NobodyOvertaken, Overtaken, FactWorkAdmitted
<1> DEFINE Waits == \A u, v \in Versions :
                      u < v /\ Applies(v) /\ Live(lin, v) /\ FactWorkAdmitted(u)
                            /\ testimony[u] = "current"
                        => testimony'[u] = "current"
<1>2. LayersInv /\ OrderInv => Waits
  BY <1>1
<1> HIDE DEF Waits
<1>3. LayersInv /\ OrderInv /\ [Next]_vars => [Waits]_vars
  BY <1>2
<1>4. Spec => [][Waits]_vars
  BY <1>3, InvHolds, OrderHolds, PTL DEF Spec
<1> QED
  BY <1>4 DEF LaterReconcilesWait, Waits
=============================================================================
