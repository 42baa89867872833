------------------------- MODULE FanInBarriersProofs -------------------------
(***************************************************************************)
(* What the barriers guarantee for any grid of chunks and claims, however  *)
(* the claims are shared and however many completing transactions are open *)
(* at once: no stage opens before everything it stands on is committed.    *)
(*                                                                         *)
(* The argument is about uncommitted writes.  A transaction decides on     *)
(* what it reads, and commits later; what it read must still hold then.    *)
(* Rows that succeeded stay so, hence what a transaction saw completed     *)
(* stays completed (MarkInv); a facts gap can only be recorded by the last *)
(* grounding of the version, which everyone else would have to have seen   *)
(* committed to mark it (DeferInv).                                        *)
(*                                                                         *)
(* And no stage stays shut.  What a completion did not see completed is    *)
(* still not completed when it commits (OpenedInv): whoever could complete *)
(* it holds the same lock, or has the version still to evaluate.  The one  *)
(* exception is a version whose last extraction or entry to facts met the  *)
(* completion of one of its claims (raced).                                *)
(***************************************************************************)
EXTENDS FanInBarriers, FiniteSetTheorems, NaturalFacts, TLAPS

Outs == [rows : SUBSET Rows, marks : SUBSET (Versions \X FlushStates),
         defers : SUBSET Versions, enters : SUBSET Versions]

(* What r has to see completed before it may mark v. *)
AllSeen(r, v) == ExtractReady(r, v) /\ \A c \in AllClaimsOf(v) : Sees(r, Normalize(c))

(* A transaction is open on a handled row and leaves nothing behind. *)
TxInv ==
  /\ \A r \in SiblingRows :
       /\ tx[r].open => status[r] = "handled"
       /\ ~tx[r].open => tx[r] = NoTx
  /\ \A ch \in Chunks : tx[Grounding(ch)].todo \subseteq {VersionOf[ch]}
  /\ \A v \in Versions : tx[Entry(v)].todo \subseteq {v}

(* A version still to be evaluated has nothing written for it yet. *)
TodoInv ==
  \A r \in SiblingRows : \A v \in tx[r].todo :
    v \notin tx[r].defers /\ \A s \in FlushStates : <<v, s>> \notin tx[r].marks

(* A grounding that returned has committed its occurrences. *)
AttachInv ==
  \A ch \in Chunks : status[Grounding(ch)] \in {"handled", "succeeded"} => ch \in attached

(* Whoever marks a version sees all of it completed. *)
MarkInv ==
  \A r \in SiblingRows, v \in Versions, s \in FlushStates :
    <<v, s>> \in tx[r].marks =>
      /\ AllSeen(r, v)
      /\ v \notin tx[r].defers
      /\ v \in waiting => v \in tx[r].enters

(* A gap is recorded by the last grounding of its version alone. *)
LastGrounding(r, v) == (\E ch \in ChunksOf(v) : r = Grounding(ch)) /\ ExtractReady(r, v)
DeferInv ==
  \A r \in SiblingRows, v \in Versions :
    v \in tx[r].defers \/ Entry(v) \in tx[r].inserts =>
      LastGrounding(r, v) /\ configured

EntryInv ==
  \A v \in Versions :
    /\ status[Entry(v)] # "absent" \/ v \in waiting => ExtractDone(v)
    /\ v \in waiting => configured

FlushInv ==
  /\ TypeOK /\ TxInv /\ TodoInv /\ AttachInv
  /\ MarkInv /\ DeferInv /\ EntryInv /\ FlushCoversTheVersion

-----------------------------------------------------------------------------
(* Rows *)

LEMMA RowTypes ==
  /\ SiblingRows \subseteq Rows
  /\ \A ch \in Chunks : Selection(ch) \in SiblingRows /\ Grounding(ch) \in SiblingRows
  /\ \A c \in Claims : Normalize(c) \in SiblingRows
  /\ \A v \in Versions : Entry(v) \in SiblingRows
  /\ \A v \in Versions, e \in Entities : Flush(v, e) \in SiblingRows
  /\ \A v \in Versions : Supersession(v) \in Rows
BY DEF Rows, SiblingRows, SelectionRows, GroundingRows, NormalizeRows, FlushRows

LEMMA RowKinds ==
  ASSUME NEW r \in SiblingRows
  PROVE  \/ \E ch \in Chunks : r = Selection(ch)
         \/ \E ch \in Chunks : r = Grounding(ch)
         \/ \E c \in Claims : r = Normalize(c)
         \/ \E v \in Versions, e \in Entities : r = Flush(v, e)
         \/ \E v \in Versions : r = Entry(v)
BY DEF SiblingRows, SelectionRows, GroundingRows, NormalizeRows, FlushRows

(* Rows of different stages are different rows. *)
LEMMA Distinct ==
  /\ \A ch, c : Grounding(ch) # Normalize(c) /\ Grounding(ch) # Selection(c)
                /\ Grounding(ch) # Entry(c) /\ Normalize(ch) # Entry(c)
                /\ Normalize(ch) # Selection(c) /\ Entry(ch) # Selection(c)
  /\ \A v, x, e : Flush(v, e) # Grounding(x) /\ Flush(v, e) # Entry(x)
                  /\ Flush(v, e) # Normalize(x) /\ Flush(v, e) # Selection(x)
                  /\ Flush(v, e) # Supersession(x)
  /\ \A v, x : Supersession(v) # Grounding(x) /\ Supersession(v) # Entry(x)
               /\ Supersession(v) # Normalize(x) /\ Supersession(v) # Selection(x)
  /\ \A v, w : /\ Entry(v) = Entry(w) => v = w
               /\ Grounding(v) = Grounding(w) => v = w
               /\ Supersession(v) = Supersession(w) => v = w
BY DEF Grounding, Normalize, Selection, Entry, Flush, Supersession

LEMMA OutcomesOf ==
  /\ \A ch, v : Outcomes(Selection(ch), v) = SelectionBarrier(Selection(ch), v)
  /\ \A ch, v : Outcomes(Grounding(ch), v) = ExtractBarrier(Grounding(ch), v)
  /\ \A c, v : Outcomes(Normalize(c), v) = NormalizeBarrier(Normalize(c), v)
  /\ \A w, v : Outcomes(Entry(w), v) = EnterFacts(Entry(w), v)
  /\ \A w, e, v : Outcomes(Flush(w, e), v) = FlushBarrier(Flush(w, e), v)
BY DEF Outcomes, Selection, Grounding, Normalize, Entry, Flush

LEMMA CandidatesOf ==
  ASSUME BarrierAssumption
  PROVE  /\ \A ch \in Chunks : Candidates(Selection(ch)) = {VersionOf[ch]}
                               /\ Candidates(Grounding(ch)) = {VersionOf[ch]}
         /\ \A w, e : Candidates(Flush(w, e)) = {w} /\ Candidates(Entry(w)) = {w}
         /\ \A r \in SiblingRows : Candidates(r) \subseteq Versions
<1>1. /\ \A ch \in Chunks : Candidates(Selection(ch)) = {VersionOf[ch]}
                            /\ Candidates(Grounding(ch)) = {VersionOf[ch]}
      /\ \A w, e : Candidates(Flush(w, e)) = {w} /\ Candidates(Entry(w)) = {w}
  BY DEF Candidates, Selection, Grounding, Flush, Entry
<1>2. \A c : Candidates(Normalize(c)) = VersionsWith(c)
  BY DEF Candidates, Normalize
<1> QED
  BY <1>1, <1>2, RowKinds DEF VersionsWith, BarrierAssumption

-----------------------------------------------------------------------------
(* What evaluating a version may write *)

LEMMA FanoutTypes ==
  ASSUME BarrierAssumption, TypeOK, NEW v \in Versions
  PROVE  /\ FlushFanout(v) \in Outs
         /\ \A r \in SiblingRows : NormalizeFanout(r, v) \in Outs
         /\ ClaimsOf(v) \subseteq Claims
<1>1. ClaimsOf(v) \subseteq Claims
  BY DEF ClaimsOf, ChunksOf, BarrierAssumption
<1>2. FlushFanout(v) \in Outs
  <2>1. EntitiesOf(v) \subseteq Entities
    BY <1>1 DEF EntitiesOf, TypeOK, BarrierAssumption
  <2>2. {Flush(v, e) : e \in EntitiesOf(v)} \subseteq Rows
    BY <2>1, RowTypes
  <2>3. /\ {<<v, "empty_complete">>} \subseteq Versions \X FlushStates
        /\ {<<v, "materialized">>} \subseteq Versions \X FlushStates
    BY DEF FlushStates
  <2>4. FlushFanout(v) \in
          {Nothing,
           [rows |-> {Supersession(v)}, marks |-> {<<v, "empty_complete">>},
            defers |-> {}, enters |-> {}],
           [rows |-> {Flush(v, e) : e \in EntitiesOf(v)}, marks |-> {<<v, "materialized">>},
            defers |-> {}, enters |-> {}]}
    BY DEF FlushFanout, Nothing
  <2>5. {Supersession(v)} \subseteq Rows
    BY RowTypes
  <2> QED
    BY <2>2, <2>3, <2>4, <2>5 DEF Nothing, Outs
<1>3. ASSUME NEW r \in SiblingRows PROVE NormalizeFanout(r, v) \in Outs
  <2>1. {Normalize(c) : c \in ClaimsOf(v)} \subseteq Rows
    BY <1>1, RowTypes
  <2>2. Nothing \in Outs
    BY DEF Nothing, Outs
  <2> QED
    BY <1>2, <2>1, <2>2 DEF NormalizeFanout, Outs
<1> QED
  BY <1>1, <1>2, <1>3

LEMMA OutcomeTypes ==
  ASSUME BarrierAssumption, TypeOK, NEW r \in SiblingRows, NEW v \in Versions,
         NEW out \in Outcomes(r, v)
  PROVE  out \in Outs
<1>1. Nothing \in Outs
  BY DEF Nothing, Outs
<1>2. CASE \E ch \in Chunks : r = Selection(ch)
  <2>1. {Grounding(ch) : ch \in ChunksOf(v)} \subseteq Rows
    BY RowTypes DEF ChunksOf
  <2> QED
    BY <1>1, <1>2, <2>1, OutcomesOf DEF SelectionBarrier, Nothing, Outs
<1>3. CASE \E ch \in Chunks : r = Grounding(ch)
  <2>1. out \in ExtractBarrier(r, v)
    BY <1>3, OutcomesOf
  <2>2. [Nothing EXCEPT !.rows = {Entry(v)}, !.defers = {v}] \in Outs
    BY RowTypes DEF Nothing, Outs
  <2>3. out \in {Nothing, NormalizeFanout(r, v),
                 [Nothing EXCEPT !.rows = {Entry(v)}, !.defers = {v}]}
    BY <2>1 DEF ExtractBarrier
  <2> QED
    BY <1>1, <2>2, <2>3, FanoutTypes
<1>4. CASE \E c \in Claims : r = Normalize(c)
  <2>1. out \in {Nothing, FlushFanout(v)}
    BY <1>4, OutcomesOf DEF NormalizeBarrier
  <2> QED
    BY <1>1, <2>1, FanoutTypes
<1>5. CASE \E w \in Versions, e \in Entities : r = Flush(w, e)
  <2>1. out \in FlushBarrier(r, v)
    BY <1>5, OutcomesOf
  <2>2. out \in {Nothing, [rows |-> {Supersession(v)}, marks |-> {<<v, "barrier_complete">>},
                           defers |-> {}, enters |-> {}]}
    BY <2>1 DEF FlushBarrier, Nothing
  <2>3. {<<v, "barrier_complete">>} \subseteq Versions \X FlushStates
    BY DEF FlushStates
  <2>4. {Supersession(v)} \subseteq Rows
    BY RowTypes
  <2> QED
    BY <1>1, <2>2, <2>3, <2>4 DEF Outs
<1>6. CASE \E w \in Versions : r = Entry(w)
  <2>1. out = [NormalizeFanout(r, v) EXCEPT !.enters = {v}]
    BY <1>6, OutcomesOf DEF EnterFacts
  <2> QED
    BY <2>1, FanoutTypes DEF Outs
<1> QED
  BY <1>2, <1>3, <1>4, <1>5, <1>6, RowKinds

-----------------------------------------------------------------------------
(* What an open transaction may write *)

(* Once every grounding returned, the occurrences are all there. *)
LEMMA AllAttached ==
  ASSUME AttachInv, NEW r \in SiblingRows, status[r] = "handled", NEW v \in Versions,
         ExtractReady(r, v)
  PROVE  ClaimsOf(v) = AllClaimsOf(v)
<1>1. \A ch \in ChunksOf(v) : ch \in Chunks
  BY DEF ChunksOf
<1>2. \A ch \in ChunksOf(v) : ch \in attached
  BY <1>1 DEF ExtractReady, Sees, AttachInv
<1>3. ChunksOf(v) \cap attached = ChunksOf(v)
  BY <1>2
<1> QED
  BY <1>3 DEF ClaimsOf, AllClaimsOf

LEMMA FanoutFacts ==
  ASSUME NEW v \in Versions
  PROVE  /\ FlushFanout(v).defers = {} /\ FlushFanout(v).enters = {}
         /\ \A w, s : <<w, s>> \in FlushFanout(v).marks => w = v
         /\ \A w : Entry(w) \notin FlushFanout(v).rows
<1>1. FlushFanout(v) \in
          {Nothing,
           [rows |-> {Supersession(v)}, marks |-> {<<v, "empty_complete">>},
            defers |-> {}, enters |-> {}],
           [rows |-> {Flush(v, e) : e \in EntitiesOf(v)}, marks |-> {<<v, "materialized">>},
            defers |-> {}, enters |-> {}]}
  BY DEF FlushFanout, Nothing
<1> QED
  BY <1>1, Distinct DEF Nothing

LEMMA NormalizeFanoutFacts ==
  ASSUME NEW v \in Versions, NEW r \in SiblingRows
  PROVE  /\ NormalizeFanout(r, v).defers = {} /\ NormalizeFanout(r, v).enters = {}
         /\ \A w, s : <<w, s>> \in NormalizeFanout(r, v).marks => w = v /\ NormalizeReady(r, v)
         /\ \A w : Entry(w) \notin NormalizeFanout(r, v).rows
<1>1. CASE NormalizeReady(r, v)
  <2>1. NormalizeFanout(r, v) =
          [FlushFanout(v) EXCEPT !.rows = @ \cup {Normalize(c) : c \in ClaimsOf(v)}]
    BY <1>1 DEF NormalizeFanout
  <2>2. FlushFanout(v) \in [rows : {FlushFanout(v).rows}, marks : {FlushFanout(v).marks},
                            defers : {{}}, enters : {{}}]
    BY DEF FlushFanout, Nothing
  <2>3. /\ NormalizeFanout(r, v).defers = {} /\ NormalizeFanout(r, v).enters = {}
        /\ NormalizeFanout(r, v).marks = FlushFanout(v).marks
        /\ NormalizeFanout(r, v).rows
             = FlushFanout(v).rows \cup {Normalize(c) : c \in ClaimsOf(v)}
    BY <2>1, <2>2
  <2> QED
    BY <1>1, <2>3, FanoutFacts, Distinct
<1>2. CASE ~NormalizeReady(r, v)
  <2>1. NormalizeFanout(r, v) = [rows |-> {Normalize(c) : c \in ClaimsOf(v)},
                                 marks |-> {}, defers |-> {}, enters |-> {}]
    BY <1>2 DEF NormalizeFanout, Nothing
  <2> QED
    BY <2>1, Distinct
<1> QED
  BY <1>1, <1>2

LEMMA OutcomeFacts ==
  ASSUME BarrierAssumption, FlushInv, NEW r \in SiblingRows, tx[r].open,
         NEW v \in tx[r].todo, NEW out \in Outcomes(r, v)
  PROVE  /\ v \in Versions /\ out \in Outs
         /\ \A w \in Versions, s \in FlushStates : <<w, s>> \in out.marks =>
              /\ w = v /\ AllSeen(r, v)
              /\ v \notin out.defers /\ (v \in waiting => v \in out.enters)
         /\ \A w \in Versions : w \in out.defers \/ Entry(w) \in out.rows =>
              w = v /\ LastGrounding(r, v) /\ configured
<1> USE DEF FlushInv
<1>1. v \in Versions
  BY DEF TypeOK
<1>2. status[r] = "handled"
  BY DEF TxInv
<1>3. out \in Outs
  BY <1>1, OutcomeTypes
<1>4. ASSUME ExtractReady(r, v), NormalizeReady(r, v) PROVE AllSeen(r, v)
  BY <1>1, <1>2, <1>4, AllAttached DEF AllSeen, NormalizeReady
<1>5. CASE \E ch \in Chunks : r = Selection(ch)
  <2>1. out \in SelectionBarrier(r, v)
    BY <1>5, OutcomesOf
  <2>2. out \in {Nothing, [rows |-> {Grounding(ch) : ch \in ChunksOf(v)},
                           marks |-> {}, defers |-> {}, enters |-> {}]}
    BY <2>1 DEF SelectionBarrier, Nothing
  <2>3. \A w : Entry(w) \notin {Grounding(ch) : ch \in ChunksOf(v)}
    BY DEF Entry, Grounding
  <2>4. out.marks = {} /\ out.defers = {} /\ \A w : Entry(w) \notin out.rows
    BY <2>2, <2>3 DEF Nothing
  <2> QED
    BY <1>1, <1>3, <2>4
<1>6. CASE \E ch \in Chunks : r = Grounding(ch)
  <2>1. PICK ch \in Chunks : r = Grounding(ch)
    BY <1>6
  <2>2. v = VersionOf[ch] /\ ch \in ChunksOf(v)
    BY <2>1 DEF TxInv, ChunksOf
  <2>3. v \notin waiting
    BY <1>1, <1>2, <2>1, <2>2 DEF EntryInv, ExtractDone, Done
  <2>4. out \in ExtractBarrier(r, v)
    BY <2>1, OutcomesOf
  <2>5. CASE ~ExtractReady(r, v)
    BY <1>1, <1>3, <2>4, <2>5 DEF ExtractBarrier, Nothing
  <2>6. CASE ExtractReady(r, v) /\ out = NormalizeFanout(r, v)
    BY <1>1, <1>3, <1>4, <2>3, <2>6, NormalizeFanoutFacts
  <2>7. CASE /\ ExtractReady(r, v) /\ configured
             /\ out = [Nothing EXCEPT !.rows = {Entry(v)}, !.defers = {v}]
    <3>1. out = [rows |-> {Entry(v)}, marks |-> {}, defers |-> {v}, enters |-> {}]
      BY <2>7 DEF Nothing
    <3>2. \A w : Entry(w) \in {Entry(v)} => w = v
      BY DEF Entry
    <3>3. LastGrounding(r, v)
      BY <2>1, <2>2, <2>7 DEF LastGrounding
    <3>4. out.marks = {} /\ out.defers = {v} /\ out.rows = {Entry(v)}
      BY <3>1
    <3>5. configured
      BY <2>7
    <3> QED
      BY <1>1, <1>3, <3>2, <3>3, <3>4, <3>5
  <2> QED
    BY <2>4, <2>5, <2>6, <2>7 DEF ExtractBarrier
<1>7. CASE \E c \in Claims : r = Normalize(c)
  <2>1. out \in NormalizeBarrier(r, v)
    BY <1>7, OutcomesOf
  <2>2. CASE out = Nothing
    BY <1>1, <1>3, <2>2 DEF Nothing
  <2>3. CASE /\ ExtractReady(r, v) /\ NormalizeReady(r, v)
             /\ configured => v \notin waiting
             /\ out = FlushFanout(v)
    <3>1. v \notin waiting
      BY <1>1, <2>3 DEF EntryInv
    <3> QED
      BY <1>1, <1>3, <1>4, <2>3, <3>1, FanoutFacts
  <2> QED
    BY <2>1, <2>2, <2>3 DEF NormalizeBarrier
<1>8. CASE \E w \in Versions, e \in Entities : r = Flush(w, e)
  <2>1. out \in FlushBarrier(r, v)
    BY <1>8, OutcomesOf
  <2>2. CASE out = Nothing
    BY <1>1, <1>3, <2>2 DEF Nothing
  <2>3. CASE /\ flushState[v] # "none"
             /\ out = [rows |-> {Supersession(v)}, marks |-> {<<v, "barrier_complete">>},
                       defers |-> {}, enters |-> {}]
    <3>1. ExtractDone(v) /\ NormalizeDone(v) /\ v \notin waiting
      BY <1>1, <2>3 DEF FlushCoversTheVersion
    <3>2. AllSeen(r, v)
      BY <3>1 DEF AllSeen, ExtractDone, NormalizeDone, ExtractReady, Sees, Done
    <3> QED
      BY <1>1, <1>3, <2>3, <3>1, <3>2, Distinct
  <2> QED
    BY <2>1, <2>2, <2>3 DEF FlushBarrier, Nothing
<1>9. CASE \E w \in Versions : r = Entry(w)
  <2>1. r = Entry(v)
    BY <1>9 DEF TxInv
  <2>2. ExtractDone(v)
    BY <1>1, <1>2, <2>1 DEF EntryInv
  <2>3. ExtractReady(r, v)
    BY <2>2 DEF ExtractDone, ExtractReady, Sees, Done
  <2>4. out = [NormalizeFanout(r, v) EXCEPT !.enters = {v}]
    BY <1>9, OutcomesOf DEF EnterFacts
  <2>5. NormalizeFanout(r, v) \in Outs
    BY <1>1, FanoutTypes
  <2>6. /\ out.marks = NormalizeFanout(r, v).marks /\ out.rows = NormalizeFanout(r, v).rows
        /\ out.defers = NormalizeFanout(r, v).defers /\ out.enters = {v}
    BY <2>4, <2>5 DEF Outs
  <2> QED
    BY <1>1, <1>3, <1>4, <2>3, <2>6, NormalizeFanoutFacts
<1> QED
  BY <1>5, <1>6, <1>7, <1>8, <1>9, RowKinds

-----------------------------------------------------------------------------
(* Every step preserves the invariant *)

(* What succeeded stays so, and with it what was seen. *)
LEMMA Monotone ==
  ASSUME BarrierAssumption,
         \A x \in Rows : status[x] = "succeeded" => status'[x] = "succeeded"
  PROVE  /\ \A v \in Versions : ExtractDone(v) => ExtractDone(v)'
         /\ \A v \in Versions : ExtractDone(v) /\ NormalizeDone(v) => NormalizeDone(v)'
         /\ \A r \in SiblingRows, v \in Versions : ExtractReady(r, v) => ExtractReady(r, v)'
         /\ \A r \in SiblingRows, v \in Versions : AllSeen(r, v) => AllSeen(r, v)'
         /\ \A r \in SiblingRows, v \in Versions : LastGrounding(r, v) => LastGrounding(r, v)'
<1>1. \A v \in Versions : \A ch \in ChunksOf(v) : Grounding(ch) \in Rows
  BY RowTypes DEF ChunksOf
<1>2. \A v \in Versions : \A c \in AllClaimsOf(v) : Normalize(c) \in Rows
  BY RowTypes DEF AllClaimsOf, ChunksOf, BarrierAssumption
<1>3. \A v \in Versions : ExtractDone(v) => ExtractDone(v)'
  BY <1>1 DEF ExtractDone, Done, ChunksOf
<1>4. \A r \in SiblingRows, v \in Versions : ExtractReady(r, v) => ExtractReady(r, v)'
  BY <1>1 DEF ExtractReady, Sees, ChunksOf
<1>5. \A v \in Versions : NormalizeDone(v) => NormalizeDone(v)'
  BY <1>2 DEF NormalizeDone, Done, AllClaimsOf, ChunksOf
<1>6. \A r \in SiblingRows, v \in Versions : AllSeen(r, v) => AllSeen(r, v)'
  BY <1>2, <1>4 DEF AllSeen, Sees, AllClaimsOf, ChunksOf
<1>7. \A r \in SiblingRows, v \in Versions : LastGrounding(r, v) => LastGrounding(r, v)'
  BY <1>4 DEF LastGrounding, ChunksOf
<1> QED
  BY <1>3, <1>4, <1>5, <1>6, <1>7

LEMMA SuccessStays ==
  ASSUME FlushInv, [Next]_vars
  PROVE  \A x \in Rows : status[x] = "succeeded" => status'[x] = "succeeded"
<1> USE DEF FlushInv
<1>1. ASSUME NEW r \in SiblingRows, Handle(r)
      PROVE  \A x \in Rows : status[x] = "succeeded" => status'[x] = "succeeded"
  BY <1>1, RowTypes DEF Handle, TypeOK
<1>2. ASSUME NEW r \in SiblingRows, Begin(r) \/ TakeLock(r) \/ Evaluate(r)
      PROVE  \A x \in Rows : status[x] = "succeeded" => status'[x] = "succeeded"
  BY <1>2 DEF Begin, TakeLock, Evaluate
<1>3. ASSUME NEW r \in SiblingRows, Commit(r)
      PROVE  \A x \in Rows : status[x] = "succeeded" => status'[x] = "succeeded"
  BY <1>3 DEF Commit
<1>4. ASSUME NEW r \in SiblingRows, Abort(r)
      PROVE  \A x \in Rows : status[x] = "succeeded" => status'[x] = "succeeded"
  BY <1>4, RowTypes DEF Abort, TypeOK, TxInv
<1>5. CASE UNCHANGED vars
  BY <1>5 DEF vars
<1> QED
  BY <1>1, <1>2, <1>3, <1>4, <1>5 DEF Next

LEMMA EvaluateEffect ==
  ASSUME FlushInv, NEW r \in SiblingRows, NEW v \in tx[r].todo
  PROVE  tx[r].open /\ v \in Versions
BY DEF FlushInv, TxInv, NoTx, TypeOK

LEMMA TypeStep ==
  ASSUME BarrierAssumption, FlushInv, [Next]_vars
  PROVE  TypeOK'
<1> USE DEF FlushInv
<1> DEFINE Txs == [open : BOOLEAN, locks : SUBSET Versions, todo : SUBSET Versions,
                   inserts : SUBSET Rows, marks : SUBSET (Versions \X FlushStates),
                   defers : SUBSET Versions, enters : SUBSET Versions]
<1>0. NoTx \in Txs
  BY DEF NoTx
<1>1. ASSUME NEW r \in SiblingRows, Handle(r) PROVE TypeOK'
  <2>1. status' \in [Rows -> Statuses]
    BY <1>1 DEF Handle, TypeOK, Statuses
  <2>2. attached' \subseteq Chunks
    BY <1>1 DEF Handle, TypeOK, GroundingRows, Grounding
  <2>3. applied' \subseteq Claims \X Entities
    <3>1. CASE r \in FlushRows
      <4>1. r[3] \in Entities
        BY <3>1 DEF FlushRows, Flush
      <4>2. Eligible(r[3]) \subseteq Claims \X Entities
        BY <4>1 DEF Eligible
      <4> QED
        BY <1>1, <3>1, <4>2 DEF Handle, TypeOK
    <3> QED
      BY <1>1, <3>1 DEF Handle, TypeOK
  <2> QED
    BY <1>1, <2>1, <2>2, <2>3 DEF Handle, TypeOK
<1>2. ASSUME NEW r \in SiblingRows, Begin(r) PROVE TypeOK'
  <2>1. Candidates(r) \subseteq Versions /\ LocksFor(r) \subseteq Versions
    BY CandidatesOf DEF LocksFor
  <2>2. [NoTx EXCEPT !.open = TRUE, !.locks = LocksFor(r), !.todo = Candidates(r)] \in Txs
    BY <1>0, <2>1
  <2> QED
    BY <1>2, <2>2 DEF Begin, TypeOK
<1>3. ASSUME NEW r \in SiblingRows, TakeLock(r) PROVE TypeOK'
  <2>1. PICK v \in Versions : /\ holder' = [holder EXCEPT ![<<LockClass(r), v>>] = r]
                              /\ tx' = [tx EXCEPT ![r].locks = @ \ {v}]
    BY <1>3 DEF TakeLock
  <2>2. [tx[r] EXCEPT !.locks = @ \ {v}] \in Txs
    <3>1. tx[r] \in Txs
      BY DEF TypeOK
    <3> QED
      BY <3>1
  <2>3. tx' = [tx EXCEPT ![r] = [tx[r] EXCEPT !.locks = @ \ {v}]]
    BY <2>1 DEF TypeOK
  <2>4. tx' \in [SiblingRows -> Txs]
    BY <2>2, <2>3 DEF TypeOK
  <2>5. holder' \in [Locks -> SiblingRows \cup {NoHolder}]
    BY <2>1 DEF TypeOK
  <2> QED
    BY <1>3, <2>4, <2>5 DEF TakeLock, TypeOK
<1>4. ASSUME NEW r \in SiblingRows, Evaluate(r) PROVE TypeOK'
  <2>0. PICK v \in tx[r].todo : \E out \in Outcomes(r, v) :
          /\ tx' = [tx EXCEPT ![r] = Written(tx[r], v, out)]
          /\ raced' = IF Races(r, v) THEN raced \cup {v} ELSE raced
    BY <1>4 DEF Evaluate
  <2>1. PICK out \in Outcomes(r, v) :
          /\ tx' = [tx EXCEPT ![r] = Written(tx[r], v, out)]
          /\ raced' = IF Races(r, v) THEN raced \cup {v} ELSE raced
    BY <2>0
  <2>3. v \in Versions
    BY DEF TypeOK
  <2>4. out \in Outs
    BY <2>3, OutcomeTypes
  <2>5. tx' \in [SiblingRows -> Txs]
    <3>1. tx[r] \in Txs
      BY DEF TypeOK
    <3>2. Written(tx[r], v, out) \in Txs
      BY <3>1, <2>4 DEF Outs, Written
    <3> QED
      BY <2>1, <3>2 DEF TypeOK
  <2>6. raced' \subseteq Versions
    BY <2>1, <2>3 DEF TypeOK
  <2> QED
    BY <1>4, <2>5, <2>6 DEF Evaluate, TypeOK
<1>5. ASSUME NEW r \in SiblingRows PROVE Release(r) \in [Locks -> SiblingRows \cup {NoHolder}]
  BY DEF Release, TypeOK
<1>6. ASSUME NEW r \in SiblingRows, Commit(r) PROVE TypeOK'
  <2>1. status' \in [Rows -> Statuses]
    BY <1>6 DEF Commit, TypeOK, Statuses
  <2>2. flushState' \in [Versions -> FlushStates]
    BY <1>6 DEF Commit, TypeOK
  <2>3. waiting' \subseteq Versions
    BY <1>6 DEF Commit, TypeOK
  <2>4. tx' \in [SiblingRows -> Txs]
    BY <1>0, <1>6 DEF Commit, TypeOK
  <2> QED
    BY <1>5, <1>6, <2>1, <2>2, <2>3, <2>4 DEF Commit, TypeOK
<1>7. ASSUME NEW r \in SiblingRows, Abort(r) PROVE TypeOK'
  <2>1. aborts' \in 0..MaxAborts
    BY <1>7 DEF Abort, TypeOK, BarrierAssumption
  <2>2. status' \in [Rows -> Statuses]
    BY <1>7 DEF Abort, TypeOK, Statuses
  <2>3. tx' \in [SiblingRows -> Txs]
    BY <1>0, <1>7 DEF Abort, TypeOK
  <2> QED
    BY <1>5, <1>7, <2>1, <2>2, <2>3 DEF Abort, TypeOK
<1>8. CASE UNCHANGED vars
  BY <1>8 DEF vars, TypeOK
<1> QED
  BY <1>1, <1>2, <1>3, <1>4, <1>6, <1>7, <1>8 DEF Next

(* What a step leaves alone, in terms of the transactions. *)
LEMMA QuietStep ==
  ASSUME BarrierAssumption, FlushInv, TypeOK',
         \A x \in Rows : status[x] = "succeeded" => status'[x] = "succeeded",
         UNCHANGED <<configured, waiting, flushState>>,
         \A v \in Versions : status[Entry(v)] = "absent" => status'[Entry(v)] = "absent",
         \A r \in SiblingRows :
           /\ tx'[r].todo \subseteq tx[r].todo \/ tx'[r].marks \cup tx'[r].defers = {}
           /\ tx'[r].marks \subseteq tx[r].marks /\ tx'[r].defers \subseteq tx[r].defers
           /\ tx'[r].inserts \subseteq tx[r].inserts
           /\ tx[r].enters \subseteq tx'[r].enters \/ tx'[r].marks = {}
  PROVE  TodoInv' /\ MarkInv' /\ DeferInv' /\ EntryInv' /\ FlushCoversTheVersion'
<1> USE DEF FlushInv
<1>1. TodoInv'
  BY DEF TodoInv
<1>2. MarkInv'
  BY Monotone DEF MarkInv
<1>3. DeferInv'
  BY Monotone DEF DeferInv
<1>4. EntryInv'
  BY Monotone DEF EntryInv
<1>5. FlushCoversTheVersion'
  BY Monotone DEF FlushCoversTheVersion
<1> QED
  BY <1>1, <1>2, <1>3, <1>4, <1>5

(* A step of one transaction leaves the others as they are. *)
LEMMA HandleStep ==
  ASSUME BarrierAssumption, FlushInv, TypeOK', NEW r \in SiblingRows, Handle(r),
         \A x \in Rows : status[x] = "succeeded" => status'[x] = "succeeded"
  PROVE  FlushInv'
<1> USE DEF FlushInv
<1>1. status' = [status EXCEPT ![r] = "handled"] /\ status[r] = "pending"
  BY DEF Handle
<1>2. TxInv'
  BY <1>1, RowTypes DEF Handle, TxInv, TypeOK
<1>3. AttachInv'
  <2>1. SUFFICES ASSUME NEW ch \in Chunks, status'[Grounding(ch)] \in {"handled", "succeeded"}
                 PROVE  ch \in attached'
    BY DEF AttachInv
  <2>2. attached \subseteq attached'
    BY DEF Handle
  <2>3. CASE r = Grounding(ch)
    BY <2>3 DEF Handle, GroundingRows, Grounding
  <2>4. CASE r # Grounding(ch)
    BY <1>1, <2>1, <2>2, <2>4, RowTypes DEF AttachInv, TypeOK
  <2> QED
    BY <2>3, <2>4
<1>4. \A v \in Versions : status[Entry(v)] = "absent" => status'[Entry(v)] = "absent"
  BY <1>1, RowTypes DEF TypeOK
<1>5. UNCHANGED <<configured, waiting, flushState, tx>>
  BY DEF Handle
<1> QED
  BY <1>2, <1>3, <1>4, <1>5, QuietStep

LEMMA BeginStep ==
  ASSUME BarrierAssumption, FlushInv, TypeOK', NEW r \in SiblingRows, Begin(r),
         \A x \in Rows : status[x] = "succeeded" => status'[x] = "succeeded"
  PROVE  FlushInv'
<1> USE DEF FlushInv
<1> DEFINE new == [NoTx EXCEPT !.open = TRUE, !.locks = LocksFor(r), !.todo = Candidates(r)]
<1>1. /\ tx' = [tx EXCEPT ![r] = new]
      /\ status[r] = "handled" /\ ~tx[r].open
      /\ UNCHANGED <<configured, waiting, flushState, status, attached>>
  BY DEF Begin
<1>2. tx[r] = NoTx
  BY <1>1 DEF TxInv
<1>3. /\ new.open /\ new.todo = Candidates(r)
      /\ new.marks = {} /\ new.defers = {} /\ new.inserts = {} /\ new.enters = {}
  BY DEF NoTx
<1>4. tx'[r] = new /\ \A x \in SiblingRows \ {r} : tx'[x] = tx[x]
  BY <1>1 DEF TypeOK
<1> HIDE DEF new
<1>5. TxInv'
  <2>1. \A x \in SiblingRows : /\ tx'[x].open => status'[x] = "handled"
                               /\ ~tx'[x].open => tx'[x] = NoTx
    BY <1>1, <1>3, <1>4 DEF TxInv
  <2>2. ASSUME NEW ch \in Chunks PROVE tx'[Grounding(ch)].todo \subseteq {VersionOf[ch]}
    BY <1>3, <1>4, RowTypes, CandidatesOf DEF TxInv
  <2>3. ASSUME NEW v \in Versions PROVE tx'[Entry(v)].todo \subseteq {v}
    <3>1. Entry(v) \in SiblingRows /\ Candidates(Entry(v)) = {v}
      BY RowTypes, CandidatesOf
    <3> QED
      BY <1>3, <1>4, <3>1 DEF TxInv
  <2> QED
    BY <2>1, <2>2, <2>3 DEF TxInv
<1>6. AttachInv'
  BY <1>1 DEF AttachInv
<1>7. \A x \in SiblingRows :
        /\ tx'[x].todo \subseteq tx[x].todo \/ tx'[x].marks \cup tx'[x].defers = {}
        /\ tx'[x].marks \subseteq tx[x].marks /\ tx'[x].defers \subseteq tx[x].defers
        /\ tx'[x].inserts \subseteq tx[x].inserts
        /\ tx[x].enters \subseteq tx'[x].enters \/ tx'[x].marks = {}
  BY <1>3, <1>4
<1> QED
  BY <1>1, <1>5, <1>6, <1>7, QuietStep

LEMMA TakeLockStep ==
  ASSUME BarrierAssumption, FlushInv, TypeOK', NEW r \in SiblingRows, TakeLock(r),
         \A x \in Rows : status[x] = "succeeded" => status'[x] = "succeeded"
  PROVE  FlushInv'
<1> USE DEF FlushInv
<1>1. PICK v \in Versions : tx[r].open /\ tx' = [tx EXCEPT ![r].locks = @ \ {v}]
  BY DEF TakeLock
<1>2. UNCHANGED <<configured, waiting, flushState, status, attached>>
  BY DEF TakeLock
<1>3. /\ \A x \in SiblingRows \ {r} : tx'[x] = tx[x]
      /\ tx'[r] = [tx[r] EXCEPT !.locks = @ \ {v}]
  BY <1>1 DEF TypeOK
<1>4. /\ tx'[r].open = tx[r].open /\ tx'[r].todo = tx[r].todo /\ tx'[r].marks = tx[r].marks
      /\ tx'[r].defers = tx[r].defers /\ tx'[r].inserts = tx[r].inserts
      /\ tx'[r].enters = tx[r].enters
  BY <1>3 DEF TypeOK
<1>5. TxInv'
  <2>1. \A x \in SiblingRows : /\ tx'[x].open => status'[x] = "handled"
                               /\ ~tx'[x].open => tx'[x] = NoTx
    BY <1>1, <1>2, <1>3, <1>4 DEF TxInv
  <2>2. \A x \in SiblingRows : tx'[x].todo = tx[x].todo
    BY <1>3, <1>4
  <2> QED
    BY <2>1, <2>2, RowTypes DEF TxInv
<1>6. AttachInv'
  BY <1>2 DEF AttachInv
<1>7. \A x \in SiblingRows :
        /\ tx'[x].todo \subseteq tx[x].todo
        /\ tx'[x].marks \subseteq tx[x].marks /\ tx'[x].defers \subseteq tx[x].defers
        /\ tx'[x].inserts \subseteq tx[x].inserts
        /\ tx[x].enters \subseteq tx'[x].enters
  BY <1>3, <1>4
<1> QED
  BY <1>2, <1>5, <1>6, <1>7, QuietStep

LEMMA AbortStep ==
  ASSUME BarrierAssumption, FlushInv, TypeOK', NEW r \in SiblingRows, Abort(r),
         \A x \in Rows : status[x] = "succeeded" => status'[x] = "succeeded"
  PROVE  FlushInv'
<1> USE DEF FlushInv
<1>1. /\ status' = [status EXCEPT ![r] = "pending"] /\ tx' = [tx EXCEPT ![r] = NoTx]
      /\ tx[r].open
      /\ UNCHANGED <<configured, waiting, flushState, attached>>
  BY DEF Abort
<1>2. status[r] = "handled"
  BY <1>1 DEF TxInv
<1>3. tx'[r] = NoTx /\ \A x \in SiblingRows \ {r} : tx'[x] = tx[x]
  BY <1>1 DEF TypeOK
<1>4. /\ NoTx.marks = {} /\ NoTx.defers = {} /\ NoTx.inserts = {} /\ NoTx.todo = {}
      /\ ~NoTx.open
  BY DEF NoTx
<1>5. TxInv'
  <2>1. \A x \in SiblingRows : /\ tx'[x].open => status'[x] = "handled"
                               /\ ~tx'[x].open => tx'[x] = NoTx
    BY <1>1, <1>3, <1>4, RowTypes DEF TxInv, TypeOK
  <2>2. \A x \in SiblingRows : tx'[x].todo \subseteq tx[x].todo
    BY <1>3, <1>4
  <2> QED
    BY <2>1, <2>2, RowTypes DEF TxInv
<1>6. AttachInv'
  BY <1>1, RowTypes DEF AttachInv, TypeOK
<1>7. \A x \in SiblingRows :
        /\ tx'[x].todo \subseteq tx[x].todo
        /\ tx'[x].marks \subseteq tx[x].marks /\ tx'[x].defers \subseteq tx[x].defers
        /\ tx'[x].inserts \subseteq tx[x].inserts
        /\ tx[x].enters \subseteq tx'[x].enters \/ tx'[x].marks = {}
  BY <1>3, <1>4
<1>8. \A v \in Versions : status[Entry(v)] = "absent" => status'[Entry(v)] = "absent"
  BY <1>1, <1>2, RowTypes DEF TypeOK
<1> QED
  BY <1>1, <1>5, <1>6, <1>7, <1>8, QuietStep

(* What a transaction writes when it evaluates a version is what it sees. *)
LEMMA EvaluateStep ==
  ASSUME BarrierAssumption, FlushInv, TypeOK', NEW r \in SiblingRows, Evaluate(r)
  PROVE  FlushInv'
<1> USE DEF FlushInv
<1>0. PICK v \in tx[r].todo : \E out \in Outcomes(r, v) :
        tx' = [tx EXCEPT ![r] = Written(tx[r], v, out)]
  BY DEF Evaluate
<1>1. PICK out \in Outcomes(r, v) : tx' = [tx EXCEPT ![r] = Written(tx[r], v, out)]
  BY <1>0
<1>2. UNCHANGED <<configured, waiting, flushState, status, attached>>
  BY DEF Evaluate
<1>3. tx[r].open /\ v \in Versions
  BY EvaluateEffect
<1>4. /\ out \in Outs
      /\ \A w \in Versions, s \in FlushStates : <<w, s>> \in out.marks =>
           /\ w = v /\ AllSeen(r, v)
           /\ v \notin out.defers /\ (v \in waiting => v \in out.enters)
      /\ \A w \in Versions : w \in out.defers \/ Entry(w) \in out.rows =>
           w = v /\ LastGrounding(r, v) /\ configured
  BY <1>3, OutcomeFacts
<1>5. /\ \A x \in SiblingRows \ {r} : tx'[x] = tx[x]
      /\ tx'[r] = Written(tx[r], v, out)
  BY <1>1 DEF TypeOK
<1>6. /\ tx'[r].open = tx[r].open
      /\ tx'[r].todo = tx[r].todo \ {v}
      /\ tx'[r].inserts = tx[r].inserts \cup out.rows
      /\ tx'[r].marks = tx[r].marks \cup out.marks
      /\ tx'[r].defers = tx[r].defers \cup out.defers
      /\ tx'[r].enters = tx[r].enters \cup out.enters
  BY <1>5 DEF Written
<1>7. /\ v \notin tx[r].defers
      /\ \A s \in FlushStates : <<v, s>> \notin tx[r].marks
  BY DEF TodoInv
<1>8. TxInv'
  <2>1. \A x \in SiblingRows : /\ tx'[x].open => status'[x] = "handled"
                               /\ ~tx'[x].open => tx'[x] = NoTx
    BY <1>2, <1>3, <1>5, <1>6 DEF TxInv
  <2>2. \A x \in SiblingRows : tx'[x].todo \subseteq tx[x].todo
    BY <1>5, <1>6
  <2> QED
    BY <2>1, <2>2, RowTypes DEF TxInv
<1>9. AttachInv'
  BY <1>2 DEF AttachInv
<1>10. TodoInv'
  <2>1. SUFFICES ASSUME NEW x \in SiblingRows, NEW w \in tx'[x].todo
                 PROVE  /\ w \notin tx'[x].defers
                        /\ \A s \in FlushStates : <<w, s>> \notin tx'[x].marks
    BY DEF TodoInv
  <2>2. CASE x # r
    BY <1>5, <2>2 DEF TodoInv
  <2>3. CASE x = r
    <3>1. w \in tx[r].todo /\ w # v /\ w \in Versions
      BY <1>6, <2>3 DEF TypeOK
    <3> QED
      BY <1>4, <1>6, <2>3, <3>1 DEF TodoInv
  <2> QED
    BY <2>2, <2>3
<1>11. /\ \A x \in SiblingRows, w \in Versions : AllSeen(x, w)' <=> AllSeen(x, w)
       /\ \A x \in SiblingRows, w \in Versions : LastGrounding(x, w)' <=> LastGrounding(x, w)
       /\ \A w \in Versions : ExtractDone(w)' <=> ExtractDone(w)
       /\ \A w \in Versions : NormalizeDone(w)' <=> NormalizeDone(w)
  BY <1>2 DEF AllSeen, ExtractReady, Sees, AllClaimsOf, ChunksOf, LastGrounding, ExtractDone,
              NormalizeDone, Done
<1>12. MarkInv'
  <2>1. SUFFICES ASSUME NEW x \in SiblingRows, NEW w \in Versions, NEW s \in FlushStates,
                        <<w, s>> \in tx'[x].marks
                 PROVE  /\ AllSeen(x, w) /\ w \notin tx'[x].defers
                        /\ w \in waiting => w \in tx'[x].enters
    BY <1>2, <1>11 DEF MarkInv
  <2>2. CASE x # r
    BY <1>5, <2>1, <2>2 DEF MarkInv
  <2>3. CASE x = r /\ <<w, s>> \in out.marks
    BY <1>4, <1>6, <1>7, <2>3
  <2>4. CASE x = r /\ <<w, s>> \in tx[r].marks
    BY <1>4, <1>6, <1>7, <2>4 DEF MarkInv
  <2> QED
    BY <1>6, <2>1, <2>2, <2>3, <2>4
<1>13. DeferInv'
  <2>1. SUFFICES ASSUME NEW x \in SiblingRows, NEW w \in Versions,
                        w \in tx'[x].defers \/ Entry(w) \in tx'[x].inserts
                 PROVE  LastGrounding(x, w) /\ configured
    BY <1>2, <1>11 DEF DeferInv
  <2>2. CASE x # r
    BY <1>5, <2>1, <2>2 DEF DeferInv
  <2>3. CASE x = r
    BY <1>4, <1>6, <2>1, <2>3 DEF DeferInv
  <2> QED
    BY <2>2, <2>3
<1>14. EntryInv' /\ FlushCoversTheVersion'
  BY <1>2, <1>11 DEF EntryInv, FlushCoversTheVersion
<1> QED
  BY <1>8, <1>9, <1>10, <1>12, <1>13, <1>14

(* What a transaction commits still holds: what it saw completed stays so, and no
   other transaction can have recorded a gap in between. *)
LEMMA CommitStep ==
  ASSUME BarrierAssumption, FlushInv, TypeOK', NEW r \in SiblingRows, Commit(r),
         \A x \in Rows : status[x] = "succeeded" => status'[x] = "succeeded"
  PROVE  FlushInv'
<1> USE DEF FlushInv
<1>1. /\ tx[r].open /\ tx' = [tx EXCEPT ![r] = NoTx]
      /\ status' = [x \in Rows |->
                      IF x = r THEN "succeeded"
                      ELSE IF x \in tx[r].inserts /\ status[x] = "absent" THEN "pending"
                      ELSE status[x]]
      /\ waiting' = (waiting \cup tx[r].defers) \ tx[r].enters
      /\ \A v \in Versions : flushState'[v] = flushState[v]
                               \/ \E s \in FlushStates : <<v, s>> \in tx[r].marks
      /\ UNCHANGED <<configured, attached>>
  BY DEF Commit
<1>2. status[r] = "handled" /\ status'[r] = "succeeded" /\ r \in Rows
  BY <1>1, RowTypes DEF TxInv
<1>3. tx'[r] = NoTx /\ \A x \in SiblingRows \ {r} : tx'[x] = tx[x]
  BY <1>1 DEF TypeOK
<1>4. /\ NoTx.marks = {} /\ NoTx.defers = {} /\ NoTx.inserts = {} /\ NoTx.todo = {}
      /\ ~NoTx.open
  BY DEF NoTx
<1>5. TxInv'
  <2>1. \A x \in SiblingRows : /\ tx'[x].open => status'[x] = "handled"
                               /\ ~tx'[x].open => tx'[x] = NoTx
    BY <1>1, <1>3, <1>4, RowTypes DEF TxInv, TypeOK
  <2>2. \A x \in SiblingRows : tx'[x].todo \subseteq tx[x].todo
    BY <1>3, <1>4
  <2> QED
    BY <2>1, <2>2, RowTypes DEF TxInv
<1>6. TodoInv'
  BY <1>3, <1>4 DEF TodoInv
<1>7. AttachInv'
  BY <1>1, <1>2, RowTypes DEF AttachInv
<1>8. \A v \in Versions : ExtractReady(r, v) => ExtractDone(v)'
  BY <1>1, <1>2, RowTypes DEF ExtractReady, ExtractDone, Sees, Done, ChunksOf
<1>9. \A v \in Versions : AllSeen(r, v) => ExtractDone(v)' /\ NormalizeDone(v)'
  <2>1. \A v \in Versions : \A c \in AllClaimsOf(v) : Normalize(c) \in Rows
    BY RowTypes DEF AllClaimsOf, ChunksOf, BarrierAssumption
  <2> QED
    BY <1>1, <1>2, <1>8, <2>1
    DEF AllSeen, NormalizeDone, Sees, Done, AllClaimsOf, ChunksOf
<1>10. ASSUME NEW v \in tx[r].defers PROVE v \in Versions /\ ~ExtractDone(v)
  <2>1. v \in Versions
    BY DEF TypeOK
  <2>2. PICK ch \in ChunksOf(v) : r = Grounding(ch)
    BY <2>1 DEF DeferInv, LastGrounding
  <2> QED
    BY <1>2, <2>1, <2>2 DEF ExtractDone, Done
<1>11. MarkInv'
  <2>1. SUFFICES ASSUME NEW x \in SiblingRows, NEW v \in Versions, NEW s \in FlushStates,
                        <<v, s>> \in tx'[x].marks
                 PROVE  /\ AllSeen(x, v)' /\ v \notin tx'[x].defers
                        /\ v \in waiting' => v \in tx'[x].enters
    BY DEF MarkInv
  <2>2. x # r /\ tx'[x] = tx[x]
    BY <1>3, <1>4, <2>1
  <2>3. /\ AllSeen(x, v) /\ v \notin tx[x].defers
        /\ v \in waiting => v \in tx[x].enters
    BY <2>1, <2>2 DEF MarkInv
  <2>4. v \notin tx[r].defers
    <3>1. SUFFICES ASSUME v \in tx[r].defers PROVE FALSE
      OBVIOUS
    <3>2. PICK ch \in ChunksOf(v) : r = Grounding(ch)
      BY <3>1 DEF DeferInv, LastGrounding
    <3> QED
      BY <1>2, <2>2, <2>3, <3>2 DEF AllSeen, ExtractReady, Sees
  <2> QED
    BY <1>1, <2>2, <2>3, <2>4, Monotone
<1>12. DeferInv'
  BY <1>1, <1>3, <1>4, Monotone DEF DeferInv
<1>13. EntryInv'
  <2>1. SUFFICES ASSUME NEW v \in Versions
                 PROVE  /\ status'[Entry(v)] # "absent" \/ v \in waiting' => ExtractDone(v)'
                        /\ v \in waiting' => configured'
    BY DEF EntryInv
  <2>2. ASSUME v \in tx[r].defers \/ Entry(v) \in tx[r].inserts
        PROVE  ExtractDone(v)' /\ configured'
    BY <1>1, <1>8, <2>2 DEF DeferInv, LastGrounding
  <2>3. status'[Entry(v)] # "absent" =>
          status[Entry(v)] # "absent" \/ Entry(v) \in tx[r].inserts
    BY <1>1, <1>2, RowTypes
  <2> QED
    BY <1>1, <2>2, <2>3, Monotone DEF EntryInv
<1>14. FlushCoversTheVersion'
  <2>1. SUFFICES ASSUME NEW v \in Versions, flushState'[v] # "none"
                 PROVE  ExtractDone(v)' /\ NormalizeDone(v)' /\ v \notin waiting'
    BY DEF FlushCoversTheVersion
  <2>2. CASE flushState[v] # "none"
    BY <1>1, <1>10, <2>2, Monotone DEF FlushCoversTheVersion
  <2>3. CASE \E s \in FlushStates : <<v, s>> \in tx[r].marks
    BY <1>1, <1>9, <2>3 DEF MarkInv
  <2> QED
    BY <1>1, <2>1, <2>2, <2>3
<1> QED
  BY <1>5, <1>6, <1>7, <1>11, <1>12, <1>13, <1>14

-----------------------------------------------------------------------------
(* The invariant holds in every reachable state *)

LEMMA InvInit ==
  ASSUME BarrierAssumption, Init
  PROVE  FlushInv
<1> USE DEF Init
<1>1. \A x \in Rows : status[x] \in {"pending", "absent"}
  OBVIOUS
<1>2. \A x \in Rows : x \notin SelectionRows => status[x] = "absent"
  OBVIOUS
<1>3. /\ \A ch \in Chunks : status[Grounding(ch)] = "absent"
      /\ \A v \in Versions : status[Entry(v)] = "absent"
  <2>1. \A ch \in Chunks : Grounding(ch) \in Rows /\ Grounding(ch) \notin SelectionRows
    BY RowTypes, Distinct DEF SelectionRows
  <2>2. \A v \in Versions : Entry(v) \in Rows /\ Entry(v) \notin SelectionRows
    BY RowTypes, Distinct DEF SelectionRows
  <2> QED
    BY <1>2, <2>1, <2>2
<1>4. /\ NoTx.marks = {} /\ NoTx.defers = {} /\ NoTx.inserts = {} /\ NoTx.todo = {}
      /\ ~NoTx.open
  BY DEF NoTx
<1>5. \A r \in SiblingRows : tx[r] = NoTx
  OBVIOUS
<1>6. TypeOK
  <2>1. status \in [Rows -> Statuses]
    BY DEF Statuses
  <2>2. NoTx \in [open : BOOLEAN, locks : SUBSET Versions, todo : SUBSET Versions,
                  inserts : SUBSET Rows, marks : SUBSET (Versions \X FlushStates),
                  defers : SUBSET Versions, enters : SUBSET Versions]
    BY DEF NoTx
  <2>3. configured \in BOOLEAN /\ aborts \in 0..MaxAborts
    BY DEF BarrierAssumption
  <2>4. flushState \in [Versions -> FlushStates]
    BY DEF FlushStates
  <2> QED
    BY <2>1, <2>2, <2>3, <2>4 DEF TypeOK
<1>7. TxInv
  BY <1>4, <1>5, RowTypes DEF TxInv
<1>8. TodoInv /\ MarkInv /\ DeferInv
  BY <1>4, <1>5 DEF TodoInv, MarkInv, DeferInv
<1>9. AttachInv /\ EntryInv /\ FlushCoversTheVersion
  BY <1>3 DEF AttachInv, EntryInv, FlushCoversTheVersion
<1> QED
  BY <1>6, <1>7, <1>8, <1>9 DEF FlushInv

LEMMA InvStep ==
  ASSUME BarrierAssumption, FlushInv, [Next]_vars
  PROVE  FlushInv'
<1>1. TypeOK' /\ \A x \in Rows : status[x] = "succeeded" => status'[x] = "succeeded"
  BY TypeStep, SuccessStays
<1>2. CASE \E r \in SiblingRows : Handle(r)
  BY <1>1, <1>2, HandleStep
<1>3. CASE \E r \in SiblingRows : Begin(r)
  BY <1>1, <1>3, BeginStep
<1>4. CASE \E r \in SiblingRows : TakeLock(r)
  BY <1>1, <1>4, TakeLockStep
<1>5. CASE \E r \in SiblingRows : Evaluate(r)
  BY <1>1, <1>5, EvaluateStep
<1>6. CASE \E r \in SiblingRows : Commit(r)
  BY <1>1, <1>6, CommitStep
<1>7. CASE \E r \in SiblingRows : Abort(r)
  BY <1>1, <1>7, AbortStep
<1>8. CASE UNCHANGED vars
  <2>1. UNCHANGED <<configured, waiting, flushState, status, attached, tx>>
    BY <1>8 DEF vars
  <2>2. TxInv' /\ AttachInv'
    BY <2>1 DEF FlushInv, TxInv, AttachInv
  <2>3. TodoInv' /\ MarkInv' /\ DeferInv' /\ EntryInv' /\ FlushCoversTheVersion'
    BY <1>1, <2>1, QuietStep
  <2> QED
    BY <1>1, <2>2, <2>3 DEF FlushInv
<1> QED
  BY <1>2, <1>3, <1>4, <1>5, <1>6, <1>7, <1>8 DEF Next

(* What open transactions have written, and what they saw when they wrote *)
(* it, in every reachable state.                                          *)
THEOREM Invariance == Spec => []FlushInv
<1>1. Init => FlushInv
  BY BarrierAssumption, InvInit
<1>2. FlushInv /\ [Next]_vars => FlushInv'
  BY BarrierAssumption, InvStep
<1> QED
  BY <1>1, <1>2, PTL DEF Spec

(* Rows, marks, locks and uncommitted writes keep their types.            *)
THEOREM TypeCorrect == Spec => []TypeOK
<1>1. FlushInv => TypeOK
  BY DEF FlushInv
<1> QED
  BY <1>1, Invariance, PTL

(* complete_claim_normalize: however claims are shared between versions   *)
(* and however completions interleave, observations of a version are      *)
(* flushed only after all of its chunks are grounded and all of its       *)
(* claims normalised, and never in a version held back from facts.        *)
THEOREM FlushStandsOnTheWholeVersion == Spec => []FlushCoversTheVersion
<1>1. FlushInv => FlushCoversTheVersion
  BY DEF FlushInv
<1> QED
  BY <1>1, Invariance, PTL

-----------------------------------------------------------------------------
(* Supersession.  A version is marked by one open transaction at a time, and the
   mark fits the state it will replace, so that nobody takes a completed version
   back to materialized. *)

AllApplied(v) == \A c \in AllClaimsOf(v) : \A e \in subjects[c] : <<c, e>> \in applied

MarksAlone ==
  \A r, x \in SiblingRows, v \in Versions, s, t \in FlushStates :
    <<v, s>> \in tx[r].marks /\ <<v, t>> \in tx[x].marks => r = x /\ s = t

Follows(s, old) ==
  IF s = "barrier_complete" THEN old \in {"materialized", "barrier_complete"}
  ELSE s \in {"materialized", "empty_complete"} /\ old = "none"

MarksFollow ==
  \A r \in SiblingRows, v \in Versions, s \in FlushStates :
    <<v, s>> \in tx[r].marks => Follows(s, flushState[v])

Finished == {"empty_complete", "barrier_complete"}

FinishesInv ==
  \A r \in SiblingRows, v \in Versions :
    Supersession(v) \in tx[r].inserts =>
      /\ \E s \in Finished : <<v, s>> \in tx[r].marks
      /\ AllApplied(v)

FinishedInv ==
  \A v \in Versions :
    status[Supersession(v)] # "absent" => flushState[v] \in Finished /\ AllApplied(v)

SupInv == FlushInv /\ MarksAlone /\ MarksFollow /\ FinishesInv /\ FinishedInv

LEMMA FanoutMarks ==
  ASSUME NEW v \in Versions, NEW r \in SiblingRows,
         NEW out, out.marks = FlushFanout(v).marks,
         out.rows \subseteq FlushFanout(v).rows \cup {Normalize(c) : c \in ClaimsOf(v)}
  PROVE  /\ \A s : <<v, s>> \in out.marks =>
                out.marks = {<<v, s>>} /\ Follows(s, flushState[v])
         /\ \A w : Supersession(w) \in out.rows =>
                w = v /\ <<v, "empty_complete">> \in out.marks /\ EntitiesOf(v) = {}
<1>1. CASE flushState[v] # "none"
  <2>1. FlushFanout(v).marks = {} /\ FlushFanout(v).rows = {}
    BY <1>1 DEF FlushFanout, Nothing
  <2> QED
    BY <2>1, Distinct
<1>2. CASE flushState[v] = "none" /\ EntitiesOf(v) = {}
  <2>1. FlushFanout(v).marks = {<<v, "empty_complete">>}
        /\ FlushFanout(v).rows = {Supersession(v)}
    BY <1>2 DEF FlushFanout, Nothing
  <2> QED
    BY <1>2, <2>1, Distinct DEF Follows
<1>3. CASE flushState[v] = "none" /\ EntitiesOf(v) # {}
  <2>1. FlushFanout(v).marks = {<<v, "materialized">>}
        /\ FlushFanout(v).rows = {Flush(v, e) : e \in EntitiesOf(v)}
    BY <1>3 DEF FlushFanout, Nothing
  <2> QED
    BY <1>3, <2>1, Distinct DEF Follows
<1> QED
  BY <1>1, <1>2, <1>3

(* NormalizeFanout marks what FlushFanout marks, or nothing. *)
LEMMA NormalizeFanoutMarks ==
  ASSUME NEW v \in Versions, NEW r \in SiblingRows,
         NEW out, out.marks = NormalizeFanout(r, v).marks, out.rows = NormalizeFanout(r, v).rows
  PROVE  /\ \A s : <<v, s>> \in out.marks =>
                out.marks = {<<v, s>>} /\ Follows(s, flushState[v])
         /\ \A w : Supersession(w) \in out.rows =>
                w = v /\ <<v, "empty_complete">> \in out.marks /\ EntitiesOf(v) = {}
<1>1. CASE NormalizeReady(r, v)
  <2>1. NormalizeFanout(r, v) =
          [FlushFanout(v) EXCEPT !.rows = @ \cup {Normalize(c) : c \in ClaimsOf(v)}]
    BY <1>1 DEF NormalizeFanout
  <2>2. FlushFanout(v) \in [rows : {FlushFanout(v).rows}, marks : {FlushFanout(v).marks},
                            defers : {{}}, enters : {{}}]
    BY DEF FlushFanout, Nothing
  <2>3. /\ NormalizeFanout(r, v).marks = FlushFanout(v).marks
        /\ NormalizeFanout(r, v).rows
             = FlushFanout(v).rows \cup {Normalize(c) : c \in ClaimsOf(v)}
    BY <2>1, <2>2
  <2> QED
    BY <2>3, FanoutMarks
<1>2. CASE ~NormalizeReady(r, v)
  <2>1. NormalizeFanout(r, v) = [rows |-> {Normalize(c) : c \in ClaimsOf(v)},
                                 marks |-> {}, defers |-> {}, enters |-> {}]
    BY <1>2 DEF NormalizeFanout, Nothing
  <2> QED
    BY <2>1, Distinct
<1> QED
  BY <1>1, <1>2

LEMMA OutcomeMarks ==
  ASSUME BarrierAssumption, FlushInv, NEW r \in SiblingRows, tx[r].open,
         NEW v \in tx[r].todo, NEW out \in Outcomes(r, v)
  PROVE  /\ \A s \in FlushStates : <<v, s>> \in out.marks =>
                out.marks = {<<v, s>>} /\ Follows(s, flushState[v])
         /\ \A w \in Versions : Supersession(w) \in out.rows =>
                /\ w = v /\ AllApplied(v)
                /\ \E s \in Finished : <<v, s>> \in out.marks
<1> USE DEF FlushInv
<1> DEFINE Goal ==
      /\ \A s \in FlushStates : <<v, s>> \in out.marks =>
           out.marks = {<<v, s>>} /\ Follows(s, flushState[v])
      /\ \A w \in Versions : Supersession(w) \in out.rows =>
           /\ w = v /\ AllApplied(v)
           /\ \E s \in Finished : <<v, s>> \in out.marks
<1> SUFFICES Goal
  OBVIOUS
<1>1. v \in Versions /\ status[r] = "handled"
  BY DEF TypeOK, TxInv
<1>2. \A s \in FlushStates : <<v, s>> \in out.marks => AllSeen(r, v)
  BY <1>1, OutcomeFacts
<1>3. ASSUME EntitiesOf(v) = {}, <<v, "empty_complete">> \in out.marks PROVE AllApplied(v)
  <2>1. AllSeen(r, v)
    BY <1>2, <1>3 DEF FlushStates
  <2>2. ClaimsOf(v) = AllClaimsOf(v)
    BY <1>1, <2>1, AllAttached DEF AllSeen
  <2> QED
    BY <1>3, <2>2 DEF EntitiesOf, AllApplied
<1>4. ASSUME /\ \A s : <<v, s>> \in out.marks =>
                   out.marks = {<<v, s>>} /\ Follows(s, flushState[v])
             /\ \A w : Supersession(w) \in out.rows =>
                   w = v /\ <<v, "empty_complete">> \in out.marks /\ EntitiesOf(v) = {}
      PROVE  Goal
  BY <1>3, <1>4 DEF Finished
<1>5. CASE \E ch \in Chunks : r = Selection(ch)
  <2>1. out \in {Nothing, [rows |-> {Grounding(ch) : ch \in ChunksOf(v)},
                           marks |-> {}, defers |-> {}, enters |-> {}]}
    BY <1>5, OutcomesOf DEF SelectionBarrier, Nothing
  <2>2. out.marks = {} /\ \A w : Supersession(w) \notin out.rows
    BY <2>1, Distinct DEF Nothing
  <2> QED
    BY <2>2
<1>6. CASE \E ch \in Chunks : r = Grounding(ch)
  <2>1. out \in ExtractBarrier(r, v)
    BY <1>6, OutcomesOf
  <2>2. out \in {Nothing, NormalizeFanout(r, v),
                 [Nothing EXCEPT !.rows = {Entry(v)}, !.defers = {v}]}
    BY <2>1 DEF ExtractBarrier
  <2>3. CASE out = NormalizeFanout(r, v)
    BY <1>1, <1>4, <2>3, NormalizeFanoutMarks
  <2>4. CASE out = [Nothing EXCEPT !.rows = {Entry(v)}, !.defers = {v}]
    <3>1. out = [rows |-> {Entry(v)}, marks |-> {}, defers |-> {v}, enters |-> {}]
      BY <2>4 DEF Nothing
    <3> QED
      BY <3>1, Distinct
  <2>5. CASE out = Nothing
    BY <2>5 DEF Nothing
  <2> QED
    BY <2>2, <2>3, <2>4, <2>5
<1>7. CASE \E c \in Claims : r = Normalize(c)
  <2>1. out = FlushFanout(v) \/ out = Nothing
    BY <1>7, OutcomesOf DEF NormalizeBarrier
  <2>2. CASE out = FlushFanout(v)
    BY <1>1, <1>4, <2>2, FanoutMarks
  <2>3. CASE out = Nothing
    BY <2>3 DEF Nothing
  <2> QED
    BY <2>1, <2>2, <2>3
<1>8. CASE \E w \in Versions : r = Entry(w)
  <2>1. out = [NormalizeFanout(r, v) EXCEPT !.enters = {v}]
    BY <1>8, OutcomesOf DEF EnterFacts
  <2>2. NormalizeFanout(r, v) \in Outs
    BY <1>1, FanoutTypes
  <2>3. out.marks = NormalizeFanout(r, v).marks /\ out.rows = NormalizeFanout(r, v).rows
    BY <2>1, <2>2 DEF Outs
  <2> QED
    BY <1>1, <1>4, <2>3, NormalizeFanoutMarks
<1>9. CASE \E w \in Versions, e \in Entities : r = Flush(w, e)
  <2>1. out \in FlushBarrier(r, v)
    BY <1>9, OutcomesOf
  <2>2. CASE out = Nothing
    BY <2>2 DEF Nothing
  <2>3. CASE /\ FlushReady(r, v) /\ flushState[v] \in {"materialized", "barrier_complete"}
             /\ out = [rows |-> {Supersession(v)}, marks |-> {<<v, "barrier_complete">>},
                       defers |-> {}, enters |-> {}]
    <3> HIDE DEF Goal
    <3>1. ExtractDone(v)
      BY <1>1, <2>3 DEF FlushCoversTheVersion
    <3>2. ClaimsOf(v) = AllClaimsOf(v)
      BY <1>1, <3>1, AllAttached DEF ExtractReady, Sees, ExtractDone, Done
    <3>3. Applications(v) \subseteq applied
      BY <2>3 DEF FlushReady
    <3>4. AllApplied(v)
      <4>1. SUFFICES ASSUME NEW c \in ClaimsOf(v), NEW e \in subjects[c]
                     PROVE  <<c, e>> \in applied
        BY <3>2 DEF AllApplied
      <4>2. c \in Claims
        BY <1>1, FanoutTypes
      <4>3. e \in Entities
        BY <4>2 DEF TypeOK, BarrierAssumption
      <4>4. <<c, e>> \in Applications(v)
        BY <4>3 DEF Applications
      <4> QED
        BY <3>3, <4>4
    <3>5. out.rows = {Supersession(v)} /\ out.marks = {<<v, "barrier_complete">>}
      BY <2>3
    <3> QED
      BY <2>3, <3>4, <3>5, Distinct DEF Finished, Follows, Goal
  <2> QED
    BY <2>1, <2>2, <2>3 DEF FlushBarrier, Nothing
<1> QED
  BY <1>5, <1>6, <1>7, <1>8, <1>9, RowKinds

LEMMA SupersessionRows ==
  \A v \in Versions : Supersession(v) \in Rows \ SiblingRows
<1>1. ASSUME NEW v \in Versions, Supersession(v) \in SiblingRows PROVE FALSE
  BY <1>1, RowKinds, Distinct
<1> QED
  BY <1>1, RowTypes

(* Steps that write nothing for a version. *)
LEMMA SupQuiet ==
  ASSUME BarrierAssumption, SupInv, FlushInv', UNCHANGED <<flushState, subjects>>,
         applied \subseteq applied',
         \A v \in Versions : status'[Supersession(v)] = status[Supersession(v)],
         \A r \in SiblingRows :
           \/ tx'[r].marks = tx[r].marks /\ tx'[r].inserts = tx[r].inserts
           \/ tx'[r].marks = {} /\ tx'[r].inserts = {}
  PROVE  SupInv'
<1> USE DEF SupInv
<1>1. \A v \in Versions : AllApplied(v) => AllApplied(v)'
  BY DEF AllApplied, AllClaimsOf, ChunksOf
<1>2. MarksAlone'
  BY DEF MarksAlone
<1>3. MarksFollow'
  BY DEF MarksFollow, Follows
<1>4. FinishesInv'
  BY <1>1 DEF FinishesInv
<1>5. FinishedInv'
  BY <1>1 DEF FinishedInv
<1> QED
  BY <1>2, <1>3, <1>4, <1>5

LEMMA SupEvaluate ==
  ASSUME BarrierAssumption, SupInv, FlushInv', NEW r \in SiblingRows, Evaluate(r)
  PROVE  SupInv'
<1> USE DEF SupInv
<1>0. PICK v \in tx[r].todo : \E out \in Outcomes(r, v) :
        Unblocked(r, out) /\ tx' = [tx EXCEPT ![r] = Written(tx[r], v, out)]
  BY DEF Evaluate
<1>1. PICK out \in Outcomes(r, v) :
        Unblocked(r, out) /\ tx' = [tx EXCEPT ![r] = Written(tx[r], v, out)]
  BY <1>0
<1>2. UNCHANGED <<flushState, status, applied, subjects>>
  BY DEF Evaluate
<1>3. tx[r].open /\ v \in Versions
  BY EvaluateEffect
<1>4. /\ out \in Outs
      /\ \A w \in Versions, s \in FlushStates : <<w, s>> \in out.marks => w = v
  BY <1>3, OutcomeFacts
<1>5. /\ \A s \in FlushStates : <<v, s>> \in out.marks =>
           out.marks = {<<v, s>>} /\ Follows(s, flushState[v])
      /\ \A w \in Versions : Supersession(w) \in out.rows =>
           /\ w = v /\ AllApplied(v)
           /\ \E s \in Finished : <<v, s>> \in out.marks
  BY <1>3, OutcomeMarks
<1>6. /\ \A x \in SiblingRows \ {r} : tx'[x] = tx[x]
      /\ tx'[r] = Written(tx[r], v, out)
  BY <1>1 DEF TypeOK, FlushInv
<1>7. /\ tx'[r].marks = tx[r].marks \cup out.marks
      /\ tx'[r].inserts = tx[r].inserts \cup out.rows
  BY <1>6 DEF Written
<1>8. \A s \in FlushStates : <<v, s>> \notin tx[r].marks
  BY DEF TodoInv, FlushInv
<1>9. ASSUME NEW x \in SiblingRows \ {r}, NEW s \in FlushStates, NEW t \in FlushStates,
             <<v, s>> \in tx[x].marks, <<v, t>> \in out.marks
      PROVE  FALSE
  <2>1. x \in OpenTx \ {r}
    BY <1>9 DEF OpenTx, FlushInv, TxInv, NoTx
  <2>2. <<v, s>>[1] # <<v, t>>[1]
    BY <1>1, <1>9, <2>1 DEF Unblocked
  <2> QED
    BY <2>2
<1>10. MarksAlone'
  <2>1. SUFFICES ASSUME NEW x \in SiblingRows, NEW y \in SiblingRows, NEW w \in Versions,
                        NEW s \in FlushStates, NEW t \in FlushStates,
                        <<w, s>> \in tx'[x].marks, <<w, t>> \in tx'[y].marks
                 PROVE  x = y /\ s = t
    BY DEF MarksAlone
  <2>2. CASE <<w, s>> \in tx[x].marks /\ <<w, t>> \in tx[y].marks
    BY <2>2 DEF MarksAlone
  <2>3. CASE x = r /\ <<w, s>> \in out.marks
    <3>1. w = v /\ out.marks = {<<v, s>>}
      BY <1>4, <1>5, <2>3
    <3>2. y = r
      BY <1>6, <1>9, <2>1, <2>3, <3>1
    <3>3. <<w, t>> \in out.marks
      BY <1>7, <1>8, <2>1, <3>1, <3>2
    <3> QED
      BY <2>3, <3>1, <3>2, <3>3
  <2>4. CASE y = r /\ <<w, t>> \in out.marks
    <3>1. w = v /\ out.marks = {<<v, t>>}
      BY <1>4, <1>5, <2>4
    <3>2. x = r
      BY <1>6, <1>9, <2>1, <2>4, <3>1
    <3>3. <<w, s>> \in out.marks
      BY <1>7, <1>8, <2>1, <3>1, <3>2
    <3> QED
      BY <2>4, <3>1, <3>2, <3>3
  <2> QED
    BY <1>6, <1>7, <2>1, <2>2, <2>3, <2>4
<1>11. MarksFollow'
  <2>1. SUFFICES ASSUME NEW x \in SiblingRows, NEW w \in Versions, NEW s \in FlushStates,
                        <<w, s>> \in tx'[x].marks
                 PROVE  Follows(s, flushState[w])
    BY <1>2 DEF MarksFollow, Follows
  <2>2. CASE <<w, s>> \in tx[x].marks
    BY <2>2 DEF MarksFollow
  <2>3. CASE <<w, s>> \in out.marks
    BY <1>4, <1>5, <2>3
  <2> QED
    BY <1>6, <1>7, <2>1, <2>2, <2>3
<1>12. \A w \in Versions : AllApplied(w)' <=> AllApplied(w)
  BY <1>2 DEF AllApplied, AllClaimsOf, ChunksOf
<1>13. FinishesInv'
  <2>1. SUFFICES ASSUME NEW x \in SiblingRows, NEW w \in Versions,
                        Supersession(w) \in tx'[x].inserts
                 PROVE  (\E s \in Finished : <<w, s>> \in tx'[x].marks) /\ AllApplied(w)
    BY <1>12 DEF FinishesInv
  <2>2. CASE Supersession(w) \in tx[x].inserts
    <3>1. tx[x].marks \subseteq tx'[x].marks
      BY <1>6, <1>7
    <3> QED
      BY <2>2, <3>1 DEF FinishesInv
  <2>3. CASE x = r /\ Supersession(w) \in out.rows
    BY <1>5, <1>7, <2>3
  <2> QED
    BY <1>6, <1>7, <2>1, <2>2, <2>3
<1>14. FinishedInv'
  BY <1>2, <1>12 DEF FinishedInv
<1> QED
  BY <1>10, <1>11, <1>13, <1>14

LEMMA SupCommit ==
  ASSUME BarrierAssumption, SupInv, FlushInv', NEW r \in SiblingRows, Commit(r)
  PROVE  SupInv'
<1> USE DEF SupInv
<1>1. /\ tx' = [tx EXCEPT ![r] = NoTx]
      /\ status' = [x \in Rows |->
                      IF x = r THEN "succeeded"
                      ELSE IF x \in tx[r].inserts /\ status[x] = "absent" THEN "pending"
                      ELSE status[x]]
      /\ UNCHANGED <<applied, subjects>>
  BY DEF Commit
<1>2. tx'[r] = NoTx /\ \A x \in SiblingRows \ {r} : tx'[x] = tx[x]
  BY <1>1 DEF TypeOK, FlushInv
<1>3. NoTx.marks = {} /\ NoTx.inserts = {}
  BY DEF NoTx
<1>4. ASSUME NEW v \in Versions
      PROVE  \/ /\ flushState'[v] = flushState[v]
                /\ \A s \in FlushStates : <<v, s>> \notin tx[r].marks
             \/ flushState'[v] \in FlushStates /\ <<v, flushState'[v]>> \in tx[r].marks
  BY DEF Commit
<1>5. \A v \in Versions : AllApplied(v)' <=> AllApplied(v)
  BY <1>1 DEF AllApplied, AllClaimsOf, ChunksOf
<1>6. MarksAlone'
  BY <1>2, <1>3 DEF MarksAlone
<1>7. MarksFollow'
  <2>1. SUFFICES ASSUME NEW x \in SiblingRows, NEW v \in Versions, NEW s \in FlushStates,
                        <<v, s>> \in tx'[x].marks
                 PROVE  Follows(s, flushState'[v])
    BY DEF MarksFollow, Follows
  <2>2. x # r /\ <<v, s>> \in tx[x].marks
    BY <1>2, <1>3, <2>1
  <2>3. flushState'[v] = flushState[v]
    BY <1>4, <2>2 DEF MarksAlone
  <2> QED
    BY <2>2, <2>3 DEF MarksFollow
<1>8. FinishesInv'
  BY <1>2, <1>3, <1>5 DEF FinishesInv
<1>9. FinishedInv'
  <2>1. SUFFICES ASSUME NEW v \in Versions, status'[Supersession(v)] # "absent"
                 PROVE  flushState'[v] \in Finished /\ AllApplied(v)
    BY <1>5 DEF FinishedInv
  <2>2. Supersession(v) \in Rows /\ Supersession(v) # r
    BY SupersessionRows
  <2>3. status[Supersession(v)] # "absent" \/ Supersession(v) \in tx[r].inserts
    BY <1>1, <2>1, <2>2
  <2>4. CASE Supersession(v) \in tx[r].inserts
    <3>1. PICK s \in Finished : <<v, s>> \in tx[r].marks
      BY <2>4 DEF FinishesInv
    <3>2. s \in FlushStates
      BY DEF Finished, FlushStates
    <3>3. flushState'[v] = s
      BY <1>4, <3>1, <3>2 DEF MarksAlone
    <3> QED
      BY <2>4, <3>3 DEF FinishesInv
  <2>5. CASE status[Supersession(v)] # "absent"
    <3>1. flushState[v] \in Finished /\ AllApplied(v)
      BY <2>5 DEF FinishedInv
    <3>2. CASE flushState'[v] = flushState[v]
      BY <3>1, <3>2
    <3>3. CASE flushState'[v] \in FlushStates /\ <<v, flushState'[v]>> \in tx[r].marks
      <4>1. Follows(flushState'[v], flushState[v])
        BY <3>3 DEF MarksFollow
      <4> QED
        BY <3>1, <4>1 DEF Follows, Finished
    <3> QED
      BY <1>4, <3>2, <3>3
  <2> QED
    BY <2>3, <2>4, <2>5
<1> QED
  BY <1>6, <1>7, <1>8, <1>9

LEMMA SupStep ==
  ASSUME BarrierAssumption, SupInv, [Next]_vars
  PROVE  SupInv'
<1>1. FlushInv' /\ FlushInv
  BY InvStep DEF SupInv
<1>2. ASSUME NEW r \in SiblingRows, Handle(r) PROVE SupInv'
  <2>1. \A v \in Versions : status'[Supersession(v)] = status[Supersession(v)]
    BY <1>1, <1>2, SupersessionRows DEF Handle, FlushInv, TypeOK
  <2>2. applied \subseteq applied' /\ UNCHANGED <<flushState, subjects, tx>>
    BY <1>2 DEF Handle
  <2> QED
    BY <1>1, <2>1, <2>2, SupQuiet
<1>3. ASSUME NEW r \in SiblingRows, Begin(r) PROVE SupInv'
  <2>1. /\ UNCHANGED <<flushState, subjects, status, applied>>
        /\ ~tx[r].open
        /\ tx' = [tx EXCEPT ![r] = [NoTx EXCEPT !.open = TRUE, !.locks = LocksFor(r),
                                               !.todo = Candidates(r)]]
    BY <1>3 DEF Begin
  <2>2. tx'[r].marks = {} /\ tx'[r].inserts = {} /\ \A x \in SiblingRows \ {r} : tx'[x] = tx[x]
    BY <1>1, <2>1 DEF FlushInv, TypeOK, NoTx
  <2> QED
    BY <1>1, <2>1, <2>2, SupQuiet
<1>4. ASSUME NEW r \in SiblingRows, TakeLock(r) PROVE SupInv'
  <2>1. PICK v \in Versions : tx' = [tx EXCEPT ![r].locks = @ \ {v}]
    BY <1>4 DEF TakeLock
  <2>2. UNCHANGED <<flushState, subjects, status, applied>>
    BY <1>4 DEF TakeLock
  <2>3. \A x \in SiblingRows : tx'[x].marks = tx[x].marks /\ tx'[x].inserts = tx[x].inserts
    BY <1>1, <2>1 DEF FlushInv, TypeOK
  <2> QED
    BY <1>1, <2>2, <2>3, SupQuiet
<1>5. ASSUME NEW r \in SiblingRows, Evaluate(r) PROVE SupInv'
  BY <1>1, <1>5, SupEvaluate
<1>6. ASSUME NEW r \in SiblingRows, Commit(r) PROVE SupInv'
  BY <1>1, <1>6, SupCommit
<1>7. ASSUME NEW r \in SiblingRows, Abort(r) PROVE SupInv'
  <2>1. \A v \in Versions : status'[Supersession(v)] = status[Supersession(v)]
    BY <1>1, <1>7, SupersessionRows DEF Abort, FlushInv, TypeOK
  <2>2. UNCHANGED <<flushState, subjects, applied>> /\ tx' = [tx EXCEPT ![r] = NoTx]
    BY <1>7 DEF Abort
  <2>3. tx'[r].marks = {} /\ tx'[r].inserts = {} /\ \A x \in SiblingRows \ {r} : tx'[x] = tx[x]
    BY <1>1, <2>2 DEF FlushInv, TypeOK, NoTx
  <2> QED
    BY <1>1, <2>1, <2>2, <2>3, SupQuiet
<1>8. CASE UNCHANGED vars
  BY <1>1, <1>8, SupQuiet DEF vars
<1> QED
  BY <1>2, <1>3, <1>4, <1>5, <1>6, <1>7, <1>8 DEF Next

(* complete_entity_obs_flush: whichever units drained them and in whatever *)
(* order transactions commit, a version is handed to supersession only in  *)
(* a final flush state and with every fact its claims state applied; it is *)
(* never taken back to materialized.                                       *)
THEOREM SupersessionStandsOnTheFacts == Spec => []SupersessionAfterFacts
<1>1. Init => SupInv
  <2>1. Init => FlushInv
    BY BarrierAssumption, InvInit
  <2>2. Init => \A r \in SiblingRows : tx[r].marks = {} /\ tx[r].inserts = {}
    BY DEF Init, NoTx
  <2>3. Init => \A v \in Versions : status[Supersession(v)] = "absent"
    <3>1. \A v \in Versions : Supersession(v) \in Rows \ SelectionRows
      BY SupersessionRows DEF SiblingRows
    <3> QED
      BY <3>1 DEF Init
  <2> QED
    BY <2>1, <2>2, <2>3 DEF SupInv, MarksAlone, MarksFollow, FinishesInv, FinishedInv
<1>2. SupInv /\ [Next]_vars => SupInv'
  BY BarrierAssumption, SupStep
<1>3. SupInv => SupersessionAfterFacts
  BY DEF SupInv, FinishedInv, SupersessionAfterFacts, AllApplied, AllClaimsOf, Finished
<1> QED
  BY <1>1, <1>2, <1>3, PTL DEF Spec

-----------------------------------------------------------------------------
(* The order of the locks *)

HolderInv ==
  \A l \in Locks, r \in SiblingRows :
    holder[l] = r => tx[r].open /\ \A v \in tx[r].locks : l[2] < v

LEMMA NobodyIsNoRow ==
  ASSUME NEW r \in SiblingRows
  PROVE  r # NoHolder
BY RowKinds DEF Selection, Grounding, Normalize, Flush, Entry, NoHolder

LEMMA HolderStep ==
  ASSUME BarrierAssumption, FlushInv, HolderInv, [Next]_vars
  PROVE  HolderInv'
<1> USE DEF HolderInv
<1>1. TypeOK
  BY DEF FlushInv
<1>2. ASSUME NEW q \in SiblingRows, Handle(q) PROVE HolderInv'
  BY <1>2 DEF Handle
<1>3. ASSUME NEW q \in SiblingRows, Begin(q) PROVE HolderInv'
  <2>1. UNCHANGED holder /\ ~tx[q].open
    BY <1>3 DEF Begin
  <2>2. \A x \in SiblingRows \ {q} : tx'[x] = tx[x]
    BY <1>1, <1>3 DEF Begin, TypeOK
  <2> QED
    BY <2>1, <2>2
<1>4. ASSUME NEW q \in SiblingRows, TakeLock(q) PROVE HolderInv'
  <2>1. PICK v \in Versions : /\ tx[q].open /\ NextLock(q, v)
                              /\ holder' = [holder EXCEPT ![<<LockClass(q), v>>] = q]
                              /\ tx' = [tx EXCEPT ![q].locks = @ \ {v}]
    BY <1>4 DEF TakeLock
  <2>2. /\ \A x \in SiblingRows \ {q} : tx'[x] = tx[x]
        /\ tx'[q] = [tx[q] EXCEPT !.locks = @ \ {v}]
    BY <1>1, <2>1 DEF TypeOK
  <2>3. tx'[q].open = tx[q].open /\ tx'[q].locks = tx[q].locks \ {v}
    BY <1>1, <2>2 DEF TypeOK
  <2>4. \A w \in tx'[q].locks : v < w
    <3>1. SUFFICES ASSUME NEW w \in tx[q].locks, w # v PROVE v < w
      BY <2>3
    <3>2. w \in Versions
      BY <1>1 DEF TypeOK
    <3>3. v \in Nat /\ w \in Nat
      BY <3>2 DEF BarrierAssumption
    <3>4. v <= w
      BY <2>1 DEF NextLock
    <3> QED
      BY <3>1, <3>3, <3>4
  <2>5. SUFFICES ASSUME NEW l \in Locks, NEW r \in SiblingRows, holder'[l] = r
                 PROVE  tx'[r].open /\ \A w \in tx'[r].locks : l[2] < w
    OBVIOUS
  <2>6. CASE l = <<LockClass(q), v>>
    <3>1. r = q
      BY <1>1, <2>1, <2>5, <2>6 DEF TypeOK
    <3> QED
      BY <2>1, <2>3, <2>4, <2>6, <3>1
  <2>7. CASE l # <<LockClass(q), v>>
    <3>1. holder[l] = r
      BY <1>1, <2>1, <2>5, <2>7 DEF TypeOK
    <3> QED
      BY <2>2, <2>3, <3>1
  <2> QED
    BY <2>6, <2>7
<1>5. ASSUME NEW q \in SiblingRows, Evaluate(q) PROVE HolderInv'
  <2>1. UNCHANGED holder
    BY <1>5 DEF Evaluate
  <2>2. \A x \in SiblingRows : tx'[x].open = tx[x].open /\ tx'[x].locks = tx[x].locks
    <3>0. PICK v \in tx[q].todo : \E out \in Outcomes(q, v) :
            tx' = [tx EXCEPT ![q] = Written(tx[q], v, out)]
      BY <1>5 DEF Evaluate
    <3>1. PICK out \in Outcomes(q, v) : tx' = [tx EXCEPT ![q] = Written(tx[q], v, out)]
      BY <3>0
    <3> QED
      BY <1>1, <3>1 DEF TypeOK, Written
  <2> QED
    BY <2>1, <2>2
<1>6. ASSUME NEW q \in SiblingRows, Commit(q) \/ Abort(q) PROVE HolderInv'
  <2>1. holder' = Release(q) /\ tx' = [tx EXCEPT ![q] = NoTx]
    BY <1>6 DEF Commit, Abort
  <2>2. \A l \in Locks, r \in SiblingRows : holder'[l] = r => r # q /\ holder[l] = r
    BY <2>1, NobodyIsNoRow DEF Release
  <2> QED
    BY <1>1, <2>1, <2>2 DEF TypeOK
<1>7. CASE UNCHANGED vars
  BY <1>7 DEF vars
<1> QED
  BY <1>2, <1>3, <1>4, <1>5, <1>6, <1>7 DEF Next

(* A completion waits only for a completion that itself waits further up. *)
WaitsAscend ==
  \A x, y \in SiblingRows, v, w \in Versions :
    NextLock(x, v) /\ holder[<<LockClass(x), v>>] = y /\ NextLock(y, w) => v < w

(* complete_claim_normalize, sorted(by_rep): along any chain of waiting    *)
(* completions the awaited representation increases, so the chain has no   *)
(* circle, whatever the number of versions a claim is shared by.           *)
THEOREM LockWaitsAscend == Spec => []WaitsAscend
<1>1. Init => HolderInv
  BY NobodyIsNoRow DEF Init, HolderInv
<1>2. FlushInv /\ HolderInv /\ [Next]_vars => HolderInv'
  BY BarrierAssumption, HolderStep
<1>3. HolderInv => WaitsAscend
  <2>1. \A x \in SiblingRows : LockClass(x) \in {"d84", "d88"}
    BY DEF LockClass
  <2> QED
    BY <2>1 DEF HolderInv, WaitsAscend, NextLock, Locks
<1> QED
  BY <1>1, <1>2, <1>3, Invariance, PTL DEF Spec

(* Whoever waits for the highest representation waits for nobody who waits. *)
LEMMA NoCircle == ASSUME BarrierAssumption, WaitsAscend PROVE NoWaitCycle
<1> SUFFICES ASSUME NEW S \in SUBSET {x \in OpenTx : Blocked(x)}, S # {}
             PROVE  \E x \in S : \A y \in S : ~WaitsFor(x, y)
  BY DEF NoWaitCycle
<1> DEFINE above(x) == {v \in Versions : \A w \in Versions : NextLock(x, w) => w < v}
           size(x) == Cardinality(above(x))
           room == {size(x) : x \in S}
<1>1. \A x \in S : x \in SiblingRows /\ \E v \in Versions : NextLock(x, v)
  BY DEF OpenTx, Blocked
<1>2. \A x \in S : IsFiniteSet(above(x)) /\ size(x) \in Nat
  BY FS_Subset, FS_CardinalityType DEF BarrierAssumption
<1>3. \A x, y \in S : above(y) \subseteq above(x) =>
        size(y) <= size(x) /\ (size(y) = size(x) => above(y) = above(x))
  BY <1>2, FS_Subset
<1> HIDE DEF size, above
<1>4. PICK n \in room : \A m \in room : n <= m
  <2>1. room \in SUBSET Nat /\ room # {}
    BY <1>2
  <2> HIDE DEF room
  <2> QED
    BY <2>1, LeastNatural
<1>5. PICK x \in S : n = size(x)
  BY <1>4
<1>6. ASSUME NEW y \in S, WaitsFor(x, y) PROVE FALSE
  <2>1. PICK v \in Versions : NextLock(x, v) /\ holder[<<LockClass(x), v>>] = y
    BY <1>6 DEF WaitsFor
  <2>2. PICK w \in Versions : NextLock(y, w)
    BY <1>1
  <2>3. v < w
    BY <1>1, <2>1, <2>2 DEF WaitsAscend
  <2>4. \A u \in Versions : NextLock(x, u) => u = v
    BY <2>1 DEF NextLock, BarrierAssumption
  <2>5. above(y) \subseteq above(x) /\ w \in above(x) /\ w \notin above(y)
    <3>1. \A u \in Versions : u \in Nat
      BY DEF BarrierAssumption
    <3> USE DEF above
    <3>2. ASSUME NEW u \in above(y) PROVE u \in above(x)
      <4>1. w < u
        BY <2>2, <3>2
      <4> QED
        BY <2>3, <2>4, <3>1, <4>1
    <3>3. w \in above(x)
      BY <2>3, <2>4
    <3>4. w \notin above(y)
      BY <2>2, <3>1
    <3> QED
      BY <3>2, <3>3, <3>4
  <2>6. size(y) # size(x) /\ size(y) <= size(x)
    BY <1>3, <2>5
  <2>7. size(x) <= size(y)
    BY <1>4, <1>5
  <2>8. size(x) \in Nat /\ size(y) \in Nat
    BY <1>2
  <2> QED
    BY <2>6, <2>7, <2>8
<1> QED
  BY <1>6

(* For any versions and claims they share, completions that wait for each  *)
(* other's locks never wait in a circle.                                   *)
THEOREM NoCircularWaits == Spec => []NoWaitCycle
<1>1. WaitsAscend => NoWaitCycle
  BY NoCircle, BarrierAssumption
<1> QED
  BY <1>1, LockWaitsAscend, PTL

-----------------------------------------------------------------------------
(* No barrier is missed.  What a completion left undone because it did not see
   it completed is still not completed when it commits: whoever could complete it
   either waits for the same lock, or has its version still to evaluate (and will
   see it), or the version is in raced. *)

(* What is left as it was by a step that commits nothing and writes nothing; a
   transaction that begins has passed only versions that are no candidates. *)
SameWrites(x) ==
  /\ tx'[x].inserts = tx[x].inserts /\ tx'[x].marks = tx[x].marks
  /\ tx'[x].defers = tx[x].defers /\ tx'[x].enters = tx[x].enters

SameRows ==
  \A x \in Rows : (Done(x)' <=> Done(x)) /\ (status'[x] = "absent" <=> status[x] = "absent")

Quiet ==
  /\ UNCHANGED <<subjects, configured, waiting, flushState, raced>>
  /\ SameRows
  /\ \A x \in SiblingRows :
       /\ \/ SameWrites(x)
          \/ tx'[x].inserts = {} /\ tx'[x].marks = {} /\ tx'[x].enters = {}
       /\ \A w \in Versions : Passed(x, w)' =>
            (Passed(x, w) /\ SameWrites(x)) \/ (~tx[x].open /\ w \notin Candidates(x))

(* r evaluates v and writes out. *)
Wrote(r, v, out) ==
  /\ tx[r].open /\ tx[r].locks = {} /\ v \in Versions
  /\ UNCHANGED <<subjects, configured, waiting, status, attached, applied, flushState, holder>>
  /\ raced' = IF Races(r, v) THEN raced \cup {v} ELSE raced
  /\ \A x \in SiblingRows \ {r} : tx'[x] = tx[x]
  /\ tx'[r].open /\ tx'[r].locks = {}
  /\ tx'[r].todo = tx[r].todo \ {v}
  /\ tx'[r].inserts = tx[r].inserts \cup out.rows
  /\ tx'[r].marks = tx[r].marks \cup out.marks
  /\ tx'[r].defers = tx[r].defers \cup out.defers
  /\ tx'[r].enters = tx[r].enters \cup out.enters

(* r commits. *)
Commits(r) ==
  /\ tx[r].open /\ tx[r].todo = {} /\ status[r] = "handled"
  /\ UNCHANGED <<subjects, configured, attached, applied, raced>>
  /\ \A x \in SiblingRows \ {r} : tx'[x] = tx[x]
  /\ ~tx'[r].open /\ tx'[r].inserts = {} /\ tx'[r].marks = {} /\ tx'[r].enters = {}
  /\ \A x \in Rows : Done(x)' <=> x = r \/ Done(x)
  /\ \A x \in Rows : status'[x] # "absent" <=> status[x] # "absent" \/ x \in tx[r].inserts
  /\ \A x \in Rows : status'[x] \in {"handled", "succeeded"} <=>
       status[x] \in {"handled", "succeeded"}
  /\ \A v \in Versions :
       \/ flushState'[v] = flushState[v] /\ \A s \in FlushStates : <<v, s>> \notin tx[r].marks
       \/ flushState'[v] \in FlushStates /\ <<v, flushState'[v]>> \in tx[r].marks
  /\ waiting' = (waiting \cup tx[r].defers) \ tx[r].enters

LEMMA QuietSteps ==
  ASSUME BarrierAssumption, FlushInv, NEW r \in SiblingRows,
         Handle(r) \/ Begin(r) \/ TakeLock(r) \/ Abort(r)
  PROVE  Quiet
<1> USE DEF FlushInv
<1>1. CASE Handle(r)
  <2>1. SameRows
    BY <1>1, RowTypes DEF Handle, TypeOK, SameRows, Done
  <2>2. UNCHANGED <<subjects, configured, waiting, flushState, raced, tx>>
    BY <1>1 DEF Handle
  <2> QED
    BY <2>1, <2>2 DEF Quiet, SameWrites, Passed, OpenTx
<1>2. CASE Begin(r)
  <2>1. /\ UNCHANGED <<subjects, configured, waiting, flushState, raced, status>> /\ ~tx[r].open
        /\ tx' = [tx EXCEPT ![r] = [NoTx EXCEPT !.open = TRUE, !.locks = LocksFor(r),
                                               !.todo = Candidates(r)]]
    BY <1>2 DEF Begin
  <2>2. SameRows
    BY <2>1 DEF SameRows, Done
  <2>3. /\ \A x \in SiblingRows \ {r} : tx'[x] = tx[x]
        /\ tx'[r] = [NoTx EXCEPT !.open = TRUE, !.locks = LocksFor(r), !.todo = Candidates(r)]
    BY <2>1 DEF TypeOK
  <2>4. /\ tx'[r].todo = Candidates(r)
        /\ tx'[r].inserts = {} /\ tx'[r].marks = {} /\ tx'[r].enters = {}
    BY <2>3 DEF NoTx
  <2>5. ASSUME NEW x \in SiblingRows, NEW w \in Versions, Passed(x, w)'
        PROVE  (Passed(x, w) /\ SameWrites(x)) \/ (~tx[x].open /\ w \notin Candidates(x))
    BY <2>1, <2>3, <2>4, <2>5 DEF SameWrites, Passed, OpenTx
  <2> QED
    BY <2>1, <2>2, <2>3, <2>4, <2>5 DEF Quiet, SameWrites
<1>3. CASE TakeLock(r)
  <2>1. PICK v \in Versions : tx[r].open /\ tx' = [tx EXCEPT ![r].locks = @ \ {v}]
    BY <1>3 DEF TakeLock
  <2>2. UNCHANGED <<subjects, configured, waiting, flushState, raced, status>>
    BY <1>3 DEF TakeLock
  <2>3. SameRows
    BY <2>2 DEF SameRows, Done
  <2>4. /\ \A x \in SiblingRows \ {r} : tx'[x] = tx[x]
        /\ tx'[r] = [tx[r] EXCEPT !.locks = @ \ {v}]
    BY <2>1 DEF TypeOK
  <2>5. SameWrites(r) /\ tx'[r].todo = tx[r].todo /\ tx'[r].open = tx[r].open
    BY <2>4 DEF TypeOK, SameWrites
  <2>6. ASSUME NEW x \in SiblingRows
        PROVE  SameWrites(x) /\ \A w \in Versions : Passed(x, w)' => Passed(x, w)
    BY <2>4, <2>5 DEF SameWrites, Passed, OpenTx
  <2> QED
    BY <2>2, <2>3, <2>6 DEF Quiet, SameWrites
<1>4. CASE Abort(r)
  <2>1. /\ UNCHANGED <<subjects, configured, waiting, flushState, raced>>
        /\ status' = [status EXCEPT ![r] = "pending"] /\ tx' = [tx EXCEPT ![r] = NoTx]
        /\ tx[r].open
    BY <1>4 DEF Abort
  <2>2. status[r] = "handled"
    BY <2>1 DEF TxInv
  <2>3. SameRows
    BY <2>1, <2>2, RowTypes DEF TypeOK, SameRows, Done
  <2>4. tx'[r] = NoTx /\ \A x \in SiblingRows \ {r} : tx'[x] = tx[x]
    BY <2>1 DEF TypeOK
  <2>5. ~tx'[r].open /\ tx'[r].inserts = {} /\ tx'[r].marks = {} /\ tx'[r].enters = {}
    BY <2>4 DEF NoTx
  <2>6. ASSUME NEW x \in SiblingRows, NEW w \in Versions, Passed(x, w)'
        PROVE  Passed(x, w) /\ SameWrites(x)
    BY <2>4, <2>5, <2>6 DEF SameWrites, Passed, OpenTx
  <2> QED
    BY <2>1, <2>3, <2>4, <2>5, <2>6 DEF Quiet, SameWrites
<1> QED
  BY <1>1, <1>2, <1>3, <1>4

LEMMA QuietStutter == ASSUME UNCHANGED vars PROVE Quiet
BY DEF vars, Quiet, SameRows, SameWrites, Done, Passed, OpenTx

LEMMA Evaluated ==
  ASSUME BarrierAssumption, FlushInv, NEW r \in SiblingRows, Evaluate(r)
  PROVE  \E v \in tx[r].todo : \E out \in Outcomes(r, v) : Unblocked(r, out) /\ Wrote(r, v, out)
<1>0. PICK v \in tx[r].todo : \E out \in Outcomes(r, v) :
        /\ ~Waiting(r) /\ Unblocked(r, out)
        /\ tx' = [tx EXCEPT ![r] = Written(tx[r], v, out)]
        /\ raced' = IF Races(r, v) THEN raced \cup {v} ELSE raced
  BY DEF Evaluate
<1>1. PICK out \in Outcomes(r, v) :
        /\ ~Waiting(r) /\ Unblocked(r, out)
        /\ tx' = [tx EXCEPT ![r] = Written(tx[r], v, out)]
        /\ raced' = IF Races(r, v) THEN raced \cup {v} ELSE raced
  BY <1>0
<1>2. tx[r].open /\ v \in Versions
  BY EvaluateEffect
<1>3. UNCHANGED <<subjects, configured, waiting, status, attached, applied, flushState, holder>>
  BY DEF Evaluate
<1>4. /\ \A x \in SiblingRows \ {r} : tx'[x] = tx[x]
      /\ tx'[r] = Written(tx[r], v, out)
  BY <1>1 DEF FlushInv, TypeOK
<1>5. Wrote(r, v, out)
  BY <1>1, <1>2, <1>3, <1>4 DEF Wrote, Written, Waiting
<1> QED
  BY <1>1, <1>5

LEMMA Committed ==
  ASSUME BarrierAssumption, FlushInv, NEW r \in SiblingRows, Commit(r)
  PROVE  Commits(r)
<1>1. /\ tx[r].open /\ tx[r].todo = {} /\ tx' = [tx EXCEPT ![r] = NoTx]
      /\ status' = [x \in Rows |->
                      IF x = r THEN "succeeded"
                      ELSE IF x \in tx[r].inserts /\ status[x] = "absent" THEN "pending"
                      ELSE status[x]]
      /\ waiting' = (waiting \cup tx[r].defers) \ tx[r].enters
      /\ UNCHANGED <<subjects, configured, attached, applied, raced>>
  BY DEF Commit
<1>2. status[r] = "handled" /\ r \in Rows
  BY <1>1, RowTypes DEF FlushInv, TxInv
<1>3. tx'[r] = NoTx /\ \A x \in SiblingRows \ {r} : tx'[x] = tx[x]
  BY <1>1 DEF FlushInv, TypeOK
<1>4. ~tx'[r].open /\ tx'[r].inserts = {} /\ tx'[r].marks = {} /\ tx'[r].enters = {}
  BY <1>3 DEF NoTx
<1>5. ASSUME NEW x \in Rows
      PROVE  /\ Done(x)' <=> x = r \/ Done(x)
             /\ status'[x] # "absent" <=> status[x] # "absent" \/ x \in tx[r].inserts
             /\ status'[x] \in {"handled", "succeeded"} <=>
                  status[x] \in {"handled", "succeeded"}
  BY <1>1, <1>2 DEF Done
<1>6. \A v \in Versions :
       \/ flushState'[v] = flushState[v] /\ \A s \in FlushStates : <<v, s>> \notin tx[r].marks
       \/ flushState'[v] \in FlushStates /\ <<v, flushState'[v]>> \in tx[r].marks
  BY DEF Commit
<1> QED
  BY <1>1, <1>2, <1>3, <1>4, <1>5, <1>6 DEF Commits

(* A completion holds, or has still to take, the lock of its own version, and that
   of any version it has still to evaluate. *)
LockedOn(r, v) ==
  tx[r].open => v \in tx[r].locks \/ holder[<<LockClass(r), v>>] = r

Owners(v) == {Selection(ch) : ch \in ChunksOf(v)} \cup {Grounding(ch) : ch \in ChunksOf(v)}
               \cup {Flush(v, e) : e \in Entities}

LockInv ==
  /\ \A r \in SiblingRows : tx[r].locks \subseteq tx[r].todo
  /\ \A v \in Versions : \A r \in Owners(v) : LockedOn(r, v)
  /\ \A r \in SiblingRows : \A v \in tx[r].todo : r[1] # "enter" => LockedOn(r, v)

LEMMA LockedStays ==
  ASSUME BarrierAssumption, FlushInv, [Next]_vars, NEW r \in SiblingRows, NEW v \in Versions,
         \/ tx[r].open /\ LockedOn(r, v)
         \/ ~tx[r].open /\ v \in Candidates(r) /\ r[1] # "enter"
  PROVE  LockedOn(r, v)'
<1>0. TypeOK /\ r # NoHolder /\ <<LockClass(r), v>> \in Locks
  BY NobodyIsNoRow DEF FlushInv, Locks, LockClass
<1>1. ASSUME NEW q \in SiblingRows, Handle(q) PROVE LockedOn(r, v)'
  BY <1>1 DEF Handle, LockedOn
<1>2. ASSUME NEW q \in SiblingRows, Begin(q) PROVE LockedOn(r, v)'
  <2>1. /\ UNCHANGED holder /\ ~tx[q].open
        /\ tx' = [tx EXCEPT ![q] = [NoTx EXCEPT !.open = TRUE, !.locks = LocksFor(q),
                                               !.todo = Candidates(q)]]
    BY <1>2 DEF Begin
  <2>2. CASE q = r
    <3>1. tx'[r] = [NoTx EXCEPT !.open = TRUE, !.locks = LocksFor(r), !.todo = Candidates(r)]
      BY <1>0, <2>1, <2>2 DEF TypeOK
    <3>2. tx'[r].locks = LocksFor(r)
      BY <3>1 DEF NoTx
    <3> QED
      BY <2>1, <2>2, <3>2 DEF LockedOn, LocksFor
  <2>3. CASE q # r
    BY <1>0, <2>1, <2>3 DEF LockedOn, TypeOK, NoTx, FlushInv, TxInv
  <2> QED
    BY <2>2, <2>3
<1>3. ASSUME NEW q \in SiblingRows, TakeLock(q) PROVE LockedOn(r, v)'
  <2>1. PICK w \in Versions : /\ tx[q].open /\ holder[<<LockClass(q), w>>] = NoHolder
                              /\ holder' = [holder EXCEPT ![<<LockClass(q), w>>] = q]
                              /\ tx' = [tx EXCEPT ![q].locks = @ \ {w}]
    BY <1>3 DEF TakeLock
  <2>2. /\ \A x \in SiblingRows \ {q} : tx'[x] = tx[x]
        /\ tx'[q] = [tx[q] EXCEPT !.locks = @ \ {w}]
    BY <1>0, <2>1 DEF TypeOK
  <2>3. tx'[q].open = tx[q].open /\ tx'[q].locks = tx[q].locks \ {w}
    BY <1>0, <2>2 DEF TypeOK
  <2>4. <<LockClass(q), w>> \in Locks
    BY DEF Locks, LockClass
  <2>5. holder[<<LockClass(r), v>>] = r => holder'[<<LockClass(r), v>>] = r
    BY <1>0, <2>1, <2>4 DEF TypeOK
  <2>6. CASE q = r /\ w = v
    BY <1>0, <2>1, <2>6 DEF LockedOn, TypeOK
  <2>7. CASE ~(q = r /\ w = v)
    <3>1. /\ tx'[r].open = tx[r].open
          /\ v \in tx[r].locks => v \in tx'[r].locks
      BY <2>2, <2>3, <2>7
    <3> QED
      BY <2>5, <3>1 DEF LockedOn
  <2> QED
    BY <2>6, <2>7
<1>4. ASSUME NEW q \in SiblingRows, Evaluate(q) PROVE LockedOn(r, v)'
  <2>1. PICK w \in tx[q].todo : \E out \in Outcomes(q, w) : Wrote(q, w, out)
    BY <1>4, Evaluated
  <2>2. PICK out \in Outcomes(q, w) : Wrote(q, w, out)
    BY <2>1
  <2>3. UNCHANGED holder /\ tx'[r].open = tx[r].open /\ tx'[r].locks = tx[r].locks
    BY <2>2 DEF Wrote
  <2> QED
    BY <2>3 DEF LockedOn
<1>5. ASSUME NEW q \in SiblingRows, Commit(q) \/ Abort(q) PROVE LockedOn(r, v)'
  <2>1. holder' = Release(q) /\ tx' = [tx EXCEPT ![q] = NoTx] /\ ~NoTx.open
    BY <1>5 DEF Commit, Abort, NoTx
  <2>2. CASE q = r
    BY <1>0, <2>1, <2>2 DEF LockedOn, TypeOK
  <2>3. CASE q # r
    BY <1>0, <2>1, <2>3 DEF LockedOn, TypeOK, Release
  <2> QED
    BY <2>2, <2>3
<1>6. CASE UNCHANGED vars
  BY <1>6 DEF vars, LockedOn
<1> QED
  BY <1>1, <1>2, <1>3, <1>4, <1>5, <1>6 DEF Next

(* What a transaction has to evaluate it had before, or it begins. *)
LEMMA TodoFrom ==
  ASSUME BarrierAssumption, FlushInv, [Next]_vars, NEW r \in SiblingRows,
         tx[r].locks \subseteq tx[r].todo
  PROVE  /\ tx'[r].locks \subseteq tx'[r].todo
         /\ \A w \in tx'[r].todo :
              \/ tx[r].open /\ w \in tx[r].todo
              \/ ~tx[r].open /\ w \in Candidates(r)
<1> DEFINE Goal == /\ tx'[r].locks \subseteq tx'[r].todo
                   /\ \A w \in tx'[r].todo :
                        \/ tx[r].open /\ w \in tx[r].todo
                        \/ ~tx[r].open /\ w \in Candidates(r)
<1> SUFFICES Goal
  OBVIOUS
<1>0. TypeOK /\ (~tx[r].open => tx[r].todo = {})
  BY DEF FlushInv, TxInv, NoTx
<1>1. ASSUME tx'[r] = tx[r] PROVE Goal
  BY <1>0, <1>1
<1>2. ASSUME NEW q \in SiblingRows, Begin(q) PROVE Goal
  <2>1. CASE q = r
    <3>1. ~tx[r].open
      BY <1>2, <2>1 DEF Begin
    <3>2. tx'[r] = [NoTx EXCEPT !.open = TRUE, !.locks = LocksFor(r), !.todo = Candidates(r)]
      BY <1>0, <1>2, <2>1 DEF Begin, TypeOK
    <3>3. tx'[r].locks = LocksFor(r) /\ tx'[r].todo = Candidates(r)
      BY <3>2 DEF NoTx
    <3> QED
      BY <3>1, <3>3 DEF LocksFor
  <2>2. CASE q # r
    BY <1>0, <1>1, <1>2, <2>2 DEF Begin, TypeOK
  <2> QED
    BY <2>1, <2>2
<1>3. ASSUME NEW q \in SiblingRows, TakeLock(q) PROVE Goal
  <2>1. PICK w \in Versions : tx' = [tx EXCEPT ![q].locks = @ \ {w}]
    BY <1>3 DEF TakeLock
  <2>2. tx'[r].todo = tx[r].todo /\ tx'[r].locks \subseteq tx[r].locks
    BY <1>0, <2>1 DEF TypeOK
  <2> QED
    BY <1>0, <2>2
<1>4. ASSUME NEW q \in SiblingRows, Evaluate(q) PROVE Goal
  <2>1. PICK w \in tx[q].todo : \E out \in Outcomes(q, w) : Wrote(q, w, out)
    BY <1>4, Evaluated
  <2>2. PICK out \in Outcomes(q, w) : Wrote(q, w, out)
    BY <2>1
  <2>3. tx'[r] = tx[r] \/ (tx'[r].locks = {} /\ tx'[r].todo \subseteq tx[r].todo)
    BY <2>2 DEF Wrote
  <2> QED
    BY <1>0, <2>3
<1>5. ASSUME NEW q \in SiblingRows, Commit(q) \/ Abort(q) PROVE Goal
  <2>1. tx' = [tx EXCEPT ![q] = NoTx] /\ NoTx.todo = {} /\ NoTx.locks = {}
    BY <1>5 DEF Commit, Abort, NoTx
  <2>2. tx'[r] = IF q = r THEN NoTx ELSE tx[r]
    BY <1>0, <2>1 DEF TypeOK
  <2> QED
    BY <1>1, <2>1, <2>2
<1>6. ASSUME NEW q \in SiblingRows, Handle(q) PROVE Goal
  BY <1>1, <1>6 DEF Handle
<1>7. CASE UNCHANGED vars
  BY <1>1, <1>7 DEF vars
<1> QED
  BY <1>2, <1>3, <1>4, <1>5, <1>6, <1>7 DEF Next

LEMMA OwnersOf ==
  ASSUME BarrierAssumption, NEW v \in Versions, NEW r \in Owners(v)
  PROVE  r \in SiblingRows /\ v \in Candidates(r) /\ r[1] # "enter"
<1>1. CASE \E ch \in ChunksOf(v) : r = Selection(ch) \/ r = Grounding(ch)
  <2>1. PICK ch \in Chunks : VersionOf[ch] = v /\ (r = Selection(ch) \/ r = Grounding(ch))
    BY <1>1 DEF ChunksOf
  <2>2. r \in SiblingRows /\ v \in Candidates(r)
    BY <2>1, CandidatesOf, RowTypes
  <2>3. r[1] # "enter"
    BY <2>1 DEF Selection, Grounding
  <2> QED
    BY <2>2, <2>3
<1>2. CASE \E e \in Entities : r = Flush(v, e)
  BY <1>2, CandidatesOf, RowTypes DEF Flush
<1> QED
  BY <1>1, <1>2 DEF Owners

LEMMA LockStep ==
  ASSUME BarrierAssumption, FlushInv, LockInv, [Next]_vars
  PROVE  LockInv'
<1>1. \A r \in SiblingRows : tx'[r].locks \subseteq tx'[r].todo
  BY TodoFrom DEF LockInv
<1>2. ASSUME NEW v \in Versions, NEW r \in Owners(v) PROVE LockedOn(r, v)'
  <2>1. LockedOn(r, v)
    BY DEF LockInv
  <2> QED
    BY <2>1, OwnersOf, LockedStays
<1>3. ASSUME NEW r \in SiblingRows, NEW v \in tx'[r].todo, r[1] # "enter"
      PROVE  LockedOn(r, v)'
  <2>1. \/ tx[r].open /\ v \in tx[r].todo
        \/ ~tx[r].open /\ v \in Candidates(r)
    BY TodoFrom DEF LockInv
  <2>2. v \in Versions
    BY <2>1, CandidatesOf DEF FlushInv, TypeOK
  <2>3. tx[r].open => LockedOn(r, v)
    BY <1>3, <2>1 DEF LockInv
  <2> QED
    BY <1>3, <2>1, <2>2, <2>3, LockedStays
<1>4. \A v \in Versions : Owners(v)' = Owners(v)
  BY DEF Owners, ChunksOf
<1> QED
  BY <1>1, <1>2, <1>3, <1>4 DEF LockInv

(* Of the completions that hold one lock of a version, one has passed it. *)
LEMMA OneAtATime ==
  ASSUME LockInv, NEW v \in Versions, NEW r \in SiblingRows, NEW x \in SiblingRows,
         LockedOn(r, v), LockedOn(x, v), LockClass(r) = LockClass(x),
         Passed(r, v), Passed(x, v)
  PROVE  r = x
BY DEF LockInv, LockedOn, Passed, OpenTx

(* The selections of a version, and the rows of its groundings. *)
SelectInv ==
  \A v \in Versions :
    /\ \A ch \in ChunksOf(v) : Passed(Selection(ch), v) =>
         \/ \E d \in ChunksOf(v) \ {ch} : ~Done(Selection(d))
         \/ \A d \in ChunksOf(v) : Grounding(d) \in tx[Selection(ch)].inserts
    /\ SelectionOpened(v)

LEMMA OfChunk ==
  ASSUME BarrierAssumption, NEW v \in Versions, NEW ch \in ChunksOf(v)
  PROVE  /\ Selection(ch) \in SiblingRows /\ Grounding(ch) \in SiblingRows
         /\ Selection(ch) \in Rows /\ Grounding(ch) \in Rows
         /\ Selection(ch) \in Owners(v) /\ Grounding(ch) \in Owners(v)
         /\ v \in Candidates(Selection(ch)) /\ v \in Candidates(Grounding(ch))
         /\ LockClass(Selection(ch)) = "d84" /\ LockClass(Grounding(ch)) = "d84"
<1>1. ch \in Chunks /\ VersionOf[ch] = v
  BY DEF ChunksOf
<1>2. LockClass(Selection(ch)) = "d84" /\ LockClass(Grounding(ch)) = "d84"
  BY DEF LockClass, Selection, Grounding
<1>3. Selection(ch) \in Owners(v) /\ Grounding(ch) \in Owners(v)
  BY DEF Owners
<1> QED
  BY <1>1, <1>2, <1>3, RowTypes, CandidatesOf

LEMMA SelectStep ==
  ASSUME BarrierAssumption, FlushInv, LockInv, SelectInv, [Next]_vars
  PROVE  SelectInv'
<1> USE DEF SelectInv
<1> DEFINE Held(v, ch) ==
      \/ \E d \in ChunksOf(v) \ {ch} : ~Done(Selection(d))
      \/ \A d \in ChunksOf(v) : Grounding(d) \in tx[Selection(ch)].inserts
<1>0. ASSUME NEW v \in Versions PROVE ChunksOf(v)' = ChunksOf(v)
  BY DEF ChunksOf
<1>1. ASSUME Quiet PROVE SelectInv'
  <2>1. SUFFICES ASSUME NEW v \in Versions
                 PROVE  /\ \A ch \in ChunksOf(v) : Passed(Selection(ch), v)' => Held(v, ch)'
                        /\ SelectionOpened(v)'
    BY <1>0
  <2>2. ASSUME NEW ch \in ChunksOf(v), Passed(Selection(ch), v)' PROVE Held(v, ch)'
    <3>1. Passed(Selection(ch), v) /\ SameWrites(Selection(ch))
      BY <1>1, <2>2, OfChunk DEF Quiet
    <3>2. Held(v, ch)
      BY <3>1
    <3> QED
      BY <1>0, <1>1, <3>1, <3>2, OfChunk DEF Quiet, SameRows, SameWrites
  <2>3. SelectionOpened(v)'
    BY <1>0, <1>1, OfChunk DEF Quiet, SameRows, SelectionOpened
  <2> QED
    BY <2>2, <2>3
<1>2. ASSUME NEW r \in SiblingRows, Evaluate(r) PROVE SelectInv'
  <2>1. PICK w \in tx[r].todo : \E out \in Outcomes(r, w) : Wrote(r, w, out)
    BY <1>2, Evaluated
  <2>2. PICK out \in Outcomes(r, w) : Wrote(r, w, out)
    BY <2>1
  <2>3. UNCHANGED status
    BY <2>2 DEF Wrote
  <2>4. SUFFICES ASSUME NEW v \in Versions
                 PROVE  /\ \A ch \in ChunksOf(v) : Passed(Selection(ch), v)' => Held(v, ch)'
                        /\ SelectionOpened(v)'
    BY <1>0
  <2>5. SelectionOpened(v)'
    BY <1>0, <2>3 DEF SelectionOpened, Done
  <2>6. ASSUME NEW ch \in ChunksOf(v), Passed(Selection(ch), v)' PROVE Held(v, ch)'
    <3>1. /\ Selection(ch) \in SiblingRows
          /\ tx[Selection(ch)].inserts \subseteq tx'[Selection(ch)].inserts
      BY <2>2, OfChunk DEF Wrote
    <3>2. CASE Passed(Selection(ch), v)
      <4>1. Held(v, ch)
        BY <3>2
      <4> QED
        BY <1>0, <2>3, <3>1, <4>1 DEF Done
    <3>3. CASE ~Passed(Selection(ch), v)
      <4>1. r = Selection(ch) /\ w = v
        BY <2>2, <2>6, <3>1, <3>3 DEF Wrote, Passed, OpenTx
      <4>2. out \in SelectionBarrier(Selection(ch), v)
        BY <4>1, OutcomesOf
      <4>3. CASE \A d \in ChunksOf(v) : Sees(Selection(ch), Selection(d))
        <5>1. out.rows = {Grounding(d) : d \in ChunksOf(v)}
          BY <4>2, <4>3 DEF SelectionBarrier, Nothing
        <5> QED
          BY <1>0, <2>2, <4>1, <5>1 DEF Wrote
      <4>4. CASE \E d \in ChunksOf(v) : ~Sees(Selection(ch), Selection(d))
        <5>1. PICK d \in ChunksOf(v) : ~Sees(Selection(ch), Selection(d))
          BY <4>4
        <5>2. d # ch /\ ~Done(Selection(d))'
          BY <2>3, <5>1 DEF Sees, Done
        <5> QED
          BY <1>0, <5>1, <5>2
      <4> QED
        BY <4>3, <4>4
    <3> QED
      BY <3>2, <3>3
  <2> QED
    BY <2>5, <2>6
<1>3. ASSUME NEW r \in SiblingRows, Commit(r) PROVE SelectInv'
  <2>1. Commits(r)
    BY <1>3, Committed
  <2>2. SUFFICES ASSUME NEW v \in Versions
                 PROVE  /\ \A ch \in ChunksOf(v) : Passed(Selection(ch), v)' => Held(v, ch)'
                        /\ SelectionOpened(v)'
    BY <1>0
  <2>3. ASSUME NEW ch \in ChunksOf(v), Passed(Selection(ch), v)' PROVE Held(v, ch)'
    <3>1. r # Selection(ch) /\ Passed(Selection(ch), v) /\ tx'[Selection(ch)] = tx[Selection(ch)]
      BY <2>1, <2>3, OfChunk DEF Commits, Passed, OpenTx
    <3>2. \A d \in ChunksOf(v) : r # Selection(d)
      BY <2>1, <3>1, OfChunk, OneAtATime DEF Commits, Passed, OpenTx, LockInv
    <3>3. \A d \in ChunksOf(v) : Done(Selection(d))' <=> Done(Selection(d))
      BY <2>1, <3>2, OfChunk DEF Commits
    <3>4. Held(v, ch)
      BY <3>1
    <3> QED
      BY <1>0, <3>1, <3>3, <3>4
  <2>4. SelectionOpened(v)'
    <3>1. SUFFICES ASSUME \A ch \in ChunksOf(v) : Done(Selection(ch))'
                   PROVE  \A ch \in ChunksOf(v) : status'[Grounding(ch)] # "absent"
      BY <1>0 DEF SelectionOpened
    <3>2. CASE \A ch \in ChunksOf(v) : Done(Selection(ch))
      BY <2>1, <3>2, OfChunk DEF SelectionOpened, Commits
    <3>3. CASE \E ch \in ChunksOf(v) : ~Done(Selection(ch))
      <4>1. PICK ch \in ChunksOf(v) : ~Done(Selection(ch))
        BY <3>3
      <4>2. r = Selection(ch)
        BY <2>1, <3>1, <4>1, OfChunk DEF Commits
      <4>3. Passed(Selection(ch), v)
        BY <2>1, <4>2, OfChunk DEF Commits, Passed, OpenTx
      <4>4. \A d \in ChunksOf(v) \ {ch} : Done(Selection(d))
        <5>1. ASSUME NEW d \in ChunksOf(v) \ {ch} PROVE Selection(d) # r
          BY <4>2 DEF Selection
        <5> QED
          BY <2>1, <3>1, <5>1, OfChunk DEF Commits
      <4>5. \A d \in ChunksOf(v) : Grounding(d) \in tx[r].inserts
        BY <4>2, <4>3, <4>4
      <4> QED
        BY <2>1, <4>5, OfChunk DEF Commits
    <3> QED
      BY <3>2, <3>3
  <2> QED
    BY <2>3, <2>4
<1> QED
  BY <1>1, <1>2, <1>3, QuietSteps, QuietStutter DEF Next

(* What follows the extraction of a version is written by its last grounding, or by
   its entry to facts. *)
AfterExtract(v) == {Grounding(ch) : ch \in ChunksOf(v)} \cup {Entry(v)}
Closes(x, v) == x \in AfterExtract(v) /\ Passed(x, v) /\ ExtractReady(x, v)

ExtractInv ==
  \A v \in Versions :
    /\ \A x \in SiblingRows : Closes(x, v) =>
         \/ x # Entry(v) /\ Entry(v) \in tx[x].inserts
         \/ \A c \in AllClaimsOf(v) : Normalize(c) \in tx[x].inserts
    /\ ExtractOpened(v)


LEMMA AfterExtractOf ==
  ASSUME BarrierAssumption, NEW v \in Versions, NEW x \in AfterExtract(v)
  PROVE  /\ x \in SiblingRows /\ x \in Rows /\ v \in Candidates(x)
         /\ x = Entry(v) \/ \E ch \in ChunksOf(v) : x = Grounding(ch)
<1>1. Entry(v) \in SiblingRows /\ Entry(v) \in Rows /\ v \in Candidates(Entry(v))
  BY RowTypes, CandidatesOf
<1> QED
  BY <1>1, OfChunk DEF AfterExtract

LEMMA FanoutWrites ==
  ASSUME NEW v \in Versions, NEW r \in SiblingRows
  PROVE  /\ \A c \in ClaimsOf(v) : Normalize(c) \in NormalizeFanout(r, v).rows
         /\ NormalizeReady(r, v) =>
              \/ flushState[v] # "none"
              \/ \E s \in FlushStates : <<v, s>> \in NormalizeFanout(r, v).marks
         /\ flushState[v] # "none" \/ \E s \in FlushStates : <<v, s>> \in FlushFanout(v).marks
<1>1. flushState[v] # "none" \/ \E s \in FlushStates : <<v, s>> \in FlushFanout(v).marks
  <2>1. flushState[v] = "none" =>
          FlushFanout(v).marks \in {{<<v, "empty_complete">>}, {<<v, "materialized">>}}
    BY DEF FlushFanout, Nothing
  <2> QED
    BY <2>1 DEF FlushStates
<1>2. CASE NormalizeReady(r, v)
  <2>1. NormalizeFanout(r, v) =
          [FlushFanout(v) EXCEPT !.rows = @ \cup {Normalize(c) : c \in ClaimsOf(v)}]
    BY <1>2 DEF NormalizeFanout
  <2>2. FlushFanout(v) \in [rows : {FlushFanout(v).rows}, marks : {FlushFanout(v).marks},
                            defers : {{}}, enters : {{}}]
    BY DEF FlushFanout, Nothing
  <2>3. /\ NormalizeFanout(r, v).marks = FlushFanout(v).marks
        /\ NormalizeFanout(r, v).rows
             = FlushFanout(v).rows \cup {Normalize(c) : c \in ClaimsOf(v)}
    BY <2>1, <2>2
  <2> QED
    BY <1>1, <2>3
<1>3. CASE ~NormalizeReady(r, v)
  <2>1. NormalizeFanout(r, v).rows = {Normalize(c) : c \in ClaimsOf(v)}
    BY <1>3 DEF NormalizeFanout, Nothing
  <2> QED
    BY <1>1, <1>3, <2>1
<1> QED
  BY <1>2, <1>3

(* What the entry to facts writes. *)
LEMMA EntryWrites ==
  ASSUME BarrierAssumption, TypeOK, NEW v \in Versions, NEW out \in Outcomes(Entry(v), v)
  PROVE  /\ out.rows = NormalizeFanout(Entry(v), v).rows
         /\ out.marks = NormalizeFanout(Entry(v), v).marks
         /\ out.enters = {v}
<1>1. out = [NormalizeFanout(Entry(v), v) EXCEPT !.enters = {v}]
  BY OutcomesOf DEF EnterFacts
<1>2. NormalizeFanout(Entry(v), v) \in Outs
  BY FanoutTypes, RowTypes
<1> QED
  BY <1>1, <1>2 DEF Outs

(* The entry to facts is there only after the extraction. *)
LEMMA EntryAfterExtract ==
  ASSUME FlushInv, NEW v \in Versions, tx[Entry(v)].open
  PROVE  ExtractDone(v) /\ ExtractReady(Entry(v), v)
BY RowTypes DEF FlushInv, TxInv, EntryInv, ExtractDone, ExtractReady, Sees, Done

(* No other transaction's commit makes a completion the last one. *)
LEMMA ClosedBefore ==
  ASSUME BarrierAssumption, FlushInv, LockInv, NEW v \in Versions, NEW x \in SiblingRows,
         NEW r \in SiblingRows, Commits(r), Closes(x, v)'
  PROVE  x # r /\ tx'[x] = tx[x] /\ Closes(x, v)
<1>0. AfterExtract(v)' = AfterExtract(v)
  BY DEF AfterExtract, ChunksOf
<1>1. x # r /\ tx'[x] = tx[x] /\ Passed(x, v)
  BY DEF Commits, Closes, Passed, OpenTx
<1>2. x \in AfterExtract(v)
  BY <1>0 DEF Closes
<1>3. CASE x = Entry(v)
  BY <1>1, <1>2, <1>3, EntryAfterExtract DEF Closes, Passed, OpenTx
<1>4. CASE \E ch \in ChunksOf(v) : x = Grounding(ch)
  <2>1. PICK ch \in ChunksOf(v) : x = Grounding(ch)
    BY <1>4
  <2>2. \A d \in ChunksOf(v) : r # Grounding(d)
    BY <1>1, <2>1, OfChunk, OneAtATime DEF Commits, Passed, OpenTx, LockInv
  <2>3. \A d \in ChunksOf(v) : Done(Grounding(d))' <=> Done(Grounding(d))
    BY <2>2, OfChunk DEF Commits
  <2>4. ExtractReady(x, v)
    BY <2>3 DEF Closes, ExtractReady, Sees, Done, ChunksOf
  <2> QED
    BY <1>1, <1>2, <2>4 DEF Closes
<1> QED
  BY <1>2, <1>3, <1>4, AfterExtractOf

LEMMA ClosedQuietly ==
  ASSUME BarrierAssumption, NEW v \in Versions, NEW x \in SiblingRows, Quiet, Closes(x, v)'
  PROVE  Closes(x, v) /\ SameWrites(x)
<1>0. AfterExtract(v)' = AfterExtract(v) /\ x \in AfterExtract(v)
  BY DEF AfterExtract, ChunksOf, Closes
<1>1. Passed(x, v) /\ SameWrites(x)
  BY <1>0, AfterExtractOf DEF Closes, Quiet
<1>2. \A d \in ChunksOf(v) : Done(Grounding(d))' <=> Done(Grounding(d))
  BY OfChunk DEF Quiet, SameRows
<1>3. ExtractReady(x, v)
  BY <1>2 DEF Closes, ExtractReady, Sees, Done, ChunksOf
<1> QED
  BY <1>0, <1>1, <1>3 DEF Closes

LEMMA ClosedByWriting ==
  ASSUME NEW v \in Versions, NEW x \in SiblingRows, NEW r \in SiblingRows, NEW w, NEW out,
         Wrote(r, w, out), Closes(x, v)', ~Closes(x, v)
  PROVE  x = r /\ v = w /\ x \in AfterExtract(v) /\ ExtractReady(r, v)
BY DEF Closes, AfterExtract, ChunksOf, Wrote, Passed, OpenTx, ExtractReady, Sees

LEMMA ExtractStep ==
  ASSUME BarrierAssumption, FlushInv, LockInv, ExtractInv, [Next]_vars
  PROVE  ExtractInv'
<1> USE DEF ExtractInv
<1> DEFINE Held(v, x) == \/ x # Entry(v) /\ Entry(v) \in tx[x].inserts
                         \/ \A c \in AllClaimsOf(v) : Normalize(c) \in tx[x].inserts
<1>0. ASSUME NEW v \in Versions
      PROVE  /\ ChunksOf(v)' = ChunksOf(v) /\ AllClaimsOf(v)' = AllClaimsOf(v)
             /\ \A c \in AllClaimsOf(v) : Normalize(c) \in Rows
             /\ Entry(v) \in Rows /\ Entry(v) \in SiblingRows
             /\ \A ch \in ChunksOf(v) : Grounding(ch) \in Rows
  BY RowTypes, OfChunk DEF ChunksOf, AllClaimsOf, BarrierAssumption
<1>1. /\ \A x \in Rows : status[x] \in {"pending", "handled"} <=>
                           status[x] # "absent" /\ ~Done(x)
      /\ \A x \in Rows : status'[x] \in {"pending", "handled"} <=>
                           status'[x] # "absent" /\ ~Done(x)'
  BY InvStep DEF FlushInv, TypeOK, Statuses, Done
<1>2. ASSUME Quiet PROVE ExtractInv'
  <2>1. ASSUME NEW v \in Versions, NEW x \in SiblingRows, Closes(x, v)' PROVE Held(v, x)'
    <3>1. Closes(x, v) /\ SameWrites(x)
      BY <1>2, <2>1, ClosedQuietly
    <3>2. Held(v, x)
      BY <3>1
    <3> QED
      BY <1>0, <3>1, <3>2 DEF SameWrites
  <2>2. ASSUME NEW v \in Versions PROVE ExtractOpened(v)'
    BY <1>0, <1>1, <1>2 DEF Quiet, SameRows, ExtractOpened, ExtractDone
  <2> QED
    BY <2>1, <2>2
<1>3. ASSUME NEW r \in SiblingRows, Evaluate(r) PROVE ExtractInv'
  <2>1. PICK w \in tx[r].todo : \E out \in Outcomes(r, w) : Wrote(r, w, out)
    BY <1>3, Evaluated
  <2>2. PICK out \in Outcomes(r, w) : Wrote(r, w, out)
    BY <2>1
  <2>3. ASSUME NEW v \in Versions, NEW x \in SiblingRows, Closes(x, v)' PROVE Held(v, x)'
    <3>0. tx[x].inserts \subseteq tx'[x].inserts
      BY <2>2 DEF Wrote
    <3>1. CASE Closes(x, v)
      <4>1. Held(v, x)
        BY <3>1
      <4> QED
        BY <1>0, <3>0, <4>1
    <3>2. CASE ~Closes(x, v)
      <4>1. x = r /\ v = w /\ x \in AfterExtract(v) /\ ExtractReady(r, v)
        BY <2>2, <2>3, <3>2, ClosedByWriting
      <4>2. ClaimsOf(v) = AllClaimsOf(v)
        BY <2>2, <4>1, AllAttached DEF FlushInv, TxInv, Wrote
      <4>3. out.rows \subseteq tx'[r].inserts
        BY <2>2 DEF Wrote
      <4>4. CASE out.rows = NormalizeFanout(r, v).rows
        BY <1>0, <4>1, <4>2, <4>3, <4>4, FanoutWrites
      <4>5. CASE r = Entry(v)
        BY <4>1, <4>4, <4>5, EntryWrites DEF FlushInv
      <4>6. CASE \E ch \in ChunksOf(v) : r = Grounding(ch)
        <5>1. out \in ExtractBarrier(r, v)
          BY <4>1, <4>6, OutcomesOf
        <5>2. CASE out = NormalizeFanout(r, v)
          BY <4>4, <5>2
        <5>3. CASE out = [Nothing EXCEPT !.rows = {Entry(v)}, !.defers = {v}]
          <6>1. Entry(v) \in out.rows
            BY <5>3 DEF Nothing
          <6>2. r # Entry(v)
            BY <4>6, Distinct
          <6> QED
            BY <4>1, <4>3, <6>1, <6>2 DEF Entry
        <5> QED
          BY <4>1, <5>1, <5>2, <5>3 DEF ExtractBarrier
      <4> QED
        BY <4>1, <4>5, <4>6, AfterExtractOf
    <3> QED
      BY <3>1, <3>2
  <2>4. ASSUME NEW v \in Versions PROVE ExtractOpened(v)'
    <3>1. UNCHANGED status /\ ExtractOpened(v)
      BY <2>2 DEF Wrote
    <3> QED
      BY <1>0, <3>1 DEF ExtractOpened, ExtractDone, Done
  <2> QED
    BY <2>3, <2>4
<1>4. ASSUME NEW r \in SiblingRows, Commit(r) PROVE ExtractInv'
  <2>1. Commits(r)
    BY <1>4, Committed
  <2>2. ASSUME NEW v \in Versions, NEW x \in SiblingRows, Closes(x, v)' PROVE Held(v, x)'
    <3>1. tx'[x] = tx[x] /\ Closes(x, v)
      BY <2>1, <2>2, ClosedBefore
    <3>2. Held(v, x)
      BY <3>1
    <3> QED
      BY <1>0, <3>1, <3>2
  <2>3. ASSUME NEW v \in Versions, ExtractDone(v)'
        PROVE  \/ status'[Entry(v)] \in {"pending", "handled"}
               \/ \A c \in AllClaimsOf(v) : status'[Normalize(c)] # "absent"
    <3>0. ASSUME Closes(r, v), r = Entry(v) \/ status[Entry(v)] = "absent"
          PROVE  \/ status'[Entry(v)] \in {"pending", "handled"}
                 \/ \A c \in AllClaimsOf(v) : status'[Normalize(c)] # "absent"
      <4>1. Held(v, r)
        BY <3>0
      <4>2. CASE \A c \in AllClaimsOf(v) : Normalize(c) \in tx[r].inserts
        BY <1>0, <2>1, <4>2 DEF Commits
      <4>3. CASE r # Entry(v) /\ Entry(v) \in tx[r].inserts
        <5>1. ~Done(Entry(v))' /\ status'[Entry(v)] # "absent"
          BY <1>0, <2>1, <3>0, <4>3 DEF Commits, Done
        <5> QED
          BY <1>0, <1>1, <5>1
      <4> QED
        BY <4>1, <4>2, <4>3
    <3>1. CASE ExtractDone(v) /\ r # Entry(v)
      <4>1. ExtractOpened(v)
        OBVIOUS
      <4>2. CASE status[Entry(v)] \in {"pending", "handled"}
        <5>1. ~Done(Entry(v))' /\ status'[Entry(v)] # "absent"
          BY <1>0, <1>1, <2>1, <3>1, <4>2 DEF Commits
        <5> QED
          BY <1>0, <1>1, <5>1
      <4> QED
        BY <1>0, <2>1, <3>1, <4>1, <4>2 DEF ExtractOpened, Commits
    <3>2. CASE r = Entry(v)
      <4>1. Closes(r, v)
        BY <2>1, <3>2, EntryAfterExtract DEF Closes, AfterExtract, Passed, OpenTx, Commits
      <4> QED
        BY <3>0, <3>2, <4>1
    <3>3. CASE ~ExtractDone(v)
      <4>1. PICK ch \in ChunksOf(v) : ~Done(Grounding(ch))
        BY <3>3 DEF ExtractDone
      <4>2. \A d \in ChunksOf(v) : d = ch \/ Done(Grounding(d))
        <5>1. r = Grounding(ch)
          BY <1>0, <2>1, <2>3, <4>1 DEF ExtractDone, Commits
        <5> QED
          BY <1>0, <2>1, <2>3, <5>1, Distinct DEF ExtractDone, Commits
      <4>3. r = Grounding(ch)
        BY <1>0, <2>1, <2>3, <4>1 DEF ExtractDone, Commits
      <4>4. Closes(r, v)
        BY <2>1, <4>2, <4>3
        DEF Closes, AfterExtract, Passed, OpenTx, Commits, ExtractReady, Sees, Done
      <4>5. status[Entry(v)] = "absent"
        BY <3>3 DEF FlushInv, EntryInv
      <4> QED
        BY <3>0, <4>4, <4>5
    <3> QED
      BY <3>1, <3>2, <3>3
  <2>4. ASSUME NEW v \in Versions PROVE ExtractOpened(v)'
    BY <1>0, <2>3 DEF ExtractOpened
  <2> QED
    BY <2>2, <2>4
<1> QED
  BY <1>2, <1>3, <1>4, QuietSteps, QuietStutter DEF Next

(* A version that was never raced.  While its last grounding, or its entry to facts,
   is about to commit, no normalisation of its claims has passed it; once it is
   extracted, normalisations of its claims hold its lock one after the other. *)
Marked(x, v) == \E s \in FlushStates : <<v, s>> \in tx[x].marks

EnterInv == \A r \in SiblingRows, v \in Versions : v \in tx[r].enters => r = Entry(v)

ClosesAlone(v) ==
  \A x \in SiblingRows : Closes(x, v) =>
    /\ \A c \in AllClaimsOf(v) : ~Passed(Normalize(c), v)
    /\ v \in tx[x].defers \/ Marked(x, v) \/ flushState[v] # "none" \/ ~NormalizeDone(v)

OneByOne(v) ==
  ExtractDone(v) => \A c \in AllClaimsOf(v) :
    /\ LockedOn(Normalize(c), v)
    /\ Passed(Normalize(c), v) =>
         \/ Marked(Normalize(c), v) \/ flushState[v] # "none" \/ v \in waiting
         \/ \E d \in AllClaimsOf(v) \ {c} : ~Done(Normalize(d))

GateInv ==
  /\ EnterInv
  /\ \A v \in Versions \ raced : ClosesAlone(v) /\ OneByOne(v) /\ NormalizeOpened(v)

LEMMA OutcomeEnters ==
  ASSUME BarrierAssumption, FlushInv, NEW r \in SiblingRows,
         NEW v \in tx[r].todo, NEW out \in Outcomes(r, v), NEW w \in out.enters
  PROVE  r = Entry(w)
<1>0. v \in Versions
  BY DEF FlushInv, TypeOK
<1>1. CASE \E ch \in Chunks : r = Selection(ch)
  BY <1>1, OutcomesOf DEF SelectionBarrier, Nothing
<1>2. CASE \E ch \in Chunks : r = Grounding(ch)
  <2>1. out \in ExtractBarrier(r, v)
    BY <1>2, OutcomesOf
  <2>2. out.enters = {}
    <3>1. CASE out = NormalizeFanout(r, v)
      BY <1>0, <3>1, NormalizeFanoutFacts
    <3>2. CASE out = Nothing
      BY <3>2 DEF Nothing
    <3>3. CASE out = [Nothing EXCEPT !.rows = {Entry(v)}, !.defers = {v}]
      BY <3>3 DEF Nothing
    <3> QED
      BY <2>1, <3>1, <3>2, <3>3 DEF ExtractBarrier
  <2> QED
    BY <2>2
<1>3. CASE \E c \in Claims : r = Normalize(c)
  <2>1. out \in {Nothing, FlushFanout(v)}
    BY <1>3, OutcomesOf DEF NormalizeBarrier
  <2>2. out.enters = {}
    BY <1>0, <2>1, FanoutFacts DEF Nothing
  <2> QED
    BY <2>2
<1>4. CASE \E u \in Versions, e \in Entities : r = Flush(u, e)
  <2>1. out \in FlushBarrier(r, v)
    BY <1>4, OutcomesOf
  <2>2. out \in {Nothing, [rows |-> {Supersession(v)}, marks |-> {<<v, "barrier_complete">>},
                           defers |-> {}, enters |-> {}]}
    BY <2>1 DEF FlushBarrier, Nothing
  <2>3. out.enters = {}
    BY <2>2 DEF Nothing
  <2> QED
    BY <2>3
<1>5. CASE \E u \in Versions : r = Entry(u)
  <2>1. r = Entry(v)
    BY <1>5 DEF FlushInv, TxInv
  <2>2. out.enters = {v}
    BY <1>0, <2>1, EntryWrites DEF FlushInv
  <2> QED
    BY <2>1, <2>2
<1> QED
  BY <1>1, <1>2, <1>3, <1>4, <1>5, RowKinds

LEMMA EnterStep ==
  ASSUME BarrierAssumption, FlushInv, EnterInv, [Next]_vars
  PROVE  EnterInv'
<1>1. ASSUME Quiet PROVE EnterInv'
  BY <1>1 DEF Quiet, SameWrites, EnterInv
<1>2. ASSUME NEW r \in SiblingRows, Evaluate(r) PROVE EnterInv'
  <2>1. PICK w \in tx[r].todo : \E out \in Outcomes(r, w) : Wrote(r, w, out)
    BY <1>2, Evaluated
  <2>2. PICK out \in Outcomes(r, w) : Wrote(r, w, out)
    BY <2>1
  <2>3. \A v \in out.enters : r = Entry(v)
    BY OutcomeEnters
  <2> QED
    BY <2>2, <2>3 DEF EnterInv, Wrote
<1>3. ASSUME NEW r \in SiblingRows, Commit(r) PROVE EnterInv'
  BY <1>3, Committed DEF Commits, EnterInv
<1> QED
  BY <1>1, <1>2, <1>3, QuietSteps, QuietStutter DEF Next

LEMMA OfClaim ==
  ASSUME BarrierAssumption, NEW v \in Versions, NEW c \in AllClaimsOf(v)
  PROVE  /\ c \in Claims /\ Normalize(c) \in SiblingRows /\ Normalize(c) \in Rows
         /\ Normalize(c)[1] # "enter" /\ LockClass(Normalize(c)) = "d88"
         /\ c \in ClaimsOf(v) => v \in Candidates(Normalize(c))
         /\ \A x \in AfterExtract(v) : Normalize(c) # x
<1>1. c \in Claims
  BY DEF AllClaimsOf, ChunksOf, BarrierAssumption
<1>2. /\ Normalize(c)[1] # "enter" /\ LockClass(Normalize(c)) = "d88"
      /\ Candidates(Normalize(c)) = VersionsWith(c)
  BY DEF Normalize, LockClass, Candidates
<1>3. Normalize(c) \in SiblingRows /\ Normalize(c) \in Rows
  BY <1>1, RowTypes
<1>4. \A x \in AfterExtract(v) : Normalize(c) # x
  BY Distinct DEF AfterExtract
<1>5. c \in ClaimsOf(v) => v \in Candidates(Normalize(c))
  BY <1>2 DEF VersionsWith
<1> QED
  BY <1>1, <1>2, <1>3, <1>4, <1>5

(* A claim of an extracted version is a candidate of its normalisation. *)
LEMMA Counted ==
  ASSUME BarrierAssumption, FlushInv, NEW v \in Versions, NEW c \in AllClaimsOf(v),
         ExtractDone(v) \/ \E x \in SiblingRows : Closes(x, v)
  PROVE  c \in ClaimsOf(v) /\ v \in Candidates(Normalize(c))
<1>1. CASE ExtractDone(v)
  <2>1. \A ch \in ChunksOf(v) : ch \in attached
    BY <1>1 DEF ExtractDone, Done, FlushInv, AttachInv, ChunksOf
  <2>2. c \in ClaimsOf(v)
    BY <2>1 DEF ClaimsOf, AllClaimsOf
  <2> QED
    BY <2>2, OfClaim
<1>2. CASE \E x \in SiblingRows : Closes(x, v)
  <2>1. PICK x \in SiblingRows : tx[x].open /\ ExtractReady(x, v)
    BY <1>2 DEF Closes, Passed, OpenTx
  <2>2. c \in ClaimsOf(v)
    BY <2>1, AllAttached DEF FlushInv, TxInv
  <2> QED
    BY <2>2, OfClaim
<1> QED
  BY <1>1, <1>2

LEMMA LastToExtract ==
  ASSUME BarrierAssumption, NEW v \in Versions, NEW r \in SiblingRows,
         Commits(r), ~ExtractDone(v), ExtractDone(v)'
  PROVE  Closes(r, v) /\ r # Entry(v)
<1>1. PICK ch \in ChunksOf(v) : ~Done(Grounding(ch))
  BY DEF ExtractDone
<1>2. \A d \in ChunksOf(v) : Done(Grounding(d))' <=> r = Grounding(d) \/ Done(Grounding(d))
  BY OfChunk DEF Commits
<1>3. \A d \in ChunksOf(v) : r = Grounding(d) \/ Done(Grounding(d))
  BY <1>2 DEF ExtractDone, ChunksOf
<1>4. r = Grounding(ch)
  BY <1>1, <1>3
<1>5. Closes(r, v)
  BY <1>3, <1>4 DEF Closes, AfterExtract, Passed, OpenTx, Commits, ExtractReady, Sees, Done
<1> QED
  BY <1>4, <1>5, Distinct

(* A flush state that is set stays set, and a marking completion sets it. *)
LEMMA FlushSet ==
  ASSUME BarrierAssumption, SupInv, NEW v \in Versions, NEW r \in SiblingRows, Commits(r),
         flushState[v] # "none" \/ Marked(r, v)
  PROVE  flushState'[v] # "none"
<1>1. CASE flushState'[v] = flushState[v] /\ \A s \in FlushStates : <<v, s>> \notin tx[r].marks
  BY <1>1 DEF Marked
<1>2. CASE flushState'[v] \in FlushStates /\ <<v, flushState'[v]>> \in tx[r].marks
  BY <1>2 DEF SupInv, MarksFollow, Follows
<1> QED
  BY <1>1, <1>2 DEF Commits

LEMMA GateQuiet ==
  ASSUME BarrierAssumption, FlushInv, LockInv, [Next]_vars, Quiet, NEW v \in Versions,
         ClosesAlone(v), OneByOne(v), NormalizeOpened(v)
  PROVE  ClosesAlone(v)' /\ OneByOne(v)' /\ NormalizeOpened(v)'
<1>0. AllClaimsOf(v)' = AllClaimsOf(v) /\ ChunksOf(v)' = ChunksOf(v)
  BY DEF AllClaimsOf, ChunksOf
<1>1. (ExtractDone(v)' <=> ExtractDone(v)) /\ (NormalizeDone(v)' <=> NormalizeDone(v))
      /\ \A c \in AllClaimsOf(v) : Done(Normalize(c))' <=> Done(Normalize(c))
  BY <1>0, OfChunk, OfClaim DEF Quiet, SameRows, ExtractDone, NormalizeDone
<1>2. ASSUME NEW c \in AllClaimsOf(v), Passed(Normalize(c), v)',
             ExtractDone(v) \/ \E x \in SiblingRows : Closes(x, v)
      PROVE  Passed(Normalize(c), v) /\ SameWrites(Normalize(c))
  BY <1>2, Counted, OfClaim DEF Quiet
<1>3. ClosesAlone(v)'
  <2>1. SUFFICES ASSUME NEW x \in SiblingRows, Closes(x, v)'
                 PROVE  /\ \A c \in AllClaimsOf(v) : ~Passed(Normalize(c), v)'
                        /\ \/ v \in tx'[x].defers \/ Marked(x, v)'
                           \/ flushState'[v] # "none" \/ ~NormalizeDone(v)'
    BY <1>0 DEF ClosesAlone
  <2>2. Closes(x, v) /\ SameWrites(x)
    BY <2>1, ClosedQuietly
  <2>3. \A c \in AllClaimsOf(v) : ~Passed(Normalize(c), v)'
    BY <1>2, <2>2 DEF ClosesAlone
  <2>4. v \in tx[x].defers \/ Marked(x, v) \/ flushState[v] # "none" \/ ~NormalizeDone(v)
    BY <2>2 DEF ClosesAlone
  <2> QED
    BY <1>1, <2>2, <2>3, <2>4 DEF SameWrites, Marked, Quiet
<1>4. OneByOne(v)'
  <2>1. SUFFICES ASSUME ExtractDone(v), NEW c \in AllClaimsOf(v)
                 PROVE  /\ LockedOn(Normalize(c), v)'
                        /\ Passed(Normalize(c), v)' =>
                             \/ Marked(Normalize(c), v)' \/ flushState'[v] # "none"
                             \/ v \in waiting'
                             \/ \E d \in AllClaimsOf(v) \ {c} : ~Done(Normalize(d))'
    BY <1>0, <1>1 DEF OneByOne
  <2>2. LockedOn(Normalize(c), v)'
    BY <2>1, Counted, OfClaim, LockedStays DEF OneByOne
  <2>3. ASSUME Passed(Normalize(c), v)'
        PROVE  \/ Marked(Normalize(c), v)' \/ flushState'[v] # "none" \/ v \in waiting'
               \/ \E d \in AllClaimsOf(v) \ {c} : ~Done(Normalize(d))'
    <3>1. Passed(Normalize(c), v) /\ SameWrites(Normalize(c))
      BY <1>2, <2>1, <2>3
    <3>2. \/ Marked(Normalize(c), v) \/ flushState[v] # "none" \/ v \in waiting
          \/ \E d \in AllClaimsOf(v) \ {c} : ~Done(Normalize(d))
      BY <2>1, <3>1 DEF OneByOne
    <3> QED
      BY <1>1, <3>1, <3>2 DEF SameWrites, Marked, Quiet
  <2> QED
    BY <2>2, <2>3
<1>5. NormalizeOpened(v)'
  BY <1>1 DEF NormalizeOpened, Quiet
<1> QED
  BY <1>3, <1>4, <1>5

(* A version evaluated now is evaluated by someone who sees what completed. *)
LEMMA GateEvaluate ==
  ASSUME BarrierAssumption, FlushInv, LockInv, [Next]_vars, NEW r \in SiblingRows,
         NEW w \in tx[r].todo, NEW out \in Outcomes(r, w), Wrote(r, w, out),
         NEW v \in Versions, v \notin raced',
         ClosesAlone(v), OneByOne(v), NormalizeOpened(v)
  PROVE  ClosesAlone(v)' /\ OneByOne(v)' /\ NormalizeOpened(v)'
<1>0. AllClaimsOf(v)' = AllClaimsOf(v) /\ ChunksOf(v)' = ChunksOf(v)
      /\ status[r] = "handled" /\ UNCHANGED <<status, waiting, flushState>>
  BY DEF AllClaimsOf, ChunksOf, Wrote, FlushInv, TxInv
<1>1. /\ ExtractDone(v)' <=> ExtractDone(v)
      /\ NormalizeDone(v)' <=> NormalizeDone(v)
      /\ \A c \in AllClaimsOf(v) : Done(Normalize(c))' <=> Done(Normalize(c))
  BY <1>0 DEF ExtractDone, NormalizeDone, Done
<1>2. ASSUME NEW x \in SiblingRows PROVE Marked(x, v) => Marked(x, v)'
  BY DEF Wrote, Marked
<1>3. ASSUME NEW x \in SiblingRows, Passed(x, v)'
      PROVE  Passed(x, v) \/ (x = r /\ w = v)
  BY <1>3 DEF Passed, OpenTx, Wrote
<1>4. w = v => ~Races(r, v)
  BY DEF Wrote
<1>5. \A s \in FlushStates : w = v /\ <<v, s>> \in out.marks => Marked(r, v)'
  BY DEF Wrote, Marked
<1>6. ASSUME w = v, ExtractReady(r, v), ~NormalizeReady(r, v)
      PROVE  \E d \in AllClaimsOf(v) : r # Normalize(d) /\ ~Done(Normalize(d))
  <2>1. ClaimsOf(v) = AllClaimsOf(v)
    BY <1>0, <1>6, AllAttached DEF FlushInv
  <2> QED
    BY <1>6, <2>1 DEF NormalizeReady, Sees, Done
<1>7. ClosesAlone(v)'
  <2>1. SUFFICES ASSUME NEW x \in SiblingRows, Closes(x, v)'
                 PROVE  /\ \A c \in AllClaimsOf(v) : ~Passed(Normalize(c), v)'
                        /\ \/ v \in tx'[x].defers \/ Marked(x, v)'
                           \/ flushState'[v] # "none" \/ ~NormalizeDone(v)'
    BY <1>0 DEF ClosesAlone
  <2>2. CASE Closes(x, v)
    <3>1. ASSUME NEW c \in AllClaimsOf(v) PROVE ~Passed(Normalize(c), v)'
      <4>1. ~Passed(Normalize(c), v)
        BY <2>2 DEF ClosesAlone
      <4>2. ~(Normalize(c) = r /\ w = v)
        <5>1. Normalize(c)[1] = "normalize"
          BY DEF Normalize
        <5>2. x \in {Grounding(ch) : ch \in ChunksOf(v)} \cup {Entry(v)} /\ Passed(x, v)
          BY <2>2 DEF Closes, AfterExtract
        <5> QED
          BY <1>4, <5>1, <5>2 DEF Races
      <4> QED
        BY <1>3, <4>1, <4>2, OfClaim
    <3>2. v \in tx[x].defers => v \in tx'[x].defers
      BY DEF Wrote
    <3> QED
      BY <1>0, <1>1, <1>2, <2>2, <3>1, <3>2 DEF ClosesAlone
  <2>3. CASE ~Closes(x, v)
    <3>1. x = r /\ v = w /\ r \in AfterExtract(v) /\ ExtractReady(r, v)
      BY <2>1, <2>3, ClosedByWriting
    <3>2. r[1] \in {"ground", "enter"}
      BY <3>1, AfterExtractOf DEF Grounding, Entry
    <3>3. ClaimsOf(v) = AllClaimsOf(v)
      BY <1>0, <3>1, AllAttached DEF FlushInv
    <3>4. ASSUME NEW c \in AllClaimsOf(v) PROVE ~Passed(Normalize(c), v)'
      <4>1. ~Passed(Normalize(c), v)
        BY <1>4, <3>1, <3>2, <3>3 DEF Races
      <4> QED
        BY <1>3, <3>1, <4>1, OfClaim
    <3>5. ASSUME out.marks = NormalizeFanout(r, v).marks
          PROVE  Marked(r, v)' \/ flushState[v] # "none" \/ ~NormalizeDone(v)
      <4>1. CASE NormalizeReady(r, v)
        BY <1>5, <3>1, <3>5, <4>1, FanoutWrites
      <4>2. CASE ~NormalizeReady(r, v)
        BY <1>6, <3>1, <4>2 DEF NormalizeDone
      <4> QED
        BY <4>1, <4>2
    <3>6. \/ v \in tx'[r].defers \/ Marked(r, v)'
          \/ flushState[v] # "none" \/ ~NormalizeDone(v)
      <4>1. CASE r = Entry(v)
        BY <3>1, <3>5, <4>1, EntryWrites DEF FlushInv
      <4>2. CASE \E ch \in ChunksOf(v) : r = Grounding(ch)
        <5>1. out \in ExtractBarrier(r, v)
          BY <3>1, <4>2, OutcomesOf
        <5>2. CASE out = NormalizeFanout(r, v)
          BY <3>5, <5>2
        <5>3. CASE out = [Nothing EXCEPT !.rows = {Entry(v)}, !.defers = {v}]
          <6>1. v \in out.defers
            BY <5>3 DEF Nothing
          <6> QED
            BY <6>1 DEF Wrote
        <5> QED
          BY <3>1, <5>1, <5>2, <5>3 DEF ExtractBarrier
      <4> QED
        BY <3>1, <4>1, <4>2, AfterExtractOf
    <3> QED
      BY <1>0, <1>1, <3>1, <3>4, <3>6
  <2> QED
    BY <2>2, <2>3
<1>8. OneByOne(v)'
  <2>1. SUFFICES ASSUME ExtractDone(v), NEW c \in AllClaimsOf(v)
                 PROVE  /\ LockedOn(Normalize(c), v)'
                        /\ Passed(Normalize(c), v)' =>
                             \/ Marked(Normalize(c), v)' \/ flushState'[v] # "none"
                             \/ v \in waiting'
                             \/ \E d \in AllClaimsOf(v) \ {c} : ~Done(Normalize(d))'
    BY <1>0, <1>1 DEF OneByOne
  <2>2. LockedOn(Normalize(c), v)'
    BY <2>1, Counted, OfClaim, LockedStays DEF OneByOne
  <2>3. ASSUME Passed(Normalize(c), v)'
        PROVE  \/ Marked(Normalize(c), v)' \/ flushState[v] # "none" \/ v \in waiting
               \/ \E d \in AllClaimsOf(v) \ {c} : ~Done(Normalize(d))
    <3>1. CASE Passed(Normalize(c), v)
      BY <1>2, <2>1, <3>1, OfClaim DEF OneByOne
    <3>2. CASE ~Passed(Normalize(c), v)
      <4>1. r = Normalize(c) /\ w = v
        BY <1>3, <2>3, <3>2, OfClaim
      <4>2. ExtractReady(r, v)
        BY <2>1 DEF ExtractDone, ExtractReady, Sees, Done
      <4>3. out \in NormalizeBarrier(r, v)
        BY <4>1, OutcomesOf
      <4>4. CASE NormalizeReady(r, v) /\ v \notin waiting
        <5>1. out = FlushFanout(v)
          BY <4>2, <4>3, <4>4 DEF NormalizeBarrier
        <5> QED
          BY <1>5, <4>1, <5>1, FanoutWrites
      <4>5. CASE ~NormalizeReady(r, v)
        BY <1>6, <4>1, <4>2, <4>5
      <4> QED
        BY <4>4, <4>5
    <3> QED
      BY <3>1, <3>2
  <2> QED
    BY <1>0, <1>1, <2>2, <2>3
<1>9. NormalizeOpened(v)'
  BY <1>0, <1>1 DEF NormalizeOpened
<1> QED
  BY <1>7, <1>8, <1>9

(* Whoever could complete what a completion saw missing holds the same lock, or
   was seen. *)
LEMMA GateCommit ==
  ASSUME BarrierAssumption, SupInv, LockInv, EnterInv, [Next]_vars,
         NEW r \in SiblingRows, Commits(r), NEW v \in Versions,
         ClosesAlone(v), OneByOne(v), NormalizeOpened(v)
  PROVE  ClosesAlone(v)' /\ OneByOne(v)' /\ NormalizeOpened(v)'
<1>0. AllClaimsOf(v)' = AllClaimsOf(v) /\ ChunksOf(v)' = ChunksOf(v) /\ FlushInv
  BY DEF AllClaimsOf, ChunksOf, SupInv
<1>1. /\ \A c \in AllClaimsOf(v) : Done(Normalize(c))' <=> r = Normalize(c) \/ Done(Normalize(c))
      /\ \A c, d \in AllClaimsOf(v) : Normalize(c) = Normalize(d) => c = d
  BY OfClaim DEF Commits, Normalize
<1>2. Passed(r, v)
  BY DEF Commits, Passed, OpenTx
<1>3. flushState[v] # "none" \/ Marked(r, v) => flushState'[v] # "none"
  BY FlushSet
<1>4. ASSUME NEW x \in SiblingRows, Passed(x, v)'
      PROVE  x # r /\ tx'[x] = tx[x] /\ Passed(x, v) /\ (Marked(x, v)' <=> Marked(x, v))
  BY <1>4 DEF Commits, Passed, OpenTx, Marked
<1>5. ASSUME NEW d \in AllClaimsOf(v), r = Normalize(d)
      PROVE  ~\E x \in SiblingRows : Closes(x, v)
  BY <1>2, <1>5 DEF ClosesAlone
<1>6. ASSUME r = Entry(v) PROVE Closes(r, v)
  BY <1>0, <1>2, <1>6, EntryAfterExtract DEF Closes, AfterExtract, Commits
<1>7. ClosesAlone(v)'
  <2>1. SUFFICES ASSUME NEW x \in SiblingRows, Closes(x, v)'
                 PROVE  /\ \A c \in AllClaimsOf(v) : ~Passed(Normalize(c), v)'
                        /\ \/ v \in tx'[x].defers \/ Marked(x, v)'
                           \/ flushState'[v] # "none" \/ ~NormalizeDone(v)'
    BY <1>0 DEF ClosesAlone
  <2>2. x # r /\ tx'[x] = tx[x] /\ Closes(x, v)
    BY <1>0, <2>1, ClosedBefore
  <2>3. \A c \in AllClaimsOf(v) : ~Passed(Normalize(c), v)'
    BY <1>4, <2>2, OfClaim DEF ClosesAlone
  <2>4. Marked(x, v) => Marked(x, v)'
    BY <2>2 DEF Marked
  <2>5. ~NormalizeDone(v) => ~NormalizeDone(v)'
    BY <1>0, <1>1, <1>5, <2>2 DEF NormalizeDone
  <2>6. v \in tx[x].defers \/ Marked(x, v) \/ flushState[v] # "none" \/ ~NormalizeDone(v)
    BY <2>2 DEF ClosesAlone
  <2> QED
    BY <1>3, <2>2, <2>3, <2>4, <2>5, <2>6
<1>8. ASSUME ExtractDone(v)' PROVE ExtractDone(v) \/ (Closes(r, v) /\ r # Entry(v))
  BY <1>8, LastToExtract
<1>9. OneByOne(v)'
  <2>1. SUFFICES ASSUME ExtractDone(v)', NEW c \in AllClaimsOf(v)
                 PROVE  /\ LockedOn(Normalize(c), v)'
                        /\ Passed(Normalize(c), v)' =>
                             \/ Marked(Normalize(c), v)' \/ flushState'[v] # "none"
                             \/ v \in waiting'
                             \/ \E d \in AllClaimsOf(v) \ {c} : ~Done(Normalize(d))'
    BY <1>0 DEF OneByOne
  <2>2. CASE ~ExtractDone(v)
    <3>1. Closes(r, v) /\ ~Passed(Normalize(c), v) /\ r # Normalize(c)
      BY <1>2, <1>8, <2>1, <2>2 DEF ClosesAlone
    <3>2. ~Passed(Normalize(c), v)'
      BY <1>4, <3>1, OfClaim
    <3>3. LockedOn(Normalize(c), v)'
      <4>1. CASE tx[Normalize(c)].open
        <5>1. v \in tx[Normalize(c)].todo
          BY <3>1, <4>1, OfClaim DEF Passed, OpenTx
        <5>2. LockedOn(Normalize(c), v)
          BY <5>1, OfClaim DEF LockInv
        <5> QED
          BY <1>0, <4>1, <5>2, OfClaim, LockedStays
      <4>2. CASE ~tx[Normalize(c)].open
        BY <3>1, <4>2, OfClaim DEF Commits, LockedOn
      <4> QED
        BY <4>1, <4>2
    <3> QED
      BY <3>2, <3>3
  <2>3. CASE ExtractDone(v)
    <3>1. LockedOn(Normalize(c), v)'
      BY <1>0, <2>3, Counted, OfClaim, LockedStays DEF OneByOne
    <3>2. ASSUME Passed(Normalize(c), v)'
          PROVE  \/ Marked(Normalize(c), v)' \/ flushState'[v] # "none" \/ v \in waiting'
                 \/ \E d \in AllClaimsOf(v) \ {c} : ~Done(Normalize(d))'
      <4>1. /\ Normalize(c) # r /\ Passed(Normalize(c), v)
            /\ Marked(Normalize(c), v)' <=> Marked(Normalize(c), v)
        BY <1>4, <3>2, OfClaim
      <4>2. v \in waiting => v \in waiting'
        <5>1. v \notin tx[r].enters
          BY <1>6, <4>1 DEF EnterInv, ClosesAlone
        <5> QED
          BY <5>1 DEF Commits
      <4>3. \A d \in AllClaimsOf(v) : r # Normalize(d)
        <5>1. SUFFICES ASSUME NEW d \in AllClaimsOf(v), r = Normalize(d) PROVE FALSE
          OBVIOUS
        <5>2. LockedOn(r, v) /\ LockedOn(Normalize(c), v)
          BY <2>3, <5>1 DEF OneByOne
        <5>3. LockClass(r) = LockClass(Normalize(c))
          BY <5>1, OfClaim
        <5> QED
          BY <1>2, <4>1, <5>2, <5>3, OfClaim, OneAtATime
      <4>4. \/ Marked(Normalize(c), v) \/ flushState[v] # "none" \/ v \in waiting
            \/ \E d \in AllClaimsOf(v) \ {c} : ~Done(Normalize(d))
        BY <2>3, <4>1 DEF OneByOne
      <4> QED
        BY <1>1, <1>3, <4>1, <4>2, <4>3, <4>4
    <3> QED
      BY <3>1, <3>2
  <2> QED
    BY <2>2, <2>3
<1>10. NormalizeOpened(v)'
  <2>1. SUFFICES ASSUME ExtractDone(v)', NormalizeDone(v)', v \notin waiting',
                        flushState'[v] = "none"
                 PROVE  FALSE
    BY DEF NormalizeOpened
  <2>2. flushState[v] = "none" /\ ~Marked(r, v)
    BY <1>3, <2>1
  <2>3. ~ExtractDone(v) \/ ~NormalizeDone(v) \/ v \in waiting
    BY <2>2 DEF NormalizeOpened
  <2>4. ASSUME Closes(r, v), v \notin tx[r].defers PROVE FALSE
    <3>1. ~NormalizeDone(v)
      BY <2>2, <2>4 DEF ClosesAlone
    <3>2. PICK d \in AllClaimsOf(v) : ~Done(Normalize(d))
      BY <3>1 DEF NormalizeDone
    <3>3. r = Normalize(d)
      BY <1>0, <1>1, <2>1, <3>2 DEF NormalizeDone
    <3> QED
      BY <1>5, <2>4, <3>3
  <2>5. CASE ~ExtractDone(v)
    <3>1. Closes(r, v) /\ r # Entry(v)
      BY <1>8, <2>1, <2>5
    <3>2. v \notin tx[r].defers
      BY <2>1, <3>1 DEF EnterInv, Commits
    <3> QED
      BY <2>4, <3>1, <3>2
  <2>6. CASE v \in waiting
    <3>1. r = Entry(v)
      BY <2>1, <2>6 DEF EnterInv, Commits
    <3>2. v \notin tx[r].defers
      <4>1. ~LastGrounding(r, v)
        BY <3>1, Distinct DEF LastGrounding
      <4> QED
        BY <1>0, <4>1 DEF FlushInv, DeferInv
    <3> QED
      BY <1>6, <2>4, <3>1, <3>2
  <2>7. CASE ExtractDone(v) /\ v \notin waiting /\ ~NormalizeDone(v)
    <3>1. PICK d \in AllClaimsOf(v) : ~Done(Normalize(d))
      BY <2>7 DEF NormalizeDone
    <3>2. r = Normalize(d)
      BY <1>0, <1>1, <2>1, <3>1 DEF NormalizeDone
    <3>3. \E c \in AllClaimsOf(v) \ {d} : ~Done(Normalize(c))
      BY <1>2, <2>2, <2>7, <3>2 DEF OneByOne
    <3>4. PICK c \in AllClaimsOf(v) \ {d} : ~Done(Normalize(c))
      BY <3>3
    <3>5. Done(Normalize(c))'
      BY <1>0, <2>1 DEF NormalizeDone
    <3> QED
      BY <1>1, <3>2, <3>4, <3>5
  <2> QED
    BY <2>3, <2>5, <2>6, <2>7
<1> QED
  BY <1>7, <1>9, <1>10

LEMMA GateStep ==
  ASSUME BarrierAssumption, SupInv, LockInv, GateInv, [Next]_vars
  PROVE  GateInv'
<1>0. FlushInv /\ EnterInv
  BY DEF SupInv, GateInv
<1>1. EnterInv'
  BY <1>0, EnterStep
<1>2. SUFFICES ASSUME NEW v \in Versions, v \notin raced'
               PROVE  ClosesAlone(v)' /\ OneByOne(v)' /\ NormalizeOpened(v)'
  BY <1>1 DEF GateInv
<1>3. ASSUME v \notin raced PROVE ClosesAlone(v) /\ OneByOne(v) /\ NormalizeOpened(v)
  BY <1>3 DEF GateInv
<1>4. CASE Quiet
  BY <1>0, <1>2, <1>3, <1>4, GateQuiet DEF Quiet
<1>5. ASSUME NEW r \in SiblingRows, Evaluate(r)
      PROVE  ClosesAlone(v)' /\ OneByOne(v)' /\ NormalizeOpened(v)'
  <2>1. PICK w \in tx[r].todo : \E out \in Outcomes(r, w) : Wrote(r, w, out)
    BY <1>0, <1>5, Evaluated
  <2>2. PICK out \in Outcomes(r, w) : Wrote(r, w, out)
    BY <2>1
  <2>3. v \notin raced
    BY <1>2, <2>2 DEF Wrote
  <2> QED
    BY <1>0, <1>2, <1>3, <2>2, <2>3, GateEvaluate
<1>6. ASSUME NEW r \in SiblingRows, Commit(r)
      PROVE  ClosesAlone(v)' /\ OneByOne(v)' /\ NormalizeOpened(v)'
  <2>1. Commits(r) /\ v \notin raced
    BY <1>0, <1>2, <1>6, Committed DEF Commits
  <2> QED
    BY <1>0, <1>3, <2>1, GateCommit
<1> QED
  BY <1>0, <1>4, <1>5, <1>6, QuietSteps, QuietStutter DEF Next

(* The units of a version: there while its flush is materialized, one for every
   subject its claims have, and drained by whoever handles them. *)
AllEntities(v) == UNION {subjects[c] : c \in AllClaimsOf(v)}

UnitsWritten ==
  \A r \in SiblingRows, v \in Versions :
    /\ \A e \in Entities : Flush(v, e) \in tx[r].inserts => <<v, "materialized">> \in tx[r].marks
    /\ <<v, "materialized">> \in tx[r].marks =>
         AllEntities(v) # {} /\ \A e \in AllEntities(v) : Flush(v, e) \in tx[r].inserts

UnitsDrained ==
  \A v \in Versions, e \in Entities :
    status[Flush(v, e)] \in {"handled", "succeeded"} =>
      \A c \in AllClaimsOf(v) : e \in subjects[c] => <<c, e>> \in applied

UnitsThere ==
  \A v \in Versions :
    /\ \A e \in Entities : status[Flush(v, e)] # "absent" => flushState[v] # "none"
    /\ flushState[v] = "materialized" =>
         \A e \in AllEntities(v) : status[Flush(v, e)] # "absent"

LastUnit ==
  \A v \in Versions :
    /\ \A e \in Entities : Passed(Flush(v, e), v) =>
         \/ <<v, "barrier_complete">> \in tx[Flush(v, e)].marks
         \/ flushState[v] # "materialized"
         \/ \E u \in FlushUnits(v) \ {Flush(v, e)} : ~Done(u)
    /\ FlushOpened(v)

UnitInv == UnitsWritten /\ UnitsDrained /\ UnitsThere /\ LastUnit

LEMMA OfUnit ==
  ASSUME BarrierAssumption, NEW v \in Versions, NEW e \in Entities
  PROVE  /\ Flush(v, e) \in SiblingRows /\ Flush(v, e) \in Rows /\ Flush(v, e) \in FlushRows
         /\ Flush(v, e) \in Owners(v) /\ v \in Candidates(Flush(v, e))
         /\ LockClass(Flush(v, e)) = "d88"
<1>1. LockClass(Flush(v, e)) = "d88" /\ Flush(v, e) \in Owners(v)
  BY DEF LockClass, Flush, Owners
<1>2. Flush(v, e) \in SiblingRows /\ Flush(v, e) \in Rows /\ Flush(v, e) \in FlushRows
  BY RowTypes DEF FlushRows
<1> QED
  BY <1>1, <1>2, CandidatesOf

LEMMA EntitiesTyped ==
  ASSUME BarrierAssumption, TypeOK, NEW v \in Versions
  PROVE  AllEntities(v) \subseteq Entities
<1>1. subjects \in [Claims -> SUBSET Entities]
  BY DEF TypeOK, BarrierAssumption
<1>2. \A c \in AllClaimsOf(v) : c \in Claims
  BY OfClaim
<1> QED
  BY <1>1, <1>2 DEF AllEntities

LEMMA FanoutUnits ==
  ASSUME NEW v \in Versions, NEW out, out.marks = FlushFanout(v).marks,
         FlushFanout(v).rows \subseteq out.rows,
         out.rows \subseteq FlushFanout(v).rows \cup {Normalize(c) : c \in ClaimsOf(v)}
  PROVE  /\ \A w, e : Flush(w, e) \in out.rows => <<w, "materialized">> \in out.marks
         /\ <<v, "materialized">> \in out.marks =>
              EntitiesOf(v) # {} /\ \A e \in EntitiesOf(v) : Flush(v, e) \in out.rows
<1>0. \A w, e, c : Flush(w, e) # Normalize(c) /\ Flush(w, e) # Supersession(c)
  BY Distinct
<1>1. CASE flushState[v] # "none"
  <2>1. FlushFanout(v).marks = {} /\ FlushFanout(v).rows = {}
    BY <1>1 DEF FlushFanout, Nothing
  <2> QED
    BY <1>0, <2>1
<1>2. CASE flushState[v] = "none" /\ EntitiesOf(v) = {}
  <2>1. FlushFanout(v).marks = {<<v, "empty_complete">>}
        /\ FlushFanout(v).rows = {Supersession(v)}
    BY <1>2 DEF FlushFanout, Nothing
  <2>2. <<v, "materialized">> # <<v, "empty_complete">>
    OBVIOUS
  <2> QED
    BY <1>0, <2>1, <2>2
<1>3. CASE flushState[v] = "none" /\ EntitiesOf(v) # {}
  <2>1. FlushFanout(v).marks = {<<v, "materialized">>}
        /\ FlushFanout(v).rows = {Flush(v, e) : e \in EntitiesOf(v)}
    BY <1>3 DEF FlushFanout, Nothing
  <2>2. \A w, e : Flush(w, e) \in FlushFanout(v).rows => w = v
    BY <2>1 DEF Flush
  <2> QED
    BY <1>0, <1>3, <2>1, <2>2
<1> QED
  BY <1>1, <1>2, <1>3

LEMMA NormalizeFanoutUnits ==
  ASSUME NEW v \in Versions, NEW r \in SiblingRows,
         NEW out, out.marks = NormalizeFanout(r, v).marks, out.rows = NormalizeFanout(r, v).rows
  PROVE  /\ \A w, e : Flush(w, e) \in out.rows => <<w, "materialized">> \in out.marks
         /\ <<v, "materialized">> \in out.marks =>
              EntitiesOf(v) # {} /\ \A e \in EntitiesOf(v) : Flush(v, e) \in out.rows
<1>1. CASE NormalizeReady(r, v)
  <2>1. NormalizeFanout(r, v) =
          [FlushFanout(v) EXCEPT !.rows = @ \cup {Normalize(c) : c \in ClaimsOf(v)}]
    BY <1>1 DEF NormalizeFanout
  <2>2. FlushFanout(v) \in [rows : {FlushFanout(v).rows}, marks : {FlushFanout(v).marks},
                            defers : {{}}, enters : {{}}]
    BY DEF FlushFanout, Nothing
  <2>3. /\ NormalizeFanout(r, v).marks = FlushFanout(v).marks
        /\ NormalizeFanout(r, v).rows
             = FlushFanout(v).rows \cup {Normalize(c) : c \in ClaimsOf(v)}
    BY <2>1, <2>2
  <2> QED
    BY <2>3, FanoutUnits
<1>2. CASE ~NormalizeReady(r, v)
  <2>1. NormalizeFanout(r, v) = [rows |-> {Normalize(c) : c \in ClaimsOf(v)},
                                 marks |-> {}, defers |-> {}, enters |-> {}]
    BY <1>2 DEF NormalizeFanout, Nothing
  <2>2. \A w, e, c : Flush(w, e) # Normalize(c)
    BY Distinct
  <2> QED
    BY <2>1, <2>2
<1> QED
  BY <1>1, <1>2

LEMMA OutcomeUnits ==
  ASSUME BarrierAssumption, FlushInv, NEW r \in SiblingRows, tx[r].open,
         NEW v \in tx[r].todo, NEW out \in Outcomes(r, v), NEW w \in Versions
  PROVE  /\ \A e \in Entities : Flush(w, e) \in out.rows => <<w, "materialized">> \in out.marks
         /\ <<w, "materialized">> \in out.marks =>
              AllEntities(w) # {} /\ \A e \in AllEntities(w) : Flush(w, e) \in out.rows
<1> DEFINE Goal ==
      /\ \A e \in Entities : Flush(w, e) \in out.rows => <<w, "materialized">> \in out.marks
      /\ <<w, "materialized">> \in out.marks =>
           AllEntities(w) # {} /\ \A e \in AllEntities(w) : Flush(w, e) \in out.rows
<1> SUFFICES Goal
  OBVIOUS
<1>0. /\ v \in Versions
      /\ <<w, "materialized">> \in out.marks => w = v /\ AllSeen(r, v)
  <2>1. "materialized" \in FlushStates
    BY DEF FlushStates
  <2>2. /\ v \in Versions
        /\ \A x \in Versions, s \in FlushStates : <<x, s>> \in out.marks => x = v /\ AllSeen(r, v)
    BY OutcomeFacts
  <2> QED
    BY <2>1, <2>2
<1>1. ASSUME /\ \A u, e : Flush(u, e) \in out.rows => <<u, "materialized">> \in out.marks
             /\ <<v, "materialized">> \in out.marks =>
                  EntitiesOf(v) # {} /\ \A e \in EntitiesOf(v) : Flush(v, e) \in out.rows
      PROVE  Goal
  <2>1. <<w, "materialized">> \in out.marks => w = v /\ EntitiesOf(v) = AllEntities(v)
    BY <1>0, AllAttached DEF FlushInv, TxInv, AllSeen, EntitiesOf, AllEntities
  <2> QED
    BY <1>1, <2>1
<1>2. ASSUME out.marks = {}, \A u, e : Flush(u, e) \notin out.rows PROVE Goal
  BY <1>2
<1>3. \A u, e, x : Flush(u, e) # Grounding(x) /\ Flush(u, e) # Entry(x)
                   /\ Flush(u, e) # Supersession(x)
  BY Distinct
<1> HIDE DEF Goal
<1>4. ASSUME NEW ch \in Chunks, r = Selection(ch) PROVE Goal
  <2>1. out \in {Nothing, [rows |-> {Grounding(d) : d \in ChunksOf(v)},
                           marks |-> {}, defers |-> {}, enters |-> {}]}
    BY <1>4, OutcomesOf DEF SelectionBarrier, Nothing
  <2>2. out.marks = {} /\ \A u, e : Flush(u, e) \notin out.rows
    BY <1>3, <2>1 DEF Nothing
  <2> QED
    BY <1>2, <2>2
<1>5. ASSUME NEW ch \in Chunks, r = Grounding(ch) PROVE Goal
  <2>1. out \in ExtractBarrier(r, v)
    BY <1>5, OutcomesOf
  <2>2. ASSUME out = NormalizeFanout(r, v) PROVE Goal
    BY <1>0, <1>1, <2>2, NormalizeFanoutUnits
  <2>3. ASSUME out = Nothing PROVE Goal
    BY <1>2, <2>3 DEF Nothing
  <2>4. ASSUME out = [Nothing EXCEPT !.rows = {Entry(v)}, !.defers = {v}] PROVE Goal
    <3>1. out = [rows |-> {Entry(v)}, marks |-> {}, defers |-> {v}, enters |-> {}]
      BY <2>4 DEF Nothing
    <3> QED
      BY <1>2, <1>3, <3>1
  <2> QED
    BY <2>1, <2>2, <2>3, <2>4 DEF ExtractBarrier
<1>6. ASSUME NEW c \in Claims, r = Normalize(c) PROVE Goal
  <2>1. out \in {Nothing, FlushFanout(v)}
    BY <1>6, OutcomesOf DEF NormalizeBarrier
  <2>2. ASSUME out = Nothing PROVE Goal
    BY <1>2, <2>2 DEF Nothing
  <2>3. ASSUME out = FlushFanout(v) PROVE Goal
    BY <1>0, <1>1, <2>3, FanoutUnits
  <2> QED
    BY <2>1, <2>2, <2>3
<1>7. ASSUME NEW u \in Versions, NEW e \in Entities, r = Flush(u, e) PROVE Goal
  <2>1. out \in FlushBarrier(r, v)
    BY <1>7, OutcomesOf
  <2>2. out \in {Nothing, [rows |-> {Supersession(v)}, marks |-> {<<v, "barrier_complete">>},
                           defers |-> {}, enters |-> {}]}
    BY <2>1 DEF FlushBarrier, Nothing
  <2>3. <<v, "materialized">> # <<v, "barrier_complete">>
    OBVIOUS
  <2>4. /\ <<v, "materialized">> \notin out.marks
        /\ \A x, y : Flush(x, y) \notin out.rows
    BY <1>3, <2>2, <2>3 DEF Nothing
  <2> QED
    BY <1>1, <2>4
<1>8. ASSUME NEW u \in Versions, r = Entry(u) PROVE Goal
  <2>1. r = Entry(v)
    BY <1>8 DEF FlushInv, TxInv
  <2>2. out.rows = NormalizeFanout(r, v).rows /\ out.marks = NormalizeFanout(r, v).marks
    BY <1>0, <2>1, EntryWrites DEF FlushInv
  <2> QED
    BY <1>0, <1>1, <2>2, NormalizeFanoutUnits
<1> QED
  BY <1>4, <1>5, <1>6, <1>7, <1>8, RowKinds

LEMMA UnitsQuiet ==
  ASSUME BarrierAssumption, FlushInv, UnitsWritten, UnitsThere, LastUnit, Quiet
  PROVE  UnitsWritten' /\ UnitsThere' /\ LastUnit'
<1>0. ASSUME NEW v \in Versions
      PROVE  /\ AllEntities(v)' = AllEntities(v) /\ AllEntities(v) \subseteq Entities
             /\ \A e \in Entities : /\ Done(Flush(v, e))' <=> Done(Flush(v, e))
                                    /\ status'[Flush(v, e)] = "absent" <=>
                                         status[Flush(v, e)] = "absent"
             /\ flushState'[v] = flushState[v]
  BY OfUnit, EntitiesTyped DEF AllEntities, AllClaimsOf, ChunksOf, Quiet, SameRows, FlushInv
<1>1. UnitsWritten'
  <2>1. SUFFICES ASSUME NEW r \in SiblingRows, NEW v \in Versions
                 PROVE  /\ \A e \in Entities :
                             Flush(v, e) \in tx'[r].inserts =>
                               <<v, "materialized">> \in tx'[r].marks
                        /\ <<v, "materialized">> \in tx'[r].marks =>
                             /\ AllEntities(v) # {}
                             /\ \A e \in AllEntities(v) : Flush(v, e) \in tx'[r].inserts
    BY <1>0 DEF UnitsWritten
  <2>2. CASE SameWrites(r)
    BY <2>2 DEF SameWrites, UnitsWritten
  <2>3. CASE tx'[r].inserts = {} /\ tx'[r].marks = {}
    BY <2>3
  <2> QED
    BY <2>2, <2>3 DEF Quiet
<1>2. UnitsThere'
  BY <1>0 DEF UnitsThere
<1>3. ASSUME NEW v \in Versions PROVE FlushUnits(v)' = FlushUnits(v)
  <2>1. \A r \in FlushRows : r \in Rows
    BY DEF Rows, SiblingRows
  <2> QED
    BY <2>1 DEF FlushUnits, Quiet, SameRows
<1>4. ASSUME NEW v \in Versions, NEW u \in FlushUnits(v) PROVE Done(u)' <=> Done(u)
  <2>1. \E e \in Entities : u = Flush(v, e)
    BY DEF FlushUnits
  <2> QED
    BY <1>0, <2>1
<1>5. ASSUME NEW v \in Versions, NEW e \in Entities, Passed(Flush(v, e), v)'
      PROVE  \/ <<v, "barrier_complete">> \in tx'[Flush(v, e)].marks
             \/ flushState'[v] # "materialized"
             \/ \E u \in FlushUnits(v) \ {Flush(v, e)} : ~Done(u)'
  <2>1. Passed(Flush(v, e), v) /\ SameWrites(Flush(v, e))
    BY <1>5, OfUnit DEF Quiet
  <2>2. \/ <<v, "barrier_complete">> \in tx[Flush(v, e)].marks
        \/ flushState[v] # "materialized"
        \/ \E u \in FlushUnits(v) \ {Flush(v, e)} : ~Done(u)
    BY <2>1 DEF LastUnit
  <2> QED
    BY <1>0, <1>4, <2>1, <2>2 DEF SameWrites
<1>6. ASSUME NEW v \in Versions PROVE FlushOpened(v)'
  <2>1. FlushOpened(v)
    BY DEF LastUnit
  <2> QED
    BY <1>0, <1>3, <1>4, <2>1 DEF FlushOpened
<1>7. LastUnit'
  BY <1>3, <1>5, <1>6 DEF LastUnit
<1> QED
  BY <1>1, <1>2, <1>7

(* A unit that is handled has applied what its version states of its subject. *)
LEMMA DrainedStep ==
  ASSUME BarrierAssumption, FlushInv, UnitsThere, UnitsDrained, [Next]_vars
  PROVE  UnitsDrained'
<1>0. ASSUME NEW v \in Versions PROVE AllClaimsOf(v)' = AllClaimsOf(v)
  BY DEF AllClaimsOf, ChunksOf
<1>1. ASSUME /\ applied \subseteq applied' /\ subjects' = subjects
             /\ \A x \in Rows : status'[x] \in {"handled", "succeeded"} =>
                                  status[x] \in {"handled", "succeeded"}
      PROVE  UnitsDrained'
  BY <1>0, <1>1, OfUnit DEF UnitsDrained
<1>2. ASSUME NEW r \in SiblingRows, Handle(r) PROVE UnitsDrained'
  <2>1. SUFFICES ASSUME NEW v \in Versions, NEW e \in Entities,
                        status'[Flush(v, e)] \in {"handled", "succeeded"},
                        NEW c \in AllClaimsOf(v), e \in subjects[c]
                 PROVE  <<c, e>> \in applied'
    BY <1>0, <1>2 DEF UnitsDrained, Handle
  <2>2. applied \subseteq applied'
    BY <1>2 DEF Handle
  <2>3. CASE r # Flush(v, e)
    <3>1. status[Flush(v, e)] \in {"handled", "succeeded"}
      BY <1>2, <2>1, <2>3, OfUnit DEF Handle, FlushInv, TypeOK
    <3> QED
      BY <2>1, <2>2, <3>1 DEF UnitsDrained
  <2>4. CASE r = Flush(v, e)
    <3>1. status[Flush(v, e)] # "absent"
      BY <1>2, <2>4 DEF Handle
    <3>2. ExtractDone(v)
      BY <3>1 DEF UnitsThere, FlushInv, FlushCoversTheVersion
    <3>3. v \in VersionsWith(c) /\ c \in Claims
      BY <3>2, Counted, OfClaim DEF VersionsWith
    <3>4. <<c, e>> \in Eligible(e)
      BY <2>1, <3>1, <3>3 DEF Eligible
    <3>5. r[3] = e /\ r \in FlushRows
      BY <2>4, OfUnit DEF Flush
    <3> QED
      BY <1>2, <3>4, <3>5 DEF Handle
  <2> QED
    BY <2>3, <2>4
<1>3. ASSUME NEW r \in SiblingRows, Begin(r) \/ TakeLock(r) \/ Evaluate(r) PROVE UnitsDrained'
  BY <1>1, <1>3 DEF Begin, TakeLock, Evaluate
<1>4. ASSUME NEW r \in SiblingRows, Commit(r) PROVE UnitsDrained'
  BY <1>1, <1>4, Committed DEF Commits
<1>5. ASSUME NEW r \in SiblingRows, Abort(r) PROVE UnitsDrained'
  BY <1>1, <1>5, RowTypes DEF Abort, FlushInv, TypeOK
<1>6. CASE UNCHANGED vars
  BY <1>1, <1>6 DEF vars
<1> QED
  BY <1>2, <1>3, <1>4, <1>5, <1>6 DEF Next

LEMMA UnitsEvaluate ==
  ASSUME BarrierAssumption, FlushInv, UnitInv, NEW r \in SiblingRows, Evaluate(r)
  PROVE  UnitsWritten' /\ UnitsThere' /\ LastUnit'
<1>1. PICK w \in tx[r].todo : \E out \in Outcomes(r, w) : Wrote(r, w, out)
  BY Evaluated
<1>2. PICK out \in Outcomes(r, w) : Wrote(r, w, out)
  BY <1>1
<1>3. /\ UNCHANGED <<status, flushState, subjects, attached, applied>> /\ status[r] = "handled"
      /\ tx[r].open /\ w \in Versions
  BY <1>2 DEF Wrote, FlushInv, TxInv
<1>4. ASSUME NEW v \in Versions
      PROVE  /\ AllEntities(v)' = AllEntities(v) /\ FlushUnits(v)' = FlushUnits(v)
             /\ AllEntities(v) \subseteq Entities
  BY <1>3, EntitiesTyped DEF AllEntities, AllClaimsOf, ChunksOf, FlushUnits, FlushInv
<1>5. UnitsWritten'
  <2>1. SUFFICES ASSUME NEW x \in SiblingRows, NEW v \in Versions
                 PROVE  /\ \A e \in Entities :
                             Flush(v, e) \in tx'[x].inserts =>
                               <<v, "materialized">> \in tx'[x].marks
                        /\ <<v, "materialized">> \in tx'[x].marks =>
                             /\ AllEntities(v) # {}
                             /\ \A e \in AllEntities(v) : Flush(v, e) \in tx'[x].inserts
    BY <1>4 DEF UnitsWritten
  <2>2. CASE x # r
    BY <1>2, <2>2 DEF Wrote, UnitInv, UnitsWritten
  <2>3. CASE x = r
    <3>1. /\ \A e \in Entities : Flush(v, e) \in out.rows => <<v, "materialized">> \in out.marks
          /\ <<v, "materialized">> \in out.marks =>
               AllEntities(v) # {} /\ \A e \in AllEntities(v) : Flush(v, e) \in out.rows
      BY <1>3, OutcomeUnits
    <3> QED
      BY <1>2, <2>3, <3>1 DEF Wrote, UnitInv, UnitsWritten
  <2> QED
    BY <2>2, <2>3
<1>6. UnitsThere'
  BY <1>3, <1>4 DEF UnitInv, UnitsThere
<1>7. ASSUME NEW v \in Versions, NEW e \in Entities, Passed(Flush(v, e), v)'
      PROVE  \/ <<v, "barrier_complete">> \in tx'[Flush(v, e)].marks
             \/ flushState[v] # "materialized"
             \/ \E u \in FlushUnits(v) \ {Flush(v, e)} : ~Done(u)
  <2>1. CASE Passed(Flush(v, e), v)
    <3>1. tx[Flush(v, e)].marks \subseteq tx'[Flush(v, e)].marks
      BY <1>2, OfUnit DEF Wrote
    <3> QED
      BY <2>1, <3>1 DEF UnitInv, LastUnit
  <2>2. CASE ~Passed(Flush(v, e), v)
    <3>1. r = Flush(v, e) /\ w = v
      BY <1>2, <1>7, <2>2, OfUnit DEF Passed, OpenTx, Wrote
    <3>2. SUFFICES ASSUME flushState[v] = "materialized",
                          \A u \in FlushUnits(v) \ {r} : Done(u)
                   PROVE  <<v, "barrier_complete">> \in out.marks
      BY <1>2, <3>1 DEF Wrote
    <3>3. r \in FlushUnits(v) /\ \A u \in FlushUnits(v) : Sees(r, u)
      BY <1>3, <3>1, <3>2, OfUnit DEF FlushUnits, Sees, Done
    <3>4. Applications(v) \subseteq applied
      <4>1. SUFFICES ASSUME NEW c \in ClaimsOf(v), NEW f \in Entities, f \in subjects[c]
                     PROVE  <<c, f>> \in applied
        BY DEF Applications
      <4>2. c \in AllClaimsOf(v)
        BY DEF ClaimsOf, AllClaimsOf
      <4>3. f \in AllEntities(v)
        BY <4>1, <4>2 DEF AllEntities
      <4>4. Flush(v, f) \in FlushUnits(v)
        BY <3>2, <4>3, OfUnit DEF UnitInv, UnitsThere, FlushUnits
      <4>5. status[Flush(v, f)] \in {"handled", "succeeded"}
        BY <1>3, <3>3, <4>4 DEF Sees
      <4> QED
        BY <4>1, <4>2, <4>5 DEF UnitInv, UnitsDrained
    <3>5. FlushReady(r, v)
      BY <3>3, <3>4 DEF FlushReady
    <3>6. out \in FlushBarrier(r, v)
      BY <3>1, OutcomesOf
    <3>7. out = [rows |-> {Supersession(v)}, marks |-> {<<v, "barrier_complete">>},
                 defers |-> {}, enters |-> {}]
      BY <3>2, <3>5, <3>6 DEF FlushBarrier, Nothing
    <3> QED
      BY <3>7
  <2> QED
    BY <2>1, <2>2
<1>8. LastUnit'
  BY <1>3, <1>4, <1>7 DEF UnitInv, LastUnit, FlushOpened, Done
<1> QED
  BY <1>5, <1>6, <1>8

LEMMA UnitsCommit ==
  ASSUME BarrierAssumption, SupInv, LockInv, UnitInv, NEW r \in SiblingRows, Commit(r)
  PROVE  UnitsWritten' /\ UnitsThere' /\ LastUnit'
<1>1. Commits(r) /\ FlushInv
  BY Committed DEF SupInv
<1>2. ASSUME NEW v \in Versions
      PROVE  AllEntities(v)' = AllEntities(v) /\ AllEntities(v) \subseteq Entities
  BY <1>1, EntitiesTyped DEF AllEntities, AllClaimsOf, ChunksOf, Commits, FlushInv
<1>3. ASSUME NEW v \in Versions, NEW e \in Entities
      PROVE  /\ Done(Flush(v, e))' <=> r = Flush(v, e) \/ Done(Flush(v, e))
             /\ status'[Flush(v, e)] # "absent" <=>
                  status[Flush(v, e)] # "absent" \/ Flush(v, e) \in tx[r].inserts
  BY <1>1, OfUnit DEF Commits
<1>4. ASSUME NEW v \in Versions, flushState'[v] = "materialized"
      PROVE  \/ /\ flushState[v] = "materialized"
                /\ \A s \in FlushStates : <<v, s>> \notin tx[r].marks
             \/ <<v, "materialized">> \in tx[r].marks /\ flushState[v] = "none"
  BY <1>1, <1>4 DEF Commits, SupInv, MarksFollow, Follows
<1>5. UnitsWritten'
  <2>1. SUFFICES ASSUME NEW x \in SiblingRows, NEW v \in Versions
                 PROVE  /\ \A e \in Entities :
                             Flush(v, e) \in tx'[x].inserts =>
                               <<v, "materialized">> \in tx'[x].marks
                        /\ <<v, "materialized">> \in tx'[x].marks =>
                             /\ AllEntities(v) # {}
                             /\ \A e \in AllEntities(v) : Flush(v, e) \in tx'[x].inserts
    BY <1>2 DEF UnitsWritten
  <2>2. tx'[x] = tx[x] \/ (tx'[x].inserts = {} /\ tx'[x].marks = {})
    BY <1>1 DEF Commits
  <2> QED
    BY <2>2 DEF UnitInv, UnitsWritten
<1>6. UnitsThere'
  <2>1. ASSUME NEW v \in Versions, NEW e \in Entities, status'[Flush(v, e)] # "absent"
        PROVE  flushState'[v] # "none"
    <3>1. "materialized" \in FlushStates
      BY DEF FlushStates
    <3>2. flushState[v] # "none" \/ Marked(r, v)
      BY <1>3, <2>1, <3>1 DEF UnitInv, UnitsThere, UnitsWritten, Marked
    <3> QED
      BY <1>1, <3>2, FlushSet
  <2>2. ASSUME NEW v \in Versions, flushState'[v] = "materialized", NEW e \in AllEntities(v)
        PROVE  status'[Flush(v, e)] # "absent"
    BY <1>2, <1>3, <1>4, <2>2 DEF UnitInv, UnitsThere, UnitsWritten
  <2> QED
    BY <1>2, <2>1, <2>2 DEF UnitsThere
<1>7. ASSUME NEW v \in Versions, NEW u \in FlushUnits(v)
      PROVE  u \in FlushUnits(v)' /\ (u # r => (Done(u)' <=> Done(u)))
  <2>1. PICK e \in Entities : u = Flush(v, e)
    BY DEF FlushUnits
  <2> QED
    BY <1>3, <2>1, OfUnit DEF FlushUnits
<1>8. ASSUME NEW v \in Versions, NEW e \in Entities, Passed(Flush(v, e), v)'
      PROVE  \/ <<v, "barrier_complete">> \in tx'[Flush(v, e)].marks
             \/ flushState'[v] # "materialized"
             \/ \E u \in FlushUnits(v)' \ {Flush(v, e)} : ~Done(u)'
  <2>1. r # Flush(v, e) /\ tx'[Flush(v, e)] = tx[Flush(v, e)] /\ Passed(Flush(v, e), v)
    BY <1>1, <1>8, OfUnit DEF Commits, Passed, OpenTx
  <2>2. \A f \in Entities : r # Flush(v, f)
    BY <1>1, <2>1, OfUnit, OneAtATime DEF Commits, Passed, OpenTx, LockInv
  <2>3. flushState[v] # "none"
    BY <1>1, <2>1, OfUnit DEF UnitInv, UnitsThere, Passed, OpenTx, FlushInv, TxInv
  <2>4. flushState[v] # "materialized" => flushState'[v] # "materialized"
    BY <1>4, <2>3
  <2>5. \A u \in FlushUnits(v) : u # r
    BY <2>2 DEF FlushUnits
  <2>6. \/ <<v, "barrier_complete">> \in tx[Flush(v, e)].marks
        \/ flushState[v] # "materialized"
        \/ \E u \in FlushUnits(v) \ {Flush(v, e)} : ~Done(u)
    BY <2>1 DEF UnitInv, LastUnit
  <2> QED
    BY <1>7, <2>1, <2>4, <2>5, <2>6
<1>9. ASSUME NEW v \in Versions, flushState'[v] = "materialized"
      PROVE  \E u \in FlushUnits(v)' : ~Done(u)'
  <2>1. CASE /\ flushState[v] = "materialized"
             /\ \A s \in FlushStates : <<v, s>> \notin tx[r].marks
    <3>1. PICK u \in FlushUnits(v) : ~Done(u)
      BY <2>1 DEF UnitInv, LastUnit, FlushOpened
    <3>2. CASE u # r
      BY <1>7, <3>1, <3>2
    <3>3. CASE u = r
      <4>1. PICK e \in Entities : r = Flush(v, e)
        BY <3>3 DEF FlushUnits
      <4>2. Passed(Flush(v, e), v)
        BY <1>1, <4>1, OfUnit DEF Commits, Passed, OpenTx
      <4>3. "barrier_complete" \in FlushStates
        BY DEF FlushStates
      <4>4. \E x \in FlushUnits(v) \ {r} : ~Done(x)
        BY <2>1, <4>1, <4>2, <4>3 DEF UnitInv, LastUnit
      <4> QED
        BY <1>7, <4>4
    <3> QED
      BY <3>2, <3>3
  <2>2. CASE <<v, "materialized">> \in tx[r].marks /\ flushState[v] = "none"
    <3>1. PICK e \in AllEntities(v) : Flush(v, e) \in tx[r].inserts
      BY <2>2 DEF UnitInv, UnitsWritten
    <3>2. e \in Entities /\ status[Flush(v, e)] = "absent"
      BY <1>2, <2>2 DEF UnitInv, UnitsThere
    <3>3. r # Flush(v, e) /\ ~Done(Flush(v, e))
      BY <1>1, <3>2 DEF Commits, Done
    <3>4. Flush(v, e) \in FlushUnits(v)' /\ ~Done(Flush(v, e))'
      BY <1>3, <3>1, <3>2, <3>3, OfUnit DEF FlushUnits
    <3> QED
      BY <3>4
  <2> QED
    BY <1>4, <1>9, <2>1, <2>2
<1>10. LastUnit'
  BY <1>8, <1>9 DEF LastUnit, FlushOpened
<1> QED
  BY <1>5, <1>6, <1>10

LEMMA UnitStep ==
  ASSUME BarrierAssumption, SupInv, LockInv, UnitInv, [Next]_vars
  PROVE  UnitInv'
<1>0. FlushInv
  BY DEF SupInv
<1>1. UnitsDrained'
  BY <1>0, DrainedStep DEF UnitInv
<1>2. CASE Quiet
  BY <1>0, <1>1, <1>2, UnitsQuiet DEF UnitInv
<1>3. ASSUME NEW r \in SiblingRows, Evaluate(r) PROVE UnitInv'
  BY <1>0, <1>1, <1>3, UnitsEvaluate DEF UnitInv
<1>4. ASSUME NEW r \in SiblingRows, Commit(r) PROVE UnitInv'
  BY <1>0, <1>1, <1>4, UnitsCommit DEF UnitInv
<1> QED
  BY <1>0, <1>2, <1>3, <1>4, QuietSteps, QuietStutter DEF Next

-----------------------------------------------------------------------------
(* What between transactions has all its siblings has opened what follows *)

OpenedInv == SupInv /\ LockInv /\ SelectInv /\ ExtractInv /\ GateInv /\ UnitInv

LEMMA OpenedInit ==
  ASSUME BarrierAssumption, Init
  PROVE  OpenedInv
<1>1. FlushInv /\ OpenTx = {}
  BY InvInit DEF Init, OpenTx, NoTx
<1>2. \A r \in SiblingRows : /\ ~tx[r].open /\ tx[r].todo = {} /\ tx[r].locks = {}
                             /\ tx[r].marks = {} /\ tx[r].inserts = {} /\ tx[r].enters = {}
  BY DEF Init, NoTx
<1>3. ASSUME NEW v \in Versions
      PROVE  /\ status[Supersession(v)] = "absent"
             /\ \A e \in Entities : status[Flush(v, e)] = "absent"
             /\ \A ch \in ChunksOf(v) : ~Done(Selection(ch)) /\ ~Done(Grounding(ch))
             /\ \E ch \in ChunksOf(v) : TRUE
             /\ flushState[v] = "none"
  <2>1. /\ Supersession(v) \in Rows \ SelectionRows
        /\ \A e \in Entities : Flush(v, e) \in Rows \ SelectionRows
    BY RowTypes, Distinct DEF SelectionRows
  <2>2. \A x \in Rows : status[x] \in {"pending", "absent"}
    BY DEF Init
  <2>3. \A ch \in ChunksOf(v) : ~Done(Selection(ch)) /\ ~Done(Grounding(ch))
    BY <2>2, OfChunk DEF Done
  <2>4. \E ch \in ChunksOf(v) : TRUE
    BY DEF BarrierAssumption, ChunksOf
  <2> QED
    BY <2>1, <2>3, <2>4 DEF Init
<1>4. SupInv
  BY <1>1, <1>2, <1>3 DEF SupInv, MarksAlone, MarksFollow, FinishesInv, FinishedInv
<1>5. LockInv
  BY <1>2, OwnersOf DEF LockInv, LockedOn
<1>6. \A x, v : ~Passed(x, v)
  BY <1>1 DEF Passed
<1>7. SelectInv /\ ExtractInv
  BY <1>3, <1>6 DEF SelectInv, ExtractInv, SelectionOpened, ExtractOpened, ExtractDone, Closes
<1>8. GateInv
  BY <1>2, <1>3, <1>6
  DEF GateInv, EnterInv, ClosesAlone, OneByOne, NormalizeOpened, ExtractDone, Closes
<1>9. UnitInv
  BY <1>2, <1>3, <1>6
  DEF UnitInv, UnitsWritten, UnitsDrained, UnitsThere, LastUnit, FlushOpened
<1> QED
  BY <1>4, <1>5, <1>7, <1>8, <1>9 DEF OpenedInv

(* complete_chunk_extract, complete_claim_normalize, and the barriers     *)
(* before and after them: however claims are shared, however many         *)
(* completions are open at once and whichever die, no barrier stays       *)
(* closed over completed siblings, in any version but those whose last    *)
(* extraction, or entry to facts, met a claim's completion.               *)
THEOREM BarriersMissedOnlyInTheRace == Spec => []MissedOnlyInTheRace
<1>1. Init => OpenedInv
  BY BarrierAssumption, OpenedInit
<1>2. OpenedInv /\ [Next]_vars => OpenedInv'
  BY BarrierAssumption, SupStep, LockStep, SelectStep, ExtractStep, GateStep, UnitStep
  DEF OpenedInv, SupInv
<1>3. OpenedInv => MissedOnlyInTheRace
  BY DEF OpenedInv, SelectInv, ExtractInv, GateInv, UnitInv, LastUnit, MissedOnlyInTheRace,
         BarriersOpened
<1> QED
  BY <1>1, <1>2, <1>3, PTL DEF Spec
=============================================================================
