------------------------------ MODULE Worklist ------------------------------
(***************************************************************************)
(* What the work ledger promises the pipeline, with no slots, leases,      *)
(* attempts or lanes: a unit of work that was asked for stays open until   *)
(* it is done or given up, it is done at most once, and doing it opens     *)
(* what it chains in the same step.                                        *)
(***************************************************************************)
CONSTANTS Rows, FollowUps

VARIABLES open, done, dropped

vars  == <<open, done, dropped>>
known == open \cup done \cup dropped

Init == open = {} /\ done = {} /\ dropped = {}

Ask(r) ==
  /\ r \notin known
  /\ open' = open \cup {r}
  /\ UNCHANGED <<done, dropped>>

Finish(r) ==
  /\ r \in open
  /\ done' = done \cup {r}
  /\ open' = (open \ {r}) \cup (FollowUps[r] \ known)
  /\ UNCHANGED dropped

GiveUp(S) ==
  /\ S # {} /\ S \subseteq open
  /\ open' = open \ S
  /\ dropped' = dropped \cup S
  /\ UNCHANGED done

Reopen(r) ==
  /\ r \in dropped
  /\ open' = open \cup {r}
  /\ dropped' = dropped \ {r}
  /\ UNCHANGED done

Next ==
  \/ \E r \in Rows : Ask(r) \/ Finish(r) \/ Reopen(r)
  \/ \E S \in SUBSET Rows : GiveUp(S)

Spec == Init /\ [][Next]_vars
=============================================================================
