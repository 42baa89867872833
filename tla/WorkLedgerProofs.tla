-------------------------- MODULE WorkLedgerProofs --------------------------
(***************************************************************************)
(* What WorkLedger guarantees for any rows, slots, sweepers, call keys and *)
(* attempt budgets.                                                        *)
(*                                                                         *)
(* The heart is ClaimInv.  A claim is identified by its attempt number and *)
(* a park gives the number back, so the number can be issued twice.  It is *)
(* safe because only the running claim can give it back, and every other   *)
(* slot still holding the row then holds a strictly smaller number.        *)
(***************************************************************************)
EXTENDS WorkLedger, TLAPS

(* Attempt numbers start at one, so a park never takes them below zero.    *)
HeldPositive == \A w \in Workers : heldRow[w] # None => heldAttempt[w] >= 1

(* The row a slot will insert can be claimed once it exists.               *)
AbsentRowsHaveRetryLeft == \A r \in Rows : status[r] = "absent" => RetryLeft(r)

(* No call is billed under an attempt number the row has yet to issue.     *)
CostsReached == \A c \in costs : c[2] <= attempts[c[1]]

ClaimInv == TypeOK /\ HeldPositive /\ HeldAttemptsReached /\ OnlyOwnerPassesFence

RowInv == RowChecksHold /\ NoStrandedRow /\ AbsentRowsHaveRetryLeft

IInv == ClaimInv /\ RowInv /\ CostsReached /\ BilledByThisClaim /\ BudgetParkIsOfOwnLane

USE DEF Lanes, FactReasons, Reasons, Statuses, Queued, Actors

-----------------------------------------------------------------------------
(* Every row keeps its type: the refund of a park is of a positive number. *)
LEMMA TypeStep ==
  ASSUME LedgerAssumption, TypeOK, HeldPositive, [Next]_vars
  PROVE  TypeOK'
<1> USE DEF TypeOK, EndRun, LetGo
<1>1. ASSUME NEW r \in Rows, NEW l \in Lanes, NEW reason \in {None, "no_route"},
             NEW now \in BOOLEAN, Enqueue(r, l, reason, now)
      PROVE  TypeOK'
  <2>1. /\ status' \in [Rows -> Statuses]
        /\ lane' \in [Rows -> Lanes]
        /\ defer' \in [Rows -> Reasons \cup {None}]
        /\ due' \in [Rows -> BOOLEAN]
    BY <1>1 DEF Enqueue, EnqueueAll
  <2> QED
    BY <1>1, <2>1 DEF Enqueue, heldVars
<1>2. ASSUME NEW w \in Workers, NEW r \in Rows, Claim(w, r)
      PROVE  TypeOK'
  BY <1>2 DEF Claim
<1>3. ASSUME NEW r \in Rows, BudgetPark(r) \/ BecomesDue(r) \/ LeaseLapses(r)
      PROVE  TypeOK'
  BY <1>3 DEF BudgetPark, BecomesDue, LeaseLapses, heldVars
<1>4. ASSUME NEW w \in Workers, RenewLease(w)
      PROVE  TypeOK'
  BY <1>4 DEF RenewLease, heldVars
<1>5. ASSUME NEW w \in Workers, Complete(w)
      PROVE  TypeOK'
  <2>1. heldRow[w] \in Rows
    BY <1>5 DEF Complete, Fenced
  <2>2. /\ status' \in [Rows -> Statuses]
        /\ lane' \in [Rows -> Lanes]
        /\ defer' \in [Rows -> Reasons \cup {None}]
        /\ due' \in [Rows -> BOOLEAN]
    BY <1>5, <2>1 DEF Complete, EnqueueAll, LedgerAssumption
  <2> QED
    BY <1>5, <2>1, <2>2 DEF Complete
<1>6. ASSUME NEW w \in Workers, FailRetry(w)
      PROVE  TypeOK'
  BY <1>6 DEF FailRetry, Fenced
<1>7. ASSUME NEW w \in Workers, FailTerminal(w)
      PROVE  TypeOK'
  BY <1>7 DEF FailTerminal, Fenced
<1>8. ASSUME NEW w \in Workers, NEW reason \in FactReasons, NEW stands \in BOOLEAN,
             Park(w, reason, stands)
      PROVE  TypeOK'
  <2>1. heldRow[w] \in Rows /\ attempts[heldRow[w]] - 1 \in Nat
    BY <1>8 DEF Park, MayPark, Fenced, HeldPositive
  <2>2. attempts' \in [Rows -> Nat]
    BY <1>8, <2>1 DEF Park, Refund
  <2> QED
    BY <1>8, <2>1, <2>2 DEF Park
<1>9. ASSUME NEW w \in Workers, LeaseLost(w)
      PROVE  TypeOK'
  BY <1>9 DEF LeaseLost, rowVars
<1>10. ASSUME NEW s \in Sweepers, NEW S \in SUBSET Rows, Reap(s, S)
       PROVE  TypeOK'
  BY <1>10 DEF Reap, heldVars
<1>11. ASSUME NEW a \in Actors, NEW r \in Rows, Finalize(a, r)
       PROVE  TypeOK'
  BY <1>11 DEF Finalize, rowVars, heldVars
<1>12. ASSUME NEW a \in Actors, Die(a)
       PROVE  TypeOK'
  BY <1>12 DEF Die, rowVars, heldVars
<1>13. ASSUME NEW reason \in FactReasons, NEW S \in SUBSET ConvertRows, Release(reason, S)
       PROVE  TypeOK'
  BY <1>13 DEF Release, heldVars
<1>14. ASSUME NEW r \in Rows, NEW l \in Lanes, NEW allowance \in 1..AttemptCeiling,
              NEW now \in BOOLEAN, ReplayDeadLetter(r, allowance, l, now)
       PROVE  TypeOK'
  BY <1>14 DEF ReplayDeadLetter, heldVars, LedgerAssumption
<1>15. ASSUME NEW w \in Workers, NEW k \in CallKeys, RecordCall(w, k)
       PROVE  TypeOK'
  BY <1>15 DEF RecordCall, rowVars, Fenced
<1>16. CASE UNCHANGED vars
  BY <1>16 DEF vars, rowVars, heldVars
<1> HIDE DEF TypeOK, EndRun, LetGo
<1> QED
  BY <1>1, <1>2, <1>3, <1>4, <1>5, <1>6, <1>7, <1>8, <1>9, <1>10, <1>11, <1>12, <1>13,
     <1>14, <1>15, <1>16
  DEF Next, EndAttempt

(* A claim's number identifies it: issuing, refunding and reusing numbers  *)
(* never lets a slot that is not the owner pass the fence.                 *)
LEMMA ClaimStep ==
  ASSUME LedgerAssumption, ClaimInv, [Next]_vars
  PROVE  HeldPositive' /\ HeldAttemptsReached' /\ OnlyOwnerPassesFence'
<1> DEFINE Goal == HeldPositive' /\ HeldAttemptsReached' /\ OnlyOwnerPassesFence'
<1> USE DEF ClaimInv, TypeOK, HeldPositive, HeldAttemptsReached, OnlyOwnerPassesFence, Fenced
<1>1. ASSUME NEW r \in Rows, NEW l \in Lanes, NEW reason \in {None, "no_route"},
             NEW now \in BOOLEAN, Enqueue(r, l, reason, now)
      PROVE  Goal
  <2>1. \A q \in Rows : /\ status'[q] = "running" => status[q] = "running"
                        /\ status'[q] = "absent" => status[q] = "absent"
    BY <1>1 DEF Enqueue, EnqueueAll
  <2> QED
    BY <1>1, <2>1 DEF Enqueue, heldVars
<1>2. ASSUME NEW w \in Workers, NEW r \in Rows, Claim(w, r)
      PROVE  Goal
  BY <1>2 DEF Claim, Claimable
<1>3. ASSUME NEW r \in Rows, BudgetPark(r) \/ BecomesDue(r) \/ LeaseLapses(r)
      PROVE  Goal
  BY <1>3 DEF BudgetPark, BecomesDue, LeaseLapses, heldVars
<1>4. ASSUME NEW w \in Workers, RenewLease(w)
      PROVE  Goal
  BY <1>4 DEF RenewLease, heldVars
<1>5. ASSUME NEW w \in Workers, Complete(w)
      PROVE  Goal
  <2>1. \A q \in Rows \ {heldRow[w]} :
          /\ status'[q] = "running" => status[q] = "running"
          /\ status'[q] = "absent" => status[q] = "absent"
    BY <1>5 DEF Complete, EnqueueAll
  <2>2. heldRow[w] \in Rows /\ status'[heldRow[w]] = "succeeded"
    BY <1>5 DEF Complete, EnqueueAll
  <2> QED
    BY <1>5, <2>1, <2>2 DEF Complete, LetGo, EndRun
<1>6. ASSUME NEW w \in Workers, FailRetry(w) \/ FailTerminal(w)
      PROVE  Goal
  <2> DEFINE r == heldRow[w]
  <2>1. /\ r \in Rows
        /\ \/ status' = [status EXCEPT ![r] = "failed"]
           \/ status' = [status EXCEPT ![r] = "dead_letter"]
        /\ attempts' = attempts
        /\ heldRow' = [heldRow EXCEPT ![w] = None]
        /\ heldAttempt' = [heldAttempt EXCEPT ![w] = 0]
        /\ owner' = [owner EXCEPT ![r] = None]
    BY <1>6 DEF FailRetry, FailTerminal, LetGo, EndRun
  <2> HIDE DEF r
  <2> QED
    BY <2>1
(* Another slot that holds the row holds a smaller number, or it would     *)
(* pass the fence and be the owner: the refunded number is still reached.  *)
<1>7. ASSUME NEW w \in Workers, NEW reason \in FactReasons, NEW stands \in BOOLEAN,
             Park(w, reason, stands)
      PROVE  Goal
  <2> DEFINE r == heldRow[w]
  <2>1. /\ r \in Rows
        /\ status' = [status EXCEPT ![r] = "pending"]
        /\ attempts' = [attempts EXCEPT ![r] = @ - 1]
    BY <1>7 DEF Park, MayPark, Refund
  <2>2. \A v \in Workers \ {w} : heldRow[v] = r => heldAttempt[v] <= attempts[r] - 1
    BY <1>7 DEF Park, MayPark
  <2>3. \A v \in Workers \ {w} : heldRow'[v] = heldRow[v] /\ heldAttempt'[v] = heldAttempt[v]
    BY <1>7 DEF Park, LetGo
  <2>4. heldRow'[w] = None
    BY <1>7 DEF Park, LetGo
  <2>5. \A q \in Rows \ {r} : owner'[q] = owner[q]
    BY <1>7 DEF Park, EndRun
  <2> HIDE DEF r
  <2> QED
    BY <2>1, <2>2, <2>3, <2>4, <2>5
<1>8. ASSUME NEW w \in Workers, LeaseLost(w)
      PROVE  Goal
  BY <1>8 DEF LeaseLost, rowVars, LetGo
<1>9. ASSUME NEW s \in Sweepers, NEW S \in SUBSET Rows, Reap(s, S)
      PROVE  Goal
  BY <1>9 DEF Reap, heldVars
<1>10. ASSUME NEW a \in Actors, NEW r \in Rows, Finalize(a, r)
       PROVE  Goal
  BY <1>10 DEF Finalize, rowVars, heldVars
<1>11. ASSUME NEW a \in Actors, Die(a)
       PROVE  Goal
  BY <1>11 DEF Die, rowVars, heldVars, LetGo
<1>12. ASSUME NEW reason \in FactReasons, NEW S \in SUBSET ConvertRows, Release(reason, S)
       PROVE  Goal
  BY <1>12 DEF Release, heldVars
<1>13. ASSUME NEW r \in Rows, NEW l \in Lanes, NEW allowance \in 1..AttemptCeiling,
              NEW now \in BOOLEAN, ReplayDeadLetter(r, allowance, l, now)
       PROVE  Goal
  BY <1>13 DEF ReplayDeadLetter, heldVars
<1>14. ASSUME NEW w \in Workers, NEW k \in CallKeys, RecordCall(w, k)
       PROVE  Goal
  BY <1>14 DEF RecordCall, rowVars
<1>15. CASE UNCHANGED vars
  BY <1>15 DEF vars, rowVars, heldVars
<1> HIDE DEF ClaimInv, TypeOK, HeldPositive, HeldAttemptsReached, OnlyOwnerPassesFence, Fenced
<1> QED
  BY <1>1, <1>2, <1>3, <1>4, <1>5, <1>6, <1>7, <1>8, <1>9, <1>10, <1>11, <1>12, <1>13,
     <1>14, <1>15
  DEF Next, EndAttempt

(* The table's checks, the budget of attempts and the parks' lanes survive *)
(* every step.                                                             *)
LEMMA RowStep ==
  ASSUME LedgerAssumption, ClaimInv, RowInv, BudgetParkIsOfOwnLane, [Next]_vars
  PROVE  RowInv' /\ BudgetParkIsOfOwnLane'
<1> DEFINE Goal == RowInv' /\ BudgetParkIsOfOwnLane'
<1> USE DEF ClaimInv, TypeOK, RowInv, RowChecksHold, NoStrandedRow, AbsentRowsHaveRetryLeft,
            BudgetParkIsOfOwnLane, RetryLeft
<1>1. ASSUME NEW r \in Rows, NEW l \in Lanes, NEW reason \in {None, "no_route"},
             NEW now \in BOOLEAN, Enqueue(r, l, reason, now)
      PROVE  Goal
  BY <1>1 DEF Enqueue, EnqueueAll, LiftsPark, LedgerAssumption
<1>2. ASSUME NEW w \in Workers, NEW r \in Rows, Claim(w, r)
      PROVE  Goal
  BY <1>2 DEF Claim, Claimable, LedgerAssumption
<1>3. ASSUME NEW r \in Rows, BudgetPark(r) \/ BecomesDue(r) \/ LeaseLapses(r)
      PROVE  Goal
  BY <1>3 DEF BudgetPark, BecomesDue, LeaseLapses, Claimable
<1>4. ASSUME NEW w \in Workers, Complete(w)
      PROVE  Goal
  <2> DEFINE r == heldRow[w]
             before == [status EXCEPT ![r] = "succeeded"]
  <2>1. r \in Rows /\ status[r] = "running"
    BY <1>4 DEF Complete, Fenced
  <2>2. \A q \in Rows \ {r} : before[q] = status[q]
    BY <2>1
  <2>3. before[r] = "succeeded" /\ defer[r] = None
    BY <2>1, LedgerAssumption DEF LedgerAssumption
  <2> HIDE DEF RowInv, ClaimInv, BudgetParkIsOfOwnLane
  <2>4. EnqueueAll(FollowUps[r], lane[r], before, None, TRUE) /\ UNCHANGED <<attempts, maxAttempts>>
    BY <1>4 DEF Complete
  <2> USE DEF RowInv, ClaimInv, BudgetParkIsOfOwnLane
  <2> HIDE DEF r, before
  <2>5. \A q \in Rows :
          \/ before[q] = "absent" /\ status'[q] = "pending" /\ defer'[q] = None
          \/ /\ status'[q] = before[q]
             /\ defer'[q] = defer[q]
             /\ defer[q] = "budget" => lane'[q] = lane[q]
          \/ status'[q] = before[q] /\ defer[q] = "budget" /\ defer'[q] = None
    BY <2>1, <2>2, <2>3, <2>4 DEF EnqueueAll, LiftsPark
  <2> QED
    BY <2>1, <2>2, <2>3, <2>4, <2>5 DEF LedgerAssumption
<1>5. ASSUME NEW w \in Workers, FailRetry(w)
      PROVE  Goal
  BY <1>5 DEF FailRetry, Fenced
<1>6. ASSUME NEW w \in Workers, FailTerminal(w)
      PROVE  Goal
  BY <1>6 DEF FailTerminal, Fenced, LedgerAssumption
<1>7. ASSUME NEW w \in Workers, NEW reason \in FactReasons, NEW stands \in BOOLEAN,
             Park(w, reason, stands)
      PROVE  Goal
  <2>1. heldRow[w] \in Rows /\ attempts[heldRow[w]] >= 1
    BY <1>7 DEF Park, MayPark, Fenced, HeldPositive
  <2> QED
    BY <1>7, <2>1 DEF Park, Refund, LedgerAssumption
<1>8. ASSUME NEW s \in Sweepers, NEW S \in SUBSET Rows, Reap(s, S)
      PROVE  Goal
  BY <1>8 DEF Reap, Expired
<1>9. ASSUME NEW reason \in FactReasons, NEW S \in SUBSET ConvertRows, Release(reason, S)
      PROVE  Goal
  BY <1>9 DEF Release, LedgerAssumption
<1>10. ASSUME NEW r \in Rows, NEW l \in Lanes, NEW allowance \in 1..AttemptCeiling,
              NEW now \in BOOLEAN, ReplayDeadLetter(r, allowance, l, now)
       PROVE  Goal
  BY <1>10 DEF ReplayDeadLetter, LedgerAssumption
<1>11. CASE UNCHANGED <<status, attempts, maxAttempts, lane, defer>>
  BY <1>11
<1>12. /\ \A w \in Workers : RenewLease(w) \/ LeaseLost(w) =>
                              UNCHANGED <<status, attempts, maxAttempts, lane, defer>>
       /\ \A w \in Workers, k \in CallKeys : RecordCall(w, k) =>
                              UNCHANGED <<status, attempts, maxAttempts, lane, defer>>
       /\ \A a \in Actors : Die(a) => UNCHANGED <<status, attempts, maxAttempts, lane, defer>>
       /\ \A a \in Actors, r \in Rows : Finalize(a, r) =>
                              UNCHANGED <<status, attempts, maxAttempts, lane, defer>>
       /\ UNCHANGED vars => UNCHANGED <<status, attempts, maxAttempts, lane, defer>>
  BY DEF RenewLease, LeaseLost, RecordCall, Die, Finalize, vars, rowVars
<1> HIDE DEF ClaimInv, TypeOK, RowInv, RowChecksHold, NoStrandedRow, AbsentRowsHaveRetryLeft,
             BudgetParkIsOfOwnLane, RetryLeft
<1> QED
  BY <1>1, <1>2, <1>3, <1>4, <1>5, <1>6, <1>7, <1>8, <1>9, <1>10, <1>11, <1>12
  DEF Next, EndAttempt

(* A step that bills nothing, leaves every row's number alone and puts no  *)
(* new slot behind the fence preserves the attribution of calls.           *)
LEMMA BilledFrame ==
  ASSUME ClaimInv, CostsReached, BilledByThisClaim, UNCHANGED <<costs, attempts>>,
         \A w \in Workers : Fenced(w)' =>
           /\ Fenced(w)
           /\ heldRow'[w] = heldRow[w]
           /\ heldAttempt'[w] = heldAttempt[w]
           /\ heldCalls'[w] = heldCalls[w]
  PROVE  CostsReached' /\ BilledByThisClaim'
<1>1. CostsReached'
  BY DEF CostsReached
<1>2. ASSUME NEW w \in Workers, Fenced(w)'
      PROVE  {k \in CallKeys : <<heldRow'[w], heldAttempt'[w], k>> \in costs'} = heldCalls'[w]
  BY <1>2 DEF BilledByThisClaim
<1> QED
  BY <1>1, <1>2 DEF BilledByThisClaim

(* The calls billed under the running number are those of the claim that   *)
(* holds it: a new claim's number has no calls yet, and a number is given  *)
(* back only by a claim that billed none.                                  *)
LEMMA BilledStep ==
  ASSUME LedgerAssumption, ClaimInv, CostsReached, BilledByThisClaim, [Next]_vars
  PROVE  CostsReached' /\ BilledByThisClaim'
<1> DEFINE Goal == CostsReached' /\ BilledByThisClaim'
<1>t. TypeOK /\ OnlyOwnerPassesFence /\ HeldAttemptsReached /\ HeldPositive
  BY DEF ClaimInv
<1>1. ASSUME NEW r \in Rows, NEW l \in Lanes, NEW reason \in {None, "no_route"},
             NEW now \in BOOLEAN, Enqueue(r, l, reason, now)
      PROVE  Goal
  <2>1. \A q \in Rows : status'[q] = "running" => status[q] = "running"
    BY <1>1 DEF Enqueue, EnqueueAll
  <2>2. UNCHANGED <<attempts, costs, heldRow, heldAttempt, heldCalls>>
    BY <1>1 DEF Enqueue, heldVars
  <2> QED
    BY <2>1, <2>2, <1>t, BilledFrame DEF Fenced, TypeOK
<1>2. ASSUME NEW w \in Workers, NEW r \in Rows, Claim(w, r)
      PROVE  Goal
  <2>1. /\ attempts' = [attempts EXCEPT ![r] = @ + 1]
        /\ status' = [status EXCEPT ![r] = "running"]
        /\ heldRow' = [heldRow EXCEPT ![w] = r]
        /\ heldAttempt' = [heldAttempt EXCEPT ![w] = attempts[r] + 1]
        /\ heldCalls' = [heldCalls EXCEPT ![w] = {}]
        /\ costs' = costs
    BY <1>2 DEF Claim
  <2>2. CostsReached'
    BY <2>1, <1>t DEF CostsReached, TypeOK
  <2>3. {k \in CallKeys : <<r, attempts[r] + 1, k>> \in costs} = {}
    BY <1>t DEF CostsReached, TypeOK
  <2>4. ASSUME NEW v \in Workers \ {w}, Fenced(v)'
        PROVE  /\ heldRow'[v] = heldRow[v] /\ heldAttempt'[v] = heldAttempt[v]
               /\ heldCalls'[v] = heldCalls[v]
               /\ Fenced(v)
    BY <2>4, <2>1, <1>t DEF Fenced, TypeOK, HeldAttemptsReached
  <2>5. ASSUME NEW v \in Workers, Fenced(v)'
        PROVE  {k \in CallKeys : <<heldRow'[v], heldAttempt'[v], k>> \in costs'} = heldCalls'[v]
    <3>1. CASE v = w
      BY <3>1, <2>1, <2>3, <1>t DEF TypeOK
    <3>2. CASE v # w
      BY <3>2, <2>1, <2>4, <2>5 DEF BilledByThisClaim
    <3> QED
      BY <3>1, <3>2
  <2> QED
    BY <2>2, <2>5 DEF BilledByThisClaim
<1>3. ASSUME NEW r \in Rows, BudgetPark(r) \/ BecomesDue(r) \/ LeaseLapses(r)
      PROVE  Goal
  <2>1. /\ UNCHANGED <<attempts, costs, heldRow, heldAttempt, heldCalls>>
        /\ status' = status \/ status' = [status EXCEPT ![r] = "pending"]
    BY <1>3 DEF BudgetPark, BecomesDue, LeaseLapses, heldVars
  <2> QED
    BY <2>1, <1>t, BilledFrame DEF Fenced, TypeOK
<1>4. ASSUME NEW w \in Workers, RenewLease(w)
      PROVE  Goal
  BY <1>4, BilledFrame DEF RenewLease, heldVars, Fenced
<1>5. ASSUME NEW w \in Workers, Complete(w)
      PROVE  Goal
  <2>1. \A q \in Rows : status'[q] = "running" => status[q] = "running"
    BY <1>5, <1>t DEF Complete, EnqueueAll, Fenced, TypeOK
  <2>2. UNCHANGED <<attempts, costs>> /\ LetGo(w)
    BY <1>5 DEF Complete
  <2> QED
    BY <2>1, <2>2, <1>t, BilledFrame DEF Fenced, TypeOK, LetGo
<1>6. ASSUME NEW w \in Workers, FailRetry(w) \/ FailTerminal(w)
      PROVE  Goal
  <2>1. \A q \in Rows : status'[q] = "running" => status[q] = "running"
    BY <1>6, <1>t DEF FailRetry, FailTerminal, TypeOK
  <2>2. UNCHANGED <<attempts, costs>> /\ LetGo(w)
    BY <1>6 DEF FailRetry, FailTerminal
  <2> QED
    BY <2>1, <2>2, <1>t, BilledFrame DEF Fenced, TypeOK, LetGo
<1>7. ASSUME NEW w \in Workers, NEW reason \in FactReasons, NEW stands \in BOOLEAN,
             Park(w, reason, stands)
      PROVE  Goal
  <2> DEFINE r == heldRow[w]
  <2>1. /\ Fenced(w) /\ r \in Rows /\ heldCalls[w] = {}
        /\ attempts' = [attempts EXCEPT ![r] = @ - 1]
        /\ status' = [status EXCEPT ![r] = "pending"]
        /\ costs' = costs
        /\ LetGo(w)
    BY <1>7, <1>t DEF Park, MayPark, Refund, Fenced, TypeOK
  <2>2. \A k \in CallKeys : <<r, attempts[r], k>> \notin costs
    <3>1. heldAttempt[w] = attempts[r]
      BY <2>1 DEF Fenced
    <3>2. {k \in CallKeys : <<heldRow[w], heldAttempt[w], k>> \in costs} = {}
      BY <2>1 DEF BilledByThisClaim
    <3> QED
      BY <3>1, <3>2
  <2>3. CostsReached'
    BY <2>1, <2>2, <1>t DEF CostsReached, TypeOK
  <2>4. ASSUME NEW v \in Workers, Fenced(v)'
        PROVE  /\ Fenced(v)
               /\ heldRow'[v] = heldRow[v] /\ heldAttempt'[v] = heldAttempt[v]
               /\ heldCalls'[v] = heldCalls[v]
    BY <2>4, <2>1, <1>t DEF Fenced, TypeOK, LetGo
  <2> QED
    BY <2>1, <2>3, <2>4 DEF BilledByThisClaim
<1>8. ASSUME NEW w \in Workers, LeaseLost(w)
      PROVE  Goal
  BY <1>8, <1>t, BilledFrame DEF LeaseLost, rowVars, LetGo, Fenced, TypeOK
<1>9. ASSUME NEW s \in Sweepers, NEW S \in SUBSET Rows, Reap(s, S)
      PROVE  Goal
  BY <1>9, <1>t, BilledFrame DEF Reap, heldVars, Fenced, TypeOK
<1>10. ASSUME NEW a \in Actors, NEW r \in Rows, Finalize(a, r)
       PROVE  Goal
  BY <1>10, BilledFrame DEF Finalize, rowVars, heldVars, Fenced
<1>11. ASSUME NEW a \in Actors, Die(a)
       PROVE  Goal
  BY <1>11, <1>t, BilledFrame DEF Die, rowVars, heldVars, LetGo, Fenced, TypeOK
<1>12. ASSUME NEW reason \in FactReasons, NEW S \in SUBSET ConvertRows, Release(reason, S)
       PROVE  Goal
  BY <1>12, BilledFrame DEF Release, heldVars, Fenced
<1>13. ASSUME NEW r \in Rows, NEW l \in Lanes, NEW allowance \in 1..AttemptCeiling,
              NEW now \in BOOLEAN, ReplayDeadLetter(r, allowance, l, now)
       PROVE  Goal
  BY <1>13, <1>t, BilledFrame DEF ReplayDeadLetter, heldVars, Fenced, TypeOK
<1>14. ASSUME NEW w \in Workers, NEW k \in CallKeys, RecordCall(w, k)
       PROVE  Goal
  <2>1. /\ Fenced(w)
        /\ costs' = costs \cup {<<heldRow[w], heldAttempt[w], k>>}
        /\ heldCalls' = [heldCalls EXCEPT ![w] = @ \cup {k}]
        /\ UNCHANGED <<status, attempts, heldRow, heldAttempt>>
    BY <1>14 DEF RecordCall, rowVars
  <2>2. CostsReached'
    BY <2>1, <1>t DEF CostsReached, Fenced, TypeOK
  <2>3. ASSUME NEW v \in Workers, Fenced(v)'
        PROVE  {j \in CallKeys : <<heldRow'[v], heldAttempt'[v], j>> \in costs'} = heldCalls'[v]
    <3>1. Fenced(v)
      BY <2>1, <2>3 DEF Fenced
    <3>2. {j \in CallKeys : <<heldRow[v], heldAttempt[v], j>> \in costs} = heldCalls[v]
      BY <3>1 DEF BilledByThisClaim
    <3>3. CASE v = w
      BY <3>2, <3>3, <2>1, <1>t DEF TypeOK
    <3>4. CASE v # w
      <4>1. heldRow[v] # heldRow[w]
        BY <3>1, <3>4, <2>1, <1>t DEF OnlyOwnerPassesFence, Fenced
      <4> QED
        BY <4>1, <3>2, <3>4, <2>1, <1>t DEF TypeOK
    <3> QED
      BY <3>3, <3>4
  <2> QED
    BY <2>2, <2>3 DEF BilledByThisClaim
<1>15. CASE UNCHANGED vars
  BY <1>15, BilledFrame DEF vars, rowVars, heldVars, Fenced
<1> HIDE DEF Goal
<1> QED
  BY <1>1, <1>2, <1>3, <1>4, <1>5, <1>6, <1>7, <1>8, <1>9, <1>10, <1>11, <1>12, <1>13,
     <1>14, <1>15
  DEF Next, EndAttempt, Goal

-----------------------------------------------------------------------------
LEMMA InvInit ==
  ASSUME LedgerAssumption, Init
  PROVE  IInv
<1>1. TypeOK
  BY DEF LedgerAssumption, Init, TypeOK
<1> QED
  BY <1>1 DEF LedgerAssumption, Init, IInv, ClaimInv, RowInv, HeldPositive, HeldAttemptsReached,
     OnlyOwnerPassesFence, Fenced, RowChecksHold, NoStrandedRow, AbsentRowsHaveRetryLeft,
     RetryLeft, CostsReached, BilledByThisClaim, BudgetParkIsOfOwnLane

LEMMA InvStep ==
  ASSUME LedgerAssumption, IInv, [Next]_vars
  PROVE  IInv'
<1>1. ClaimInv'
  BY TypeStep, ClaimStep DEF IInv, ClaimInv
<1>2. RowInv' /\ BudgetParkIsOfOwnLane'
  BY RowStep DEF IInv
<1>3. CostsReached' /\ BilledByThisClaim'
  BY BilledStep DEF IInv
<1> QED
  BY <1>1, <1>2, <1>3 DEF IInv

(* The inductive invariant holds in every reachable state.                 *)
THEOREM Invariance == Spec => []IInv
<1> USE LedgerAssumption
<1>1. Init => IInv
  BY InvInit
<1>2. IInv /\ [Next]_vars => IInv'
  BY InvStep
<1> QED
  BY <1>1, <1>2, PTL DEF Spec

(* Every column, slot and cost row keeps its type.                         *)
THEOREM TypeCorrect == Spec => []TypeOK
<1>1. IInv => TypeOK
  BY DEF IInv, ClaimInv
<1> QED
  BY <1>1, Invariance, PTL

(* However long a slot stalls and however often parks reuse an attempt     *)
(* number, only the slot a row is running under can complete, fail, park,  *)
(* renew or bill that row.                                                 *)
THEOREM FenceIsOwnership == Spec => [](OnlyOwnerPassesFence /\ HeldAttemptsReached)
<1>1. IInv => OnlyOwnerPassesFence /\ HeldAttemptsReached
  BY DEF IInv, ClaimInv
<1> QED
  BY <1>1, Invariance, PTL

(* No transition of a row breaks a CHECK constraint of processing_state,   *)
(* which would abort the transaction that made it at every attempt.        *)
THEOREM ChecksNeverFire == Spec => []RowChecksHold
<1>1. IInv => RowChecksHold
  BY DEF IInv, RowInv
<1> QED
  BY <1>1, Invariance, PTL

(* Whatever lapses, releases and replays happen, a row that waits to be    *)
(* claimed has an attempt left.                                            *)
THEOREM NoRowIsStranded == Spec => []NoStrandedRow
<1>1. IInv => NoStrandedRow
  BY DEF IInv, RowInv
<1> QED
  BY <1>1, Invariance, PTL

(* A row that waits for a budget window is on a lane that has one: an      *)
(* enqueue that promotes it to another lane lifts the park.                *)
THEOREM BudgetParksAreOwn == Spec => []BudgetParkIsOfOwnLane
<1>1. IInv => BudgetParkIsOfOwnLane
  BY DEF IInv, RowInv
<1> QED
  BY <1>1, Invariance, PTL

(* The cost rows of a running attempt are exactly the calls of the claim   *)
(* that holds it.                                                          *)
THEOREM CallsAreAttributed == Spec => []BilledByThisClaim
<1>1. IInv => BilledByThisClaim
  BY DEF IInv
<1> QED
  BY <1>1, Invariance, PTL

(* What SettledStaysSettled asks of one row and one step.                  *)
StaysSettled(r) ==
  /\ status[r] = "succeeded" => status'[r] = "succeeded"
  /\ status[r] = "dead_letter" /\ status'[r] # "dead_letter" =>
       /\ attempts'[r] = attempts[r]
       /\ maxAttempts'[r] > attempts[r]

(* No step takes a row out of succeeded, and only granted attempts take    *)
(* one out of dead_letter.                                                 *)
LEMMA SettledStep ==
  ASSUME LedgerAssumption, TypeOK, [Next]_vars, NEW r \in Rows
  PROVE  StaysSettled(r)
<1> USE DEF StaysSettled
<1>1. ASSUME NEW q \in Rows, NEW l \in Lanes, NEW reason \in {None, "no_route"},
             NEW now \in BOOLEAN, Enqueue(q, l, reason, now)
      PROVE  StaysSettled(r)
  BY <1>1 DEF Enqueue, EnqueueAll
<1>2. ASSUME NEW w \in Workers, NEW q \in Rows, Claim(w, q)
      PROVE  StaysSettled(r)
  BY <1>2 DEF Claim, Claimable, TypeOK
<1>3. ASSUME NEW q \in Rows, BudgetPark(q) \/ BecomesDue(q) \/ LeaseLapses(q)
      PROVE  StaysSettled(r)
  BY <1>3 DEF BudgetPark, BecomesDue, LeaseLapses, Claimable, TypeOK
<1>4. ASSUME NEW w \in Workers, Complete(w)
      PROVE  StaysSettled(r)
  <2> DEFINE before == [status EXCEPT ![heldRow[w]] = "succeeded"]
  <2>1. status[heldRow[w]] = "running" /\ heldRow[w] \in Rows
    BY <1>4 DEF Complete, Fenced, TypeOK
  <2>2. \/ status'[r] = "pending" /\ before[r] = "absent"
        \/ status'[r] = before[r]
    BY <1>4 DEF Complete, EnqueueAll
  <2> QED
    BY <2>1, <2>2 DEF TypeOK
<1>5. ASSUME NEW w \in Workers, FailRetry(w) \/ FailTerminal(w)
      PROVE  StaysSettled(r)
  BY <1>5 DEF FailRetry, FailTerminal, Fenced, TypeOK
<1>6. ASSUME NEW w \in Workers, NEW reason \in FactReasons, NEW stands \in BOOLEAN,
             Park(w, reason, stands)
      PROVE  StaysSettled(r)
  <2>1. /\ status[heldRow[w]] = "running"
        /\ status' = [status EXCEPT ![heldRow[w]] = "pending"]
    BY <1>6 DEF Park, MayPark, Fenced
  <2> QED
    BY <2>1 DEF TypeOK
<1>7. ASSUME NEW s \in Sweepers, NEW S \in SUBSET Rows, Reap(s, S)
      PROVE  StaysSettled(r)
  BY <1>7 DEF Reap, Expired, TypeOK
<1>8. ASSUME NEW q \in Rows, NEW l \in Lanes, NEW allowance \in 1..AttemptCeiling,
             NEW now \in BOOLEAN, ReplayDeadLetter(q, allowance, l, now)
      PROVE  StaysSettled(r)
  BY <1>8 DEF ReplayDeadLetter, TypeOK, LedgerAssumption
<1>9. ASSUME NEW w \in Workers, RenewLease(w) \/ LeaseLost(w)
      PROVE  StaysSettled(r)
  BY <1>9 DEF RenewLease, LeaseLost, rowVars
<1>10. ASSUME NEW w \in Workers, NEW k \in CallKeys, RecordCall(w, k)
       PROVE  StaysSettled(r)
  BY <1>10 DEF RecordCall, rowVars
<1>11. ASSUME NEW a \in Actors, Die(a) \/ \E q \in Rows : Finalize(a, q)
       PROVE  StaysSettled(r)
  BY <1>11 DEF Die, Finalize, rowVars
<1>12. ASSUME NEW reason \in FactReasons, NEW S \in SUBSET ConvertRows, Release(reason, S)
       PROVE  StaysSettled(r)
  BY <1>12 DEF Release
<1>13. CASE UNCHANGED vars
  BY <1>13 DEF vars, rowVars
<1> HIDE DEF StaysSettled
<1> QED
  BY <1>1, <1>2, <1>3, <1>4, <1>5, <1>6, <1>7, <1>8, <1>9, <1>10, <1>11, <1>12, <1>13
  DEF Next, EndAttempt

(* A succeeded row is never run again; a dead letter reopens only with     *)
(* attempts granted to it.                                                 *)
THEOREM SettledIsFinal == Spec => SettledStaysSettled
<1>1. TypeOK /\ [Next]_vars => [\A r \in Rows : StaysSettled(r)]_vars
  BY SettledStep, LedgerAssumption
<1> QED
  BY <1>1, TypeCorrect, PTL DEF Spec, SettledStaysSettled, StaysSettled

-----------------------------------------------------------------------------
(* Refinement: what each step of the ledger is in Worklist.                *)

Open    == {r \in Rows : status[r] \in {"pending", "running", "failed"}}
Done    == {r \in Rows : status[r] = "succeeded"}
Dropped == {r \in Rows : status[r] = "dead_letter"}

Queueing == {"pending", "running", "failed"}

(* The step leaves the row where Worklist has it.                          *)
SameClass(r) ==
  /\ status'[r] \in Queueing <=> status[r] \in Queueing
  /\ status'[r] = "succeeded" <=> status[r] = "succeeded"
  /\ status'[r] = "dead_letter" <=> status[r] = "dead_letter"

Mapped == [Promise!Next]_(Promise!vars)

(* A step that keeps every row in its class is a stutter of Worklist.      *)
LEMMA StutterStep ==
  ASSUME \A r \in Rows : SameClass(r)
  PROVE  Mapped
<1>1. Open' = Open /\ Done' = Done /\ Dropped' = Dropped
  BY DEF Open, Done, Dropped, SameClass, Queueing
<1>2. UNCHANGED Promise!vars
  BY <1>1 DEF Promise!vars, Open, Done, Dropped
<1> QED
  BY <1>2 DEF Mapped

(* A step that dead-letters the open rows of S and no other gives them up. *)
LEMMA GiveUpStep ==
  ASSUME NEW S \in SUBSET Rows, S # {},
         \A r \in S : status[r] \in Queueing /\ status'[r] = "dead_letter",
         \A r \in Rows \ S : SameClass(r)
  PROVE  Mapped
<1>1. /\ S \subseteq Open
      /\ Open' = Open \ S
      /\ Dropped' = Dropped \cup S
      /\ Done' = Done
  BY DEF Open, Done, Dropped, SameClass, Queueing
<1>2. Promise!GiveUp(S)
  BY <1>1 DEF Promise!GiveUp, Open, Done, Dropped
<1> QED
  BY <1>2 DEF Promise!Next, Mapped

LEMMA RefineStep ==
  ASSUME LedgerAssumption, TypeOK, [Next]_vars
  PROVE  Mapped
<1> USE DEF SameClass, Queueing
<1>1. ASSUME NEW r \in Rows, NEW l \in Lanes, NEW reason \in {None, "no_route"},
             NEW now \in BOOLEAN, Enqueue(r, l, reason, now)
      PROVE  Mapped
  <2>1. status' = [q \in Rows |-> IF q \in {p \in {r} : status[p] = "absent"} THEN "pending"
                                  ELSE status[q]]
    BY <1>1 DEF Enqueue, EnqueueAll
  <2>2. CASE status[r] = "absent"
    <3>1. Promise!Ask(r)
      BY <2>1, <2>2 DEF Promise!Ask, Promise!known
    <3> QED
      BY <3>1 DEF Promise!Next, Mapped
  <2>3. CASE status[r] # "absent"
    BY <2>1, <2>3, StutterStep
  <2> QED
    BY <2>2, <2>3
<1>2. ASSUME NEW w \in Workers, NEW r \in Rows, Claim(w, r)
      PROVE  Mapped
  BY <1>2, StutterStep DEF Claim, Claimable, TypeOK
<1>3. ASSUME NEW r \in Rows, BudgetPark(r) \/ BecomesDue(r) \/ LeaseLapses(r)
      PROVE  Mapped
  BY <1>3, StutterStep DEF BudgetPark, BecomesDue, LeaseLapses, Claimable, TypeOK
<1>4. ASSUME NEW w \in Workers, Complete(w)
      PROVE  Mapped
  <2> PICK r \in Rows : r = heldRow[w] /\ status[r] = "running"
    BY <1>4 DEF Complete, Fenced, TypeOK
  <2> DEFINE before == [status EXCEPT ![r] = "succeeded"]
  <2>1. r \in Rows /\ status[r] = "running"
    OBVIOUS
  <2>2. FollowUps[r] \subseteq Rows
    BY <2>1 DEF LedgerAssumption
  <2>3. status' = [q \in Rows |-> IF q \in {p \in FollowUps[r] : before[p] = "absent"}
                                  THEN "pending" ELSE before[q]]
    BY <1>4 DEF Complete, EnqueueAll
  <2>4. \A q \in Rows : before[q] = IF q = r THEN "succeeded" ELSE status[q]
    BY DEF TypeOK
  <2> HIDE DEF before
  <2>5. \A q \in Rows : status'[q] = IF q = r THEN "succeeded"
                                    ELSE IF q \in FollowUps[r] /\ status[q] = "absent"
                                         THEN "pending" ELSE status[q]
    BY <2>1, <2>3, <2>4
  <2>6. Promise!Finish(r)
    <3>1. Done' = Done \cup {r}
      BY <2>1, <2>5 DEF Done
    <3>2. Open' = (Open \ {r}) \cup (FollowUps[r] \ (Open \cup Done \cup Dropped))
      BY <2>1, <2>2, <2>5 DEF Open, Done, Dropped, TypeOK
    <3>3. Dropped' = Dropped
      BY <2>1, <2>5 DEF Dropped
    <3>4. r \in Open
      BY <2>1 DEF Open
    <3> QED
      BY <3>1, <3>2, <3>3, <3>4 DEF Promise!Finish, Promise!known, Open, Done, Dropped
  <2> QED
    BY <2>1, <2>6 DEF Promise!Next, Mapped
<1>5. ASSUME NEW w \in Workers, FailRetry(w)
      PROVE  Mapped
  BY <1>5, StutterStep DEF FailRetry, Fenced, TypeOK
<1>6. ASSUME NEW w \in Workers, FailTerminal(w)
      PROVE  Mapped
  <2>1. /\ heldRow[w] \in Rows /\ status[heldRow[w]] = "running"
        /\ status' = [status EXCEPT ![heldRow[w]] = "dead_letter"]
    BY <1>6 DEF FailTerminal, Fenced, TypeOK
  <2> DEFINE S == {heldRow[w]}
  <2>2. /\ S \in SUBSET Rows /\ S # {}
        /\ \A r \in S : status[r] = "running" /\ status'[r] = "dead_letter"
        /\ \A r \in Rows \ S : status'[r] = status[r]
    BY <2>1 DEF TypeOK
  <2> HIDE DEF S
  <2> QED
    BY <2>2, GiveUpStep
<1>7. ASSUME NEW w \in Workers, NEW reason \in FactReasons, NEW stands \in BOOLEAN,
             Park(w, reason, stands)
      PROVE  Mapped
  <2>1. /\ heldRow[w] \in Rows /\ status[heldRow[w]] = "running"
        /\ status' = [status EXCEPT ![heldRow[w]] = "pending"]
    BY <1>7 DEF Park, MayPark, Fenced, TypeOK
  <2> QED
    BY <2>1, StutterStep DEF TypeOK
<1>8. ASSUME NEW s \in Sweepers, NEW S \in SUBSET Rows, Reap(s, S)
      PROVE  Mapped
  <2> DEFINE last == {r \in S : ~RetryLeft(r)}
  <2>1. /\ \A r \in S : status[r] = "running"
        /\ status' = [r \in Rows |-> IF r \in last THEN "dead_letter"
                                     ELSE IF r \in S THEN "pending" ELSE status[r]]
    BY <1>8 DEF Reap, Expired
  <2>2. last \subseteq S
    OBVIOUS
  <2> HIDE DEF last
  <2>3. CASE last = {}
    BY <2>1, <2>3, StutterStep
  <2>4. CASE last # {}
    BY <2>1, <2>2, <2>4, GiveUpStep
  <2> QED
    BY <2>3, <2>4
<1>9. ASSUME NEW r \in Rows, NEW l \in Lanes, NEW allowance \in 1..AttemptCeiling,
             NEW now \in BOOLEAN, ReplayDeadLetter(r, allowance, l, now)
      PROVE  Mapped
  <2>1. status[r] = "dead_letter" /\ status' = [status EXCEPT ![r] = "pending"]
    BY <1>9 DEF ReplayDeadLetter
  <2>2. Promise!Reopen(r)
    BY <2>1 DEF Promise!Reopen, TypeOK
  <2> QED
    BY <2>2 DEF Promise!Next, Mapped
<1>10. ASSUME NEW w \in Workers, RenewLease(w) \/ LeaseLost(w)
       PROVE  Mapped
  BY <1>10, StutterStep DEF RenewLease, LeaseLost, rowVars
<1>11. ASSUME NEW w \in Workers, NEW k \in CallKeys, RecordCall(w, k)
       PROVE  Mapped
  BY <1>11, StutterStep DEF RecordCall, rowVars
<1>12. ASSUME NEW a \in Actors, Die(a) \/ \E q \in Rows : Finalize(a, q)
       PROVE  Mapped
  BY <1>12, StutterStep DEF Die, Finalize, rowVars
<1>13. ASSUME NEW reason \in FactReasons, NEW S \in SUBSET ConvertRows, Release(reason, S)
       PROVE  Mapped
  BY <1>13, StutterStep DEF Release
<1>14. CASE UNCHANGED vars
  BY <1>14, StutterStep DEF vars, rowVars
<1> QED
  BY <1>1, <1>2, <1>3, <1>4, <1>5, <1>6, <1>7, <1>8, <1>9, <1>10, <1>11, <1>12, <1>13,
     <1>14
  DEF Next, EndAttempt

(* The ledger implements Worklist: whatever slots and sweepers crash or    *)
(* stall, a row is finished at most once and atomically with its chain.    *)
THEOREM Refinement == Spec => ImplementsWorklist
<1>1. Init => Promise!Init
  BY DEF Init, Promise!Init
<1>2. TypeOK /\ [Next]_vars => [Promise!Next]_(Promise!vars)
  BY RefineStep, LedgerAssumption DEF Mapped
<1> QED
  BY <1>1, <1>2, TypeCorrect, PTL DEF Spec, ImplementsWorklist, Promise!Spec

=============================================================================
