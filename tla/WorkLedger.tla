----------------------------- MODULE WorkLedger -----------------------------
(***************************************************************************)
(* The work ledger: one row of processing_state per unit of work, the      *)
(* worker slots that claim rows and run handlers, the sweepers that take   *)
(* expired claims back, and the cost rows that attribute billed calls.     *)
(*                                                                         *)
(* Every ledger method runs in one database transaction that locks the     *)
(* row it changes, so each is one action.  What is NOT atomic is the life  *)
(* of a claim: between the claim and the call that ends it a slot may      *)
(* stall, lose its lease to a sweeper and wake up again, or die.           *)
(*                                                                         *)
(* Time is abstracted to two facts about a row: whether not_before has     *)
(* passed (due) and whether lease_until has not (leased).                  *)
(***************************************************************************)
EXTENDS Integers, FiniteSets

CONSTANTS
  Rows,               \* idempotency keys (target, stage, component version)
  ConvertRows,        \* the rows of the convert stage: only these can be parked
  Workers,            \* worker slots
  Sweepers,           \* loop threads that reap expired leases
  CallKeys,           \* call keys a handler may bill under
  FollowUps,          \* the rows a successful handler of a row chains
  BudgetedLanes,      \* lanes with a configured cost budget
  InitialMaxAttempts, \* default of the max_attempts column
  AttemptCeiling,     \* bound on the attempt budget (32767 in the code)
  None

Lanes       == {"steady", "backfill"}
FactReasons == {"no_route", "admission"}
Reasons     == FactReasons \cup {"retry_backoff", "budget", "scheduled"}
Statuses    == {"absent", "pending", "running", "failed", "succeeded", "dead_letter"}
Queued      == {"pending", "failed"}
Actors      == Workers \cup Sweepers

ASSUME LedgerAssumption ==
  /\ ConvertRows \subseteq Rows
  /\ FollowUps \in [Rows -> SUBSET Rows]
  /\ BudgetedLanes \subseteq Lanes
  /\ InitialMaxAttempts \in Nat \ {0}
  /\ AttemptCeiling \in Nat
  /\ InitialMaxAttempts <= AttemptCeiling
  /\ None \notin Rows \cup Actors \cup Reasons
  /\ Workers \cap Sweepers = {}

VARIABLES
  status, attempts, maxAttempts, lane, defer,  \* columns of processing_state
  due, leased,                                 \* not_before <= now; running and lease_until >= now
  heldRow, heldAttempt, heldCalls,             \* a slot's ClaimedWork, and the keys it billed
  owed,                                        \* terminal-failure finalizers an actor has still to run
  costs,                                       \* cost_ledger rows
  owner                                        \* history: the slot whose claim the row is running under

rowVars  == <<status, attempts, maxAttempts, lane, defer, due, leased>>
heldVars == <<heldRow, heldAttempt, heldCalls>>
vars     == <<rowVars, heldVars, owed, costs, owner>>

TypeOK ==
  /\ status \in [Rows -> Statuses]
  /\ attempts \in [Rows -> Nat]
  /\ maxAttempts \in [Rows -> Nat]
  /\ lane \in [Rows -> Lanes]
  /\ defer \in [Rows -> Reasons \cup {None}]
  /\ due \in [Rows -> BOOLEAN]
  /\ leased \in [Rows -> BOOLEAN]
  /\ heldRow \in [Workers -> Rows \cup {None}]
  /\ heldAttempt \in [Workers -> Nat]
  /\ heldCalls \in [Workers -> SUBSET CallKeys]
  /\ owed \in [Actors -> SUBSET Rows]
  /\ costs \subseteq Rows \X Nat \X CallKeys
  /\ owner \in [Rows -> Workers \cup {None}]

Init ==
  /\ status = [r \in Rows |-> "absent"]
  /\ attempts = [r \in Rows |-> 0]
  /\ maxAttempts = [r \in Rows |-> InitialMaxAttempts]
  /\ lane = [r \in Rows |-> "backfill"]
  /\ defer = [r \in Rows |-> None]
  /\ due = [r \in Rows |-> FALSE]
  /\ leased = [r \in Rows |-> FALSE]
  /\ heldRow = [w \in Workers |-> None]
  /\ heldAttempt = [w \in Workers |-> 0]
  /\ heldCalls = [w \in Workers |-> {}]
  /\ owed = [a \in Actors |-> {}]
  /\ costs = {}
  /\ owner = [r \in Rows |-> None]

-----------------------------------------------------------------------------
(* What a slot holds.                                                      *)

FencedByStatus(w) == heldRow[w] # None /\ status[heldRow[w]] = "running" \* mutant

(* The predicate every attempt-conditional statement repeats.              *)
Fenced(w) ==
  /\ heldRow[w] # None
  /\ status[heldRow[w]] = "running"
  /\ attempts[heldRow[w]] = heldAttempt[w]

LetGo(w) ==
  /\ heldRow' = [heldRow EXCEPT ![w] = None]
  /\ heldAttempt' = [heldAttempt EXCEPT ![w] = 0]
  /\ heldCalls' = [heldCalls EXCEPT ![w] = {}]

Idle(w) == heldRow[w] = None /\ owed[w] = {}

RetryLeftAtLimit(r) == attempts[r] <= maxAttempts[r]   \* mutant

RetryLeft(r) == attempts[r] < maxAttempts[r]

-----------------------------------------------------------------------------
(* Enqueueing.                                                             *)

LiftsPark(r) == defer[r] = "budget"

(* Insert each row of S on lane l unless its key exists; a steady enqueue  *)
(* promotes a queued backfill duplicate and lifts its backfill budget      *)
(* park.  `before` is the status the enclosing transaction has written.    *)
EnqueueAll(S, l, before, reason, now) ==
  LET fresh    == {r \in S : before[r] = "absent"}
      promoted == {r \in S \ fresh : /\ l = "steady"
                                     /\ lane[r] = "backfill"
                                     /\ before[r] \in Queued}
      unparked == {r \in promoted : LiftsPark(r)}
  IN  /\ status' = [r \in Rows |-> IF r \in fresh THEN "pending" ELSE before[r]]
      /\ lane' = [r \in Rows |-> IF r \in fresh \cup promoted THEN l ELSE lane[r]]
      /\ defer' = [r \in Rows |-> IF r \in fresh THEN reason
                                  ELSE IF r \in unparked THEN None ELSE defer[r]]
      /\ due' = [r \in Rows |-> IF r \in fresh THEN now
                                ELSE IF r \in unparked THEN TRUE ELSE due[r]]

(* `reason` is "no_route" when an ingest lands a convert row whose MIME    *)
(* has no route; `now` is FALSE for a caller's future not_before.          *)
Enqueue(r, l, reason, now) ==
  /\ reason = None \/ (r \in ConvertRows /\ reason = "no_route" /\ now)
  /\ EnqueueAll({r}, l, status, reason, now)
  /\ UNCHANGED <<attempts, maxAttempts, leased, heldVars, owed, costs, owner>>

-----------------------------------------------------------------------------
(* Claims and leases.                                                      *)

Claimable(r) ==
  /\ status[r] \in Queued
  /\ due[r]
  /\ RetryLeft(r)
  /\ defer[r] \notin FactReasons

Claim(w, r) ==
  /\ Idle(w)
  /\ Claimable(r)
  /\ status' = [status EXCEPT ![r] = "running"]
  /\ defer' = [defer EXCEPT ![r] = None]
  /\ attempts' = [attempts EXCEPT ![r] = @ + 1]
  /\ leased' = [leased EXCEPT ![r] = TRUE]
  /\ heldRow' = [heldRow EXCEPT ![w] = r]
  /\ heldAttempt' = [heldAttempt EXCEPT ![w] = attempts[r] + 1]
  /\ heldCalls' = [heldCalls EXCEPT ![w] = {}]
  /\ owner' = [owner EXCEPT ![r] = w]
  /\ UNCHANGED <<maxAttempts, lane, due, owed, costs>>

(* The claim's pre-flight found the lane's budget window exhausted.        *)
BudgetPark(r) ==
  /\ Claimable(r)
  /\ lane[r] \in BudgetedLanes
  /\ status' = [status EXCEPT ![r] = "pending"]
  /\ defer' = [defer EXCEPT ![r] = "budget"]
  /\ due' = [due EXCEPT ![r] = FALSE]
  /\ UNCHANGED <<attempts, maxAttempts, lane, leased, heldVars, owed, costs, owner>>

(* not_before passes: a backoff, a budget window or a schedule ends.       *)
BecomesDue(r) ==
  /\ status[r] \in Queued
  /\ ~due[r]
  /\ due' = [due EXCEPT ![r] = TRUE]
  /\ UNCHANGED <<status, attempts, maxAttempts, lane, defer, leased, heldVars, owed,
                 costs, owner>>

LeaseLapses(r) ==
  /\ status[r] = "running"
  /\ leased[r]
  /\ leased' = [leased EXCEPT ![r] = FALSE]
  /\ UNCHANGED <<status, attempts, maxAttempts, lane, defer, due, heldVars, owed,
                 costs, owner>>

RenewLease(w) ==
  /\ Fenced(w)
  /\ leased' = [leased EXCEPT ![heldRow[w]] = TRUE]
  /\ UNCHANGED <<status, attempts, maxAttempts, lane, defer, due, heldVars, owed,
                 costs, owner>>

ExpiredEvenSettled(r)   == status[r] # "absent" /\ ~leased[r]                   \* mutant
ExpiredWithRetryLeft(r) == status[r] = "running" /\ ~leased[r] /\ RetryLeft(r)  \* mutant

Expired(r) == status[r] = "running" /\ ~leased[r]

(* One sweep takes back the expired rows no other transaction has locked   *)
(* and leaves the sweeper owing a finalizer for each one it dead-lettered. *)
Reap(s, S) ==
  LET last == {r \in S : ~RetryLeft(r)}
  IN  /\ owed[s] = {}
      /\ S # {}
      /\ \A r \in S : Expired(r)
      /\ status' = [r \in Rows |-> IF r \in last THEN "dead_letter"
                                   ELSE IF r \in S THEN "pending" ELSE status[r]]
      /\ due' = [r \in Rows |-> IF r \in S \ last THEN TRUE ELSE due[r]]
      /\ owed' = [owed EXCEPT ![s] = last]
      /\ owner' = [r \in Rows |-> IF r \in S THEN None ELSE owner[r]]
      /\ UNCHANGED <<attempts, maxAttempts, lane, defer, leased, heldVars, costs>>

-----------------------------------------------------------------------------
(* How an attempt ends.                                                    *)

(* The lease means something only while the row runs.                      *)
EndRun(r) ==
  /\ leased' = [leased EXCEPT ![r] = FALSE]
  /\ owner' = [owner EXCEPT ![r] = None]

CompleteForgetsChain(w) ==   \* mutant
  /\ Fenced(w)
  /\ status' = [status EXCEPT ![heldRow[w]] = "succeeded"]
  /\ EndRun(heldRow[w])
  /\ LetGo(w)
  /\ UNCHANGED <<attempts, maxAttempts, lane, defer, due, owed, costs>>

Complete(w) ==
  LET r == heldRow[w]
  IN  /\ Fenced(w)
      /\ EnqueueAll(FollowUps[r], lane[r], [status EXCEPT ![r] = "succeeded"], None, TRUE)
      /\ EndRun(r)
      /\ LetGo(w)
      /\ UNCHANGED <<attempts, maxAttempts, owed, costs>>

FailRetry(w) ==
  LET r == heldRow[w]
  IN  /\ Fenced(w)
      /\ RetryLeft(r)
      /\ status' = [status EXCEPT ![r] = "failed"]
      /\ defer' = [defer EXCEPT ![r] = "retry_backoff"]
      /\ due' = [due EXCEPT ![r] = FALSE]
      /\ EndRun(r)
      /\ LetGo(w)
      /\ UNCHANGED <<attempts, maxAttempts, lane, owed, costs>>

(* A non-retryable failure on any attempt, or a retryable one on the last. *)
FailTerminal(w) ==
  LET r == heldRow[w]
  IN  /\ Fenced(w)
      /\ status' = [status EXCEPT ![r] = "dead_letter"]
      /\ defer' = [defer EXCEPT ![r] = None]
      /\ owed' = [owed EXCEPT ![w] = {r}]
      /\ EndRun(r)
      /\ LetGo(w)
      /\ UNCHANGED <<attempts, maxAttempts, lane, due, costs>>

RefundTwice(r) == [attempts EXCEPT ![r] = @ - 2]   \* mutant

Refund(r) == [attempts EXCEPT ![r] = @ - 1]

MayParkBilled(w) == Fenced(w) /\ heldRow[w] \in ConvertRows   \* mutant

MayPark(w) == Fenced(w) /\ heldRow[w] \in ConvertRows /\ heldCalls[w] = {}

(* A convert handler that billed nothing hands its claim back.  `stands`   *)
(* is what the park found, under lock, of the fact the handler waits for.  *)
Park(w, reason, stands) ==
  LET r == heldRow[w]
  IN  /\ MayPark(w)
      /\ reason \in FactReasons
      /\ status' = [status EXCEPT ![r] = "pending"]
      /\ defer' = [defer EXCEPT ![r] = IF stands THEN reason ELSE None]
      /\ attempts' = Refund(r)
      /\ due' = [due EXCEPT ![r] = TRUE]
      /\ EndRun(r)
      /\ LetGo(w)
      /\ UNCHANGED <<maxAttempts, lane, owed, costs>>

(* The finishing call was refused: the result is discarded (lease_lost).   *)
LeaseLost(w) ==
  /\ heldRow[w] # None
  /\ ~Fenced(w)
  /\ LetGo(w)
  /\ UNCHANGED <<rowVars, owed, costs, owner>>

Finalize(a, r) ==
  /\ r \in owed[a]
  /\ owed' = [owed EXCEPT ![a] = @ \ {r}]
  /\ UNCHANGED <<rowVars, heldVars, costs, owner>>

(* An actor is killed: what it held in memory is gone, the row is not.     *)
Die(a) ==
  /\ owed[a] # {} \/ (a \in Workers /\ heldRow[a] # None)
  /\ owed' = [owed EXCEPT ![a] = {}]
  /\ IF a \in Workers THEN LetGo(a) ELSE UNCHANGED heldVars
  /\ UNCHANGED <<rowVars, costs, owner>>

-----------------------------------------------------------------------------
(* Operations on rows that are not running, and metering.                  *)

Release(reason, S) ==
  /\ S # {}
  /\ \A r \in S : r \in ConvertRows /\ status[r] = "pending" /\ defer[r] = reason
  /\ reason \in FactReasons
  /\ defer' = [r \in Rows |-> IF r \in S THEN None ELSE defer[r]]
  /\ due' = [r \in Rows |-> IF r \in S THEN TRUE ELSE due[r]]
  /\ UNCHANGED <<status, attempts, maxAttempts, lane, leased, heldVars, owed, costs,
                 owner>>

ReplayDeadLetter(r, allowance, l, now) ==
  /\ status[r] = "dead_letter"
  /\ allowance >= 1
  /\ attempts[r] + allowance <= AttemptCeiling
  /\ status' = [status EXCEPT ![r] = "pending"]
  /\ lane' = [lane EXCEPT ![r] = l]
  /\ defer' = [defer EXCEPT ![r] = IF now THEN None ELSE "scheduled"]
  /\ due' = [due EXCEPT ![r] = now]
  /\ maxAttempts' = [maxAttempts EXCEPT ![r] = attempts[r] + allowance]
  /\ UNCHANGED <<attempts, leased, heldVars, owed, costs, owner>>

RecordCall(w, k) ==
  /\ Fenced(w)
  /\ costs' = costs \cup {<<heldRow[w], heldAttempt[w], k>>}
  /\ heldCalls' = [heldCalls EXCEPT ![w] = @ \cup {k}]
  /\ UNCHANGED <<rowVars, heldRow, heldAttempt, owed, owner>>

-----------------------------------------------------------------------------
EndAttempt(w) ==
  \/ Complete(w)
  \/ FailRetry(w)
  \/ FailTerminal(w)
  \/ LeaseLost(w)
  \/ \E reason \in FactReasons, stands \in BOOLEAN : Park(w, reason, stands)

Next ==
  \/ \E r \in Rows, l \in Lanes, reason \in {None, "no_route"}, now \in BOOLEAN :
       Enqueue(r, l, reason, now)
  \/ \E w \in Workers, r \in Rows : Claim(w, r)
  \/ \E r \in Rows : BudgetPark(r) \/ BecomesDue(r) \/ LeaseLapses(r)
  \/ \E w \in Workers : RenewLease(w) \/ EndAttempt(w)
  \/ \E s \in Sweepers, S \in SUBSET Rows : Reap(s, S)
  \/ \E a \in Actors : Die(a) \/ \E r \in Rows : Finalize(a, r)
  \/ \E reason \in FactReasons, S \in SUBSET ConvertRows : Release(reason, S)
  \/ \E r \in Rows, l \in Lanes, allowance \in 1..AttemptCeiling, now \in BOOLEAN :
       ReplayDeadLetter(r, allowance, l, now)
  \/ \E w \in Workers, k \in CallKeys : RecordCall(w, k)

Spec == Init /\ [][Next]_vars

(* No slot holds the claim the row is running under: its slot died.        *)
Orphaned(r) == status[r] = "running" /\ ~\E w \in Workers : Fenced(w) /\ heldRow[w] = r

(* Clocks move on; a live slot ends the attempt it holds; some sweeper     *)
(* keeps sweeping every expired row; and a row that is claimable again and *)
(* again is claimed in the end (claims go oldest first, and a new budget   *)
(* window starts unspent).  Nothing obliges a lease to lapse under a live  *)
(* slot, a caller to enqueue, an operator to replay, or an actor to live.  *)
Fairness ==
  /\ \A r \in Rows : /\ WF_vars(BecomesDue(r))
                     /\ WF_vars(Orphaned(r) /\ LeaseLapses(r))
                     /\ SF_vars(\E w \in Workers : Claim(w, r))
                     /\ SF_vars(\E s \in Sweepers, S \in SUBSET Rows : r \in S /\ Reap(s, S))
  /\ \A w \in Workers : WF_vars(EndAttempt(w))
  /\ \A a \in Actors : WF_vars(\E r \in Rows : Finalize(a, r))

FairSpec == Spec /\ Fairness

-----------------------------------------------------------------------------
(* Properties.                                                             *)

(* The claim's identity is its attempt number, and a park gives the number *)
(* back to be used again.  Still, only the slot whose claim a row is       *)
(* running under passes the `running AND attempts = <claimed>` test: a     *)
(* stalled attempt that wakes up can finish, renew or bill nothing.        *)
OnlyOwnerPassesFence ==
  \A w \in Workers : Fenced(w) => owner[heldRow[w]] = w

(* A slot never holds an attempt number the row has not reached: with      *)
(* OnlyOwnerPassesFence this is what makes the number safe to reuse.       *)
HeldAttemptsReached ==
  \A w \in Workers : heldRow[w] # None =>
    /\ heldAttempt[w] <= attempts[heldRow[w]]
    /\ status[heldRow[w]] # "absent"

(* The table's CHECK constraints never fire, so no transition is refused   *)
(* by the database halfway: the attempt budget, the failed row that must   *)
(* have a retry left, and the defer reasons each status admits.            *)
RowChecksHold ==
  \A r \in Rows :
    /\ attempts[r] <= maxAttempts[r] /\ maxAttempts[r] >= 1
    /\ status[r] = "failed" <=> defer[r] = "retry_backoff"
    /\ defer[r] # None => status[r] \in Queued

(* No queued row is stranded at its attempt limit, where no claim could    *)
(* ever take it: the sweep and the failure path dead-letter it instead.    *)
NoStrandedRow ==
  \A r \in Rows : status[r] \in Queued => attempts[r] < maxAttempts[r]

(* The calls billed under a row's running attempt number are exactly those *)
(* of the claim that holds it: neither a late call of an earlier attempt   *)
(* nor a call of a parked claim whose number was given back is there to    *)
(* deduplicate (and so lose) a call of this one.                           *)
BilledByThisClaim ==
  \A w \in Workers : Fenced(w) =>
    {k \in CallKeys : <<heldRow[w], heldAttempt[w], k>> \in costs} = heldCalls[w]

(* Work promoted to the steady lane does not wait for the backfill lane's  *)
(* budget window: a budget park is always the park of the row's own lane.  *)
BudgetParkIsOfOwnLane ==
  \A r \in Rows : defer[r] = "budget" => lane[r] \in BudgetedLanes

(* A succeeded row is never run again, and a dead letter reopens only when *)
(* attempts are granted: no stale attempt, sweep or release revives either.*)
SettledStaysSettled ==
  [][\A r \in Rows :
       /\ status[r] = "succeeded" => status'[r] = "succeeded"
       /\ status[r] = "dead_letter" /\ status'[r] # "dead_letter" =>
            /\ attempts'[r] = attempts[r]
            /\ maxAttempts'[r] > attempts[r]]_vars

(* What all of this implements (Worklist): a row is finished at most once, *)
(* and the transaction that finishes it opens the rows it chains, so a     *)
(* crash or a stale attempt can neither lose nor repeat a link.            *)
Promise == INSTANCE Worklist WITH
  open    <- {r \in Rows : status[r] \in {"pending", "running", "failed"}},
  done    <- {r \in Rows : status[r] = "succeeded"},
  dropped <- {r \in Rows : status[r] = "dead_letter"}

ImplementsWorklist == Promise!Spec

(* Work is done or given up, never forgotten: whatever slots and sweepers  *)
(* die, every enqueued row that is not a parked conversion succeeds or     *)
(* dead-letters.                                                           *)
EveryRowSettles ==
  \A r \in Rows \ ConvertRows :
    status[r] # "absent" ~> status[r] \in {"succeeded", "dead_letter"}

=============================================================================
