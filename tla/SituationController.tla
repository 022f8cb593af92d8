------------------------ MODULE SituationController ------------------------
(***************************************************************************)
(* One open Situation of alertint-agent and the controller that assesses   *)
(* it: inputs that join and supersede, claims with a lease and a supersede *)
(* guard, the reconcile cycle with its durable budget of provider calls,   *)
(* parking, and what a restart and a recovered provider repair.            *)
(*                                                                         *)
(* Every store method is one transaction on one SQLite connection, hence   *)
(* one step.  A provider call happens between two steps.  A snapshot's     *)
(* material facts are abstracted to the hash the cycle derives from them,  *)
(* which may drift between cycles without any new input; the dispatch      *)
(* ledger keeps the columns of its UNIQUE index and the hash.              *)
(***************************************************************************)
EXTENDS Naturals

CONSTANTS
  Hashes,        \* material fact hashes a snapshot may have
  MaxAttempts,   \* MaxWorkAttemptsPerInput
  GuardAfter,    \* situationSupersedeGuardAfter
  MaxInputs,     \* bound: value of input_version
  MaxClaims,     \* bound: value of claim_token
  MaxOutages,    \* bound: outage generations of the provider
  MaxFaults      \* bound: crashes and signals

ASSUME ControllerAssumption ==
  /\ MaxAttempts \in Nat \ {0} /\ GuardAfter \in Nat \ {0}
  /\ MaxInputs \in Nat \ {0} /\ MaxClaims \in Nat
  /\ MaxOutages \in Nat /\ MaxFaults \in Nat
  /\ "null" \notin Hashes

VARIABLES
  (* the situations row *)
  lifecycle,      \* "open" (active, recovery_pending) or "terminal"
  input_version,
  lease,          \* "none", "live" or "expired": lease_expires_at
  owner,          \* lease_owner, a process incarnation; 0 is NULL
  claim_token,
  protected,      \* lease_protected
  streak,         \* supersede_streak
  hash,           \* current_material_fact_hash
  retry_epoch,    \* controller_retry_epoch
  work_attempts,  \* controller_work_attempts
  park,           \* controller_parked_reason
  consumed,       \* last_consumed_recovery_generation
  trusted,        \* hash of the current trustworthy assessment, or "null"
  due,            \* next_assessment_at: "waiting", "reached", or "moved" to now
                  \* by a write since the row was last claimed
  retry,          \* retry_at: "none", "waiting" or "reached"
  (* the append-only tables *)
  ledger,         \* situation_assessment_calls
  latest,         \* the call dispatched last
  outcomes,       \* situation_assessment_attempts that belong to a call
  (* processes *)
  phase, process, faults,
  outage,         \* the outage generation of the health tracker
  (* the cycle each executor runs *)
  pc,
  claim,          \* the claim it holds
  seen,           \* the basis it derived and the row it loaded
  coord,          \* the coordinate BeginControllerAttempt gave it
  verdict         \* of its last call

leaseVars  == <<lease, owner, claim_token, protected, streak>>
budgetVars == <<retry_epoch, work_attempts>>
timeVars   == <<due, retry>>
tableVars  == <<ledger, latest, outcomes>>
procVars   == <<phase, process, faults, outage>>
execVars   == <<pc, claim, seen, coord, verdict>>
vars == <<lifecycle, input_version, leaseVars, hash, budgetVars, park, consumed,
          trusted, timeVars, tableVars, procVars, execVars>>

\* The worker's background loop, and the Drain of the shutdown sequence.
Executors == {"loop", "drain"}
\* Parked for good on one basis ("rejected": policy or capability), until the
\* provider recovers ("dependency"), until a budget window opens ("budget").
Parks == {"null", "malformed", "dependency", "rejected", "budget"}
\* What one provider call may come to.  The last two are denials of the
\* provider budget, with and without a RetryAt.
Denials == {"deferred", "overdrawn"}
Verdicts == {"accepted", "malformed", "transport", "rejected", "deferred", "overdrawn"}

Call == [version : Nat, epoch : Nat, attempt : 1..MaxAttempts, number : {1, 2},
         hash : Hashes]
NoCall == [version |-> 0]
Outcome == [call : Call, status : Verdicts \cup {"stale", "interrupted"}]

Claims == [token : Nat, version : Nat]
Seen   == [hash : Hashes \cup {"null"}, park : Parks, basis : Hashes \cup {"null"},
           retry : {"none", "waiting", "reached"}]
Coords == [epoch : Nat, attempt : 0..MaxAttempts, number : {1, 2}]
NoClaim == [token |-> 0, version |-> 0]
Unseen  == [hash |-> "null", park |-> "null", basis |-> "null", retry |-> "none"]
NoCoord == [epoch |-> 0, attempt |-> 0, number |-> 1]

TypeOK ==
  /\ lifecycle \in {"open", "terminal"}
  /\ input_version \in 1..MaxInputs
  /\ lease \in {"none", "live", "expired"}
  /\ owner \in Nat /\ claim_token \in 0..MaxClaims
  /\ protected \in {"yes", "no"} /\ streak \in Nat
  /\ hash \in Hashes \cup {"null"} /\ trusted \in Hashes \cup {"null"}
  /\ retry_epoch \in Nat /\ work_attempts \in 0..MaxAttempts
  /\ park \in Parks /\ consumed \in Nat
  /\ due \in {"waiting", "reached", "moved"} /\ retry \in {"none", "waiting", "reached"}
  /\ ledger \in SUBSET Call /\ latest \in Call \cup {NoCall}
  /\ outcomes \in SUBSET Outcome
  /\ phase \in {"down", "starting", "running", "stopping"}
  /\ process \in Nat /\ faults \in 0..MaxFaults /\ outage \in 0..MaxOutages
  /\ pc \in [Executors -> {"off", "idle", "claimed", "loaded", "exhausted",
                           "begun", "called", "concluded"}]
  /\ claim \in [Executors -> Claims] /\ seen \in [Executors -> Seen]
  /\ coord \in [Executors -> Coords]
  /\ verdict \in [Executors -> Verdicts \cup {"none"}]

Init ==
  /\ lifecycle = "open" /\ input_version = 1
  /\ lease = "none" /\ owner = 0 /\ claim_token = 0
  /\ protected = "no" /\ streak = 0
  /\ hash = "null" /\ retry_epoch = 0 /\ work_attempts = 0
  /\ park = "null" /\ consumed = 0 /\ trusted = "null"
  /\ due = "reached" /\ retry = "none"
  /\ ledger = {} /\ latest = NoCall /\ outcomes = {}
  /\ phase = "down" /\ process = 0 /\ faults = 0 /\ outage = 0
  /\ pc = [e \in Executors |-> "off"]
  /\ claim = [e \in Executors |-> NoClaim] /\ seen = [e \in Executors |-> Unseen]
  /\ coord = [e \in Executors |-> NoCoord] /\ verdict = [e \in Executors |-> "none"]

-----------------------------------------------------------------------------
(* Inputs, claims and the clock.                                           *)

\* joinSituationTx: a live protected lease refuses the input; otherwise the
\* version advances, the lease goes, and a live one counts as superseded.
Join ==
  /\ phase # "down" /\ input_version < MaxInputs
  /\ ~(lease = "live" /\ protected = "yes")
  /\ input_version' = input_version + 1
  /\ streak' = IF lease = "live" THEN streak + 1 ELSE streak
  /\ lease' = "none" /\ owner' = 0 /\ protected' = "no"
  /\ due' = "reached"
  /\ UNCHANGED <<lifecycle, claim_token, hash, budgetVars, park, consumed, trusted,
                 retry, tableVars, procVars, execVars>>

\* A Situation superseded GuardAfter times in a row is claimed protected.
Guard == IF streak >= GuardAfter THEN "yes" ELSE "no"

\* ClaimDueSituations.
Claim(e) ==
  /\ pc[e] = "idle" /\ ~(phase = "stopping" /\ e = "loop")
  /\ lifecycle = "open" /\ lease # "live" /\ claim_token < MaxClaims
  /\ due # "waiting" \/ retry = "reached"
  /\ due' = IF due = "moved" THEN "reached" ELSE due
  /\ lease' = "live" /\ owner' = process /\ claim_token' = claim_token + 1
  /\ protected' = Guard
  /\ claim' = [claim EXCEPT ![e] = [token |-> claim_token + 1, version |-> input_version]]
  /\ pc' = [pc EXCEPT ![e] = "claimed"]
  /\ UNCHANGED <<lifecycle, input_version, streak, hash, budgetVars, park, consumed,
                 trusted, retry, tableVars, procVars, seen, coord, verdict>>

\* verifyClaimTx and every fenced WHERE clause: owner and token, no expiry.
FenceHolds(e) == lease # "none" /\ owner = process /\ claim_token = claim[e].token

\* ExtendControllerLease: a late heartbeat also revives an expired lease
\* that nobody has claimed since.
Heartbeat(e) ==
  /\ pc[e] \notin {"off", "idle"} /\ FenceHolds(e)
  /\ lease' = "live"
  /\ UNCHANGED <<lifecycle, input_version, owner, claim_token, protected, streak, hash,
                 budgetVars, park, consumed, trusted, timeVars, tableVars, procVars,
                 execVars>>

LeaseExpires ==
  /\ lease = "live" /\ lease' = "expired"
  /\ UNCHANGED <<lifecycle, input_version, owner, claim_token, protected, streak, hash,
                 budgetVars, park, consumed, trusted, timeVars, tableVars, procVars,
                 execVars>>

TimerReached ==
  /\ \/ due = "waiting" /\ due' = "reached" /\ UNCHANGED retry
     \/ retry = "waiting" /\ retry' = "reached" /\ UNCHANGED due
  /\ UNCHANGED <<lifecycle, input_version, leaseVars, hash, budgetVars, park, consumed,
                 trusted, tableVars, procVars, execVars>>

-----------------------------------------------------------------------------
(* The reconcile cycle.                                                    *)

\* LoadReconciliationInput and BuildSnapshot.  The load itself is unfenced.
Load(e) ==
  /\ pc[e] = "claimed"
  /\ \E h \in Hashes :
       seen' = [seen EXCEPT ![e] = [hash |-> h, park |-> park, basis |-> hash,
                                    retry |-> retry]]
  /\ pc' = [pc EXCEPT ![e] = "loaded"]
  /\ UNCHANGED <<lifecycle, input_version, leaseVars, hash, budgetVars, park, consumed,
                 trusted, timeVars, tableVars, procVars, claim, coord, verdict>>

\* The cycle is over.
EndCycle(e) ==
  /\ pc' = [pc EXCEPT ![e] = "idle"]
  /\ claim' = [claim EXCEPT ![e] = NoClaim]
  /\ seen' = [seen EXCEPT ![e] = Unseen]
  /\ coord' = [coord EXCEPT ![e] = NoCoord]
  /\ verdict' = [verdict EXCEPT ![e] = "none"]

\* The next checkpoint: a write that moved it since the claim wins.
Checkpoint == IF due = "moved" THEN "reached" ELSE "waiting"

\* What every CommitController does: the fence, the version check, the
\* lease's release and the bounded projection.  A commit may close the
\* Situation.
Commit(e) ==
  /\ FenceHolds(e) /\ input_version = claim[e].version
  /\ phase # "stopping" \/ e # "loop"
  /\ lifecycle' \in {lifecycle, "terminal"}
  /\ hash' = seen[e].hash
  /\ lease' = "none" /\ owner' = 0 /\ protected' = "no" /\ streak' = 0
  /\ due' = Checkpoint
  /\ EndCycle(e)
  /\ UNCHANGED <<input_version, claim_token, consumed, ledger, latest, procVars>>

\* fallbackOrPreserve: the current assessment stands if it still validates,
\* or a deterministic fallback, which is never reused, takes its place.
Preserve == trusted' \in {trusted, "null"}

\* RevalidateReuse accepts the current assessment: no call, no attempt.
CommitReuse(e) ==
  /\ pc[e] = "loaded" /\ trusted = seen[e].hash
  /\ Commit(e)
  /\ park' = "null" /\ retry' = "none"
  /\ UNCHANGED <<budgetVars, trusted, outcomes>>

\* Still inside a budget deferral.
BudgetBlocks(e) ==
  seen[e].park = "budget" /\ seen[e].retry # "reached"

CommitDeferred(e) ==
  /\ pc[e] = "loaded" /\ BudgetBlocks(e)
  /\ Commit(e)
  /\ retry' = seen[e].retry
  /\ Preserve
  /\ UNCHANGED <<budgetVars, park, outcomes>>

\* controllerParkBlocksDispatch.
ParkBlocks(e) == seen[e].park = "rejected" /\ seen[e].basis = seen[e].hash

\* commitBlocked: refresh the projection, touch neither park nor budget.
CommitBlocked(e) ==
  /\ pc[e] = "loaded" /\ ~BudgetBlocks(e) /\ ParkBlocks(e)
  /\ Commit(e)
  /\ retry' = "none"
  /\ Preserve
  /\ UNCHANGED <<budgetVars, park, outcomes>>

\* latestDispatchedCallBasisTx: the last call of the claimed input version.
Dispatched(v) == latest # NoCall /\ latest.version = v
\* A dispatch whose cycle never committed left the projection behind.
Stranded(v) == Dispatched(v) /\ hash # latest.hash

\* The basis and the attempts BeginControllerAttempt counts from.
Basis(v)    == IF Stranded(v) THEN latest.hash ELSE hash
Attempts(v) == IF Stranded(v) THEN latest.attempt ELSE work_attempts

\* The coordinate of the next attempt on basis h.
Minted(v, h) ==
  IF Basis(v) = h THEN [epoch |-> retry_epoch, attempt |-> Attempts(v) + 1]
  ELSE [epoch |-> IF Basis(v) = "null" THEN retry_epoch ELSE retry_epoch + 1,
        attempt |-> 1]

\* ErrControllerAttemptsExhausted: m is beyond the input's budget.
Spent(m) == m.attempt > MaxAttempts

\* BeginControllerAttempt, fenced.  The attempt is charged before any call;
\* repairing a stranded dispatch persists its basis and clears the park.
Begin(e) ==
  /\ pc[e] = "loaded" /\ ~BudgetBlocks(e) /\ ~ParkBlocks(e) /\ FenceHolds(e)
  /\ phase # "stopping" \/ e # "loop"
  /\ LET v == claim[e].version
         m == Minted(v, seen[e].hash)
     IN IF Spent(m)
          THEN /\ pc' = [pc EXCEPT ![e] = "exhausted"]
               /\ UNCHANGED <<coord, hash, park, budgetVars>>
          ELSE /\ retry_epoch' = m.epoch /\ work_attempts' = m.attempt
               /\ hash' = Basis(v)
               /\ park' = IF Stranded(v) THEN "null" ELSE park
               /\ coord' = [coord EXCEPT ![e] = [epoch |-> m.epoch, number |-> 1,
                                                  attempt |-> m.attempt]]
               /\ pc' = [pc EXCEPT ![e] = "begun"]
  /\ UNCHANGED <<lifecycle, input_version, leaseVars, consumed, trusted, timeVars,
                 tableVars, procVars, claim, seen, verdict>>

\* The budget is spent.  A Situation nobody parked (its last cycle died) is
\* parked as dependency-exhausted now, so that something can wake it.
CommitExhausted(e) ==
  /\ pc[e] = "exhausted"
  /\ Commit(e)
  /\ park' = IF seen[e].park = "null" THEN "dependency" ELSE park
  /\ retry' = "none"
  /\ Preserve
  /\ UNCHANGED <<budgetVars, outcomes>>

\* The row dispatchWorkBearing is about to insert.
NextCall(e) == [version |-> claim[e].version, epoch |-> coord[e].epoch,
                attempt |-> coord[e].attempt, number |-> coord[e].number,
                hash |-> seen[e].hash]

\* The ledger's UNIQUE index already holds the coordinate of c.
Collides(c) ==
  \E k \in ledger : /\ k.version = c.version /\ k.epoch = c.epoch
                    /\ k.attempt = c.attempt /\ k.number = c.number

\* Faulty: the dispatch leaves the lease unprotected.
ProtectLate == protected
\* RecordAssessmentCall protects the lease it dispatches under.
Protect == "yes"

\* RecordAssessmentCall, fenced, before the request is sent.
RecordCall(e) ==
  /\ pc[e] = "begun" /\ FenceHolds(e) /\ ~Collides(NextCall(e))
  /\ phase # "stopping" \/ e # "loop"
  /\ ledger' = ledger \cup {NextCall(e)}
  /\ latest' = NextCall(e)
  /\ protected' = Protect
  /\ pc' = [pc EXCEPT ![e] = "called"]
  /\ UNCHANGED <<lifecycle, input_version, lease, owner, claim_token, streak, hash,
                 budgetVars, park, consumed, trusted, timeVars, outcomes, procVars, claim,
                 seen, coord, verdict>>

\* CompleteOnce returns.  A failed or rejected call appends its outcome at
\* once, unfenced; a malformed first answer earns one immediate correction.
\* Only the first call's budget denial is told from a transport failure.
CallReturns(e, v) ==
  /\ pc[e] = "called"
  /\ v \in Denials => coord[e].number = 1
  /\ outcomes' = IF v = "accepted" THEN outcomes
                 ELSE outcomes \cup {[call |-> NextCall(e), status |-> v]}
  /\ IF v = "malformed" /\ coord[e].number = 1
       THEN /\ pc' = [pc EXCEPT ![e] = "begun"]
            /\ coord' = [coord EXCEPT ![e] = [epoch |-> coord[e].epoch, number |-> 2,
                                               attempt |-> coord[e].attempt]]
            /\ UNCHANGED verdict
       ELSE /\ pc' = [pc EXCEPT ![e] = "concluded"]
            /\ verdict' = [verdict EXCEPT ![e] = v]
            /\ UNCHANGED coord
  /\ UNCHANGED <<lifecycle, input_version, leaseVars, hash, budgetVars, park, consumed,
                 trusted, timeVars, ledger, latest, procVars, claim, seen>>

\* An accepted proposal becomes the authoritative assessment.
CommitAccepted(e) ==
  /\ pc[e] = "concluded" /\ verdict[e] = "accepted"
  /\ Commit(e)
  /\ park' = "null" /\ retry' = "none"
  /\ trusted' = seen[e].hash
  /\ outcomes' = outcomes \cup {[call |-> NextCall(e), status |-> "accepted"]}
  /\ UNCHANGED budgetVars

\* parkedReasonForOutcome: the last call's verdict alone decides.
ParkedReason(v) ==
  CASE v = "transport" -> "dependency"
    [] v = "rejected"  -> "rejected"
    [] OTHER           -> "malformed"

\* A failed attempt: a rejection parks at once, a spent budget parks, any
\* other failure is retried and, in a fresh epoch, lifts an older park.
CommitFailed(e) ==
  /\ pc[e] = "concluded" /\ verdict[e] \in {"malformed", "transport", "rejected"}
  /\ Commit(e)
  /\ LET parks == verdict[e] = "rejected" \/ coord[e].attempt >= MaxAttempts
     IN /\ park' = IF parks THEN ParkedReason(verdict[e])
                   ELSE IF coord[e].attempt = 1 THEN "null" ELSE park
        /\ retry' = IF parks THEN "none" ELSE "waiting"
  /\ Preserve
  /\ UNCHANGED <<budgetVars, outcomes>>

\* Faulty: the refund reuses the coordinate it gives back.
RefundInPlace(e) ==
  /\ retry_epoch = coord[e].epoch /\ work_attempts = coord[e].attempt
  /\ work_attempts' = work_attempts - 1 /\ UNCHANGED retry_epoch

\* refundBudgetDeniedAttemptTx: the attempt is given back in a fresh epoch.
Refund(e) ==
  /\ retry_epoch = coord[e].epoch /\ work_attempts = coord[e].attempt
  /\ work_attempts' = work_attempts - 1 /\ retry_epoch' = retry_epoch + 1

\* The provider budget denied the call before it was sent.  A denial with no
\* RetryAt waits for an operator.
CommitBudget(e) ==
  /\ pc[e] = "concluded" /\ verdict[e] \in Denials
  /\ Commit(e) /\ Refund(e)
  /\ park' = "budget"
  /\ retry' = IF verdict[e] = "deferred" THEN "waiting" ELSE "none"
  /\ Preserve
  /\ UNCHANGED outcomes

\* The cycle ends without a commit: its fence is gone, its context is done
\* or a write failed.  ReleaseControllerWork, if it succeeds, backs off when
\* the claim is still its own; a discarded accepted answer is kept as a stale
\* outcome, if that append succeeds.
Fail(e) ==
  /\ pc[e] \notin {"off", "idle"}
  /\ \/ /\ FenceHolds(e)
        /\ lease' = "none" /\ owner' = 0 /\ protected' = "no"
        /\ due' = Checkpoint /\ retry' = "waiting"
     \/ UNCHANGED <<lease, owner, protected, timeVars>>
  /\ \/ /\ verdict[e] = "accepted"
        /\ outcomes' = outcomes \cup {[call |-> NextCall(e), status |-> "stale"]}
     \/ UNCHANGED outcomes
  /\ EndCycle(e)
  /\ UNCHANGED <<lifecycle, input_version, claim_token, streak, hash, budgetVars, park,
                 consumed, trusted, ledger, latest, procVars>>

-----------------------------------------------------------------------------
(* Recovery.                                                               *)

\* The provider went through an outage and is healthy again.
ProviderRecovers ==
  /\ phase # "down" /\ outage < MaxOutages
  /\ outage' = outage + 1
  /\ UNCHANGED <<lifecycle, input_version, leaseVars, hash, budgetVars, park, consumed,
                 trusted, timeVars, tableVars, phase, process, faults, execVars>>

\* Faulty: every park is woken.
WakeableAny == lifecycle = "open" /\ park # "null" /\ consumed < outage
\* The WHERE clause of WakeDependencyRecoveredSituations.
Wakeable == lifecycle = "open" /\ park = "dependency" /\ consumed < outage

\* RunOnce wakes dependency-parked work before it claims.
Wake(e) ==
  /\ pc[e] = "idle" /\ ~(phase = "stopping" /\ e = "loop")
  /\ Wakeable
  /\ retry_epoch' = retry_epoch + 1 /\ work_attempts' = 0
  /\ park' = "null" /\ consumed' = outage
  /\ due' = IF due = "waiting" THEN "moved" ELSE due
  /\ UNCHANGED <<lifecycle, input_version, leaseVars, hash, trusted, retry, tableVars,
                 procVars, execVars>>

\* RecoverExpiredFoundationLeases; a lease that is still live survives the
\* process that held it.
Boot ==
  /\ phase = "down"
  /\ phase' = "starting" /\ process' = process + 1
  /\ lease' = IF lease = "expired" THEN "none" ELSE lease
  /\ owner' = IF lease = "expired" THEN 0 ELSE owner
  /\ UNCHANGED <<lifecycle, input_version, claim_token, protected, streak, hash,
                 budgetVars, park, consumed, trusted, timeVars, tableVars, faults,
                 outage, execVars>>

\* loadOrphanedAssessmentCallsTx: dispatched calls without an outcome.
Orphans == {c \in ledger : ~\E o \in outcomes : o.call = c}

\* loadStaleControllerBasisTx: no live claim, and the projection is not on the
\* basis of the latest call.
StaleBasis == lease # "live" /\ latest # NoCall /\ hash # latest.hash

\* advanceControllerBasisForRecoveryTx: the projection catches up with the call
\* and a fresh retry epoch begins.
AdvanceBasis ==
  /\ hash' = IF StaleBasis THEN latest.hash ELSE hash
  /\ work_attempts' = IF StaleBasis THEN latest.attempt ELSE work_attempts
  /\ retry_epoch' = IF StaleBasis THEN retry_epoch + 1 ELSE retry_epoch
  /\ park' = IF StaleBasis THEN "null" ELSE park

\* RecoverInterruptedAssessmentCalls leaves a live lease alone; then the
\* worker loop starts.
RecoverCalls ==
  /\ phase = "starting" /\ phase' = "running"
  /\ pc' = [pc EXCEPT !["loop"] = "idle"]
  /\ outcomes' = IF lease # "live"
                   THEN outcomes \cup {[call |-> c, status |-> "interrupted"] : c \in Orphans}
                   ELSE outcomes
  /\ AdvanceBasis
  /\ UNCHANGED <<lifecycle, input_version, leaseVars, consumed, trusted, timeVars,
                 ledger, latest, process, faults, outage, claim, seen, coord, verdict>>

\* SIGTERM: the loop's context is done, the shutdown drain starts.
Signal ==
  /\ phase = "running" /\ faults < MaxFaults
  /\ phase' = "stopping" /\ faults' = faults + 1
  /\ pc' = [pc EXCEPT !["drain"] = "idle"]
  /\ UNCHANGED <<lifecycle, input_version, leaseVars, hash, budgetVars, park, consumed,
                 trusted, timeVars, tableVars, process, outage, claim, seen, coord, verdict>>

Halt ==
  /\ phase' = "down"
  /\ pc' = [e \in Executors |-> "off"]
  /\ claim' = [e \in Executors |-> NoClaim] /\ seen' = [e \in Executors |-> Unseen]
  /\ coord' = [e \in Executors |-> NoCoord] /\ verdict' = [e \in Executors |-> "none"]
  /\ UNCHANGED <<lifecycle, input_version, leaseVars, hash, budgetVars, park, consumed,
                 trusted, timeVars, tableVars, process, outage>>

Exit == phase = "stopping" /\ Halt /\ UNCHANGED faults

Crash == phase # "down" /\ faults < MaxFaults /\ Halt /\ faults' = faults + 1

-----------------------------------------------------------------------------
CommitStep(e) ==
  \/ CommitReuse(e) \/ CommitDeferred(e) \/ CommitBlocked(e) \/ CommitExhausted(e)
  \/ CommitAccepted(e) \/ CommitFailed(e) \/ CommitBudget(e)

Cycle(e) ==
  \/ Claim(e) \/ Load(e) \/ Begin(e) \/ RecordCall(e)
  \/ \E v \in Verdicts : CallReturns(e, v)
  \/ CommitStep(e) \/ Fail(e)

Next ==
  \/ Join \/ LeaseExpires \/ TimerReached \/ ProviderRecovers
  \/ \E e \in Executors : Cycle(e) \/ Heartbeat(e) \/ Wake(e)
  \/ Boot \/ RecoverCalls \/ Signal \/ Exit \/ Crash

Spec == Init /\ [][Next]_vars

-----------------------------------------------------------------------------
(* The inductive invariant, in parts.                                      *)

\* An executor in the middle of a cycle.
Active(e) == pc[e] \notin {"off", "idle"}
\* A cycle that has paid for a call, or is about to pay for its correction.
Paid(e) == \/ pc[e] \in {"called", "concluded"}
           \/ pc[e] = "begun" /\ coord[e].number = 2
\* A cycle whose call nobody has concluded yet.
Awaits(e) == \/ pc[e] = "called"
             \/ pc[e] = "concluded" /\ verdict[e] = "accepted"
\* The coordinate of c comes before that of d: epoch, attempt, call number.
Below(c, d) ==
  \/ c.epoch < d.epoch
  \/ c.epoch = d.epoch /\ c.attempt < d.attempt
  \/ c.epoch = d.epoch /\ c.attempt = d.attempt /\ c.number < d.number

\* No executor runs outside its phase; a cycle has derived its basis once it
\* is past the load, a coordinate once it is past BeginControllerAttempt, and
\* a verdict only at its end.
CycleIsSet ==
  /\ phase \in {"down", "starting"} => pc["loop"] = "off"
  /\ phase # "stopping" => pc["drain"] = "off"
  /\ \A e \in Executors :
       /\ pc[e] \in {"loaded", "exhausted", "begun", "called", "concluded"}
            => seen[e].hash \in Hashes
       /\ pc[e] \in {"begun", "called", "concluded"} => coord[e].attempt >= 1
       /\ verdict[e] # "none" => pc[e] = "concluded"

\* Cycles hold distinct tokens that the row has issued.
ClaimsAreOwn ==
  /\ \A e \in Executors : Active(e) => claim[e].token \in 1..claim_token
  /\ \A e, f \in Executors :
       e # f /\ Active(e) /\ Active(f) => claim[e].token # claim[f].token
  /\ \A e \in Executors :
       Active(e) /\ FenceHolds(e) => claim[e].version = input_version

\* The ledger of the current version lies below the latest call, and the
\* latest call lies at or below the counters.
LedgerIsOrdered ==
  /\ latest # NoCall => latest \in ledger
  /\ \A c \in ledger :
       /\ c.version <= input_version /\ c.epoch <= retry_epoch
       /\ c.version = input_version => Dispatched(input_version) /\ ~Below(latest, c)
  /\ Dispatched(input_version) /\ latest.epoch = retry_epoch
       => latest.attempt <= work_attempts

\* A live cycle's coordinate lies at or below the counters; before its call
\* it lies above the ledger, after it the call is the latest one.
CycleIsAhead ==
  \A e \in Executors :
    pc[e] \in {"begun", "called"} /\ FenceHolds(e) =>
      /\ coord[e].epoch <= retry_epoch
      /\ coord[e].epoch = retry_epoch => coord[e].attempt <= work_attempts
      /\ pc[e] = "begun" /\ Dispatched(input_version) => Below(latest, NextCall(e))
      /\ pc[e] = "called" => latest = NextCall(e)

\* An unprotected lease has supersessions left before the guard.
GuardIsArmed == lease # "none" /\ protected = "no" => streak < GuardAfter

\* A live cycle that has paid for a call runs under a protected lease.
PaidIsProtected ==
  \A e \in Executors : Paid(e) /\ FenceHolds(e) => protected = "yes"

\* A call that its cycle still waits for is in the ledger, without outcome.
AwaitedIsOpen ==
  /\ \A o \in outcomes : o.call \in ledger
  /\ \A e \in Executors : Awaits(e) =>
       NextCall(e) \in ledger /\ \A o \in outcomes : o.call # NextCall(e)
  /\ \A e, f \in Executors :
       e # f /\ Awaits(e) /\ Awaits(f) => NextCall(e) # NextCall(f)

\* A live cycle knows the park it loaded, and is not on a rejected basis.
RejectionIsSeen ==
  \A e \in Executors : FenceHolds(e) =>
    /\ pc[e] = "loaded" => seen[e].basis = hash
                            /\ (park = "rejected" => seen[e].park = "rejected")
    /\ pc[e] \in {"begun", "called"} /\ park = "rejected" => seen[e].hash # hash

ControllerInvariant ==
  /\ TypeOK /\ CycleIsSet /\ ClaimsAreOwn /\ LedgerIsOrdered /\ CycleIsAhead
  /\ GuardIsArmed /\ PaidIsProtected /\ AwaitedIsOpen /\ RejectionIsSeen

-----------------------------------------------------------------------------
(* Properties.                                                             *)

\* BeginControllerAttempt never hands a live cycle a coordinate that the
\* ledger's UNIQUE index already holds, whatever was stranded, refunded,
\* woken or recovered before: no cycle dies on the insert.
CoordinatesAreFresh ==
  \A e \in Executors :
    pc[e] = "begun" /\ FenceHolds(e) => ~Collides(NextCall(e))

\* Inputs supersede a run at most GuardAfter times before one is protected.
StormIsBounded == streak <= GuardAfter

\* A call has one outcome: recovery interrupts only what nobody concluded.
OneOutcomePerCall ==
  \A o, p \in outcomes : o.call = p.call => o.status = p.status

\* What a step does to a paid call: an input never takes a live claim away
\* from a cycle that has dispatched under it.
PaidCallKept ==
  input_version' # input_version =>
    \A e \in Executors : Paid(e) /\ FenceHolds(e) => lease # "live"

\* No paid call is discarded because of a new input while its lease lives.
PaidCallsAreKept == [][PaidCallKept]_vars

\* What a step does under a rejection: it records no call on the rejected
\* basis, and no recovered provider lifts the park.
RejectionKept ==
  park = "rejected" => /\ \A c \in ledger' \ ledger : c.hash # hash
                       /\ consumed' = consumed

\* A rejection is final for its basis: a drift away and back, a wake, a crash
\* or a second executor never makes the controller pay for that basis again.
RejectionIsFinal == [][RejectionKept]_vars

\* The docs of BudgetDeferredError and ParkedReasonBudget: a budget deferral
\* has no RetryAt only if time alone cannot resolve it.
BudgetParkNamesItsEnd ==
  park = "budget" /\ retry = "none" => \E o \in outcomes : o.status = "overdrawn"
=============================================================================
