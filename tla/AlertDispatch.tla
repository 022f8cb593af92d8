--------------------------- MODULE AlertDispatch ---------------------------
(***************************************************************************)
(* The durable correlation outbox of alertint-agent: an inbound alert      *)
(* delivery is accepted together with one pending dispatch row, and the    *)
(* DispatchWorker claims, applies, retries or dead-letters that row.       *)
(*                                                                         *)
(* The store runs on one SQLite connection, so every store method is one   *)
(* atomic step.  Between two steps anything else may run: the background   *)
(* loop of the worker and the Drain that startup and shutdown call on the  *)
(* SAME worker, with the SAME lease owner, are the two executors here.     *)
(*                                                                         *)
(* Time is kept as the one fact the claim query tests of a row: whether    *)
(* the moment it waits for, retry_at of a pending row or lease_expires_at  *)
(* of a claimed one, has been reached.  It may be reached at any time.     *)
(***************************************************************************)
EXTENDS Naturals, FiniteSets

CONSTANTS
  Deliveries,    \* delivery ids a sender may deliver
  Batch,         \* WorkerConfig.Batch: rows one claim may take
  MaxAttempts,   \* WorkerConfig.MaxAttempts
  MaxFaults      \* bound: crashes, signals and failed write-backs together

ASSUME DispatchAssumption ==
  /\ Batch \in Nat \ {0}
  /\ MaxAttempts \in Nat \ {0}
  /\ MaxFaults \in Nat

VARIABLES
  phase,       \* where the process is in its startup/shutdown sequence
  epoch,       \* process incarnation; the lease owner is minted per process
  faults,      \* faults spent so far (bound MaxFaults)
  disp,        \* alert_delivery_dispatches, one row per delivery
  correlated,  \* history: committed ApplyCorrelatedDelivery calls per delivery
  permanent,   \* history: deliveries whose apply returned a permanent error
  pc,          \* what each executor is doing
  claims,      \* the rest of each executor's claimed batch
  cur,         \* the claim an executor is about to write back
  cancelled    \* executors whose context is done

procVars == <<phase, epoch, faults>>
rowVars  == <<disp, correlated, permanent>>
execVars == <<pc, claims, cur, cancelled>>
vars     == <<phase, epoch, faults, disp, correlated, permanent,
              pc, claims, cur, cancelled>>

Executors == {"loop", "drain"}
Phases    == {"down", "starting", "running", "signalled", "draining"}
ErrorClasses == {"invalid_delivery", "transient"}
Statuses  == {"absent", "pending", "claimed", "applied", "failed"}

\* A dispatch row; owner 0 is a NULL lease_owner.
Row   == [status : Statuses, owner : Nat, token : Nat, attempts : Nat,
          timer : {"none", "waiting", "reached"}]
Absent == [status |-> "absent", owner |-> 0, token |-> 0, attempts |-> 0,
           timer |-> "none"]
\* The AlertDispatch value a claim returns and every later call is fenced by.
Claim == [id : Deliveries, owner : Nat, token : Nat, attempts : Nat]
\* A failed claim with the class dispatchErrorClass gave it.
Verdict == [claim : Claim, status : {"pending", "failed"}]
NoVerdict == [status |-> "none"]

TypeOK ==
  /\ phase \in Phases
  /\ epoch \in Nat
  /\ faults \in 0..MaxFaults
  /\ disp \in [Deliveries -> Row]
  /\ correlated \in [Deliveries -> Nat]
  /\ permanent \in SUBSET Deliveries
  /\ pc \in [Executors -> {"off", "idle", "round", "writeback"}]
  /\ claims \in [Executors -> SUBSET Claim]
  /\ cur \in [Executors -> Verdict \cup {NoVerdict}]
  /\ cancelled \in SUBSET Executors

Init ==
  /\ phase = "down"
  /\ epoch = 0
  /\ faults = 0
  /\ disp = [d \in Deliveries |-> Absent]
  /\ correlated = [d \in Deliveries |-> 0]
  /\ permanent = {}
  /\ pc = [e \in Executors |-> "off"]
  /\ claims = [e \in Executors |-> {}]
  /\ cur = [e \in Executors |-> NoVerdict]
  /\ cancelled = {}

-----------------------------------------------------------------------------
(* The store's transactions.                                               *)

\* AcceptDeliveries commits a batch: a new id gets a delivery and a pending
\* dispatch row, a known id is a successful no-op that touches no row.
Accept(S) ==
  /\ phase \in {"running", "signalled"}
  /\ disp' = [d \in Deliveries |->
                IF d \in S /\ disp[d] = Absent
                  THEN [Absent EXCEPT !.status = "pending", !.timer = "reached"]
                  ELSE disp[d]]
  /\ UNCHANGED <<procVars, correlated, permanent, execVars>>

\* Faulty: a dead-lettered row is claimed again.
DueWithDeadLetters ==
  {d \in Deliveries :
     \/ disp[d].status \in {"pending", "claimed"} /\ disp[d].timer = "reached"
     \/ disp[d].status = "failed"}
\* The WHERE clause of ClaimAlertDispatches.
Due == {d \in Deliveries : /\ disp[d].status \in {"pending", "claimed"}
                            /\ disp[d].timer = "reached"}

\* The SET clause of ClaimAlertDispatches.
Leased(r) ==
  [status |-> "claimed", owner |-> epoch, token |-> r.token + 1,
   attempts |-> r.attempts + 1, timer |-> "waiting"]

\* Every other write to a claimed row clears the lease and keeps the token
\* and the attempt count.
Unleased(r, status, timer) ==
  [status |-> status, owner |-> 0, token |-> r.token,
   attempts |-> r.attempts, timer |-> timer]

\* ClaimAlertDispatches leases the first Batch due rows.  Which rows are
\* first (ORDER BY retry_at, received_at, id) is left open.
ClaimAlertDispatches(e) ==
  /\ pc[e] = "idle" /\ e \notin cancelled
  /\ Due # {}
  /\ \E S \in SUBSET Due :
       /\ Cardinality(S) <= Batch
       /\ Cardinality(S) = Batch \/ S = Due
       /\ disp' = [d \in Deliveries |->
                     IF d \in S THEN Leased(disp[d]) ELSE disp[d]]
       /\ claims' = [claims EXCEPT ![e] =
                       {[id |-> d, owner |-> Leased(disp[d]).owner,
                         token |-> Leased(disp[d]).token,
                         attempts |-> Leased(disp[d]).attempts] : d \in S}]
  /\ pc' = [pc EXCEPT ![e] = "round"]
  /\ UNCHANGED <<procVars, correlated, permanent, cur, cancelled>>

\* The fence shared by verifyCorrelatedDispatchClaimTx, the applied mark and
\* RetryAlertDispatch: status, owner and token, not the lease's expiry.
FenceHolds(c) ==
  /\ disp[c.id].status = "claimed"
  /\ disp[c.id].owner = c.owner
  /\ disp[c.id].token = c.token

\* Remove c from the batch; the round ends with its last claim.
Settle(e, c) ==
  /\ claims' = [claims EXCEPT ![e] = @ \ {c}]
  /\ pc' = [pc EXCEPT ![e] = IF claims[e] = {c} THEN "idle" ELSE "round"]

\* RunOnce gives up the rest of its batch and returns an error.  The loop
\* logs it and waits for its next tick, Drain returns it to its caller.
StopRound(e) ==
  /\ claims' = [claims EXCEPT ![e] = {}]
  /\ pc' = [pc EXCEPT ![e] = IF e = "loop" THEN "idle" ELSE "off"]

-----------------------------------------------------------------------------
(* One claim of the batch: ApplyDelivery and its outcomes.                 *)

\* Faulty: the applied mark is not part of the transaction.
ApplyCommitUnmarked(e, c) ==
  /\ pc[e] = "round" /\ c \in claims[e] /\ e \notin cancelled
  /\ FenceHolds(c)
  /\ correlated' = [correlated EXCEPT ![c.id] = @ + 1]
  /\ Settle(e, c)
  /\ UNCHANGED <<procVars, disp, permanent, cur, cancelled>>

\* ApplyDelivery's transaction commits: the correlation and the applied mark
\* together, fenced.
ApplyCommit(e, c) ==
  /\ pc[e] = "round" /\ c \in claims[e] /\ e \notin cancelled
  /\ FenceHolds(c)
  /\ disp' = [disp EXCEPT ![c.id] = Unleased(@, "applied", "none")]
  /\ correlated' = [correlated EXCEPT ![c.id] = @ + 1]
  /\ Settle(e, c)
  /\ UNCHANGED <<procVars, permanent, cur, cancelled>>

\* applyOne stops the round, without a write-back, when the lease moved on...
ApplyLeaseLost(e, c) ==
  /\ pc[e] = "round" /\ c \in claims[e] /\ e \notin cancelled
  /\ ~FenceHolds(c)
  /\ StopRound(e)
  /\ phase' = IF phase = "starting" THEN "down" ELSE phase
  /\ UNCHANGED <<epoch, faults, rowVars, cur, cancelled>>

\* ... or when the context is done.
ApplyCancelled(e, c) ==
  /\ pc[e] = "round" /\ c \in claims[e] /\ e \in cancelled
  /\ StopRound(e)
  /\ UNCHANGED <<procVars, rowVars, cur, cancelled>>

\* Any other error is classified: permanent (invalid delivery, not found) or
\* transient, which is terminal too from the MaxAttempts-th claim on.
ApplyFails(e, c, class) ==
  /\ pc[e] = "round" /\ c \in claims[e]
  /\ cur' = [cur EXCEPT ![e] =
               [claim |-> c,
                status |-> IF class = "invalid_delivery" \/ c.attempts >= MaxAttempts
                             THEN "failed" ELSE "pending"]]
  /\ permanent' = IF class = "invalid_delivery" THEN permanent \cup {c.id} ELSE permanent
  /\ pc' = [pc EXCEPT ![e] = "writeback"]
  /\ UNCHANGED <<procVars, disp, correlated, claims, cancelled>>

\* RetryAlertDispatch releases the row to pending or fails it for good; a
\* fence that moved on changes nothing, and the round continues either way.
RetryAlertDispatch(e) ==
  /\ pc[e] = "writeback"
  /\ LET c == cur[e].claim IN
       /\ disp' = IF FenceHolds(c) /\ e \notin cancelled
                    THEN [disp EXCEPT ![c.id] =
                            Unleased(@, cur[e].status,
                              IF cur[e].status = "failed" THEN "none" ELSE "waiting")]
                    ELSE disp
       /\ Settle(e, c)
  /\ cur' = [cur EXCEPT ![e] = NoVerdict]
  /\ UNCHANGED <<procVars, correlated, permanent, cancelled>>

\* The write-back itself fails: logged, and the row stays claimed.
RetryWriteFails(e) ==
  /\ pc[e] = "writeback" /\ faults < MaxFaults
  /\ Settle(e, cur[e].claim)
  /\ cur' = [cur EXCEPT ![e] = NoVerdict]
  /\ faults' = faults + 1
  /\ UNCHANGED <<phase, epoch, rowVars, cancelled>>

-----------------------------------------------------------------------------
(* The clock.                                                              *)

TimerReached(d) ==
  /\ disp[d].timer = "waiting"
  /\ disp' = [disp EXCEPT ![d] = [@ EXCEPT !.timer = "reached"]]
  /\ UNCHANGED <<procVars, correlated, permanent, execVars>>

-----------------------------------------------------------------------------
(* The process: foundationSequence and foundationStopSequence.             *)

\* A recovered row keeps its token, its attempt count and its retry_at.
Recovered(r) == IF r.status = "claimed" /\ r.timer = "reached"
                  THEN Unleased(r, "pending", "reached")
                  ELSE r

\* Boot mints a lease owner, releases expired leases, then drains.
Boot ==
  /\ phase = "down"
  /\ epoch' = epoch + 1
  /\ phase' = "starting"
  /\ disp' = [d \in Deliveries |-> Recovered(disp[d])]
  /\ pc' = [pc EXCEPT !["drain"] = "idle"]
  /\ UNCHANGED <<faults, correlated, permanent, claims, cur, cancelled>>

\* Drain returns once a round handles nothing.
DrainDone ==
  /\ pc["drain"] = "idle" /\ "drain" \notin cancelled /\ Due = {}
  /\ pc' = [pc EXCEPT !["drain"] = "off"]
  /\ UNCHANGED <<procVars, rowVars, claims, cur, cancelled>>

\* After the startup drain the worker loop and the receivers start.
StartWorkers ==
  /\ phase = "starting" /\ pc["drain"] = "off"
  /\ phase' = "running"
  /\ pc' = [pc EXCEPT !["loop"] = "idle"]
  /\ UNCHANGED <<epoch, faults, rowVars, claims, cur, cancelled>>

\* SIGTERM cancels the context the worker loop was started with.
Signal ==
  /\ phase = "running" /\ faults < MaxFaults
  /\ phase' = "signalled"
  /\ faults' = faults + 1
  /\ cancelled' = {"loop"}
  /\ UNCHANGED <<epoch, rowVars, pc, claims, cur>>

\* run returns: its Drain sees the done context, then the select does.
LoopExits ==
  /\ pc["loop"] = "idle" /\ "loop" \in cancelled
  /\ pc' = [pc EXCEPT !["loop"] = "off"]
  /\ UNCHANGED <<procVars, rowVars, claims, cur, cancelled>>

\* Receivers stop first; then the stop sequence drains from its own goroutine.
StopReceivers ==
  /\ phase = "signalled"
  /\ phase' = "draining"
  /\ pc' = [pc EXCEPT !["drain"] = "idle"]
  /\ UNCHANGED <<epoch, faults, rowVars, claims, cur, cancelled>>

\* The shutdown context times out under the drain.
ShutdownTimeout ==
  /\ phase = "draining" /\ "drain" \notin cancelled
  /\ cancelled' = cancelled \cup {"drain"}
  /\ UNCHANGED <<procVars, rowVars, pc, claims, cur>>

\* The drain round meets its done context between rounds.
DrainCancelled ==
  /\ pc["drain"] = "idle" /\ "drain" \in cancelled
  /\ pc' = [pc EXCEPT !["drain"] = "off"]
  /\ UNCHANGED <<procVars, rowVars, claims, cur, cancelled>>

\* The process is gone: executors lose what they held, rows stay as they are.
Halt ==
  /\ phase' = "down"
  /\ pc' = [e \in Executors |-> "off"]
  /\ claims' = [e \in Executors |-> {}]
  /\ cur' = [e \in Executors |-> NoVerdict]
  /\ cancelled' = {}
  /\ UNCHANGED <<epoch, rowVars>>

Exit ==
  /\ phase = "draining" /\ pc["drain"] = "off"
  /\ pc["loop"] = "off" \/ "drain" \in cancelled
  /\ Halt /\ UNCHANGED faults

Crash ==
  /\ phase # "down" /\ faults < MaxFaults
  /\ Halt /\ faults' = faults + 1

-----------------------------------------------------------------------------
ApplyStep(e) ==
  \E c \in claims[e] :
    \/ ApplyCommit(e, c)
    \/ ApplyLeaseLost(e, c)
    \/ ApplyCancelled(e, c)
    \/ \E class \in ErrorClasses : ApplyFails(e, c, class)

Next ==
  \/ \E S \in (SUBSET Deliveries) \ {{}} : Accept(S)
  \/ \E e \in Executors :
       \/ ClaimAlertDispatches(e)
       \/ ApplyStep(e)
       \/ RetryAlertDispatch(e)
       \/ RetryWriteFails(e)
  \/ \E d \in Deliveries : TimerReached(d)
  \/ Boot \/ DrainDone \/ StartWorkers
  \/ Signal \/ LoopExits \/ StopReceivers \/ ShutdownTimeout \/ DrainCancelled
  \/ Exit \/ Crash

Spec == Init /\ [][Next]_vars

\* The clock runs, a runnable goroutine runs, and a stopped process is
\* started again; faults are bounded by MaxFaults.
Fairness ==
  /\ \A d \in Deliveries : WF_vars(TimerReached(d))
  /\ \A e \in Executors : /\ WF_vars(ClaimAlertDispatches(e))
                          /\ WF_vars(ApplyStep(e))
                          /\ WF_vars(RetryAlertDispatch(e))
  /\ WF_vars(Boot) /\ WF_vars(DrainDone) /\ WF_vars(StartWorkers)
  /\ WF_vars(LoopExits) /\ WF_vars(StopReceivers) /\ WF_vars(DrainCancelled)
  /\ WF_vars(Exit)

FairSpec == Spec /\ Fairness

-----------------------------------------------------------------------------
(* Properties.                                                             *)

\* An executor that is writing back has a verdict on a claim it still holds.
WritebackHoldsClaim ==
  \A e \in Executors :
    pc[e] = "writeback" => cur[e] \in Verdict /\ cur[e].claim \in claims[e]

\* A dispatch row is the record of exactly one correlation: it is applied iff
\* ApplyCorrelatedDelivery committed for it, and it never committed twice,
\* although startup, shutdown and the loop drain the same outbox.
CorrelatedExactlyOnce ==
  \A d \in Deliveries :
    correlated[d] = IF disp[d].status = "applied" THEN 1 ELSE 0

\* Two executors never hold claims on one delivery under the same token, and
\* nobody holds a token the row has not issued: ClaimAlertDispatches fences
\* every earlier holder, even one that shares its lease owner.
TokensAreFences ==
  \A e \in Executors : \A c \in claims[e] :
    /\ c.token <= disp[c.id].token
    /\ \A f \in Executors \ {e} : \A k \in claims[f] :
         c.id = k.id => c.token # k.token

\* A row is dead-lettered only after a permanent error or MaxAttempts claims.
DeadLetterIsEarned ==
  \A d \in Deliveries :
    disp[d].status = "failed" =>
      d \in permanent \/ disp[d].attempts >= MaxAttempts

\* A claim that still matches its row was issued with the row's attempt count,
\* and a verdict that dead-letters is backed by its claim.
ClaimsMirrorRows ==
  \A e \in Executors :
    /\ \A c \in claims[e] :
         c.token = disp[c.id].token => c.attempts = disp[c.id].attempts
    /\ cur[e] \in Verdict /\ cur[e].status = "failed" =>
         cur[e].claim.id \in permanent \/ cur[e].claim.attempts >= MaxAttempts

\* The inductive invariant behind the safety properties.
DispatchInvariant ==
  /\ WritebackHoldsClaim
  /\ CorrelatedExactlyOnce
  /\ TokensAreFences
  /\ ClaimsMirrorRows
  /\ DeadLetterIsEarned

\* What a step does to a live lease: its row's status and token change only
\* when the executor that holds the current token gives that claim up.
LiveLeaseKept ==
  \A d \in Deliveries :
    /\ disp[d].status = "claimed" /\ disp[d].timer # "reached"
    /\ <<disp'[d].status, disp'[d].token>> # <<disp[d].status, disp[d].token>>
    => \E e \in Executors :
         \E c \in claims[e] \ claims'[e] :
           c.id = d /\ c.token = disp[d].token

\* A lease that has not expired is given up only by the executor that holds
\* its token: a stale holder's late commit or write-back leaves it alone.
LiveLeaseIsExclusive == [][LiveLeaseKept]_vars

-----------------------------------------------------------------------------
(* What the sender of a delivery is promised.                              *)

\* The abstract state of a row: what its sender may rely on.
Promise(r) ==
  CASE r.status = "absent"                -> "absent"
    [] r.status \in {"pending", "claimed"} -> "accepted"
    [] r.status = "applied"               -> "correlated"
    [] r.status = "failed"                -> "dead"

promises == [d \in Deliveries |-> Promise(disp[d])]

Outbox == INSTANCE DeliveryOutbox WITH state <- promises

\* Seen through the abstract state, the worker only ever accepts and settles:
\* a settled delivery stays settled, and no step settles two at once.
PromisesAreKept == Outbox!Spec
=============================================================================
