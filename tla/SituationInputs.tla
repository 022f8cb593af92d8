--------------------------- MODULE SituationInputs ---------------------------
(***************************************************************************)
(* The inputs of one group of Incidents and the Situations they feed: what *)
(* correlation, triage and operators queue in situation_input_outbox, the  *)
(* worker that claims and applies the queue, the owner each Incident gets, *)
(* the controller runs that hold a Situation meanwhile, and the lifecycle  *)
(* those runs commit.                                                      *)
(*                                                                         *)
(* Every store method is one transaction, hence one step.  An Incident has *)
(* one Alert; its deliveries are reduced to the newest status and its age. *)
(* Ages and grace periods count ticks of one clock; leases run out at any  *)
(* moment, and a retry may be due at once; that a lease runs out while its *)
(* holder still works is a fault.  Times that only decide an order are     *)
(* left out.                                                               *)
(***************************************************************************)
EXTENDS Integers, FiniteSets

CONSTANTS
  Loop, Drain,    \* the background loop, and the Drain that shutdown runs beside it
  MaxAttempts,    \* WorkerConfig.MaxAttempts
  Batch,          \* WorkerConfig.Batch
  GuardAfter,     \* situationSupersedeGuardAfter
  Grace,          \* the recovery grace, in ticks
  Horizon,        \* the deadline of a firing observation, in ticks
  Window,         \* the silence that closes a pending recovery, in ticks
  MaxInputs,      \* bound: rows of the outbox
  MaxIncidents,   \* bound: Incidents of the group
  MaxClaims,      \* bound: claim_token of a Situation
  MaxFaults       \* bound: storage errors and crashes

ASSUME InputsAssumption ==
  /\ MaxAttempts \in Nat \ {0} /\ Batch \in Nat \ {0} /\ GuardAfter \in Nat \ {0}
  /\ Grace \in Nat \ {0} /\ Horizon \in Nat \ {0} /\ Window \in Nat \ {0}
  /\ MaxInputs \in Nat /\ MaxIncidents \in Nat /\ MaxClaims \in Nat
  /\ MaxFaults \in Nat

VARIABLES
  inputs,      \* situation_input_outbox
  situations,  \* the situations rows of the group
  owner,       \* situation_incidents: the Situation of an Incident, 0 if none
  alert,       \* newest delivery of each Incident: its status
  age,         \* and the ticks since it was received
  batch,       \* the claims each executor has still to apply
  pc,          \* what the executor does with the first of them
  runs,        \* controller cycles in flight
  faults,
  burned       \* history: claims of an input that neither applied nor deferred it

inputVars == <<inputs, burned>>
alertVars == <<alert, age>>
workVars  == <<batch, pc>>
vars == <<inputVars, situations, owner, alertVars, workVars, runs, faults>>

InputIds  == 1..MaxInputs
Incidents == 1..MaxIncidents
Executors == {Loop, Drain}

\* Deliveries, what triage records, and the operators' annotations and verdicts.
Kinds == {"firing", "resolved", "triage", "artifact"}
Open     == {"active", "recovery_pending"}
Terminal == {"recovered", "closed_unknown"}
Done     == {"applied", "recorded"}
OldestAge == IF Horizon > Window THEN Horizon ELSE Window
NoGrace   == -1

\* "expired" is a claimed row whose lease has run out, "recorded" an applied one
\* whose journal_state is owner_terminal.
Input == [incident : 0..MaxIncidents, kind : Kinds \cup {"none"},
          status : {"absent", "pending", "claimed", "expired",
                    "applied", "recorded", "failed"},
          token : Nat, attempts : Nat, situation : 0..MaxIncidents, version : Nat]
NoInput == [incident |-> 0, kind |-> "none", status |-> "absent",
            token |-> 0, attempts |-> 0, situation |-> 0, version |-> 0]

Situation == [life : Open \cup Terminal \cup {"none"}, version : Nat,
              lease : {"none", "live", "expired"}, protected : BOOLEAN,
              token : 0..MaxClaims, streak : Nat, grace : NoGrace..Grace]
NoSituation == [life |-> "none", version |-> 0, lease |-> "none", protected |-> FALSE,
                token |-> 0, streak |-> 0, grace |-> NoGrace]

Claim == [id : InputIds, token : Nat]
\* A cycle has the claim it started from; once loaded, the lifecycle it will
\* commit.
Run == [situation : Incidents, token : 1..MaxClaims, version : Nat,
        life : Open \cup Terminal \cup {"none"}, grace : NoGrace..Grace]

TypeOK ==
  /\ inputs \in [InputIds -> Input] /\ burned \in [InputIds -> Nat]
  /\ situations \in [Incidents -> Situation]
  /\ owner \in [Incidents -> 0..MaxIncidents]
  /\ alert \in [Incidents -> {"none", "firing", "resolved"}]
  /\ age \in [Incidents -> 0..OldestAge]
  /\ batch \in [Executors -> SUBSET Claim]
  /\ pc \in [Executors -> {"apply", "defer", "retry"}]
  /\ runs \in SUBSET Run
  /\ faults \in 0..MaxFaults

Init ==
  /\ inputs = [k \in InputIds |-> NoInput] /\ burned = [k \in InputIds |-> 0]
  /\ situations = [s \in Incidents |-> NoSituation]
  /\ owner = [i \in Incidents |-> 0]
  /\ alert = [i \in Incidents |-> "none"] /\ age = [i \in Incidents |-> 0]
  /\ batch = [e \in Executors |-> {}] /\ pc = [e \in Executors |-> "apply"]
  /\ runs = {} /\ faults = 0

-----------------------------------------------------------------------------
(* What is queued.                                                         *)

Exists(i) == alert[i] # "none"
OwnerTerminal(i) == owner[i] # 0 /\ situations[owner[i]].life \in Terminal

\* The next free row.
FreeInput(k) == inputs[k].status = "absent" /\ \A j \in 1..(k - 1) : inputs[j].status # "absent"
Enqueue(i, kind) ==
  \E k \in InputIds :
    /\ FreeInput(k)
    /\ inputs' = [inputs EXCEPT ![k] = [NoInput EXCEPT !.incident = i, !.kind = kind,
                                                       !.status = "pending"]]

\* ApplyCorrelatedDelivery: the delivery, its membership and its input.
Correlate(i, status) ==
  /\ Enqueue(i, status)
  /\ alert' = [alert EXCEPT ![i] = status] /\ age' = [age EXCEPT ![i] = 0]
  /\ UNCHANGED <<burned, situations, owner, workVars, runs, faults>>

\* A fresh Incident; they are numbered in the order of their creation.
NewIncident(i) == ~Exists(i) /\ \A j \in 1..(i - 1) : Exists(j)
Newest(i) == Exists(i) /\ \A j \in (i + 1)..MaxIncidents : ~Exists(j)

\* A firing delivery collapses into an Incident whose owner is not terminal
\* (RequireNonterminalOwner), or opens a new one.
DeliverFiring(i) ==
  /\ NewIncident(i) \/ (Exists(i) /\ ~OwnerTerminal(i))
  /\ Correlate(i, "firing")

\* A recovery goes to the Incident of its Alert unless that one's owner is
\* terminal: then applyResolvedDeliveryPlan attaches it to the newest
\* Incident of the group without the owner check.
DeliverResolved(i) ==
  /\ Exists(i)
  /\ IF OwnerTerminal(i) THEN \E n \in Incidents : Newest(n) /\ Correlate(n, "resolved")
     ELSE Correlate(i, "resolved")

\* Triage of an owned Incident persists its finding, skips, retries or gives
\* up, the last also when its owner closed meanwhile.
TriageRecords(i) ==
  /\ owner[i] # 0 /\ Enqueue(i, "triage")
  /\ UNCHANGED <<burned, situations, owner, alertVars, workVars, runs, faults>>

\* enqueueOperatorArtifactInput: only for an Incident whose owner is open.
RecordArtifact(i) ==
  /\ owner[i] # 0 /\ ~OwnerTerminal(i) /\ Enqueue(i, "artifact")
  /\ UNCHANGED <<burned, situations, owner, alertVars, workVars, runs, faults>>

-----------------------------------------------------------------------------
(* Time.                                                                   *)

\* Some executor still works under the current claim of row k.
Held(k) == \E e \in Executors : \E c \in batch[e] : c.id = k /\ c.token = inputs[k].token

InputLeaseExpires(k) ==
  /\ inputs[k].status = "claimed"
  /\ IF Held(k) THEN faults < MaxFaults /\ faults' = faults + 1 ELSE UNCHANGED faults
  /\ inputs' = [inputs EXCEPT ![k].status = "expired"]
  /\ UNCHANGED <<burned, situations, owner, alertVars, workVars, runs>>

LeaseExpires(s) ==
  /\ situations[s].lease = "live"
  /\ IF \E r \in runs : r.situation = s /\ r.token = situations[s].token
       THEN faults < MaxFaults /\ faults' = faults + 1 ELSE UNCHANGED faults
  /\ situations' = [situations EXCEPT ![s].lease = "expired"]
  /\ UNCHANGED <<inputVars, owner, alertVars, workVars, runs>>

Older(n) == IF n < OldestAge THEN n + 1 ELSE n
Shorter(g) == IF g > 0 THEN g - 1 ELSE g

Tick ==
  /\ age' = [i \in Incidents |-> IF Exists(i) THEN Older(age[i]) ELSE 0]
  /\ situations' = [s \in Incidents |->
                     [situations[s] EXCEPT !.grace = Shorter(situations[s].grace)]]
  /\ <<age, situations>>' # <<age, situations>>
  /\ UNCHANGED <<inputVars, owner, alert, workVars, runs, faults>>

-----------------------------------------------------------------------------
(* The input worker.                                                       *)

\* Faulty: a protected lease holds the queue back after it has run out, too.
GroupProtectedStale ==
  \E s \in Incidents : situations[s].life \in Open /\ situations[s].protected
\* A live protected lease on the group's open Situation holds the queue back.
GroupProtected ==
  \E s \in Incidents : /\ situations[s].life \in Open
                       /\ situations[s].lease = "live" /\ situations[s].protected

Claimable == {k \in InputIds : inputs[k].status \in {"pending", "expired"}}

\* The first Batch claimable rows, in order.
FirstOf(S) == {k \in S : Cardinality({j \in S : j < k}) < Batch}

\* ClaimSituationInputs.
ClaimInputs(e) ==
  LET taken == FirstOf(Claimable) IN
  /\ batch[e] = {} /\ ~GroupProtected /\ taken # {}
  /\ inputs' = [k \in InputIds |->
                 IF k \in taken
                   THEN [inputs[k] EXCEPT !.status = "claimed", !.token = @ + 1,
                                          !.attempts = @ + 1]
                   ELSE inputs[k]]
  /\ burned' = [k \in InputIds |->
                 IF k \in taken /\ inputs[k].status = "expired" THEN burned[k] + 1
                 ELSE burned[k]]
  /\ batch' = [batch EXCEPT ![e] =
                {[id |-> k, token |-> inputs[k].token + 1] : k \in taken}]
  /\ UNCHANGED <<situations, owner, alertVars, pc, runs, faults>>

\* The claims of a batch are handled in the order of their rows.
Current(e) == CHOOSE c \in batch[e] : \A d \in batch[e] : c.id <= d.id
RowOf(e) == inputs[Current(e).id]
\* The fence of every write on a claimed row: no expiry, only the token.
FenceHolds(e) ==
  RowOf(e).status \in {"claimed", "expired"} /\ RowOf(e).token = Current(e).token

\* The executor turns to the next claim of its batch.
Advance(e) ==
  /\ batch' = [batch EXCEPT ![e] = @ \ {Current(e)}]
  /\ pc' = [pc EXCEPT ![e] = "apply"]
Busy(e, at) == batch[e] # {} /\ pc[e] = at

\* The row is applied already (an earlier claim of it got through), or the
\* fence is lost, which abandons the rest of the round.
ApplyIdle(e) ==
  /\ Busy(e, "apply")
  /\ \/ RowOf(e).status \in Done /\ Advance(e)
     \/ /\ RowOf(e).status \notin Done /\ ~FenceHolds(e)
        /\ batch' = [batch EXCEPT ![e] = {}] /\ UNCHANGED pc
  /\ UNCHANGED <<inputVars, situations, owner, alertVars, runs, faults>>

\* The Situation the input of Incident i goes to: its owner, else the open
\* one of the group, else a new one.
OpenSituations == {s \in DOMAIN situations : situations[s].life \in Open}
NextSituation(s) == situations[s].life = "none" /\ \A t \in 1..(s - 1) : situations[t].life # "none"
Target(i, s) ==
  IF owner[i] # 0 THEN s = owner[i]
  ELSE IF OpenSituations # {} THEN s \in OpenSituations
  ELSE NextSituation(s)

\* Artifacts of a terminal owner are recorded without joining it.
OwnerIsClosed(e) == RowOf(e).kind = "artifact" /\ OwnerTerminal(RowOf(e).incident)

MarkApplied(e, status, s, v) ==
  inputs' = [inputs EXCEPT ![Current(e).id] =
              [@ EXCEPT !.status = status, !.situation = s, !.version = v]]

ApplyToClosed(e) ==
  /\ Busy(e, "apply") /\ FenceHolds(e) /\ OwnerIsClosed(e)
  /\ LET s == owner[RowOf(e).incident] IN MarkApplied(e, "recorded", s, situations[s].version)
  /\ Advance(e)
  /\ UNCHANGED <<burned, situations, owner, alertVars, runs, faults>>

\* Faulty: a new Situation starts in recovery_pending.
JoinedPending(s) ==
  LET row == situations[s] IN
  IF row.life = "none"
    THEN [NoSituation EXCEPT !.life = "recovery_pending", !.version = 1, !.grace = 0]
    ELSE [row EXCEPT !.version = @ + 1, !.lease = "none", !.protected = FALSE,
                     !.streak = IF row.lease = "live" THEN @ + 1 ELSE @]

\* joinSituationTx on a row that exists, createSituationTx on one that does
\* not.  Joining takes the lease away but keeps the claim token.
Joined(s) ==
  LET row == situations[s] IN
  IF row.life = "none"
    THEN [NoSituation EXCEPT !.life = "active", !.version = 1]
    ELSE [row EXCEPT !.version = @ + 1, !.lease = "none", !.protected = FALSE,
                     !.streak = IF row.lease = "live" THEN @ + 1 ELSE @]

ProtectedNow(s) == situations[s].lease = "live" /\ situations[s].protected
\* Faulty: the claim is not fenced and an applied row not recognised.
MayApplyAlways(e) == RowOf(e).status # "absent"
MayApply(e) == FenceHolds(e)

\* ApplySituationInputResult: the owner's row, the membership and the input
\* in one transaction.
Apply(e) ==
  /\ Busy(e, "apply") /\ MayApply(e) /\ ~OwnerIsClosed(e)
  /\ \E s \in Incidents :
       /\ Target(RowOf(e).incident, s) /\ ~ProtectedNow(s)
       /\ situations' = [situations EXCEPT ![s] = Joined(s)]
       /\ owner' = [owner EXCEPT ![RowOf(e).incident] = s]
       /\ MarkApplied(e, "applied", s, Joined(s).version)
  /\ Advance(e)
  /\ UNCHANGED <<burned, alertVars, runs, faults>>

\* ErrSituationProtected rolls back; the input is put back right after.
ApplyProtected(e) ==
  /\ Busy(e, "apply") /\ FenceHolds(e) /\ ~OwnerIsClosed(e)
  /\ \E s \in Incidents : Target(RowOf(e).incident, s) /\ ProtectedNow(s)
  /\ pc' = [pc EXCEPT ![e] = "defer"]
  /\ UNCHANGED <<inputVars, situations, owner, alertVars, batch, runs, faults>>

\* DeferSituationInput takes the attempt of this claim back.
Refund(n) == IF n > 0 THEN n - 1 ELSE 0

\* A lost fence is only logged.
Defer(e) ==
  /\ Busy(e, "defer")
  /\ IF FenceHolds(e)
       THEN inputs' = [inputs EXCEPT ![Current(e).id].status = "pending",
                                     ![Current(e).id].attempts = Refund(@)]
       ELSE UNCHANGED inputs
  /\ Advance(e)
  /\ UNCHANGED <<burned, situations, owner, alertVars, runs, faults>>

\* A storage error rolls the transaction back.
ApplyFails(e) ==
  /\ Busy(e, "apply") /\ faults < MaxFaults /\ faults' = faults + 1
  /\ pc' = [pc EXCEPT ![e] = "retry"]
  /\ UNCHANGED <<inputVars, situations, owner, alertVars, batch, runs>>

\* RetrySituationInput: back off, or fail for good once the attempts are used up.
Retry(e) ==
  /\ Busy(e, "retry")
  /\ IF FenceHolds(e)
       THEN /\ inputs' = [inputs EXCEPT ![Current(e).id].status =
                            IF RowOf(e).attempts >= MaxAttempts THEN "failed" ELSE "pending"]
            /\ burned' = [burned EXCEPT ![Current(e).id] = @ + 1]
       ELSE UNCHANGED inputVars
  /\ Advance(e)
  /\ UNCHANGED <<situations, owner, alertVars, runs, faults>>

\* The write-back of a deferral or a retry fails: the lease has to run out.
WriteBackFails(e) ==
  /\ batch[e] # {} /\ pc[e] # "apply" /\ faults < MaxFaults /\ faults' = faults + 1
  /\ Advance(e)
  /\ UNCHANGED <<inputVars, situations, owner, alertVars, runs>>

-----------------------------------------------------------------------------
(* Controller runs.                                                        *)

\* ClaimDueSituations.  When a Situation is due is left to the clock.
ClaimSituation(s) ==
  LET row == situations[s] IN
  /\ row.life \in Open /\ row.lease # "live" /\ row.token < MaxClaims
  /\ situations' = [situations EXCEPT
       ![s] = [row EXCEPT !.lease = "live", !.token = @ + 1,
                          !.protected = (row.streak >= GuardAfter)]]
  /\ runs' = runs \cup {[situation |-> s, token |-> row.token + 1, version |-> row.version,
                         life |-> "none", grace |-> NoGrace]}
  /\ UNCHANGED <<inputVars, owner, alertVars, workVars, faults>>

\* ReduceSourceLifecycle over the newest delivery of every member: a firing
\* one past its deadline counts as unobserved.
Members(s) == {i \in Incidents : owner[i] = s}
AnyFiring(s)   == \E i \in Members(s) : alert[i] = "firing" /\ age[i] < Horizon
AllResolved(s) == \A i \in Members(s) : alert[i] = "resolved"
ClosureDue(s)  == ~AnyFiring(s) /\ ~AllResolved(s)
\* sourceSilentThrough.
Silent(s) == \A i \in Members(s) : age[i] >= Window

\* resolveLifecycle, as a run that has prepared its evidence computes it.
Resolve(s) ==
  LET row == situations[s] IN
  CASE AnyFiring(s) -> [life |-> "active", grace |-> NoGrace]
    [] ~AnyFiring(s) /\ row.life = "active" /\ AllResolved(s)
         -> [life |-> "recovery_pending", grace |-> Grace]
    [] ~AnyFiring(s) /\ row.life = "active" /\ ClosureDue(s)
         -> [life |-> "closed_unknown", grace |-> NoGrace]
    [] ~AnyFiring(s) /\ row.life = "recovery_pending" /\ ClosureDue(s) /\ Silent(s)
         -> [life |-> "closed_unknown", grace |-> row.grace]
    [] ~AnyFiring(s) /\ row.life = "recovery_pending" /\ ~(ClosureDue(s) /\ Silent(s))
         -> [life |-> IF row.grace = 0 THEN "recovered" ELSE "recovery_pending",
             grace |-> row.grace]
    [] OTHER -> [life |-> row.life, grace |-> row.grace]

\* LoadReconciliationInput, unfenced, and the lifecycle decided on it.
Load(r) ==
  /\ r.life = "none"
  /\ runs' = (runs \ {r}) \cup {[r EXCEPT !.life = Resolve(r.situation).life,
                                          !.grace = Resolve(r.situation).grace]}
  /\ UNCHANGED <<inputVars, situations, owner, alertVars, workVars, faults>>

HoldsLease(r) == LET row == situations[r.situation] IN row.lease # "none" /\ row.token = r.token
\* ExtendControllerLease: a late heartbeat revives a lease nobody took since.
Heartbeat(r) ==
  /\ HoldsLease(r) /\ situations[r.situation].lease = "expired"
  /\ situations' = [situations EXCEPT ![r.situation].lease = "live"]
  /\ UNCHANGED <<inputVars, owner, alertVars, workVars, runs, faults>>

\* Faulty: the commit compares the claim token alone, which joining keeps.
CommitFenceToken(r) == situations[r.situation].token = r.token
CommitFence(r) == HoldsLease(r) /\ situations[r.situation].version = r.version

\* RecordAssessmentCall protects the lease while the provider answers.
Protect(r) ==
  /\ r.life = "active" /\ HoldsLease(r) /\ ~situations[r.situation].protected
  /\ situations' = [situations EXCEPT ![r.situation].protected = TRUE]
  /\ UNCHANGED <<inputVars, owner, alertVars, workVars, runs, faults>>

\* CommitController: lifecycle, grace and the end of the lease.
Commit(r) ==
  /\ r.life # "none" /\ CommitFence(r)
  /\ situations' = [situations EXCEPT ![r.situation] =
       [@ EXCEPT !.life = r.life, !.grace = r.grace, !.lease = "none",
                 !.protected = FALSE, !.streak = 0]]
  /\ runs' = runs \ {r}
  /\ UNCHANGED <<inputVars, owner, alertVars, workVars, faults>>

\* A run that fails, or was preempted, releases what it still holds.
Release(r) ==
  /\ runs' = runs \ {r}
  /\ situations' = IF HoldsLease(r)
                     THEN [situations EXCEPT ![r.situation].lease = "none",
                                             ![r.situation].protected = FALSE]
                     ELSE situations
  /\ UNCHANGED <<inputVars, owner, alertVars, workVars, faults>>

\* The process dies and comes back; leases of the dead one stay behind.
Crash ==
  /\ faults < MaxFaults /\ faults' = faults + 1
  /\ batch' = [e \in Executors |-> {}] /\ pc' = [e \in Executors |-> "apply"]
  /\ runs' = {}
  /\ UNCHANGED <<inputVars, situations, owner, alertVars>>

-----------------------------------------------------------------------------
Work(e) == ApplyIdle(e) \/ ApplyToClosed(e) \/ Apply(e) \/ ApplyProtected(e)
           \/ Defer(e) \/ Retry(e)

Next ==
  \/ \E i \in Incidents : DeliverFiring(i) \/ DeliverResolved(i) \/ TriageRecords(i)
                          \/ RecordArtifact(i)
  \/ \E k \in InputIds : InputLeaseExpires(k)
  \/ \E e \in Executors : ClaimInputs(e) \/ Work(e) \/ ApplyFails(e) \/ WriteBackFails(e)
  \/ \E s \in Incidents : LeaseExpires(s) \/ ClaimSituation(s)
  \/ \E r \in runs : Load(r) \/ Heartbeat(r) \/ Protect(r) \/ Commit(r) \/ Release(r)
  \/ Tick \/ Crash

Spec == Init /\ [][Next]_vars

\* The loop is a goroutine that never blocks, Drain is one until shutdown ends;
\* timers fire; a controller run ends, because its provider call is bounded.
Fairness ==
  /\ WF_vars(ClaimInputs(Loop))
  /\ \A e \in Executors : WF_vars(Work(e))
  /\ \A k \in InputIds : WF_vars(InputLeaseExpires(k))
  /\ \A s \in Incidents : WF_vars(LeaseExpires(s))
  /\ \A s \in Incidents, t \in 1..MaxClaims :
       WF_vars(\E r \in runs : r.situation = s /\ r.token = t /\ Release(r))
FairSpec == Spec /\ Fairness

-----------------------------------------------------------------------------
(* Properties.                                                             *)

AppliedTo(s) == {k \in DOMAIN inputs : inputs[k].status = "applied" /\ inputs[k].situation = s}

\* Inputs are applied exactly once however often they are claimed, deferred,
\* retried or abandoned: the input_version of a Situation counts the inputs
\* that joined it, and each of its values is the applied_input_version of one.
EveryInputCountsOnce ==
  \A s \in DOMAIN situations :
    /\ Cardinality(AppliedTo(s)) = situations[s].version
    /\ {inputs[k].version : k \in AppliedTo(s)} = 1..situations[s].version

\* An Incident feeds one Situation for ever, and a group has one open
\* Situation at a time: episodes follow each other, whoever opens them.
OneEpisodeAtATime ==
  /\ Cardinality(OpenSituations) <= 1
  /\ \A k \in DOMAIN inputs : inputs[k].status \in Done => inputs[k].situation = owner[inputs[k].incident]

\* An input is given up only after MaxAttempts claims of it came to nothing:
\* waiting for a protected controller run is never held against it.
FailureIsEarned ==
  \A k \in DOMAIN inputs : inputs[k].status = "failed" => burned[k] >= MaxAttempts

\* Input j is a delivery of the same Incident, received after input k.
Later(j, k, status) ==
  j > k /\ inputs[j].incident = inputs[k].incident /\ inputs[j].kind = status

\* The firing input k of Situation s is history: its Incident has recovered or
\* fired again since, the latter not counted by s yet, or went unheard past its
\* deadline.
Outdated(s, k) ==
  \/ \E j \in DOMAIN inputs : Later(j, k, "resolved")
  \/ \E j \in DOMAIN inputs \ AppliedTo(s) : Later(j, k, "firing")
  \/ age[inputs[k].incident] >= Horizon

\* A Situation is declared recovered only after a grace period, and only when
\* no firing delivery applied to it is still the last word on its Incident,
\* although the decision was taken on rows read some steps earlier.
RecoveredIsQuiet ==
  [][\A s \in DOMAIN situations :
       situations[s].life # "recovered" /\ situations'[s].life = "recovered" =>
         /\ situations[s].life = "recovery_pending" /\ situations[s].grace = 0
         /\ \A k \in AppliedTo(s) : inputs[k].kind = "firing" => Outdated(s, k)]_vars

\* Every queued input is applied or given up in the end, in particular one
\* that waits behind a protected controller run: again and again the queue is
\* empty.
QueueSettled == \A k \in DOMAIN inputs : inputs[k].status \in Done \cup {"absent", "failed"}
EveryInputSettles == []<>QueueSettled

Episode(s) == INSTANCE EpisodeLifecycle WITH life <- situations[s].life

\* The lifecycle of every Situation takes only the transitions of
\* AdvanceLifecycle, although resolveLifecycle ignores the error it returns and
\* commits what it decided earlier.
FollowsLifecycle ==
  /\ \A s \in DOMAIN situations : Episode(s)!Init
  /\ [][\A s \in DOMAIN situations : Episode(s)!Next \/ UNCHANGED situations[s].life]_vars
=============================================================================
