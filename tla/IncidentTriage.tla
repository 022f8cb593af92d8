--------------------------- MODULE IncidentTriage ---------------------------
(***************************************************************************)
(* The Acute Triage schedule of the Incidents of one group key: deliveries *)
(* that open, join, resolve and reopen Incidents, the controller's decided *)
(* request per Incident, and the worker that claims an attempt, analyses   *)
(* and completes it, with leases, retries, recovery and restarts.          *)
(*                                                                         *)
(* Every store method is one transaction on one SQLite connection, hence   *)
(* one step; what is read before a transaction is a step of its own.  The  *)
(* membership and input digests of an Incident are abstracted to the set   *)
(* of deliveries they are computed from, which they identify exactly.  All *)
(* deliveries of an Alert arrive in the order of its source episodes, and  *)
(* none is a Drill.                                                        *)
(***************************************************************************)
EXTENDS Naturals, Sequences

CONSTANTS
  Alerts,         \* alert identities (fingerprints) of the group
  Legacy,         \* Alerts of Incident 1 when an upgrade left it in flight
  MaxAttempts,    \* maxIncidentTriageAttempts, five
  MinMembers,     \* the analyzer's MinimumMemberAlerts
  MaxIncidents,   \* bound: Incidents opened
  MaxDeliveries   \* bound: deliveries accepted

ASSUME TriageAssumption ==
  /\ Legacy \subseteq Alerts
  /\ MaxAttempts \in Nat \ {0} /\ MinMembers \in Nat
  /\ MaxIncidents \in Nat \ {0} /\ MaxDeliveries \in Nat

VARIABLES
  ledger,     \* the applied deliveries, each with the Incident that owns it
  status,     \* incidents.status; "none" before the Incident exists
  owner,      \* the Situation of an Incident: "none", "open" or "closed"
  triage,     \* incident_triage, by Incident
  attempts,   \* incident_triage_attempts, by Incident and attempt number
  plan,       \* the decisions a controller cycle derived and has not committed
  hand,       \* the delivery whose collecting window was read, not yet applied
  worker,     \* what each executor of the triage worker is doing
  stopping    \* SIGTERM was received

vars == <<ledger, status, owner, triage, attempts, plan, hand, worker, stopping>>

\* Incidents are numbered by created_at.
Incidents == 1..MaxIncidents
Numbers   == 1..MaxAttempts
\* The worker's background loop, and the Drain of the shutdown sequence.
Executors == {"loop", "drain"}

Statuses == {"none", "collecting", "ready", "processing", "analyzed", "resolved", "failed"}
Phases   == {"none", "awaiting_decision", "pending", "in_flight", "backoff", "skipped",
             "exhausted"}
Delivery == [alert : Alerts, inc : Incidents, status : {"firing", "resolved"}]
NoHand   == [alert |-> "none"]
\* last_error_code, as far as anything depends on it.
Causes == {"none", "failed", "owner_terminal", "horizon"}
Row == [phase    : Phases,
        attempts : 0..MaxAttempts,
        next     : {"null", "waiting", "due", "overdue"},  \* next_at
        decided  : SUBSET Nat,     \* what the digests on the row cover; {} is NULL
        lease    : {"none", "live", "expired"},
        current  : 0..MaxAttempts, \* current_attempt_id; 0 is NULL
        cause    : Causes]
\* The row is absent.
NoRow == [phase |-> "none", attempts |-> 0, next |-> "null", decided |-> {},
          lease |-> "none", current |-> 0, cause |-> "none"]
\* result_code; an "open" attempt is claimed and not completed.
Codes == {"none", "open", "success", "stale", "owner_terminal", "failed", "clean_skip"}
Plan   == [decision : {"none", "request", "skip"}, view : SUBSET Nat]
NoPlan == [decision |-> "none", view |-> {}]
\* A "recovering" executor has listed attempt att as expired.
Work == [pc : {"idle", "analyzing", "recovering"}, inc : 0..MaxIncidents,
         att : 0..MaxAttempts, frozen : SUBSET Nat]
Idle == [pc |-> "idle", inc |-> 0, att |-> 0, frozen |-> {}]

\* Types, and the CHECK of migration 0017 on incident_triage: only a row in
\* flight has a lease and a current attempt.
TypeOK ==
  /\ ledger \in Seq(Delivery)
  /\ status \in [Incidents -> Statuses]
  /\ owner \in [Incidents -> {"none", "open", "closed"}]
  /\ triage \in [Incidents -> Row]
  /\ \A i \in Incidents :
       triage[i].phase # "in_flight" => triage[i].lease = "none" /\ triage[i].current = 0
  /\ attempts \in [Incidents -> [Numbers -> Codes]]
  /\ plan \in [Incidents -> Plan]
  /\ hand \in Delivery \cup {NoHand}
  /\ worker \in [Executors -> Work]
  /\ stopping \in BOOLEAN

\* An Incident that v0.13.6 was analysing when it was upgraded: in flight, with
\* neither lease nor attempt (migration 0017), its Alerts without deliveries.
Migrated(i) == i = 1 /\ Legacy # {}

Init ==
  /\ ledger = <<>>
  /\ status = [i \in Incidents |-> IF Migrated(i) THEN "processing" ELSE "none"]
  /\ owner = [i \in Incidents |-> IF Migrated(i) THEN "open" ELSE "none"]
  /\ triage = [i \in Incidents |->
                 IF Migrated(i) THEN [NoRow EXCEPT !.phase = "in_flight", !.attempts = 1]
                                ELSE NoRow]
  /\ attempts = [i \in Incidents |-> [n \in Numbers |-> "none"]]
  /\ plan = [i \in Incidents |-> NoPlan]
  /\ hand = NoHand
  /\ worker = [e \in Executors |-> Idle]
  /\ stopping = FALSE

-----------------------------------------------------------------------------
(* Views of the delivery ledger.                                           *)

\* loadIncidentDeliveriesTx and beginIncidentHistoryTx: the deliveries that
\* the Incident owns.
OwnView(i) == {n \in DOMAIN ledger : ledger[n].inc = i}

\* captureDeliveryHistoryTx and loadDeliveryHistory: also those a member Alert
\* had since it joined, whichever Incident owns them.
SharedView(i) ==
  {n \in DOMAIN ledger : \/ \E m \in OwnView(i) : m <= n /\ ledger[m].alert = ledger[n].alert
                         \/ Migrated(i) /\ ledger[n].alert \in Legacy}

\* incident_alerts of i after the deliveries d.
MembersOf(d, i) ==
  {d[n].alert : n \in {k \in DOMAIN d : d[k].inc = i}} \cup (IF Migrated(i) THEN Legacy ELSE {})

\* unresolvedIncidentMembersTx: the last delivery of some member, whichever
\* Incident owns it, is not a recovery.
Unresolved(d, i) ==
  \E a \in MembersOf(d, i) :
    ~\E n \in DOMAIN d : /\ d[n].alert = a /\ d[n].status = "resolved"
                         /\ \A k \in DOMAIN d : k > n => d[k].alert # a

\* ORDER BY created_at DESC LIMIT 1: at most one Incident.
Newest(S) == {i \in S : \A j \in S : j <= i}

-----------------------------------------------------------------------------
(* Deliveries: Correlator.ApplyDelivery and ApplyCorrelatedDelivery.       *)

\* The triage row of an Incident that has just been resolved.
Cleared(i) == IF triage[i].phase = "exhausted" THEN triage[i] ELSE NoRow

\* The status a recurrence gives a resolved Incident.
Reopened == "analyzed"

\* ApplyCorrelatedDelivery on Incident t: a new Incident collects, a firing
\* reopens a resolved one, and a recovery resolves the owner and every other
\* nonterminal Incident of the Alert whose members have all recovered.
ApplyCorrelatedDelivery(t, a, s) ==
  LET d == Append(ledger, [alert |-> a, inc |-> t, status |-> s])
      resolves == {i \in Incidents :
                     /\ s = "resolved" /\ status[i] \in {"ready", "analyzed"}
                     /\ ~Unresolved(d, i)
                     /\ i = t \/ (a \in MembersOf(ledger, i) /\ owner[i] # "closed")}
  IN /\ Len(ledger) < MaxDeliveries
     /\ ledger' = d
     /\ status' = [i \in Incidents |->
                     IF i \in resolves THEN "resolved"
                     ELSE IF i = t /\ status[i] = "none" THEN "collecting"
                     ELSE IF i = t /\ s = "firing" /\ status[i] = "resolved" THEN Reopened
                     ELSE status[i]]
     /\ triage' = [i \in Incidents |-> IF i \in resolves THEN Cleared(i) ELSE triage[i]]

Collecting == {i \in Incidents : status[i] = "collecting"}
Retrying   == {i \in Incidents : status[i] = "ready" /\ triage[i].phase = "backoff"}
Judged     == {i \in Incidents : status[i] \in {"analyzed", "resolved"}}
Existing   == {i \in Incidents : status[i] # "none"}
\* GetCurrentIncidentByAlertID.
Current(a) == {i \in Existing : /\ a \in MembersOf(ledger, i)
                                /\ status[i] \notin {"resolved", "failed"}
                                /\ owner[i] # "closed"}
\* applyFreshIncidentDeliveryPlan, within the bound.
Fresh == {i \in Incidents : status[i] = "none" /\ \A j \in Incidents : j < i => j \in Existing}

\* With no open window a firing joins the newest Incident in backoff, recurs
\* on the newest judged one, or opens a new one.  A Situation that has closed
\* rejects it, and a lookup that fails, a row that moved since it was read, or
\* decideAttach passes it on.
FiringTargets ==
  {i \in Newest(Retrying) \cup Newest(Judged) : owner[i] # "closed"} \cup Fresh

\* A recovery goes to the newest open Incident of its Alert, else to the
\* newest Incident of the group.
ResolvedTargets(a) ==
  IF Current(a) # {} THEN Newest(Current(a))
  ELSE IF Existing # {} THEN Newest(Existing) ELSE Fresh

Deliver(a, s) ==
  /\ hand = NoHand
  /\ \/ s = "firing" /\ Collecting = {} /\ \E t \in FiringTargets : ApplyCorrelatedDelivery(t, a, s)
     \/ /\ s = "resolved" /\ Current(a) = {} => Collecting = {}
        /\ \E t \in ResolvedTargets(a) : ApplyCorrelatedDelivery(t, a, s)
  /\ UNCHANGED <<owner, attempts, plan, hand, worker, stopping>>

\* GetCollectingIncident: the plan is made outside the transaction ...
ReadWindow(a, s) ==
  /\ hand = NoHand
  /\ s = "resolved" => Current(a) = {}
  /\ \E i \in Newest(Collecting) : hand' = [alert |-> a, inc |-> i, status |-> s]
  /\ UNCHANGED <<ledger, status, owner, triage, attempts, plan, worker, stopping>>

\* ... which asks for no status: the window may have closed since.
ApplyWindow ==
  /\ hand # NoHand
  /\ ApplyCorrelatedDelivery(hand.inc, hand.alert, hand.status)
  /\ hand' = NoHand
  /\ UNCHANGED <<owner, attempts, plan, worker, stopping>>

\* flushExpired and MarkIncidentReadyWithSituationInput.
MarkReady(i) ==
  /\ status[i] = "collecting"
  /\ status' = [status EXCEPT ![i] = "ready"]
  /\ triage' = IF triage[i].phase = "none"
                 THEN [triage EXCEPT ![i] = [NoRow EXCEPT !.phase = "awaiting_decision"]]
                 ELSE triage
  /\ UNCHANGED <<ledger, owner, attempts, plan, hand, worker, stopping>>

-----------------------------------------------------------------------------
(* The Situation and its controller.                                       *)

\* The input worker attaches an Incident to the open Situation of the group.
Attach(i) ==
  /\ status[i] # "none" /\ owner[i] = "none"
  /\ owner' = [owner EXCEPT ![i] = "open"]
  /\ UNCHANGED <<ledger, status, triage, attempts, plan, hand, worker, stopping>>

\* A cycle commits a terminal lifecycle; no later cycle claims the Situation.
Close ==
  /\ \E i \in Incidents : owner[i] = "open"
  /\ owner' = [i \in Incidents |-> IF owner[i] = "open" THEN "closed" ELSE owner[i]]
  /\ plan' = [i \in Incidents |-> NoPlan]
  /\ UNCHANGED <<ledger, status, triage, attempts, hand, worker, stopping>>

\* Faulty: a request is never refreshed.
NeedsOnce(i) == owner[i] = "open" /\ triage[i].phase = "awaiting_decision"

\* needsTriageDecision: a first judgment, or the refresh of a request whose
\* digests have gone stale.
Needs(i) ==
  /\ owner[i] = "open"
  /\ \/ triage[i].phase = "awaiting_decision"
     \/ triage[i].phase \in {"pending", "backoff"} /\ triage[i].decided # SharedView(i)

\* acceptedInvestigationCovers needs an attempt that succeeded.
Coverable == {i \in Incidents : /\ triage[i].phase = "awaiting_decision"
                                /\ \E n \in Numbers : attempts[i][n] = "success"}

\* DecideTriage over the snapshot a cycle has loaded; whether the assessment
\* covers an Incident too is left open.
DecideTriage ==
  /\ \A i \in Incidents : plan[i] = NoPlan
  /\ \E i \in Incidents : Needs(i)
  /\ \E skip \in SUBSET Coverable :
       plan' = [i \in Incidents |->
                  IF Needs(i) THEN [decision |-> IF i \in skip THEN "skip" ELSE "request",
                                    view |-> SharedView(i)]
                              ELSE NoPlan]
  /\ UNCHANGED <<ledger, status, owner, triage, attempts, hand, worker, stopping>>

\* applyOneTriageDecisionTx.
Applied(i) ==
  LET t == triage[i] p == plan[i]
  IN IF t.phase = "awaiting_decision" /\ p.decision = "request"
       THEN [t EXCEPT !.phase = "pending", !.next = "due", !.decided = p.view]
     ELSE IF t.phase = "awaiting_decision" /\ p.decision = "skip"
       THEN [t EXCEPT !.phase = "skipped", !.next = "null", !.decided = p.view]
     ELSE IF t.phase \in {"pending", "backoff"} /\ p.decision = "request"
       THEN [t EXCEPT !.decided = p.view]
     ELSE t

ApplyTriageDecisions ==
  /\ \E i \in Incidents : plan[i] # NoPlan
  /\ triage' = [i \in Incidents |-> Applied(i)]
  /\ plan' = [i \in Incidents |-> NoPlan]
  /\ UNCHANGED <<ledger, status, owner, attempts, hand, worker, stopping>>

\* The commit of the cycle was fenced off or failed.
LoseDecisions ==
  /\ \E i \in Incidents : plan[i] # NoPlan
  /\ plan' = [i \in Incidents |-> NoPlan]
  /\ UNCHANGED <<ledger, status, owner, triage, attempts, hand, worker, stopping>>

-----------------------------------------------------------------------------
(* The triage worker.                                                      *)

CanWork(e) == worker[e] = Idle /\ stopping = (e = "drain")

\* ListDueIncidentTriage, on a row with a recorded decision.
IsDue(i) ==
  /\ status[i] = "ready" /\ triage[i].phase \in {"pending", "backoff"}
  /\ triage[i].next \in {"due", "overdue"} /\ triage[i].decided # {}

\* memberAlertCountTx is at least MinMembers.
EnoughMembers(i) ==
  \E f \in [1..MinMembers -> MembersOf(ledger, i)] :
    \A m, n \in 1..MinMembers : m # n => f[m] # f[n]

\* CleanSkipIncidentTriageBelowMinimumMembers: no claim, no attempt.
CleanSkipBeforeClaim(e, i) ==
  /\ CanWork(e) /\ IsDue(i) /\ ~EnoughMembers(i)
  /\ triage' = [triage EXCEPT ![i].phase = "skipped", ![i].next = "null", ![i].cause = "none"]
  /\ UNCHANGED <<ledger, status, owner, attempts, plan, hand, worker, stopping>>

\* The ceiling of ClaimIncidentTriageAttempt.
HasAttempt(i) == triage[i].attempts < MaxAttempts

\* ClaimIncidentTriageAttempt, after processOne found no clean skip.
Claim(e, i) ==
  LET n == triage[i].attempts + 1
  IN /\ CanWork(e) /\ IsDue(i) /\ EnoughMembers(i)
     /\ HasAttempt(i) /\ owner[i] # "closed" /\ triage[i].decided = OwnView(i)
     /\ attempts' = [attempts EXCEPT ![i][n] = "open"]
     /\ triage' = [triage EXCEPT ![i] = [@ EXCEPT !.phase = "in_flight", !.attempts = n,
                     !.next = "null", !.lease = "live", !.current = n]]
     /\ status' = [status EXCEPT ![i] = "processing"]
     /\ worker' = [worker EXCEPT ![e] = [pc |-> "analyzing", inc |-> i, att |-> n,
                                         frozen |-> OwnView(i)]]
     /\ UNCHANGED <<ledger, owner, plan, hand, stopping>>

\* ExtendIncidentTriageLease: a late heartbeat revives an expired lease.
Heartbeat(e) ==
  LET i == worker[e].inc
  IN /\ worker[e].pc = "analyzing"
     /\ triage[i].phase = "in_flight" /\ triage[i].current = worker[e].att
     /\ triage' = [triage EXCEPT ![i].lease = "live"]
     /\ UNCHANGED <<ledger, status, owner, attempts, plan, hand, worker, stopping>>

\* The fences shared by every write that ends attempt n of i: the attempt is
\* not completed, it is the current one, and the Incident is processing.
Fenced(i, n) ==
  /\ attempts[i][n] = "open"
  /\ triage[i].phase = "in_flight" /\ triage[i].current = n /\ status[i] = "processing"

\* The row when its attempt is over.
Released(i, phase, next, cause) ==
  [phase |-> phase, attempts |-> triage[i].attempts, next |-> next,
   decided |-> triage[i].decided, lease |-> "none", current |-> 0, cause |-> cause]

\* Attempt n of i ends with code; the row and the Incident follow.
EndAttempt(i, n, code, row, st) ==
  /\ attempts' = [attempts EXCEPT ![i][n] = code]
  /\ triage' = [triage EXCEPT ![i] = row]
  /\ status' = [status EXCEPT ![i] = st]

\* No attempt is left after attempt n.
Spent(n) == n >= MaxAttempts

\* BackoffIncidentTriageAttempt and ExhaustIncidentTriageAttempt.
BackoffOrExhaust(i, n, next, cause) ==
  /\ Fenced(i, n)
  /\ IF Spent(n)
       THEN EndAttempt(i, n, "failed", Released(i, "exhausted", "null", cause), "failed")
       ELSE EndAttempt(i, n, "failed", Released(i, "backoff", next, cause), "ready")

GoIdle(e) ==
  /\ worker' = [worker EXCEPT ![e] = Idle]
  /\ UNCHANGED <<ledger, owner, plan, hand, stopping>>

\* completeFailure, on an analysis that failed or was cancelled.
Fail(e) ==
  /\ worker[e].pc = "analyzing"
  /\ BackoffOrExhaust(worker[e].inc, worker[e].att, "waiting", "failed")
  /\ GoIdle(e)

\* CompleteIncidentTriageAttemptAsCleanSkip.
CleanSkipAfterClaim(e) ==
  LET i == worker[e].inc n == worker[e].att
  IN /\ worker[e].pc = "analyzing" /\ Fenced(i, n)
     /\ EndAttempt(i, n, "clean_skip", Released(i, "skipped", "null", "none"), "ready")
     /\ GoIdle(e)

\* completeOwnerTerminalTx: the Situation closed under the attempt.
CompleteOwnerTerminal(e) ==
  LET i == worker[e].inc n == worker[e].att
  IN /\ worker[e].pc = "analyzing" /\ owner[i] = "closed" /\ Fenced(i, n)
     /\ EndAttempt(i, n, "owner_terminal",
                   Released(i, "exhausted", "null", "owner_terminal"), "failed")
     /\ GoIdle(e)

\* Faulty: a completion of any input is current.
IsStaleNever(e) == FALSE
\* The Incident has other deliveries than the attempt was claimed with.
IsStale(e) == OwnView(worker[e].inc) # worker[e].frozen

\* completeStaleTx: back to the controller, or exhausted on the last attempt.
CompleteStale(e) ==
  LET i == worker[e].inc n == worker[e].att
  IN /\ worker[e].pc = "analyzing" /\ owner[i] # "closed" /\ IsStale(e) /\ Fenced(i, n)
     /\ IF Spent(n)
          THEN EndAttempt(i, n, "stale", Released(i, "exhausted", "null", "failed"), "failed")
          ELSE EndAttempt(i, n, "stale",
                          Released(i, "awaiting_decision", "null", triage[i].cause), "ready")
     /\ GoIdle(e)

\* completeSuccessTx fences on the attempt and on the status of the Incident;
\* it does not ask whether the attempt is the current one.
Promotable(i, n) == attempts[i][n] = "open" /\ status[i] = "processing"

\* completeSuccessTx: the Finding is promoted and the schedule deleted.
CompleteSuccess(e) ==
  LET i == worker[e].inc n == worker[e].att
  IN /\ worker[e].pc = "analyzing" /\ owner[i] # "closed" /\ ~IsStale(e)
     /\ Promotable(i, n)
     /\ EndAttempt(i, n, "success", NoRow, "analyzed")
     /\ GoIdle(e)

\* The heartbeat failed, or the write-back did: the row stays as it is.
Abandon(e) ==
  /\ worker[e].pc # "idle"
  /\ GoIdle(e) /\ UNCHANGED <<status, triage, attempts>>

\* listExpiredInFlightTriageTx, at the start of RunOnce.
ListExpired(e, i) ==
  /\ CanWork(e)
  /\ triage[i].phase = "in_flight" /\ triage[i].current # 0 /\ triage[i].lease # "live"
  /\ worker' = [worker EXCEPT ![e] = [pc |-> "recovering", inc |-> i,
                                      att |-> triage[i].current, frozen |-> {}]]
  /\ UNCHANGED <<ledger, status, owner, triage, attempts, plan, hand, stopping>>

\* RecoverExpiredIncidentTriageAttempts writes by attempt: a heartbeat since
\* the listing does not stop it, a completion does.
Recover(e) ==
  /\ worker[e].pc = "recovering"
  /\ BackoffOrExhaust(worker[e].inc, worker[e].att, "due", "failed")
  /\ GoIdle(e)

-----------------------------------------------------------------------------
(* The clock and the process.                                              *)

\* A due time is reached, or is over an hour past.
TimerReached(i) ==
  /\ \/ triage[i].next = "waiting" /\ triage' = [triage EXCEPT ![i].next = "due"]
     \/ triage[i].next = "due" /\ triage' = [triage EXCEPT ![i].next = "overdue"]
  /\ UNCHANGED <<ledger, status, owner, attempts, plan, hand, worker, stopping>>

LeaseExpires(i) ==
  /\ triage[i].lease = "live"
  /\ triage' = [triage EXCEPT ![i].lease = "expired"]
  /\ UNCHANGED <<ledger, status, owner, attempts, plan, hand, worker, stopping>>

Signal ==
  /\ ~stopping /\ stopping' = TRUE
  /\ UNCHANGED <<ledger, status, owner, triage, attempts, plan, hand, worker>>

\* What RecoverAndBackfill finds at startup: attempts without a live lease,
\* and unclaimed rows beyond the one-hour horizon.
Interrupted == {i \in Incidents : /\ triage[i].phase = "in_flight" /\ triage[i].current # 0
                                  /\ triage[i].lease # "live"}
Overdue == {i \in Incidents : /\ triage[i].phase \in {"pending", "backoff"}
                              /\ triage[i].next = "overdue"}
\* Those of them that end for good.
Ended == {i \in Interrupted : Spent(triage[i].attempts)} \cup Overdue

\* The process ends, by crash or exit, and the next one runs the startup
\* recovery before its workers.
Restart ==
  /\ attempts' = [i \in Incidents |->
                    IF i \in Interrupted THEN [attempts[i] EXCEPT ![triage[i].current] = "failed"]
                                         ELSE attempts[i]]
  /\ triage' = [i \in Incidents |->
                  IF i \in Interrupted \ Ended THEN Released(i, "backoff", "due", "failed")
                  ELSE IF i \in Interrupted THEN Released(i, "exhausted", "null", "failed")
                  ELSE IF i \in Overdue THEN Released(i, "exhausted", "null", "horizon")
                  ELSE triage[i]]
  /\ status' = [i \in Incidents |->
                  IF i \in Interrupted \ Ended THEN "ready"
                  ELSE IF i \in Ended THEN "failed" ELSE status[i]]
  /\ plan' = [i \in Incidents |-> NoPlan]
  /\ hand' = NoHand
  /\ worker' = [e \in Executors |-> Idle]
  /\ stopping' = FALSE
  /\ UNCHANGED <<ledger, owner>>

-----------------------------------------------------------------------------
Conclude(e) ==
  \/ Fail(e) \/ CleanSkipAfterClaim(e) \/ CompleteOwnerTerminal(e)
  \/ CompleteStale(e) \/ CompleteSuccess(e) \/ Recover(e) \/ Abandon(e)

Correlate ==
  \/ \E a \in Alerts, s \in {"firing", "resolved"} : Deliver(a, s) \/ ReadWindow(a, s)
  \/ ApplyWindow
  \/ \E i \in Incidents : MarkReady(i)

Decide ==
  \/ \E i \in Incidents : Attach(i)
  \/ Close \/ DecideTriage \/ ApplyTriageDecisions \/ LoseDecisions

Execute(e) ==
  \/ \E i \in Incidents : CleanSkipBeforeClaim(e, i) \/ Claim(e, i) \/ ListExpired(e, i)
  \/ Heartbeat(e) \/ Conclude(e)

Next ==
  \/ Correlate \/ Decide
  \/ \E e \in Executors : Execute(e)
  \/ \E i \in Incidents : TimerReached(i) \/ LeaseExpires(i)
  \/ Signal \/ Restart

Spec == Init /\ [][Next]_vars

\* Worker rounds, controller cycles and the correlator's ticker recur, time
\* passes, and a process that was told to stop ends.  A round may be lost to
\* a busy executor, a lost commit or a restart, but not every time.
Fairness ==
  /\ \A i \in Incidents :
       /\ WF_vars(MarkReady(i)) /\ WF_vars(Attach(i)) /\ WF_vars(LeaseExpires(i))
       /\ WF_vars(triage[i].next = "waiting" /\ TimerReached(i))
       /\ SF_vars(\E e \in Executors : CleanSkipBeforeClaim(e, i) \/ Claim(e, i))
       /\ SF_vars(\E e \in Executors : ListExpired(e, i))
  /\ \A e \in Executors : WF_vars(Conclude(e)) /\ SF_vars(Recover(e))
  /\ WF_vars(DecideTriage) /\ SF_vars(ApplyTriageDecisions)
  /\ WF_vars(stopping /\ Restart)

LiveSpec == Spec /\ Fairness

-----------------------------------------------------------------------------
(* Safety.                                                                 *)

\* An Incident and its triage row are written by different transactions of
\* four components, and stay in step: a row waits only for a ready Incident,
\* is in flight exactly while it is processing and exhausted exactly when it
\* failed, and no ready Incident is without a row to be judged by.
ScheduleMatchesStatus ==
  \A i \in Incidents :
    LET phase == triage[i].phase
    IN /\ phase \in {"awaiting_decision", "pending", "backoff", "skipped"} => status[i] = "ready"
       /\ phase = "in_flight" <=> status[i] = "processing"
       /\ phase = "exhausted" <=> status[i] = "failed"
       /\ status[i] = "ready" => phase # "none"

\* The attempt ledger and the schedule name the same attempt: an attempt is
\* open exactly while the row is in flight for it, so at most one analysis per
\* Incident can still write, whatever executors survived a recovery.
LiveAttempt ==
  \A i \in Incidents :
    /\ \A n \in Numbers : attempts[i][n] = "open" <=> triage[i].current = n
    /\ triage[i].phase = "in_flight" =>
         \/ triage[i].current = triage[i].attempts
         \/ triage[i].current = 0 /\ Migrated(i)

\* UNIQUE (incident_id, attempt_number): while an Incident is scheduled, the
\* attempts beyond its counter are unused, so no claim can fail on the ledger.
ClaimNeverCollides ==
  \A i \in Incidents, n \in Numbers :
    triage[i].phase # "none" /\ n > triage[i].attempts => attempts[i][n] = "none"

\* An Incident is judged once: with an accepted Finding its schedule is gone
\* for good, so it is never paid for again.  (Hence Coverable is empty: the
\* clean skip of DecideTriage is out of reach.)
JudgedOnce ==
  \A i \in Incidents, n \in Numbers :
    attempts[i][n] = "success" =>
      /\ triage[i].phase = "none" /\ status[i] \in {"analyzed", "resolved"}
      /\ \A k \in Numbers : attempts[i][k] = "success" => k = n

\* Nobody gives up early: an exhausted schedule has spent every attempt, or
\* its Situation closed under it, or a startup found it beyond the horizon.
ExhaustionIsEarned ==
  \A i \in Incidents :
    triage[i].phase = "exhausted" =>
      \/ triage[i].attempts = MaxAttempts
      \/ triage[i].cause = "owner_terminal" /\ owner[i] = "closed"
      \/ triage[i].cause = "horizon"

\* The attempt ledger only grows: an attempt is opened under the next number,
\* and is ended once, while it is the current one.
AttemptKept ==
  \A i \in Incidents, n \in Numbers :
    attempts'[i][n] # attempts[i][n] =>
      \/ attempts[i][n] = "none" /\ n = triage[i].attempts + 1
      \/ attempts[i][n] = "open" /\ n = triage[i].current
AttemptsAreFinal == [][AttemptKept]_vars

\* A promoted Finding is about exactly the deliveries the Incident owns when
\* it is promoted, which are those the controller's recorded decision asked
\* for, and comes from the current attempt.  completeSuccessTx asks for
\* neither the decision nor the current attempt.
Promoted ==
  \A i \in Incidents, n \in Numbers :
    attempts[i][n] # "success" /\ attempts'[i][n] = "success" =>
      triage[i].current = n /\ triage[i].decided = OwnView(i)
FindingIsCurrent == [][Promoted]_vars

-----------------------------------------------------------------------------
(* What makes them inductive.                                              *)

\* An executor works on an attempt that was claimed, and while that is still
\* the current one, on what the recorded decision asked for.
WorkIsClaimed ==
  \A e \in Executors :
    LET w == worker[e]
    IN w.pc # "idle" =>
         /\ w.inc \in Incidents /\ w.att \in Numbers /\ attempts[w.inc][w.att] # "none"
         /\ w.pc = "analyzing" /\ triage[w.inc].current = w.att =>
              triage[w.inc].decided = w.frozen

\* Before it is ready an Incident has neither schedule nor attempts.
Unscheduled ==
  \A i \in Incidents :
    status[i] \in {"none", "collecting"} =>
      triage[i].phase = "none" /\ \A n \in Numbers : attempts[i][n] = "none"

TriageInvariant ==
  /\ TypeOK /\ ScheduleMatchesStatus /\ LiveAttempt /\ ClaimNeverCollides
  /\ JudgedOnce /\ ExhaustionIsEarned /\ WorkIsClaimed /\ Unscheduled

-----------------------------------------------------------------------------
(* Liveness, under LiveSpec.                                               *)

Settled(i) == \/ status[i] \in {"analyzed", "resolved", "failed"}
              \/ triage[i].phase = "skipped"

\* Every Incident is settled through any number of failures, abandoned
\* attempts and restarts, unless its Situation closed first or one of its
\* Alerts went on under another Incident (RequestedWorkIsTried).
TriageSettles ==
  \A i \in Incidents :
    []<>(\/ status[i] = "none" \/ Settled(i)
         \/ owner[i] = "closed" \/ SharedView(i) # OwnView(i))

-----------------------------------------------------------------------------
(* What comments and documents say, and the code does not do.              *)

\* ClaimIncidentTriageAttempt refuses a row whose recorded digests are not
\* current because the next cycle refreshes them; so a request of an open
\* Situation is eventually tried, or overtaken.  But the cycle writes the
\* digests of SharedView and the claim compares those of OwnView.
RequestedWorkIsTried ==
  \A i \in Incidents :
    triage[i].phase = "pending" ~> triage[i].phase # "pending" \/ owner[i] = "closed"
=============================================================================
