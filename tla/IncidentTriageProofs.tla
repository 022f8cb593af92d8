------------------------ MODULE IncidentTriageProofs ------------------------
(***************************************************************************)
(* Safety of the triage schedule for every set of Alerts, every attempt    *)
(* limit and minimum membership, and any number of Incidents, deliveries,  *)
(* recoveries and restarts.                                                *)
(***************************************************************************)
EXTENDS IncidentTriage, TLAPS

\* The invariants of one Incident together: all that its rows must satisfy.
RowsOK(i) ==
  LET phase == triage[i].phase
  IN /\ phase \in {"awaiting_decision", "pending", "backoff", "skipped"} => status[i] = "ready"
     /\ phase = "in_flight" <=> status[i] = "processing"
     /\ phase = "exhausted" <=> status[i] = "failed"
     /\ status[i] = "ready" => phase # "none"
     /\ phase # "in_flight" => triage[i].lease = "none" /\ triage[i].current = 0
     /\ \A n \in Numbers : attempts[i][n] = "open" <=> triage[i].current = n
     /\ phase = "in_flight" => \/ triage[i].current = triage[i].attempts
                               \/ triage[i].current = 0 /\ Migrated(i)
     /\ \A n \in Numbers :
          /\ phase # "none" /\ n > triage[i].attempts => attempts[i][n] = "none"
          /\ attempts[i][n] = "success" =>
               /\ phase = "none" /\ status[i] \in {"analyzed", "resolved"}
               /\ \A k \in Numbers : attempts[i][k] = "success" => k = n
     /\ phase = "exhausted" => \/ triage[i].attempts = MaxAttempts
                               \/ triage[i].cause = "owner_terminal" /\ owner[i] = "closed"
                               \/ triage[i].cause = "horizon"
     /\ status[i] \in {"none", "collecting"} =>
          phase = "none" /\ \A n \in Numbers : attempts[i][n] = "none"

Inv == TypeOK /\ (\A i \in Incidents : RowsOK(i)) /\ WorkIsClaimed

\* The invariant by Incident is the one by property.
LEMMA ByIncident == Inv <=> TriageInvariant
BY DEF Inv, RowsOK, TriageInvariant, TypeOK, ScheduleMatchesStatus, LiveAttempt,
       ClaimNeverCollides, JudgedOnce, ExhaustionIsEarned, Unscheduled

\* What every step owes.
Good == Inv' /\ AttemptKept /\ Promoted

-----------------------------------------------------------------------------
(* Frames.                                                                 *)

\* An Incident whose rows and owner a step leaves alone.
LEMMA RowsFrame ==
  ASSUME NEW i \in Incidents, RowsOK(i), triage'[i] = triage[i], status'[i] = status[i],
         attempts'[i] = attempts[i], owner'[i] = "closed" \/ owner[i] # "closed"
  PROVE  RowsOK(i)'
BY DEF RowsOK, Migrated

\* Executors that go on or go idle, while attempts are kept and the decision
\* of a current attempt stays.
LEMMA WorkFrame ==
  ASSUME TypeOK, WorkIsClaimed,
         \A e \in Executors : worker'[e] = worker[e] \/ worker'[e].pc = "idle",
         \A i \in Incidents, n \in Numbers : attempts[i][n] # "none" => attempts'[i][n] # "none",
         \A i \in Incidents, n \in Numbers :
           triage'[i].current = n =>
             triage[i].current = n /\ triage'[i].decided = triage[i].decided
  PROVE  WorkIsClaimed'
BY DEF WorkIsClaimed

\* Steps that leave the attempt ledger alone.
LEMMA LedgerFrame == attempts' = attempts => AttemptKept /\ Promoted
BY DEF AttemptKept, Promoted

LEMMA ViewsAreSets ==
  ASSUME TypeOK, NEW i \in Incidents
  PROVE  OwnView(i) \in SUBSET Nat /\ SharedView(i) \in SUBSET Nat
<1>1. DOMAIN ledger \subseteq Nat BY DEF TypeOK
<1> QED BY <1>1 DEF OwnView, SharedView

LEMMA NoRowType == NoRow \in Row
BY TriageAssumption DEF NoRow, Row, Phases, Causes

LEMMA IdleType == Idle \in Work
BY TriageAssumption DEF Idle, Work

LEMMA InitInv == Init => Inv
<1> SUFFICES ASSUME Init PROVE Inv OBVIOUS
<1>1. TypeOK
  <2>1. \A i \in Incidents : triage[i] \in Row /\ triage[i].lease = "none" /\ triage[i].current = 0
    <3> SUFFICES ASSUME NEW i \in Incidents
                 PROVE  triage[i] \in Row /\ triage[i].lease = "none" /\ triage[i].current = 0
      OBVIOUS
    <3>1. CASE Migrated(i)
      <4>1. triage[i] = [phase |-> "in_flight", attempts |-> 1, next |-> "null", decided |-> {},
                         lease |-> "none", current |-> 0, cause |-> "none"]
        BY <3>1 DEF Init, NoRow
      <4> QED BY <4>1, TriageAssumption DEF Row, Phases, Causes
    <3>2. CASE ~Migrated(i)
      <4>1. triage[i] = NoRow BY <3>2 DEF Init
      <4> QED BY <4>1, NoRowType DEF NoRow
    <3> QED BY <3>1, <3>2
  <2>2. triage \in [Incidents -> Row] BY <2>1 DEF Init
  <2>3. plan \in [Incidents -> Plan] /\ hand \in Delivery \cup {NoHand}
    BY DEF Init, Plan, NoPlan
  <2>4. worker \in [Executors -> Work] BY IdleType DEF Init
  <2>5. ledger \in Seq(Delivery) BY DEF Init
  <2>6. /\ status \in [Incidents -> Statuses] /\ owner \in [Incidents -> {"none", "open", "closed"}]
        /\ attempts \in [Incidents -> [Numbers -> Codes]] /\ stopping \in BOOLEAN
    BY DEF Init, Statuses, Codes
  <2> QED BY <2>1, <2>2, <2>3, <2>4, <2>5, <2>6 DEF TypeOK
<1>2. \A i \in Incidents : RowsOK(i)
  BY TriageAssumption DEF Init, RowsOK, NoRow, Numbers, Migrated
<1>3. WorkIsClaimed BY DEF Init, WorkIsClaimed, Idle
<1> QED BY <1>1, <1>2, <1>3 DEF Inv

-----------------------------------------------------------------------------
(* Deliveries.                                                             *)

LEMMA CorrelatedGood ==
  ASSUME Inv, NEW t \in Incidents, NEW a \in Alerts, NEW s \in {"firing", "resolved"},
         ApplyCorrelatedDelivery(t, a, s), hand' \in Delivery \cup {NoHand},
         UNCHANGED <<owner, attempts, plan, worker, stopping>>
  PROVE  Good
<1>0. TypeOK /\ WorkIsClaimed /\ \A i \in Incidents : RowsOK(i) BY DEF Inv
<1>1. ledger' \in Seq(Delivery)
  BY <1>0 DEF ApplyCorrelatedDelivery, TypeOK, Delivery
<1>2. \A i \in Incidents :
        \/ status[i] \in {"ready", "analyzed"} /\ status'[i] = "resolved" /\ triage'[i] = Cleared(i)
        \/ /\ triage'[i] = triage[i]
           /\ \/ status'[i] = status[i]
              \/ status[i] = "none" /\ status'[i] = "collecting"
              \/ status[i] = "resolved" /\ status'[i] = "analyzed"
  BY DEF ApplyCorrelatedDelivery, Reopened
<1>3. /\ status' = [i \in Incidents |-> status'[i]] /\ triage' = [i \in Incidents |-> triage'[i]]
  BY DEF ApplyCorrelatedDelivery
<1>4. \A i \in Incidents : /\ triage'[i] = triage[i] \/ triage'[i] = NoRow
                           /\ status'[i] \in Statuses
  BY <1>0, <1>2 DEF Cleared, TypeOK, Statuses
<1>5. TypeOK'
  <2>1. triage' \in [Incidents -> Row] /\ status' \in [Incidents -> Statuses]
    BY <1>0, <1>3, <1>4, NoRowType DEF TypeOK
  <2>2. \A i \in Incidents :
          triage'[i].phase # "in_flight" => triage'[i].lease = "none" /\ triage'[i].current = 0
    BY <1>0, <1>4 DEF TypeOK, NoRow
  <2> QED BY <1>0, <1>1, <2>1, <2>2 DEF TypeOK
<1>6. ASSUME NEW i \in Incidents PROVE RowsOK(i)'
  <2>1. CASE status[i] \in {"ready", "analyzed"} /\ status'[i] = "resolved" /\ triage'[i] = Cleared(i)
    <3>1. triage'[i] = NoRow BY <1>0, <2>1 DEF RowsOK, Cleared
    <3> QED BY <1>0, <2>1, <3>1, TriageAssumption DEF RowsOK, NoRow, Numbers
  <2>2. CASE triage'[i] = triage[i] /\ status'[i] = status[i]
    BY <1>0, <2>2, RowsFrame
  <2>3. CASE triage'[i] = triage[i] /\ status[i] = "none" /\ status'[i] = "collecting"
    BY <1>0, <2>3 DEF RowsOK, Migrated
  <2>4. CASE triage'[i] = triage[i] /\ status[i] = "resolved" /\ status'[i] = "analyzed"
    BY <1>0, <2>4 DEF RowsOK, Migrated
  <2> QED BY <1>2, <2>1, <2>2, <2>3, <2>4
<1>7. WorkIsClaimed'
  <2>1. \A i \in Incidents, n \in Numbers :
          triage'[i].current = n => triage[i].current = n /\ triage'[i].decided = triage[i].decided
    BY <1>4, TriageAssumption DEF NoRow, Numbers
  <2> QED BY <1>0, <2>1, WorkFrame
<1> QED BY <1>5, <1>6, <1>7, LedgerFrame DEF Good, Inv

LEMMA DeliverGood ==
  ASSUME Inv, NEW a \in Alerts, NEW s \in {"firing", "resolved"}, Deliver(a, s)
  PROVE  Good
<1>1. \E t \in Incidents : ApplyCorrelatedDelivery(t, a, s)
  BY DEF Deliver, FiringTargets, ResolvedTargets, Newest, Retrying, Judged, Current, Existing, Fresh
<1>2. hand' \in Delivery \cup {NoHand} BY DEF Deliver, Inv, TypeOK
<1> QED BY <1>1, <1>2, CorrelatedGood DEF Deliver

LEMMA ReadWindowGood ==
  ASSUME Inv, NEW a \in Alerts, NEW s \in {"firing", "resolved"}, ReadWindow(a, s)
  PROVE  Good
<1>0. TypeOK /\ WorkIsClaimed /\ \A i \in Incidents : RowsOK(i) BY DEF Inv
<1>1. hand' \in Delivery BY DEF ReadWindow, Newest, Collecting, Delivery
<1>2. TypeOK' BY <1>0, <1>1 DEF ReadWindow, TypeOK
<1>3. \A i \in Incidents : RowsOK(i)' BY <1>0, RowsFrame DEF ReadWindow
<1>4. WorkIsClaimed' BY <1>0, WorkFrame DEF ReadWindow
<1> QED BY <1>2, <1>3, <1>4, LedgerFrame DEF Good, Inv, ReadWindow

LEMMA ApplyWindowGood == ASSUME Inv, ApplyWindow PROVE Good
<1>1. /\ hand.alert \in Alerts /\ hand.inc \in Incidents /\ hand.status \in {"firing", "resolved"}
  BY DEF Inv, TypeOK, ApplyWindow, Delivery
<1> QED BY <1>1, CorrelatedGood DEF ApplyWindow

LEMMA MarkReadyGood == ASSUME Inv, NEW i \in Incidents, MarkReady(i) PROVE Good
<1>0. TypeOK /\ WorkIsClaimed /\ \A j \in Incidents : RowsOK(j) BY DEF Inv
<1> DEFINE row == [NoRow EXCEPT !.phase = "awaiting_decision"]
<1>1. /\ triage' = [triage EXCEPT ![i] = row] /\ status' = [status EXCEPT ![i] = "ready"]
      /\ triage[i].phase = "none" /\ \A n \in Numbers : attempts[i][n] = "none"
  BY <1>0 DEF MarkReady, RowsOK
<1>2. /\ row \in Row /\ row.phase = "awaiting_decision" /\ row.lease = "none" /\ row.current = 0
  BY NoRowType DEF NoRow, Row, Phases
<1> HIDE DEF row
<1>3. triage'[i] = row /\ status'[i] = "ready" BY <1>0, <1>1 DEF TypeOK
<1>4. \A j \in Incidents : j # i => triage'[j] = triage[j] /\ status'[j] = status[j]
  BY <1>0, <1>1 DEF TypeOK
<1>5. TypeOK'
  <2>1. triage' \in [Incidents -> Row] /\ status' \in [Incidents -> Statuses]
    BY <1>0, <1>1, <1>2 DEF TypeOK, Statuses
  <2> QED BY <1>0, <1>2, <1>3, <1>4, <2>1 DEF TypeOK, MarkReady
<1>6. \A j \in Incidents : j # i => RowsOK(j)' BY <1>0, <1>4, RowsFrame DEF MarkReady
<1>7. RowsOK(i)'
  <2>1. attempts' = attempts /\ \A n \in Numbers : n # 0
    BY TriageAssumption DEF MarkReady, Numbers
  <2> QED BY <1>1, <1>2, <1>3, <2>1 DEF RowsOK
<1>8. WorkIsClaimed'
  <2>1. \A j \in Incidents, n \in Numbers :
          triage'[j].current = n => triage[j].current = n /\ triage'[j].decided = triage[j].decided
    BY <1>2, <1>3, <1>4, TriageAssumption DEF Numbers
  <2> QED BY <1>0, <2>1, WorkFrame DEF MarkReady
<1> QED BY <1>5, <1>6, <1>7, <1>8, LedgerFrame DEF Good, Inv, MarkReady

-----------------------------------------------------------------------------
(* The controller, the clock and the signal.                               *)

LEMMA AttachGood == ASSUME Inv, NEW i \in Incidents, Attach(i) PROVE Good
<1>0. TypeOK /\ WorkIsClaimed /\ \A j \in Incidents : RowsOK(j) BY DEF Inv
<1>1. \A j \in Incidents : owner'[j] = owner[j] \/ owner[j] = "none" BY <1>0 DEF Attach, TypeOK
<1>2. TypeOK' BY <1>0 DEF Attach, TypeOK
<1>3. \A j \in Incidents : RowsOK(j)' BY <1>0, <1>1, RowsFrame DEF Attach
<1>4. WorkIsClaimed' BY <1>0, WorkFrame DEF Attach
<1> QED BY <1>2, <1>3, <1>4, LedgerFrame DEF Good, Inv, Attach

LEMMA CloseGood == ASSUME Inv, Close PROVE Good
<1>0. TypeOK /\ WorkIsClaimed /\ \A j \in Incidents : RowsOK(j) BY DEF Inv
<1>1. \A j \in Incidents : owner'[j] = "closed" \/ owner[j] # "closed" BY <1>0 DEF Close, TypeOK
<1>2. TypeOK' BY <1>0 DEF Close, TypeOK, Plan, NoPlan
<1>3. \A j \in Incidents : RowsOK(j)' BY <1>0, <1>1, RowsFrame DEF Close
<1>4. WorkIsClaimed' BY <1>0, WorkFrame DEF Close
<1> QED BY <1>2, <1>3, <1>4, LedgerFrame DEF Good, Inv, Close

LEMMA DecideTriageGood == ASSUME Inv, DecideTriage PROVE Good
<1>0. TypeOK /\ WorkIsClaimed /\ \A j \in Incidents : RowsOK(j) BY DEF Inv
<1>1. plan' \in [Incidents -> Plan]
  <2>1. PICK skip \in SUBSET Coverable :
          plan' = [i \in Incidents |->
                     IF Needs(i) THEN [decision |-> IF i \in skip THEN "skip" ELSE "request",
                                       view |-> SharedView(i)]
                                 ELSE NoPlan]
    BY DEF DecideTriage
  <2>2. \A i \in Incidents : SharedView(i) \in SUBSET Nat BY <1>0, ViewsAreSets
  <2> QED BY <2>1, <2>2 DEF Plan, NoPlan
<1>2. TypeOK' BY <1>0, <1>1 DEF DecideTriage, TypeOK
<1>3. \A j \in Incidents : RowsOK(j)' BY <1>0, RowsFrame DEF DecideTriage
<1>4. WorkIsClaimed' BY <1>0, WorkFrame DEF DecideTriage
<1> QED BY <1>2, <1>3, <1>4, LedgerFrame DEF Good, Inv, DecideTriage

LEMMA LoseDecisionsGood == ASSUME Inv, LoseDecisions PROVE Good
<1>0. TypeOK /\ WorkIsClaimed /\ \A j \in Incidents : RowsOK(j) BY DEF Inv
<1>2. TypeOK' BY <1>0 DEF LoseDecisions, TypeOK, Plan, NoPlan
<1>3. \A j \in Incidents : RowsOK(j)' BY <1>0, RowsFrame DEF LoseDecisions
<1>4. WorkIsClaimed' BY <1>0, WorkFrame DEF LoseDecisions
<1> QED BY <1>2, <1>3, <1>4, LedgerFrame DEF Good, Inv, LoseDecisions

LEMMA SignalGood == ASSUME Inv, Signal PROVE Good
<1>0. TypeOK /\ WorkIsClaimed /\ \A j \in Incidents : RowsOK(j) BY DEF Inv
<1>2. TypeOK' BY <1>0 DEF Signal, TypeOK
<1>3. \A j \in Incidents : RowsOK(j)' BY <1>0, RowsFrame DEF Signal
<1>4. WorkIsClaimed' BY <1>0, WorkFrame DEF Signal
<1> QED BY <1>2, <1>3, <1>4, LedgerFrame DEF Good, Inv, Signal

\* Steps that move only the phases before a claim, the due time, the lease or
\* the digests of rows: the status, the counter and the attempt stay.
LEMMA ScheduleGood ==
  ASSUME Inv, UNCHANGED <<ledger, status, owner, attempts, hand, worker, stopping>>,
         triage' \in [Incidents -> Row], plan' \in [Incidents -> Plan],
         \A i \in Incidents :
           LET t == triage[i] u == triage'[i]
           IN /\ u.attempts = t.attempts /\ u.current = t.current
              /\ u.phase # "in_flight" => u.lease = t.lease
              /\ \/ u.phase = t.phase /\ u.cause = t.cause
                 \/ /\ t.phase \in {"awaiting_decision", "pending", "backoff"}
                    /\ u.phase \in {"pending", "skipped"}
              /\ t.phase = "in_flight" => u.decided = t.decided
  PROVE  Good
<1>0. TypeOK /\ WorkIsClaimed /\ \A j \in Incidents : RowsOK(j) BY DEF Inv
<1>1. TypeOK' BY <1>0 DEF TypeOK
<1>2. ASSUME NEW i \in Incidents PROVE RowsOK(i)'
  <2>1. /\ triage'[i].attempts = triage[i].attempts /\ triage'[i].current = triage[i].current
        /\ triage'[i].phase # "in_flight" => triage'[i].lease = triage[i].lease
    OBVIOUS
  <2>2. CASE triage'[i].phase = triage[i].phase /\ triage'[i].cause = triage[i].cause
    BY <1>0, <2>1, <2>2 DEF RowsOK, Migrated
  <2>3. CASE /\ triage[i].phase \in {"awaiting_decision", "pending", "backoff"}
             /\ triage'[i].phase \in {"pending", "skipped"}
    BY <1>0, <2>1, <2>3 DEF RowsOK, Migrated
  <2> QED BY <2>2, <2>3
<1>3. WorkIsClaimed'
  <2>1. \A i \in Incidents, n \in Numbers :
          triage'[i].current = n => triage[i].current = n /\ triage'[i].decided = triage[i].decided
    <3> SUFFICES ASSUME NEW i \in Incidents, NEW n \in Numbers, triage'[i].current = n
                 PROVE  triage[i].current = n /\ triage'[i].decided = triage[i].decided
      OBVIOUS
    <3>1. triage[i].current = n /\ n # 0 BY TriageAssumption DEF Numbers
    <3>2. triage[i].phase = "in_flight" BY <1>0, <3>1 DEF RowsOK
    <3> QED BY <3>1, <3>2
  <2> QED BY <1>0, <2>1, WorkFrame
<1> QED BY <1>1, <1>2, <1>3, LedgerFrame DEF Good, Inv

LEMMA ApplyTriageDecisionsGood == ASSUME Inv, ApplyTriageDecisions PROVE Good
<1>0. TypeOK /\ \A i \in Incidents : triage[i] \in Row /\ plan[i] \in Plan BY DEF Inv, TypeOK
<1>1. plan' \in [Incidents -> Plan] BY DEF ApplyTriageDecisions, Plan, NoPlan
<1>2. \A i \in Incidents : triage'[i] = Applied(i) BY DEF ApplyTriageDecisions
<1>3. \A i \in Incidents :
        LET t == triage[i] u == triage'[i]
        IN /\ u \in Row /\ u.attempts = t.attempts /\ u.current = t.current
           /\ u.phase # "in_flight" => u.lease = t.lease
           /\ \/ u.phase = t.phase /\ u.cause = t.cause
              \/ /\ t.phase \in {"awaiting_decision", "pending", "backoff"}
                 /\ u.phase \in {"pending", "skipped"}
           /\ t.phase = "in_flight" => u.decided = t.decided
  <2> SUFFICES ASSUME NEW i \in Incidents
               PROVE  LET t == triage[i] u == triage'[i]
                      IN /\ u \in Row /\ u.attempts = t.attempts /\ u.current = t.current
                         /\ u.phase # "in_flight" => u.lease = t.lease
                         /\ \/ u.phase = t.phase /\ u.cause = t.cause
                            \/ /\ t.phase \in {"awaiting_decision", "pending", "backoff"}
                               /\ u.phase \in {"pending", "skipped"}
                         /\ t.phase = "in_flight" => u.decided = t.decided
    OBVIOUS
  <2> DEFINE t == triage[i] v == plan[i].view
  <2>0. t \in Row /\ v \in SUBSET Nat /\ triage'[i] = Applied(i) BY <1>0, <1>2 DEF Plan
  <2>1. CASE t.phase = "awaiting_decision" /\ plan[i].decision = "request"
    <3>1. Applied(i) = [t EXCEPT !.phase = "pending", !.next = "due", !.decided = v]
      BY <2>1 DEF Applied
    <3> HIDE DEF v
    <3>2. [t EXCEPT !.phase = "pending", !.next = "due", !.decided = v] \in Row
      BY <2>0 DEF Row, Phases
    <3>3. /\ triage'[i].phase = "pending" /\ triage'[i].attempts = t.attempts
          /\ triage'[i].current = t.current /\ triage'[i].lease = t.lease
      BY <2>0, <3>1 DEF Row
    <3> QED BY <2>0, <2>1, <3>1, <3>2, <3>3
  <2>2. CASE t.phase = "awaiting_decision" /\ plan[i].decision = "skip"
    <3>1. Applied(i) = [t EXCEPT !.phase = "skipped", !.next = "null", !.decided = v]
      BY <2>2 DEF Applied
    <3> HIDE DEF v
    <3>2. [t EXCEPT !.phase = "skipped", !.next = "null", !.decided = v] \in Row
      BY <2>0 DEF Row, Phases
    <3>3. /\ triage'[i].phase = "skipped" /\ triage'[i].attempts = t.attempts
          /\ triage'[i].current = t.current /\ triage'[i].lease = t.lease
      BY <2>0, <3>1 DEF Row
    <3> QED BY <2>0, <2>2, <3>1, <3>2, <3>3
  <2>3. CASE t.phase \in {"pending", "backoff"} /\ plan[i].decision = "request"
    <3>1. Applied(i) = [t EXCEPT !.decided = v] BY <2>3 DEF Applied
    <3> HIDE DEF v
    <3> QED BY <2>0, <2>3, <3>1 DEF Row, Phases
  <2>4. CASE ~(\/ t.phase = "awaiting_decision" /\ plan[i].decision \in {"request", "skip"}
               \/ t.phase \in {"pending", "backoff"} /\ plan[i].decision = "request")
    BY <2>0, <2>4 DEF Applied
  <2> QED BY <2>1, <2>2, <2>3, <2>4
<1>4. triage' \in [Incidents -> Row] BY <1>3 DEF ApplyTriageDecisions
<1> QED BY <1>1, <1>3, <1>4, ScheduleGood DEF ApplyTriageDecisions

LEMMA CleanSkipBeforeClaimGood ==
  ASSUME Inv, NEW e \in Executors, NEW i \in Incidents, CleanSkipBeforeClaim(e, i)
  PROVE  Good
<1>0. /\ triage \in [Incidents -> Row] /\ plan' \in [Incidents -> Plan]
      /\ triage[i].phase \in {"pending", "backoff"}
  BY DEF Inv, TypeOK, CleanSkipBeforeClaim, IsDue
<1>1. triage' = [triage EXCEPT ![i] = [triage[i] EXCEPT !.phase = "skipped", !.next = "null",
                                                        !.cause = "none"]]
  BY <1>0 DEF CleanSkipBeforeClaim, Row
<1>2. triage' \in [Incidents -> Row]
  <2>1. [triage[i] EXCEPT !.phase = "skipped", !.next = "null", !.cause = "none"] \in Row
    BY <1>0 DEF Row, Phases, Causes
  <2> QED BY <1>0, <1>1, <2>1
<1>3. /\ \A j \in Incidents : j # i => triage'[j] = triage[j]
      /\ triage'[i].phase = "skipped" /\ triage'[i].lease = triage[i].lease
      /\ triage'[i].attempts = triage[i].attempts /\ triage'[i].current = triage[i].current
  BY <1>0, <1>1 DEF Row
<1> QED BY <1>0, <1>2, <1>3, ScheduleGood DEF CleanSkipBeforeClaim

LEMMA HeartbeatGood == ASSUME Inv, NEW e \in Executors, Heartbeat(e) PROVE Good
<1> DEFINE i == worker[e].inc
<1>0. /\ triage \in [Incidents -> Row] /\ plan' \in [Incidents -> Plan] /\ i \in Incidents
      /\ triage[i].phase = "in_flight"
  BY DEF Inv, TypeOK, WorkIsClaimed, Heartbeat
<1>1. triage' = [triage EXCEPT ![i] = [triage[i] EXCEPT !.lease = "live"]]
  BY <1>0 DEF Heartbeat
<1> HIDE DEF i
<1>2. triage' \in [Incidents -> Row] BY <1>0, <1>1 DEF Row
<1>3. /\ \A j \in Incidents : j # i => triage'[j] = triage[j]
      /\ triage'[i].phase = "in_flight" /\ triage'[i].decided = triage[i].decided
      /\ triage'[i].attempts = triage[i].attempts /\ triage'[i].current = triage[i].current
      /\ triage'[i].cause = triage[i].cause
  BY <1>0, <1>1 DEF Row
<1> QED BY <1>0, <1>2, <1>3, ScheduleGood DEF Heartbeat

LEMMA LeaseExpiresGood == ASSUME Inv, NEW i \in Incidents, LeaseExpires(i) PROVE Good
<1>0. /\ triage \in [Incidents -> Row] /\ plan' \in [Incidents -> Plan]
      /\ triage[i].phase = "in_flight"
  BY DEF Inv, TypeOK, LeaseExpires
<1>1. triage' = [triage EXCEPT ![i] = [triage[i] EXCEPT !.lease = "expired"]]
  BY <1>0 DEF LeaseExpires
<1>2. triage' \in [Incidents -> Row] BY <1>0, <1>1 DEF Row
<1>3. /\ \A j \in Incidents : j # i => triage'[j] = triage[j]
      /\ triage'[i].phase = "in_flight" /\ triage'[i].decided = triage[i].decided
      /\ triage'[i].attempts = triage[i].attempts /\ triage'[i].current = triage[i].current
      /\ triage'[i].cause = triage[i].cause
  BY <1>0, <1>1 DEF Row
<1> QED BY <1>0, <1>2, <1>3, ScheduleGood DEF LeaseExpires

LEMMA TimerReachedGood == ASSUME Inv, NEW i \in Incidents, TimerReached(i) PROVE Good
<1>0. triage \in [Incidents -> Row] /\ plan' \in [Incidents -> Plan]
  BY DEF Inv, TypeOK, TimerReached
<1>1. PICK next \in {"due", "overdue"} :
        triage' = [triage EXCEPT ![i] = [triage[i] EXCEPT !.next = next]]
  BY <1>0 DEF TimerReached
<1>2. triage' \in [Incidents -> Row] BY <1>0, <1>1 DEF Row
<1>3. /\ \A j \in Incidents : j # i => triage'[j] = triage[j]
      /\ triage'[i].phase = triage[i].phase /\ triage'[i].decided = triage[i].decided
      /\ triage'[i].attempts = triage[i].attempts /\ triage'[i].current = triage[i].current
      /\ triage'[i].cause = triage[i].cause /\ triage'[i].lease = triage[i].lease
  BY <1>0, <1>1 DEF Row
<1> QED BY <1>0, <1>2, <1>3, ScheduleGood DEF TimerReached

-----------------------------------------------------------------------------
(* The worker.                                                             *)

LEMMA ClaimGood ==
  ASSUME Inv, NEW e \in Executors, NEW i \in Incidents, Claim(e, i)
  PROVE  Good
<1> DEFINE n == triage[i].attempts + 1
           row == [triage[i] EXCEPT !.phase = "in_flight", !.attempts = n, !.next = "null",
                                    !.lease = "live", !.current = n]
           work == [pc |-> "analyzing", inc |-> i, att |-> n, frozen |-> OwnView(i)]
<1>0. TypeOK /\ WorkIsClaimed /\ \A j \in Incidents : RowsOK(j) BY DEF Inv
<1>1. /\ attempts' = [attempts EXCEPT ![i][n] = "open"] /\ triage' = [triage EXCEPT ![i] = row]
      /\ status' = [status EXCEPT ![i] = "processing"] /\ worker' = [worker EXCEPT ![e] = work]
      /\ UNCHANGED <<ledger, owner, plan, hand, stopping>>
      /\ triage[i].decided = OwnView(i)
      /\ status[i] = "ready" /\ triage[i].phase \in {"pending", "backoff"}
  BY DEF Claim, IsDue
<1>2. /\ triage[i] \in Row /\ n \in Numbers /\ n # 0 /\ triage[i].current = 0
      /\ attempts[i][n] = "none"
  <2>1. triage[i] \in Row /\ triage[i].attempts \in 0..MaxAttempts BY <1>0 DEF TypeOK, Row
  <2>2. triage[i].attempts < MaxAttempts BY DEF Claim, HasAttempt
  <2>3. n \in Numbers /\ n > triage[i].attempts /\ n # 0
    BY <2>1, <2>2, TriageAssumption DEF Numbers
  <2> QED BY <1>0, <1>1, <2>1, <2>3 DEF RowsOK
<1>3. /\ row \in Row /\ row.phase = "in_flight" /\ row.attempts = n /\ row.current = n
      /\ row.decided = triage[i].decided
  <2>1. n \in 0..MaxAttempts BY <1>2, TriageAssumption DEF Numbers
  <2> HIDE DEF n
  <2> QED BY <1>2, <2>1 DEF Row, Phases
<1>4. work \in Work
  BY <1>0, <1>2, ViewsAreSets, TriageAssumption DEF Work, Incidents, Numbers
<1> HIDE DEF row, n
<1>5. /\ triage'[i] = row /\ status'[i] = "processing" /\ worker'[e] = work
      /\ attempts'[i][n] = "open"
      /\ \A k \in Numbers : k # n => attempts'[i][k] = attempts[i][k]
      /\ \A j \in Incidents : j # i => /\ triage'[j] = triage[j] /\ status'[j] = status[j]
                                     /\ attempts'[j] = attempts[j]
      /\ \A f \in Executors : f # e => worker'[f] = worker[f]
  BY <1>0, <1>1, <1>2 DEF TypeOK
<1>6. TypeOK'
  <2>1. triage' \in [Incidents -> Row] /\ worker' \in [Executors -> Work]
    BY <1>0, <1>1, <1>3, <1>4 DEF TypeOK
  <2>2. status' \in [Incidents -> Statuses] /\ attempts' \in [Incidents -> [Numbers -> Codes]]
    BY <1>0, <1>1, <1>2 DEF TypeOK, Statuses, Codes
  <2>3. \A j \in Incidents :
          triage'[j].phase # "in_flight" => triage'[j].lease = "none" /\ triage'[j].current = 0
    BY <1>0, <1>3, <1>5 DEF TypeOK
  <2> QED BY <1>0, <1>1, <2>1, <2>2, <2>3 DEF TypeOK
<1>7. \A j \in Incidents : j # i => RowsOK(j)' BY <1>0, <1>1, <1>5, RowsFrame
<1>8. RowsOK(i)'
  <2>1. \A k \in Numbers : /\ attempts[i][k] # "open" /\ attempts[i][k] # "success"
                           /\ k > n => attempts[i][k] = "none"
    <3>1. \A k \in Numbers : k # 0 /\ (k > n => k > triage[i].attempts)
      <4>1. triage[i].attempts \in Nat BY <1>2, TriageAssumption DEF Row
      <4> QED BY <4>1, TriageAssumption DEF n, Numbers
    <3> QED BY <1>0, <1>1, <1>2, <3>1 DEF RowsOK
  <2>2. \A k \in Numbers : ~(n > n) BY <1>2 DEF Numbers
  <2> QED BY <1>1, <1>2, <1>3, <1>5, <2>1, <2>2 DEF RowsOK
<1>9. WorkIsClaimed'
  <2> SUFFICES ASSUME NEW f \in Executors, worker'[f].pc # "idle"
               PROVE  LET w == worker'[f]
                      IN /\ w.inc \in Incidents /\ w.att \in Numbers
                         /\ attempts'[w.inc][w.att] # "none"
                         /\ w.pc = "analyzing" /\ triage'[w.inc].current = w.att =>
                              triage'[w.inc].decided = w.frozen
    BY DEF WorkIsClaimed
  <2>1. CASE f = e BY <1>1, <1>2, <1>3, <1>5, <2>1
  <2>2. CASE f # e
    <3>1. worker'[f] = worker[f] BY <1>5, <2>2
    <3>2. LET w == worker[f]
          IN /\ w.inc \in Incidents /\ w.att \in Numbers /\ attempts[w.inc][w.att] # "none"
             /\ w.pc = "analyzing" /\ triage[w.inc].current = w.att =>
                  triage[w.inc].decided = w.frozen
      BY <1>0, <3>1 DEF WorkIsClaimed
    <3>3. CASE worker[f].inc = i BY <1>2, <1>3, <1>5, <3>1, <3>2, <3>3
    <3>4. CASE worker[f].inc # i BY <1>5, <3>1, <3>2, <3>4
    <3> QED BY <3>3, <3>4
  <2> QED BY <2>1, <2>2
<1>10. AttemptKept /\ Promoted BY <1>2, <1>5 DEF AttemptKept, Promoted, n
<1> QED BY <1>6, <1>7, <1>8, <1>9, <1>10 DEF Good, Inv

\* An attempt that is open is ended with its row and its Incident.
LEMMA EndGood ==
  ASSUME Inv, NEW e \in Executors, NEW i \in Incidents, NEW n \in Numbers,
         NEW code \in Codes, NEW row \in Row, NEW st \in Statuses,
         EndAttempt(i, n, code, row, st), GoIdle(e), attempts[i][n] = "open",
         code \notin {"none", "open"}, row.lease = "none", row.current = 0,
         code = "success" => triage[i].decided = OwnView(i),
         \/ row.phase = "none" /\ st = "analyzed"
         \/ /\ code # "success" /\ row.attempts = triage[i].attempts
            /\ \/ row.phase \in {"awaiting_decision", "backoff", "skipped"} /\ st = "ready"
               \/ /\ row.phase = "exhausted" /\ st = "failed"
                  /\ row.attempts = MaxAttempts \/ (row.cause = "owner_terminal" /\ owner[i] = "closed")
  PROVE  Good
<1>0. TypeOK /\ WorkIsClaimed /\ \A j \in Incidents : RowsOK(j) BY DEF Inv
<1>1. /\ triage[i].current = n /\ triage[i].phase = "in_flight" /\ n # 0
      /\ \A k \in Numbers : attempts[i][k] = "open" => k = n
      /\ \A k \in Numbers : attempts[i][k] # "success"
  <2>1. n # 0 BY TriageAssumption DEF Numbers
  <2> QED BY <1>0, <2>1 DEF RowsOK
<1>2. /\ triage'[i] = row /\ status'[i] = st /\ attempts'[i][n] = code
      /\ \A k \in Numbers : k # n => attempts'[i][k] = attempts[i][k]
      /\ \A j \in Incidents : j # i => /\ triage'[j] = triage[j] /\ status'[j] = status[j]
                                     /\ attempts'[j] = attempts[j]
      /\ \A f \in Executors : worker'[f] = worker[f] \/ worker'[f].pc = "idle"
      /\ owner' = owner
  BY <1>0 DEF EndAttempt, GoIdle, TypeOK, Idle
<1>3. TypeOK'
  <2>1. triage' \in [Incidents -> Row] /\ worker' \in [Executors -> Work]
    BY <1>0, IdleType DEF TypeOK, EndAttempt, GoIdle
  <2>2. status' \in [Incidents -> Statuses] /\ attempts' \in [Incidents -> [Numbers -> Codes]]
    BY <1>0 DEF TypeOK, EndAttempt
  <2>3. \A j \in Incidents :
          triage'[j].phase # "in_flight" => triage'[j].lease = "none" /\ triage'[j].current = 0
    BY <1>0, <1>2 DEF TypeOK
  <2> QED BY <1>0, <2>1, <2>2, <2>3 DEF TypeOK, GoIdle
<1>4. \A j \in Incidents : j # i => RowsOK(j)' BY <1>0, <1>2, RowsFrame
<1>5. RowsOK(i)'
  <2>1. \A k \in Numbers : k # 0 BY TriageAssumption DEF Numbers
  <2>2. \A k \in Numbers : attempts'[i][k] # "open" BY <1>1, <1>2
  <2>3. \A k \in Numbers : attempts'[i][k] = "success" => k = n /\ code = "success"
    BY <1>1, <1>2
  <2>4. \A k \in Numbers : k > triage[i].attempts => attempts'[i][k] = "none"
    <3>1. triage[i].current = triage[i].attempts BY <1>0, <1>1 DEF RowsOK
    <3>2. \A k \in Numbers : k > n => k # n BY DEF Numbers
    <3> QED BY <1>0, <1>1, <1>2, <3>1, <3>2 DEF RowsOK
  <2>5. CASE row.phase = "none" /\ st = "analyzed"
    BY <1>2, <2>1, <2>2, <2>3, <2>5 DEF RowsOK
  <2>6. CASE /\ code # "success" /\ row.attempts = triage[i].attempts
             /\ row.phase \in {"awaiting_decision", "backoff", "skipped"} /\ st = "ready"
    BY <1>2, <2>1, <2>2, <2>3, <2>4, <2>6 DEF RowsOK
  <2>7. CASE /\ code # "success" /\ row.attempts = triage[i].attempts
             /\ row.phase = "exhausted" /\ st = "failed"
             /\ row.attempts = MaxAttempts \/ (row.cause = "owner_terminal" /\ owner[i] = "closed")
    BY <1>2, <2>1, <2>2, <2>3, <2>4, <2>7 DEF RowsOK
  <2> QED BY <2>5, <2>6, <2>7
<1>6. WorkIsClaimed'
  <2>1. \A j \in Incidents, k \in Numbers :
          triage'[j].current = k => triage[j].current = k /\ triage'[j].decided = triage[j].decided
    BY <1>2, TriageAssumption DEF Numbers
  <2>2. \A j \in Incidents, k \in Numbers : attempts[j][k] # "none" => attempts'[j][k] # "none"
    BY <1>2
  <2> QED BY <1>0, <1>2, <2>1, <2>2, WorkFrame
<1>7. AttemptKept /\ Promoted BY <1>1, <1>2 DEF AttemptKept, Promoted
<1> QED BY <1>3, <1>4, <1>5, <1>6, <1>7 DEF Good, Inv

\* What the row of an attempt in flight becomes.
LEMMA ReleasedRow ==
  ASSUME TypeOK, NEW i \in Incidents, NEW phase \in Phases, NEW cause \in Causes,
         NEW next \in {"null", "waiting", "due", "overdue"}
  PROVE  LET row == Released(i, phase, next, cause)
         IN /\ row \in Row /\ row.phase = phase /\ row.cause = cause
            /\ row.lease = "none" /\ row.current = 0 /\ row.attempts = triage[i].attempts
<1>1. triage[i] \in Row BY DEF TypeOK
<1>3. /\ triage[i].attempts \in 0..MaxAttempts /\ triage[i].decided \in SUBSET Nat
      /\ 0 \in 0..MaxAttempts
  BY <1>1, TriageAssumption DEF Row
<1> QED BY <1>3 DEF Released, Row

\* An executor at work has a claimed attempt; the fences make it the current
\* one, which is the last that was counted.
LEMMA FencedWork ==
  ASSUME Inv, NEW e \in Executors, worker[e].pc # "idle"
  PROVE  /\ TypeOK /\ worker[e].inc \in Incidents /\ worker[e].att \in Numbers
         /\ attempts[worker[e].inc][worker[e].att] = "open" =>
              /\ triage[worker[e].inc].attempts = worker[e].att
              /\ triage[worker[e].inc].current = worker[e].att
              /\ Spent(worker[e].att) => triage[worker[e].inc].attempts = MaxAttempts
<1> DEFINE i == worker[e].inc n == worker[e].att
<1>1. TypeOK /\ i \in Incidents /\ n \in Numbers /\ RowsOK(i) BY DEF Inv, WorkIsClaimed
<1> HIDE DEF i, n
<1>2. ASSUME attempts[i][n] = "open"
      PROVE  triage[i].attempts = n /\ triage[i].current = n
  <2>1. n # 0 BY <1>1, TriageAssumption DEF Numbers
  <2> QED BY <1>1, <1>2, <2>1 DEF RowsOK
<1>3. Spent(n) => n = MaxAttempts BY <1>1, TriageAssumption DEF Spent, Numbers
<1> QED BY <1>1, <1>2, <1>3 DEF i, n

LEMMA BackoffOrExhaustGood ==
  ASSUME Inv, NEW e \in Executors, NEW next \in {"waiting", "due"},
         NEW cause \in {"failed"}, worker[e].pc # "idle",
         BackoffOrExhaust(worker[e].inc, worker[e].att, next, cause), GoIdle(e)
  PROVE  Good
<1> DEFINE i == worker[e].inc n == worker[e].att
           b == Released(i, "backoff", next, cause) x == Released(i, "exhausted", "null", cause)
<1>1. /\ TypeOK /\ i \in Incidents /\ n \in Numbers /\ attempts[i][n] = "open"
      /\ Spent(n) => triage[i].attempts = MaxAttempts
  BY FencedWork DEF BackoffOrExhaust, Fenced
<1>2. /\ "failed" \in Codes /\ "failed" \in Statuses /\ "ready" \in Statuses
  BY DEF Codes, Statuses
<1>3. /\ b \in Row /\ b.phase = "backoff" /\ b.lease = "none" /\ b.current = 0
      /\ b.attempts = triage[i].attempts
  BY <1>1, ReleasedRow DEF Phases, Causes
<1>4. /\ x \in Row /\ x.phase = "exhausted" /\ x.lease = "none" /\ x.current = 0
      /\ x.attempts = triage[i].attempts
  BY <1>1, ReleasedRow DEF Phases, Causes
<1>5. \/ Spent(n) /\ EndAttempt(i, n, "failed", x, "failed")
      \/ EndAttempt(i, n, "failed", b, "ready")
  BY DEF BackoffOrExhaust
<1> HIDE DEF i, n, b, x
<1>6. CASE Spent(n) /\ EndAttempt(i, n, "failed", x, "failed")
  <2>1. x.attempts = MaxAttempts /\ EndAttempt(i, n, "failed", x, "failed") BY <1>1, <1>4, <1>6
  <2> QED BY <1>1, <1>2, <1>4, <2>1, EndGood
<1>7. CASE EndAttempt(i, n, "failed", b, "ready") BY <1>1, <1>2, <1>3, <1>7, EndGood
<1> QED BY <1>5, <1>6, <1>7

LEMMA FailGood == ASSUME Inv, NEW e \in Executors, Fail(e) PROVE Good
BY BackoffOrExhaustGood DEF Fail

LEMMA RecoverGood == ASSUME Inv, NEW e \in Executors, Recover(e) PROVE Good
BY BackoffOrExhaustGood DEF Recover

LEMMA CleanSkipAfterClaimGood ==
  ASSUME Inv, NEW e \in Executors, CleanSkipAfterClaim(e) PROVE Good
<1> DEFINE i == worker[e].inc n == worker[e].att row == Released(i, "skipped", "null", "none")
<1>1. TypeOK /\ i \in Incidents /\ n \in Numbers /\ attempts[i][n] = "open"
  BY FencedWork DEF CleanSkipAfterClaim, Fenced
<1>2. /\ row \in Row /\ row.phase = "skipped" /\ row.lease = "none" /\ row.current = 0
      /\ row.attempts = triage[i].attempts
  BY <1>1, ReleasedRow DEF Phases, Causes
<1>3. EndAttempt(i, n, "clean_skip", row, "ready") /\ GoIdle(e) BY DEF CleanSkipAfterClaim
<1>4. "clean_skip" \in Codes /\ "ready" \in Statuses BY DEF Codes, Statuses
<1> HIDE DEF i, n, row
<1> QED BY <1>1, <1>2, <1>3, <1>4, EndGood

LEMMA CompleteOwnerTerminalGood ==
  ASSUME Inv, NEW e \in Executors, CompleteOwnerTerminal(e) PROVE Good
<1> DEFINE i == worker[e].inc n == worker[e].att
           row == Released(i, "exhausted", "null", "owner_terminal")
<1>1. TypeOK /\ i \in Incidents /\ n \in Numbers /\ attempts[i][n] = "open"
  BY FencedWork DEF CompleteOwnerTerminal, Fenced
<1>2. /\ row \in Row /\ row.phase = "exhausted" /\ row.lease = "none" /\ row.current = 0
      /\ row.attempts = triage[i].attempts /\ row.cause = "owner_terminal"
  BY <1>1, ReleasedRow DEF Phases, Causes
<1>3. /\ EndAttempt(i, n, "owner_terminal", row, "failed") /\ GoIdle(e) /\ owner[i] = "closed"
  BY DEF CompleteOwnerTerminal
<1>4. "owner_terminal" \in Codes /\ "failed" \in Statuses BY DEF Codes, Statuses
<1> HIDE DEF i, n, row
<1> QED BY <1>1, <1>2, <1>3, <1>4, EndGood

LEMMA CompleteStaleGood == ASSUME Inv, NEW e \in Executors, CompleteStale(e) PROVE Good
<1> DEFINE i == worker[e].inc n == worker[e].att
           x == Released(i, "exhausted", "null", "failed")
           w == Released(i, "awaiting_decision", "null", triage[i].cause)
<1>1. /\ TypeOK /\ i \in Incidents /\ n \in Numbers /\ attempts[i][n] = "open"
      /\ Spent(n) => triage[i].attempts = MaxAttempts
  BY FencedWork DEF CompleteStale, Fenced
<1>2. /\ "stale" \in Codes /\ "failed" \in Statuses /\ "ready" \in Statuses
  BY DEF Codes, Statuses
<1>3. /\ x \in Row /\ x.phase = "exhausted" /\ x.lease = "none" /\ x.current = 0
      /\ x.attempts = triage[i].attempts
  BY <1>1, ReleasedRow DEF Phases, Causes
<1>4. /\ w \in Row /\ w.phase = "awaiting_decision" /\ w.lease = "none" /\ w.current = 0
      /\ w.attempts = triage[i].attempts
  <2>1. triage[i].cause \in Causes BY <1>1 DEF TypeOK, Row
  <2> QED BY <1>1, <2>1, ReleasedRow DEF Phases
<1>5. /\ GoIdle(e)
      /\ \/ Spent(n) /\ EndAttempt(i, n, "stale", x, "failed")
         \/ EndAttempt(i, n, "stale", w, "ready")
  BY DEF CompleteStale
<1> HIDE DEF i, n, x, w
<1>6. CASE Spent(n) /\ EndAttempt(i, n, "stale", x, "failed")
  <2>1. x.attempts = MaxAttempts /\ EndAttempt(i, n, "stale", x, "failed") BY <1>1, <1>3, <1>6
  <2> QED BY <1>1, <1>2, <1>3, <1>5, <2>1, EndGood
<1>7. CASE EndAttempt(i, n, "stale", w, "ready") BY <1>1, <1>2, <1>4, <1>5, <1>7, EndGood
<1> QED BY <1>5, <1>6, <1>7

LEMMA CompleteSuccessGood == ASSUME Inv, NEW e \in Executors, CompleteSuccess(e) PROVE Good
<1> DEFINE i == worker[e].inc n == worker[e].att
<1>1. /\ TypeOK /\ i \in Incidents /\ n \in Numbers /\ attempts[i][n] = "open"
      /\ triage[i].current = n
  BY FencedWork DEF CompleteSuccess, Promotable
<1>2. triage[i].decided = OwnView(i)
  BY <1>1 DEF Inv, WorkIsClaimed, CompleteSuccess, IsStale
<1>3. EndAttempt(i, n, "success", NoRow, "analyzed") /\ GoIdle(e) BY DEF CompleteSuccess
<1>4. /\ "success" \in Codes /\ "analyzed" \in Statuses
      /\ NoRow.phase = "none" /\ NoRow.lease = "none" /\ NoRow.current = 0
  BY DEF Codes, Statuses, NoRow
<1> HIDE DEF i, n
<1> QED BY <1>1, <1>2, <1>3, <1>4, NoRowType, EndGood

LEMMA AbandonGood == ASSUME Inv, NEW e \in Executors, Abandon(e) PROVE Good
<1>0. TypeOK /\ WorkIsClaimed /\ \A j \in Incidents : RowsOK(j) BY DEF Inv
<1>1. TypeOK' BY <1>0, IdleType DEF Abandon, GoIdle, TypeOK
<1>2. \A j \in Incidents : RowsOK(j)' BY <1>0, RowsFrame DEF Abandon, GoIdle
<1>3. \A f \in Executors : worker'[f] = worker[f] \/ worker'[f].pc = "idle"
  BY <1>0 DEF Abandon, GoIdle, Idle, TypeOK
<1>4. WorkIsClaimed' BY <1>0, <1>3, WorkFrame DEF Abandon
<1> QED BY <1>1, <1>2, <1>4, LedgerFrame DEF Good, Inv, Abandon

LEMMA ListExpiredGood ==
  ASSUME Inv, NEW e \in Executors, NEW i \in Incidents, ListExpired(e, i) PROVE Good
<1> DEFINE work == [pc |-> "recovering", inc |-> i, att |-> triage[i].current, frozen |-> {}]
<1>0. TypeOK /\ WorkIsClaimed /\ \A j \in Incidents : RowsOK(j) BY DEF Inv
<1>1. /\ triage[i].current \in Numbers /\ attempts[i][triage[i].current] = "open"
  <2>1. triage[i].current \in 0..MaxAttempts /\ triage[i].current # 0
    BY <1>0 DEF ListExpired, TypeOK, Row
  <2>2. triage[i].current \in Numbers BY <2>1, TriageAssumption DEF Numbers
  <2> QED BY <1>0, <2>2 DEF RowsOK
<1>2. work \in Work BY <1>1, TriageAssumption DEF Work, Incidents, Numbers
<1>3. TypeOK' BY <1>0, <1>2 DEF ListExpired, TypeOK
<1>4. \A j \in Incidents : RowsOK(j)' BY <1>0, RowsFrame DEF ListExpired
<1>5. WorkIsClaimed'
  <2>1. worker'[e] = work /\ \A f \in Executors : f # e => worker'[f] = worker[f]
    BY <1>0 DEF ListExpired, TypeOK
  <2> QED BY <1>0, <1>1, <2>1 DEF WorkIsClaimed, ListExpired
<1> QED BY <1>3, <1>4, <1>5, LedgerFrame DEF Good, Inv, ListExpired

-----------------------------------------------------------------------------
(* Startup recovery, and the theorems.                                     *)

\* What startup does to one Incident: recovery of an interrupted attempt, the
\* horizon, or nothing.
LEMMA RestartRow ==
  ASSUME Inv, Restart, NEW i \in Incidents
  PROVE  /\ RowsOK(i)' /\ triage'[i] \in Row /\ status'[i] \in Statuses
         /\ attempts'[i] \in [Numbers -> Codes]
         /\ \A n \in Numbers : attempts'[i][n] # attempts[i][n] =>
              /\ attempts[i][n] = "open" /\ n = triage[i].current /\ attempts'[i][n] # "success"
<1>0. /\ TypeOK /\ RowsOK(i) /\ owner' = owner
      /\ triage[i] \in Row /\ status[i] \in Statuses /\ attempts[i] \in [Numbers -> Codes]
      /\ \A k \in Numbers : k # 0
  BY TriageAssumption DEF Inv, TypeOK, Restart, Numbers
<1>1. CASE i \in Interrupted
  <2> DEFINE n == triage[i].current
             b == Released(i, "backoff", "due", "failed")
             x == Released(i, "exhausted", "null", "failed")
  <2>1. n \in 0..MaxAttempts /\ n # 0 /\ triage[i].phase = "in_flight"
    BY <1>0, <1>1 DEF Interrupted, Row
  <2>2. n \in Numbers BY <2>1, TriageAssumption DEF Numbers
  <2>3. triage[i].attempts = n BY <1>0, <2>1 DEF RowsOK
  <2>4. i \in Ended => triage[i].attempts = MaxAttempts
    <3>1. i \notin Overdue BY <2>1 DEF Overdue
    <3>2. i \in Ended => Spent(n) BY <2>3, <3>1 DEF Ended
    <3> QED BY <2>2, <2>3, <3>2, TriageAssumption DEF Spent, Numbers
  <2>5. attempts'[i] = [attempts[i] EXCEPT ![n] = "failed"] BY <1>1 DEF Restart
  <2>6. \/ triage'[i] = b /\ status'[i] = "ready"
        \/ triage'[i] = x /\ status'[i] = "failed" /\ triage[i].attempts = MaxAttempts
    <3>1. CASE i \in Ended BY <1>1, <2>4, <3>1 DEF Restart
    <3>2. CASE i \notin Ended BY <1>1, <3>2 DEF Restart
    <3> QED BY <3>1, <3>2
  <2>7. /\ b \in Row /\ b.phase = "backoff" /\ b.lease = "none" /\ b.current = 0
        /\ b.attempts = n
    BY <1>0, <2>3, ReleasedRow DEF Phases, Causes
  <2>8. /\ x \in Row /\ x.phase = "exhausted" /\ x.lease = "none" /\ x.current = 0
        /\ x.attempts = n
    BY <1>0, <2>3, ReleasedRow DEF Phases, Causes
  <2>9. attempts'[i] \in [Numbers -> Codes] BY <1>0, <2>2, <2>5 DEF Codes
  <2>10. /\ attempts'[i][n] = "failed" /\ attempts[i][n] = "open"
         /\ \A k \in Numbers : k # n => /\ attempts'[i][k] = attempts[i][k]
                                       /\ attempts[i][k] # "open"
         /\ \A k \in Numbers : attempts[i][k] # "success"
         /\ \A k \in Numbers : k > n => attempts[i][k] = "none" /\ k # n
    <3>1. \A k \in Numbers : k > n => k # n BY <2>2 DEF Numbers
    <3> QED BY <1>0, <2>1, <2>2, <2>3, <2>5, <3>1 DEF RowsOK
  <2>11. RowsOK(i)'
    <3> HIDE DEF b, x, n
    <3>1. CASE triage'[i] = b /\ status'[i] = "ready"
      BY <1>0, <2>7, <2>10, <3>1 DEF RowsOK
    <3>2. CASE triage'[i] = x /\ status'[i] = "failed" /\ triage[i].attempts = MaxAttempts
      BY <1>0, <2>3, <2>8, <2>10, <3>2 DEF RowsOK
    <3> QED BY <2>6, <3>1, <3>2
  <2>12. triage'[i] \in Row /\ status'[i] \in Statuses
    BY <2>6, <2>7, <2>8 DEF Statuses
  <2> QED BY <2>9, <2>10, <2>11, <2>12
<1>2. CASE i \notin Interrupted /\ i \in Overdue
  <2> DEFINE x == Released(i, "exhausted", "null", "horizon")
  <2>1. triage'[i] = x /\ status'[i] = "failed" /\ attempts'[i] = attempts[i]
    BY <1>2 DEF Restart, Ended
  <2>2. triage[i].phase \in {"pending", "backoff"} BY <1>2 DEF Overdue
  <2>3. /\ x \in Row /\ x.phase = "exhausted" /\ x.lease = "none" /\ x.current = 0
        /\ x.attempts = triage[i].attempts /\ x.cause = "horizon"
    BY <1>0, ReleasedRow DEF Phases, Causes
  <2> HIDE DEF x
  <2>4. RowsOK(i)' BY <1>0, <2>1, <2>2, <2>3 DEF RowsOK
  <2> QED BY <1>0, <2>1, <2>3, <2>4 DEF Statuses
<1>3. CASE i \notin Interrupted /\ i \notin Overdue
  <2>1. triage'[i] = triage[i] /\ status'[i] = status[i] /\ attempts'[i] = attempts[i]
    BY <1>3 DEF Restart, Ended
  <2> QED BY <1>0, <2>1, RowsFrame
<1> QED BY <1>1, <1>2, <1>3

LEMMA RestartGood == ASSUME Inv, Restart PROVE Good
<1>1. /\ triage' \in [Incidents -> Row] /\ status' \in [Incidents -> Statuses]
      /\ attempts' \in [Incidents -> [Numbers -> Codes]]
  BY RestartRow DEF Restart
<1>2. worker' \in [Executors -> Work] /\ plan' \in [Incidents -> Plan]
  BY IdleType DEF Restart, Plan, NoPlan
<1>3. \A i \in Incidents :
        triage'[i].phase # "in_flight" => triage'[i].lease = "none" /\ triage'[i].current = 0
  BY RestartRow DEF RowsOK
<1>4. /\ ledger' \in Seq(Delivery) /\ owner' \in [Incidents -> {"none", "open", "closed"}]
      /\ hand' \in Delivery \cup {NoHand} /\ stopping' \in BOOLEAN
  BY DEF Restart, Inv, TypeOK
<1>5. TypeOK' BY <1>1, <1>2, <1>3, <1>4 DEF TypeOK
<1>6. WorkIsClaimed' BY DEF Restart, WorkIsClaimed, Idle
<1>7. AttemptKept /\ Promoted BY RestartRow DEF AttemptKept, Promoted
<1> QED BY <1>5, <1>6, <1>7, RestartRow DEF Good, Inv

LEMMA NextGood == ASSUME Inv, Next PROVE Good
<1>1. CASE Correlate
  BY <1>1, DeliverGood, ReadWindowGood, ApplyWindowGood, MarkReadyGood DEF Correlate
<1>2. CASE Decide
  BY <1>2, AttachGood, CloseGood, DecideTriageGood, ApplyTriageDecisionsGood, LoseDecisionsGood
  DEF Decide
<1>3. ASSUME NEW e \in Executors, Execute(e) PROVE Good
  BY <1>3, CleanSkipBeforeClaimGood, ClaimGood, ListExpiredGood, HeartbeatGood, FailGood,
     CleanSkipAfterClaimGood, CompleteOwnerTerminalGood, CompleteStaleGood, CompleteSuccessGood,
     RecoverGood, AbandonGood
  DEF Execute, Conclude
<1>4. ASSUME NEW i \in Incidents, TimerReached(i) \/ LeaseExpires(i) PROVE Good
  BY <1>4, TimerReachedGood, LeaseExpiresGood
<1> QED BY <1>1, <1>2, <1>3, <1>4, SignalGood, RestartGood DEF Next

LEMMA StutterGood == ASSUME Inv, UNCHANGED vars PROVE Good
<1>1. TypeOK' /\ WorkIsClaimed' BY DEF Inv, TypeOK, WorkIsClaimed, vars
<1>2. \A i \in Incidents : RowsOK(i)' BY RowsFrame DEF Inv, vars
<1> QED BY <1>1, <1>2, LedgerFrame DEF Good, Inv, vars

LEMMA Inductive == Spec => []Inv
<1>1. Inv /\ [Next]_vars => Inv' BY NextGood, StutterGood DEF Good
<1> QED BY <1>1, InitInv, PTL DEF Spec

\* The inductive invariant of the triage schedule, by property.
THEOREM Invariance == Spec => []TriageInvariant
<1>1. Inv => TriageInvariant BY ByIncident
<1> QED BY <1>1, Inductive, PTL

\* Every row the store methods write has its declared type, and satisfies the
\* CHECK of migration 0017 on leases and current attempts.
THEOREM TypeCorrect == Spec => []TypeOK
<1>1. TriageInvariant => TypeOK BY DEF TriageInvariant
<1> QED BY <1>1, Invariance, PTL

\* The correlator, the controller, the worker and the recoveries keep
\* incidents.status and incident_triage.phase in step.
THEOREM StatusAgrees == Spec => []ScheduleMatchesStatus
<1>1. TriageInvariant => ScheduleMatchesStatus BY DEF TriageInvariant
<1> QED BY <1>1, Invariance, PTL

\* At most one attempt of an Incident is open, and it is the one its row names.
THEOREM OneLiveAttempt == Spec => []LiveAttempt
<1>1. TriageInvariant => LiveAttempt BY DEF TriageInvariant
<1> QED BY <1>1, Invariance, PTL

\* ClaimIncidentTriageAttempt never runs into the UNIQUE index of the ledger.
THEOREM FreshAttempts == Spec => []ClaimNeverCollides
<1>1. TriageInvariant => ClaimNeverCollides BY DEF TriageInvariant
<1> QED BY <1>1, Invariance, PTL

\* completeSuccessTx promotes at most one Finding per Incident, and nothing
\* schedules the Incident again.
THEOREM SingleJudgment == Spec => []JudgedOnce
<1>1. TriageInvariant => JudgedOnce BY DEF TriageInvariant
<1> QED BY <1>1, Invariance, PTL

\* No path exhausts a schedule with attempts to spare, a closed Situation and
\* the startup horizon excepted.
THEOREM EarnedExhaustion == Spec => []ExhaustionIsEarned
<1>1. TriageInvariant => ExhaustionIsEarned BY DEF TriageInvariant
<1> QED BY <1>1, Invariance, PTL

\* An attempt is opened once, ended once, and ended while it is current.
THEOREM FinalAttempts == Spec => AttemptsAreFinal
<1>1. Inv /\ [Next]_vars => [AttemptKept]_vars BY NextGood, StutterGood DEF Good
<1> QED BY <1>1, Inductive, PTL DEF Spec, AttemptsAreFinal

\* A promoted Finding covers what the controller asked for and what the
\* Incident owns, though completeSuccessTx checks neither the decision nor
\* the current attempt.
THEOREM CurrentFindings == Spec => FindingIsCurrent
<1>1. Inv /\ [Next]_vars => [Promoted]_vars BY NextGood, StutterGood DEF Good
<1> QED BY <1>1, Inductive, PTL DEF Spec, FindingIsCurrent
=============================================================================
