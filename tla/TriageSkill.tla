----------------------------- MODULE TriageSkill -----------------------------
(***************************************************************************)
(* One triage of an Incident (skills/acutetriage): the evidence it gathers *)
(* and the findings and verdicts it recalls, the draft, the verification   *)
(* round and the second call, the caps on the confidence, and what happens *)
(* after the finding is committed.  The worker runs one triage at a time;  *)
(* operators capture verdicts meanwhile, alerts resolve, and the process   *)
(* may stop anywhere.                                                      *)
(*                                                                         *)
(* Incidents of one group key are numbered in the order they were created. *)
(* Confidence is 0, 1 (MaxMetadataOnlyConfidence, the cap) or 2.  A round  *)
(* keeps one outcome per class of query: prom (up_ratio), host (the Zabbix *)
(* floor), own (incidents_in_window), probe and widen (the operator's),    *)
(* model; failed, degraded and invalid queries are "missing".              *)
(***************************************************************************)
EXTENDS Integers, Sequences

CONSTANTS
  Incidents,      \* 1 .. n, in creation order
  Drills,         \* the Incidents whose alerts carry the drill marker
  Verification,   \* Verification.Enabled
  HasPromQL,      \* Prometheus is configured
  HasZabbix,      \* Zabbix is configured
  MaxVerdicts     \* bound: verdicts captured

VARIABLES
  status,     \* incidents.status
  judged,     \* the Incidents with a finding (output_json)
  marks,      \* memory_refute_marks
  verdicts,   \* incident_verdicts in capture order
  run         \* the triage in progress

vars == <<status, judged, marks, verdicts, run>>

Cap == 1
demotionThreshold == 2

NoRun == [pc |-> "idle", inc |-> 0, rule |-> FALSE, live |-> FALSE, seen |-> "nothing", strong |-> 0,
          governing |-> 0, draft |-> 0, confidence |-> 0, memory |-> "silent", rejudged |-> FALSE,
          observed |-> FALSE, gap |-> FALSE, floor |-> FALSE, tested |-> FALSE, verified |-> FALSE]

Init ==
  /\ status = [i \in Incidents |-> "none"]
  /\ judged = {}
  /\ marks = [i \in Incidents |-> 0]
  /\ verdicts = <<>>
  /\ run = NoRun

SameSide(i, j) == i \in Drills <=> j \in Drills
CorrectedByOperator(j) == \E n \in DOMAIN verdicts : verdicts[n].inc = j /\ verdicts[n].kind = "correction"
-----------------------------------------------------------------------------
(* What happens around a triage.                                           *)

\* Correlation closes the window of a new Incident of the group.
Open(i) ==
  /\ status[i] = "none" /\ \A j \in 1 .. i - 1 : status[j] # "none"
  /\ status' = [status EXCEPT ![i] = "ready"]
  /\ UNCHANGED <<judged, marks, verdicts, run>>

\* Every member alert resolved: the Incident is resolved, judged or not.
Resolve(i) ==
  /\ status[i] \in {"ready", "analyzed"}
  /\ status' = [status EXCEPT ![i] = "resolved"]
  /\ UNCHANGED <<judged, marks, verdicts, run>>

\* A firing delivery of a resolved Incident reopens it.
Reopen(i) ==
  /\ status[i] = "resolved"
  /\ status' = [status EXCEPT ![i] = "analyzed"]
  /\ UNCHANGED <<judged, marks, verdicts, run>>

\* CaptureEngine.CaptureVerdict: a correction also lifts the marks to the threshold.
CaptureVerdict(i, kind, series) ==
  /\ i \in judged /\ Len(verdicts) < MaxVerdicts
  /\ verdicts' = Append(verdicts, [inc |-> i, kind |-> kind, series |-> series])
  /\ marks' = IF kind = "correction" /\ marks[i] < demotionThreshold
              THEN [marks EXCEPT ![i] = demotionThreshold] ELSE marks
  /\ UNCHANGED <<status, judged, run>>
-----------------------------------------------------------------------------
(* The evidence: what each source's answers make of it.                    *)

Replies(configured) == IF configured THEN {"data", "error", "timeout"} ELSE {}

\* FetchMetrics: a series outranks an outage, an outage a timeout.
FetchMetrics(answers) ==
  IF "data" \in answers THEN "fetched" ELSE IF "error" \in answers THEN "failed"
  ELSE IF "timeout" \in answers THEN "degraded" ELSE "empty"

\* FetchZabbixContext: one class that failed or was late spoils the context.
FetchZabbixContext(answers) ==
  IF "error" \in answers THEN "failed" ELSE IF "timeout" \in answers THEN "degraded"
  ELSE IF "data" \in answers THEN "fetched" ELSE "empty"

\* FetchLogs, FetchSentry: lines or issues, or else (nothing there, no selector, no answer) none.
FetchOne(data) == IF data THEN "fetched" ELSE "empty"

\* Faulty: announced changes count as evidence for every Incident.
FetchAllChanges(i, changes) == IF changes = {} THEN "empty" ELSE "fetched"

\* FetchChanges: the changes a drill announced are evidence for drills only.
FetchChanges(i, changes) ==
  IF (IF i \in Drills THEN changes ELSE changes \ {"drill"}) = {} THEN "empty" ELSE "fetched"

\* hasLiveEvidence, or metrics that were only slow.
LiveBasis(metrics, zabbix, logs, changes, sentry) ==
  "fetched" \in {metrics, zabbix, logs, changes, sentry} \/ metrics = "degraded"

\* Claim and gather.  "seen" notes what the sources really held, "verified" the setting the
\* triage runs under.
Gather(i) ==
  /\ run.pc = "idle" /\ status[i] = "ready"
  /\ status' = [status EXCEPT ![i] = "processing"]
  /\ \E metrics \in SUBSET Replies(HasPromQL), zabbix \in SUBSET Replies(HasZabbix),
        logs, sentry \in BOOLEAN, changes \in SUBSET {"real", "drill"} :
       LET real == \/ "data" \in metrics \/ logs \/ sentry \/ "real" \in changes
                   \/ i \in Drills /\ changes # {}
                   \/ "data" \in zabbix /\ zabbix \cap {"error", "timeout"} = {}
       IN run' = [NoRun EXCEPT
                    !.pc = "gathered", !.inc = i, !.verified = Verification,
                    !.live = LiveBasis(FetchMetrics(metrics), FetchZabbixContext(zabbix), FetchOne(logs),
                                       FetchChanges(i, changes), FetchOne(sentry)),
                    !.seen = IF real THEN "data"
                             ELSE IF "timeout" \in metrics /\ "error" \notin metrics THEN "slow" ELSE "nothing"]
  /\ UNCHANGED <<judged, marks, verdicts>>

\* A rule short-circuits: its own answer, no evidence, no recall, no second call.
ShortCircuit(i) ==
  /\ run.pc = "idle" /\ status[i] = "ready"
  /\ status' = [status EXCEPT ![i] = "processing"]
  /\ run' = [NoRun EXCEPT !.pc = "ready", !.inc = i, !.rule = TRUE, !.confidence = 2]
  /\ UNCHANGED <<judged, marks, verdicts>>
-----------------------------------------------------------------------------
(* The recall.                                                             *)

\* MemoryView: the Incidents of the group that are analyzed or resolved, this one aside.
Candidates(i) == {j \in Incidents \ {i} : status[j] \in {"analyzed", "resolved"} /\ SameSide(i, j)}

\* Faulty: only the marks count, which a later "confirms" clears.
LeadsByMarks(j) == marks[j] < demotionThreshold

\* A prior that may lead: neither corrected by an operator nor refuted twice.
Leads(j) == ~CorrectedByOperator(j) /\ marks[j] < demotionThreshold

Newest(js) == IF js = {} THEN 0 ELSE CHOOSE j \in js : \A k \in js : k <= j

\* GoverningVerdict: the newest verdict of the group on the Incident's side.
Governing(i) == Newest({n \in DOMAIN verdicts : SameSide(i, verdicts[n].inc)})

\* FetchMemory: a recall that cannot be read is no recall, and never stops the triage.
FetchMemory ==
  /\ run.pc = "gathered"
  /\ \E view, verdict \in BOOLEAN :
       run' = [run EXCEPT !.pc = "recalled",
                          !.strong = IF view THEN Newest({j \in Candidates(run.inc) : Leads(j)}) ELSE 0,
                          !.governing = IF view /\ verdict THEN Governing(run.inc) ELSE 0]
  /\ UNCHANGED <<status, judged, marks, verdicts>>

Steers(n) == n # 0 /\ verdicts[n].kind = "correction"
-----------------------------------------------------------------------------
(* The two calls.                                                          *)

clampConfidence(c) == IF c < 0 THEN 0 ELSE IF c > 2 THEN 2 ELSE c

\* A memory verdict is about the strong entry; without one it says nothing.
MemoryVerdicts == IF run.strong = 0 THEN {"silent"} ELSE {"confirms", "refutes", "silent"}
Answers == {-1, Cap, 3}

\* The draft: call 1 answers.
Draft ==
  /\ run.pc = "recalled"
  /\ \E c \in Answers, memory \in MemoryVerdicts :
       run' = [run EXCEPT !.pc = "drafted", !.draft = clampConfidence(c), !.confidence = clampConfidence(c),
                          !.memory = memory]
  /\ UNCHANGED <<status, judged, marks, verdicts>>

\* The Incident can be claimed again.
Dropped ==
  /\ status' = [status EXCEPT ![run.inc] = "ready"]
  /\ run' = NoRun
  /\ UNCHANGED <<judged, marks, verdicts>>

\* Call 1 fails, or its answer is malformed: the attempt fails.
DraftFails == run.pc = "recalled" /\ Dropped

\* The queries of a round and the outcomes each may have.  The operator's are asked
\* whatever is configured; the model's PromQL is dropped without Prometheus, and what its
\* one repair does not fix is missing.  An empty answer counts in the floor and the probe.
Outcomes == {"fetched", "empty", "missing"}
Asked(n) ==
  LET steers == Steers(n)
      promql == IF HasPromQL THEN Outcomes ELSE {"missing"}
  IN [prom  |-> IF HasPromQL THEN Outcomes ELSE {"none"},
      host  |-> IF HasZabbix THEN Outcomes \cup {"none"} ELSE {"none"},
      own   |-> {"fetched", "missing"},
      probe |-> IF steers /\ verdicts[n].series THEN promql ELSE {"none"},
      widen |-> IF steers THEN (promql \ {"empty"}) \cup {"none"} ELSE {"none"},
      model |-> IF HasPromQL THEN {"none", "fetched", "missing"} ELSE {"none"}]

Rounds(n) ==
  [prom : Asked(n).prom, host : Asked(n).host, own : Asked(n).own, probe : Asked(n).probe,
   widen : Asked(n).widen, model : Asked(n).model]

RealFloor == {"prom", "host"}

\* floorFetched: the whole floor answered, and some of it looked outside.
floorFetched(r) ==
  /\ \A q \in RealFloor \cup {"own"} : r[q] # "missing"
  /\ \E q \in RealFloor : r[q] # "none"

\* anyUnfetched: a query is missing, or the floor looked nowhere outside.
anyUnfetched(r) ==
  \/ \E q \in DOMAIN r : r[q] = "missing"
  \/ \A q \in RealFloor : r[q] = "none"

\* verificationLive: a query other than the own-state check fetched something.
verificationLive(r) == \E q \in DOMAIN r \ {"own"} : r[q] = "fetched"

\* operatorEvidenceFetched: a probe of the corrected cause fetched.
Backed(r) == r.probe = "fetched"

\* applyEvidenceCap, applySteeringCap.
Capped(c, live, n, ruled) ==
  IF c > Cap /\ (~live \/ (Steers(n) /\ ~ruled)) THEN Cap ELSE c

\* What the round held, noted for the properties.
Grounds(r) ==
  [run EXCEPT !.pc = "ready",
              !.observed = \E q \in {"prom", "host", "probe", "widen", "model"} : r[q] = "fetched",
              !.gap = "missing" \in {r[q] : q \in DOMAIN r} \/ {r.prom, r.host} = {"none"},
              !.floor = {r.prom, r.host} # {"none"} /\ "missing" \notin {r.prom, r.host, r.own},
              !.tested = r.probe = "fetched"]

\* Verification is off: the draft ships.
ShipDraft ==
  /\ ~Verification /\ run.pc = "drafted"
  /\ run' = [run EXCEPT !.pc = "ready", !.confidence = Capped(@, run.live, run.governing, FALSE)]
  /\ UNCHANGED <<status, judged, marks, verdicts>>

\* verifyAndRejudge: the round runs and call 2 answers.
Rejudge ==
  /\ Verification /\ run.pc = "drafted"
  /\ \E r \in Rounds(run.governing), c \in Answers, memory \in MemoryVerdicts,
        ruling \in {"ruled", "unruled"} :   \* supported or contradicted; unverifiable or absent
       LET held == IF anyUnfetched(r) /\ clampConfidence(c) > run.draft THEN run.draft ELSE clampConfidence(c)
           ruled == ruling = "ruled" /\ Backed(r)
       IN /\ ruling = "ruled" => Steers(run.governing)
          /\ run' = [Grounds(r) EXCEPT
                       !.rejudged = TRUE,
                       !.confidence = Capped(held, run.live \/ verificationLive(r), run.governing, ruled),
                       !.tested = @ /\ ruling = "ruled",
                       !.memory = IF floorFetched(r) THEN memory ELSE "silent"]
  /\ UNCHANGED <<status, judged, marks, verdicts>>

\* Faulty: the draft keeps it.
wholeDraft(r) ==
  [Grounds(r) EXCEPT !.confidence = Capped(run.draft, run.live \/ verificationLive(r), run.governing, FALSE),
                     !.tested = FALSE]

\* degradedDraft: call 2 fails or its answer is malformed, and the draft ships without its
\* memory verdict.
degradedDraft(r) ==
  [Grounds(r) EXCEPT !.confidence = Capped(run.draft, run.live \/ verificationLive(r), run.governing, FALSE),
                     !.tested = FALSE, !.memory = "silent"]

RejudgeFails ==
  /\ Verification /\ run.pc = "drafted"
  /\ \E r \in Rounds(run.governing) : run' = degradedDraft(r)
  /\ UNCHANGED <<status, judged, marks, verdicts>>
-----------------------------------------------------------------------------
(* The commit and what follows it.                                         *)

\* CompleteIncidentTriageAttempt promotes the finding.
Commit ==
  /\ run.pc = "ready"
  /\ status' = [status EXCEPT ![run.inc] = "analyzed"]
  /\ judged' = judged \cup {run.inc}
  /\ run' = [NoRun EXCEPT !.pc = "committed", !.inc = run.inc, !.strong = run.strong, !.memory = run.memory,
                          !.rejudged = run.rejudged, !.floor = run.floor, !.verified = run.verified]
  /\ UNCHANGED <<marks, verdicts>>

\* The membership changed, the lease was lost or the write failed: nothing is promoted.
Discard == run.pc = "ready" /\ Dropped

\* deriveMemoryUpdates, applied by AfterCommit.
Marked ==
  IF run.strong = 0 THEN marks
  ELSE [marks EXCEPT ![run.strong] = CASE run.memory = "refutes"  -> @ + 1
                                       [] run.memory = "confirms" -> 0
                                       [] OTHER -> @]

\* AfterCommit: each effect is best effort, and none is repeated.
AfterCommit ==
  /\ run.pc = "committed"
  /\ marks' \in {marks, Marked}
  /\ run' = NoRun
  /\ UNCHANGED <<status, judged, verdicts>>

\* The process stops; recovery releases what was claimed.
Crash ==
  /\ run.pc # "idle"
  /\ status' = [i \in Incidents |-> IF status[i] = "processing" THEN "ready" ELSE status[i]]
  /\ run' = NoRun
  /\ UNCHANGED <<judged, marks, verdicts>>

Next ==
  \/ \E i \in Incidents : Open(i) \/ Resolve(i) \/ Reopen(i) \/ Gather(i) \/ ShortCircuit(i)
  \/ \E i \in Incidents, kind \in {"correction", "confirmation"}, series \in BOOLEAN : CaptureVerdict(i, kind, series)
  \/ FetchMemory \/ Draft \/ DraftFails \/ ShipDraft \/ Rejudge \/ RejudgeFails
  \/ Commit \/ Discard \/ AfterCommit \/ Crash

Spec == Init /\ [][Next]_vars
-----------------------------------------------------------------------------
(* Properties.                                                             *)

\* A finding that is about to ship says more than the cap only on grounds: a rule, or an
\* observation outside AlertInt (or metrics that were merely slow), and then, while an operator's
\* correction steers, only if its cause was looked at and ruled on; and a second call that
\* missed evidence never raised the draft (applyEvidenceCap, applySteeringCap, anyUnfetched).
ConfidenceIsEarned ==
  run.pc = "ready" =>
    /\ run.confidence > Cap => \/ run.rule
                               \/ /\ run.seen # "nothing" \/ run.observed
                                  /\ Steers(run.governing) => run.tested
    /\ run.gap => run.confidence <= run.draft

\* The marks of a finding move only with grounds: by the correction of an operator, or
\* after the commit of a later finding that recalled it and, where findings are verified,
\* was judged again over a floor that answered (R16, degradedDraft, AfterCommit).
MarkMove ==
  \A j \in DOMAIN marks : marks'[j] # marks[j] =>
    \/ /\ marks'[j] = demotionThreshold /\ Len(verdicts') > Len(verdicts)
       /\ verdicts'[Len(verdicts')].inc = j /\ verdicts'[Len(verdicts')].kind = "correction"
    \/ /\ run.pc = "committed" /\ run.strong = j /\ run.inc \in judged
       /\ run.verified => run.rejudged /\ run.floor
MarksMoveOnGrounds == [][MarkMove]_vars

\* A finding an operator has corrected never leads a recall again, though a triage that
\* recalled it before may still clear its marks (FetchMemory, D4).
CorrectedStaysBehind == (run.pc = "gathered" /\ run'.strong # 0) => ~CorrectedByOperator(run'.strong)
CorrectedNeverLeads == [][CorrectedStaysBehind]_vars

=============================================================================
