----------------------------- MODULE MCDecisions -----------------------------
(***************************************************************************)
(* What operators and triage decide about an Incident or a Situation, on   *)
(* small instances.  An operator's judgment while alerts, impact and       *)
(* definition change; an envelope with a companion through its validation; *)
(* an envelope without one while a critical alert comes and goes; the      *)
(* schedule of an envelope, for every small schedule, alert and zone.      *)
(* Triage of two Incidents over Prometheus; of an Incident and a drill     *)
(* over Zabbix alone; of three Incidents without verification; and two     *)
(* requests to the capture engine during shutdown.  What the controller    *)
(* concludes about a Situation of one Alert, over two work attempts (the   *)
(* constants of the configuration).                                        *)
(* What its thread is told: limitations that come and go behind a slow     *)
(* channel, and escalations beside operator artifacts under a high floor.  *)
(* What its phone is told, while the sink is reconfigured; and what the    *)
(* audit log still vouches for while it is pruned.                         *)
(* A behaviour is one of these parts; the others stand still.              *)
(***************************************************************************)
EXTENDS Decisions

VARIABLES
  part,
  last, seq, root, owed, heard, said, loaded, artifacts, commits

historyVars == <<last, seq, root, owed, heard, said, loaded, artifacts, commits>>
all == <<part, authorityVars, scheduleVars, skillVars, captureVars, vars, historyVars, pushVars, auditVars>>

\* The configuration's constants are those of an operator's judgment, of triage over
\* Prometheus, and of the parts with one instance; these are the other instances.
Accompanied == INSTANCE OperatorAuthority WITH
  Symptoms <- {"x"}, Critical <- {}, Impacts <- {1}, Definitions <- {1, 2},
  Envelopes <- {TRUE}, MaxTime <- 1, MaxWrites <- 3, MaxInputs <- 0, MaxCycles <- 2

Bare == INSTANCE OperatorAuthority WITH
  Symptoms <- {"x", "y"}, Critical <- {"y"}, Impacts <- {1}, Definitions <- {1},
  Envelopes <- {FALSE}, MaxTime <- 1, MaxWrites <- 2, MaxInputs <- 1, MaxCycles <- 2

Drilled == INSTANCE TriageSkill WITH
  Incidents <- 1 .. 2, Drills <- {2}, Verification <- TRUE, HasPromQL <- FALSE, HasZabbix <- TRUE, MaxVerdicts <- 1

Unverified == INSTANCE TriageSkill WITH
  Incidents <- 1 .. 3, Drills <- {}, Verification <- FALSE, HasPromQL <- TRUE, HasZabbix <- FALSE, MaxVerdicts <- 1

\* A clock put back, never changed, put forward, and by more than a time is moved on.
ClockChanges == {-1, 0, 1, 2}

\* Comparable Situations lasted ten minutes each.
TenMinutes == <<10, 10, 10, 10, 10>>

Limited == INSTANCE SituationHistory WITH
  Lives <- {"active", "recovery_pending", "recovered"}, Attentions <- {"investigate"},
  Actions <- {FALSE}, Parks <- BOOLEAN, Unavailable <- 0 .. 2, Works <- {"collecting", "started"},
  Edges <- [members : {"same"}, finding : BOOLEAN, judged : {FALSE}],
  Floor <- 1, MaxArtifacts <- 0, MaxCommits <- 3

Escalated == INSTANCE SituationHistory WITH
  Lives <- {"active", "recovery_pending", "closed_unknown"}, Attentions <- {"observe", "urgent", "critical"},
  Actions <- BOOLEAN, Parks <- {FALSE}, Unavailable <- {0}, Works <- {"started"},
  Edges <- [members : {"same", "more", "fewer"}, finding : {FALSE}, judged : BOOLEAN],
  Floor <- 3, MaxArtifacts <- 1, MaxCommits <- 3

\* Transitions a commit may append: a Situation opens, asks the operator, revises what it
\* asks beside an operator's artifact, and recovers.
Told(reason, priority, action, limits, kinds) ==
  [reason |-> reason, terminal |-> reason = "recovered", priority |-> priority, warranted |-> TRUE,
   action |-> action, limits |-> limits, started |-> reason # "opened", told |-> kinds, at |-> 0]

Pushed == {
  <<Told("opened", 2, 0, {}, {})>>,
  <<Told("operator_artifact_recorded", 3, 1, {"metrics"}, {}),
    Told("action_changed", 3, 1, {"metrics"}, {"useful_finding"})>>,
  <<Told("action_changed", 3, 2, {}, {"human_request_changed"})>>,
  <<Told("recovered", 1, 0, {}, {})>>}

\* Two topics, the second with one event less, and the sink switched off.
Sinks == {
  [enabled |-> TRUE, topic |-> "a", muted |-> {}],
  [enabled |-> TRUE, topic |-> "b", muted |-> {"operator_updated"}],
  [enabled |-> FALSE, topic |-> "none", muted |-> {}]}

AllInit ==
  /\ part \in {"judged", "accompanied", "bare", "schedule", "measured", "drilled", "unverified",
               "capture", "assessed", "limited", "escalated", "pushed", "audited"}
  /\ IF part \in {"judged", "bare"} THEN Bare!Init ELSE Accompanied!Init
  /\ IF part = "schedule" THEN Schedule!Init
     ELSE zone = 0 /\ schedule = 0 /\ started = 0 /\ occurrence = Schedule!NotResolved
  /\ IF part = "unverified" THEN Unverified!Init ELSE Skill!Init
  /\ Capture!Init
  /\ Init /\ (part # "assessed" => alerts["x"].severity = "warning")
  /\ Limited!Init
  /\ Push!Init
  /\ Audit!Init

Decides ==
  \/ /\ \/ part = "judged" /\ Authority!Next
        \/ part = "accompanied" /\ Accompanied!Next
        \/ part = "bare" /\ Bare!Next
     /\ UNCHANGED <<scheduleVars, skillVars, captureVars, vars, historyVars>>
  \/ /\ part = "schedule" /\ Schedule!Next
     /\ UNCHANGED <<authorityVars, skillVars, captureVars, vars, historyVars>>
  \/ /\ \/ part = "measured" /\ Skill!Next
        \/ part = "drilled" /\ Drilled!Next
        \/ part = "unverified" /\ Unverified!Next
     /\ UNCHANGED <<authorityVars, scheduleVars, captureVars, vars, historyVars>>
  \/ /\ part = "capture" /\ Capture!Next
     /\ UNCHANGED <<authorityVars, scheduleVars, skillVars, vars, historyVars>>
  \/ /\ part = "assessed" /\ Next
     /\ UNCHANGED <<authorityVars, scheduleVars, skillVars, captureVars, historyVars>>
  \/ /\ \/ part = "limited" /\ Limited!Next
        \/ part = "escalated" /\ Escalated!Next
     /\ UNCHANGED <<authorityVars, scheduleVars, skillVars, captureVars, vars>>

Tells ==
  /\ \/ part = "pushed" /\ Push!Next /\ UNCHANGED auditVars
     \/ part = "audited" /\ Audit!Next /\ UNCHANGED pushVars
  /\ UNCHANGED <<authorityVars, scheduleVars, skillVars, captureVars, vars, historyVars>>

AllNext ==
  /\ UNCHANGED part
  /\ \/ Decides /\ UNCHANGED <<pushVars, auditVars>>
     \/ Tells

AllSpec == AllInit /\ [][AllNext]_all

-----------------------------------------------------------------------------
\* SituationHistory: what the thread was told, or will be, is what holds (ReplyEligible,
\* foldLimitationsAndAction, supersedeObsoleteAssuranceTx).
ToldIsTrue == Limited!ToldIsTrue

\* SituationHistory: an escalation of a published Situation pokes exactly once, whatever
\* else its commit journals (ClassifyPoke, selectPoke).
EscalationPokes == [][Escalated!EscalationPokes]_historyVars
=============================================================================
