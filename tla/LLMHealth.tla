----------------------------- MODULE LLMHealth -----------------------------
(***************************************************************************)
(* The tracker of LLM dependency health and its runner (internal/llmhealth,*)
(* internal/store/llmhealth.go): observations of real calls and of idle    *)
(* probes, the rolled-up state, and the one system message on Slack that   *)
(* an outage gets, edited as the outage changes and when it ends.          *)
(*                                                                         *)
(* Producers (Begin, Finish) run concurrently with the single goroutine of *)
(* the runner.  A Slack call is made outside the tracker's lock, so the    *)
(* state may move while it is out.  The tracker keeps its state in memory  *)
(* and saves it after each change; a save may fail, and a crash goes back  *)
(* to what was saved.  Time only decides when a step is due: broadcastAfter*)
(* is the flag sustained, every other delay is left to the scheduler.      *)
(***************************************************************************)
EXTENDS Naturals, Sequences, FiniteSets, SequencesExt

CONSTANTS
  Critical,     \* capabilities whose failure makes the LLM unavailable
  Advisory,     \* capabilities whose failure only degrades it
  Subjects,     \* what a call is about: Incidents, Situations
  MaxOutages,   \* bound on outages
  MaxCalls,     \* bound on calls in flight
  MaxFaults,    \* bound on saves that fail and answers that are lost
  MaxCrashes    \* bound on crashes and shutdowns

VARIABLES
  rec,        \* the aggregate row, in memory
  caps,       \* capability -> its verdict and its content failures
  saved,      \* the durable copy of both
  sustained,  \* broadcastAfter has passed since the outage began
  calls,      \* observations begun and not finished
  raced,      \* activityGen # probeReservedGen, while a probe is out
  runner,     \* what the runner's goroutine is doing
  plan,       \* the Slack call that is out
  sealed,     \* Seal was called
  slack,      \* the system messages on Slack
  overlap,    \* history: a call began or ended during this probe
  lost,       \* history: messages whose coordinates were never learned
  overtaken,  \* history: messages whose recovery edit a new outage overtook
  faults, crashes

vars == <<rec, caps, saved, sustained, calls, raced, runner, plan, sealed,
          slack, overlap, lost, overtaken, faults, crashes>>

Shared == Critical \cup Advisory
Caps == Shared \cup {"probe"}
NoRoot == 0

CapOk == [verdict |-> "ok", subjects |-> {}]
NoPlan == [op |-> "none", outage |-> 0, gen |-> 0, state |-> "healthy", root |-> NoRoot,
           closed |-> FALSE, answer |-> "none"]

Init ==
  /\ rec = [state |-> "healthy", outage |-> 0, fence |-> 0, delivery |-> "none",
            root |-> NoRoot, shown |-> "healthy", late |-> <<>>]
  /\ caps = [c \in Caps |-> CapOk]
  /\ saved = [rec |-> rec, caps |-> caps]
  /\ sustained = FALSE
  /\ calls = {}
  /\ raced = FALSE
  /\ runner = "idle"
  /\ plan = NoPlan
  /\ sealed = FALSE
  /\ slack = <<>>
  /\ overlap = FALSE
  /\ lost = {}
  /\ overtaken = {}
  /\ faults = 0
  /\ crashes = 0

----------------------------------------------------------------------------
\* persist: the change stands in memory whether or not the save succeeds.
Persist(r, c) ==
  /\ rec' = r
  /\ caps' = c
  /\ \/ saved' = [rec |-> r, caps |-> c] /\ UNCHANGED faults
     \/ faults < MaxFaults /\ faults' = faults + 1 /\ UNCHANGED saved

\* aggregate: the first unhealthy capability decides.
Aggregate(c) ==
  IF \E x \in Critical \cup {"probe"} : c[x].verdict # "ok" THEN "unavailable"
  ELSE IF \E x \in Advisory : c[x].verdict # "ok" THEN "degraded"
  ELSE "healthy"

\* Faulty: an outage numbers its Slack fence like itself, and the end of an outage moves only the fence.
OutageBeginsCopies(r, state) ==
  [r EXCEPT !.state = state, !.outage = @ + 1, !.fence = r.outage + 1, !.delivery = "none",
            !.root = NoRoot, !.shown = "healthy"]

OutageBegins(r, state) ==
  [r EXCEPT !.state = state, !.outage = @ + 1, !.fence = @ + 1, !.delivery = "none",
            !.root = NoRoot, !.shown = "healthy"]

OutageEnds(r) ==
  [r EXCEPT !.state = "healthy", !.fence = @ + 1,
            !.delivery = CASE @ = "delivered" -> "recovery_pending"
                           [] @ \in {"none", "pending", "indeterminate"} -> "suppressed"
                           [] OTHER -> @]

\* recompute: the aggregate moves, an outage begins, ends or changes its kind.
Recompute(r, c) ==
  LET state == Aggregate(c)
  IN  IF state = r.state THEN r
      ELSE IF r.state = "healthy" THEN OutageBegins(r, state)
      ELSE IF state = "healthy" THEN OutageEnds(r)
      ELSE [r EXCEPT !.state = state]

\* recomputeAndPersist, with what it does to the call that is out.
Observe(c) ==
  LET r == Recompute(rec, c)
  IN  /\ r.outage <= MaxOutages
      /\ Persist(r, c)
      /\ sustained' = (sustained /\ r.outage = rec.outage)
      /\ plan' = IF plan.op = "post" /\ plan.gen = rec.fence /\ r.state = "healthy"
                 THEN [plan EXCEPT !.closed = TRUE] ELSE plan
      /\ overtaken' = overtaken \cup
           {m \in {rec.root} \ {NoRoot} : r.outage > rec.outage /\ rec.delivery = "recovery_pending"}

----------------------------------------------------------------------------
\* The producers: one observation per call of a model.

\* Begin.  Once sealed an observation is done before it starts.
Begin(c, s) ==
  /\ ~sealed
  /\ Cardinality(calls) < MaxCalls
  /\ <<c, s>> \notin calls
  /\ calls' = calls \cup {<<c, s>>}
  /\ raced' = (runner = "probing")
  /\ overlap' = (runner = "probing")
  /\ UNCHANGED <<rec, caps, saved, sustained, runner, plan, sealed, slack, lost,
                 overtaken, faults, crashes>>

\* finish with ClassIgnored, or after Seal: nothing is observed.
FinishIgnored(c, s) ==
  /\ <<c, s>> \in calls
  /\ calls' = calls \ {<<c, s>>}
  /\ UNCHANGED <<rec, caps, saved, sustained, raced, runner, plan, sealed, slack,
                 overlap, lost, overtaken, faults, crashes>>

\* markCapabilityHealthy, then clearSharedDependencyFailures.
Succeeded(c) ==
  [x \in Caps |-> IF x = c THEN CapOk
                  ELSE IF caps[x].verdict = "dependency" THEN [caps[x] EXCEPT !.verdict = "ok"]
                  ELSE caps[x]]

\* recordContentFailure: two subjects since the last success make it unhealthy.
ContentFailed(c, s) ==
  LET subjects == caps[c].subjects \cup {s}
  IN  [caps EXCEPT ![c] = [verdict |-> IF @.verdict = "ok" /\ Cardinality(subjects) >= 2
                                       THEN "content" ELSE @.verdict,
                           subjects |-> subjects]]

\* finish.
Finish(c, s) ==
  /\ <<c, s>> \in calls
  /\ ~sealed
  /\ calls' = calls \ {<<c, s>>}
  /\ raced' = (runner = "probing")
  /\ overlap' = (runner = "probing")
  /\ \/ Observe(Succeeded(c))
     \/ Observe([caps EXCEPT ![c].verdict = "dependency"])
     \/ Observe(ContentFailed(c, s))
  /\ UNCHANGED <<runner, sealed, slack, lost, crashes>>

\* The clock: the outage has lasted broadcastAfter.
Sustain ==
  /\ rec.state # "healthy"
  /\ ~sustained
  /\ sustained' = TRUE
  /\ UNCHANGED <<rec, caps, saved, calls, raced, runner, plan, sealed, slack, overlap,
                 lost, overtaken, faults, crashes>>

----------------------------------------------------------------------------
\* The runner.

PostDue == rec.state # "healthy" /\ rec.delivery \in {"none", "pending"} /\ sustained
EditDue == rec.state # "healthy" /\ rec.delivery = "delivered" /\ rec.shown # rec.state
RecoveryDue == rec.state = "healthy" /\ rec.delivery = "recovery_pending"

Send(op) == plan' = [op |-> op, outage |-> rec.outage, gen |-> rec.fence,
                     state |-> rec.state, root |-> rec.root, closed |-> FALSE, answer |-> "none"]

\* Faulty: the marker is not saved ahead of the request.
PlanPostUnmarked ==
  /\ PostDue
  /\ rec' = [rec EXCEPT !.delivery = "indeterminate"]
  /\ Send("post")
  /\ UNCHANGED <<caps, saved, faults>>

\* planDelivery, a new message: the marker is saved before the request leaves.
PlanPost ==
  /\ PostDue
  /\ rec' = [rec EXCEPT !.delivery = "indeterminate"]
  /\ saved' = [rec |-> rec', caps |-> caps]
  /\ Send("post")
  /\ UNCHANGED <<caps, faults>>

\* planDelivery when the marker cannot be saved: nothing is sent.
PlanPostFails ==
  /\ PostDue
  /\ faults < MaxFaults
  /\ faults' = faults + 1
  /\ UNCHANGED <<rec, caps, saved, plan>>

\* planDelivery, an edit of the message on record.
PlanEdit ==
  /\ \/ EditDue /\ Send("edit")
     \/ RecoveryDue /\ Send("recover")
  /\ UNCHANGED <<rec, caps, saved, faults>>

PlanNothing == ~(PostDue \/ EditDue \/ RecoveryDue) /\ UNCHANGED <<rec, caps, saved, plan, faults>>

\* What follows the outage's own call: late roots, then the probe of an ordinary step.
AfterEdits == IF sealed THEN "done" ELSE "probe"
AfterCall == IF rec'.late = <<>> THEN AfterEdits ELSE "late"

\* Step and finalDeliver begin with Deliver.
Deliver ==
  /\ runner = "idle"
  /\ PlanPost \/ PlanPostFails \/ PlanEdit \/ PlanNothing
  /\ runner' = IF plan'.op = "none" THEN AfterCall ELSE "out"
  /\ UNCHANGED <<sustained, calls, raced, sealed, slack, overlap, lost, overtaken, crashes>>

\* Slack takes the call and answers, takes it and is not heard, or refuses it.
Shows(p) == IF p.op = "recover" THEN "recovered" ELSE p.state
Accepted(p) == IF p.op = "post" THEN Append(slack, [outage |-> p.outage, shows |-> p.state])
               ELSE [slack EXCEPT ![p.root].shows = Shows(p)]
Posted(p) == IF p.op = "post" THEN Len(slack) + 1 ELSE p.root

SlackLands ==
  /\ runner = "out" /\ plan.answer = "none"
  /\ slack' = Accepted(plan)
  /\ plan' = [plan EXCEPT !.answer = "ok", !.root = Posted(plan)]
  /\ UNCHANGED <<lost, faults>>

SlackUnheard ==
  /\ runner = "out" /\ plan.answer = "none"
  /\ faults < MaxFaults
  /\ faults' = faults + 1
  /\ \/ slack' = slack /\ UNCHANGED lost
     \/ slack' = Accepted(plan) /\ lost' = IF plan.op = "post" THEN lost \cup {Posted(plan)} ELSE lost
  /\ plan' = [plan EXCEPT !.answer = "unknown"]

SlackRefuses ==
  /\ runner = "out" /\ plan.answer = "none"
  /\ faults < MaxFaults
  /\ faults' = faults + 1
  /\ plan' = [plan EXCEPT !.answer = "refused"]
  /\ UNCHANGED <<slack, lost>>

SlackAnswers ==
  /\ SlackLands \/ SlackUnheard \/ SlackRefuses
  /\ UNCHANGED <<rec, caps, saved, sustained, calls, raced, runner, sealed, overlap,
                 overtaken, crashes>>

\* adoptStaleRoot: a message that landed after its outage ended is still closed.
AdoptStaleRoot(r, p) ==
  IF r.fence = p.gen + 1 /\ r.state = "healthy" /\ r.delivery = "suppressed"
  THEN [r EXCEPT !.root = p.root, !.shown = p.state, !.delivery = "recovery_pending"]
  ELSE [r EXCEPT !.late = Append(@, p.root)]

\* applyDeliveryResult: the answer as it bears on the current outage.
Applied(r, p) ==
  IF p.gen # r.fence
  THEN IF p.op = "post" /\ p.answer = "ok" /\ p.closed THEN AdoptStaleRoot(r, p) ELSE r
  ELSE CASE p.op = "post" /\ p.answer = "ok" ->
              [r EXCEPT !.delivery = "delivered", !.root = p.root, !.shown = p.state]
         [] p.op = "post" /\ p.answer = "refused" -> [r EXCEPT !.delivery = "pending"]
         [] p.op = "edit" /\ p.answer = "ok" -> [r EXCEPT !.shown = p.state]
         [] p.op = "recover" /\ p.answer = "ok" -> [r EXCEPT !.delivery = "recovered"]
         [] OTHER -> r

ApplyDeliveryResult ==
  /\ runner = "out" /\ plan.answer # "none"
  /\ Persist(Applied(rec, plan), caps)
  /\ plan' = NoPlan
  /\ runner' = AfterCall
  /\ UNCHANGED <<sustained, calls, raced, sealed, slack, overlap, lost, overtaken, crashes>>

\* The members of S in the order in which s lists them.
InOrder(S, s) ==
  {f \in [1 .. Cardinality(S) -> S] :
     /\ ToSet(f) = S
     /\ \A i, j \in DOMAIN f : i < j => \E a, b \in DOMAIN s : a < b /\ s[a] = f[i] /\ s[b] = f[j]}

\* editLateRoots: what was tried and failed goes behind what was not tried.
EditLateRoots ==
  /\ runner = "late"
  /\ \E tried \in 1..Len(rec.late) : \E landed \in SUBSET ToSet(SubSeq(rec.late, 1, tried)) :
       LET first == SubSeq(rec.late, 1, tried)
       IN  /\ \E failed \in InOrder(ToSet(first) \ landed, first) :
                Persist([rec EXCEPT !.late = SubSeq(rec.late, tried + 1, Len(rec.late)) \o failed], caps)
           /\ slack' = [m \in DOMAIN slack |-> IF m \in landed THEN [slack[m] EXCEPT !.shows = "recovered"]
                                               ELSE slack[m]]
  /\ runner' = AfterEdits
  /\ UNCHANGED <<sustained, calls, raced, plan, sealed, overlap, lost, overtaken, crashes>>

\* Step asks ProbeDue, which reserves the activity it has seen.
ProbeDue ==
  /\ runner = "probe"
  /\ raced' = FALSE
  /\ overlap' = FALSE
  /\ \/ calls = {} /\ runner' = "probing"
     \/ runner' = "idle"      \* a call is out, or it is too early
  /\ UNCHANGED <<rec, caps, saved, sustained, calls, plan, sealed, slack, lost, overtaken,
                 faults, crashes>>

\* ObserveProbe: reachable, unsupported, or failed unless a call overtook the probe.
ObserveProbe ==
  /\ runner = "probing"
  /\ runner' = "idle"
  /\ \/ Observe([caps EXCEPT !["probe"] = CapOk])
     \/ Observe(IF raced THEN caps ELSE [caps EXCEPT !["probe"].verdict = "dependency"])
     \/ Observe(caps)
  /\ raced' = FALSE
  /\ overlap' = FALSE
  /\ UNCHANGED <<calls, sealed, slack, lost, crashes>>

\* Stop, then finalDeliver: observation ends first, then one last pass.
Seal ==
  /\ runner = "idle"
  /\ ~sealed
  /\ crashes < MaxCrashes
  /\ sealed' = TRUE
  /\ UNCHANGED <<rec, caps, saved, sustained, calls, raced, runner, plan, slack, overlap,
                 lost, overtaken, faults, crashes>>

\* New, in the next process: after a shutdown, or after a crash at any moment.
Restart ==
  /\ crashes < MaxCrashes
  /\ crashes' = crashes + 1
  /\ rec' = saved.rec
  /\ caps' = saved.caps
  /\ sustained' = (sustained /\ saved.rec.outage = rec.outage /\ saved.rec.state # "healthy")
  /\ calls' = {}
  /\ raced' = FALSE
  /\ runner' = "idle"
  /\ plan' = NoPlan
  /\ sealed' = FALSE
  /\ overlap' = FALSE
  /\ lost' = lost \cup {m \in DOMAIN slack : /\ slack[m].shows # "recovered"
                                              /\ m # saved.rec.root
                                              /\ m \notin ToSet(saved.rec.late)}
  /\ UNCHANGED <<saved, slack, overtaken, faults>>

----------------------------------------------------------------------------
Runner == Deliver \/ ApplyDeliveryResult \/ EditLateRoots \/ ProbeDue \/ ObserveProbe
Producer == \E c \in Shared, s \in Subjects : Begin(c, s) \/ FinishIgnored(c, s) \/ Finish(c, s)

Next == Producer \/ Sustain \/ Runner \/ SlackAnswers \/ Seal \/ Restart

\* An edit that is tried again and again lands; the runner's loop goes on, also after Seal.
EditsLand == EditLateRoots /\ \A m \in ToSet(rec.late) : slack'[m].shows = "recovered"
Fairness ==
  /\ WF_vars(Runner)
  /\ WF_vars(SlackAnswers)
  /\ WF_vars(Restart /\ runner = "done")
  /\ SF_vars(EditsLand)

Spec == Init /\ [][Next]_vars
FairSpec == Spec /\ Fairness

----------------------------------------------------------------------------
States == {"healthy", "degraded", "unavailable"}
Deliveries == {"none", "pending", "delivered", "recovery_pending", "recovered", "suppressed",
               "indeterminate"}
Tracked(m) == \/ m = rec.root /\ rec.delivery \in {"delivered", "recovery_pending"}
              \/ m \in ToSet(rec.late)
              \/ plan.op = "post" /\ plan.answer = "ok" /\ plan.root = m
Recovered(m) == slack[m].shows = "recovered"

\* The aggregate row, the capabilities and the call that is out keep their shapes,
\* and every coordinate the tracker holds is one of a message on Slack.
TypeOK ==
  /\ rec.state \in States /\ rec.delivery \in Deliveries /\ rec.shown \in States
  /\ rec.outage \in 0..MaxOutages /\ rec.fence \in 0..(2 * MaxOutages)
  /\ {rec.root} \cup ToSet(rec.late) \subseteq {NoRoot} \cup DOMAIN slack
  /\ rec.delivery \in {"delivered", "recovery_pending"} => rec.root # NoRoot
  /\ caps \in [Caps -> [verdict : {"ok", "dependency", "content"}, subjects : SUBSET Subjects]]
  /\ runner \in {"idle", "out", "late", "probe", "probing", "done"}
  /\ (runner = "out") = (plan.op # "none")

\* An outage has one message: not after a lost answer, a failed save or a crash
\* between the request and its answer is it posted a second time (planDelivery's marker).
OneMessagePerOutage ==
  \A m, n \in DOMAIN slack : slack[m].outage = slack[n].outage => m = n

\* The message on record is the current outage's own: an answer that comes back after
\* its outage ended is fenced by the Slack generation (applyDeliveryResult).
MessageIsItsOutages == rec.root # NoRoot => slack[rec.root].outage = rec.outage

\* A message that still shows an outage is on record for an edit, unless Slack's answer
\* to its post was lost or a new outage overtook its recovery edit (recompute clears the
\* coordinates).
OutagesAreTracked ==
  \A m \in DOMAIN slack : Recovered(m) \/ Tracked(m) \/ m \in lost \/ m \in overtaken

\* The outage on Slack is the outage on record: one message for each, the current one
\* its own, and none that is forgotten while it shows an outage.
OutagesAreReported == OneMessagePerOutage /\ MessageIsItsOutages /\ OutagesAreTracked

\* Slack catches up: a finished outage's messages show that it ended, and a lasting one
\* gets its message unless its post had no known outcome.  (What the message of a
\* lasting outage shows may lag: an edit that landed unheard leaves shown behind.)
SlackCatchesUp ==
  []<>(/\ rec.state = "healthy" => \A m \in DOMAIN slack : Tracked(m) => Recovered(m)
       /\ rec.state # "healthy" /\ sustained /\ rec.delivery # "indeterminate"
            => rec.delivery = "delivered")

=============================================================================
