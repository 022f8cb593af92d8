------------------------------- MODULE NtfyPush -------------------------------
(***************************************************************************)
(* The ntfy push sink: startup policy (ConfigureNTFY), the row a history   *)
(* commit enqueues (enqueueNTFYTx over ntfy.Select), the worker that       *)
(* claims one head at a time (ClaimNTFY, compactNTFYTx), sends it and      *)
(* acknowledges it under its lease (FinishNTFY).                           *)
(*                                                                         *)
(* A row's index is its rowid.  The wording of a message is left out: a    *)
(* row is the Transition it renders and the events it was selected for.    *)
(* Time is abstract: a lease expires, and a retry falls due, at any time.  *)
(***************************************************************************)
EXTENDS Naturals, Sequences, FiniteSets, SequencesExt

CONSTANTS
  Situations,
  Batches,       \* the Transitions one commit may append, as sequences of records
  Policies,      \* the settings a process may start with: [enabled, topic, muted], with the
                 \* events its list leaves out
  NoTopic,       \* no topic configured, and the destination of a fresh database
  MaxCommits,    \* bound: commits over all Situations
  MaxClaims,     \* bound: claims of one row
  MaxStarts      \* bound: starts of the process

VARIABLES
  config,     \* the one row of ntfy_configuration
  history,    \* history[s]: the committed Transitions of s, in sequence
  rows,       \* ntfy_notifications
  worker,     \* the delivery worker: [pc, row, token, outcome]
  shown,      \* what reached the topic about s: the last sequence, and every event
  commits,    \* commits so far: the created_at of the next one
  starts      \* starts so far

vars == <<config, history, rows, worker, shown, commits, starts>>

\* The catalogue of events, here as a set: the order is rendering's.
Events == {"first_notification", "priority_escalated", "operator_action_required", "recovered",
           "closed_uncertain", "investigation_started", "investigation_completed",
           "coverage_degraded", "coverage_restored", "recovery_pending", "recovery_refired",
           "members_changed", "operator_updated"}

Live == {"pending", "delivering", "blocked"}

Init ==
  /\ config = [enabled |-> FALSE, dest |-> NoTopic, events |-> {}]
  /\ history = [s \in Situations |-> <<>>]
  /\ rows = <<>>
  /\ worker = [pc |-> "down", row |-> 0, token |-> 0, outcome |-> "none"]
  /\ shown = [s \in Situations |-> [seq |-> 0, events |-> {}]]
  /\ commits = 0
  /\ starts = 0

-----------------------------------------------------------------------------
\* Config.Destination, with the rule that an omitted topic pauses what is installed.
Destination(p) == IF ~p.enabled /\ p.topic = NoTopic THEN config.dest ELSE p.topic

\* What a start does to one row: a new destination retires it; a claim of the process
\* before is handed back and fenced off; a block is lifted once the sink is enabled.
Reconfigured(r, p) ==
  LET retires == config.dest # NoTopic /\ config.dest # Destination(p) IN
  CASE retires /\ r.status \in Live ->
         [r EXCEPT !.status = "retired", !.token = @ + 1, !.held = FALSE]
    [] ~retires /\ r.status = "delivering" ->
         [r EXCEPT !.status = "pending", !.token = @ + 1, !.held = FALSE, !.delayed = TRUE]
    [] ~retires /\ r.status = "pending" -> [r EXCEPT !.delayed = @ \/ ~p.enabled]
    [] ~retires /\ r.status = "blocked" ->
         IF p.enabled THEN [r EXCEPT !.status = "pending", !.due = TRUE, !.delayed = TRUE]
         ELSE [r EXCEPT !.delayed = TRUE]
    [] OTHER -> r

\* A process starts: it records its policy, and runs a worker if the sink is enabled.
Start(p) ==
  /\ worker.pc = "down"
  /\ starts < MaxStarts /\ starts' = starts + 1
  /\ config' = [enabled |-> p.enabled, dest |-> Destination(p), events |-> Events \ p.muted]
  /\ rows' = [i \in DOMAIN rows |-> Reconfigured(rows[i], p)]
  /\ worker' = [worker EXCEPT !.pc = IF p.enabled THEN "idle" ELSE "off"]
  /\ UNCHANGED <<history, shown, commits>>

\* The process stops or dies; a request on its way is cut off.
Down ==
  /\ worker.pc # "down"
  /\ worker' = [pc |-> "down", row |-> 0, token |-> 0, outcome |-> "none"]
  /\ UNCHANGED <<config, history, rows, shown, commits, starts>>

-----------------------------------------------------------------------------
PriorLimits(prior) == IF prior = <<>> THEN {} ELSE prior[1].limits

\* Whether Transition t, after prior, is one of the event e (Select, selectProgress,
\* selectCandidates); prior is <<>> or the one Transition before.
Matches(e, t, prior, published) ==
  CASE e = "first_notification" -> ~published /\ t.warranted /\ ~t.terminal
    [] e = "investigation_completed" ->
         t.reason = "investigation_concluded" \/ t.told \cap {"useful_finding", "inconclusive"} # {}
    [] e = "recovery_pending" -> t.reason = "recovery_observed"
    [] e = "recovery_refired" -> t.reason = "recovery_failed"
    [] e = "recovered" -> t.reason = "recovered"
    [] e = "closed_uncertain" -> t.reason = "closed_unknown"
    [] e = "priority_escalated" ->
         prior # <<>> /\ (("attention_increased" \in t.told) \/ (~t.terminal /\ prior[1].priority < t.priority))
    [] e = "operator_action_required" ->
         t.action # 0 /\ (("human_request_changed" \in t.told) \/ prior = <<>> \/ prior[1].action # t.action)
    [] e = "investigation_started" ->
         ("first_execution" \in t.told) \/ (t.started /\ (prior = <<>> \/ ~prior[1].started))
    [] e = "members_changed" -> "members_changed" \in t.told
    [] e = "coverage_degraded" -> ("ability_lost" \in t.told) \/ t.limits \ PriorLimits(prior) # {}
    [] e = "coverage_restored" -> ("ability_cleared" \in t.told) \/ PriorLimits(prior) \ t.limits # {}
    [] OTHER -> FALSE

\* The enabled events of one Transition; an operator's artifact is never more than that.
Select(t, prior, published, enabled) ==
  IF t.reason = "operator_artifact_recorded" THEN enabled \cap {"operator_updated"}
  ELSE {e \in enabled : Matches(e, t, prior, published)}

\* The row a batch after history h is due: its Transitions' events, told in its last state.
Selected(h, batch) ==
  LET prior == IF h = <<>> THEN <<>> ELSE <<Last(h)>>
      published == \E i \in DOMAIN h : h[i].warranted
  IN  UNION {Select(batch[i], prior, published, config.events) : i \in DOMAIN batch}

NewRow(s, seq, events, created) ==
  [situation |-> s, seq |-> seq, dest |-> config.dest, events |-> events, created |-> created,
   status |-> "pending", delayed |-> FALSE, due |-> TRUE, held |-> FALSE, token |-> 0, claims |-> 0]

Over(s) == history[s] # <<>> /\ Last(history[s]).terminal

\* One reconciliation commits its Transitions and, with them, at most one push.  The
\* controller commits nothing more for a Situation that is over.
Commit(s, batch) ==
  /\ worker.pc # "down"
  /\ commits < MaxCommits
  /\ ~Over(s)
  /\ LET events == Selected(history[s], batch)
         after  == history[s] \o [i \in DOMAIN batch |-> [batch[i] EXCEPT !.at = commits]]
     IN  /\ history' = [history EXCEPT ![s] = after]
         /\ rows' = IF config.enabled /\ events # {}
                    THEN Append(rows, NewRow(s, Len(after), events, commits)) ELSE rows
  /\ commits' = commits + 1
  /\ UNCHANGED <<config, worker, shown, starts>>

-----------------------------------------------------------------------------
\* A claim whose lease ran out is anyone's again.
Swept(r) ==
  IF r.status = "delivering" /\ ~r.held THEN [r EXCEPT !.status = "pending", !.delayed = TRUE] ELSE r

\* The rows of q that may be claimed: due, and the oldest of their Situation still owed.
Heads(q) ==
  {i \in DOMAIN q :
     /\ q[i].status = "pending" /\ q[i].due
     /\ \A j \in DOMAIN q : q[j].situation = q[i].situation /\ q[j].status \in Live =>
          q[i].seq < q[j].seq \/ (q[i].seq = q[j].seq /\ i <= j)}

Oldest(q) ==
  CHOOSE i \in Heads(q) : \A j \in Heads(q) :
    q[i].created < q[j].created \/ (q[i].created = q[j].created /\ i <= j)

\* The state a row would show is over, or its request to the operator withdrawn or revised.
Obsolete(r) ==
  LET original == history[r.situation][r.seq]
      latest   == Last(history[r.situation])
  IN  \/ latest.terminal /\ ~original.terminal
      \/ original.action # 0 /\ latest.action # original.action

\* Variant of the code: only a delayed row is brought up to date.
NeedsCatchupDelayed(r) == r.seq # Len(history[r.situation]) /\ r.delayed

\* A head that is no longer the latest state and is delayed or obsolete gives way, with
\* every row still owed to its Situation, to one catch-up of them all.
NeedsCatchup(r) == r.seq # Len(history[r.situation]) /\ (r.delayed \/ Obsolete(r))

\* Variant of the code: the catch-up carries only the events of the row it replaces.
CompactedLossy(q, i) ==
  LET originals == {j \in DOMAIN q : /\ q[j].situation = q[i].situation /\ q[j].dest = q[i].dest
                                     /\ q[j].status \in {"pending", "blocked"}}
      latest == history[q[i].situation]
  IN  Append([j \in DOMAIN q |-> IF j \in originals
                                 THEN [q[j] EXCEPT !.status = "superseded", !.token = @ + 1] ELSE q[j]],
             NewRow(q[i].situation, Len(latest), q[i].events, Last(latest).at))

Compacted(q, i) ==
  LET originals == {j \in DOMAIN q : /\ q[j].situation = q[i].situation /\ q[j].dest = q[i].dest
                                     /\ q[j].status \in {"pending", "blocked"}}
      latest == history[q[i].situation]
      catchup == [NewRow(q[i].situation, Len(latest), UNION {q[j].events : j \in originals}, Last(latest).at)
                    EXCEPT !.dest = q[i].dest]
  IN  Append([j \in DOMAIN q |-> IF j \in originals
                                 THEN [q[j] EXCEPT !.status = "superseded", !.token = @ + 1] ELSE q[j]],
             catchup)

\* ClaimNTFY: sweep, pick the oldest head, compact it, lease what is to be sent.
Claim ==
  /\ worker.pc = "idle"
  /\ LET swept == [i \in DOMAIN rows |-> Swept(rows[i])] IN
     /\ Heads(swept) # {}
     /\ LET head   == Oldest(swept)
            merges == NeedsCatchup(swept[head])
            queue  == IF merges THEN Compacted(swept, head) ELSE swept
            sent   == IF merges THEN Len(queue) ELSE head
        IN  /\ queue[sent].claims < MaxClaims
            /\ rows' = [queue EXCEPT ![sent].status = "delivering", ![sent].held = TRUE,
                                     ![sent].token = @ + 1, ![sent].claims = @ + 1]
            /\ worker' = [pc |-> "sending", row |-> sent, token |-> rows'[sent].token, outcome |-> "none"]
  /\ UNCHANGED <<config, history, shown, commits, starts>>

\* The request of the claimed row ends: outcome is what deliveryOutcome makes of it.
Ends(outcome) ==
  /\ worker.pc = "sending"
  /\ worker' = [worker EXCEPT !.pc = "acking", !.outcome = outcome]
  /\ UNCHANGED <<config, history, rows, commits, starts>>

\* The topic shows the message the worker is sending.
Arrives ==
  LET r == rows[worker.row] IN
  shown' = [shown EXCEPT ![r.situation].seq = r.seq, ![r.situation].events = @ \cup r.events]

SendAccepted == Ends("delivered") /\ Arrives

\* No answer: a timeout or a cancelled context; the message may have arrived all the same.
SendUnanswered == Ends("pending") /\ (Arrives \/ UNCHANGED shown)

\* Another status: 401, 403, 404 and redirects block, anything else is retried.
SendRefused == (\E o \in {"pending", "blocked"} : Ends(o)) /\ UNCHANGED shown

\* FinishNTFY, fenced by status, token and lease; a lost claim changes nothing.
Finish ==
  /\ worker.pc = "acking"
  /\ LET r == rows[worker.row] IN
     rows' = IF r.status = "delivering" /\ r.token = worker.token /\ r.held
             THEN [rows EXCEPT ![worker.row].status = worker.outcome, ![worker.row].held = FALSE,
                               ![worker.row].due = (worker.outcome # "pending"),
                               ![worker.row].delayed = @ \/ worker.outcome # "delivered"]
             ELSE rows
  /\ worker' = [pc |-> "idle", row |-> 0, token |-> 0, outcome |-> "none"]
  /\ UNCHANGED <<config, history, shown, commits, starts>>

\* The acknowledgement cannot be written: the row waits for its lease to run out.
FinishFails ==
  /\ worker.pc = "acking"
  /\ worker' = [pc |-> "idle", row |-> 0, token |-> 0, outcome |-> "none"]
  /\ UNCHANGED <<config, history, rows, shown, commits, starts>>

LeaseExpires(i) ==
  /\ rows[i].held
  /\ rows' = [rows EXCEPT ![i].held = FALSE]
  /\ UNCHANGED <<config, history, worker, shown, commits, starts>>

RetryDue(i) ==
  /\ rows[i].status = "pending" /\ ~rows[i].due
  /\ rows' = [rows EXCEPT ![i].due = TRUE]
  /\ UNCHANGED <<config, history, worker, shown, commits, starts>>

Next ==
  \/ \E p \in Policies : Start(p)
  \/ Down
  \/ \E s \in Situations, b \in Batches : Commit(s, b)
  \/ Claim
  \/ SendAccepted
  \/ SendUnanswered
  \/ SendRefused
  \/ Finish
  \/ FinishFails
  \/ \E i \in DOMAIN rows : LeaseExpires(i) \/ RetryDue(i)

Spec == Init /\ [][Next]_vars

-----------------------------------------------------------------------------
TypeOK ==
  /\ config \in [enabled : BOOLEAN, dest : {p.topic : p \in Policies} \cup {NoTopic}, events : SUBSET Events]
  /\ \A i \in DOMAIN rows :
       /\ rows[i].status \in Live \cup {"delivered", "retired", "superseded"}
       /\ rows[i].seq \in DOMAIN history[rows[i].situation]
       /\ rows[i].events \subseteq Events /\ rows[i].events # {}
  /\ worker.pc \in {"down", "off", "idle", "sending", "acking"}
  /\ commits \in 0 .. MaxCommits /\ starts \in 0 .. MaxStarts

\* Nothing selected is dropped on the way to the phone (compactNTFYTx, FinishNTFY): the
\* events of every row live on in a row of the same Situation and destination that is at
\* least as recent and was not merged away, and once such a row is delivered the topic
\* has seen them all, in a state at least as recent.
EventsAreKept ==
  \A i \in DOMAIN rows : \E j \in DOMAIN rows :
    /\ rows[j].situation = rows[i].situation /\ rows[j].dest = rows[i].dest
    /\ rows[j].seq >= rows[i].seq /\ rows[i].events \subseteq rows[j].events
    /\ rows[j].status # "superseded"
    /\ rows[j].status = "delivered" =>
         /\ shown[rows[j].situation].seq >= rows[j].seq
         /\ rows[i].events \subseteq shown[rows[j].situation].events

\* A push is timely (ClaimNTFY): the phone never goes back to an older state of a Situation,
\* and no push that is taken up interrupts for a state that is over or for a request to
\* the operator that was withdrawn or revised.
Timely ==
  /\ \A s \in Situations : shown'[s].seq >= shown[s].seq
  /\ (worker.pc = "idle" /\ worker'.pc = "sending") =>
       LET r        == rows'[worker'.row]
           original == history[r.situation][r.seq]
           latest   == Last(history[r.situation])
       IN  /\ latest.terminal => original.terminal
           /\ original.action # 0 => latest.action = original.action
=============================================================================
