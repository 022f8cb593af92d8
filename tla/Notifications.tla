---------------------------- MODULE Notifications ----------------------------
(***************************************************************************)
(* The Slack effects of Situations: the intents a controller commit leaves *)
(* in notification_intents, the one worker that claims, sends and          *)
(* acknowledges them, the Delivery gap that a long outage opens, and what  *)
(* the channel then shows.                                                 *)
(*                                                                         *)
(* A commit has one Transition, so its number is the Transition sequence   *)
(* and the Episode-summary version.  A claim needs no token here: one      *)
(* worker runs, and it looks for claims only when it holds none.           *)
(***************************************************************************)
EXTENDS Integers, Sequences

CONSTANTS
  Situations,
  Threshold,     \* GapThreshold, in ticks
  MaxCommits,    \* bound: commits of a Situation
  MaxGaps,       \* bound: gap generations
  MaxFaults,     \* bound: crashes, lost answers, storage errors
  MaxOutages,    \* bound: times Slack goes away
  MaxRejects     \* bound: requests Slack refuses for good

ASSUME NotificationsAssumption ==
  /\ Threshold \in Nat \ {0} /\ MaxCommits \in Nat /\ MaxGaps \in Nat
  /\ MaxFaults \in Nat /\ MaxOutages \in Nat /\ MaxRejects \in Nat

VARIABLES
  intents,     \* notification_intents
  commits,     \* current_transition_sequence of each Situation
  plan,        \* what a controller cycle has read of the publication state
  coord,       \* slack_root_ts: the message that is the root, 0 if none
  gaps,        \* slack_delivery_gaps
  openGap,     \* open_gap_generation
  window,      \* ticks since first_failure_at
  windowGap,   \* a generation of this window exists
  pc, todo,    \* the worker's position in its round, and the claims left
  cur, seen,   \* the intent it delivers, the root message it read
  answer,      \* what Slack answered
  probed,      \* probedOnce
  reactivated, \* configurationReactivated
  slack,       \* Slack: "up", only auth.test works, or "down"
  channel,     \* the root messages of each Situation and the version they show
  thread,      \* the journal entries posted under a root
  outageGaps,  \* history: generations opened since the last success
  faults, outages, rejects

slackVars == <<slack, channel, thread>>
gapVars   == <<gaps, openGap, window, windowGap, outageGaps>>
workVars  == <<pc, todo, cur, seen, answer, probed, reactivated>>
planVars  == <<commits, plan>>
budgets   == <<faults, outages, rejects>>
vars == <<intents, coord, planVars, gapVars, workVars, slackVars, budgets>>

Sequence == 1..MaxCommits
Gaps == 1..MaxGaps
NoWindow == -1

RootIntents   == [kind : {"root"},   of : Situations, n : Sequence]
ReplyIntents  == [kind : {"reply"},  of : Situations, n : Sequence]
NoticeIntents == [kind : {"notice"}, of : {"installation"}, n : Gaps]
Intents == RootIntents \cup ReplyIntents \cup NoticeIntents
NoIntent == [kind |-> "none", of |-> "installation", n |-> 0]
RootOf(s, n)  == [kind |-> "root", of |-> s, n |-> n]
ReplyOf(s, n) == [kind |-> "reply", of |-> s, n |-> n]
NoticeOf(g)   == [kind |-> "notice", of |-> "installation", n |-> g]

Live == {"pending", "blocked", "failed"}
\* "dead" is a claim whose worker is gone; its lease has not run out yet.
Row == [status : Live \cup {"absent", "withheld", "delivered", "superseded"},
        claim : {"free", "held", "dead"},
        class : {"root", "thread", "transient", "handoff", "notice"}]
Absent(i) == [status |-> "absent", claim |-> "free",
              class |-> CASE i.kind = "root" -> "root" [] i.kind = "notice" -> "notice"
                          [] OTHER -> "thread"]

Gap == [status : {"none", "open", "replaying", "complete"},
        upto : [Situations -> 0..MaxCommits]]
NoGap == [status |-> "none", upto |-> [s \in Situations |-> 0]]

\* No cycle is under way.
NoPlan == [read |-> FALSE, published |-> FALSE, owed |-> FALSE]

TypeOK ==
  /\ intents \in [Intents -> Row]
  /\ commits \in [Situations -> 0..MaxCommits]
  /\ plan \in [Situations -> [read : BOOLEAN, published : BOOLEAN, owed : BOOLEAN]]
  /\ coord \in [Situations -> Nat] /\ \A s \in Situations : coord[s] <= Len(channel[s])
  /\ gaps \in [Gaps -> Gap] /\ openGap \in 0..MaxGaps
  /\ window \in NoWindow..Threshold /\ windowGap \in BOOLEAN /\ outageGaps \in Nat
  /\ pc \in {"down", "probe", "recover", "complete", "claim", "deliver", "send", "answer"}
  /\ todo \subseteq Intents /\ cur \in Intents \cup {NoIntent} /\ seen \in Nat
  /\ answer \in {"none", "ok", "retryable", "local", "blocking", "invalid"}
  /\ probed \in BOOLEAN /\ reactivated \in BOOLEAN /\ slack \in {"up", "auth", "down"}
  /\ channel \in [Situations -> Seq(Sequence)] /\ thread \in [Situations -> SUBSET Sequence]
  /\ faults \in 0..MaxFaults /\ outages \in 0..MaxOutages /\ rejects \in 0..MaxRejects

Init ==
  /\ intents = [i \in Intents |-> Absent(i)]
  /\ commits = [s \in Situations |-> 0] /\ plan = [s \in Situations |-> NoPlan]
  /\ coord = [s \in Situations |-> 0]
  /\ gaps = [g \in Gaps |-> NoGap] /\ openGap = 0
  /\ window = NoWindow /\ windowGap = FALSE /\ outageGaps = 0
  /\ pc = "down" /\ todo = {} /\ cur = NoIntent /\ seen = 0 /\ answer = "none"
  /\ probed = FALSE /\ reactivated = FALSE
  /\ slack = "up" /\ channel = [s \in Situations |-> <<>>]
  /\ thread = [s \in Situations |-> {}]
  /\ faults = 0 /\ outages = 0 /\ rejects = 0

Fault  == faults < MaxFaults /\ faults' = faults + 1 /\ UNCHANGED <<outages, rejects>>
Reject == rejects < MaxRejects /\ rejects' = rejects + 1 /\ UNCHANGED <<faults, outages>>

-----------------------------------------------------------------------------
(* The ledger.                                                             *)

With(rows, status) == {i \in Intents : rows[i].status = status}
LiveRoots(rows, s) == {i \in RootIntents : i.of = s /\ rows[i].status \in Live}
Published(s) == coord[s] # 0
Owed(s) == LiveRoots(intents, s) # {}

\* Retired rows lose their claim.
Retire(rows, which) ==
  [i \in Intents |-> IF i \in which THEN [rows[i] EXCEPT !.status = "superseded", !.claim = "free"]
                     ELSE rows[i]]
\* supersedeLiveRootSyncTx.
SupersedeLiveRootSync(rows, s, keep) == Retire(rows, LiveRoots(rows, s) \ {keep})

ToPending(rows, which) ==
  [i \in Intents |-> IF i \in which THEN [rows[i] EXCEPT !.status = "pending", !.claim = "free"]
                     ELSE rows[i]]

-----------------------------------------------------------------------------
(* The controller.                                                         *)

\* LoadReconciliationInput; the cycle commits what it plans on this later.
Load(s) ==
  /\ pc # "down" /\ ~plan[s].read /\ commits[s] < MaxCommits
  /\ plan' = [plan EXCEPT ![s] = [read |-> TRUE, published |-> Published(s), owed |-> Owed(s)]]
  /\ UNCHANGED <<intents, coord, commits, gapVars, workVars, slackVars, budgets>>

\* PlanNotificationIntents: the root it plans, by the floor; the first post of
\* a root is itself the poke.
RootStatus(p, meetsFloor) ==
  IF ~p.published /\ ~p.owed /\ ~meetsFloor THEN "withheld" ELSE "pending"
\* The class of the reply, if any: a poke broadcasts only under a root that is
\* published already and above the floor.
ReplyClass(p, poke, meetsFloor, class) ==
  IF p.published /\ poke /\ meetsFloor THEN "handoff" ELSE class

\* supersedeObsoleteAssuranceTx: a reply that overtakes the transient ones.
RetireTransient(rows, s, n) ==
  Retire(rows, {i \in ReplyIntents : /\ i.of = s /\ i.n < n
                                     /\ rows[i].class = "transient" /\ rows[i].status \in Live})

\* The history half of CommitController.  A Situation without publication
\* authority leaves no intent.
Commit(s, poke, authority, meetsFloor, reply, class, overtakes) ==
  LET n == commits[s] + 1
      p == plan[s]
      quiet == ~p.published /\ ~p.owed /\ ~authority
      cleared == SupersedeLiveRootSync(intents, s, RootOf(s, n))
      rooted == [cleared EXCEPT ![RootOf(s, n)].status = RootStatus(p, meetsFloor)]
      replied == [rooted EXCEPT ![ReplyOf(s, n)] =
                   [status |-> "pending", claim |-> "free",
                    class |-> ReplyClass(p, poke, meetsFloor, class)]]
  IN
  /\ p.read
  /\ poke /\ p.published => reply
  /\ overtakes => reply /\ class = "thread"
  /\ intents' = CASE quiet -> intents
                  [] ~quiet /\ ~reply -> rooted
                  [] ~quiet /\ reply /\ ~overtakes -> replied
                  [] OTHER -> RetireTransient(replied, s, n)
  /\ commits' = [commits EXCEPT ![s] = n] /\ plan' = [plan EXCEPT ![s] = NoPlan]
  /\ UNCHANGED <<coord, gapVars, workVars, slackVars, budgets>>

-----------------------------------------------------------------------------
(* Failure window and Delivery gap.                                        *)

StatusOf(g) == IF g = 0 THEN "none" ELSE gaps[g].status
\* The next generation, within the bound.
IsNextGap(g) == gaps[g].status = "none" /\ \A h \in 1..(g - 1) : gaps[h].status # "none"

\* observeFailure: ObserveSlackFailure anchors the window; a later failure of
\* the same window opens its generation once the threshold is reached.
ObserveFailure ==
  IF window = NoWindow
    THEN window' = 0 /\ windowGap' = FALSE /\ UNCHANGED <<gaps, openGap, outageGaps>>
    ELSE /\ UNCHANGED window
         /\ IF window = Threshold /\ StatusOf(openGap) # "open" /\ ~windowGap
              THEN \E g \in Gaps :
                     /\ IsNextGap(g) /\ gaps' = [gaps EXCEPT ![g].status = "open"]
                     /\ openGap' = g /\ windowGap' = TRUE /\ outageGaps' = outageGaps + 1
              ELSE UNCHANGED <<gaps, openGap, windowGap, outageGaps>>

\* ObserveSlackSuccess.
ObserveSuccess == window' = NoWindow /\ outageGaps' = 0 /\ UNCHANGED <<gaps, openGap, windowGap>>

OpenGaps == {g \in Gaps : gaps[g].status = "open"}
IsOldest(g, S) == g \in S /\ \A h \in S : g <= h

\* RecoverDeliveryGap: the oldest open generation starts replaying what has
\* been committed so far, behind its notice.  The window stays as it is.
RecoverGap ==
  /\ UNCHANGED <<window, windowGap>>
  /\ IF OpenGaps = {} THEN UNCHANGED <<gaps, intents>>
     ELSE \E g \in Gaps :
            /\ IsOldest(g, OpenGaps)
            /\ gaps' = [gaps EXCEPT ![g] = [status |-> "replaying", upto |-> commits]]
            /\ intents' = [intents EXCEPT ![NoticeOf(g)].status = "pending"]

\* Faulty: replies under a withheld root count.
ReplayableAll(upto) == {i \in With(intents, "pending") \ NoticeIntents : i.n <= upto[i.of]}
\* replayableIntentPredicate.
Replayable(upto) ==
  {i \in With(intents, "pending") \ NoticeIntents :
     i.n <= upto[i.of] /\ (i.kind = "reply" => Published(i.of) \/ Owed(i.of))}

Drained == {g \in Gaps : gaps[g].status = "replaying" /\ intents[NoticeOf(g)].status = "delivered"}
\* CompleteDeliveryGap, at the end of advanceGapState.
CompleteGap ==
  /\ pc = "complete" /\ pc' = "claim"
  /\ IF Drained = {} THEN UNCHANGED <<gaps, openGap>>
     ELSE \E g \in Gaps :
            /\ IsOldest(g, Drained)
            /\ IF Replayable(gaps[g].upto) # {} THEN UNCHANGED <<gaps, openGap>>
               ELSE /\ gaps' = [gaps EXCEPT ![g].status = "complete"]
                    /\ openGap' = IF openGap = g THEN 0 ELSE openGap
  /\ UNCHANGED <<intents, coord, planVars, window, windowGap, outageGaps, todo, cur, seen, answer,
                 probed, reactivated, slackVars, budgets>>

Blocked == With(intents, "blocked")
\* reactivateBlockedRootSyncTx: the newest root survives.
ReactivateRoot(rows, s) ==
  LET roots == {i \in RootIntents : i.of = s /\ rows[i].status \in Live \cup {"delivered"}}
      keeper == CHOOSE i \in roots : \A j \in roots : j.n <= i.n
      kept == SupersedeLiveRootSync(rows, s, keeper)
  IN IF \E i \in roots : rows[i].status = "blocked"
       THEN ToPending(kept, IF rows[keeper].status = "blocked" THEN {keeper} ELSE {})
       ELSE rows
\* reactivateBlockedIntentsTx, and the one-shot of ReactivateConfiguration.
Reactivate ==
  IF Blocked # {} /\ ~reactivated
    THEN LET replies == ToPending(intents, Blocked \ RootIntents) IN
         /\ intents' = [i \in Intents |-> IF i \in RootIntents THEN ReactivateRoot(replies, i.of)[i]
                                          ELSE replies[i]]
         /\ reactivated' = TRUE
    ELSE UNCHANGED <<intents, reactivated>>

-----------------------------------------------------------------------------
(* The worker's round.                                                     *)

\* RecoverAndReactivate when the process starts, with its own probe.
Startup ==
  /\ pc = "down" /\ pc' = IF slack = "down" THEN "probe" ELSE "recover"
  /\ IF slack = "down" THEN UNCHANGED <<intents, reactivated>> ELSE Reactivate
  /\ UNCHANGED <<coord, planVars, gapVars, todo, cur, seen, answer, probed, slackVars, budgets>>

\* shouldProbe; its backoff only spaces the probes out.
ShouldProbe ==
  \/ ~probed
  \/ (window # NoWindow \/ StatusOf(openGap) = "open") /\ StatusOf(openGap) # "replaying"
  \/ Blocked # {} /\ ~reactivated

\* auth.test answers although writes may still fail.
ProbeOk ==
  /\ pc = "probe" /\ ShouldProbe /\ slack # "down"
  /\ pc' = "recover" /\ probed' = TRUE /\ Reactivate
  /\ UNCHANGED <<coord, planVars, gapVars, todo, cur, seen, answer, slackVars, budgets>>
ProbeFails ==
  /\ pc = "probe" /\ ShouldProbe /\ slack = "down"
  /\ pc' = "complete" /\ probed' = TRUE /\ ObserveFailure
  /\ UNCHANGED <<intents, coord, planVars, todo, cur, seen, answer, reactivated, slackVars, budgets>>
SkipProbe ==
  /\ pc = "probe" /\ ~ShouldProbe /\ pc' = "complete"
  /\ UNCHANGED <<intents, coord, planVars, gapVars, todo, cur, seen, answer, probed, reactivated,
                 slackVars, budgets>>
Recover ==
  /\ pc = "recover" /\ pc' = "complete" /\ RecoverGap
  /\ UNCHANGED <<coord, planVars, openGap, outageGaps, todo, cur, seen, answer, probed, reactivated,
                 slackVars, budgets>>

\* Faulty: a blocked or failed reply does not hold the queue.
IsHeadPending(i) ==
  /\ intents[i].status = "pending"
  /\ i.kind = "reply" => LiveRoots(intents, i.of) = {}
  /\ \A j \in ReplyIntents : j.of = i.of /\ i.kind = "reply" /\ j.n < i.n =>
       intents[j].status # "pending"
\* The head of a Situation's queue: its root first, then replies by sequence.
IsHead(i) ==
  /\ intents[i].status \in Live
  /\ i.kind = "reply" => LiveRoots(intents, i.of) = {}
  /\ \A j \in ReplyIntents : j.of = i.of /\ i.kind = "reply" /\ j.n < i.n =>
       intents[j].status \notin Live

Unclaimed(i) == intents[i].status = "pending" /\ intents[i].claim = "free"
RootReady(i) == i.kind = "reply" => Published(i.of)

\* deliveryGapGateTx: notices that hold the backlog.
DueNotices == {NoticeOf(g) : g \in {h \in Gaps : /\ gaps[h].status = "replaying"
                                                 /\ intents[NoticeOf(h)].status # "delivered"}}
Claimable ==
  IF OpenGaps # {} THEN {}
  ELSE IF DueNotices # {} THEN {i \in DueNotices : Unclaimed(i)}
  ELSE {i \in RootIntents \cup ReplyIntents : IsHead(i) /\ Unclaimed(i) /\ RootReady(i)}

\* ClaimNotificationIntents; rows it leaves out wait for their retry_at.
Claim(taken) ==
  /\ pc = "claim" /\ taken \subseteq Claimable /\ taken # {}
  /\ pc' = "deliver" /\ todo' = taken
  /\ intents' = [i \in Intents |-> IF i \in taken THEN [intents[i] EXCEPT !.claim = "held"]
                                   ELSE intents[i]]
  /\ UNCHANGED <<coord, planVars, gapVars, cur, seen, answer, probed, reactivated, slackVars, budgets>>
ClaimNothing ==
  /\ pc = "claim" /\ Claimable = {} /\ pc' = "probe"
  /\ UNCHANGED <<intents, coord, planVars, gapVars, todo, cur, seen, answer, probed, reactivated,
                 slackVars, budgets>>

\* What Deliver checks before it calls out: the summary is still the one the
\* root names, a reply has a root to go under.
Sendable(i) == CASE i.kind = "root" -> i.n = commits[i.of]
                 [] i.kind = "reply" -> Published(i.of)
                 [] OTHER -> TRUE
Prepare(i) ==
  /\ pc = "deliver" /\ i \in todo
  /\ cur' = i /\ todo' = todo \ {i}
  /\ seen' = IF i.kind = "root" THEN coord[i.of] ELSE 0
  /\ IF Sendable(i) THEN pc' = "send" /\ UNCHANGED answer ELSE pc' = "answer" /\ answer' = "local"
  /\ UNCHANGED <<intents, coord, planVars, gapVars, probed, reactivated, slackVars, budgets>>

\* Slack takes the message: a root is posted, or the one that was read edited.
Accept ==
  /\ channel' = IF cur.kind # "root" THEN channel
                ELSE IF seen = 0 THEN [channel EXCEPT ![cur.of] = Append(@, cur.n)]
                ELSE [channel EXCEPT ![cur.of][seen] = cur.n]
  /\ thread' = IF cur.kind # "reply" THEN thread ELSE [thread EXCEPT ![cur.of] = @ \cup {cur.n}]
  /\ seen' = IF cur.kind = "root" /\ seen = 0 THEN Len(channel[cur.of]) + 1 ELSE seen
Sent(outcome) ==
  /\ pc = "send" /\ pc' = "answer" /\ answer' = outcome
  /\ UNCHANGED <<intents, coord, planVars, gapVars, todo, cur, probed, reactivated, slack>>
SendAccepted == slack = "up" /\ Accept /\ Sent("ok") /\ UNCHANGED budgets
\* The answer is lost: to the worker it is a transport error.
SendUnanswered == slack = "up" /\ Accept /\ Sent("retryable") /\ Fault
SendFails == slack # "up" /\ Sent("retryable") /\ UNCHANGED <<channel, thread, seen, budgets>>
SendRefused ==
  /\ slack = "up" /\ Reject /\ (Sent("blocking") \/ Sent("invalid"))
  /\ UNCHANGED <<channel, thread, seen>>

\* Back to the claims that are left, or to the next round.
NextClaim ==
  /\ pc' = IF todo = {} THEN "probe" ELSE "deliver"
  /\ cur' = NoIntent /\ seen' = 0 /\ answer' = "none"
  /\ UNCHANGED <<todo, probed, reactivated>>

\* The fence of every acknowledgement.
Fenced == intents[cur].status = "pending" /\ intents[cur].claim = "held"
SetCurrent(status) == [intents EXCEPT ![cur] = [@ EXCEPT !.status = status, !.claim = "free"]]

\* Faulty: a first post acknowledged after its supersession is forgotten.
RootAcknowledgedForget == IF Fenced /\ cur.kind = "root" THEN [coord EXCEPT ![cur.of] = seen] ELSE coord
\* MarkNotificationDelivered and acknowledgeSupersededDeliveryTx.
RootAcknowledged ==
  IF cur.kind = "root" /\ (Fenced \/ (intents[cur].status = "superseded" /\ coord[cur.of] = 0))
    THEN [coord EXCEPT ![cur.of] = seen] ELSE coord

AcknowledgeDelivered ==
  /\ pc = "answer" /\ answer = "ok" /\ ObserveSuccess
  /\ intents' = IF Fenced THEN SetCurrent("delivered") ELSE intents
  /\ coord' = RootAcknowledged /\ NextClaim
  /\ UNCHANGED <<planVars, slackVars, budgets>>

StatusAfter(outcome) == CASE outcome = "blocking" -> "blocked"
                          [] outcome = "invalid" -> "failed"
                          [] OTHER -> "pending"
\* acknowledgeFailure: retries have no limit.
AcknowledgeFailure ==
  /\ pc = "answer" /\ answer \in {"retryable", "local", "blocking", "invalid"}
  /\ IF answer = "retryable" THEN ObserveFailure ELSE UNCHANGED gapVars
  /\ intents' = IF ~Fenced THEN intents
                ELSE SetCurrent(StatusAfter(answer))
  /\ NextClaim /\ UNCHANGED <<coord, planVars, slackVars, budgets>>

\* A storage error loses the heartbeat or the acknowledgement: the claim is
\* left to its lease, whatever Slack has done.
Abandon ==
  /\ pc \in {"send", "answer"} /\ Fault
  /\ intents' = IF Fenced THEN [intents EXCEPT ![cur].claim = "dead"] ELSE intents
  /\ NextClaim /\ UNCHANGED <<coord, planVars, gapVars, slackVars>>

\* RecoverExpiredNotificationClaims and the claim query treat it as free.
LeaseExpires(i) ==
  /\ intents[i].claim = "dead" /\ intents' = [intents EXCEPT ![i].claim = "free"]
  /\ UNCHANGED <<coord, planVars, gapVars, workVars, slackVars, budgets>>

Crash ==
  /\ pc # "down" /\ Fault
  /\ intents' = [i \in Intents |-> IF intents[i].claim = "held" THEN [intents[i] EXCEPT !.claim = "dead"]
                                   ELSE intents[i]]
  /\ pc' = "down" /\ todo' = {} /\ cur' = NoIntent /\ seen' = 0 /\ answer' = "none"
  /\ probed' = FALSE /\ reactivated' = FALSE /\ plan' = [s \in Situations |-> NoPlan]
  /\ UNCHANGED <<coord, commits, gapVars, slackVars>>

\* RedriveFailedNotificationIntent: a newer pending root is not disturbed, an
\* older one is retired.
Redrive(i) ==
  /\ intents[i].status = "failed"
  /\ i.kind = "root" => ~\E j \in LiveRoots(intents, i.of) : intents[j].status = "pending" /\ j.n > i.n
  /\ intents' = ToPending(IF i.kind = "root" /\ \E j \in LiveRoots(intents, i.of) :
                                                  intents[j].status = "pending"
                            THEN SupersedeLiveRootSync(intents, i.of, i) ELSE intents, {i})
  /\ UNCHANGED <<coord, planVars, gapVars, workVars, slackVars, budgets>>

-----------------------------------------------------------------------------
SlackFails ==
  /\ slack = "up" /\ outages < MaxOutages /\ outages' = outages + 1
  /\ slack' \in {"auth", "down"}
  /\ UNCHANGED <<intents, coord, planVars, gapVars, workVars, channel, thread, faults, rejects>>
SlackReturns ==
  /\ slack # "up" /\ slack' = "up"
  /\ UNCHANGED <<intents, coord, planVars, gapVars, workVars, channel, thread, budgets>>
Tick ==
  /\ window \in 0..(Threshold - 1) /\ window' = window + 1
  /\ UNCHANGED <<intents, coord, planVars, gaps, openGap, windowGap, outageGaps, workVars,
                 slackVars, budgets>>

Controller(s) ==
  \/ Load(s)
  \/ \E poke, authority, meetsFloor, reply, overtakes \in BOOLEAN :
       \E class \in {"thread", "transient"} :
         Commit(s, poke, authority, meetsFloor, reply, class, overtakes)
Worker ==
  \/ Startup \/ ProbeOk \/ ProbeFails \/ SkipProbe \/ Recover \/ CompleteGap \/ ClaimNothing
  \/ \E taken \in SUBSET Claimable : Claim(taken)
  \/ \E i \in todo : Prepare(i)
  \/ SendAccepted \/ SendFails \/ AcknowledgeDelivered \/ AcknowledgeFailure

Next ==
  \/ \E s \in Situations : Controller(s)
  \/ Worker \/ SendUnanswered \/ SendRefused \/ Abandon \/ Crash
  \/ \E i \in Intents : LeaseExpires(i) \/ Redrive(i)
  \/ SlackFails \/ SlackReturns \/ Tick

Spec == Init /\ [][Next]_vars

\* The worker is a loop that is restarted with the process and whose calls are
\* bounded; every Situation's head comes up for its retry; leases run out; and
\* outages end.
Fairness ==
  /\ WF_vars(Worker) /\ WF_vars(SlackReturns)
  /\ \A i \in Intents : WF_vars(LeaseExpires(i))
  /\ \A s \in Situations : SF_vars(\E taken \in SUBSET Claimable :
                                     Claim(taken) /\ \E i \in taken : i.of = s)
FairSpec == Spec /\ Fairness

-----------------------------------------------------------------------------
(* Properties.                                                             *)

Sending(i) == pc = "send" /\ cur = i

\* The journal of a Situation appears in Slack in Transition order, whatever is
\* retried, blocked, failed and redriven in between: nothing newer than the
\* entry being sent has been posted, and the root message it is posted under
\* shows at least the state the entry belongs to.
ThreadInOrder ==
  \A i \in ReplyIntents : Sending(i) =>
    /\ \A m \in thread[i.of] : m <= i.n
    /\ Published(i.of) /\ channel[i.of][coord[i.of]] >= i.n

\* Nothing is said twice.  Slack shows one root per Situation, and a second one
\* takes a lost answer, a lost acknowledgement or a crash; a controller commit
\* that supersedes the first post while it is on its way is none of these.  And
\* one outage, that is the time between two successful deliveries, opens one
\* Delivery gap, even when the token answers in between.
NothingTwice ==
  /\ \A s \in Situations : Len(channel[s]) <= 1 + faults
  /\ outageGaps <= 1

\* What an effect may wait for: a refused effect ahead of it, a refused notice,
\* or a root that is not owed.
Waits(i) ==
  \/ \E g \in Gaps : gaps[g].status = "replaying" /\ intents[NoticeOf(g)].status \in {"blocked", "failed"}
  \/ i.kind # "notice" /\ \E j \in RootIntents \cup ReplyIntents :
       j.of = i.of /\ IsHead(j) /\ intents[j].status \in {"blocked", "failed"}
  \/ i.kind = "reply" /\ ~Published(i.of) /\ ~Owed(i.of)

Refused == With(intents, "blocked") \cup With(intents, "failed")

\* Through outages, gaps, crashes and lost answers every Situation catches up
\* again and again: what is owed has reached Slack or was superseded or refused,
\* and the root then shows the newest Transition.
QueueDrains(s) ==
  /\ \A i \in RootIntents \cup ReplyIntents :
       i.of = s /\ intents[i].status = "pending" => Waits(i)
  /\ Published(s) /\ Refused = {} => channel[s][coord[s]] = commits[s]

\* An opened Delivery gap is replayed and completed, unless a refused effect
\* holds it.
GapsComplete == Refused # {} \/ \A g \in Gaps : gaps[g].status \in {"none", "complete"}

\* Again and again every queue has drained and every gap is complete.
EverythingIsDelivered == (\A s \in Situations : []<>QueueDrains(s)) /\ []<>GapsComplete
=============================================================================
