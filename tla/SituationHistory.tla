-------------------------- MODULE SituationHistory --------------------------
(***************************************************************************)
(* What the operator of one Situation is told.  Every controller commit    *)
(* compares its state with the last Transition (history.go, briefing.go),  *)
(* journals what changed, and plans the replies of the thread and the one  *)
(* that pokes (notification_plan.go, priority.go), against the history of  *)
(* what was told or is still owed (store/situation_notifications.go).  The *)
(* plan is made on what the run loaded; replies are delivered meanwhile.   *)
(* A reply is one entry per Transition, whatever kinds it is split into.   *)
(***************************************************************************)
EXTENDS Naturals, Sequences, FiniteSets, SequencesExt

CONSTANTS
  Lives,        \* lifecycles the instance visits
  Attentions,   \* "observe", "investigate", "urgent", and "critical" for a floor
  Actions,      \* whether an operator action may be required
  Parks,        \* whether the Assessment may be parked
  Unavailable,  \* how many investigations may be unavailable
  Works,        \* phases of triage work
  Edges,        \* what else a commit may bring
  Floor,        \* lowest interruption priority that reaches the channel
  MaxArtifacts, \* bound on operator artifacts
  MaxCommits    \* bound on commits

VARIABLES
  last,         \* the state of the last Transition
  seq,          \* its sequence
  root,         \* "none", "owed" or "published"
  owed,         \* planned replies that are not delivered
  heard,        \* what delivered replies leave standing
  said,         \* topics whose last change was planned under a published root
  loaded,       \* what the running cycle has read
  artifacts,    \* operator artifacts to journal, and recorded so far
  commits       \* commits so far

vars == <<last, seq, root, owed, heard, said, loaded, artifacts, commits>>

Topics == {"parked", "unavailable", "action"}
NoState == [life |-> "none", att |-> "observe", action |-> FALSE, parked |-> FALSE,
            unavailable |-> 0, work |-> "collecting"]
Idle == [at |-> "idle", published |-> FALSE, owed |-> FALSE, standing |-> {}]
NoCandidates == [kinds |-> {}, appear |-> {}, clear |-> {}]

Terminal(life) == life \in {"recovered", "closed_unknown"}
attentionRank(att) ==
  CASE att \in {"urgent", "critical"} -> 2
    [] att = "investigate" -> 1
    [] OTHER -> 0

\* States a cycle may conclude after a: an ended Situation is not blocked,
\* only a firing one is urgent, and started work stays started.
States(a) ==
  {s \in [life : Lives, att : Attentions, action : Actions, parked : Parks,
          unavailable : Unavailable, work : Works] :
     /\ s.life # "active" => attentionRank(s.att) < 2
     /\ Terminal(s.life) => ~s.parked
     /\ s.life = "recovered" => a.life = "recovery_pending"
     /\ a.work = "started" => s.work = "started"
     /\ a.work = "planned" => s.work # "collecting"}

-----------------------------------------------------------------------------
(* Transitions.                                                            *)

\* A commit is material when anything the operator is shown has changed.
Material(a, b, e) == a # b \/ e.members # "same" \/ e.finding \/ e.judged

\* The first reason that applies.
selectControllerReason(a, b, e) ==
  IF a.life = "none" THEN "first_authoritative_state"
  ELSE IF b.life # a.life THEN "lifecycle_changed"
  ELSE IF a.work # b.work THEN "investigation_changed"
  ELSE IF a.att # b.att THEN "attention_changed"
  ELSE IF e.judged \/ a.action # b.action \/ a.parked # b.parked THEN "operator_contract_changed"
  ELSE "material_assessment_changed"

Holds(s, topic) ==
  CASE topic = "parked" -> s.parked
    [] topic = "unavailable" -> s.unavailable > 0
    [] OTHER -> s.action

\* A further unavailable investigation is an appearance again; the loss of
\* some, but not of the last, is no clearance.
abilityChangedCandidates(a, b) ==
  [appear |-> {t \in Topics : \/ Holds(b, t) /\ ~Holds(a, t)
                              \/ t = "unavailable" /\ b.unavailable > a.unavailable},
   clear |-> {t \in Topics : Holds(a, t) /\ ~Holds(b, t)}]

membersChangedCandidate(a, b, e) ==
  e.members # "same" \/ attentionRank(b.att) > attentionRank(a.att)

MaterialCandidates(a, b, e) ==
  IF a.life = "none" THEN NoCandidates
  ELSE [kinds |->
          {k \in {"terminal_end", "all_clear", "refire", "members_changed", "finding", "assurance"} :
             CASE k = "terminal_end" -> Terminal(b.life) /\ a.life # b.life
               [] k = "all_clear"    -> b.life = "recovery_pending" /\ a.life # b.life
               [] k = "refire"       -> a.life = "recovery_pending" /\ b.life = "active"
               [] k = "members_changed" ->
                    a.life = "active" /\ b.life = "active" /\ membersChangedCandidate(a, b, e)
               [] k = "finding"      -> e.finding
               [] OTHER              -> b.work = "started" /\ a.work # "started"},
        appear |-> abilityChangedCandidates(a, b).appear,
        clear  |-> abilityChangedCandidates(a, b).clear]

\* An operator artifact carries no delta.
artifactTransition == [by |-> "artifact", cands |-> NoCandidates, judged |-> FALSE]
controllerTransition(a, b, e) ==
  [by |-> "controller", cands |-> MaterialCandidates(a, b, e),
   judged |-> e.judged /\ selectControllerReason(a, b, e) = "operator_contract_changed"]
judgmentTransition(a, b, e) ==
  [by |-> "judgment", cands |-> MaterialCandidates(a, b, e), judged |-> TRUE]

\* Artifacts first, then the controller's own Transition, and a sibling for an
\* operator's decision it does not name.
BuildTransitions(a, b, e, n) ==
  [i \in 1 .. n |-> artifactTransition]
    \o (IF a.life = "none" \/ Material(a, b, e) THEN <<controllerTransition(a, b, e)>> ELSE <<>>)
    \o (IF e.judged /\ a.life # "none" /\ ~controllerTransition(a, b, e).judged
         THEN <<judgmentTransition(a, b, e)>> ELSE <<>>)

-----------------------------------------------------------------------------
(* The history of what was told.                                           *)

\* foldLimitationsAndAction, over one more reply.
Tell(standing, reply) == (standing \cup reply.cands.appear) \ reply.cands.clear

\* Faulty: only delivered replies count.
DeliveredOnly(replies, from) == from
\* Delivered and still owed replies, folded together in their order.
ProjectedLimitations(replies, from) == FoldLeft(Tell, from, replies)

\* Repeated appearances, and clearances of what was never said, are no news.
ReplyEligible(c, standing) ==
  c.kinds # {} \/ c.appear \ standing # {} \/ c.clear \cap standing # {}
    \/ "action" \in c.appear

replyEligibleTransition(t, e) ==
  /\ loaded.published
  /\ t.judged \/ ReplyEligible(t.cands, loaded.standing) \/ e.members = "more"

canonicalReplyKinds(t, b, e) ==
  LET k == t.cands.kinds
      kinds == {r \in {"investigation_started", "analysis_completed", "partial_clearance",
                       "recovery_observed", "ended"} :
                  CASE r = "investigation_started" ->
                         /\ loaded.published /\ "assurance" \in k
                         /\ k \cap {"finding", "all_clear", "terminal_end"} = {}
                    [] r = "analysis_completed" -> "finding" \in k
                    [] r = "partial_clearance" ->
                         t.by # "artifact" /\ e.members = "fewer" /\ b.life = "active" /\ last.life # "none"
                    [] r = "recovery_observed" -> "all_clear" \in k
                    [] OTHER -> "terminal_end" \in k}
  IN IF ~loaded.published /\ ~loaded.owed /\ b.work = "collecting" /\ b.life = "active"
       THEN {"correlation_started"}
     ELSE IF kinds = {} /\ k \cap {"assurance", "finding", "all_clear", "terminal_end"} = {}
             /\ replyEligibleTransition(t, e)
       THEN {"legacy"}
     ELSE kinds

-----------------------------------------------------------------------------
(* Publication and pokes.                                                  *)

DeriveInterruptionPriority(b) ==
  IF ~Terminal(b.life) /\ b.att = "critical" THEN 3
  ELSE IF (~Terminal(b.life) /\ (b.att = "urgent" \/ b.action)) \/ b.life = "closed_unknown" THEN 2
  ELSE IF ~Terminal(b.life) /\ b.att = "investigate" THEN 1
  ELSE 0

PublicationAuthority(b) == b.att # "observe"

MeetsSlackFloor(b) == DeriveInterruptionPriority(b) >= Floor

Escalates(a, b) ==
  \/ b.att = "critical" /\ a.att # "critical"
  \/ attentionRank(b.att) = 2 /\ attentionRank(a.att) < 2
  \/ b.action /\ ~a.action

\* Faulty: a Transition is compared with the one before it in its commit.
PokesAfterNeighbour(ts, i, a, b) ==
  /\ ts[i].by # "artifact" /\ a.life # "none" /\ ~Terminal(b.life)
  /\ Escalates(IF i > 1 THEN b ELSE a, b)
\* Every Transition is compared with the state before its commit.
ClassifyPoke(ts, i, a, b) ==
  ts[i].by # "artifact" /\ a.life # "none" /\ ~Terminal(b.life) /\ Escalates(a, b)

\* One poke per commit, the first of equal priority.
selectPoke(ts, a, b, e) ==
  LET pokes == {i \in DOMAIN ts : replyEligibleTransition(ts[i], e) /\ ClassifyPoke(ts, i, a, b)}
  IN IF loaded.published /\ pokes # {} THEN CHOOSE i \in pokes : \A j \in pokes : i <= j ELSE 0

\* planJournalIntents: one entry per Transition that earns a reply; a poke
\* below the floor is withheld and its reply goes to the thread.
planJournalIntents(ts, a, b, e) ==
  LET poke == selectPoke(ts, a, b, e)
      entry(i) == [n |-> seq + i, cands |-> ts[i].cands,
                   correlation |-> canonicalReplyKinds(ts[i], b, e) = {"correlation_started"},
                   poke |-> IF i # poke THEN "none"
                            ELSE IF MeetsSlackFloor(b) THEN "broadcast" ELSE "withheld"]
      earns == SelectSeq([i \in DOMAIN ts |-> i], LAMBDA i : canonicalReplyKinds(ts[i], b, e) # {})
  IN [k \in DOMAIN earns |-> entry(earns[k])]

\* Only a reply that carries nothing but the assurance is disposable.
purelyTransientAssurance(reply) ==
  reply.cands.kinds = {"assurance"} /\ reply.cands.appear \cup reply.cands.clear = {}

\* The candidate kinds that say more than a start assurance still can.
assuranceOvertakenBy(kinds) == kinds \cap {"assurance", "terminal_end", "all_clear", "finding"} # {}

\* supersedeObsoleteAssuranceTx, given what this commit plans.
Superseded(replies, plan, b) ==
  LET overtakes == \E i \in DOMAIN plan : assuranceOvertakenBy(plan[i].cands.kinds)
  IN SelectSeq(replies, LAMBDA r :
       /\ ~(overtakes /\ purelyTransientAssurance(r) /\ r.poke # "broadcast")
       /\ ~((overtakes \/ b.work # "collecting") /\ r.correlation))

\* PlanNotificationIntents: nothing before the first grounds to publish; a
\* first root below the floor is withheld.
Publishes(b) == loaded.published \/ loaded.owed \/ PublicationAuthority(b)

-----------------------------------------------------------------------------
(* Actions.                                                                *)

\* LoadReconciliationInput, the publication state and loadDeliveredHistoryTx.
Load ==
  /\ loaded.at = "idle" /\ ~Terminal(last.life) /\ commits < MaxCommits
  /\ loaded' = [at |-> "running", published |-> root = "published", owed |-> root = "owed",
                standing |-> ProjectedLimitations(owed, heard)]
  /\ UNCHANGED <<last, seq, root, owed, heard, said, artifacts, commits>>

\* BuildHistoryCommit and applyHistoryCommitTx, in one transaction.
Commit(b, e) ==
  LET a    == last
      ts   == BuildTransitions(a, b, e, artifacts.pending)
      plan == IF ts = <<>> \/ ~Publishes(b) THEN <<>> ELSE planJournalIntents(ts, a, b, e)
      news == {t \in Topics : a.life # "none" /\ Holds(a, t) # Holds(b, t)}
  IN /\ loaded.at = "running"
     /\ last' = IF ts = <<>> THEN a ELSE b
     /\ seq' = seq + Len(ts)
     /\ owed' = (IF ts = <<>> \/ ~Publishes(b) THEN owed ELSE Superseded(owed, plan, b)) \o plan
     /\ root' = IF ts # <<>> /\ root = "none" /\ Publishes(b) /\ MeetsSlackFloor(b) THEN "owed" ELSE root
     /\ said' = IF loaded.published THEN said \cup news ELSE said \ news
     /\ artifacts' = [artifacts EXCEPT !.pending = 0]
     /\ loaded' = Idle /\ commits' = commits + 1
     /\ UNCHANGED heard

\* The run ends without a commit.
Abandon ==
  /\ loaded.at = "running" /\ loaded' = Idle
  /\ UNCHANGED <<last, seq, root, owed, heard, said, artifacts, commits>>

\* An operator artifact is applied; its input ends a run in progress.
Record ==
  /\ artifacts.recorded < MaxArtifacts /\ ~Terminal(last.life)
  /\ artifacts' = [pending |-> artifacts.pending + 1, recorded |-> artifacts.recorded + 1]
  /\ loaded' = Idle
  /\ UNCHANGED <<last, seq, root, owed, heard, said, commits>>

\* The root message is posted.
Publish ==
  /\ root = "owed" /\ root' = "published"
  /\ UNCHANGED <<last, seq, owed, heard, said, loaded, artifacts, commits>>

\* The head of the thread's queue is posted under the root.
Deliver ==
  /\ root = "published" /\ owed # <<>>
  /\ heard' = Tell(heard, Head(owed)) /\ owed' = Tail(owed)
  /\ UNCHANGED <<last, seq, root, said, loaded, artifacts, commits>>

Init ==
  /\ last = NoState /\ seq = 0 /\ root = "none" /\ owed = <<>> /\ heard = {} /\ said = {}
  /\ loaded = Idle /\ artifacts = [pending |-> 0, recorded |-> 0] /\ commits = 0

Next ==
  \/ Load \/ Abandon \/ Record \/ Publish \/ Deliver
  \/ \E b \in States(last), e \in Edges : Commit(b, e)

Spec == Init /\ [][Next]_vars

-----------------------------------------------------------------------------
(* Properties.                                                             *)

\* Once its last change was planned under a published root, a limitation or
\* a request stands in the replies that were told or are still owed exactly
\* when it holds: no correction is lost behind a queued appearance, none is
\* withheld because it was said before, and no disposable reply takes it
\* along (ReplyEligible, foldLimitationsAndAction, supersedeObsoleteAssuranceTx).
ToldIsTrue ==
  \A t \in said : (t \in ProjectedLimitations(owed, heard)) <=> Holds(last, t)

\* A commit that raises a published Situation to urgent, or first asks
\* something of the operator, pokes exactly once, whatever else it journals
\* (ClassifyPoke, selectPoke).
EscalationPokes ==
  loaded.published /\ loaded.at = "running" /\ commits' # commits =>
    LET pokes == SelectSeq(owed', LAMBDA r : r.n > seq /\ r.poke # "none")
        raised == \/ attentionRank(last'.att) > attentionRank(last.att) /\ attentionRank(last'.att) = 2
                  \/ last'.action /\ ~last.action
    IN /\ Len(pokes) <= 1
       /\ raised /\ ~Terminal(last'.life) => Len(pokes) = 1
=============================================================================
