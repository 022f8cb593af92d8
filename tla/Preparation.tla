----------------------------- MODULE Preparation -----------------------------
(***************************************************************************)
(* Evidence of one Situation: preparation cycles, observation runs, the    *)
(* references that protect them and the retention that removes the rest    *)
(* (internal/store/situation_preparation.go, situation_current_evidence.go *)
(* observation_metadata_retention.go, storage_retention.go;                *)
(* internal/observation/planner.go, budget.go, runner.go).                 *)
(*                                                                         *)
(* A cycle is named by (input version, generation), a run by its cycle and *)
(* its query slot.  What a read found is left out: a run has, besides its  *)
(* reuse source, only whether it is past the retention cutoff and whether  *)
(* its detail has expired.  Times are left to the scheduler; an hour, the  *)
(* least age retention looks at, is longer than a reconciliation.          *)
(***************************************************************************)
EXTENDS Integers, FiniteSets, FiniteSetsExt, Functions

CONSTANTS
  Slots,             \* (capability, subject) pairs of the Situation's members
  PhaseOf(_),        \* "lifecycle" or "assessment"
  TierOf(_),         \* "local", "time_sensitive", "optional" or "routine" when due
  CycleCap,          \* requests of one cycle
  MaxCommits, MaxCalls,
  MaxDisturbances    \* bound on inputs and abandoned reconciliations together

VARIABLES
  version,           \* situations.input_version
  generation,        \* situations.preparation_generation: the last sealed one
  current,           \* situations.current_preparation_cycle_id
  ended,             \* situations.terminal_at is set
  cycle,             \* id -> row of situation_preparation_cycles, with its plans
  run,               \* id -> row of situation_observation_runs
  reference,         \* rows of situation_observation_references
  cursor,            \* slot -> row of situation_observation_refresh
  call,              \* number -> dispatched Assessment call
  commit,            \* number -> what a controller commit pinned
  proc,              \* the reconciliation in progress
  maintenance,       \* the step of the storage maintenance pass
  abandons

rows == <<cycle, run, reference, cursor>>
situation == <<version, generation, current, ended>>
decisions == <<call, commit>>
vars == <<situation, rows, decisions, proc, maintenance, abandons>>

None == "none"
NoCycle == <<0, 0>>
NoRun == [cycle |-> NoCycle, slot |-> None]
Idle == [at |-> "idle", version |-> 0, phase |-> "lifecycle", last |-> <<>>, due |-> {}, call |-> 0]
NoCursor == [past |-> FALSE, last |-> NoRun, admitted |-> NoCycle]
NoPlan == [tier |-> None, reuse |-> NoRun]

Init ==
  /\ version = 1 /\ generation = 0 /\ current = NoCycle /\ ended = FALSE
  /\ cycle = <<>> /\ run = <<>> /\ reference = {}
  /\ cursor = [s \in Slots |-> NoCursor]
  /\ call = <<>> /\ commit = <<>>
  /\ proc = Idle /\ maintenance = "off" /\ abandons = 0

Runs == DOMAIN run
Cycles == DOMAIN cycle
Expired(r) == run[r].expired
Source(r) == IF run[r].source = NoRun THEN r ELSE run[r].source

\* verifyFenceTx, with openCycleForWriteTx for the writes into a cycle.
Fenced == ~ended /\ proc.version = version
Open(c) == Fenced /\ c = current /\ c \in Cycles /\ c[1] = version /\ ~cycle[c].sealed

\* A superseded reference protects nothing any more and is left out.
Ref(r, kind, owner) == [run |-> r, kind |-> kind, owner |-> owner, full |-> TRUE]
Temporary == {"open_cycle", "current_cycle"}

\* insertCurrentCycleReferenceTx: a run whose detail has expired is not referenced.
CurrentCycleRefs(c, sources) == {Ref(r, "current_cycle", c) : r \in {x \in sources : ~Expired(x)}}
-----------------------------------------------------------------------------
\* The decision view.

\* loadCurrentEvidenceTx and situation_observation_current_heads: the latest run of
\* every slot under the current input, up to the current cycle's generation.
Heads ==
  IF current = NoCycle THEN {}
  ELSE LET seen == {r \in Runs : r.cycle[1] = version /\ r.cycle[2] <= current[2]}
       IN  {r \in seen : \A q \in seen : q.slot = r.slot => q.cycle[2] <= r.cycle[2]}

\* The runs whose facts the view shows: a projection shows those of its source.
Seen == Heads \cup {Source(r) : r \in Heads}

\* Faulty: only the current cycle's own runs are pinned.
PinnedHere == {r \in Runs : r.cycle = current} \cup {Source(r) : r \in {x \in Runs : x.cycle = current}}

\* insertPermanentObservationReferencesTx: every run of the view and every source
\* one of them projects; detail is protected where there is some.
Pinned == Seen
Detailed(S) == {r \in S : run[r].source = NoRun /\ ~Expired(r)}
Pins(kind, n) ==
  {[Ref(r, kind, <<n, 0>>) EXCEPT !.full = r \in Detailed(Pinned)] : r \in Pinned}
-----------------------------------------------------------------------------
\* Inputs and the clock.

Disturbances == version - 1 + abandons

\* ApplySituationInputResult moves the input version on; it waits for a protected lease.
Input ==
  /\ ~ended /\ Disturbances < MaxDisturbances /\ proc.at # "dispatched"
  /\ version' = version + 1
  /\ UNCHANGED <<generation, current, ended, rows, decisions, proc>>

\* Everything stored falls behind the retention cutoff: ten days for observations,
\* or later where the database outgrew its limit (shrinkToLimit).
Age ==
  /\ proc.at = "idle" /\ maintenance = "off"
  /\ cycle' = [c \in Cycles |-> [cycle[c] EXCEPT !.old = TRUE]]
  /\ run' = [r \in Runs |-> [run[r] EXCEPT !.old = TRUE]]
  /\ cursor' = [s \in Slots |-> IF cursor[s] = NoCursor THEN NoCursor
                                ELSE [cursor[s] EXCEPT !.past = TRUE]]
  /\ call' = [k \in DOMAIN call |-> [call[k] EXCEPT !.old = TRUE]]
  /\ commit' = [t \in DOMAIN commit |-> [commit[t] EXCEPT !.old = TRUE]]
  /\ UNCHANGED <<situation, reference, proc>>
-----------------------------------------------------------------------------
\* The reconciliation prepares.

\* LoadObservationRefreshCursors hides a last run whose detail has expired.
LastRun(s) ==
  IF cursor[s].last # NoRun /\ Expired(cursor[s].last) THEN NoRun ELSE cursor[s].last

\* Prepare reads the cursors: a slot without one is due, the others when their refresh
\* interval is over.
Load(due) ==
  /\ proc.at = "idle" /\ ~ended
  /\ \A s \in Slots : cursor[s].past \/ cursor[s].admitted = NoCycle => s \in due
  /\ proc' = [at |-> "loaded", version |-> version, phase |-> "lifecycle",
              last |-> [s \in Slots |-> LastRun(s)], due |-> due, call |-> 0]
  /\ UNCHANGED <<situation, rows, decisions>>

\* BuildPlans: what each slot's loaded cursor asks for.
Candidates(tier) == {s \in proc.due : TierOf(s) = tier}

\* allocateFairly, for plans of one request: time-sensitive plans first, then at most
\* one optional plan (there may be no credit for it), then routine ones, the least
\* recently served first (here: any).
Allocations ==
  LET ts == Min({CycleCap, Cardinality(Candidates("time_sensitive"))})
      rout(opt) == Min({CycleCap - ts - opt, Cardinality(Candidates("routine"))})
  IN  {a \in SUBSET (Candidates("time_sensitive") \cup Candidates("optional") \cup Candidates("routine")) :
         /\ Cardinality(a \cap Candidates("time_sensitive")) = ts
         /\ LET opt == Cardinality(a \cap Candidates("optional")) IN
            /\ opt <= 1 /\ ts + opt <= CycleCap
            /\ Cardinality(a \cap Candidates("routine")) = rout(opt)}

\* splitDeferredCandidates: what is not read now is projected from its last run.
PlansFor(admitted) ==
  [s \in Slots |->
    CASE s \in admitted \cup Candidates("local") -> [NoPlan EXCEPT !.tier = TierOf(s)]
      [] s \notin admitted \cup Candidates("local") /\ proc.last[s] # NoRun ->
           [NoPlan EXCEPT !.tier = "reuse", !.reuse = proc.last[s]]
      [] OTHER -> NoPlan]

Reused(plans) == {plans[s].reuse : s \in Slots} \ {NoRun}

\* BeginPreparation: the cycle of this input at the next generation is resumed, or
\* frozen with its plans; then it takes over the protection of the runs it reuses
\* and every earlier cycle of the Situation loses its own.
Begin ==
  LET c == <<version, generation + 1>> IN
  /\ proc.at = "loaded" /\ Fenced
  /\ \/ /\ c \in Cycles
        /\ UNCHANGED <<cycle, reference>>
     \/ \E a \in Allocations : LET plans == PlansFor(a) IN
        /\ c \notin Cycles
        /\ Reused(plans) \subseteq Runs
        /\ cycle' = [x \in Cycles \cup {c} |-> IF x = c THEN [sealed |-> FALSE, old |-> FALSE, plan |-> plans]
                                               ELSE cycle[x]]
        /\ reference' = {f \in reference : f.kind \notin Temporary}
                        \cup CurrentCycleRefs(c, Reused(plans))
  /\ current' = c
  /\ proc' = [proc EXCEPT !.at = "begun", !.last = <<>>, !.due = {}]
  /\ UNCHANGED <<version, generation, ended, run, cursor, decisions>>

\* The plans of the phase that have no run yet.
Missing == {s \in Slots : /\ cycle[current].plan[s].tier # None /\ PhaseOf(s) = proc.phase
                          /\ [cycle |-> current, slot |-> s] \notin Runs}

\* admitRefreshTx: a cursor this cycle already admitted keeps its cadence.
Admitted(s, last) ==
  [cursor EXCEPT ![s] =
    [past |-> @.admitted = current /\ @.past,
     last |-> IF last = NoRun THEN @.last ELSE last,
     admitted |-> current]]

\* ReserveObservationRequest: the first request of a plan admits its slot.  The counts
\* of requests are left out: the frozen plans fit the cycle's cap.
Reserve(s) ==
  /\ proc.at = "begun" /\ Open(current) /\ s \in Missing
  /\ cycle[current].plan[s].tier \notin {"reuse", "local"}
  /\ cursor[s].admitted # current
  /\ cursor' = Admitted(s, NoRun)
  /\ UNCHANGED <<situation, cycle, run, reference, decisions, proc>>

\* RunPhaseBounded commits one run for every plan: what was read, a failure, the
\* exhausted budget or wall, or the projection of the source (reuseRun,
\* CommitObservationRun).
CommitRun(s) ==
  LET r == [cycle |-> current, slot |-> s]
      source == cycle[current].plan[s].reuse
  IN
  /\ proc.at = "begun" /\ Open(current) /\ s \in Missing
  /\ run' = [x \in Runs \cup {r} |-> IF x = r THEN [source |-> source, old |-> FALSE, expired |-> FALSE]
                                     ELSE run[x]]
  /\ reference' = reference \cup {Ref(r, "open_cycle", current)}
                  \cup CurrentCycleRefs(current, {source} \ {NoRun})
  /\ cursor' = IF source = NoRun THEN Admitted(s, r) ELSE cursor
  /\ UNCHANGED <<situation, cycle, decisions, proc>>

\* Every plan of the phase has its run.
Prepared == proc.at = "begun" /\ Open(current) /\ Missing = {}

\* A reconciliation that needs an Assessment prepares again, for its second phase; it
\* finds the cycle it began.
PrepareAssessment ==
  /\ Prepared /\ proc.phase = "lifecycle"
  /\ proc' = [proc EXCEPT !.phase = "assessment"]
  /\ UNCHANGED <<situation, rows, decisions>>
-----------------------------------------------------------------------------
\* The reconciliation decides.

\* RecordAssessmentCall pins the view in the transaction that dispatches.
Dispatch ==
  LET k == Cardinality(DOMAIN call) + 1 IN
  /\ Prepared /\ proc.phase = "assessment" /\ k <= MaxCalls
  /\ call' = [x \in DOMAIN call \cup {k} |->
               IF x = k THEN [version |-> version, old |-> FALSE, attempt |-> FALSE] ELSE call[x]]
  /\ reference' = reference \cup Pins("call", k)
  /\ proc' = [proc EXCEPT !.at = "dispatched", !.call = k]
  /\ UNCHANGED <<situation, cycle, run, cursor, commit>>

\* sealPreparationCycleTx: open references lift, current-cycle references take over.
Sealed(refs, c) ==
  {f \in refs : ~(f.kind = "open_cycle" /\ f.owner = c)}
  \cup CurrentCycleRefs(c, {Source(r) : r \in {x \in Runs : x.cycle = c}})

\* CommitController: pinControllerEvidenceTx for what the commit records, then the seal.
Commit(transition, ends) ==
  LET t == Cardinality(DOMAIN commit) + 1
      pins == (IF proc.call # 0 THEN Pins("assessment", proc.call) ELSE {})
              \cup (IF transition THEN Pins("transition", t) ELSE {})
              \cup (IF ends THEN Pins("lifecycle", t) ELSE {})
  IN
  /\ Prepared \/ (proc.at = "dispatched" /\ Fenced)
  /\ t <= MaxCommits
  /\ ends => transition
  /\ reference' = Sealed(reference \cup pins, current)
  /\ cycle' = [cycle EXCEPT ![current].sealed = TRUE]
  /\ generation' = current[2]
  /\ ended' = ends
  /\ call' = [k \in DOMAIN call |-> IF k = proc.call THEN [call[k] EXCEPT !.attempt = TRUE] ELSE call[k]]
  /\ commit' = [x \in DOMAIN commit \cup {t} |->
                 IF x = t THEN [call |-> proc.call, transition |-> transition, old |-> FALSE,
                                seen |-> Seen, detail |-> Detailed(Seen)]
                 ELSE commit[x]]
  /\ proc' = Idle
  /\ UNCHANGED <<version, current, run, cursor>>

\* The process stops, loses its lease, or meets an input that overtook it.
Abandon ==
  /\ proc.at # "idle" /\ (Fenced => Disturbances < MaxDisturbances)
  /\ proc' = Idle
  /\ abandons' = IF Fenced THEN abandons + 1 ELSE abandons
  /\ UNCHANGED <<situation, rows, decisions>>
-----------------------------------------------------------------------------
\* What the current state uses (storage_protected_transitions, _attempts).
Latest(S) == IF S = {} THEN {} ELSE {Max(S)}
ProtectedTransitions == Latest({t \in DOMAIN commit : commit[t].transition})
AssessmentAt(t) == Latest({k \in {commit[u].call : u \in 1..t} : k # 0})
ProtectedAttempts ==
  AssessmentAt(Cardinality(DOMAIN commit)) \cup UNION {AssessmentAt(t) : t \in ProtectedTransitions}

\* expireTransitionDetails, releaseAttemptEvidence with releaseAttemptCallsTx and
\* releaseOrphanCallEvidence, releaseLifecycleEvidence: the references of decisions
\* past the cutoff, and of calls that never became an attempt.
Releasable(f) ==
  LET n == f.owner[1] IN
  CASE f.kind = "transition" -> commit[n].old /\ n \notin ProtectedTransitions
    [] f.kind = "lifecycle" -> commit[n].old
    [] f.kind \in {"assessment", "call"} ->
         /\ call[n].old
         /\ IF call[n].attempt THEN n \notin ProtectedAttempts ELSE version > call[n].version \/ ended
    [] OTHER -> FALSE

\* RunStorageMaintenance: the steps of one pass, in order.
Step(at, next) == maintenance = at /\ maintenance' = next

ReleaseEvidence ==
  /\ Step("off", "details")
  /\ \E c \in Cycles : cycle[c].old      \* an earlier pass finds nothing
  /\ reference' = {f \in reference : ~Releasable(f)}
  /\ UNCHANGED <<situation, cycle, run, cursor, decisions, proc>>

Protects(r) == \E f \in reference : f.run = r /\ f.full

\* pruneObservationDetails.
Unprotected(r) ==
  /\ run[r].old /\ ~Protects(r)
  /\ \A p \in Runs : run[p].source = r => ~Protects(p)

ExpireDetails ==
  /\ Step("details", "cursors")
  /\ run' = [r \in Runs |-> IF Unprotected(r) THEN [run[r] EXCEPT !.expired = TRUE] ELSE run[r]]
  /\ UNCHANGED <<situation, cycle, reference, cursor, decisions, proc>>

\* Faulty: a refresh cursor is never deleted.
CursorForever(s) == FALSE

\* pruneStaleRefreshCursors.
StaleCursor(s) ==
  /\ cursor[s].past
  /\ cursor[s].last # NoRun => Expired(cursor[s].last)

PruneCursors ==
  /\ Step("cursors", "trim")
  /\ cursor' = [s \in Slots |-> IF StaleCursor(s) THEN NoCursor ELSE cursor[s]]
  /\ UNCHANGED <<situation, cycle, run, reference, decisions, proc>>

\* Faulty: a reuse plan does not keep its source.
NeededByRuns(r) ==
  \/ ~Expired(r)
  \/ \E f \in reference : f.run = r
  \/ \E p \in Runs : run[p].source = r
  \/ \E s \in Slots : cursor[s].last = r

\* observationRunNeeded.
Needed(r) ==
  \/ ~Expired(r)
  \/ \E f \in reference : f.run = r
  \/ \E p \in Runs : run[p].source = r
  \/ \E c \in Cycles : r \in Reused(cycle[c].plan)
  \/ \E s \in Slots : cursor[s].last = r

\* Faulty: the trim takes the latest result of a slot when nothing else needs it.
UnneededHead(c) ==
  {s \in Slots : /\ cycle[c].plan[s].tier # None
                 /\ LET r == [cycle |-> c, slot |-> s] IN r \in Runs => ~Needed(r)}

\* unneededPlansTx: plans that never ran, or whose run nothing needs.
Unneeded(c) ==
  {s \in Slots : /\ cycle[c].plan[s].tier # None
                 /\ LET r == [cycle |-> c, slot |-> s] IN r \in Runs => ~Needed(r) /\ r \notin Heads}

RunsOf(c, slots) == {r \in Runs : r.cycle = c /\ r.slot \in slots}
Removed(gone) ==
  /\ run' = Restrict(run, Runs \ gone)
  /\ reference' = {f \in reference : f.run \notin gone}

\* readAbandonedCyclePageTx: an open cycle nothing can resume.
Abandoned(c) ==
  /\ ~cycle[c].sealed /\ c # current
  /\ version > c[1] \/ ended \/ c[2] <= generation

Trimmable(c) ==
  /\ cycle[c].old /\ c # current /\ (cycle[c].sealed \/ Abandoned(c))
  /\ Unneeded(c) # {}

Newer(c, d) == c[2] > d[2] \/ (c[2] = d[2] /\ c[1] > d[1])

\* trimObservationCycles and pruneAbandonedCycles, the newest cycle first
\* (trimObservationCycleTx).
Trim(c) ==
  /\ maintenance = "trim" /\ Trimmable(c)
  /\ \A d \in Cycles : Trimmable(d) => ~Newer(d, c)
  /\ cycle' = [cycle EXCEPT ![c].plan = [s \in Slots |-> IF s \in Unneeded(c) THEN NoPlan ELSE @[s]]]
  /\ Removed(RunsOf(c, Unneeded(c)))
  /\ UNCHANGED <<situation, cursor, decisions, proc, maintenance>>

\* pruneObservationMetadata for a sealed cycle, the end of pruneAbandonedCycles for
\* an open one (pruneObservationCycleTx).
Prunable(c) ==
  /\ cycle[c].old /\ c # current
  /\ \A s \in Slots : cursor[s].admitted # c
  /\ IF cycle[c].sealed THEN \A r \in RunsOf(c, Slots) : ~Needed(r) /\ r \notin Heads
     ELSE Abandoned(c) /\ \A s \in Slots : cycle[c].plan[s].tier = None

PruneCycles ==
  LET gone == {c \in Cycles : Prunable(c)} IN
  /\ Step("trim", "off")
  /\ \A c \in Cycles : ~Trimmable(c)
  /\ cycle' = Restrict(cycle, Cycles \ gone)
  /\ Removed(UNION {RunsOf(c, Slots) : c \in gone})
  /\ UNCHANGED <<situation, cursor, decisions, proc>>

Retention ==
  /\ \/ ReleaseEvidence \/ ExpireDetails \/ PruneCursors \/ PruneCycles
     \/ \E c \in Cycles : Trim(c)
  /\ UNCHANGED abandons

Reconcile ==
  /\ \/ Abandon
     \/ /\ \/ Begin \/ PrepareAssessment \/ Dispatch
           \/ \E due \in SUBSET Slots : Load(due)
           \/ \E s \in Slots : Reserve(s) \/ CommitRun(s)
           \/ \E transition, ends \in BOOLEAN : Commit(transition, ends)
        /\ UNCHANGED abandons
  /\ UNCHANGED maintenance

Elapse ==
  /\ Input \/ Age
  /\ UNCHANGED <<maintenance, abandons>>

Next == Reconcile \/ Elapse \/ Retention

Spec == Init /\ [][Next]_vars
\* Maintenance runs every hour and, between passes, time goes on; nothing else is
\* promised.
FairSpec == Spec /\ WF_vars(Retention) /\ SF_vars(Age /\ UNCHANGED <<maintenance, abandons>>)
-----------------------------------------------------------------------------
\* Properties.

\* Every row is a row of its table, and a pointer names an id of the right table.
CycleIds == (Nat \ {0}) \X (Nat \ {0})
RunIds == [cycle : CycleIds, slot : Slots]
SomeRun == RunIds \cup {NoRun}
SomeCycle == CycleIds \cup {NoCycle}
CycleRows ==
  [sealed : BOOLEAN, old : BOOLEAN,
   plan : [Slots -> [tier : {None, "reuse"} \cup {TierOf(s) : s \in Slots}, reuse : SomeRun]]]
RunRows == [source : SomeRun, old : BOOLEAN, expired : BOOLEAN]
CommitRows ==
  [call : Nat, transition : BOOLEAN, old : BOOLEAN, seen : SUBSET RunIds, detail : SUBSET RunIds]
Kinds == Temporary \cup {"call", "assessment", "transition", "lifecycle"}

SituationType ==
  version \in Nat \ {0} /\ generation \in Nat /\ current \in SomeCycle /\ ended \in BOOLEAN
CycleType == Cycles \subseteq CycleIds /\ \A c \in Cycles : cycle[c] \in CycleRows
RunType == Runs \subseteq RunIds /\ \A r \in Runs : run[r] \in RunRows
ReferenceType ==
  \A f \in reference : f \in [run : RunIds, kind : Kinds, owner : Nat \X Nat, full : BOOLEAN]
CursorType == cursor \in [Slots -> [past : BOOLEAN, last : SomeRun, admitted : SomeCycle]]
CallType ==
  /\ DOMAIN call \subseteq Nat \ {0}
  /\ \A k \in DOMAIN call : call[k] \in [version : Nat, old : BOOLEAN, attempt : BOOLEAN]
CommitType == DOMAIN commit \subseteq Nat \ {0} /\ \A t \in DOMAIN commit : commit[t] \in CommitRows
ProcType ==
  /\ proc \in [at : {"idle", "loaded", "begun", "dispatched"}, version : Nat,
               phase : {"lifecycle", "assessment"}, last : {proc.last}, due : SUBSET Slots, call : Nat]
  /\ proc.at = "loaded" => proc.last \in [Slots -> SomeRun]
PassType == maintenance \in {"off", "details", "cursors", "trim"} /\ abandons \in Nat

TypeOK ==
  /\ SituationType /\ CycleType /\ RunType /\ ReferenceType /\ CursorType
  /\ CallType /\ CommitType /\ ProcType /\ PassType

Protected(t) ==
  t \in ProtectedTransitions \/ (commit[t].call # 0 /\ commit[t].call \in ProtectedAttempts)

\* What the Situation's current Transition and Assessment were decided on stays: every
\* run they saw, in full where it had its detail then (insertPermanentObservationReferencesTx
\* against releaseAttemptEvidence, pruneObservationDetails and trimObservationCycles).
EvidenceIsKept ==
  \A t \in DOMAIN commit : Protected(t) =>
    /\ commit[t].seen \subseteq Runs
    /\ \A r \in commit[t].detail : ~Expired(r)

\* Retention removes no row another row points at, and a reuse source reuses nothing
\* (observationRunNeeded; a broken link is a foreign key failure that stops the pass).
LinksResolve ==
  /\ current \in Cycles \cup {NoCycle}
  /\ \A s \in Slots : /\ cursor[s].last \in Runs \cup {NoRun}
                      /\ cursor[s].admitted \in Cycles \cup {NoCycle}
  /\ \A f \in reference : f.run \in Runs
  /\ \A r \in Runs : /\ r.cycle \in Cycles /\ cycle[r.cycle].plan[r.slot].tier # None
                     /\ run[r].source # NoRun => /\ run[r].source \in Runs
                                                 /\ run[run[r].source].source = NoRun
  /\ \A c \in Cycles : Reused(cycle[c].plan) \subseteq Runs

\* What a step does to the decision view: only new rows, an input or a new cycle
\* change it.
ViewKept == UNCHANGED <<version, current>> /\ Heads' # Heads => Runs \subseteq Runs'

\* Removing rows never changes the decision view: no older result becomes the latest
\* of its slot (currentHeadRunsTx).
ViewIsStable == [][ViewKept]_vars

\* What an ended Situation still needs: its current cycle, the view, what its last
\* decisions saw, and the sources of those.
Kept ==
  LET base == {r \in Runs : r.cycle = current} \cup Heads
              \cup UNION {commit[t].seen : t \in {u \in DOMAIN commit : Protected(u)}}
  IN  base \cup {Source(r) : r \in base} \cup UNION {Reused(cycle[c].plan) : c \in Cycles \cap {current}}

\* No chain of reused runs keeps more of its history than that.
Reclaimed ==
  /\ Runs \subseteq Kept
  /\ \A c \in Cycles : \/ c = current \/ \E r \in Kept : r.cycle = c
                       \/ \E s \in Slots : cursor[s].admitted = c
=============================================================================
