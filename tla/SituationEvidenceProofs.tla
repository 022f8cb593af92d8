---------------------- MODULE SituationEvidenceProofs ----------------------
(***************************************************************************)
(* Proofs about Preparation, for every set of slots, every tier and phase  *)
(* of them, every request cap and every bound; and about the change of a   *)
(* semantic profile on its way to the Situations, for every set of them,   *)
(* every page size and every number of workers.                            *)
(*                                                                         *)
(* The links between rows need one fact more than they state: what a       *)
(* cursor, a plan or the loaded state points at for reuse reuses nothing   *)
(* itself, so that a projection is never projected again.  The decision    *)
(* view needs that every slot with a result has a latest one, which a set  *)
(* of generations bounded by the current one has.  That the evidence of    *)
(* the current decisions is kept rests on the references: each run such a  *)
(* decision saw has a row of its own kind, and the set of decisions in use *)
(* only ever gains the one being committed.                                *)
(*                                                                         *)
(* That no Situation stays behind a profile needs the same of a run that   *)
(* has read its guidance and may still commit it: what it has seen is the  *)
(* head, or the change is on its way.  A page that is not full leaves      *)
(* nobody out, and who is not on a full page comes after its last member.  *)
(***************************************************************************)
EXTENDS SituationEvidence, FiniteSetTheorems, WellFoundedInduction, TLAPS

ReusesNothing(r) == run[r].source = NoRun

\* What is reused was itself read, and the reconciliation works on a cycle that is there.
Sources ==
  /\ \A s \in Slots : cursor[s].last # NoRun => ReusesNothing(cursor[s].last)
  /\ \A c \in Cycles : \A r \in Reused(cycle[c].plan) : ReusesNothing(r)
  /\ proc.at = "loaded" => \A s \in Slots : proc.last[s] \in Runs => ReusesNothing(proc.last[s])
  /\ proc.at \in {"begun", "dispatched"} => current \in Cycles

Links == TypeOK /\ LinksResolve /\ Sources

\* The references of decision n, of kind k, cover what commit t saw.
Held(t, k, n) ==
  \A r \in commit[t].seen : \E f \in reference :
    f.run = r /\ f.kind = k /\ f.owner = <<n, 0>> /\ (r \in commit[t].detail => f.full)

\* Calls and commits are numbered without a gap.
Gapless ==
  /\ \E n \in Nat : DOMAIN commit = 1..n
  /\ \E m \in Nat : DOMAIN call = 1..m

\* A committed call became an attempt; a call belongs to one commit at most.
Numbered ==
  /\ \A t \in DOMAIN commit : commit[t].call # 0 =>
       commit[t].call \in DOMAIN call /\ call[commit[t].call].attempt
  /\ proc.call # 0 => proc.call \in DOMAIN call /\ \A t \in DOMAIN commit : commit[t].call # proc.call

Covered ==
  \A t \in DOMAIN commit :
    /\ commit[t].detail \subseteq commit[t].seen
    /\ t \in ProtectedTransitions => Held(t, "transition", t)
    /\ commit[t].call # 0 /\ commit[t].call \in ProtectedAttempts =>
         Held(t, "assessment", commit[t].call)

Evidence == Numbered /\ Covered /\ EvidenceIsKept
-----------------------------------------------------------------------------

-----------------------------------------------------------------------------
\* Types.

LEMMA NoneIsNoId == NoRun \notin RunIds /\ NoCycle \notin CycleIds
BY DEF NoRun, RunIds, NoCycle, CycleIds

LEMMA TypeInit == Init => TypeOK
<1> SUFFICES ASSUME Init PROVE TypeOK
  OBVIOUS
<1>1. \A s \in Slots : cursor[s] = NoCursor
  BY DEF Init
<1>2. cursor \in [Slots -> [past : BOOLEAN, last : SomeRun, admitted : SomeCycle]]
  BY DEF Init, NoCursor, SomeRun, SomeCycle
<1>3. Cycles = {} /\ Runs = {} /\ DOMAIN call = {} /\ DOMAIN commit = {}
  BY DEF Init, Cycles, Runs
<1>4. ProcType
  BY DEF Init, ProcType, Idle
<1>5. SituationType /\ PassType
  <2>1. version = 1 /\ generation = 0 /\ abandons = 0
    BY DEF Init
  <2>2. ended \in BOOLEAN
    BY Zenon DEF Init
  <2>3. current \in SomeCycle
    BY DEF Init, SomeCycle
  <2>4. maintenance = "off"
    BY DEF Init
  <2>5. QED
    BY <2>1, <2>2, <2>3, <2>4 DEF SituationType, PassType
<1>6. ReferenceType
  BY DEF Init, ReferenceType
<1>7. CycleType /\ RunType /\ CallType /\ CommitType
  BY <1>3 DEF CycleType, RunType, CallType, CommitType
<1>8. QED
  BY <1>2, <1>4, <1>5, <1>6, <1>7 DEF TypeOK, CursorType

\* What a view shows is made of runs.
LEMMA HeadsAreRuns == Heads \subseteq Runs
BY DEF Heads

LEMMA SourceIsRun ==
  ASSUME LinksResolve, NEW r \in Runs PROVE Source(r) \in Runs
BY DEF LinksResolve, Source

LEMMA SeenAreRuns == LinksResolve => Seen \subseteq Runs
BY HeadsAreRuns, SourceIsRun DEF Seen

LEMMA PinsType ==
  ASSUME TypeOK, LinksResolve, NEW kind \in Kinds, NEW n \in Nat, NEW f \in Pins(kind, n)
  PROVE  /\ f \in [run : RunIds, kind : Kinds, owner : Nat \X Nat, full : BOOLEAN]
         /\ f.kind = kind /\ f.owner = <<n, 0>> /\ f.run \in Seen /\ f.run \in Runs
         /\ f.full = (f.run \in Detailed(Seen))
<1>1. PICK r \in Seen : f = [Ref(r, kind, <<n, 0>>) EXCEPT !.full = r \in Detailed(Seen)]
  BY DEF Pins, Pinned
<1> DEFINE b == r \in Detailed(Seen)
<1>2. b \in BOOLEAN
  OBVIOUS
<1> HIDE DEF b
<1>3. f = [run |-> r, kind |-> kind, owner |-> <<n, 0>>, full |-> b]
  BY <1>1 DEF Ref, b
<1>4. r \in Runs /\ r \in RunIds
  BY <1>1, SeenAreRuns DEF TypeOK, RunType
<1>5. <<n, 0>> \in Nat \X Nat
  OBVIOUS
<1>6. f \in [run : RunIds, kind : Kinds, owner : Nat \X Nat, full : BOOLEAN]
  BY <1>2, <1>3, <1>4, <1>5
<1>7. f.run = r /\ f.kind = kind /\ f.owner = <<n, 0>> /\ f.full = b
  BY <1>3
<1>8. QED
  BY <1>1, <1>4, <1>6, <1>7 DEF b

\* Each pinned run has its row, in full where the view has its detail.
LEMMA PinsCover ==
  ASSUME NEW kind, NEW n, NEW r \in Seen
  PROVE  \E f \in Pins(kind, n) : /\ f.run = r /\ f.kind = kind /\ f.owner = <<n, 0>>
                                  /\ r \in Detailed(Seen) => f.full
<1> DEFINE b == r \in Detailed(Seen)
           f == [Ref(r, kind, <<n, 0>>) EXCEPT !.full = b]
<1>1. f \in Pins(kind, n)
  BY DEF Pins, Pinned
<1> HIDE DEF b
<1>2. f = [run |-> r, kind |-> kind, owner |-> <<n, 0>>, full |-> b]
  BY DEF Ref
<1>3. f.run = r /\ f.kind = kind /\ f.owner = <<n, 0>> /\ f.full = b
  BY <1>2
<1> HIDE DEF f
<1>4. QED
  BY <1>1, <1>3 DEF b

LEMMA CurrentRefsType ==
  ASSUME TypeOK, NEW c \in SomeCycle, NEW S \in SUBSET Runs, NEW f \in CurrentCycleRefs(c, S)
  PROVE  /\ f \in [run : RunIds, kind : Kinds, owner : Nat \X Nat, full : BOOLEAN]
         /\ f.run \in S /\ f.kind = "current_cycle"
<1>1. PICK r \in S : f = Ref(r, "current_cycle", c)
  BY DEF CurrentCycleRefs
<1>2. c \in Nat \X Nat
  BY DEF SomeCycle, CycleIds, NoCycle
<1>3. r \in RunIds
  BY DEF TypeOK, RunType
<1>4. f = [run |-> r, kind |-> "current_cycle", owner |-> c, full |-> TRUE]
  BY <1>1 DEF Ref
<1>5. QED
  BY <1>2, <1>3, <1>4 DEF Kinds, Temporary

-----------------------------------------------------------------------------
\* Links: what a step that removes no row has to show.

LEMMA LinksInit == Init => LinksResolve /\ Sources
<1> SUFFICES ASSUME Init PROVE LinksResolve /\ Sources
  OBVIOUS
<1>1. Cycles = {} /\ Runs = {} /\ reference = {} /\ current = NoCycle /\ proc.at = "idle"
  BY DEF Init, Cycles, Runs, Idle
<1>2. \A s \in Slots : cursor[s].last = NoRun /\ cursor[s].admitted = NoCycle
  BY DEF Init, NoCursor
<1>3. QED
  BY <1>1, <1>2 DEF LinksResolve, Sources

LEMMA LinksKept ==
  ASSUME LinksResolve, Sources,
         Cycles' = Cycles, \A c \in Cycles : cycle'[c].plan = cycle[c].plan,
         Runs' = Runs, \A r \in Runs : run'[r].source = run[r].source,
         \A f \in reference' : f \in reference \/ f.run \in Runs,
         \A s \in Slots : cursor'[s].last \in {cursor[s].last, NoRun},
         \A s \in Slots : cursor'[s].admitted \in {cursor[s].admitted, NoCycle} \cup Cycles,
         current' \in {current} \cup Cycles,
         proc'.at = "loaded" => \A s \in Slots : proc'.last[s] \in Runs => ReusesNothing(proc'.last[s]),
         proc'.at \in {"begun", "dispatched"} => current' \in Cycles
  PROVE  LinksResolve' /\ Sources'
<1>1. \A c \in Cycles : Reused(cycle'[c].plan) = Reused(cycle[c].plan)
  OBVIOUS
<1>2. \A r \in Runs : ReusesNothing(r)' <=> ReusesNothing(r)
  BY DEF ReusesNothing
<1>3. \A s \in Slots : /\ cursor'[s].last \in Runs \cup {NoRun}
                       /\ cursor'[s].admitted \in Cycles \cup {NoCycle}
                       /\ cursor'[s].last # NoRun => ReusesNothing(cursor'[s].last)
  BY DEF LinksResolve, Sources
<1>4. \A r \in Runs : /\ r.cycle \in Cycles /\ cycle'[r.cycle].plan[r.slot].tier # None
                      /\ run'[r].source # NoRun => /\ run'[r].source \in Runs
                                                   /\ run'[run'[r].source].source = NoRun
  <2> SUFFICES ASSUME NEW r \in Runs
               PROVE  /\ r.cycle \in Cycles /\ cycle'[r.cycle].plan[r.slot].tier # None
                      /\ run'[r].source # NoRun => /\ run'[r].source \in Runs
                                                   /\ run'[run'[r].source].source = NoRun
    OBVIOUS
  <2>1. /\ r.cycle \in Cycles /\ cycle[r.cycle].plan[r.slot].tier # None
        /\ run[r].source # NoRun => /\ run[r].source \in Runs
                                    /\ run[run[r].source].source = NoRun
    BY DEF LinksResolve
  <2>2. run'[r].source = run[r].source /\ cycle'[r.cycle].plan = cycle[r.cycle].plan
    BY <2>1
  <2>3. QED
    BY <2>1, <2>2
<1>5. \A f \in reference' : f.run \in Runs
  BY DEF LinksResolve
<1>6. \A c \in Cycles : Reused(cycle'[c].plan) \subseteq Runs
  BY <1>1 DEF LinksResolve
<1>7. current' \in Cycles \cup {NoCycle}
  BY DEF LinksResolve
<1>8. LinksResolve'
  BY <1>3, <1>4, <1>5, <1>6, <1>7 DEF LinksResolve
<1>9. \A c \in Cycles : \A r \in Reused(cycle'[c].plan) : ReusesNothing(r)'
  BY <1>1, <1>2, <1>6 DEF Sources
<1>11. proc'.at = "loaded" => \A s \in Slots : proc'.last[s] \in Runs => run'[proc'.last[s]].source = NoRun
  BY <1>2 DEF ReusesNothing
<1>12. \A s \in Slots : cursor'[s].last # NoRun => run'[cursor'[s].last].source = NoRun
  BY <1>3, <1>2 DEF ReusesNothing
<1>13. \A c \in Cycles : \A r \in Reused(cycle'[c].plan) : run'[r].source = NoRun
  BY <1>9 DEF ReusesNothing
<1>14. Sources'
  BY <1>11, <1>12, <1>13 DEF Sources, ReusesNothing, Reused
<1>15. QED
  BY <1>8, <1>14

\* Removing rows nothing points at leaves no pointer dangling.
LEMMA LinksAfterRemoval ==
  ASSUME TypeOK, LinksResolve, Sources,
         NEW gone \in SUBSET Runs,
         \A r \in gone : ~Needed(r),
         Removed(gone),
         Cycles' \subseteq Cycles,
         \A c \in Cycles' : \A s \in Slots : cycle'[c].plan[s] \in {cycle[c].plan[s], NoPlan},
         \A r \in Runs \ gone : r.cycle \in Cycles' /\ cycle'[r.cycle].plan[r.slot] = cycle[r.cycle].plan[r.slot],
         current \in Cycles => current \in Cycles',
         \A s \in Slots : cursor[s].admitted \in Cycles => cursor[s].admitted \in Cycles',
         UNCHANGED <<situation, cursor, proc>>
  PROVE  LinksResolve' /\ Sources'
<1>1. /\ Runs' = Runs \ gone /\ \A r \in Runs \ gone : run'[r] = run[r]
      /\ reference' = {f \in reference : f.run \notin gone}
  BY DEF Removed, Restrict, Runs
<1>2. current' = current /\ cursor' = cursor /\ proc' = proc
  BY DEF situation
<1>3. \A r \in gone : /\ \A f \in reference : f.run # r
                      /\ \A p \in Runs : run[p].source # r
                      /\ \A c \in Cycles : r \notin Reused(cycle[c].plan)
                      /\ \A s \in Slots : cursor[s].last # r
  BY DEF Needed
<1>4. \A c \in Cycles' : Reused(cycle'[c].plan) \subseteq Reused(cycle[c].plan)
  <2> SUFFICES ASSUME NEW c \in Cycles', NEW r \in Reused(cycle'[c].plan)
               PROVE  r \in Reused(cycle[c].plan)
    OBVIOUS
  <2>1. PICK s \in Slots : r = cycle'[c].plan[s].reuse /\ r # NoRun
    BY DEF Reused
  <2>2. cycle'[c].plan[s] = cycle[c].plan[s] \/ cycle'[c].plan[s] = NoPlan
    OBVIOUS
  <2>3. NoPlan.reuse = NoRun
    BY DEF NoPlan
  <2>4. r = cycle[c].plan[s].reuse
    BY <2>1, <2>2, <2>3
  <2>5. QED
    BY <2>1, <2>4 DEF Reused
<1>5. \A c \in Cycles' : /\ Reused(cycle'[c].plan) \subseteq Runs \ gone
                         /\ \A r \in Reused(cycle'[c].plan) : run[r].source = NoRun
  BY <1>3, <1>4 DEF LinksResolve, Sources, ReusesNothing
<1>6. \A s \in Slots : /\ cursor[s].last \in (Runs \ gone) \cup {NoRun}
                       /\ cursor[s].admitted \in Cycles' \cup {NoCycle}
                       /\ cursor[s].last # NoRun => run[cursor[s].last].source = NoRun
  BY <1>3 DEF LinksResolve, Sources, ReusesNothing
<1>7. \A f \in reference' : f.run \in Runs'
  BY <1>1 DEF LinksResolve
<1>8. \A r \in Runs' : /\ r.cycle \in Cycles' /\ cycle'[r.cycle].plan[r.slot].tier # None
                       /\ run'[r].source # NoRun => /\ run'[r].source \in Runs'
                                                    /\ run'[run'[r].source].source = NoRun
  <2> SUFFICES ASSUME NEW r \in Runs \ gone
               PROVE  /\ r.cycle \in Cycles' /\ cycle'[r.cycle].plan[r.slot].tier # None
                      /\ run[r].source # NoRun => /\ run[r].source \in Runs \ gone
                                                  /\ run'[run[r].source].source = NoRun
    BY <1>1
  <2>1. /\ r.cycle \in Cycles /\ cycle[r.cycle].plan[r.slot].tier # None
        /\ run[r].source # NoRun => /\ run[r].source \in Runs
                                    /\ run[run[r].source].source = NoRun
    BY DEF LinksResolve
  <2>2. run[r].source \notin gone
    BY <1>3
  <2>3. QED
    BY <1>1, <2>1, <2>2
<1>9. current' \in Cycles' \cup {NoCycle}
  BY <1>2 DEF LinksResolve
<1>10. \A s \in Slots : /\ cursor'[s].last \in Runs' \cup {NoRun}
                        /\ cursor'[s].admitted \in Cycles' \cup {NoCycle}
  BY <1>1, <1>2, <1>6
<1>11. \A c \in Cycles' : Reused(cycle'[c].plan) \subseteq Runs'
  BY <1>1, <1>5
<1>12. LinksResolve'
  BY <1>7, <1>8, <1>9, <1>10, <1>11 DEF LinksResolve
<1>13. \A s \in Slots : cursor'[s].last # NoRun => run'[cursor'[s].last].source = NoRun
  BY <1>1, <1>2, <1>6
<1>14. \A c \in Cycles' : \A r \in Reused(cycle'[c].plan) : run'[r].source = NoRun
  BY <1>1, <1>5
<1>15. proc'.at = "loaded" => \A s \in Slots : proc'.last[s] \in Runs' => run'[proc'.last[s]].source = NoRun
  BY <1>1, <1>2 DEF Sources, ReusesNothing
<1>16. proc'.at \in {"begun", "dispatched"} => current' \in Cycles'
  BY <1>2 DEF Sources
<1>17. Sources'
  BY <1>13, <1>14, <1>15, <1>16 DEF Sources, ReusesNothing, Reused
<1>18. QED
  BY <1>12, <1>17

-----------------------------------------------------------------------------
\* The actions that remove no row.

LEMMA LinksInput == Links /\ Input /\ UNCHANGED <<maintenance, abandons>> => Links'
<1> SUFFICES ASSUME Links, Input, UNCHANGED <<maintenance, abandons>> PROVE Links'
  OBVIOUS
<1>1. /\ version' = version + 1 /\ UNCHANGED <<generation, current, ended, cycle, run, reference, cursor>>
      /\ UNCHANGED <<call, commit, proc, maintenance, abandons>>
  BY DEF Input, rows, decisions
<1>2. TypeOK'
  BY <1>1 DEF Links, TypeOK, SituationType, CycleType, RunType, ReferenceType, CursorType, CallType,
              CommitType, ProcType, PassType, Cycles, Runs
<1>3. LinksResolve' /\ Sources'
  BY <1>1 DEF Links, LinksResolve, Sources, ReusesNothing, Cycles, Runs
<1>4. QED
  BY <1>2, <1>3 DEF Links

LEMMA LinksStutter == Links /\ UNCHANGED vars => Links'
<1> SUFFICES ASSUME Links, UNCHANGED vars PROVE Links'
  OBVIOUS
<1>1. /\ UNCHANGED <<version, generation, current, ended, cycle, run, reference, cursor>>
      /\ UNCHANGED <<call, commit, proc, maintenance, abandons>>
  BY DEF vars, situation, rows, decisions
<1>2. QED
  BY <1>1 DEF Links, TypeOK, SituationType, CycleType, RunType, ReferenceType, CursorType, CallType,
              CommitType, ProcType, PassType, Cycles, Runs, LinksResolve, Sources, ReusesNothing

\* A row that only ages keeps its links.
LEMMA LinksAge == Links /\ Age /\ UNCHANGED <<maintenance, abandons>> => Links'
<1> SUFFICES ASSUME Links, Age, UNCHANGED <<maintenance, abandons>> PROVE Links'
  OBVIOUS
<1>1. UNCHANGED <<version, generation, current, ended, reference, proc, maintenance, abandons>>
  BY DEF Age, situation
<1>2. Cycles' = Cycles /\ \A c \in Cycles : cycle'[c] \in CycleRows /\ cycle'[c].plan = cycle[c].plan
  <2>1. cycle' = [c \in Cycles |-> [cycle[c] EXCEPT !.old = TRUE]]
    BY DEF Age
  <2>2. \A c \in Cycles : cycle[c] \in CycleRows
    BY DEF Links, TypeOK, CycleType
  <2>3. \A x \in CycleRows : [x EXCEPT !.old = TRUE] \in CycleRows /\ [x EXCEPT !.old = TRUE].plan = x.plan
    BY DEF CycleRows
  <2>4. QED
    BY <2>1, <2>2, <2>3 DEF Cycles
<1>3. Runs' = Runs /\ \A r \in Runs : run'[r] \in RunRows /\ run'[r].source = run[r].source
  <2>1. run' = [r \in Runs |-> [run[r] EXCEPT !.old = TRUE]]
    BY DEF Age
  <2>2. \A r \in Runs : run[r] \in RunRows
    BY DEF Links, TypeOK, RunType
  <2>3. \A x \in RunRows : [x EXCEPT !.old = TRUE] \in RunRows /\ [x EXCEPT !.old = TRUE].source = x.source
    BY DEF RunRows
  <2>4. QED
    BY <2>1, <2>2, <2>3 DEF Runs
<1>4. /\ CursorType'
      /\ \A s \in Slots : cursor'[s].last = cursor[s].last /\ cursor'[s].admitted = cursor[s].admitted
  <2> DEFINE Row == [past : BOOLEAN, last : SomeRun, admitted : SomeCycle]
  <2>1. \A x \in Row : /\ [x EXCEPT !.past = TRUE] \in Row
                       /\ [x EXCEPT !.past = TRUE].last = x.last
                       /\ [x EXCEPT !.past = TRUE].admitted = x.admitted
    OBVIOUS
  <2>2. cursor \in [Slots -> Row]
    BY DEF Links, TypeOK, CursorType
  <2>3. cursor' = [s \in Slots |-> IF cursor[s] = NoCursor THEN NoCursor ELSE [cursor[s] EXCEPT !.past = TRUE]]
    BY DEF Age
  <2>4. \A s \in Slots : cursor'[s] = cursor[s] \/ cursor'[s] = [cursor[s] EXCEPT !.past = TRUE]
    BY <2>3
  <2> HIDE DEF Row
  <2>5. \A s \in Slots : /\ cursor'[s] \in Row /\ cursor'[s].last = cursor[s].last
                         /\ cursor'[s].admitted = cursor[s].admitted
    BY <2>1, <2>2, <2>4
  <2>6. cursor' \in [Slots -> Row]
    BY <2>3, <2>5
  <2>7. QED
    BY <2>5, <2>6 DEF CursorType, Row
<1>5. CallType'
  <2> DEFINE Row == [version : Nat, old : BOOLEAN, attempt : BOOLEAN]
  <2>1. \A x \in Row : [x EXCEPT !.old = TRUE] \in Row
    OBVIOUS
  <2>2. DOMAIN call \subseteq Nat \ {0} /\ \A k \in DOMAIN call : call[k] \in Row
    BY DEF Links, TypeOK, CallType
  <2>3. call' = [k \in DOMAIN call |-> [call[k] EXCEPT !.old = TRUE]]
    BY DEF Age
  <2> HIDE DEF Row
  <2>4. DOMAIN call' = DOMAIN call /\ \A k \in DOMAIN call : call'[k] \in Row
    BY <2>1, <2>2, <2>3
  <2>5. QED
    BY <2>2, <2>4 DEF CallType, Row
<1>6. CommitType'
  <2>1. \A x \in CommitRows : [x EXCEPT !.old = TRUE] \in CommitRows
    BY DEF CommitRows
  <2>2. DOMAIN commit \subseteq Nat \ {0} /\ \A t \in DOMAIN commit : commit[t] \in CommitRows
    BY DEF Links, TypeOK, CommitType
  <2>3. commit' = [t \in DOMAIN commit |-> [commit[t] EXCEPT !.old = TRUE]]
    BY DEF Age
  <2>4. DOMAIN commit' = DOMAIN commit /\ \A t \in DOMAIN commit : commit'[t] \in CommitRows
    BY <2>1, <2>2, <2>3
  <2>5. QED
    BY <2>2, <2>4 DEF CommitType
<1>7. CycleType' /\ RunType'
  BY <1>2, <1>3 DEF Links, TypeOK, CycleType, RunType
<1>8. SituationType' /\ ReferenceType' /\ ProcType' /\ PassType'
  BY <1>1 DEF Links, TypeOK, SituationType, ReferenceType, ProcType, PassType
<1>9. TypeOK'
  BY <1>4, <1>5, <1>6, <1>7, <1>8 DEF TypeOK
<1>10. LinksResolve' /\ Sources'
  <2>1. LinksResolve /\ Sources
    BY DEF Links
  <2>2. proc'.at = "loaded" => \A s \in Slots : proc'.last[s] \in Runs => ReusesNothing(proc'.last[s])
    BY <1>1, <2>1 DEF Sources
  <2>3. proc'.at \in {"begun", "dispatched"} => current' \in Cycles
    BY <1>1, <2>1 DEF Sources
  <2>4. \A f \in reference' : f \in reference
    BY <1>1
  <2>5. current' = current
    BY <1>1
  <2>6. QED
    BY <1>2, <1>3, <1>4, <2>1, <2>2, <2>3, <2>4, <2>5, LinksKept
<1>11. QED
  BY <1>9, <1>10 DEF Links

\* The loaded state points at what the cursors pointed at.
LEMMA LinksLoad ==
  ASSUME Links, NEW due \in SUBSET Slots, Load(due), UNCHANGED <<maintenance, abandons>> PROVE Links'
<1>1. /\ UNCHANGED <<version, generation, current, ended, cycle, run, reference, cursor>>
      /\ UNCHANGED <<call, commit, maintenance, abandons>>
  BY DEF Load, situation, rows, decisions
<1> DEFINE l == [s \in Slots |-> LastRun(s)]
<1>2. l \in [Slots -> SomeRun] /\ \A s \in Slots : l[s] \in {cursor[s].last, NoRun}
  BY DEF LastRun, Links, TypeOK, CursorType, SomeRun
<1>3. proc' = [at |-> "loaded", version |-> version, phase |-> "lifecycle", last |-> l, due |-> due, call |-> 0]
  BY DEF Load
<1> HIDE DEF l
<1>4. proc'.at = "loaded" /\ proc'.last = l
  BY <1>3
<1>5. version \in Nat
  BY DEF Links, TypeOK, SituationType
<1>6. ProcType'
  BY <1>2, <1>3, <1>4, <1>5 DEF ProcType
<1>7. TypeOK'
  BY <1>1, <1>6 DEF Links, TypeOK, SituationType, CycleType, RunType, ReferenceType, CursorType, CallType,
                    CommitType, PassType, Cycles, Runs
<1>8. \A s \in Slots : l[s] \in Runs => ReusesNothing(l[s])
  <2> SUFFICES ASSUME NEW s \in Slots, l[s] \in Runs PROVE ReusesNothing(l[s])
    OBVIOUS
  <2>1. l[s] # NoRun
    BY NoneIsNoId DEF Links, TypeOK, RunType
  <2>2. l[s] = cursor[s].last
    BY <1>2, <2>1
  <2>3. QED
    BY <2>1, <2>2 DEF Links, Sources
<1>9. LinksResolve'
  BY <1>1 DEF Links, LinksResolve, Cycles, Runs
<1>10. Sources'
  BY <1>1, <1>4, <1>8 DEF Links, Sources, ReusesNothing, Cycles, Runs
<1>11. QED
  BY <1>7, <1>9, <1>10 DEF Links

LEMMA LinksPrepareAssessment ==
  Links /\ PrepareAssessment /\ UNCHANGED <<maintenance, abandons>> => Links'
<1> SUFFICES ASSUME Links, PrepareAssessment, UNCHANGED <<maintenance, abandons>> PROVE Links'
  OBVIOUS
<1>1. /\ UNCHANGED <<version, generation, current, ended, cycle, run, reference, cursor>>
      /\ UNCHANGED <<call, commit, maintenance, abandons>>
  BY DEF PrepareAssessment, situation, rows, decisions
<1>2. proc' = [proc EXCEPT !.phase = "assessment"] /\ proc.at = "begun"
  BY DEF PrepareAssessment, Prepared
<1>3. ProcType' /\ proc'.at = "begun"
  BY <1>2 DEF Links, TypeOK, ProcType
<1>4. TypeOK'
  BY <1>1, <1>3 DEF Links, TypeOK, SituationType, CycleType, RunType, ReferenceType, CursorType, CallType,
                    CommitType, PassType, Cycles, Runs
<1>5. LinksResolve' /\ Sources'
  BY <1>1, <1>2, <1>3 DEF Links, LinksResolve, Sources, ReusesNothing, Cycles, Runs
<1>6. QED
  BY <1>4, <1>5 DEF Links

LEMMA LinksAbandon == Links /\ Abandon /\ UNCHANGED maintenance => Links'
<1> SUFFICES ASSUME Links, Abandon, UNCHANGED maintenance PROVE Links'
  OBVIOUS
<1>1. /\ UNCHANGED <<version, generation, current, ended, cycle, run, reference, cursor>>
      /\ UNCHANGED <<call, commit, maintenance>>
  BY DEF Abandon, situation, rows, decisions
<1>2. ProcType' /\ proc'.at = "idle"
  BY DEF Abandon, ProcType, Idle
<1>3. abandons' \in Nat
  BY DEF Abandon, Links, TypeOK, PassType
<1>4. TypeOK'
  BY <1>1, <1>2, <1>3 DEF Links, TypeOK, SituationType, CycleType, RunType, ReferenceType, CursorType, CallType,
                          CommitType, PassType, Cycles, Runs
<1>5. LinksResolve' /\ Sources'
  BY <1>1, <1>2 DEF Links, LinksResolve, Sources, ReusesNothing, Cycles, Runs
<1>6. QED
  BY <1>4, <1>5 DEF Links

\* admitRefreshTx writes the cursor of one slot.
LEMMA AdmittedCursor ==
  ASSUME TypeOK, NEW s \in Slots, NEW last \in SomeRun, cursor' = Admitted(s, last)
  PROVE  /\ CursorType'
         /\ cursor'[s].admitted = current
         /\ cursor'[s].last = IF last = NoRun THEN cursor[s].last ELSE last
         /\ \A x \in Slots \ {s} : cursor'[x] = cursor[x]
<1> DEFINE p == cursor[s].admitted = current /\ cursor[s].past
           l == IF last = NoRun THEN cursor[s].last ELSE last
<1>1. cursor' = [cursor EXCEPT ![s] = [past |-> p, last |-> l, admitted |-> current]]
  BY DEF Admitted
<1>2. p \in BOOLEAN
  BY DEF TypeOK, CursorType
<1>3. l \in SomeRun
  BY DEF TypeOK, CursorType
<1>4. cursor \in [Slots -> [past : BOOLEAN, last : SomeRun, admitted : SomeCycle]] /\ current \in SomeCycle
  BY DEF TypeOK, CursorType, SituationType
<1>5. l = IF last = NoRun THEN cursor[s].last ELSE last
  OBVIOUS
<1> HIDE DEF p, l
<1>6. cursor'[s] = [past |-> p, last |-> l, admitted |-> current]
  BY <1>1, <1>4
<1>7. cursor' \in [Slots -> [past : BOOLEAN, last : SomeRun, admitted : SomeCycle]]
  <2>1. [past |-> p, last |-> l, admitted |-> current] \in [past : BOOLEAN, last : SomeRun, admitted : SomeCycle]
    BY <1>2, <1>3, <1>4
  <2>2. QED
    BY <1>1, <1>4, <2>1
<1>8. \A x \in Slots \ {s} : cursor'[x] = cursor[x]
  BY <1>1, <1>4
<1>9. cursor'[s].admitted = current /\ cursor'[s].last = l
  BY <1>6
<1>10. QED
  BY <1>5, <1>7, <1>8, <1>9 DEF CursorType

LEMMA LinksReserve ==
  ASSUME Links, NEW s \in Slots, Reserve(s), UNCHANGED <<maintenance, abandons>> PROVE Links'
<1>1. /\ UNCHANGED <<version, generation, current, ended, cycle, run, reference>>
      /\ UNCHANGED <<call, commit, proc, maintenance, abandons>>
  BY DEF Reserve, situation, decisions
<1>2. TypeOK /\ LinksResolve /\ Sources /\ NoRun \in SomeRun /\ current \in Cycles /\ cursor' = Admitted(s, NoRun)
  BY DEF Links, SomeRun, Reserve, Open
<1>3. /\ CursorType' /\ cursor'[s].admitted = current /\ cursor'[s].last = cursor[s].last
      /\ \A x \in Slots \ {s} : cursor'[x] = cursor[x]
  BY <1>2, AdmittedCursor
<1>4. TypeOK'
  BY <1>1, <1>3 DEF Links, TypeOK, SituationType, CycleType, RunType, ReferenceType, CallType,
                    CommitType, ProcType, PassType, Cycles, Runs
<1>5. \A x \in Slots : cursor'[x].last \in {cursor[x].last, NoRun}
  BY <1>3
<1>6. \A x \in Slots : cursor'[x].admitted \in {cursor[x].admitted, NoCycle} \cup Cycles
  BY <1>2, <1>3
<1>7. Cycles' = Cycles /\ Runs' = Runs
  BY <1>1 DEF Cycles, Runs
<1>8. proc'.at = "loaded" => \A x \in Slots : proc'.last[x] \in Runs => ReusesNothing(proc'.last[x])
  BY <1>1, <1>2 DEF Sources
<1>9. QED
  BY <1>1, <1>2, <1>4, <1>5, <1>6, <1>7, <1>8, LinksKept DEF Links

\* A frozen plan reuses what the loaded cursor of its slot pointed at.
LEMMA PlansType ==
  ASSUME TypeOK, proc.at = "loaded", NEW a \in Allocations
  PROVE  /\ PlansFor(a) \in [Slots -> [tier : {None, "reuse"} \cup {TierOf(s) : s \in Slots}, reuse : SomeRun]]
         /\ \A s \in Slots : PlansFor(a)[s].reuse \in {proc.last[s], NoRun}
<1> DEFINE Row == [tier : {None, "reuse"} \cup {TierOf(s) : s \in Slots}, reuse : SomeRun]
           A == a \cup Candidates("local")
           p(s) == CASE s \in A -> [NoPlan EXCEPT !.tier = TierOf(s)]
                     [] s \notin A /\ proc.last[s] # NoRun -> [NoPlan EXCEPT !.tier = "reuse", !.reuse = proc.last[s]]
                     [] OTHER -> NoPlan
<1>1. PlansFor(a) = [s \in Slots |-> p(s)]
  BY DEF PlansFor
<1>2. ASSUME NEW s \in Slots PROVE p(s) \in Row /\ p(s).reuse \in {proc.last[s], NoRun}
  <2>1. NoPlan = [tier |-> None, reuse |-> NoRun] /\ NoRun \in SomeRun
    BY DEF NoPlan, SomeRun
  <2>2. proc.last[s] \in SomeRun
    BY DEF TypeOK, ProcType
  <2>3. CASE s \in A
    <3>1. p(s) = [NoPlan EXCEPT !.tier = TierOf(s)]
      BY <2>3
    <3> HIDE DEF p, A
    <3>2. QED
      BY <2>1, <3>1
  <2>4. CASE s \notin A /\ proc.last[s] # NoRun
    <3>1. p(s) = [NoPlan EXCEPT !.tier = "reuse", !.reuse = proc.last[s]]
      BY <2>4
    <3> HIDE DEF p, A
    <3>2. QED
      BY <2>1, <2>2, <3>1
  <2>5. CASE s \notin A /\ proc.last[s] = NoRun
    <3>1. p(s) = NoPlan
      BY <2>5
    <3> HIDE DEF p, A
    <3>2. QED
      BY <2>1, <3>1
  <2>6. QED
    BY <2>3, <2>4, <2>5
<1> HIDE DEF p, Row
<1>3. PlansFor(a) \in [Slots -> Row] /\ \A s \in Slots : PlansFor(a)[s].reuse \in {proc.last[s], NoRun}
  BY <1>1, <1>2
<1>4. QED
  BY <1>3 DEF Row

\* BeginPreparation resumes a cycle or freezes a new one; no run belongs to it yet.
LEMMA LinksBegin == Links /\ Begin /\ UNCHANGED <<maintenance, abandons>> => Links'
<1> SUFFICES ASSUME Links, Begin, UNCHANGED <<maintenance, abandons>> PROVE Links'
  OBVIOUS
<1> DEFINE c == <<version, generation + 1>>
<1>1. /\ UNCHANGED <<version, generation, ended, run, cursor>> /\ current' = c
      /\ UNCHANGED <<call, commit, maintenance, abandons>>
      /\ proc.at = "loaded" /\ proc' = [proc EXCEPT !.at = "begun", !.last = <<>>, !.due = {}]
  BY DEF Begin, decisions
<1>2. c \in CycleIds /\ c \in SomeCycle
  BY DEF Links, TypeOK, SituationType, CycleIds, SomeCycle
<1> HIDE DEF c
<1>3. ProcType' /\ proc'.at = "begun"
  BY <1>1 DEF Links, TypeOK, ProcType
<1>4. SituationType' /\ RunType' /\ CursorType' /\ CallType' /\ CommitType' /\ PassType' /\ Runs' = Runs
  BY <1>1, <1>2 DEF Links, TypeOK, SituationType, RunType, CursorType, CallType, CommitType, PassType, Runs
<1>5. TypeOK /\ LinksResolve /\ Sources
  BY DEF Links
<1>6. CASE c \in Cycles /\ UNCHANGED <<cycle, reference>>
  <2>1. CycleType' /\ ReferenceType' /\ Cycles' = Cycles
    BY <1>6 DEF Links, TypeOK, CycleType, ReferenceType, Cycles
  <2>2. LinksResolve' /\ Sources'
    BY <1>1, <1>3, <1>4, <1>5, <1>6, <2>1, LinksKept
  <2>3. QED
    BY <1>3, <1>4, <2>1, <2>2 DEF Links, TypeOK
<1>7. CASE \E a \in Allocations :
             /\ c \notin Cycles
             /\ Reused(PlansFor(a)) \subseteq Runs
             /\ cycle' = [x \in Cycles \cup {c} |-> IF x = c THEN [sealed |-> FALSE, old |-> FALSE, plan |-> PlansFor(a)]
                                                    ELSE cycle[x]]
             /\ reference' = {f \in reference : f.kind \notin Temporary}
                             \cup CurrentCycleRefs(c, Reused(PlansFor(a)))
  <2>1. PICK a \in Allocations :
             /\ c \notin Cycles
             /\ Reused(PlansFor(a)) \subseteq Runs
             /\ cycle' = [x \in Cycles \cup {c} |-> IF x = c THEN [sealed |-> FALSE, old |-> FALSE, plan |-> PlansFor(a)]
                                                    ELSE cycle[x]]
             /\ reference' = {f \in reference : f.kind \notin Temporary}
                             \cup CurrentCycleRefs(c, Reused(PlansFor(a)))
    BY <1>7
  <2>2. /\ PlansFor(a) \in [Slots -> [tier : {None, "reuse"} \cup {TierOf(s) : s \in Slots}, reuse : SomeRun]]
        /\ \A s \in Slots : PlansFor(a)[s].reuse \in {proc.last[s], NoRun}
    BY <1>1, <1>5, PlansType
  <2>3. PICK plans : plans = PlansFor(a)
    OBVIOUS
  <2>4. /\ Cycles' = Cycles \cup {c} /\ \A x \in Cycles : cycle'[x] = cycle[x]
        /\ cycle'[c] = [sealed |-> FALSE, old |-> FALSE, plan |-> plans]
    BY <2>1, <2>3 DEF Cycles
  <2>5. cycle'[c] \in CycleRows /\ cycle'[c].plan = plans
    <3>1. [sealed |-> FALSE, old |-> FALSE, plan |-> plans].plan = plans
      OBVIOUS
    <3>2. [sealed |-> FALSE, old |-> FALSE, plan |-> plans] \in CycleRows
      BY <2>2, <2>3 DEF CycleRows
    <3>3. QED
      BY <2>4, <3>1, <3>2
  <2>6. CycleType'
    BY <1>2, <1>5, <2>4, <2>5 DEF TypeOK, CycleType
  <2>7. \A f \in reference' : f.run \in Runs /\ f \in [run : RunIds, kind : Kinds, owner : Nat \X Nat, full : BOOLEAN]
    <3> SUFFICES ASSUME NEW f \in reference'
                 PROVE  f.run \in Runs /\ f \in [run : RunIds, kind : Kinds, owner : Nat \X Nat, full : BOOLEAN]
      OBVIOUS
    <3>1. CASE f \in reference
      BY <1>5, <3>1 DEF LinksResolve, TypeOK, ReferenceType
    <3>2. CASE f \in CurrentCycleRefs(c, Reused(PlansFor(a)))
      BY <1>2, <1>5, <2>1, <3>2, CurrentRefsType
    <3>3. QED
      BY <2>1, <3>1, <3>2
  <2>8. \A r \in Reused(plans) : r \in Runs /\ run[r].source = NoRun
    <3> SUFFICES ASSUME NEW r \in Reused(plans) PROVE r \in Runs /\ run[r].source = NoRun
      OBVIOUS
    <3>1. PICK s \in Slots : r = plans[s].reuse /\ r # NoRun
      BY DEF Reused
    <3>2. r = proc.last[s] /\ r \in Runs
      BY <2>1, <2>2, <2>3, <3>1
    <3>3. QED
      BY <1>1, <1>5, <3>2 DEF Sources, ReusesNothing
  <2>9. \A x \in Cycles' : Reused(cycle'[x].plan) \subseteq Runs /\ \A r \in Reused(cycle'[x].plan) : run[r].source = NoRun
    BY <1>5, <2>4, <2>5, <2>8 DEF LinksResolve, Sources, ReusesNothing
  <2>10. \A r \in Runs : r.cycle \in Cycles' /\ cycle'[r.cycle].plan[r.slot].tier # None
    BY <1>5, <2>4 DEF LinksResolve
  <2>11. LinksResolve'
    BY <1>1, <1>4, <1>5, <2>4, <2>7, <2>9, <2>10 DEF LinksResolve, Reused
  <2>12. Sources'
    BY <1>1, <1>3, <1>5, <2>4, <2>9 DEF Sources, ReusesNothing, Reused
  <2>13. QED
    BY <1>3, <1>4, <2>6, <2>7, <2>11, <2>12 DEF Links, TypeOK, ReferenceType
<1>8. QED
  BY <1>6, <1>7 DEF Begin, c

\* CommitObservationRun writes a run nothing pointed at, whose source was read itself.
LEMMA LinksCommitRun ==
  ASSUME Links, NEW s \in Slots, CommitRun(s), UNCHANGED <<maintenance, abandons>> PROVE Links'
<1> DEFINE r == [cycle |-> current, slot |-> s]
           source == cycle[current].plan[s].reuse
<1>1. /\ UNCHANGED <<version, generation, current, ended, cycle>>
      /\ UNCHANGED <<call, commit, proc, maintenance, abandons>>
  BY DEF CommitRun, situation, decisions
<1>2. /\ proc.at = "begun" /\ current \in Cycles /\ r \notin Runs /\ cycle[current].plan[s].tier # None
      /\ run' = [x \in Runs \cup {r} |-> IF x = r THEN [source |-> source, old |-> FALSE, expired |-> FALSE]
                                         ELSE run[x]]
      /\ reference' = reference \cup {Ref(r, "open_cycle", current)} \cup CurrentCycleRefs(current, {source} \ {NoRun})
      /\ cursor' = IF source = NoRun THEN Admitted(s, r) ELSE cursor
  BY DEF CommitRun, Open, Missing
<1>3. TypeOK /\ LinksResolve /\ Sources
  BY DEF Links
<1>4. current \in CycleIds /\ current \in SomeCycle /\ r \in RunIds /\ r \in SomeRun
  BY <1>2, <1>3 DEF TypeOK, CycleType, RunIds, SomeRun, SomeCycle
<1>5. source \in SomeRun
  BY <1>2, <1>3 DEF TypeOK, CycleType, CycleRows
<1>6. source # NoRun => source \in Runs /\ run[source].source = NoRun
  BY <1>2, <1>3 DEF LinksResolve, Sources, ReusesNothing, Reused
<1>7. r.cycle = current /\ r.slot = s /\ r # NoRun
  BY <1>4, NoneIsNoId
<1> HIDE DEF r, source
<1>8. /\ Runs' = Runs \cup {r} /\ \A x \in Runs : run'[x] = run[x]
      /\ run'[r] = [source |-> source, old |-> FALSE, expired |-> FALSE]
  BY <1>2 DEF Runs
<1>9. run'[r] \in RunRows /\ run'[r].source = source
  BY <1>5, <1>8 DEF RunRows
<1>10. RunType'
  BY <1>3, <1>4, <1>8, <1>9 DEF TypeOK, RunType
<1>11. \A f \in reference' : f.run \in Runs' /\ f \in [run : RunIds, kind : Kinds, owner : Nat \X Nat, full : BOOLEAN]
  <2> SUFFICES ASSUME NEW f \in reference'
               PROVE  f.run \in Runs' /\ f \in [run : RunIds, kind : Kinds, owner : Nat \X Nat, full : BOOLEAN]
    OBVIOUS
  <2>1. CASE f \in reference
    BY <1>3, <1>8, <2>1 DEF LinksResolve, TypeOK, ReferenceType
  <2>2. CASE f = Ref(r, "open_cycle", current)
    <3>1. f = [run |-> r, kind |-> "open_cycle", owner |-> current, full |-> TRUE]
      BY <2>2 DEF Ref
    <3>2. current \in Nat \X Nat
      BY <1>4 DEF CycleIds
    <3>3. QED
      BY <1>4, <1>8, <3>1, <3>2 DEF Kinds, Temporary
  <2>3. CASE f \in CurrentCycleRefs(current, {source} \ {NoRun})
    <3>1. {source} \ {NoRun} \in SUBSET Runs
      BY <1>6
    <3>2. QED
      BY <1>3, <1>4, <1>8, <2>3, <3>1, CurrentRefsType
  <2>4. QED
    BY <1>2, <2>1, <2>2, <2>3
<1>12. /\ CursorType'
       /\ \A x \in Slots : /\ cursor'[x].last = cursor[x].last \/ (source = NoRun /\ cursor'[x].last = r)
                           /\ cursor'[x].admitted \in {cursor[x].admitted, current}
  <2>1. CASE source = NoRun
    BY <1>2, <1>3, <1>4, <1>7, <2>1, AdmittedCursor
  <2>2. CASE source # NoRun
    BY <1>2, <1>3, <2>2 DEF TypeOK, CursorType
  <2>3. QED
    BY <2>1, <2>2
<1>13. TypeOK'
  <2>1. ReferenceType'
    BY <1>11 DEF ReferenceType
  <2>2. SituationType' /\ CycleType' /\ CallType' /\ CommitType' /\ ProcType' /\ PassType'
    BY <1>1, <1>3 DEF TypeOK, SituationType, CycleType, CallType, CommitType, ProcType, PassType, Cycles
  <2>3. QED
    BY <1>10, <1>12, <2>1, <2>2 DEF TypeOK
<1>14. Cycles' = Cycles
  BY <1>1 DEF Cycles
<1>15. \A x \in Runs' : /\ x.cycle \in Cycles /\ cycle[x.cycle].plan[x.slot].tier # None
                        /\ run'[x].source # NoRun => /\ run'[x].source \in Runs'
                                                     /\ run'[run'[x].source].source = NoRun
  <2> SUFFICES ASSUME NEW x \in Runs'
               PROVE  /\ x.cycle \in Cycles /\ cycle[x.cycle].plan[x.slot].tier # None
                      /\ run'[x].source # NoRun => /\ run'[x].source \in Runs'
                                                   /\ run'[run'[x].source].source = NoRun
    OBVIOUS
  <2>1. CASE x = r
    BY <1>2, <1>6, <1>7, <1>8, <1>9, <2>1
  <2>2. CASE x \in Runs
    <3>1. /\ x.cycle \in Cycles /\ cycle[x.cycle].plan[x.slot].tier # None
          /\ run[x].source # NoRun => run[x].source \in Runs /\ run[run[x].source].source = NoRun
      BY <1>3, <2>2 DEF LinksResolve
    <3>2. QED
      BY <1>8, <2>2, <3>1
  <2>3. QED
    BY <1>8, <2>1, <2>2
<1>16. \A x \in Slots : /\ cursor'[x].last \in Runs' \cup {NoRun}
                        /\ cursor'[x].admitted \in Cycles \cup {NoCycle}
                        /\ cursor'[x].last # NoRun => run'[cursor'[x].last].source = NoRun
  <2> SUFFICES ASSUME NEW x \in Slots
               PROVE  /\ cursor'[x].last \in Runs' \cup {NoRun}
                      /\ cursor'[x].admitted \in Cycles \cup {NoCycle}
                      /\ cursor'[x].last # NoRun => run'[cursor'[x].last].source = NoRun
    OBVIOUS
  <2>1. /\ cursor[x].last \in Runs \cup {NoRun} /\ cursor[x].admitted \in Cycles \cup {NoCycle}
        /\ cursor[x].last # NoRun => run[cursor[x].last].source = NoRun
    BY <1>3 DEF LinksResolve, Sources, ReusesNothing
  <2>2. QED
    BY <1>2, <1>8, <1>9, <1>12, <2>1
<1>17. \A c \in Cycles : /\ Reused(cycle[c].plan) \subseteq Runs'
                         /\ \A x \in Reused(cycle[c].plan) : run'[x].source = NoRun
  BY <1>3, <1>8 DEF LinksResolve, Sources, ReusesNothing
<1>18. LinksResolve'
  BY <1>1, <1>3, <1>11, <1>14, <1>15, <1>16, <1>17 DEF LinksResolve, Reused
<1>19. Sources'
  <2>1. proc' = proc /\ proc.at = "begun" /\ current' \in Cycles' /\ cycle' = cycle
    BY <1>1, <1>2, <1>14
  <2>2. QED
    BY <2>1, <1>14, <1>16, <1>17 DEF Sources, ReusesNothing, Reused
<1>20. QED
  BY <1>13, <1>18, <1>19 DEF Links

-----------------------------------------------------------------------------
\* Numbering.

LEMMA Following ==
  ASSUME NEW S, NEW n \in Nat, S = 1..n
  PROVE  /\ Cardinality(S) = n /\ Cardinality(S) + 1 = n + 1
         /\ S \cup {n + 1} = 1..(n + 1) /\ n + 1 \notin S
<1>1. Cardinality(1..n) = n
  BY FS_Interval
<1>2. QED
  BY <1>1

LEMMA GaplessInit == Init => Gapless
<1> SUFFICES ASSUME Init PROVE Gapless
  OBVIOUS
<1>1. DOMAIN commit = 1..0 /\ DOMAIN call = 1..0
  BY DEF Init
<1>2. QED
  BY <1>1 DEF Gapless

LEMMA GaplessNext == Gapless /\ [Next]_vars => Gapless'
<1> SUFFICES ASSUME Gapless, [Next]_vars PROVE Gapless'
  OBVIOUS
<1>1. PICK n \in Nat : DOMAIN commit = 1..n
  BY DEF Gapless
<1>2. PICK m \in Nat : DOMAIN call = 1..m
  BY DEF Gapless
<1>3. CASE DOMAIN commit' = DOMAIN commit /\ DOMAIN call' = DOMAIN call
  BY <1>1, <1>2, <1>3 DEF Gapless
<1>4. CASE Dispatch
  <2>1. DOMAIN call' = DOMAIN call \cup {Cardinality(DOMAIN call) + 1} /\ commit' = commit
    BY <1>4 DEF Dispatch
  <2>2. DOMAIN call' = 1..(m + 1)
    BY <1>2, <2>1, Following
  <2>3. m + 1 \in Nat
    OBVIOUS
  <2>4. QED
    BY <1>1, <2>1, <2>2, <2>3 DEF Gapless
<1>5. ASSUME NEW transition \in BOOLEAN, NEW ends \in BOOLEAN, Commit(transition, ends) PROVE Gapless'
  <2>1. DOMAIN commit' = DOMAIN commit \cup {Cardinality(DOMAIN commit) + 1} /\ DOMAIN call' = DOMAIN call
    BY <1>5 DEF Commit
  <2>2. DOMAIN commit' = 1..(n + 1)
    BY <1>1, <2>1, Following
  <2>3. n + 1 \in Nat
    OBVIOUS
  <2>4. QED
    BY <1>2, <2>1, <2>2, <2>3 DEF Gapless
<1>6. CASE Retention
  BY <1>3, <1>6 DEF Retention, ReleaseEvidence, ExpireDetails, PruneCursors, PruneCycles, Trim, decisions
<1>7. CASE Elapse
  <2>1. CASE Input
    BY <1>3, <2>1 DEF Input, decisions
  <2>2. CASE Age
    BY <1>3, <2>2 DEF Age
  <2>3. QED
    BY <1>7, <2>1, <2>2 DEF Elapse
<1>8. CASE Reconcile
  <2>1. CASE Abandon
    BY <1>3, <2>1 DEF Abandon, decisions
  <2>2. CASE Begin
    BY <1>3, <2>2 DEF Begin, decisions
  <2>3. CASE PrepareAssessment
    BY <1>3, <2>3 DEF PrepareAssessment, decisions
  <2>4. CASE \E due \in SUBSET Slots : Load(due)
    BY <1>3, <2>4 DEF Load, decisions
  <2>5. CASE \E s \in Slots : Reserve(s) \/ CommitRun(s)
    BY <1>3, <2>5 DEF Reserve, CommitRun, decisions
  <2>6. QED
    BY <1>4, <1>5, <1>8, <2>1, <2>2, <2>3, <2>4, <2>5 DEF Reconcile
<1>9. CASE UNCHANGED vars
  BY <1>3, <1>9 DEF vars, decisions
<1>10. QED
  BY <1>6, <1>7, <1>8, <1>9 DEF Next
-----------------------------------------------------------------------------
\* The decisions.

\* RecordAssessmentCall adds references to runs of the view.
LEMMA LinksDispatch == Links /\ Gapless /\ Dispatch /\ UNCHANGED <<maintenance, abandons>> => Links'
<1> SUFFICES ASSUME Links, Gapless, Dispatch, UNCHANGED <<maintenance, abandons>> PROVE Links'
  OBVIOUS
<1>1. TypeOK /\ LinksResolve /\ Sources
  BY DEF Links
<1>2. PICK m \in Nat : DOMAIN call = 1..m
  BY DEF Gapless
<1>3. PICK k \in Nat \ {0} : k = Cardinality(DOMAIN call) + 1
  <2>1. Cardinality(DOMAIN call) + 1 = m + 1 /\ m + 1 \in Nat \ {0}
    BY <1>2, Following
  <2>2. QED
    BY <2>1
<1>4. /\ UNCHANGED <<version, generation, current, ended, cycle, run, cursor, commit, maintenance, abandons>>
      /\ proc.at = "begun" /\ proc' = [proc EXCEPT !.at = "dispatched", !.call = k]
      /\ reference' = reference \cup Pins("call", k)
      /\ call' = [x \in DOMAIN call \cup {k} |->
                    IF x = k THEN [version |-> version, old |-> FALSE, attempt |-> FALSE] ELSE call[x]]
  BY <1>3 DEF Dispatch, situation, Prepared
<1>5. \A f \in reference' : /\ f \in reference \/ f.run \in Runs
                            /\ f \in [run : RunIds, kind : Kinds, owner : Nat \X Nat, full : BOOLEAN]
  <2> SUFFICES ASSUME NEW f \in reference'
               PROVE  /\ f \in reference \/ f.run \in Runs
                      /\ f \in [run : RunIds, kind : Kinds, owner : Nat \X Nat, full : BOOLEAN]
    OBVIOUS
  <2>1. CASE f \in reference
    BY <1>1, <2>1 DEF TypeOK, ReferenceType
  <2>2. CASE f \in Pins("call", k)
    <3>1. "call" \in Kinds /\ k \in Nat
      BY DEF Kinds
    <3>2. QED
      BY <1>1, <2>2, <3>1, PinsType
  <2>3. QED
    BY <1>4, <2>1, <2>2
<1>6. ProcType' /\ proc'.at = "dispatched"
  BY <1>1, <1>4 DEF TypeOK, ProcType
<1>7. CallType'
  <2>1. version \in Nat
    BY <1>1 DEF TypeOK, SituationType
  <2>2. \A x \in DOMAIN call' : call'[x] \in [version : Nat, old : BOOLEAN, attempt : BOOLEAN]
    <3> SUFFICES ASSUME NEW x \in DOMAIN call' PROVE call'[x] \in [version : Nat, old : BOOLEAN, attempt : BOOLEAN]
      OBVIOUS
    <3>1. CASE x = k
      <4>1. call'[x] = [version |-> version, old |-> FALSE, attempt |-> FALSE]
        BY <1>4, <3>1
      <4>2. QED
        BY <2>1, <4>1
    <3>2. CASE x # k
      BY <1>1, <1>4, <3>2 DEF TypeOK, CallType
    <3>3. QED
      BY <3>1, <3>2
  <2>3. DOMAIN call' \subseteq Nat \ {0}
    BY <1>1, <1>4 DEF TypeOK, CallType
  <2>4. QED
    BY <2>2, <2>3 DEF CallType
<1>8. TypeOK'
  <2>1. SituationType' /\ CycleType' /\ RunType' /\ CursorType' /\ CommitType' /\ PassType'
    BY <1>1, <1>4 DEF TypeOK, SituationType, CycleType, RunType, CursorType, CommitType, PassType, Cycles, Runs
  <2>2. ReferenceType'
    BY <1>5 DEF ReferenceType
  <2>3. QED
    BY <1>6, <1>7, <2>1, <2>2 DEF TypeOK
<1>9. Cycles' = Cycles /\ Runs' = Runs
  BY <1>4 DEF Cycles, Runs
<1>10. current \in Cycles
  BY <1>1, <1>4 DEF Sources
<1>11. LinksResolve' /\ Sources'
  BY <1>1, <1>4, <1>5, <1>6, <1>9, <1>10, LinksKept
<1>12. QED
  BY <1>8, <1>11 DEF Links

\* What a commit adds to the references.
NewPins(t, transition, ends) ==
  (IF proc.call # 0 THEN Pins("assessment", proc.call) ELSE {})
  \cup (IF transition THEN Pins("transition", t) ELSE {})
  \cup (IF ends THEN Pins("lifecycle", t) ELSE {})

LEMMA NewPinsType ==
  ASSUME TypeOK, LinksResolve, NEW t \in Nat, NEW transition, NEW ends, NEW f \in NewPins(t, transition, ends)
  PROVE  f.run \in Runs /\ f \in [run : RunIds, kind : Kinds, owner : Nat \X Nat, full : BOOLEAN]
<1>1. {"assessment", "transition", "lifecycle"} \subseteq Kinds /\ proc.call \in Nat
  BY DEF Kinds, TypeOK, ProcType
<1>2. f \in Pins("assessment", proc.call) \/ f \in Pins("transition", t) \/ f \in Pins("lifecycle", t)
  BY DEF NewPins
<1>3. QED
  BY <1>1, <1>2, PinsType

\* The facts of a commit, with its number and its pins named.
LEMMA CommitFacts ==
  ASSUME Links, Gapless, NEW transition \in BOOLEAN, NEW ends \in BOOLEAN, Commit(transition, ends)
  PROVE  \E n \in Nat :
           /\ DOMAIN commit = 1..n /\ DOMAIN commit' = 1..(n + 1)
           /\ current \in Cycles
           /\ proc.at \in {"begun", "dispatched"}
           /\ commit' = [x \in DOMAIN commit \cup {n + 1} |->
                          IF x = n + 1 THEN [call |-> proc.call, transition |-> transition, old |-> FALSE,
                                             seen |-> Seen, detail |-> Detailed(Seen)]
                          ELSE commit[x]]
           /\ reference' = Sealed(reference \cup NewPins(n + 1, transition, ends), current)
           /\ cycle' = [cycle EXCEPT ![current].sealed = TRUE]
           /\ call' = [k \in DOMAIN call |-> IF k = proc.call THEN [call[k] EXCEPT !.attempt = TRUE] ELSE call[k]]
           /\ generation' = current[2] /\ ended' = ends /\ proc' = Idle
           /\ UNCHANGED <<version, current, run, cursor>>
<1>1. PICK n \in Nat : DOMAIN commit = 1..n
  BY DEF Gapless
<1>2. Cardinality(DOMAIN commit) + 1 = n + 1 /\ DOMAIN commit \cup {n + 1} = 1..(n + 1)
  BY <1>1, Following
<1>3. commit' = [x \in DOMAIN commit \cup {n + 1} |->
                   IF x = n + 1 THEN [call |-> proc.call, transition |-> transition, old |-> FALSE,
                                      seen |-> Seen, detail |-> Detailed(Seen)]
                   ELSE commit[x]]
  BY <1>2 DEF Commit
<1>4. reference' = Sealed(reference \cup NewPins(n + 1, transition, ends), current)
  BY <1>2 DEF Commit, NewPins
<1>5. proc.at \in {"begun", "dispatched"}
  BY DEF Commit, Prepared
<1>6. current \in Cycles
  BY <1>5 DEF Links, Sources
<1>7. /\ cycle' = [cycle EXCEPT ![current].sealed = TRUE]
      /\ call' = [k \in DOMAIN call |-> IF k = proc.call THEN [call[k] EXCEPT !.attempt = TRUE] ELSE call[k]]
      /\ generation' = current[2] /\ ended' = ends /\ proc' = Idle
      /\ UNCHANGED <<version, current, run, cursor>>
  BY DEF Commit
<1>8. DOMAIN commit' = 1..(n + 1)
  BY <1>2, <1>3
<1>9. QED
  BY <1>1, <1>3, <1>4, <1>5, <1>6, <1>7, <1>8

\* CommitController pins runs of the view and seals the cycle.
LEMMA LinksCommit ==
  ASSUME Links, Gapless, NEW transition \in BOOLEAN, NEW ends \in BOOLEAN, Commit(transition, ends),
         UNCHANGED <<maintenance, abandons>>
  PROVE  Links'
<1>1. TypeOK /\ LinksResolve /\ Sources
  BY DEF Links
<1>2. PICK n \in Nat :
           /\ DOMAIN commit = 1..n /\ DOMAIN commit' = 1..(n + 1)
           /\ current \in Cycles
           /\ proc.at \in {"begun", "dispatched"}
           /\ commit' = [x \in DOMAIN commit \cup {n + 1} |->
                          IF x = n + 1 THEN [call |-> proc.call, transition |-> transition, old |-> FALSE,
                                             seen |-> Seen, detail |-> Detailed(Seen)]
                          ELSE commit[x]]
           /\ reference' = Sealed(reference \cup NewPins(n + 1, transition, ends), current)
           /\ cycle' = [cycle EXCEPT ![current].sealed = TRUE]
           /\ call' = [k \in DOMAIN call |-> IF k = proc.call THEN [call[k] EXCEPT !.attempt = TRUE] ELSE call[k]]
           /\ generation' = current[2] /\ ended' = ends /\ proc' = Idle
           /\ UNCHANGED <<version, current, run, cursor>>
  BY CommitFacts
<1>3. current \in CycleIds /\ current \in SomeCycle
  BY <1>1, <1>2 DEF TypeOK, CycleType, SituationType
<1>4. Cycles' = Cycles /\ \A c \in Cycles : cycle'[c] \in CycleRows /\ cycle'[c].plan = cycle[c].plan
  <2>1. \A x \in CycleRows : [x EXCEPT !.sealed = TRUE] \in CycleRows /\ [x EXCEPT !.sealed = TRUE].plan = x.plan
    BY DEF CycleRows
  <2>2. \A c \in Cycles : cycle[c] \in CycleRows
    BY <1>1 DEF TypeOK, CycleType
  <2>3. /\ DOMAIN cycle' = DOMAIN cycle
        /\ \A c \in DOMAIN cycle : cycle'[c] = IF c = current THEN [cycle[c] EXCEPT !.sealed = TRUE] ELSE cycle[c]
    BY <1>2
  <2>4. QED
    BY <2>1, <2>2, <2>3 DEF Cycles
<1>5. \A f \in reference' : f.run \in Runs /\ f \in [run : RunIds, kind : Kinds, owner : Nat \X Nat, full : BOOLEAN]
  <2> SUFFICES ASSUME NEW f \in reference'
               PROVE  f.run \in Runs /\ f \in [run : RunIds, kind : Kinds, owner : Nat \X Nat, full : BOOLEAN]
    OBVIOUS
  <2> DEFINE S == {Source(r) : r \in {x \in Runs : x.cycle = current}}
  <2>1. f \in reference \/ f \in NewPins(n + 1, transition, ends) \/ f \in CurrentCycleRefs(current, S)
    BY <1>2 DEF Sealed
  <2>2. CASE f \in reference
    BY <1>1, <2>2 DEF TypeOK, ReferenceType, LinksResolve
  <2>3. CASE f \in NewPins(n + 1, transition, ends)
    <3>1. n + 1 \in Nat
      OBVIOUS
    <3>2. QED
      BY <1>1, <2>3, <3>1, NewPinsType
  <2>4. CASE f \in CurrentCycleRefs(current, S)
    <3>1. S \in SUBSET Runs
      BY <1>1, SourceIsRun
    <3> HIDE DEF S
    <3>2. QED
      BY <1>1, <1>3, <2>4, <3>1, CurrentRefsType
  <2>5. QED
    BY <2>1, <2>2, <2>3, <2>4
<1>6. CallType'
  <2> DEFINE Row == [version : Nat, old : BOOLEAN, attempt : BOOLEAN]
  <2>1. \A x \in Row : [x EXCEPT !.attempt = TRUE] \in Row
    OBVIOUS
  <2>2. DOMAIN call \subseteq Nat \ {0} /\ \A k \in DOMAIN call : call[k] \in Row
    BY <1>1 DEF TypeOK, CallType
  <2> HIDE DEF Row
  <2>3. DOMAIN call' = DOMAIN call /\ \A k \in DOMAIN call : call'[k] \in Row
    BY <1>2, <2>1, <2>2
  <2>4. QED
    BY <2>2, <2>3 DEF CallType, Row
<1>7. CommitType'
  <2>1. Seen \in SUBSET RunIds /\ Detailed(Seen) \in SUBSET RunIds /\ proc.call \in Nat
    BY <1>1, SeenAreRuns DEF Detailed, TypeOK, RunType, ProcType
  <2>2. [call |-> proc.call, transition |-> transition, old |-> FALSE, seen |-> Seen, detail |-> Detailed(Seen)]
          \in CommitRows
    BY <2>1 DEF CommitRows
  <2>3. \A t \in DOMAIN commit : commit[t] \in CommitRows
    BY <1>1 DEF TypeOK, CommitType
  <2>4. \A t \in DOMAIN commit' : commit'[t] \in CommitRows
    BY <1>2, <2>2, <2>3
  <2>5. DOMAIN commit' \subseteq Nat \ {0}
    BY <1>2
  <2>6. QED
    BY <2>4, <2>5 DEF CommitType
<1>8. ProcType' /\ proc'.at = "idle"
  BY <1>2 DEF ProcType, Idle
<1>9. SituationType'
  <2>1. current[2] \in Nat
    BY <1>3 DEF CycleIds
  <2>2. QED
    BY <1>1, <1>2, <2>1 DEF TypeOK, SituationType
<1>10. TypeOK'
  <2>1. CycleType'
    BY <1>1, <1>4 DEF TypeOK, CycleType
  <2>2. RunType' /\ CursorType' /\ PassType'
    BY <1>1, <1>2 DEF TypeOK, RunType, CursorType, PassType, Runs
  <2>3. ReferenceType'
    BY <1>5 DEF ReferenceType
  <2>4. QED
    BY <1>6, <1>7, <1>8, <1>9, <2>1, <2>2, <2>3 DEF TypeOK
<1>11. Runs' = Runs /\ run' = run /\ cursor' = cursor /\ current' = current
  BY <1>2 DEF Runs
<1>12. LinksResolve' /\ Sources'
  BY <1>1, <1>4, <1>5, <1>8, <1>11, LinksKept
<1>13. QED
  BY <1>10, <1>12 DEF Links
-----------------------------------------------------------------------------
\* Retention.

LEMMA LinksReleaseEvidence == Links /\ ReleaseEvidence /\ UNCHANGED abandons => Links'
<1> SUFFICES ASSUME Links, ReleaseEvidence, UNCHANGED abandons PROVE Links'
  OBVIOUS
<1>1. /\ UNCHANGED <<version, generation, current, ended, cycle, run, cursor, call, commit, proc, abandons>>
      /\ reference' \subseteq reference /\ maintenance' = "details"
  BY DEF ReleaseEvidence, Step, situation, decisions
<1>2. TypeOK'
  BY <1>1 DEF Links, TypeOK, SituationType, CycleType, RunType, ReferenceType, CursorType, CallType,
              CommitType, ProcType, PassType, Cycles, Runs
<1>3. LinksResolve' /\ Sources'
  BY <1>1 DEF Links, LinksResolve, Sources, ReusesNothing, Cycles, Runs
<1>4. QED
  BY <1>2, <1>3 DEF Links

\* pruneObservationDetails marks runs; their sources stay.
LEMMA ExpiredRuns ==
  ASSUME TypeOK, ExpireDetails
  PROVE  /\ Runs' = Runs
         /\ \A r \in Runs : /\ run'[r] \in RunRows /\ run'[r].source = run[r].source
                            /\ run'[r].expired => run[r].expired \/ Unprotected(r)
<1>1. run' = [r \in Runs |-> IF Unprotected(r) THEN [run[r] EXCEPT !.expired = TRUE] ELSE run[r]]
  BY DEF ExpireDetails
<1>2. \A x \in RunRows : [x EXCEPT !.expired = TRUE] \in RunRows /\ [x EXCEPT !.expired = TRUE].source = x.source
  BY DEF RunRows
<1>3. \A r \in Runs : run[r] \in RunRows
  BY DEF TypeOK, RunType
<1>4. QED
  BY <1>1, <1>2, <1>3 DEF Runs

LEMMA LinksExpireDetails == Links /\ ExpireDetails /\ UNCHANGED abandons => Links'
<1> SUFFICES ASSUME Links, ExpireDetails, UNCHANGED abandons PROVE Links'
  OBVIOUS
<1>1. /\ UNCHANGED <<version, generation, current, ended, cycle, reference, cursor, call, commit, proc, abandons>>
      /\ maintenance' = "cursors"
  BY DEF ExpireDetails, Step, situation, decisions
<1>2. TypeOK /\ LinksResolve /\ Sources
  BY DEF Links
<1>3. Runs' = Runs /\ \A r \in Runs : run'[r] \in RunRows /\ run'[r].source = run[r].source
  BY <1>2, ExpiredRuns
<1>4. RunType'
  BY <1>2, <1>3 DEF TypeOK, RunType
<1>5. TypeOK'
  BY <1>1, <1>2, <1>4 DEF TypeOK, SituationType, CycleType, ReferenceType, CursorType, CallType,
                          CommitType, ProcType, PassType, Cycles
<1>6. Cycles' = Cycles
  BY <1>1 DEF Cycles
<1>7. proc'.at = "loaded" => \A s \in Slots : proc'.last[s] \in Runs => ReusesNothing(proc'.last[s])
  BY <1>1, <1>2 DEF Sources
<1>8. proc'.at \in {"begun", "dispatched"} => current' \in Cycles
  BY <1>1, <1>2 DEF Sources
<1>9. QED
  BY <1>1, <1>2, <1>3, <1>5, <1>6, <1>7, <1>8, LinksKept DEF Links

LEMMA LinksPruneCursors == Links /\ PruneCursors /\ UNCHANGED abandons => Links'
<1> SUFFICES ASSUME Links, PruneCursors, UNCHANGED abandons PROVE Links'
  OBVIOUS
<1>1. /\ UNCHANGED <<version, generation, current, ended, cycle, run, reference, call, commit, proc, abandons>>
      /\ maintenance' = "trim"
      /\ cursor' = [s \in Slots |-> IF StaleCursor(s) THEN NoCursor ELSE cursor[s]]
  BY DEF PruneCursors, Step, situation, decisions
<1>2. TypeOK /\ LinksResolve /\ Sources
  BY DEF Links
<1>3. /\ NoCursor.last = NoRun /\ NoCursor.admitted = NoCycle
      /\ NoCursor \in [past : BOOLEAN, last : SomeRun, admitted : SomeCycle]
  BY DEF NoCursor, SomeRun, SomeCycle
<1>4. CursorType'
  BY <1>1, <1>2, <1>3 DEF TypeOK, CursorType
<1>5. TypeOK'
  BY <1>1, <1>2, <1>4 DEF TypeOK, SituationType, CycleType, RunType, ReferenceType, CallType,
                          CommitType, ProcType, PassType, Cycles, Runs
<1>6. \A s \in Slots : /\ cursor'[s].last \in {cursor[s].last, NoRun}
                       /\ cursor'[s].admitted \in {cursor[s].admitted, NoCycle}
  BY <1>1, <1>3
<1>7. Cycles' = Cycles /\ Runs' = Runs
  BY <1>1 DEF Cycles, Runs
<1>8. proc'.at = "loaded" => \A s \in Slots : proc'.last[s] \in Runs => ReusesNothing(proc'.last[s])
  BY <1>1, <1>2 DEF Sources
<1>9. proc'.at \in {"begun", "dispatched"} => current' \in Cycles
  BY <1>1, <1>2 DEF Sources
<1>10. QED
  BY <1>1, <1>2, <1>5, <1>6, <1>7, <1>8, <1>9, LinksKept DEF Links

LEMMA RunIsItsName ==
  ASSUME TypeOK, NEW r \in Runs PROVE r = [cycle |-> r.cycle, slot |-> r.slot] /\ r.slot \in Slots
BY DEF TypeOK, RunType, RunIds

\* A trim takes runs nothing needs and no view shows, with their plans.
LEMMA TrimFacts ==
  ASSUME TypeOK, NEW c \in Cycles, Trim(c)
  PROVE  \E gone \in SUBSET Runs :
           /\ \A r \in gone : ~Needed(r) /\ r \notin Heads
           /\ Removed(gone)
           /\ Cycles' = Cycles /\ \A d \in Cycles : cycle'[d] \in CycleRows
           /\ \A d \in Cycles' : \A s \in Slots : cycle'[d].plan[s] \in {cycle[d].plan[s], NoPlan}
           /\ \A r \in Runs \ gone : r.cycle \in Cycles =>
                cycle'[r.cycle].plan[r.slot] = cycle[r.cycle].plan[r.slot]
<1> DEFINE gone == RunsOf(c, Unneeded(c))
           p == [s \in Slots |-> IF s \in Unneeded(c) THEN NoPlan ELSE cycle[c].plan[s]]
<1>1. gone \in SUBSET Runs
  BY DEF RunsOf
<1>2. ASSUME NEW r \in gone PROVE ~Needed(r) /\ r \notin Heads
  <2>1. r \in Runs /\ r.cycle = c /\ r.slot \in Unneeded(c)
    BY DEF RunsOf
  <2>2. r = [cycle |-> c, slot |-> r.slot]
    BY <2>1, RunIsItsName
  <2>3. QED
    BY <2>1, <2>2 DEF Unneeded
<1>3. Removed(gone)
  BY DEF Trim
<1>4. cycle' = [cycle EXCEPT ![c].plan = p]
  BY DEF Trim
<1>5. p \in [Slots -> [tier : {None, "reuse"} \cup {TierOf(s) : s \in Slots}, reuse : SomeRun]]
  <2>1. NoPlan \in [tier : {None, "reuse"} \cup {TierOf(s) : s \in Slots}, reuse : SomeRun]
    BY DEF NoPlan, SomeRun
  <2>2. cycle[c].plan \in [Slots -> [tier : {None, "reuse"} \cup {TierOf(s) : s \in Slots}, reuse : SomeRun]]
    BY DEF TypeOK, CycleType, CycleRows
  <2>3. QED
    BY <2>1, <2>2
<1>6. \A s \in Slots : p[s] = IF s \in Unneeded(c) THEN NoPlan ELSE cycle[c].plan[s]
  OBVIOUS
<1> HIDE DEF p
<1>7. /\ Cycles' = Cycles /\ cycle'[c] \in CycleRows /\ cycle'[c].plan = p
      /\ \A d \in Cycles \ {c} : cycle'[d] = cycle[d]
  <2>1. cycle[c] \in CycleRows
    BY DEF TypeOK, CycleType
  <2>2. [cycle[c] EXCEPT !.plan = p] \in CycleRows /\ [cycle[c] EXCEPT !.plan = p].plan = p
    BY <1>5, <2>1 DEF CycleRows
  <2>3. cycle' = [cycle EXCEPT ![c] = [cycle[c] EXCEPT !.plan = p]]
    BY <1>4
  <2>4. QED
    BY <2>2, <2>3 DEF Cycles
<1>8. \A d \in Cycles : cycle'[d] \in CycleRows
  BY <1>7 DEF TypeOK, CycleType
<1>9. \A d \in Cycles' : \A s \in Slots : cycle'[d].plan[s] \in {cycle[d].plan[s], NoPlan}
  BY <1>6, <1>7
<1>10. ASSUME NEW r \in Runs \ gone, r.cycle \in Cycles
       PROVE  cycle'[r.cycle].plan[r.slot] = cycle[r.cycle].plan[r.slot]
  <2>1. CASE r.cycle = c
    <3>1. r.slot \notin Unneeded(c)
      BY <2>1 DEF RunsOf
    <3>2. r.slot \in Slots
      BY RunIsItsName
    <3>3. QED
      BY <1>6, <1>7, <2>1, <3>1, <3>2
  <2>2. CASE r.cycle # c
    BY <1>7, <1>10, <2>2
  <2>3. QED
    BY <2>1, <2>2
<1> HIDE DEF gone
<1>11. QED
  BY <1>1, <1>2, <1>3, <1>7, <1>8, <1>9, <1>10

\* So does the pruning of cycles: an unsealed cycle that goes has no run left.
LEMMA PruneFacts ==
  ASSUME Links, PruneCycles
  PROVE  \E gone \in SUBSET Runs :
           /\ \A r \in gone : ~Needed(r) /\ r \notin Heads
           /\ Removed(gone)
           /\ Cycles' \subseteq Cycles /\ \A d \in Cycles' : cycle'[d] = cycle[d]
           /\ \A r \in Runs \ gone : r.cycle \in Cycles'
           /\ current \in Cycles => current \in Cycles'
           /\ \A s \in Slots : cursor[s].admitted \in Cycles => cursor[s].admitted \in Cycles'
<1> DEFINE old == {c \in Cycles : Prunable(c)}
           gone == UNION {RunsOf(c, Slots) : c \in old}
<1>1. TypeOK /\ LinksResolve
  BY DEF Links
<1>2. gone \in SUBSET Runs
  BY DEF RunsOf
<1>3. ASSUME NEW r \in gone PROVE ~Needed(r) /\ r \notin Heads
  <2>1. PICK c \in old : r \in RunsOf(c, Slots)
    OBVIOUS
  <2>2. r \in Runs /\ r.cycle = c /\ r.slot \in Slots /\ c \in Cycles /\ Prunable(c)
    BY <2>1 DEF RunsOf
  <2>3. cycle[c].plan[r.slot].tier # None
    BY <1>1, <2>2 DEF LinksResolve
  <2>4. cycle[c].sealed
    BY <2>2, <2>3 DEF Prunable
  <2>5. QED
    BY <2>1, <2>2, <2>4 DEF Prunable
<1>4. Removed(gone)
  BY DEF PruneCycles
<1>5. Cycles' = Cycles \ old /\ \A d \in Cycles' : cycle'[d] = cycle[d]
  BY DEF PruneCycles, Restrict, Cycles
<1>6. \A r \in Runs \ gone : r.cycle \in Cycles'
  <2> SUFFICES ASSUME NEW r \in Runs, r.cycle \in old PROVE r \in gone
    BY <1>1, <1>5 DEF LinksResolve
  <2>1. r.slot \in Slots
    BY <1>1, RunIsItsName
  <2>2. QED
    BY <2>1 DEF RunsOf
<1>7. current \notin old /\ \A s \in Slots : cursor[s].admitted \notin old
  BY DEF Prunable
<1> HIDE DEF old, gone
<1>8. QED
  BY <1>2, <1>3, <1>4, <1>5, <1>6, <1>7

\* Either way the rows that stay keep their types.
LEMMA RemovedTypes ==
  ASSUME TypeOK, NEW gone \in SUBSET Runs, Removed(gone)
  PROVE  RunType' /\ ReferenceType'
<1>1. /\ Runs' = Runs \ gone /\ \A r \in Runs \ gone : run'[r] = run[r]
      /\ reference' = {f \in reference : f.run \notin gone}
  BY DEF Removed, Restrict, Runs
<1>2. QED
  BY <1>1 DEF TypeOK, RunType, ReferenceType

LEMMA LinksTrim ==
  ASSUME Links, NEW c \in Cycles, Trim(c), UNCHANGED abandons PROVE Links'
<1>1. TypeOK /\ LinksResolve /\ Sources
  BY DEF Links
<1>2. PICK gone \in SUBSET Runs :
           /\ \A r \in gone : ~Needed(r) /\ r \notin Heads
           /\ Removed(gone)
           /\ Cycles' = Cycles /\ \A d \in Cycles : cycle'[d] \in CycleRows
           /\ \A d \in Cycles' : \A s \in Slots : cycle'[d].plan[s] \in {cycle[d].plan[s], NoPlan}
           /\ \A r \in Runs \ gone : r.cycle \in Cycles =>
                cycle'[r.cycle].plan[r.slot] = cycle[r.cycle].plan[r.slot]
  BY <1>1, TrimFacts
<1>3. /\ UNCHANGED <<version, generation, current, ended, cursor, call, commit, proc, maintenance, abandons>>
      /\ UNCHANGED <<situation, cursor, proc>>
  BY DEF Trim, situation, decisions
<1>4. RunType' /\ ReferenceType'
  BY <1>1, <1>2, RemovedTypes
<1>5. CycleType'
  BY <1>1, <1>2 DEF TypeOK, CycleType
<1>6. TypeOK'
  BY <1>1, <1>3, <1>4, <1>5 DEF TypeOK, SituationType, CursorType, CallType, CommitType, ProcType, PassType
<1>7. \A r \in Runs \ gone :
        r.cycle \in Cycles' /\ cycle'[r.cycle].plan[r.slot] = cycle[r.cycle].plan[r.slot]
  BY <1>1, <1>2 DEF LinksResolve
<1>8. LinksResolve' /\ Sources'
  BY <1>1, <1>2, <1>3, <1>7, LinksAfterRemoval
<1>9. QED
  BY <1>6, <1>8 DEF Links

LEMMA LinksPruneCycles == Links /\ PruneCycles /\ UNCHANGED abandons => Links'
<1> SUFFICES ASSUME Links, PruneCycles, UNCHANGED abandons PROVE Links'
  OBVIOUS
<1>1. TypeOK /\ LinksResolve /\ Sources
  BY DEF Links
<1>2. PICK gone \in SUBSET Runs :
           /\ \A r \in gone : ~Needed(r) /\ r \notin Heads
           /\ Removed(gone)
           /\ Cycles' \subseteq Cycles /\ \A d \in Cycles' : cycle'[d] = cycle[d]
           /\ \A r \in Runs \ gone : r.cycle \in Cycles'
           /\ current \in Cycles => current \in Cycles'
           /\ \A s \in Slots : cursor[s].admitted \in Cycles => cursor[s].admitted \in Cycles'
  BY PruneFacts
<1>3. /\ UNCHANGED <<version, generation, current, ended, cursor, call, commit, proc, abandons>>
      /\ UNCHANGED <<situation, cursor, proc>> /\ maintenance' = "off"
  BY DEF PruneCycles, Step, situation, decisions
<1>4. RunType' /\ ReferenceType'
  BY <1>1, <1>2, RemovedTypes
<1>5. CycleType'
  BY <1>1, <1>2 DEF TypeOK, CycleType
<1>6. TypeOK'
  BY <1>1, <1>3, <1>4, <1>5 DEF TypeOK, SituationType, CursorType, CallType, CommitType, ProcType, PassType
<1>7. /\ \A d \in Cycles' : \A s \in Slots : cycle'[d].plan[s] \in {cycle[d].plan[s], NoPlan}
      /\ \A r \in Runs \ gone : r.cycle \in Cycles' /\ cycle'[r.cycle].plan[r.slot] = cycle[r.cycle].plan[r.slot]
  BY <1>2
<1>8. LinksResolve' /\ Sources'
  BY <1>1, <1>2, <1>3, <1>7, LinksAfterRemoval
<1>9. QED
  BY <1>6, <1>8 DEF Links

LEMMA LinksNext == Links /\ Gapless /\ [Next]_vars => Links'
<1> SUFFICES ASSUME Links, Gapless, [Next]_vars PROVE Links'
  OBVIOUS
<1>1. CASE UNCHANGED vars
  BY <1>1, LinksStutter
<1>2. CASE Elapse
  BY <1>2, LinksInput, LinksAge DEF Elapse
<1>3. CASE Retention
  BY <1>3, LinksReleaseEvidence, LinksExpireDetails, LinksPruneCursors, LinksPruneCycles, LinksTrim DEF Retention
<1>4. CASE Reconcile
  <2>1. CASE Abandon
    BY <1>4, <2>1, LinksAbandon DEF Reconcile
  <2>2. CASE UNCHANGED abandons /\ ~Abandon
    <3>1. CASE Begin \/ PrepareAssessment \/ Dispatch
      BY <1>4, <2>2, <3>1, LinksBegin, LinksPrepareAssessment, LinksDispatch DEF Reconcile
    <3>2. CASE \E due \in SUBSET Slots : Load(due)
      BY <1>4, <2>2, <3>2, LinksLoad DEF Reconcile
    <3>3. CASE \E s \in Slots : Reserve(s) \/ CommitRun(s)
      BY <1>4, <2>2, <3>3, LinksReserve, LinksCommitRun DEF Reconcile
    <3>4. CASE \E transition, ends \in BOOLEAN : Commit(transition, ends)
      BY <1>4, <2>2, <3>4, LinksCommit DEF Reconcile
    <3>5. QED
      BY <1>4, <2>2, <3>1, <3>2, <3>3, <3>4 DEF Reconcile
  <2>3. QED
    BY <1>4, <2>1, <2>2 DEF Reconcile
<1>5. QED
  BY <1>1, <1>2, <1>3, <1>4 DEF Next

LEMMA LinksAlways == Spec => [](Links /\ Gapless)
<1>1. Init => Links /\ Gapless
  BY TypeInit, LinksInit, GaplessInit DEF Links
<1>2. Links /\ Gapless /\ [Next]_vars => (Links /\ Gapless)'
  BY LinksNext, GaplessNext
<1>3. QED
  BY <1>1, <1>2, PTL DEF Spec

\* Every row of the evidence tables is well formed, and a pointer names an id of the
\* table it points into (migration 0027).
THEOREM EvidenceTypes == Spec => []TypeOK
<1>1. Links /\ Gapless => TypeOK
  BY DEF Links
<1>2. QED
  BY <1>1, LinksAlways, PTL

\* Whatever retention removes, at whatever moment of a reconciliation: no row points at
\* one that is gone, and no projection is projected again (observationRunNeeded,
\* trimObservationCycleTx, pruneObservationCycleTx).
THEOREM LinksAlwaysResolve == Spec => []LinksResolve
<1>1. Links /\ Gapless => LinksResolve
  BY DEF Links
<1>2. QED
  BY <1>1, LinksAlways, PTL

-----------------------------------------------------------------------------
\* The decision view.

\* A bounded set of numbers that is not empty has a largest one.
LEMMA Largest ==
  ASSUME NEW n \in Nat, NEW S \in SUBSET (0..n), S # {}
  PROVE  \E x \in S : \A y \in S : x >= y
<1> DEFINE T == {n - y : y \in S}
<1>1. T \subseteq Nat /\ T # {}
  <2>1. \A y \in S : y \in Nat /\ y <= n
    OBVIOUS
  <2>2. \A y \in S : n - y \in Nat
    BY <2>1
  <2>3. PICK y \in S : TRUE
    OBVIOUS
  <2>4. QED
    BY <2>2, <2>3
<1>2. PICK m \in T : \A k \in T : ~(<<k, m>> \in OpToRel(<, Nat))
  <2> HIDE DEF T
  <2>1. QED
    BY <1>1, NatLessThanWellFounded, WFMin
<1>3. PICK x \in S : m = n - x
  OBVIOUS
<1>4. ASSUME NEW y \in S PROVE x >= y
  <2>1. n - y \in T /\ n - y \in Nat /\ m \in Nat
    BY <1>1
  <2>2. ~(<<n - y, m>> \in OpToRel(<, Nat))
    BY <1>2, <2>1
  <2>3. ~(n - y < m)
    BY <2>1, <2>2 DEF OpToRel
  <2>4. QED
    BY <1>3, <2>3
<1>5. QED
  BY <1>4

InView == {r \in Runs : r.cycle[1] = version /\ r.cycle[2] <= current[2]}

\* A slot with a result under the current input has a latest one.
LEMMA SlotHasHead ==
  ASSUME TypeOK, current # NoCycle, NEW q \in InView
  PROVE  \E h \in Heads : h.slot = q.slot /\ h.cycle[2] >= q.cycle[2]
<1> DEFINE S == {r.cycle[2] : r \in {x \in InView : x.slot = q.slot}}
<1>1. current[2] \in Nat
  BY DEF TypeOK, SituationType, SomeCycle, CycleIds
<1>2. \A r \in InView : r.cycle[2] \in 0..current[2]
  <2> SUFFICES ASSUME NEW r \in InView PROVE r.cycle[2] \in 0..current[2]
    OBVIOUS
  <2>1. r \in RunIds /\ r.cycle[2] <= current[2]
    BY DEF InView, TypeOK, RunType
  <2>2. r.cycle[2] \in Nat
    BY <2>1 DEF RunIds, CycleIds
  <2>3. QED
    BY <1>1, <2>1, <2>2
<1>3. S \in SUBSET (0..current[2]) /\ q.cycle[2] \in S
  BY <1>2
<1>4. PICK g \in S : \A y \in S : g >= y
  <2> HIDE DEF S
  <2>1. QED
    BY <1>1, <1>3, Largest
<1>5. PICK h \in InView : h.slot = q.slot /\ h.cycle[2] = g
  OBVIOUS
<1>6. \A x \in InView : x.slot = h.slot => x.cycle[2] <= h.cycle[2]
  <2> SUFFICES ASSUME NEW x \in InView, x.slot = h.slot PROVE x.cycle[2] <= h.cycle[2]
    OBVIOUS
  <2>1. x.cycle[2] \in S
    BY <1>5
  <2>2. g >= x.cycle[2]
    BY <1>4, <2>1
  <2>3. x.cycle[2] \in 0..current[2] /\ g \in 0..current[2]
    BY <1>2, <1>3, <1>4
  <2>4. QED
    BY <1>1, <1>5, <2>2, <2>3
<1>7. h \in Heads
  BY <1>5, <1>6 DEF Heads, InView
<1>8. h.cycle[2] >= q.cycle[2]
  BY <1>3, <1>4, <1>5
<1>9. QED
  BY <1>5, <1>7, <1>8

\* Removing runs that are not the latest of their slot leaves the view as it was.
LEMMA ViewAfterRemoval ==
  ASSUME TypeOK, NEW gone \in SUBSET Runs, gone \cap Heads = {},
         Runs' = Runs \ gone, UNCHANGED <<version, current>>
  PROVE  Heads' = Heads
<1>1. CASE current = NoCycle
  BY <1>1 DEF Heads
<1>2. CASE current # NoCycle
  <2>1. Heads = {r \in InView : \A q \in InView : q.slot = r.slot => q.cycle[2] <= r.cycle[2]}
    BY <1>2 DEF Heads, InView
  <2>2. Heads' = {r \in InView \ gone : \A q \in InView \ gone : q.slot = r.slot => q.cycle[2] <= r.cycle[2]}
    BY <1>2 DEF Heads, InView
  <2>3. Heads \subseteq Heads'
    BY <2>1, <2>2
  <2>4. ASSUME NEW r \in InView \ gone,
               \A q \in InView \ gone : q.slot = r.slot => q.cycle[2] <= r.cycle[2],
               NEW q \in InView, q.slot = r.slot
        PROVE  q.cycle[2] <= r.cycle[2]
    <3>1. PICK h \in Heads : h.slot = q.slot /\ h.cycle[2] >= q.cycle[2]
      BY <1>2, SlotHasHead
    <3>2. h \in InView \ gone
      BY <2>1
    <3>3. h.cycle[2] <= r.cycle[2]
      BY <2>4, <3>1, <3>2
    <3>4. {q, h, r} \subseteq RunIds
      BY <3>2 DEF InView, TypeOK, RunType
    <3>5. q.cycle[2] \in Nat /\ h.cycle[2] \in Nat /\ r.cycle[2] \in Nat
      BY <3>4 DEF RunIds, CycleIds
    <3>6. QED
      BY <3>1, <3>3, <3>5
  <2>5. Heads' \subseteq Heads
    BY <2>1, <2>2, <2>4
  <2>6. QED
    BY <2>3, <2>5
<1>3. QED
  BY <1>1, <1>2

LEMMA ViewKeptNext == Links /\ [Next]_vars => ViewKept
<1> SUFFICES ASSUME Links, [Next]_vars PROVE ViewKept
  OBVIOUS
<1>1. TypeOK
  BY DEF Links
<1>2. CASE Runs \subseteq Runs'
  BY <1>2 DEF ViewKept
<1>3. ASSUME NEW gone \in SUBSET Runs, \A r \in gone : ~Needed(r) /\ r \notin Heads, Removed(gone)
      PROVE  ViewKept
  <2>1. Runs' = Runs \ gone
    BY <1>3 DEF Removed, Restrict, Runs
  <2>2. gone \cap Heads = {}
    BY <1>3
  <2>3. QED
    BY <1>1, <2>1, <2>2, ViewAfterRemoval DEF ViewKept
<1>4. CASE \E c \in Cycles : Trim(c)
  <2>1. PICK c \in Cycles : Trim(c)
    BY <1>4
  <2>2. PICK gone \in SUBSET Runs : (\A r \in gone : ~Needed(r) /\ r \notin Heads) /\ Removed(gone)
    BY <1>1, <2>1, TrimFacts
  <2>3. QED
    BY <1>3, <2>2
<1>5. CASE PruneCycles
  <2>1. PICK gone \in SUBSET Runs : (\A r \in gone : ~Needed(r) /\ r \notin Heads) /\ Removed(gone)
    BY <1>5, PruneFacts
  <2>2. QED
    BY <1>3, <2>1
<1>6. CASE ReleaseEvidence \/ ExpireDetails \/ PruneCursors
  BY <1>2, <1>6 DEF ReleaseEvidence, ExpireDetails, PruneCursors, Runs
<1>7. CASE Elapse
  BY <1>2, <1>7 DEF Elapse, Input, Age, rows, Runs
<1>8. CASE Reconcile
  <2>1. CASE \E s \in Slots : CommitRun(s)
    <3>1. PICK s \in Slots : CommitRun(s)
      BY <2>1
    <3>2. Runs \subseteq Runs'
      BY <3>1 DEF CommitRun, Runs
    <3>3. QED
      BY <1>2, <3>2
  <2>2. CASE Abandon \/ Begin \/ PrepareAssessment \/ Dispatch
    BY <1>2, <2>2 DEF Abandon, Begin, PrepareAssessment, Dispatch, rows, Runs
  <2>3. CASE \E due \in SUBSET Slots : Load(due)
    BY <1>2, <2>3 DEF Load, rows, Runs
  <2>4. CASE \E s \in Slots : Reserve(s)
    BY <1>2, <2>4 DEF Reserve, Runs
  <2>5. CASE \E transition, ends \in BOOLEAN : Commit(transition, ends)
    BY <1>2, <2>5 DEF Commit, Runs
  <2>6. QED
    BY <1>8, <2>1, <2>2, <2>3, <2>4, <2>5 DEF Reconcile
<1>9. CASE UNCHANGED vars
  BY <1>2, <1>9 DEF vars, rows, Runs
<1>10. QED
  BY <1>4, <1>5, <1>6, <1>7, <1>8, <1>9 DEF Next, Retention

\* Retention never makes an older result the latest of its slot: under one input and one
\* current cycle the decision view changes only when rows are added (currentHeadRunsTx,
\* unneededPlansTx).
THEOREM ViewStaysStable == Spec => ViewIsStable
<1>1. Links /\ Gapless /\ [Next]_vars => [ViewKept]_vars
  BY ViewKeptNext
<1>2. QED
  BY <1>1, LinksAlways, PTL DEF Spec, ViewIsStable

-----------------------------------------------------------------------------
\* The evidence of the decisions in use.

LEMMA LatestFacts ==
  ASSUME NEW n \in Nat, NEW S \in SUBSET (0..n)
  PROVE  /\ Latest(S) \subseteq S
         /\ \A x \in Latest(S) : \A y \in S : x >= y
         /\ S # {} => Latest(S) = {Max(S)} /\ Max(S) \in S
<1>1. CASE S = {}
  BY <1>1 DEF Latest
<1>2. CASE S # {}
  <2>1. \E x \in S : \A y \in S : x >= y
    BY <1>2, Largest
  <2>2. Max(S) \in S /\ \A y \in S : Max(S) >= y
    BY <2>1 DEF Max
  <2>3. QED
    BY <1>2, <2>2 DEF Latest
<1>3. QED
  BY <1>1, <1>2

\* One more number can only take the place of the latest.
LEMMA LatestGrows ==
  ASSUME NEW n \in Nat, NEW S \in SUBSET (0..n), NEW k \in Nat
  PROVE  Latest(S \cup {k}) \subseteq Latest(S) \cup {k}
<1> DEFINE T == S \cup {k}
<1>1. n + k \in Nat /\ T \in SUBSET (0..(n + k))
  OBVIOUS
<1>2. SUFFICES ASSUME NEW x \in Latest(T), x # k PROVE x \in Latest(S)
  OBVIOUS
<1>3. x \in T /\ \A y \in T : x >= y
  <2> HIDE DEF T
  <2>1. QED
    BY <1>1, LatestFacts
<1>4. x \in S
  BY <1>2, <1>3
<1>5. Latest(S) = {Max(S)} /\ Max(S) \in S /\ Max(S) >= x
  BY <1>4, LatestFacts
<1>6. x >= Max(S)
  BY <1>3, <1>5
<1>7. x \in 0..n /\ Max(S) \in 0..n
  BY <1>4, <1>5
<1>8. x = Max(S)
  BY <1>5, <1>6, <1>7
<1>9. QED
  BY <1>5, <1>8

Transitions == {t \in DOMAIN commit : commit[t].transition}
CallsUpTo(t) == {k \in {commit[u].call : u \in 1..t} : k # 0}

\* The sets of numbers the decisions in use are chosen from are bounded.
LEMMA DecisionBounds ==
  ASSUME NEW n \in Nat, NEW m \in Nat, DOMAIN commit = 1..n, DOMAIN call = 1..m, Numbered
  PROVE  /\ Transitions \in SUBSET (0..n) /\ ProtectedTransitions \subseteq Transitions
         /\ \A t \in 0..n : CallsUpTo(t) \in SUBSET (0..m)
         /\ Cardinality(DOMAIN commit) = n
         /\ \A t : AssessmentAt(t) = Latest(CallsUpTo(t))
<1>1. Transitions \in SUBSET (0..n)
  BY DEF Transitions
<1>2. ProtectedTransitions \subseteq Transitions
  BY <1>1, LatestFacts DEF ProtectedTransitions, Transitions
<1>3. ASSUME NEW t \in 0..n, NEW k \in CallsUpTo(t) PROVE k \in 0..m
  <2>1. PICK u \in 1..t : k = commit[u].call /\ k # 0
    BY DEF CallsUpTo
  <2>2. u \in DOMAIN commit
    OBVIOUS
  <2>3. QED
    BY <2>1, <2>2 DEF Numbered
<1>4. Cardinality(DOMAIN commit) = n
  BY Following
<1>5. QED
  BY <1>1, <1>2, <1>3, <1>4 DEF AssessmentAt, CallsUpTo

\* A step that commits nothing changes no decision in use.
LEMMA ProtectedSame ==
  ASSUME NEW n \in Nat, NEW m \in Nat, DOMAIN commit = 1..n, DOMAIN call = 1..m, Numbered,
         DOMAIN commit' = DOMAIN commit,
         \A t \in DOMAIN commit : commit'[t].call = commit[t].call /\ commit'[t].transition = commit[t].transition
  PROVE  ProtectedTransitions' = ProtectedTransitions /\ ProtectedAttempts' = ProtectedAttempts
<1>1. ProtectedTransitions' = ProtectedTransitions
  BY DEF ProtectedTransitions, Latest
<1>2. ASSUME NEW t \in 0..n PROVE AssessmentAt(t)' = AssessmentAt(t)
  <2>1. {k \in {commit'[u].call : u \in 1..t} : k # 0} = {k \in {commit[u].call : u \in 1..t} : k # 0}
    <3>1. \A u \in 1..t : u \in DOMAIN commit
      OBVIOUS
    <3>2. \A u \in 1..t : commit'[u].call = commit[u].call
      BY <3>1
    <3>3. QED
      BY <3>2
  <2>2. QED
    BY <2>1 DEF AssessmentAt, Latest
<1>3. ProtectedTransitions \subseteq 0..n /\ Cardinality(DOMAIN commit) = n
  BY DecisionBounds
<1>4. n \in 0..n
  OBVIOUS
<1>5. UNION {AssessmentAt(t)' : t \in ProtectedTransitions'} = UNION {AssessmentAt(t) : t \in ProtectedTransitions}
  BY <1>1, <1>2, <1>3
<1>6. AssessmentAt(Cardinality(DOMAIN commit))' = AssessmentAt(Cardinality(DOMAIN commit))
  BY <1>2, <1>3, <1>4
<1>7. QED
  BY <1>1, <1>5, <1>6 DEF ProtectedAttempts

\* A reference of a decision in use.
InUse(f) ==
  \/ f.kind = "transition" /\ f.owner[1] \in ProtectedTransitions
  \/ /\ f.kind = "assessment" /\ f.owner[1] \in ProtectedAttempts
     /\ f.owner[1] \in DOMAIN call /\ call[f.owner[1]].attempt

\* What a step that commits nothing has to show: the references of decisions in use
\* stay, and no detail one of them protects expires.
LEMMA EvidenceFrame ==
  ASSUME Links, Links', Gapless, Evidence,
         DOMAIN commit' = DOMAIN commit,
         \A t \in DOMAIN commit : /\ commit'[t].call = commit[t].call /\ commit'[t].transition = commit[t].transition
                                  /\ commit'[t].seen = commit[t].seen /\ commit'[t].detail = commit[t].detail,
         \A k \in DOMAIN call : k \in DOMAIN call' /\ (call[k].attempt => call'[k].attempt),
         proc'.call # 0 => proc'.call = proc.call \/ (proc'.call \in DOMAIN call' /\ proc'.call \notin DOMAIN call),
         \A f \in reference : InUse(f) => f \in reference',
         \A r \in Runs : r \in Runs' /\ Expired(r)' => Expired(r) \/ ~Protects(r)
  PROVE  Evidence'
<1>1. PICK n \in Nat : DOMAIN commit = 1..n
  BY DEF Gapless
<1>2. PICK m \in Nat : DOMAIN call = 1..m
  BY DEF Gapless
<1>3. Numbered /\ Covered /\ EvidenceIsKept
  BY DEF Evidence
<1>4. ProtectedTransitions' = ProtectedTransitions /\ ProtectedAttempts' = ProtectedAttempts
  BY <1>1, <1>2, <1>3, ProtectedSame
<1>5. Numbered'
  <2>1. ASSUME NEW t \in DOMAIN commit', commit'[t].call # 0
        PROVE  commit'[t].call \in DOMAIN call' /\ call'[commit'[t].call].attempt
    <3>1. commit[t].call \in DOMAIN call /\ call[commit[t].call].attempt /\ commit'[t].call = commit[t].call
      BY <1>3, <2>1 DEF Numbered
    <3>2. QED
      BY <3>1
  <2>2. ASSUME proc'.call # 0
        PROVE  proc'.call \in DOMAIN call' /\ \A t \in DOMAIN commit' : commit'[t].call # proc'.call
    <3>1. CASE proc'.call = proc.call
      BY <1>3, <2>2, <3>1 DEF Numbered
    <3>2. CASE proc'.call \in DOMAIN call' /\ proc'.call \notin DOMAIN call
      BY <1>3, <2>2, <3>2 DEF Numbered
    <3>3. QED
      BY <2>2, <3>1, <3>2
  <2>3. QED
    BY <2>1, <2>2 DEF Numbered
<1>6. ASSUME NEW t \in DOMAIN commit, NEW k, NEW i, Held(t, k, i),
             \A f \in reference : f.kind = k /\ f.owner = <<i, 0>> => InUse(f)
      PROVE  /\ Held(t, k, i)'
             /\ commit[t].seen \subseteq Runs'
             /\ EvidenceIsKept /\ Protected(t) => \A r \in commit[t].detail : ~Expired(r)'
  <2>1. ASSUME NEW r \in commit[t].seen
        PROVE  \E f \in reference \cap reference' :
                 f.run = r /\ f.kind = k /\ f.owner = <<i, 0>> /\ (r \in commit[t].detail => f.full)
    <3>1. PICK f \in reference : f.run = r /\ f.kind = k /\ f.owner = <<i, 0>> /\ (r \in commit[t].detail => f.full)
      BY <1>6 DEF Held
    <3>2. f \in reference'
      BY <1>6, <3>1
    <3>3. QED
      BY <3>1, <3>2
  <2>2. Held(t, k, i)'
    BY <2>1 DEF Held
  <2>3. commit[t].seen \subseteq Runs'
    BY <2>1 DEF Links, LinksResolve
  <2>4. ASSUME EvidenceIsKept, Protected(t), NEW r \in commit[t].detail PROVE ~Expired(r)'
    <3>1. r \in commit[t].seen /\ r \in Runs /\ ~Expired(r)
      BY <1>3, <2>4 DEF Covered, EvidenceIsKept
    <3>2. PICK f \in reference : f.run = r /\ f.full
      BY <2>1, <2>4, <3>1
    <3>3. Protects(r) /\ r \in Runs'
      BY <2>3, <3>1, <3>2 DEF Protects
    <3>4. QED
      BY <3>1, <3>3
  <2>5. QED
    BY <2>2, <2>3, <2>4
<1>7. ASSUME NEW t \in DOMAIN commit, t \in ProtectedTransitions
      PROVE  /\ Held(t, "transition", t)' /\ commit[t].seen \subseteq Runs'
             /\ \A r \in commit[t].detail : ~Expired(r)'
  <2>1. Held(t, "transition", t) /\ Protected(t)
    BY <1>3, <1>7 DEF Covered, Protected
  <2>2. \A f \in reference : f.kind = "transition" /\ f.owner = <<t, 0>> => InUse(f)
    BY <1>7 DEF InUse
  <2>3. QED
    BY <1>3, <1>6, <2>1, <2>2
<1>8. ASSUME NEW t \in DOMAIN commit, commit[t].call # 0, commit[t].call \in ProtectedAttempts
      PROVE  /\ Held(t, "assessment", commit[t].call)' /\ commit[t].seen \subseteq Runs'
             /\ \A r \in commit[t].detail : ~Expired(r)'
  <2>1. PICK i : i = commit[t].call
    OBVIOUS
  <2>2. Held(t, "assessment", i) /\ Protected(t) /\ i \in DOMAIN call /\ call[i].attempt
    BY <1>3, <1>8, <2>1 DEF Covered, Protected, Numbered
  <2>3. \A f \in reference : f.kind = "assessment" /\ f.owner = <<i, 0>> => InUse(f)
    BY <1>8, <2>1, <2>2 DEF InUse
  <2>4. Held(t, "assessment", i)' /\ commit[t].seen \subseteq Runs' /\ \A r \in commit[t].detail : ~Expired(r)'
    BY <1>3, <1>6, <2>2, <2>3
  <2>5. commit'[t].call = i
    BY <2>1
  <2>6. QED
    BY <2>4, <2>5
<1>9. Covered'
  <2> SUFFICES ASSUME NEW t \in DOMAIN commit
               PROVE  /\ commit'[t].detail \subseteq commit'[t].seen
                      /\ t \in ProtectedTransitions' => Held(t, "transition", t)'
                      /\ commit'[t].call # 0 /\ commit'[t].call \in ProtectedAttempts' =>
                           Held(t, "assessment", commit[t].call)'
    BY DEF Covered
  <2>1. commit'[t].detail \subseteq commit'[t].seen
    BY <1>3 DEF Covered
  <2>2. t \in ProtectedTransitions' => Held(t, "transition", t)'
    BY <1>4, <1>7
  <2>3. commit'[t].call # 0 /\ commit'[t].call \in ProtectedAttempts' => Held(t, "assessment", commit[t].call)'
    BY <1>4, <1>8
  <2>4. QED
    BY <2>1, <2>2, <2>3
<1>10. EvidenceIsKept'
  <2> SUFFICES ASSUME NEW t \in DOMAIN commit, Protected(t)'
               PROVE  /\ commit'[t].seen \subseteq Runs'
                      /\ \A r \in commit'[t].detail : ~Expired(r)'
    BY DEF EvidenceIsKept
  <2>1. t \in ProtectedTransitions \/ (commit[t].call # 0 /\ commit[t].call \in ProtectedAttempts)
    BY <1>4 DEF Protected
  <2>2. commit[t].seen \subseteq Runs' /\ \A r \in commit[t].detail : ~Expired(r)'
    BY <1>7, <1>8, <2>1
  <2>3. QED
    BY <2>2
<1>11. QED
  BY <1>5, <1>9, <1>10 DEF Evidence

LEMMA EvidenceInit == Init => Evidence
<1> SUFFICES ASSUME Init PROVE Evidence
  OBVIOUS
<1>1. DOMAIN commit = {} /\ proc.call = 0
  BY DEF Init, Idle
<1>2. QED
  BY <1>1 DEF Evidence, Numbered, Covered, EvidenceIsKept

\* A step of the reconciliation before its commit.
LEMMA EvidenceQuiet ==
  ASSUME Links, Links', Gapless, Evidence, UNCHANGED commit,
         \A k \in DOMAIN call : k \in DOMAIN call' /\ call'[k] = call[k],
         proc'.call # 0 => proc'.call = proc.call \/ (proc'.call \in DOMAIN call' /\ proc'.call \notin DOMAIN call),
         \A f \in reference : f.kind \notin Temporary => f \in reference',
         \A r \in Runs : r \in Runs' => run'[r].expired = run[r].expired
  PROVE  Evidence'
<1>1. \A f \in reference : InUse(f) => f \in reference'
  BY DEF InUse, Temporary
<1>2. \A r \in Runs : r \in Runs' /\ Expired(r)' => Expired(r) \/ ~Protects(r)
  BY DEF Expired
<1>3. QED
  BY <1>1, <1>2, EvidenceFrame

LEMMA EvidenceReconcile ==
  ASSUME Links, Links', Gapless, Evidence,
         \/ Abandon \/ Begin \/ PrepareAssessment \/ Dispatch \/ Input
         \/ \E due \in SUBSET Slots : Load(due)
         \/ \E s \in Slots : Reserve(s) \/ CommitRun(s)
  PROVE  Evidence'
<1>1. CASE UNCHANGED <<rows, decisions>> /\ (proc'.call = 0 \/ proc'.call = proc.call)
  BY <1>1, EvidenceQuiet DEF rows, decisions, Runs
<1>2. CASE Abandon
  BY <1>1, <1>2 DEF Abandon, Idle
<1>3. CASE PrepareAssessment
  <2>1. proc' = [proc EXCEPT !.phase = "assessment"]
    BY <1>3 DEF PrepareAssessment
  <2>2. proc'.call = proc.call
    BY <2>1 DEF Links, TypeOK, ProcType
  <2>3. QED
    BY <1>1, <1>3, <2>2 DEF PrepareAssessment
<1>4. CASE Input
  BY <1>1, <1>4 DEF Input
<1>5. CASE \E due \in SUBSET Slots : Load(due)
  <2>1. PICK due \in SUBSET Slots : Load(due)
    BY <1>5
  <2>2. proc'.call = 0
    BY <2>1 DEF Load
  <2>3. QED
    BY <1>1, <2>1, <2>2 DEF Load
<1>6. CASE Begin
  <2>1. UNCHANGED <<run, call, commit>> /\ proc' = [proc EXCEPT !.at = "begun", !.last = <<>>, !.due = {}]
    BY <1>6 DEF Begin, decisions
  <2>2. proc'.call = proc.call
    BY <2>1 DEF Links, TypeOK, ProcType
  <2>3. \A f \in reference : f.kind \notin Temporary => f \in reference'
    BY <1>6 DEF Begin
  <2>4. QED
    BY <2>1, <2>2, <2>3, EvidenceQuiet DEF Runs
<1>7. CASE Dispatch
  <2>1. PICK m \in Nat : DOMAIN call = 1..m
    BY DEF Gapless
  <2>2. PICK k : k = Cardinality(DOMAIN call) + 1
    OBVIOUS
  <2>3. k \notin DOMAIN call
    BY <2>1, <2>2, Following
  <2>4. /\ UNCHANGED <<run, commit>> /\ proc' = [proc EXCEPT !.at = "dispatched", !.call = k]
        /\ reference \subseteq reference'
        /\ call' = [x \in DOMAIN call \cup {k} |->
                      IF x = k THEN [version |-> version, old |-> FALSE, attempt |-> FALSE] ELSE call[x]]
    BY <1>7, <2>2 DEF Dispatch
  <2>5. proc'.call = k
    BY <2>4 DEF Links, TypeOK, ProcType
  <2>6. k \in DOMAIN call' /\ \A x \in DOMAIN call : x \in DOMAIN call' /\ call'[x] = call[x]
    BY <2>3, <2>4
  <2>7. QED
    BY <2>3, <2>4, <2>5, <2>6, EvidenceQuiet DEF Runs
<1>8. CASE \E s \in Slots : Reserve(s)
  BY <1>8, EvidenceQuiet DEF Reserve, decisions, Runs
<1>9. CASE \E s \in Slots : CommitRun(s)
  <2>1. PICK s \in Slots : CommitRun(s)
    BY <1>9
  <2>2. UNCHANGED <<call, commit, proc>> /\ reference \subseteq reference'
    BY <2>1 DEF CommitRun, decisions
  <2>3. [cycle |-> current, slot |-> s] \notin Runs
    BY <2>1 DEF CommitRun, Missing
  <2>4. \A r \in Runs : run'[r] = run[r]
    BY <2>1, <2>3 DEF CommitRun
  <2>5. QED
    BY <2>2, <2>4, EvidenceQuiet
<1>10. QED
  BY <1>2, <1>3, <1>4, <1>5, <1>6, <1>7, <1>8, <1>9

LEMMA EvidenceAge == ASSUME Links, Links', Gapless, Evidence, Age PROVE Evidence'
<1>1. reference' = reference /\ proc' = proc
  BY DEF Age
<1>2. /\ DOMAIN commit' = DOMAIN commit
      /\ \A t \in DOMAIN commit : /\ commit'[t].call = commit[t].call /\ commit'[t].transition = commit[t].transition
                                  /\ commit'[t].seen = commit[t].seen /\ commit'[t].detail = commit[t].detail
  <2>1. \A x \in CommitRows : LET y == [x EXCEPT !.old = TRUE] IN
          y.call = x.call /\ y.transition = x.transition /\ y.seen = x.seen /\ y.detail = x.detail
    BY DEF CommitRows
  <2>2. \A t \in DOMAIN commit : commit[t] \in CommitRows
    BY DEF Links, TypeOK, CommitType
  <2>3. commit' = [t \in DOMAIN commit |-> [commit[t] EXCEPT !.old = TRUE]]
    BY DEF Age
  <2>4. QED
    BY <2>1, <2>2, <2>3
<1>3. \A k \in DOMAIN call : k \in DOMAIN call' /\ (call[k].attempt => call'[k].attempt)
  <2> DEFINE Row == [version : Nat, old : BOOLEAN, attempt : BOOLEAN]
  <2>1. \A x \in Row : [x EXCEPT !.old = TRUE].attempt = x.attempt
    OBVIOUS
  <2>2. \A k \in DOMAIN call : call[k] \in Row
    BY DEF Links, TypeOK, CallType
  <2>3. call' = [k \in DOMAIN call |-> [call[k] EXCEPT !.old = TRUE]]
    BY DEF Age
  <2> HIDE DEF Row
  <2>4. QED
    BY <2>1, <2>2, <2>3
<1>4. \A r \in Runs : Expired(r)' => Expired(r)
  <2>1. \A x \in RunRows : [x EXCEPT !.old = TRUE].expired = x.expired
    BY DEF RunRows
  <2>2. \A r \in Runs : run[r] \in RunRows
    BY DEF Links, TypeOK, RunType
  <2>3. run' = [r \in Runs |-> [run[r] EXCEPT !.old = TRUE]]
    BY DEF Age
  <2>4. QED
    BY <2>1, <2>2, <2>3 DEF Expired
<1>5. QED
  BY <1>1, <1>2, <1>3, <1>4, EvidenceFrame

\* Retention keeps what a decision in use refers to.
LEMMA EvidenceRetention == ASSUME Links, Links', Gapless, Evidence, Retention PROVE Evidence'
<1>1. UNCHANGED <<call, commit, proc>>
  BY DEF Retention, ReleaseEvidence, ExpireDetails, PruneCursors, PruneCycles, Trim, decisions
<1>2. ASSUME \A f \in reference : InUse(f) => f \in reference',
             \A r \in Runs : r \in Runs' /\ Expired(r)' => Expired(r) \/ ~Protects(r)
      PROVE  Evidence'
  BY <1>1, <1>2, EvidenceFrame
<1>3. CASE ReleaseEvidence
  <2>1. ASSUME NEW f \in reference, InUse(f) PROVE ~Releasable(f)
    <3>1. CASE f.kind = "transition" /\ f.owner[1] \in ProtectedTransitions
      BY <3>1 DEF Releasable
    <3>2. CASE f.kind = "assessment" /\ f.owner[1] \in ProtectedAttempts /\ call[f.owner[1]].attempt
      BY <3>2 DEF Releasable
    <3>3. QED
      BY <2>1, <3>1, <3>2 DEF InUse
  <2>2. run' = run /\ reference' = {f \in reference : ~Releasable(f)}
    BY <1>3 DEF ReleaseEvidence
  <2>3. QED
    BY <1>2, <2>1, <2>2 DEF Expired
<1>4. CASE ExpireDetails
  <2>1. reference' = reference
    BY <1>4 DEF ExpireDetails
  <2>2. \A r \in Runs : run'[r].expired => run[r].expired \/ Unprotected(r)
    BY <1>4, ExpiredRuns DEF Links
  <2>3. QED
    BY <1>2, <2>1, <2>2 DEF Expired, Unprotected
<1>5. CASE PruneCursors
  BY <1>2, <1>5 DEF PruneCursors, Expired
<1>6. ASSUME NEW gone \in SUBSET Runs, \A r \in gone : ~Needed(r) /\ r \notin Heads, Removed(gone) PROVE Evidence'
  <2>1. /\ Runs' = Runs \ gone /\ \A r \in Runs \ gone : run'[r] = run[r]
        /\ reference' = {f \in reference : f.run \notin gone}
    BY <1>6 DEF Removed, Restrict, Runs
  <2>2. \A f \in reference : f.run \notin gone
    BY <1>6 DEF Needed
  <2>3. QED
    BY <1>2, <2>1, <2>2 DEF Expired
<1>7. CASE PruneCycles
  <2>1. PICK gone \in SUBSET Runs : (\A r \in gone : ~Needed(r) /\ r \notin Heads) /\ Removed(gone)
    BY <1>7, PruneFacts
  <2>2. QED
    BY <1>6, <2>1
<1>8. CASE \E c \in Cycles : Trim(c)
  <2>1. PICK c \in Cycles : Trim(c)
    BY <1>8
  <2>2. PICK gone \in SUBSET Runs : (\A r \in gone : ~Needed(r) /\ r \notin Heads) /\ Removed(gone)
    BY <2>1, TrimFacts DEF Links
  <2>3. QED
    BY <1>6, <2>2
<1>9. QED
  BY <1>3, <1>4, <1>5, <1>7, <1>8 DEF Retention

\* A commit adds itself, and nothing else, to the decisions in use.
LEMMA ProtectedAfterCommit ==
  ASSUME NEW n \in Nat, NEW m \in Nat, DOMAIN commit = 1..n, DOMAIN call = 1..m, Numbered,
         NEW row, row.call = proc.call, proc.call \in Nat,
         commit' = [x \in DOMAIN commit \cup {n + 1} |-> IF x = n + 1 THEN row ELSE commit[x]]
  PROVE  /\ ProtectedTransitions' \subseteq ProtectedTransitions \cup {n + 1}
         /\ n + 1 \in ProtectedTransitions' => row.transition
         /\ ProtectedAttempts' \subseteq ProtectedAttempts \cup {proc.call}
<1> DEFINE N == n + 1
           T == {t \in DOMAIN commit' : commit'[t].transition}
<1>1. /\ N \in Nat /\ DOMAIN commit' = 1..N /\ commit'[N] = row
      /\ \A t \in 1..n : t \in DOMAIN commit /\ commit'[t] = commit[t]
  <2>1. N \notin 1..n /\ DOMAIN commit \cup {n + 1} = 1..N
    BY Following
  <2>2. QED
    BY <2>1
<1>2. Cardinality(DOMAIN commit') = N
  BY <1>1, Following
<1>3. Transitions \in SUBSET (0..n) /\ Cardinality(DOMAIN commit) = n
  BY DecisionBounds
<1>4. ProtectedTransitions' = Latest(T)
  BY DEF ProtectedTransitions, Latest
<1>5. T = IF row.transition THEN Transitions \cup {N} ELSE Transitions
  BY <1>1 DEF Transitions
<1>6. ProtectedTransitions = Latest(Transitions)
  BY DEF ProtectedTransitions, Transitions
<1>7. Latest(T) \subseteq T
  <2>1. T \in SUBSET (0..N)
    BY <1>1
  <2> HIDE DEF T, N
  <2>2. QED
    BY <1>1, <2>1, LatestFacts
<1>8. ProtectedTransitions' \subseteq ProtectedTransitions \cup {N}
  <2>1. CASE row.transition
    BY <1>1, <1>3, <1>4, <1>5, <1>6, <2>1, LatestGrows
  <2>2. CASE ~row.transition
    BY <1>4, <1>5, <1>6, <2>2
  <2>3. QED
    BY <2>1, <2>2
<1>9. N \in ProtectedTransitions' => row.transition
  <2>1. N \notin Transitions
    BY <1>3
  <2>2. QED
    BY <1>4, <1>5, <1>7, <2>1
<1>10. ASSUME NEW t \in 0..n PROVE AssessmentAt(t)' = AssessmentAt(t)
  <2>1. \A u \in 1..t : u \in 1..n
    OBVIOUS
  <2>2. \A u \in 1..t : commit'[u] = commit[u]
    BY <1>1, <2>1
  <2>3. {k \in {commit'[u].call : u \in 1..t} : k # 0} = {k \in {commit[u].call : u \in 1..t} : k # 0}
    BY <2>2
  <2>4. QED
    BY <2>3 DEF AssessmentAt, Latest
<1>11. Latest({k \in {commit'[u].call : u \in 1..N} : k # 0}) \subseteq AssessmentAt(n) \cup {proc.call}
  <2> DEFINE D == {k \in {commit'[u].call : u \in 1..N} : k # 0}
  <2>1. CallsUpTo(n) \in SUBSET (0..m) /\ AssessmentAt(n) = Latest(CallsUpTo(n))
    <3>1. n \in 0..n
      OBVIOUS
    <3>2. QED
      BY <3>1, DecisionBounds
  <2>2. \A k : k \in D <=> k \in CallsUpTo(n) \/ (k = proc.call /\ k # 0)
    <3>1. 1..N = 1..n \cup {N}
      OBVIOUS
    <3>2. commit'[N].call = proc.call /\ \A u \in 1..n : commit'[u].call = commit[u].call
      BY <1>1
    <3> HIDE DEF N
    <3>3. QED
      BY <3>1, <3>2 DEF CallsUpTo
  <2>3. CASE proc.call = 0
    <3>1. D = CallsUpTo(n)
      BY <2>2, <2>3 DEF CallsUpTo
    <3>2. QED
      BY <2>1, <3>1
  <2>4. CASE proc.call # 0
    <3>1. D = CallsUpTo(n) \cup {proc.call}
      BY <2>2, <2>4
    <3>2. QED
      BY <2>1, <3>1, LatestGrows
  <2>5. QED
    BY <2>3, <2>4
<1>12. AssessmentAt(N)' \subseteq AssessmentAt(n) \cup {proc.call}
  <2>1. Latest({k \in {commit'[u].call : u \in 1..N} : k # 0}) = AssessmentAt(N)'
    BY DEF AssessmentAt, Latest
  <2>2. QED
    BY <1>11, <2>1
<1>13. ASSUME NEW t \in ProtectedTransitions' PROVE AssessmentAt(t)' \subseteq ProtectedAttempts \cup {proc.call}
  <2>1. CASE t = N
    BY <1>3, <1>12, <2>1 DEF ProtectedAttempts
  <2>2. CASE t \in ProtectedTransitions
    <3>1. t \in 0..n
      BY <2>2, DecisionBounds
    <3>2. QED
      BY <1>10, <2>2, <3>1 DEF ProtectedAttempts
  <2>3. QED
    BY <1>8, <1>13, <2>1, <2>2
<1>14. ProtectedAttempts' = AssessmentAt(N)' \cup UNION {AssessmentAt(t)' : t \in ProtectedTransitions'}
  BY <1>2 DEF ProtectedAttempts
<1>15. ProtectedAttempts' \subseteq ProtectedAttempts \cup {proc.call}
  <2>1. AssessmentAt(n) \subseteq ProtectedAttempts
    BY <1>3 DEF ProtectedAttempts
  <2> HIDE DEF N, T
  <2>2. QED
    BY <1>12, <1>13, <1>14, <2>1
<1>16. QED
  BY <1>8, <1>9, <1>15

\* CommitController pins what it saw before any of it can go.
LEMMA EvidenceCommit ==
  ASSUME Links, Gapless, Evidence, NEW transition \in BOOLEAN, NEW ends \in BOOLEAN, Commit(transition, ends)
  PROVE  Evidence'
<1> DEFINE row == [call |-> proc.call, transition |-> transition, old |-> FALSE,
                   seen |-> Seen, detail |-> Detailed(Seen)]
<1>0. PICK n \in Nat :
           /\ DOMAIN commit = 1..n /\ DOMAIN commit' = 1..(n + 1)
           /\ current \in Cycles
           /\ proc.at \in {"begun", "dispatched"}
           /\ commit' = [x \in DOMAIN commit \cup {n + 1} |->
                          IF x = n + 1 THEN [call |-> proc.call, transition |-> transition, old |-> FALSE,
                                             seen |-> Seen, detail |-> Detailed(Seen)]
                          ELSE commit[x]]
           /\ reference' = Sealed(reference \cup NewPins(n + 1, transition, ends), current)
           /\ cycle' = [cycle EXCEPT ![current].sealed = TRUE]
           /\ call' = [k \in DOMAIN call |-> IF k = proc.call THEN [call[k] EXCEPT !.attempt = TRUE] ELSE call[k]]
           /\ generation' = current[2] /\ ended' = ends /\ proc' = Idle
           /\ UNCHANGED <<version, current, run, cursor>>
  BY CommitFacts
<1>1.      /\ DOMAIN commit = 1..n /\ DOMAIN commit' = 1..(n + 1)
           /\ commit' = [x \in DOMAIN commit \cup {n + 1} |-> IF x = n + 1 THEN row ELSE commit[x]]
           /\ reference' = Sealed(reference \cup NewPins(n + 1, transition, ends), current)
           /\ call' = [k \in DOMAIN call |-> IF k = proc.call THEN [call[k] EXCEPT !.attempt = TRUE] ELSE call[k]]
           /\ proc' = Idle
           /\ UNCHANGED <<version, current, run, cursor>>
  BY <1>0
<1>2. PICK m \in Nat : DOMAIN call = 1..m
  BY DEF Gapless
<1>3. Numbered /\ Covered /\ EvidenceIsKept /\ TypeOK /\ LinksResolve
  BY DEF Evidence, Links
<1>4. /\ row.call = proc.call /\ row.seen = Seen /\ row.detail = Detailed(Seen)
      /\ (row.transition <=> transition) /\ proc.call \in Nat
  BY <1>3 DEF TypeOK, ProcType
<1> HIDE DEF row
<1>5. PICK N \in Nat : N = n + 1
  OBVIOUS
<1>6. /\ N \in DOMAIN commit' /\ commit'[N] = row /\ N \notin DOMAIN commit
      /\ DOMAIN commit' = DOMAIN commit \cup {N}
      /\ \A t \in DOMAIN commit : t \in DOMAIN commit' /\ commit'[t] = commit[t] /\ t # N
  BY <1>1, <1>5
<1>7. /\ ProtectedTransitions' \subseteq ProtectedTransitions \cup {N}
      /\ N \in ProtectedTransitions' => transition
      /\ ProtectedAttempts' \subseteq ProtectedAttempts \cup {proc.call}
  BY <1>1, <1>2, <1>3, <1>4, <1>5, ProtectedAfterCommit
<1>8. \A t \in DOMAIN commit : commit[t].call # 0 => commit[t].call # proc.call
  BY <1>3 DEF Numbered
<1>9. /\ \A f \in reference : f.kind \in {"transition", "assessment"} => f \in reference'
      /\ \A f \in NewPins(N, transition, ends) : f.kind \in {"transition", "assessment"} => f \in reference'
  BY <1>1, <1>5 DEF Sealed
<1>10. Numbered'
  <2>1. DOMAIN call' = DOMAIN call /\ \A k \in DOMAIN call : (k = proc.call \/ call[k].attempt) => call'[k].attempt
    <3> DEFINE Row == [version : Nat, old : BOOLEAN, attempt : BOOLEAN]
    <3>1. \A x \in Row : [x EXCEPT !.attempt = TRUE].attempt
      OBVIOUS
    <3>2. \A k \in DOMAIN call : call[k] \in Row
      BY <1>3 DEF TypeOK, CallType
    <3> HIDE DEF Row
    <3>3. QED
      BY <1>1, <3>1, <3>2
  <2>2. proc'.call = 0
    BY <1>1 DEF Idle
  <2>3. ASSUME NEW t \in DOMAIN commit', commit'[t].call # 0
        PROVE  commit'[t].call \in DOMAIN call' /\ call'[commit'[t].call].attempt
    <3>1. CASE t = N
      <4>1. proc.call # 0 /\ commit'[t].call = proc.call
        BY <1>4, <1>6, <2>3, <3>1
      <4>2. proc.call \in DOMAIN call
        BY <1>3, <4>1 DEF Numbered
      <4>3. QED
        BY <2>1, <4>1, <4>2
    <3>2. CASE t \in DOMAIN commit
      <4>1. commit[t].call # 0 /\ commit'[t].call = commit[t].call
        BY <1>6, <2>3, <3>2
      <4>2. commit[t].call \in DOMAIN call /\ call[commit[t].call].attempt
        BY <1>3, <3>2, <4>1 DEF Numbered
      <4>3. QED
        BY <2>1, <4>1, <4>2
    <3>3. QED
      BY <1>6, <3>1, <3>2
  <2>4. QED
    BY <2>2, <2>3 DEF Numbered
<1>11. ASSUME NEW t \in DOMAIN commit, NEW k \in {"transition", "assessment"}, NEW i, Held(t, k, i)
       PROVE  Held(t, k, i)'
  BY <1>6, <1>9, <1>11 DEF Held
<1>12. ASSUME NEW k \in {"transition", "assessment"}, NEW i, Pins(k, i) \subseteq NewPins(N, transition, ends)
       PROVE  Held(N, k, i)'
  <2>1. commit'[N].seen = Seen /\ commit'[N].detail = Detailed(Seen)
    BY <1>4, <1>6
  <2>2. ASSUME NEW r \in Seen
        PROVE  \E f \in reference' :
                 f.run = r /\ f.kind = k /\ f.owner = <<i, 0>> /\ (r \in Detailed(Seen) => f.full)
    <3>1. PICK f \in Pins(k, i) : f.run = r /\ f.kind = k /\ f.owner = <<i, 0>> /\ (r \in Detailed(Seen) => f.full)
      BY PinsCover
    <3>2. f \in reference'
      BY <1>9, <1>12, <3>1
    <3>3. QED
      BY <3>1, <3>2
  <2>3. QED
    BY <2>1, <2>2 DEF Held
<1>13. Covered'
  <2> SUFFICES ASSUME NEW t \in DOMAIN commit'
               PROVE  /\ commit'[t].detail \subseteq commit'[t].seen
                      /\ t \in ProtectedTransitions' => Held(t, "transition", t)'
                      /\ commit'[t].call # 0 /\ commit'[t].call \in ProtectedAttempts' =>
                           Held(t, "assessment", commit[t].call)'
    BY DEF Covered
  <2>1. CASE t = N
    <3>1. commit'[t].detail \subseteq commit'[t].seen
      BY <1>4, <1>6, <2>1 DEF Detailed
    <3>2. ASSUME t \in ProtectedTransitions' PROVE Held(t, "transition", t)'
      <4>1. transition
        BY <1>7, <2>1, <3>2
      <4>2. Pins("transition", N) \subseteq NewPins(N, transition, ends)
        BY <4>1 DEF NewPins
      <4>3. QED
        BY <1>12, <2>1, <4>2
    <3>3. ASSUME commit'[t].call # 0 PROVE Held(t, "assessment", commit[t].call)'
      <4>1. proc.call # 0 /\ commit'[t].call = proc.call
        BY <1>4, <1>6, <2>1, <3>3
      <4>2. PICK i : i = proc.call
        OBVIOUS
      <4>3. Pins("assessment", i) \subseteq NewPins(N, transition, ends)
        BY <4>1, <4>2 DEF NewPins
      <4>4. Held(N, "assessment", i)'
        BY <1>12, <4>3
      <4>5. QED
        BY <2>1, <4>1, <4>2, <4>4
    <3>4. QED
      BY <3>1, <3>2, <3>3
  <2>2. CASE t \in DOMAIN commit
    <3>1. commit'[t] = commit[t] /\ t # N
      BY <1>6, <2>2
    <3>2. t \in ProtectedTransitions' => Held(t, "transition", t)'
      BY <1>3, <1>7, <1>11, <2>2, <3>1 DEF Covered
    <3>3. ASSUME commit'[t].call # 0, commit'[t].call \in ProtectedAttempts'
          PROVE  Held(t, "assessment", commit[t].call)'
      <4>1. PICK i : i = commit[t].call
        OBVIOUS
      <4>2. i # 0 /\ i \in ProtectedAttempts /\ commit'[t].call = i
        BY <1>7, <1>8, <2>2, <3>1, <3>3, <4>1
      <4>3. Held(t, "assessment", i)
        BY <1>3, <2>2, <4>1, <4>2 DEF Covered
      <4>4. Held(t, "assessment", i)'
        BY <1>11, <2>2, <4>3
      <4>5. QED
        BY <4>2, <4>4
    <3>4. commit'[t].detail \subseteq commit'[t].seen
      BY <1>3, <2>2, <3>1 DEF Covered
    <3>5. QED
      BY <3>2, <3>3, <3>4
  <2>3. QED
    BY <1>6, <2>1, <2>2
<1>14. EvidenceIsKept'
  <2> SUFFICES ASSUME NEW t \in DOMAIN commit', Protected(t)'
               PROVE  /\ commit'[t].seen \subseteq Runs'
                      /\ \A r \in commit'[t].detail : ~Expired(r)'
    BY DEF EvidenceIsKept
  <2>1. Runs' = Runs /\ \A r : Expired(r)' = Expired(r)
    BY <1>1 DEF Runs, Expired
  <2>2. CASE t = N
    <3>1. Seen \subseteq Runs /\ \A r \in Detailed(Seen) : ~Expired(r)
      BY <1>3, SeenAreRuns DEF Detailed
    <3>2. QED
      BY <1>4, <1>6, <2>1, <2>2, <3>1
  <2>3. CASE t \in DOMAIN commit
    <3>1. commit'[t] = commit[t] /\ t # N
      BY <1>6, <2>3
    <3>2. t \in ProtectedTransitions' \/ (commit'[t].call # 0 /\ commit'[t].call \in ProtectedAttempts')
      BY DEF Protected
    <3>3. Protected(t)
      BY <1>7, <1>8, <2>3, <3>1, <3>2 DEF Protected
    <3>4. QED
      BY <1>3, <2>1, <2>3, <3>1, <3>3 DEF EvidenceIsKept
  <2>4. QED
    BY <1>6, <2>2, <2>3
<1>15. QED
  BY <1>10, <1>13, <1>14 DEF Evidence

LEMMA EvidenceNext == Links /\ Gapless /\ Links' /\ Evidence /\ [Next]_vars => Evidence'
<1> SUFFICES ASSUME Links, Gapless, Links', Evidence, [Next]_vars PROVE Evidence'
  OBVIOUS
<1>1. CASE UNCHANGED vars
  BY <1>1, EvidenceQuiet DEF vars, rows, decisions, Runs
<1>2. CASE Elapse
  BY <1>2, EvidenceAge, EvidenceReconcile DEF Elapse
<1>3. CASE Retention
  BY <1>3, EvidenceRetention
<1>4. CASE Reconcile
  <2>1. CASE \E transition, ends \in BOOLEAN : Commit(transition, ends)
    BY <2>1, EvidenceCommit
  <2>2. CASE ~\E transition, ends \in BOOLEAN : Commit(transition, ends)
    BY <1>4, <2>2, EvidenceReconcile DEF Reconcile
  <2>3. QED
    BY <2>1, <2>2
<1>5. QED
  BY <1>1, <1>2, <1>3, <1>4 DEF Next

\* However many commits, calls, inputs and retention passes there were: every run the
\* current Transition or a current Assessment was decided on is still there, in full
\* where it had its detail then (insertPermanentObservationReferencesTx against
\* releaseAttemptEvidence, pruneObservationDetails and trimObservationCycles).
THEOREM EvidenceStays == Spec => []EvidenceIsKept
<1>1. Init => Evidence
  BY EvidenceInit
<1>2. Links /\ Gapless /\ Links' /\ Evidence /\ [Next]_vars => Evidence'
  BY EvidenceNext
<1>3. Evidence => EvidenceIsKept
  BY DEF Evidence
<1>4. QED
  BY <1>1, <1>2, <1>3, LinksAlways, PTL DEF Spec

-----------------------------------------------------------------------------
\* The change of a profile on its way to the Situations.

\* The columns of a Situation that this is about.
FanFields == {"open", "has", "due", "run", "fence", "seen", "basis"}

\* A change to version v of signature k is on its way to Situation n.
FanComing(n, k, v) == \E c \in changes : c.signature = k /\ c.version = v /\ n > c.cursor

\* The Situation n, with record r, under signature k whose head is v.
FanSettled(n, r, k, v) == r.open /\ r.basis[k] # v => r.due \/ FanComing(n, k, v)
FanGuided(n, r, k, v) == r.open /\ r.run = "guided" /\ r.fence => r.seen[k] = v \/ FanComing(n, k, v)

FanUnder(r) == {SignatureOf(i) : i \in r.has}

FanRow(r) ==
  /\ DOMAIN r = FanFields /\ r.has \subseteq Inputs
  /\ r.open \in BOOLEAN /\ r.due \in BOOLEAN /\ r.fence \in BOOLEAN

FanAt(n, r) ==
  FanRow(r) /\ \A k \in FanUnder(r) : FanSettled(n, r, k, head[k]) /\ FanGuided(n, r, k, head[k])

FanChange(c) == DOMAIN c = {"signature", "version", "cursor"}

FanInv ==
  /\ DOMAIN head = FanOut!Signatures /\ DOMAIN profiled = Situations
  /\ \A c \in changes : FanChange(c)
  /\ \A n \in Situations : FanAt(n, profiled[n])

\* A set of numbers that is not empty has a smallest one.
LEMMA FanLeast ==
  ASSUME NEW T \in SUBSET Nat, T # {}
  PROVE  \E x \in T : \A y \in T : x <= y
<1>1. PICK x \in T : \A y \in T : ~(<<y, x>> \in OpToRel(<, Nat))
  BY NatLessThanWellFounded, WFMin
<1>2. ASSUME NEW y \in T PROVE x <= y
  <2>1. x \in Nat /\ y \in Nat /\ ~(<<y, x>> \in OpToRel(<, Nat))
    BY <1>1
  <2>2. ~(y < x)
    BY <2>1 DEF OpToRel
  <2>3. x \in Nat /\ y \in Nat
    BY <1>1
  <2> QED BY <2>2, <2>3
<1> QED BY <1>2

LEMMA FanLibrary == ASSUME NEW S PROVE FanOut!Cardinality(S) = Cardinality(S)
BY Zenon DEF FanOut!Cardinality, Cardinality

\* The members of a set A before n, and its first page.
FanBefore(A, n) == {k \in A : k < n}
FanPage(A) == {n \in A : Cardinality(FanBefore(A, n)) < BatchSize}

LEMMA FanCounts ==
  ASSUME NEW A \in SUBSET Situations
  PROVE  /\ A \subseteq Nat /\ IsFiniteSet(A) /\ IsFiniteSet(FanPage(A)) /\ Cardinality(FanPage(A)) \in Nat
         /\ \A n \in A : IsFiniteSet(FanBefore(A, n)) /\ Cardinality(FanBefore(A, n)) \in Nat
<1>1. A \subseteq Nat /\ IsFiniteSet(A)
  BY FanOutAssumption, FS_Subset
<1>2. IsFiniteSet(FanPage(A)) /\ Cardinality(FanPage(A)) \in Nat
  <2>1. FanPage(A) \subseteq A
    BY DEF FanPage
  <2>2. IsFiniteSet(FanPage(A))
    BY <1>1, <2>1, FS_Subset
  <2> QED BY <2>2, FS_CardinalityType
<1>3. ASSUME NEW n \in A PROVE IsFiniteSet(FanBefore(A, n)) /\ Cardinality(FanBefore(A, n)) \in Nat
  <2>1. FanBefore(A, n) \subseteq A
    BY DEF FanBefore
  <2>2. IsFiniteSet(FanBefore(A, n))
    BY <1>1, <2>1, FS_Subset
  <2> QED BY <2>2, FS_CardinalityType
<1> QED BY <1>1, <1>2, <1>3

\* A page that is not full leaves nobody out.
LEMMA FanLastPage ==
  ASSUME NEW A \in SUBSET Situations, Cardinality(FanPage(A)) < BatchSize
  PROVE  A \subseteq FanPage(A)
<1>1. PICK T : T = A \ FanPage(A)
  OBVIOUS
<1>2. SUFFICES ASSUME T # {} PROVE FALSE
  BY <1>1
<1>3. T \in SUBSET Nat
  BY <1>1, FanCounts
<1>4. PICK n \in T : \A y \in T : n <= y
  BY <1>2, <1>3, FanLeast
<1>5. n \in A /\ n \in Nat /\ ~(Cardinality(FanBefore(A, n)) < BatchSize)
  BY <1>1, <1>3, <1>4 DEF FanPage
<1>6. FanBefore(A, n) \subseteq FanPage(A)
  <2>1. ASSUME NEW k \in FanBefore(A, n) PROVE k \in FanPage(A)
    <3>1. k \in A /\ k < n /\ k \in Nat
      BY FanCounts DEF FanBefore
    <3>2. k \notin T
      BY <1>4, <1>5, <3>1
    <3> QED BY <1>1, <3>1, <3>2
  <2> QED BY <2>1
<1>7. Cardinality(FanBefore(A, n)) <= Cardinality(FanPage(A))
  BY <1>6, FanCounts, FS_Subset
<1>8. Cardinality(FanBefore(A, n)) \in Nat /\ Cardinality(FanPage(A)) \in Nat /\ BatchSize \in Nat
  BY <1>5, FanCounts, FanOutAssumption
<1> QED BY <1>5, <1>7, <1>8

\* Who is not on a page comes after everyone who is.
LEMMA FanPagesInOrder ==
  ASSUME NEW A \in SUBSET Situations, NEW n \in A, n \notin FanPage(A), NEW m \in FanPage(A)
  PROVE  n > m
<1>1. m \in A /\ n \in Nat /\ m \in Nat
  BY FanCounts DEF FanPage
<1> SUFFICES ASSUME n <= m PROVE FALSE
  BY <1>1
<1>2. FanBefore(A, n) \subseteq FanBefore(A, m)
  <2>1. ASSUME NEW k \in FanBefore(A, n) PROVE k \in FanBefore(A, m)
    <3>1. k \in A /\ k < n /\ k \in Nat
      BY FanCounts DEF FanBefore
    <3> QED BY <1>1, <3>1 DEF FanBefore
  <2> QED BY <2>1
<1>3. Cardinality(FanBefore(A, n)) <= Cardinality(FanBefore(A, m))
  BY <1>1, <1>2, FanCounts, FS_Subset
<1>4. Cardinality(FanBefore(A, m)) < BatchSize /\ ~(Cardinality(FanBefore(A, n)) < BatchSize)
  BY DEF FanPage
<1>5. Cardinality(FanBefore(A, n)) \in Nat /\ Cardinality(FanBefore(A, m)) \in Nat /\ BatchSize \in Nat
  BY <1>1, FanCounts, FanOutAssumption
<1> QED BY <1>3, <1>4, <1>5

\* A finite set of numbers that is not empty has a largest one: the member most others
\* come before.
LEMMA FanGreatest ==
  ASSUME NEW P \in SUBSET Nat, IsFiniteSet(P), P # {}
  PROVE  \E x \in P : \A y \in P : x >= y
<1> DEFINE S == {Cardinality(FanBefore(P, x)) : x \in P}
<1>1. Cardinality(P) \in Nat
  BY FS_CardinalityType
<1>2. ASSUME NEW x \in P
      PROVE  /\ IsFiniteSet(FanBefore(P, x)) /\ Cardinality(FanBefore(P, x)) \in Nat
             /\ Cardinality(FanBefore(P, x)) <= Cardinality(P)
  <2>1. FanBefore(P, x) \subseteq P
    BY DEF FanBefore
  <2>2. IsFiniteSet(FanBefore(P, x)) /\ Cardinality(FanBefore(P, x)) <= Cardinality(P)
    BY <2>1, FS_Subset
  <2> QED BY <2>2, FS_CardinalityType
<1>3. S \in SUBSET (0..Cardinality(P)) /\ S # {}
  <2>1. ASSUME NEW k \in S PROVE k \in 0..Cardinality(P)
    <3>1. PICK x \in P : k = Cardinality(FanBefore(P, x))
      OBVIOUS
    <3> QED BY <1>1, <1>2, <3>1
  <2>2. PICK x \in P : TRUE
    OBVIOUS
  <2>3. Cardinality(FanBefore(P, x)) \in S
    OBVIOUS
  <2> HIDE DEF S
  <2> QED BY <2>1, <2>3
<1>4. PICK m \in S : \A k \in S : m >= k
  <2> HIDE DEF S
  <2> QED BY <1>1, <1>3, Largest
<1>5. PICK x \in P : m = Cardinality(FanBefore(P, x))
  OBVIOUS
<1>6. ASSUME NEW y \in P PROVE x >= y
  <2>1. SUFFICES ASSUME x < y PROVE FALSE
    OBVIOUS
  <2>2. PICK B : B = FanBefore(P, x)
    OBVIOUS
  <2>3. x \notin B /\ B \cup {x} \subseteq FanBefore(P, y)
    <3>1. x \in Nat /\ y \in Nat /\ \A z \in P : z \in Nat
      OBVIOUS
    <3>2. ~(x < x)
      BY <3>1
    <3>3. x \notin B
      BY <2>2, <3>2 DEF FanBefore
    <3>4. ASSUME NEW k \in B PROVE k \in FanBefore(P, y)
      <4>1. k \in P /\ k < x /\ k \in Nat
        BY <2>2, <3>1 DEF FanBefore
      <4>2. k < y
        BY <2>1, <3>1, <4>1
      <4> QED BY <4>1, <4>2 DEF FanBefore
    <3>5. x \in FanBefore(P, y)
      BY <2>1 DEF FanBefore
    <3> QED BY <3>3, <3>4, <3>5
  <2>4. IsFiniteSet(B) /\ Cardinality(B) \in Nat
    BY <1>2, <2>2
  <2>5. Cardinality(B \cup {x}) = Cardinality(B) + 1
    BY <2>3, <2>4, FS_AddElement
  <2>6. Cardinality(B \cup {x}) <= Cardinality(FanBefore(P, y))
    BY <1>2, <2>3, FS_Subset
  <2>7. m >= Cardinality(FanBefore(P, y)) /\ Cardinality(FanBefore(P, y)) \in Nat
    BY <1>2, <1>4
  <2> QED BY <1>5, <2>2, <2>4, <2>5, <2>6, <2>7
<1> QED BY <1>6

\* The cursor of a page is its last member.
LEMMA FanCursor ==
  ASSUME NEW A \in SUBSET Situations, ~(Cardinality(FanPage(A)) < BatchSize)
  PROVE  FanOut!Max(FanPage(A)) \in FanPage(A)
<1>1. PICK P : P = FanPage(A)
  OBVIOUS
<1>2. P \subseteq Nat /\ IsFiniteSet(P)
  BY <1>1, FanCounts DEF FanPage
<1>3. P # {}
  <2>1. Cardinality({}) = 0
    BY FS_EmptySet
  <2>2. BatchSize \in Nat \ {0}
    BY FanOutAssumption
  <2> QED BY <1>1, <2>1, <2>2
<1>4. \E x \in P : \A y \in P : x >= y
  BY <1>2, <1>3, FanGreatest
<1> QED BY <1>1, <1>4, Zenon DEF FanOut!Max
-----------------------------------------------------------------------------
LEMMA FanInit == FanOut!Init => FanInv
<1> SUFFICES ASSUME FanOut!Init PROVE FanInv
  OBVIOUS
<1>1. DOMAIN head = FanOut!Signatures /\ DOMAIN profiled = Situations /\ \A c \in changes : FanChange(c)
  BY DEF FanOut!Init, FanOut!NoGuidance
<1>2. ASSUME NEW n \in Situations PROVE FanAt(n, profiled[n])
  <2>1. /\ DOMAIN profiled[n] = FanFields /\ profiled[n].has = {}
        /\ profiled[n].open = TRUE /\ profiled[n].due = FALSE /\ profiled[n].fence = FALSE
    BY DEF FanOut!Init, FanFields
  <2> QED BY <2>1 DEF FanAt, FanRow, FanUnder
<1> QED BY <1>1, <1>2 DEF FanInv

\* A step that leaves Situations, heads and changes alone.
LEMMA FanFrame ==
  ASSUME FanInv, head' = head, profiled' = profiled, changes' = changes
  PROVE  FanInv'
BY DEF FanInv, FanChange, FanAt, FanRow, FanUnder, FanSettled, FanGuided, FanComing

\* A step of one Situation.
FanMoved(m) ==
  /\ head' = head /\ changes' = changes /\ DOMAIN profiled' = Situations
  /\ \A n \in Situations : n # m => profiled'[n] = profiled[n]

LEMMA FanOne ==
  ASSUME FanInv, NEW m \in Situations, FanMoved(m), FanAt(m, profiled'[m])
  PROVE  FanInv'
<1>1. head' = head /\ changes' = changes /\ DOMAIN profiled' = Situations
  BY DEF FanMoved
<1>2. ASSUME NEW n \in Situations PROVE FanAt(n, profiled'[n])
  BY DEF FanMoved, FanInv
<1>3. \A n \in Situations : FanAt(n, profiled[n])'
  BY <1>1, <1>2 DEF FanAt, FanRow, FanUnder, FanSettled, FanGuided, FanComing
<1> QED BY <1>1, <1>3 DEF FanInv, FanChange

LEMMA FanAttach ==
  ASSUME FanInv, NEW m \in Situations, NEW i \in Inputs, FanOut!Attach(m, i)
  PROVE  FanInv'
<1>1. FanRow(profiled[m]) /\ DOMAIN profiled = Situations
  BY DEF FanInv, FanAt
<1>2. FanMoved(m)
  BY <1>1 DEF FanOut!Attach, FanOut!profile, FanMoved
<1>3. /\ DOMAIN profiled'[m] = FanFields /\ profiled'[m].has = profiled[m].has \cup {i}
      /\ profiled'[m].open = profiled[m].open /\ profiled'[m].due = TRUE /\ profiled'[m].fence = FALSE
  BY <1>1 DEF FanOut!Attach, FanOut!Woken, FanRow, FanFields
<1>4. FanRow(profiled'[m])
  BY <1>1, <1>3, Zenon DEF FanRow
<1>5. FanAt(m, profiled'[m])
  BY <1>3, <1>4 DEF FanAt, FanSettled, FanGuided
<1> QED BY <1>2, <1>5, FanOne

LEMMA FanLoad ==
  ASSUME FanInv, NEW m \in Situations, FanOut!Load(m)
  PROVE  FanInv'
<1>1. FanAt(m, profiled[m]) /\ FanRow(profiled[m]) /\ DOMAIN profiled = Situations
  BY DEF FanInv, FanAt
<1>2. FanMoved(m)
  BY <1>1 DEF FanOut!Load, FanOut!profile, FanMoved
<1>3. /\ DOMAIN profiled'[m] = FanFields /\ profiled'[m].has = profiled[m].has
      /\ profiled'[m].open = profiled[m].open /\ profiled'[m].due = profiled[m].due
      /\ profiled'[m].fence = TRUE /\ profiled'[m].run = "loaded" /\ profiled'[m].basis = profiled[m].basis
  BY <1>1 DEF FanOut!Load, FanRow, FanFields
<1>4. FanRow(profiled'[m])
  BY <1>1, <1>3, Zenon DEF FanRow
<1>5. FanAt(m, profiled'[m])
  BY <1>1, <1>3, <1>4 DEF FanAt, FanUnder, FanSettled, FanGuided
<1> QED BY <1>2, <1>5, FanOne

LEMMA FanGuide ==
  ASSUME FanInv, NEW m \in Situations, FanOut!Guide(m)
  PROVE  FanInv'
<1>1. FanAt(m, profiled[m]) /\ FanRow(profiled[m]) /\ DOMAIN profiled = Situations
  BY DEF FanInv, FanAt
<1>2. FanMoved(m)
  BY <1>1 DEF FanOut!Guide, FanOut!profile, FanMoved
<1>3. /\ DOMAIN profiled'[m] = FanFields /\ profiled'[m].has = profiled[m].has
      /\ profiled'[m].open = profiled[m].open /\ profiled'[m].due = profiled[m].due
      /\ profiled'[m].fence = profiled[m].fence /\ profiled'[m].basis = profiled[m].basis
      /\ profiled'[m].seen =
           [k \in FanOut!Signatures |-> IF k \in FanOut!Under(m) THEN head[k] ELSE 0]
  BY <1>1 DEF FanOut!Guide, FanRow, FanFields
<1>4. FanRow(profiled'[m])
  BY <1>1, <1>3, Zenon DEF FanRow
<1>5. ASSUME NEW k \in FanUnder(profiled'[m]) PROVE profiled'[m].seen[k] = head[k]
  <2>1. k \in FanOut!Under(m)
    BY <1>3 DEF FanUnder, FanOut!Under
  <2>2. k \in FanOut!Signatures
    BY <1>1, <2>1 DEF FanOut!Under, FanOut!Signatures, FanRow
  <2> QED BY <1>3, <2>1, <2>2
<1>6. FanAt(m, profiled'[m])
  BY <1>1, <1>3, <1>4, <1>5 DEF FanAt, FanUnder, FanSettled, FanGuided
<1> QED BY <1>2, <1>6, FanOne

LEMMA FanCommit ==
  ASSUME FanInv, NEW m \in Situations, FanOut!Commit(m)
  PROVE  FanInv'
<1>1. FanAt(m, profiled[m]) /\ FanRow(profiled[m]) /\ DOMAIN profiled = Situations
  BY DEF FanInv, FanAt
<1>2. FanMoved(m)
  BY <1>1 DEF FanOut!Commit, FanOut!profile, FanMoved
<1>3. /\ DOMAIN profiled'[m] = FanFields /\ profiled'[m].has = profiled[m].has
      /\ profiled'[m].open = profiled[m].open /\ profiled'[m].fence = profiled[m].fence
      /\ profiled'[m].run = "idle" /\ profiled[m].run = "guided"
      /\ profiled'[m].due = (profiled[m].due /\ ~profiled[m].fence)
      /\ profiled'[m].basis = IF profiled[m].fence THEN profiled[m].seen ELSE profiled[m].basis
  BY <1>1 DEF FanOut!Commit, FanRow, FanFields
<1>4. FanRow(profiled'[m])
  BY <1>1, <1>3, Zenon DEF FanRow
<1>5. ASSUME NEW k \in FanUnder(profiled'[m]) PROVE FanSettled(m, profiled'[m], k, head[k])
  <2>1. FanSettled(m, profiled[m], k, head[k]) /\ FanGuided(m, profiled[m], k, head[k])
    BY <1>1, <1>3 DEF FanAt, FanUnder
  <2>2. CASE profiled[m].fence
    BY <1>3, <2>1, <2>2 DEF FanSettled, FanGuided
  <2>3. CASE ~profiled[m].fence
    BY <1>3, <2>1, <2>3 DEF FanSettled
  <2> QED BY <2>2, <2>3
<1>6. FanAt(m, profiled'[m])
  BY <1>3, <1>4, <1>5 DEF FanAt, FanGuided
<1> QED BY <1>2, <1>6, FanOne

LEMMA FanClose ==
  ASSUME FanInv, NEW m \in Situations, FanOut!Close(m)
  PROVE  FanInv'
<1>1. FanAt(m, profiled[m]) /\ FanRow(profiled[m]) /\ DOMAIN profiled = Situations
  BY DEF FanInv, FanAt
<1>2. FanMoved(m)
  BY <1>1 DEF FanOut!Close, FanOut!profile, FanMoved
<1>3. /\ DOMAIN profiled'[m] = FanFields /\ profiled'[m].has = profiled[m].has
      /\ profiled'[m].open = FALSE /\ profiled'[m].due = profiled[m].due
      /\ profiled'[m].fence = profiled[m].fence
  BY <1>1 DEF FanOut!Close, FanRow, FanFields
<1>4. FanRow(profiled'[m])
  BY <1>1, <1>3, Zenon DEF FanRow
<1>5. FanAt(m, profiled'[m])
  BY <1>3, <1>4 DEF FanAt, FanSettled, FanGuided
<1> QED BY <1>2, <1>5, FanOne

\* A new head: its change starts before every Situation.
LEMMA FanAdvance ==
  ASSUME FanInv, NEW k, NEW from, FanOut!AdvanceHead(k, from), profiled' = profiled
  PROVE  FanInv'
<1>1. PICK c : c = [signature |-> k, version |-> head[k] + 1, cursor |-> 0]
  OBVIOUS
<1>2. /\ DOMAIN head' = FanOut!Signatures /\ (k \in FanOut!Signatures => head'[k] = head[k] + 1)
      /\ \A j \in FanOut!Signatures : j # k => head'[j] = head[j]
  BY DEF FanOut!AdvanceHead, FanInv
<1>3. changes' = changes \cup {c}
  BY <1>1 DEF FanOut!AdvanceHead
<1>4. c.signature = k /\ c.cursor = 0 /\ FanChange(c)
  BY <1>1 DEF FanChange
<1>5. ASSUME NEW n \in Situations PROVE FanAt(n, profiled[n])'
  <2>1. FanAt(n, profiled[n]) /\ FanRow(profiled[n])
    BY DEF FanInv, FanAt
  <2>2. ASSUME NEW j \in FanUnder(profiled[n])
        PROVE  FanSettled(n, profiled[n], j, head[j])' /\ FanGuided(n, profiled[n], j, head[j])'
    <3>1. j \in FanOut!Signatures
      BY <2>1 DEF FanUnder, FanRow, FanOut!Signatures
    <3>2. CASE j = k
      <4>1. n > c.cursor
        BY <1>4, FanOutAssumption
      <4>2. c.version = head'[k]
        BY <1>1, <1>2, <3>1, <3>2
      <4>3. FanComing(n, k, head[k])'
        BY <1>3, <1>4, <4>1, <4>2 DEF FanComing
      <4> QED BY <3>2, <4>3 DEF FanSettled, FanGuided
    <3>3. CASE j # k
      <4>1. FanSettled(n, profiled[n], j, head[j]) /\ FanGuided(n, profiled[n], j, head[j])
        BY <2>1 DEF FanAt
      <4>2. FanComing(n, j, head[j]) => FanComing(n, j, head[j])'
        BY <1>2, <1>3, <3>1, <3>3 DEF FanComing
      <4>3. head'[j] = head[j]
        BY <1>2, <3>1, <3>3
      <4> QED BY <4>1, <4>2, <4>3 DEF FanSettled, FanGuided
    <3> QED BY <3>2, <3>3
  <2>3. FanRow(profiled[n])'
    BY <2>1 DEF FanRow
  <2> QED BY <2>2, <2>3 DEF FanAt, FanUnder
<1>6. DOMAIN profiled' = Situations /\ \A d \in changes' : FanChange(d)
  BY <1>3, <1>4 DEF FanInv
<1> QED BY <1>2, <1>5, <1>6 DEF FanInv, FanChange

\* The next page of a change: who is on it is due, who is not comes after its cursor.
LEMMA FanDeliver ==
  ASSUME FanInv, NEW c \in changes, FanOut!Deliver(c)
  PROVE  FanInv'
<1>1. PICK A : A = FanOut!Audience(c)
  OBVIOUS
<1>2. A \in SUBSET Situations
  BY <1>1 DEF FanOut!Audience
<1>3. FanOut!Page(c) = FanPage(A)
  <2>1. FanOut!Page(c) = {n \in A : Cardinality({k \in A : k < n}) < BatchSize}
    BY <1>1, FanLibrary, Zenon DEF FanOut!Page
  <2> QED BY <2>1 DEF FanPage, FanBefore
<1>4. FanOut!Acknowledged(c) <=> Cardinality(FanPage(A)) < BatchSize
  BY <1>3, FanLibrary, Zenon DEF FanOut!Acknowledged
<1>5. /\ head' = head /\ DOMAIN profiled' = Situations
      /\ \A n \in Situations : n \notin FanPage(A) => profiled'[n] = profiled[n]
  BY <1>3 DEF FanOut!Deliver
<1>6. \A n \in Situations : n \in FanPage(A) => profiled'[n] = FanOut!Woken(n)
  BY <1>3 DEF FanOut!Deliver
<1>7. PICK d : d = [c EXCEPT !.cursor = FanOut!Max(FanPage(A))]
  OBVIOUS
<1>8. FanChange(c) /\ FanChange(d)
  BY <1>7 DEF FanInv, FanChange
<1>9. d.signature = c.signature /\ d.version = c.version /\ d.cursor = FanOut!Max(FanPage(A))
  BY <1>7, <1>8 DEF FanChange
<1>10. changes' = (changes \ {c}) \cup (IF FanOut!Acknowledged(c) THEN {} ELSE {d})
  BY <1>3, <1>7, Zenon DEF FanOut!Deliver
<1>11. \A b \in changes' : FanChange(b)
  BY <1>8, <1>10 DEF FanInv
<1>12. ASSUME NEW n \in Situations, n \in FanPage(A) PROVE FanAt(n, profiled[n])'
  <2>1. FanRow(profiled[n])
    BY DEF FanInv, FanAt
  <2>2. /\ DOMAIN profiled'[n] = FanFields /\ profiled'[n].has = profiled[n].has
        /\ profiled'[n].open = profiled[n].open /\ profiled'[n].due = TRUE /\ profiled'[n].fence = FALSE
    BY <1>6, <1>12, <2>1 DEF FanOut!Woken, FanRow, FanFields
  <2>3. FanRow(profiled'[n])
    BY <2>1, <2>2, Zenon DEF FanRow
  <2> QED BY <2>2, <2>3 DEF FanAt, FanRow, FanSettled, FanGuided
<1>13. ASSUME NEW n \in Situations, n \notin FanPage(A) PROVE FanAt(n, profiled[n])'
  <2>1. FanAt(n, profiled[n]) /\ FanRow(profiled[n]) /\ profiled'[n] = profiled[n]
    BY <1>5, <1>13 DEF FanInv, FanAt
  <2>2. ASSUME NEW k \in FanUnder(profiled[n]), profiled[n].open, FanComing(n, k, head[k])
        PROVE  FanComing(n, k, head[k])'
    <3>1. PICK b \in changes : b.signature = k /\ b.version = head[k] /\ n > b.cursor
      BY <2>2 DEF FanComing
    <3>2. CASE b # c
      BY <1>5, <1>10, <3>1, <3>2 DEF FanComing
    <3>3. CASE b = c
      <4>1. n \in A
        BY <1>1, <2>2, <3>1, <3>3 DEF FanOut!Audience, FanOut!Under, FanUnder
      <4>2. ~FanOut!Acknowledged(c)
        BY <1>2, <1>4, <1>13, <4>1, FanLastPage
      <4>3. FanOut!Max(FanPage(A)) \in FanPage(A)
        BY <1>2, <1>4, <4>2, FanCursor
      <4>4. n > FanOut!Max(FanPage(A))
        BY <1>2, <1>13, <4>1, <4>3, FanPagesInOrder
      <4>5. d \in changes'
        BY <1>10, <4>2
      <4> QED BY <1>5, <1>9, <3>1, <3>3, <4>4, <4>5 DEF FanComing
    <3> QED BY <3>2, <3>3
  <2>3. ASSUME NEW k \in FanUnder(profiled[n])
        PROVE  FanSettled(n, profiled[n], k, head[k])' /\ FanGuided(n, profiled[n], k, head[k])'
    <3>1. FanSettled(n, profiled[n], k, head[k]) /\ FanGuided(n, profiled[n], k, head[k])
      BY <2>1 DEF FanAt
    <3>2. profiled[n].open /\ FanComing(n, k, head[k]) => FanComing(n, k, head[k])'
      BY <2>2
    <3>3. head'[k] = head[k]
      BY <1>5
    <3> QED BY <2>1, <3>1, <3>2, <3>3, Zenon DEF FanSettled, FanGuided
  <2>4. FanRow(profiled[n])'
    BY <2>1 DEF FanRow
  <2> QED BY <2>1, <2>3, <2>4 DEF FanAt, FanUnder
<1>14. \A n \in Situations : FanAt(n, profiled[n])'
  BY <1>12, <1>13
<1>15. DOMAIN head' = FanOut!Signatures
  BY <1>5 DEF FanInv
<1> QED BY <1>5, <1>11, <1>14, <1>15 DEF FanInv, FanChange

LEMMA FanWork ==
  ASSUME FanInv, NEW w \in Workers, FanOut!Complete(w)
  PROVE  FanInv'
<1>1. profiled' = profiled
  BY DEF FanOut!Complete
<1>2. \/ head' = head /\ changes' = changes
      \/ FanOut!AdvanceHead(SignatureOf(worker[w].input), "inferred")
  BY Zenon DEF FanOut!Complete, FanOut!Accept
<1>3. CASE head' = head /\ changes' = changes
  BY <1>1, <1>3, FanFrame
<1>4. CASE FanOut!AdvanceHead(SignatureOf(worker[w].input), "inferred")
  BY <1>1, <1>4, FanAdvance
<1> QED BY <1>2, <1>3, <1>4

LEMMA FanNext == FanInv /\ [FanOut!Next]_FanOut!vars => FanInv'
<1> SUFFICES ASSUME FanInv, [FanOut!Next]_FanOut!vars PROVE FanInv'
  OBVIOUS
<1>1. CASE UNCHANGED FanOut!vars
  BY <1>1, FanFrame DEF FanOut!vars, FanOut!profile
<1>2. CASE \E n \in Situations : (\E i \in Inputs : FanOut!Attach(n, i)) \/ FanOut!Reconcile(n) \/ FanOut!Close(n)
  BY <1>2, FanAttach, FanLoad, FanGuide, FanCommit, FanClose DEF FanOut!Reconcile
<1>3. CASE \E s \in FanOut!Signatures : FanOut!Correct(s)
  BY <1>3, FanAdvance DEF FanOut!Correct
<1>4. CASE \E c \in changes : FanOut!Deliver(c)
  BY <1>4, FanDeliver
<1>5. CASE \E w \in Workers : (\E i \in Inputs : FanOut!Claim(w, i)) \/ FanOut!Proceed(w) \/ FanOut!Abandon(w)
  <2>1. PICK w \in Workers : (\E i \in Inputs : FanOut!Claim(w, i)) \/ FanOut!Proceed(w) \/ FanOut!Abandon(w)
    BY <1>5
  <2>2. CASE FanOut!Complete(w)
    BY <2>2, FanWork
  <2>3. CASE ~FanOut!Complete(w)
    <3>1. head' = head /\ profiled' = profiled /\ changes' = changes
      BY <2>1, <2>3 DEF FanOut!Claim, FanOut!Proceed, FanOut!Reserve, FanOut!Answer, FanOut!LeaseLost,
         FanOut!Abandon, FanOut!profile
    <3> QED BY <3>1, FanFrame
  <2> QED BY <2>2, <2>3
<1>6. CASE (\E i \in Inputs : FanOut!LeaseExpires(i)) \/ FanOut!Outage \/ FanOut!Recovery \/ FanOut!Rearm
  <2>1. head' = head /\ profiled' = profiled /\ changes' = changes
    BY <1>6 DEF FanOut!LeaseExpires, FanOut!Outage, FanOut!Recovery, FanOut!Rearm, FanOut!profile
  <2> QED BY <2>1, FanFrame
<1> QED BY <1>1, <1>2, <1>3, <1>4, <1>5, <1>6 DEF FanOut!Next

LEMMA FanHolds == FanInv => NoSilentChange
<1> SUFFICES ASSUME FanInv, NEW n \in Situations, NEW k \in FanOut!Under(n)
             PROVE  profiled[n].open /\ profiled[n].basis[k] # head[k]
                      => profiled[n].due \/ FanComing(n, k, head[k])
  BY DEF NoSilentChange, FanOut!NoSilentChange, FanComing
<1>1. k \in FanUnder(profiled[n])
  BY DEF FanUnder, FanOut!Under
<1> QED BY <1>1 DEF FanInv, FanAt, FanSettled

\* However the pages of a change, the deliveries that attach, the reconciliations and further
\* heads interleave: a Situation decided on an older profile is due, or the change that says
\* so is still to reach it (DeliverSemanticProfileChangesDetailed, CommitController).
THEOREM ChangesReachEveryone == FanOut!Spec => []NoSilentChange
<1>1. FanOut!Spec => []FanInv
  BY FanInit, FanNext, PTL DEF FanOut!Spec
<1> QED BY <1>1, FanHolds, PTL
=============================================================================
