----------------------- MODULE SituationInputsProofs -----------------------
(***************************************************************************)
(* Safety of the input queue, the Situations it feeds and the controller   *)
(* runs that close them, for every number of inputs, Incidents, claims,    *)
(* attempts and faults, every batch size and every deadline.               *)
(***************************************************************************)
EXTENDS SituationInputs, FiniteSetTheorems, WellFoundedInduction, TLAPS

-----------------------------------------------------------------------------
(* The inductive invariant.                                                *)

\* Rows are queued one after the other, each for an Incident that exists.
RowsAreQueued ==
  \A k \in InputIds :
    IF inputs[k].status = "absent" THEN inputs[k] = NoInput
    ELSE /\ inputs[k].incident \in Incidents /\ inputs[k].kind \in Kinds
         /\ alert[inputs[k].incident] # "none"
         /\ \A j \in InputIds : j < k => inputs[j].status # "absent"

\* An owner is a Situation that exists, of an Incident that exists.
OwnersExist ==
  \A i \in Incidents :
    owner[i] # 0 => alert[i] # "none" /\ situations[owner[i]].life # "none"

\* Nothing is known of a Situation before it opens; only an open one is leased.
LeasesAreOpen ==
  \A s \in Incidents :
    /\ situations[s].life = "none" => situations[s] = NoSituation
    /\ situations[s].lease # "none" => situations[s].life \in Open

OneOpen ==
  \A s, t \in Incidents : situations[s].life \in Open /\ situations[t].life \in Open => s = t

RowsAreOwned ==
  \A k \in InputIds :
    inputs[k].status \in Done => /\ inputs[k].situation # 0
                                 /\ inputs[k].situation = owner[inputs[k].incident]

\* A claim is charged when it is made, and burned or refunded when it ends.
AttemptsAreBurned ==
  \A k \in InputIds :
    /\ inputs[k].status = "pending" => inputs[k].attempts <= burned[k]
    /\ inputs[k].status \in {"claimed", "expired"} => inputs[k].attempts <= burned[k] + 1
    /\ inputs[k].status = "failed" => burned[k] >= MaxAttempts

\* The newest delivery of an Incident is the last one that was queued for it.
LastWord ==
  \A k \in InputIds :
    inputs[k].kind = "firing" /\ alert[inputs[k].incident] # "firing" =>
      \E j \in InputIds : Later(j, k, "resolved")

\* What a run in possession of its lease has decided still fits the row: only
\* its own commit changes the lifecycle, only time the grace, and only an
\* input that joins, which changes the version, what the decision was taken on.
Decided(r) ==
  LET row == situations[r.situation] IN
  r.life # "none" /\ HoldsLease(r) =>
    /\ row.life = "active" => r.life # "recovered"
    /\ r.life = "recovered" =>
         /\ row.grace = 0
         /\ row.version = r.version =>
              \A k \in AppliedTo(r.situation) :
                inputs[k].kind = "firing" => Outdated(r.situation, k)
RunsAreDecided ==
  \A r \in runs : /\ r.token <= situations[r.situation].token
                  /\ r.version <= situations[r.situation].version
                  /\ Decided(r)

Inv ==
  /\ TypeOK /\ RowsAreQueued /\ OwnersExist /\ LeasesAreOpen /\ OneOpen /\ RowsAreOwned
  /\ AttemptsAreBurned /\ EveryInputCountsOnce /\ LastWord /\ RunsAreDecided

-----------------------------------------------------------------------------
(* Facts about the operators.                                              *)

\* A set of numbers that is not empty has a least element.
LEMMA LeastElement ==
  ASSUME NEW T \in SUBSET Nat, T # {}
  PROVE  \E x \in T : \A y \in T : x <= y
<1>1. PICK x \in T : \A y \in T : ~(<<y, x>> \in OpToRel(<, Nat))
  BY NatLessThanWellFounded, WFMin
<1>2. \A y \in T : ~(y < x)
  <2> SUFFICES ASSUME NEW y \in T, y < x PROVE FALSE
    OBVIOUS
  <2>1. <<y, x>> \in Nat \X Nat OBVIOUS
  <2>2. <<y, x>> \in OpToRel(<, Nat) BY <2>1 DEF OpToRel
  <2> QED BY <1>1, <2>2
<1>3. x \in Nat /\ T \subseteq Nat OBVIOUS
<1>4. \A y \in T : x <= y BY <1>2, <1>3
<1> QED BY <1>4

\* The worker's next claim is a claim of its batch, and the first of them.
LEMMA CurrentClaim ==
  ASSUME NEW e \in Executors, batch[e] \in SUBSET Claim, batch[e] # {}
  PROVE  /\ Current(e) \in batch[e]
         /\ Current(e).id \in InputIds /\ Current(e).token \in Nat
<1> DEFINE ids == {c.id : c \in batch[e]}
<1>1. ids \in SUBSET Nat /\ ids # {} BY InputsAssumption DEF Claim, InputIds
<1>2. PICK x \in ids : \A y \in ids : x <= y BY <1>1, LeastElement
<1>3. PICK c \in batch[e] : x = c.id OBVIOUS
<1>4. \A d \in batch[e] : c.id <= d.id BY <1>2, <1>3
<1>5. Current(e) \in batch[e] BY <1>3, <1>4 DEF Current
<1> QED BY <1>5 DEF Claim

LEMMA FenceRow ==
  ASSUME TypeOK, NEW e \in Executors, batch[e] # {}
  PROVE  /\ Current(e).id \in InputIds /\ RowOf(e) = inputs[Current(e).id] /\ RowOf(e) \in Input
         /\ FenceHolds(e) => RowOf(e).status \in {"claimed", "expired"}
<1>1. batch[e] \in SUBSET Claim BY DEF TypeOK
<1>2. Current(e).id \in InputIds BY <1>1, CurrentClaim
<1> QED BY <1>2 DEF TypeOK, RowOf, FenceHolds

\* A joined Situation is open if it was open or did not exist.
LEMMA JoinedRow ==
  ASSUME TypeOK, LeasesAreOpen, NEW s \in Incidents
  PROVE  /\ Joined(s) \in Situation /\ Joined(s).lease = "none"
         /\ Joined(s).version = situations[s].version + 1
         /\ situations[s].life = "none" => Joined(s).life = "active"
         /\ situations[s].life # "none" => Joined(s).life = situations[s].life
         /\ Joined(s).token = situations[s].token
         /\ Joined(s).life # "none"
<1>1. situations[s] \in Situation BY DEF TypeOK
<1>2. CASE situations[s].life = "none"
  <2>1. situations[s] = NoSituation BY <1>2 DEF LeasesAreOpen
  <2>2. Joined(s) = [life |-> "active", version |-> 1, lease |-> "none", protected |-> FALSE,
                     token |-> 0, streak |-> 0, grace |-> NoGrace]
    BY <1>2 DEF Joined, NoSituation
  <2>3. Joined(s) \in Situation BY <2>2, InputsAssumption DEF Situation, Open, NoGrace
  <2> QED BY <1>2, <2>1, <2>2, <2>3 DEF NoSituation
<1>3. CASE situations[s].life # "none"
  <2> DEFINE row == situations[s]
             streak == IF row.lease = "live" THEN row.streak + 1 ELSE row.streak
  <2>1. Joined(s) = [row EXCEPT !.version = row.version + 1, !.lease = "none",
                                !.protected = FALSE, !.streak = streak]
    BY <1>3 DEF Joined
  <2>2. row = [life |-> row.life, version |-> row.version, lease |-> row.lease,
               protected |-> row.protected, token |-> row.token, streak |-> row.streak,
               grace |-> row.grace]
    BY <1>1 DEF Situation
  <2>3. Joined(s) = [life |-> row.life, version |-> row.version + 1, lease |-> "none",
                     protected |-> FALSE, token |-> row.token, streak |-> streak,
                     grace |-> row.grace]
    BY <2>1, <2>2
  <2>4. /\ row.life \in Open \cup Terminal \cup {"none"} /\ row.version \in Nat
        /\ row.token \in 0..MaxClaims /\ row.grace \in NoGrace..Grace /\ row.streak \in Nat
    BY <1>1 DEF Situation
  <2>5. streak \in Nat /\ row.version + 1 \in Nat BY <2>4
  <2> HIDE DEF streak, row
  <2>6. Joined(s) \in Situation BY <2>3, <2>4, <2>5 DEF Situation
  <2> QED BY <1>3, <2>3, <2>6 DEF row
<1> QED BY <1>2, <1>3

\* The Situation an input goes to.
LEMMA TargetRow ==
  ASSUME TypeOK, OwnersExist, NEW i \in Incidents, NEW s \in Incidents, Target(i, s)
  PROVE  /\ owner[i] # 0 => s = owner[i] /\ situations[s].life # "none"
         /\ situations[s].life = "none" => \A t \in Incidents : situations[t].life \notin Open
<1>1. owner[i] \in 0..MaxIncidents /\ DOMAIN situations = Incidents BY DEF TypeOK
<1>2. CASE owner[i] # 0
  BY <1>1, <1>2 DEF Target, OwnersExist
<1>3. CASE owner[i] = 0 /\ OpenSituations # {}
  <2>1. s \in OpenSituations BY <1>3 DEF Target
  <2>2. situations[s].life \in Open BY <2>1 DEF OpenSituations
  <2> QED BY <1>3, <2>2 DEF Open
<1>4. CASE owner[i] = 0 /\ OpenSituations = {}
  <2>1. \A t \in Incidents : situations[t].life \notin Open BY <1>1, <1>4 DEF OpenSituations
  <2> QED BY <1>4, <2>1
<1> QED BY <1>2, <1>3, <1>4

\* What a cycle decides for an open Situation.
LEMMA Resolution ==
  ASSUME TypeOK, NEW s \in Incidents
  PROVE  /\ Resolve(s).life \in Open \cup Terminal \cup {"none"} /\ Resolve(s).grace \in NoGrace..Grace
         /\ situations[s].life \in Open /\ Resolve(s).life = "recovered" =>
              situations[s].life = "recovery_pending" /\ situations[s].grace = 0 /\ ~AnyFiring(s)
         /\ situations[s].life \in Open => Resolve(s).life # "none"
<1>1. situations[s] \in Situation BY DEF TypeOK
<1>2. situations[s].life \in Open \cup Terminal \cup {"none"} /\ situations[s].grace \in NoGrace..Grace
  BY <1>1 DEF Situation
<1>3. NoGrace \in NoGrace..Grace /\ Grace \in NoGrace..Grace BY InputsAssumption DEF NoGrace
<1>4. CASE AnyFiring(s)
  <2>1. Resolve(s) = [life |-> "active", grace |-> NoGrace] BY <1>4 DEF Resolve
  <2> QED BY <2>1, <1>3 DEF Open
<1>5. CASE ~AnyFiring(s) /\ situations[s].life = "active" /\ AllResolved(s)
  <2>1. Resolve(s) = [life |-> "recovery_pending", grace |-> Grace]
    BY <1>5 DEF Resolve, ClosureDue
  <2> QED BY <2>1, <1>3 DEF Open
<1>6. CASE ~AnyFiring(s) /\ situations[s].life = "active" /\ ~AllResolved(s)
  <2>1. Resolve(s) = [life |-> "closed_unknown", grace |-> NoGrace]
    BY <1>6 DEF Resolve, ClosureDue
  <2> QED BY <2>1, <1>3 DEF Terminal
<1>7. CASE ~AnyFiring(s) /\ situations[s].life = "recovery_pending" /\ ClosureDue(s) /\ Silent(s)
  <2>1. Resolve(s) = [life |-> "closed_unknown", grace |-> situations[s].grace]
    BY <1>7 DEF Resolve
  <2> QED BY <2>1, <1>2 DEF Terminal
<1>8. CASE ~AnyFiring(s) /\ situations[s].life = "recovery_pending" /\ ~(ClosureDue(s) /\ Silent(s))
  <2>1. Resolve(s) = [life |-> IF situations[s].grace = 0 THEN "recovered" ELSE "recovery_pending",
                      grace |-> situations[s].grace]
    BY <1>8 DEF Resolve
  <2> QED BY <2>1, <1>2, <1>8 DEF Terminal, Open
<1>9. CASE ~AnyFiring(s) /\ situations[s].life \notin Open
  <2>1. Resolve(s) = [life |-> situations[s].life, grace |-> situations[s].grace]
    BY <1>9 DEF Resolve, Open
  <2> QED BY <2>1, <1>2, <1>9
<1> QED BY <1>4, <1>5, <1>6, <1>7, <1>8, <1>9 DEF Open

-----------------------------------------------------------------------------
(* What a step may do to the queue.                                        *)

\* Rows that are queued stay what they are.
RowsStay ==
  \A k \in InputIds : inputs[k].status # "absent" =>
    /\ inputs'[k].status # "absent"
    /\ inputs'[k].incident = inputs[k].incident /\ inputs'[k].kind = inputs[k].kind

\* No row is applied, none is taken back.
NoneApplied ==
  \A k \in InputIds :
    /\ inputs'[k].status = "applied" <=> inputs[k].status = "applied"
    /\ inputs[k].status = "applied" => /\ inputs'[k].situation = inputs[k].situation
                                       /\ inputs'[k].version = inputs[k].version
SameVersions == \A s \in Incidents : situations'[s].version = situations[s].version

LEMMA CountKept ==
  ASSUME TypeOK, TypeOK', EveryInputCountsOnce, NoneApplied, SameVersions
  PROVE  EveryInputCountsOnce' /\ \A s \in Incidents : AppliedTo(s)' = AppliedTo(s)
<1>1. /\ DOMAIN inputs = InputIds /\ DOMAIN inputs' = InputIds
      /\ DOMAIN situations = Incidents /\ DOMAIN situations' = Incidents
  BY DEF TypeOK
<1>2. \A s \in Incidents : AppliedTo(s)' = AppliedTo(s) BY <1>1 DEF AppliedTo, NoneApplied
<1>3. ASSUME NEW s \in Incidents
      PROVE  {inputs'[k].version : k \in AppliedTo(s)} = {inputs[k].version : k \in AppliedTo(s)}
  <2>1. \A k \in AppliedTo(s) : inputs'[k].version = inputs[k].version
    BY <1>1 DEF AppliedTo, NoneApplied
  <2> QED BY <2>1
<1>4. ASSUME NEW s \in Incidents
      PROVE  /\ Cardinality(AppliedTo(s)') = situations'[s].version
             /\ {inputs'[k].version : k \in AppliedTo(s)'} = 1..situations'[s].version
  <2>1. /\ Cardinality(AppliedTo(s)) = situations[s].version
        /\ {inputs[k].version : k \in AppliedTo(s)} = 1..situations[s].version
    BY <1>1 DEF EveryInputCountsOnce
  <2>2. AppliedTo(s)' = AppliedTo(s) /\ situations'[s].version = situations[s].version
    BY <1>2 DEF SameVersions
  <2> QED BY <1>3, <2>1, <2>2
<1> QED BY <1>1, <1>2, <1>4 DEF EveryInputCountsOnce

\* A firing that is history stays so: its Incident ages on, or a delivery is
\* queued for it.
LEMMA OutdatedKept ==
  ASSUME TypeOK, TypeOK', RowsAreQueued, RowsStay,
         NEW s \in Incidents, NEW k \in InputIds, inputs[k].status = "applied", Outdated(s, k),
         AppliedTo(s)' = AppliedTo(s),
         \/ age'[inputs[k].incident] >= age[inputs[k].incident]
         \/ \E j \in InputIds : /\ inputs[j].status = "absent" /\ inputs'[j].status # "applied"
                                /\ inputs'[j].incident = inputs[k].incident
                                /\ inputs'[j].kind \in {"firing", "resolved"}
  PROVE  Outdated(s, k)'
<1>1. DOMAIN inputs = InputIds /\ DOMAIN inputs' = InputIds BY DEF TypeOK
<1>2. inputs'[k].incident = inputs[k].incident /\ inputs'[k].kind = inputs[k].kind BY DEF RowsStay
<1>3. ASSUME NEW j \in InputIds, NEW st \in {"firing", "resolved"}, Later(j, k, st)
      PROVE  Later(j, k, st)'
  <2>1. inputs[j].status # "absent" BY <1>3 DEF Later, RowsAreQueued, NoInput
  <2> QED BY <1>2, <1>3, <2>1 DEF Later, RowsStay
<1>4. CASE \E j \in DOMAIN inputs : Later(j, k, "resolved")
  BY <1>1, <1>3, <1>4 DEF Outdated
<1>5. CASE \E j \in DOMAIN inputs \ AppliedTo(s) : Later(j, k, "firing")
  BY <1>1, <1>3, <1>5 DEF Outdated
<1>6. CASE \E j \in InputIds : /\ inputs[j].status = "absent" /\ inputs'[j].status # "applied"
                               /\ inputs'[j].incident = inputs[k].incident
                               /\ inputs'[j].kind \in {"firing", "resolved"}
  <2>1. PICK j \in InputIds : /\ inputs[j].status = "absent" /\ inputs'[j].status # "applied"
                              /\ inputs'[j].incident = inputs[k].incident
                              /\ inputs'[j].kind \in {"firing", "resolved"}
    BY <1>6
  <2>2. j > k
    <3>1. j \in Int /\ k \in Int BY InputsAssumption DEF InputIds
    <3>2. ~(j < k) BY <2>1 DEF RowsAreQueued
    <3>3. j # k BY <2>1
    <3> QED BY <3>1, <3>2, <3>3
  <2>3. j \notin AppliedTo(s)' BY <2>1 DEF AppliedTo
  <2>4. Later(j, k, "firing")' \/ Later(j, k, "resolved")' BY <1>2, <2>1, <2>2 DEF Later
  <2> QED BY <1>1, <2>3, <2>4 DEF Outdated
<1>7. CASE /\ age[inputs[k].incident] >= Horizon
           /\ age'[inputs[k].incident] >= age[inputs[k].incident]
  <2>1. inputs[k].incident \in Incidents BY DEF RowsAreQueued
  <2>2. age[inputs[k].incident] \in Int /\ age'[inputs[k].incident] \in Int /\ Horizon \in Int
    BY <2>1, InputsAssumption DEF TypeOK
  <2>3. age'[inputs[k].incident] >= Horizon BY <1>7, <2>2
  <2> QED BY <1>2, <2>3 DEF Outdated
<1> QED BY <1>4, <1>5, <1>6, <1>7 DEF Outdated

\* A step that applies nothing to the Situation of a run, and leaves it its
\* lifecycle, leaves the run its decision.
LEMMA DecidedKept ==
  ASSUME TypeOK, TypeOK', RowsAreQueued, RowsStay, NEW r \in Run, Decided(r),
         HoldsLease(r)' => HoldsLease(r),
         situations'[r.situation].life = situations[r.situation].life,
         situations[r.situation].grace = 0 => situations'[r.situation].grace = 0,
         situations'[r.situation].version = situations[r.situation].version,
         AppliedTo(r.situation)' = AppliedTo(r.situation),
         \A i \in Incidents : alert[i] # "none" =>
           \/ age'[i] >= age[i]
           \/ \E j \in InputIds : /\ inputs[j].status = "absent" /\ inputs'[j].status # "applied"
                                  /\ inputs'[j].incident = i
                                  /\ inputs'[j].kind \in {"firing", "resolved"}
  PROVE  Decided(r)'
<1> DEFINE s == r.situation
<1>1. s \in Incidents BY DEF Run
<1>2. ASSUME NEW k \in AppliedTo(s)', inputs'[k].kind = "firing",
             \A m \in AppliedTo(s) : inputs[m].kind = "firing" => Outdated(s, m)
      PROVE  Outdated(s, k)'
  <2>1. k \in InputIds /\ inputs[k].status = "applied" BY <1>2 DEF AppliedTo, TypeOK
  <2>2. /\ inputs[k].kind = "firing" /\ inputs[k].incident \in Incidents
        /\ alert[inputs[k].incident] # "none"
    BY <1>2, <2>1 DEF RowsStay, RowsAreQueued
  <2>3. Outdated(s, k) BY <1>2, <2>2
  <2> QED BY <1>1, <2>1, <2>2, <2>3, OutdatedKept
<1> QED BY <1>1, <1>2 DEF Decided

\* Steps of the worker that move rows between waiting, claimed and failed.
LEMMA RowsMoved ==
  ASSUME Inv, TypeOK', AttemptsAreBurned', RowsStay,
         UNCHANGED <<situations, owner, alert, age>>, runs' \subseteq runs,
         \A k \in InputIds :
           /\ inputs[k].status = "absent" => inputs'[k] = inputs[k]
           /\ inputs[k].status \in Done \/ inputs'[k].status \in Done => inputs'[k] = inputs[k]
  PROVE  Inv'
<1>1. /\ TypeOK /\ RowsAreQueued /\ OwnersExist /\ LeasesAreOpen /\ OneOpen /\ RowsAreOwned
      /\ EveryInputCountsOnce /\ LastWord /\ RunsAreDecided
  BY DEF Inv
<1>2. NoneApplied /\ SameVersions BY DEF NoneApplied, SameVersions, Done
<1>3. EveryInputCountsOnce' /\ \A s \in Incidents : AppliedTo(s)' = AppliedTo(s)
  BY <1>1, <1>2, CountKept
<1>4. RowsAreQueued' BY <1>1 DEF RowsAreQueued, RowsStay
<1>5. OwnersExist' /\ LeasesAreOpen' /\ OneOpen'
  BY <1>1 DEF OwnersExist, LeasesAreOpen, OneOpen
<1>6. RowsAreOwned' BY <1>1 DEF RowsAreOwned
<1>7. LastWord'
  <2> SUFFICES ASSUME NEW k \in InputIds, inputs'[k].kind = "firing",
                      alert[inputs'[k].incident] # "firing"
               PROVE  \E j \in InputIds : Later(j, k, "resolved")'
    BY DEF LastWord
  <2>1. inputs'[k].kind = inputs[k].kind /\ inputs'[k].incident = inputs[k].incident
    BY DEF RowsStay
  <2>2. PICK j \in InputIds : Later(j, k, "resolved") BY <1>1, <2>1 DEF LastWord
  <2>3. inputs'[j].kind = inputs[j].kind /\ inputs'[j].incident = inputs[j].incident
    BY DEF RowsStay
  <2> QED BY <2>1, <2>2, <2>3 DEF Later
<1>8. RunsAreDecided'
  <2> SUFFICES ASSUME NEW r \in runs'
               PROVE  /\ r.token <= situations'[r.situation].token
                      /\ r.version <= situations'[r.situation].version /\ Decided(r)'
    BY DEF RunsAreDecided
  <2>1. r \in runs /\ r \in Run /\ r.situation \in Incidents BY <1>1 DEF TypeOK, Run
  <2>2. Decided(r) /\ (HoldsLease(r)' => HoldsLease(r))
    BY <1>1, <2>1 DEF RunsAreDecided, HoldsLease
  <2>3. \A i \in Incidents : age'[i] >= age[i] BY <1>1 DEF TypeOK
  <2>4. Decided(r)' BY <1>1, <1>3, <2>1, <2>2, <2>3, DecidedKept
  <2> QED BY <1>1, <2>1, <2>4 DEF RunsAreDecided
<1> QED BY <1>3, <1>4, <1>5, <1>6, <1>7, <1>8 DEF Inv

-----------------------------------------------------------------------------
(* The steps of the worker that apply nothing.                             *)

LEMMA InvInit == Init => Inv
<1> SUFFICES ASSUME Init PROVE Inv OBVIOUS
<1> USE InputsAssumption DEF Init, NoInput, NoSituation
<1>1. NoInput \in Input /\ NoSituation \in Situation
  BY DEF Input, Situation, Kinds, Open, Terminal, NoGrace
<1>2. 0 \in 0..OldestAge /\ 0 \in 0..MaxIncidents /\ 0 \in 0..MaxFaults BY DEF OldestAge
<1>3. TypeOK BY <1>1, <1>2 DEF TypeOK
<1>4. RowsAreQueued /\ OwnersExist /\ LeasesAreOpen /\ RowsAreOwned /\ AttemptsAreBurned
  BY DEF RowsAreQueued, OwnersExist, LeasesAreOpen, RowsAreOwned, AttemptsAreBurned, Done
<1>5. OneOpen /\ LastWord /\ RunsAreDecided BY DEF OneOpen, Open, LastWord, RunsAreDecided
<1>6. EveryInputCountsOnce
  <2>1. \A s \in Incidents : AppliedTo(s) = {} BY DEF AppliedTo
  <2>2. Cardinality({}) = 0 BY FS_EmptySet
  <2>3. DOMAIN situations = Incidents /\ \A s \in Incidents : situations[s].version = 0 OBVIOUS
  <2>4. {} = 1..0 OBVIOUS
  <2> QED BY <2>1, <2>2, <2>3, <2>4 DEF EveryInputCountsOnce
<1> QED BY <1>3, <1>4, <1>5, <1>6 DEF Inv

LEMMA AdvanceTypes ==
  ASSUME TypeOK, NEW e \in Executors, Advance(e)
  PROVE  /\ batch' \in [Executors -> SUBSET Claim]
         /\ pc' \in [Executors -> {"apply", "defer", "retry"}]
BY DEF TypeOK, Advance

\* One claimed row gets another status, attempt count and burned count.
LEMMA RowMoved ==
  ASSUME Inv, NEW k \in InputIds, inputs[k].status \in {"claimed", "expired"},
         NEW st \in {"pending", "expired", "failed"}, NEW n \in Nat, NEW b \in Nat,
         inputs' = [inputs EXCEPT ![k] = [inputs[k] EXCEPT !.status = st, !.attempts = n]],
         burned' = [burned EXCEPT ![k] = b],
         st = "pending" => n <= b, st = "expired" => n <= b + 1, st = "failed" => b >= MaxAttempts,
         UNCHANGED <<situations, owner, alert, age, runs>>,
         batch' \in [Executors -> SUBSET Claim],
         pc' \in [Executors -> {"apply", "defer", "retry"}], faults' \in 0..MaxFaults
  PROVE  Inv'
<1>1. TypeOK /\ AttemptsAreBurned BY DEF Inv
<1> DEFINE row == [inputs[k] EXCEPT !.status = st, !.attempts = n]
<1>2. /\ row \in Input /\ row.status = st /\ row.attempts = n
      /\ row.incident = inputs[k].incident /\ row.kind = inputs[k].kind
  <2>1. inputs[k] \in Input BY <1>1 DEF TypeOK
  <2> QED BY <2>1 DEF Input
<1>3. inputs' = [inputs EXCEPT ![k] = row] OBVIOUS
<1> HIDE DEF row
<1>4. \A m \in InputIds : inputs'[m] = (IF m = k THEN row ELSE inputs[m])
                          /\ burned'[m] = (IF m = k THEN b ELSE burned[m])
  BY <1>1, <1>3 DEF TypeOK
<1>5. TypeOK' BY <1>1, <1>2, <1>3 DEF TypeOK
<1>6. AttemptsAreBurned' BY <1>1, <1>2, <1>4 DEF AttemptsAreBurned
<1>7. RowsStay BY <1>2, <1>4 DEF RowsStay
<1>8. \A m \in InputIds :
        /\ inputs[m].status = "absent" => inputs'[m] = inputs[m]
        /\ inputs[m].status \in Done \/ inputs'[m].status \in Done => inputs'[m] = inputs[m]
  BY <1>2, <1>4 DEF Done
<1> QED BY <1>5, <1>6, <1>7, <1>8, RowsMoved

\* Steps that change neither the queue nor what it feeds.
LEMMA QueueKept ==
  ASSUME Inv, UNCHANGED <<inputs, burned, situations, owner, alert, age>>, runs' \subseteq runs,
         batch' \in [Executors -> SUBSET Claim],
         pc' \in [Executors -> {"apply", "defer", "retry"}], faults' \in 0..MaxFaults
  PROVE  Inv'
<1>1. TypeOK /\ AttemptsAreBurned BY DEF Inv
<1>2. TypeOK' BY <1>1 DEF TypeOK
<1>3. AttemptsAreBurned' /\ RowsStay BY <1>1 DEF AttemptsAreBurned, RowsStay
<1> QED BY <1>2, <1>3, RowsMoved

LEMMA InputLeaseExpiresStep ==
  ASSUME Inv, NEW k \in InputIds, InputLeaseExpires(k) PROVE Inv'
<1>1. TypeOK /\ AttemptsAreBurned /\ inputs[k] \in Input /\ burned[k] \in Nat BY DEF Inv, TypeOK
<1>2. inputs[k].attempts \in Nat /\ inputs[k].attempts <= burned[k] + 1
  BY <1>1 DEF Input, AttemptsAreBurned, InputLeaseExpires
<1>3. inputs' = [inputs EXCEPT ![k] = [inputs[k] EXCEPT !.status = "expired",
                                                        !.attempts = inputs[k].attempts]]
  BY <1>1 DEF InputLeaseExpires, Input
<1>4. burned' = [burned EXCEPT ![k] = burned[k]] BY <1>1 DEF InputLeaseExpires, TypeOK
<1>5. faults' \in 0..MaxFaults BY <1>1, InputsAssumption DEF InputLeaseExpires, TypeOK
<1>6. inputs[k].status = "claimed" /\ UNCHANGED <<situations, owner, alert, age, runs>>
  BY DEF InputLeaseExpires, alertVars
<1>7. batch' \in [Executors -> SUBSET Claim] /\ pc' \in [Executors -> {"apply", "defer", "retry"}]
  BY <1>1 DEF InputLeaseExpires, workVars, TypeOK
<1> QED BY <1>1, <1>2, <1>3, <1>4, <1>5, <1>6, <1>7, RowMoved

LEMMA ClaimInputsStep ==
  ASSUME Inv, NEW e \in Executors, ClaimInputs(e) PROVE Inv'
<1> DEFINE taken == FirstOf(Claimable)
<1>1. TypeOK /\ AttemptsAreBurned BY DEF Inv
<1>2. taken \subseteq InputIds /\ \A k \in taken : inputs[k].status \in {"pending", "expired"}
  BY DEF FirstOf, Claimable
<1>3. /\ \A k \in InputIds \ taken : inputs'[k] = inputs[k]
      /\ \A k \in taken :
           inputs'[k] = [inputs[k] EXCEPT !.status = "claimed", !.token = inputs[k].token + 1,
                                          !.attempts = inputs[k].attempts + 1]
      /\ inputs' = [k \in InputIds |-> inputs'[k]]
  BY <1>2 DEF ClaimInputs
<1>3b. burned' = [k \in InputIds |->
                   IF k \in taken /\ inputs[k].status = "expired" THEN burned[k] + 1
                   ELSE burned[k]]
  BY DEF ClaimInputs
<1>4. /\ batch' = [batch EXCEPT ![e] = {[id |-> k, token |-> inputs[k].token + 1] : k \in taken}]
      /\ UNCHANGED <<situations, owner, alert, age, pc, runs, faults>>
  BY DEF ClaimInputs, alertVars
<1> HIDE DEF taken
<1>5. ASSUME NEW k \in taken
      PROVE  /\ inputs'[k] \in Input /\ inputs'[k].status = "claimed"
             /\ inputs'[k].attempts = inputs[k].attempts + 1
             /\ inputs'[k].incident = inputs[k].incident /\ inputs'[k].kind = inputs[k].kind
  <2>1. inputs[k] \in Input BY <1>1, <1>2 DEF TypeOK
  <2>2. inputs[k].token + 1 \in Nat /\ inputs[k].attempts + 1 \in Nat BY <2>1 DEF Input
  <2> DEFINE t == inputs[k].token + 1
             n == inputs[k].attempts + 1
             w == inputs'[k]
  <2>3. w = [inputs[k] EXCEPT !.status = "claimed", !.token = t, !.attempts = n] BY <1>3
  <2>4. t \in Nat /\ n \in Nat BY <2>2
  <2> HIDE DEF t, n, w
  <2>5. /\ w \in Input /\ w.status = "claimed" /\ w.attempts = n
        /\ w.incident = inputs[k].incident /\ w.kind = inputs[k].kind
    BY <2>1, <2>3, <2>4 DEF Input
  <2> QED BY <2>5 DEF w, n
<1>6. inputs' \in [InputIds -> Input] /\ burned' \in [InputIds -> Nat]
  <2>1. \A k \in InputIds : inputs[k] \in Input /\ burned[k] \in Nat BY <1>1 DEF TypeOK
  <2>2. \A k \in InputIds : inputs'[k] \in Input BY <1>3, <1>5, <2>1
  <2>3. burned' \in [InputIds -> Nat] BY <1>3b, <2>1
  <2> QED BY <1>3, <2>2, <2>3
<1>7. batch' \in [Executors -> SUBSET Claim]
  <2>1. \A k \in taken : [id |-> k, token |-> inputs[k].token + 1] \in Claim
    BY <1>1, <1>2 DEF TypeOK, Claim, Input
  <2>2. {[id |-> k, token |-> inputs[k].token + 1] : k \in taken} \in SUBSET Claim BY <2>1
  <2> QED BY <1>1, <1>4, <2>2 DEF TypeOK
<1>8. TypeOK' BY <1>1, <1>4, <1>6, <1>7 DEF TypeOK
<1>9. AttemptsAreBurned'
  <2> SUFFICES ASSUME NEW k \in InputIds
               PROVE  /\ inputs'[k].status = "pending" => inputs'[k].attempts <= burned'[k]
                      /\ inputs'[k].status \in {"claimed", "expired"}
                           => inputs'[k].attempts <= burned'[k] + 1
                      /\ inputs'[k].status = "failed" => burned'[k] >= MaxAttempts
    BY DEF AttemptsAreBurned
  <2>1. inputs[k].attempts \in Nat /\ burned[k] \in Nat BY <1>1 DEF TypeOK, Input
  <2>2. CASE k \notin taken BY <1>1, <1>3, <1>3b, <2>2 DEF AttemptsAreBurned
  <2>3. CASE k \in taken /\ inputs[k].status = "pending"
    <3>1. inputs'[k].status = "claimed" /\ inputs'[k].attempts = inputs[k].attempts + 1
      BY <1>5, <2>3
    <3>2. burned'[k] = burned[k] /\ inputs[k].attempts <= burned[k]
      BY <1>1, <1>3b, <2>3 DEF AttemptsAreBurned
    <3> QED BY <2>1, <3>1, <3>2
  <2>4. CASE k \in taken /\ inputs[k].status = "expired"
    <3>1. inputs'[k].status = "claimed" /\ inputs'[k].attempts = inputs[k].attempts + 1
      BY <1>5, <2>4
    <3>2. burned'[k] = burned[k] + 1 /\ inputs[k].attempts <= burned[k] + 1
      BY <1>1, <1>3b, <2>4 DEF AttemptsAreBurned
    <3> QED BY <2>1, <3>1, <3>2
  <2> QED BY <1>2, <2>2, <2>3, <2>4
<1>10. RowsStay BY <1>3, <1>5 DEF RowsStay
<1>11. \A m \in InputIds :
         /\ inputs[m].status = "absent" => inputs'[m] = inputs[m]
         /\ inputs[m].status \in Done \/ inputs'[m].status \in Done => inputs'[m] = inputs[m]
  BY <1>2, <1>3, <1>5 DEF Done
<1> QED BY <1>4, <1>8, <1>9, <1>10, <1>11, RowsMoved

LEMMA ApplyIdleStep ==
  ASSUME Inv, NEW e \in Executors, ApplyIdle(e) PROVE Inv'
<1>1. TypeOK BY DEF Inv
<1>2. batch' \in [Executors -> SUBSET Claim] /\ pc' \in [Executors -> {"apply", "defer", "retry"}]
  BY <1>1, AdvanceTypes DEF ApplyIdle, TypeOK
<1>3. UNCHANGED <<inputs, burned, situations, owner, alert, age, runs>> /\ faults' \in 0..MaxFaults
  BY <1>1 DEF ApplyIdle, inputVars, alertVars, TypeOK
<1> QED BY <1>2, <1>3, QueueKept

LEMMA ApplyProtectedStep ==
  ASSUME Inv, NEW e \in Executors, ApplyProtected(e) \/ ApplyFails(e) PROVE Inv'
<1>1. TypeOK BY DEF Inv
<1>2. batch' \in [Executors -> SUBSET Claim] /\ pc' \in [Executors -> {"apply", "defer", "retry"}]
  BY <1>1 DEF ApplyProtected, ApplyFails, TypeOK
<1>3. UNCHANGED <<inputs, burned, situations, owner, alert, age, runs>> /\ faults' \in 0..MaxFaults
  BY <1>1, InputsAssumption DEF ApplyProtected, ApplyFails, inputVars, alertVars, TypeOK
<1> QED BY <1>2, <1>3, QueueKept

LEMMA WriteBackFailsStep ==
  ASSUME Inv, NEW e \in Executors, WriteBackFails(e) PROVE Inv'
<1>1. TypeOK BY DEF Inv
<1>2. batch' \in [Executors -> SUBSET Claim] /\ pc' \in [Executors -> {"apply", "defer", "retry"}]
  BY <1>1, AdvanceTypes DEF WriteBackFails
<1>3. UNCHANGED <<inputs, burned, situations, owner, alert, age, runs>> /\ faults' \in 0..MaxFaults
  BY <1>1, InputsAssumption DEF WriteBackFails, inputVars, alertVars, TypeOK
<1> QED BY <1>2, <1>3, QueueKept

LEMMA CrashStep == ASSUME Inv, Crash PROVE Inv'
<1>1. TypeOK BY DEF Inv
<1>2. batch' \in [Executors -> SUBSET Claim] /\ pc' \in [Executors -> {"apply", "defer", "retry"}]
  BY <1>1 DEF Crash
<1>3. /\ UNCHANGED <<inputs, burned, situations, owner, alert, age>>
      /\ runs' \subseteq runs /\ faults' \in 0..MaxFaults
  BY <1>1, InputsAssumption DEF Crash, inputVars, alertVars, TypeOK
<1> QED BY <1>2, <1>3, QueueKept

\* A deferral refunds the attempt of its claim.
LEMMA DeferStep ==
  ASSUME Inv, NEW e \in Executors, Defer(e) PROVE Inv'
<1> DEFINE k == Current(e).id
<1>1. TypeOK /\ AttemptsAreBurned BY DEF Inv
<1>2. batch[e] # {} BY DEF Defer, Busy
<1>3. batch' \in [Executors -> SUBSET Claim] /\ pc' \in [Executors -> {"apply", "defer", "retry"}]
  BY <1>1, AdvanceTypes DEF Defer
<1>4. UNCHANGED <<burned, situations, owner, alert, age, runs>> /\ faults' \in 0..MaxFaults
  BY <1>1 DEF Defer, alertVars, TypeOK
<1>5. CASE ~FenceHolds(e) BY <1>3, <1>4, <1>5, QueueKept DEF Defer
<1>6. CASE FenceHolds(e)
  <2>1. k \in InputIds /\ inputs[k] \in Input /\ inputs[k].status \in {"claimed", "expired"}
    BY <1>1, <1>2, <1>6, FenceRow
  <2>2. inputs[k].attempts \in Nat /\ burned[k] \in Nat /\ inputs[k].attempts <= burned[k] + 1
    BY <1>1, <2>1 DEF Input, AttemptsAreBurned, TypeOK
  <2> DEFINE n == Refund(inputs[k].attempts)
  <2>3. n \in Nat /\ n <= burned[k] BY <2>2 DEF Refund
  <2>4. inputs' = [inputs EXCEPT ![k].status = "pending", ![k].attempts = Refund(@)]
    BY <1>6 DEF Defer
  <2>5. inputs' = [inputs EXCEPT ![k] = [inputs[k] EXCEPT !.status = "pending", !.attempts = n]]
    BY <1>1, <2>1, <2>4 DEF Input, TypeOK
  <2>6. burned' = [burned EXCEPT ![k] = burned[k]] BY <1>1, <1>4 DEF TypeOK
  <2> HIDE DEF n, k
  <2> QED BY <1>3, <1>4, <2>1, <2>2, <2>3, <2>5, <2>6, RowMoved
<1> QED BY <1>5, <1>6

LEMMA RetryStep ==
  ASSUME Inv, NEW e \in Executors, Retry(e) PROVE Inv'
<1> DEFINE k == Current(e).id
<1>1. TypeOK /\ AttemptsAreBurned BY DEF Inv
<1>2. batch[e] # {} BY DEF Retry, Busy
<1>3. batch' \in [Executors -> SUBSET Claim] /\ pc' \in [Executors -> {"apply", "defer", "retry"}]
  BY <1>1, AdvanceTypes DEF Retry
<1>4. UNCHANGED <<situations, owner, alert, age, runs>> /\ faults' \in 0..MaxFaults
  BY <1>1 DEF Retry, alertVars, TypeOK
<1>5. CASE ~FenceHolds(e) BY <1>3, <1>4, <1>5, QueueKept DEF Retry, inputVars
<1>6. CASE FenceHolds(e)
  <2>1. /\ k \in InputIds /\ inputs[k] \in Input /\ inputs[k].status \in {"claimed", "expired"}
        /\ RowOf(e) = inputs[k]
    BY <1>1, <1>2, <1>6, FenceRow
  <2>2. inputs[k].attempts \in Nat /\ burned[k] \in Nat /\ inputs[k].attempts <= burned[k] + 1
    BY <1>1, <2>1 DEF Input, AttemptsAreBurned, TypeOK
  <2> DEFINE st == IF inputs[k].attempts >= MaxAttempts THEN "failed" ELSE "pending"
  <2>3. inputs' = [inputs EXCEPT ![k].status = st] /\ burned' = [burned EXCEPT ![k] = burned[k] + 1]
    BY <1>6, <2>1 DEF Retry
  <2>4. inputs' = [inputs EXCEPT ![k] = [inputs[k] EXCEPT !.status = st,
                                                          !.attempts = inputs[k].attempts]]
    BY <1>1, <2>1, <2>3 DEF Input, TypeOK
  <2>5. st \in {"pending", "failed"} /\ (st = "failed" => burned[k] + 1 >= MaxAttempts)
    BY <2>2, InputsAssumption
  <2> DEFINE b == burned[k] + 1
  <2>6. b \in Nat /\ inputs[k].attempts <= b /\ (st = "failed" => b >= MaxAttempts)
        /\ burned' = [burned EXCEPT ![k] = b]
    BY <2>2, <2>3, <2>5
  <2> HIDE DEF st, k, b
  <2> QED BY <1>3, <1>4, <2>1, <2>2, <2>4, <2>5, <2>6, RowMoved
<1> QED BY <1>5, <1>6

-----------------------------------------------------------------------------
(* Deliveries, and what else is queued.                                    *)

LEMMA EnqueuedRow ==
  ASSUME TypeOK, RowsAreQueued, NEW i \in Incidents, NEW kind \in Kinds, Enqueue(i, kind)
  PROVE  \E k \in InputIds :
           /\ inputs[k].status = "absent"
           /\ \A j \in InputIds : j < k => inputs[j].status # "absent"
           /\ inputs'[k] \in Input /\ inputs'[k].incident = i /\ inputs'[k].kind = kind
           /\ inputs'[k].status = "pending" /\ inputs'[k].attempts = 0
           /\ inputs' \in [InputIds -> Input]
           /\ \A m \in InputIds \ {k} : inputs'[m] = inputs[m]
<1> DEFINE row == [NoInput EXCEPT !.incident = i, !.kind = kind, !.status = "pending"]
<1>1. PICK k \in InputIds : FreeInput(k) /\ inputs' = [inputs EXCEPT ![k] = row] BY DEF Enqueue
<1>2. NoInput \in Input /\ NoInput.attempts = 0 BY InputsAssumption DEF NoInput, Input
<1>3. i \in 0..MaxIncidents BY InputsAssumption DEF Incidents
<1>4. /\ row \in Input /\ row.incident = i /\ row.kind = kind /\ row.status = "pending"
      /\ row.attempts = 0
  BY <1>2, <1>3 DEF Input
<1> HIDE DEF row
<1>6. /\ inputs'[k] = row /\ \A m \in InputIds \ {k} : inputs'[m] = inputs[m]
      /\ inputs' \in [InputIds -> Input]
  BY <1>1, <1>4 DEF TypeOK
<1>7. \A j \in InputIds : j < k => j \in 1..(k - 1) BY InputsAssumption DEF InputIds
<1>8. inputs[k].status = "absent" /\ \A j \in InputIds : j < k => inputs[j].status # "absent"
  BY <1>1, <1>7 DEF FreeInput
<1> QED BY <1>4, <1>6, <1>8

\* A row is queued for Incident i; a delivery also is the news of its Incident.
LEMMA RowQueued ==
  ASSUME Inv, NEW i \in Incidents, NEW kind \in Kinds, Enqueue(i, kind),
         UNCHANGED <<burned, situations, owner, batch, pc, runs, faults>>,
         \/ /\ kind \in {"firing", "resolved"}
            /\ alert' = [alert EXCEPT ![i] = kind] /\ age' = [age EXCEPT ![i] = 0]
         \/ kind \in {"triage", "artifact"} /\ alert[i] # "none" /\ UNCHANGED <<alert, age>>
  PROVE  Inv'
<1>1. /\ TypeOK /\ RowsAreQueued /\ OwnersExist /\ LeasesAreOpen /\ OneOpen /\ RowsAreOwned
      /\ AttemptsAreBurned /\ EveryInputCountsOnce /\ LastWord /\ RunsAreDecided
  BY DEF Inv
<1>2. PICK k \in InputIds :
        /\ inputs[k].status = "absent"
        /\ \A j \in InputIds : j < k => inputs[j].status # "absent"
        /\ inputs'[k] \in Input /\ inputs'[k].incident = i /\ inputs'[k].kind = kind
        /\ inputs'[k].status = "pending" /\ inputs'[k].attempts = 0
        /\ inputs' \in [InputIds -> Input]
        /\ \A m \in InputIds \ {k} : inputs'[m] = inputs[m]
  BY <1>1, EnqueuedRow
<1>3. TypeOK'
  <2>1. alert' \in [Incidents -> {"none", "firing", "resolved"}] BY <1>1 DEF TypeOK
  <2>2. 0 \in 0..OldestAge BY InputsAssumption DEF OldestAge
  <2>3. age' \in [Incidents -> 0..OldestAge] BY <1>1, <2>2 DEF TypeOK
  <2> QED BY <1>1, <1>2, <2>1, <2>3 DEF TypeOK
<1>4. RowsStay BY <1>2 DEF RowsStay
<1>5. NoneApplied /\ SameVersions BY <1>2 DEF NoneApplied, SameVersions
<1>6. EveryInputCountsOnce' /\ \A s \in Incidents : AppliedTo(s)' = AppliedTo(s)
  BY <1>1, <1>3, <1>5, CountKept
<1>7. alert'[i] # "none" /\ \A n \in Incidents : alert[n] # "none" => alert'[n] # "none"
  BY <1>1 DEF TypeOK
<1>8. RowsAreQueued'
  <2> SUFFICES ASSUME NEW m \in InputIds
               PROVE  IF inputs'[m].status = "absent" THEN inputs'[m] = NoInput
                      ELSE /\ inputs'[m].incident \in Incidents /\ inputs'[m].kind \in Kinds
                           /\ alert'[inputs'[m].incident] # "none"
                           /\ \A j \in InputIds : j < m => inputs'[j].status # "absent"
    BY DEF RowsAreQueued
  <2>1. CASE m = k BY <1>2, <1>7, <2>1 DEF InputIds
  <2>2. CASE m # k /\ inputs[m].status = "absent" BY <1>1, <1>2, <2>2 DEF RowsAreQueued
  <2>3. CASE m # k /\ inputs[m].status # "absent"
    BY <1>1, <1>2, <1>7, <2>3 DEF RowsAreQueued
  <2> QED BY <2>1, <2>2, <2>3
<1>9. OwnersExist' /\ LeasesAreOpen' /\ OneOpen'
  BY <1>1, <1>7 DEF OwnersExist, LeasesAreOpen, OneOpen
<1>10. RowsAreOwned' BY <1>1, <1>2 DEF RowsAreOwned, Done
<1>11. AttemptsAreBurned'
  <2>1. burned[k] \in Nat BY <1>1 DEF TypeOK
  <2> QED BY <1>1, <1>2, <2>1 DEF AttemptsAreBurned
<1>12. LastWord'
  <2> SUFFICES ASSUME NEW m \in InputIds, inputs'[m].kind = "firing",
                      alert'[inputs'[m].incident] # "firing"
               PROVE  \E j \in InputIds : Later(j, m, "resolved")'
    BY DEF LastWord
  <2>1. m # k BY <1>1, <1>2 DEF TypeOK
  <2>2. inputs'[m] = inputs[m] /\ inputs[m].status # "absent"
    BY <1>1, <1>2, <2>1 DEF RowsAreQueued, NoInput
  <2>3. CASE alert[inputs[m].incident] # "firing"
    <3>1. PICK j \in InputIds : Later(j, m, "resolved") BY <1>1, <2>2, <2>3 DEF LastWord
    <3>2. inputs[j].status # "absent" BY <1>1, <3>1 DEF Later, RowsAreQueued, NoInput
    <3>3. inputs'[j] = inputs[j] BY <1>2, <3>2
    <3> QED BY <2>2, <3>1, <3>3 DEF Later
  <2>4. CASE alert[inputs[m].incident] = "firing"
    <3>1. inputs[m].incident = i /\ kind = "resolved"
      BY <1>1, <2>2, <2>4 DEF TypeOK, RowsAreQueued
    <3>2. m \in Int /\ k \in Int BY InputsAssumption DEF InputIds
    <3>3. k > m BY <1>1, <1>2, <2>1, <2>2, <3>2 DEF RowsAreQueued
    <3> QED BY <1>2, <2>2, <3>1, <3>3 DEF Later
  <2> QED BY <2>3, <2>4
<1>13. \A n \in Incidents :
         \/ age'[n] >= age[n]
         \/ \E j \in InputIds : /\ inputs[j].status = "absent" /\ inputs'[j].status # "applied"
                                /\ inputs'[j].incident = n
                                /\ inputs'[j].kind \in {"firing", "resolved"}
  <2> SUFFICES ASSUME NEW n \in Incidents, ~(age'[n] >= age[n])
               PROVE  \E j \in InputIds : /\ inputs[j].status = "absent"
                                          /\ inputs'[j].status # "applied"
                                          /\ inputs'[j].incident = n
                                          /\ inputs'[j].kind \in {"firing", "resolved"}
    OBVIOUS
  <2>1. n = i /\ kind \in {"firing", "resolved"} BY <1>1 DEF TypeOK
  <2> QED BY <1>2, <2>1
<1>14. RunsAreDecided'
  <2> SUFFICES ASSUME NEW r \in runs
               PROVE  /\ r.token <= situations[r.situation].token
                      /\ r.version <= situations[r.situation].version /\ Decided(r)'
    BY DEF RunsAreDecided
  <2>1. r \in Run /\ r.situation \in Incidents BY <1>1 DEF TypeOK, Run
  <2>2. Decided(r) /\ (HoldsLease(r)' => HoldsLease(r)) BY <1>1 DEF RunsAreDecided, HoldsLease
  <2>3. Decided(r)' BY <1>1, <1>3, <1>4, <1>6, <1>13, <2>1, <2>2, DecidedKept
  <2> QED BY <1>1, <2>3 DEF RunsAreDecided
<1> QED BY <1>3, <1>6, <1>8, <1>9, <1>10, <1>11, <1>12, <1>14 DEF Inv

LEMMA CorrelateStep ==
  ASSUME Inv, NEW i \in Incidents, NEW status \in {"firing", "resolved"}, Correlate(i, status)
  PROVE  Inv'
BY RowQueued DEF Correlate, Kinds, workVars

LEMMA DeliveryStep ==
  ASSUME Inv, NEW i \in Incidents, DeliverFiring(i) \/ DeliverResolved(i) PROVE Inv'
BY CorrelateStep DEF DeliverFiring, DeliverResolved

LEMMA RecordStep ==
  ASSUME Inv, NEW i \in Incidents, TriageRecords(i) \/ RecordArtifact(i) PROVE Inv'
<1>1. alert[i] # "none" BY DEF TriageRecords, RecordArtifact, Inv, OwnersExist
<1>2. Enqueue(i, "triage") \/ Enqueue(i, "artifact") BY DEF TriageRecords, RecordArtifact
<1>3. UNCHANGED <<burned, situations, owner, alert, age, batch, pc, runs, faults>>
  BY DEF TriageRecords, RecordArtifact, alertVars, workVars
<1> QED BY <1>1, <1>2, <1>3, RowQueued DEF Kinds

-----------------------------------------------------------------------------
(* An input is applied.                                                    *)

LEMMA MarkedRow ==
  ASSUME TypeOK, NEW e \in Executors, batch[e] # {}, NEW st \in Done, NEW s \in Incidents,
         NEW v \in Nat, MarkApplied(e, st, s, v), NEW k, k = Current(e).id
  PROVE  /\ k \in InputIds /\ inputs[k] = RowOf(e)
         /\ inputs' \in [InputIds -> Input] /\ \A m \in InputIds \ {k} : inputs'[m] = inputs[m]
         /\ inputs'[k].status = st /\ inputs'[k].situation = s /\ inputs'[k].version = v
         /\ inputs'[k].incident = inputs[k].incident /\ inputs'[k].kind = inputs[k].kind
         /\ inputs'[k].attempts = inputs[k].attempts
<1>1. k \in InputIds /\ inputs[k] = RowOf(e) /\ inputs[k] \in Input BY FenceRow
<1> DEFINE row == [inputs[k] EXCEPT !.status = st, !.situation = s, !.version = v]
<1>2. inputs' = [inputs EXCEPT ![k] = row] BY DEF MarkApplied
<1>3. s \in 0..MaxIncidents BY InputsAssumption DEF Incidents
<1>4. /\ row \in Input /\ row.status = st /\ row.situation = s /\ row.version = v
      /\ row.incident = inputs[k].incident /\ row.kind = inputs[k].kind
      /\ row.attempts = inputs[k].attempts
  BY <1>1, <1>3 DEF Input, Done
<1> HIDE DEF row
<1>5. inputs'[k] = row /\ inputs' \in [InputIds -> Input]
      /\ \A m \in InputIds \ {k} : inputs'[m] = inputs[m]
  BY <1>1, <1>2, <1>4 DEF TypeOK
<1> QED BY <1>1, <1>4, <1>5

\* What marking row k as done leaves as it is.
LEMMA RowDone ==
  ASSUME Inv, TypeOK', NEW k \in InputIds, inputs[k].status \in {"claimed", "expired"},
         inputs'[k].status \in Done, \A m \in InputIds \ {k} : inputs'[m] = inputs[m],
         inputs'[k].incident = inputs[k].incident, inputs'[k].kind = inputs[k].kind,
         UNCHANGED <<burned, alert>>
  PROVE  RowsStay /\ RowsAreQueued' /\ AttemptsAreBurned' /\ LastWord'
<1>1. RowsAreQueued /\ AttemptsAreBurned /\ LastWord BY DEF Inv
<1>2. \A m \in InputIds : /\ inputs'[m].incident = inputs[m].incident
                          /\ inputs'[m].kind = inputs[m].kind
                          /\ inputs'[m].status = "absent" <=> inputs[m].status = "absent"
  BY DEF Done
<1>3. RowsStay BY <1>2 DEF RowsStay
<1>4. RowsAreQueued' BY <1>1, <1>2 DEF RowsAreQueued, Done
<1>5. AttemptsAreBurned' BY <1>1 DEF AttemptsAreBurned, Done
<1>6. LastWord' BY <1>1, <1>2 DEF LastWord, Later
<1> QED BY <1>3, <1>4, <1>5, <1>6

LEMMA ApplyToClosedStep ==
  ASSUME Inv, NEW e \in Executors, ApplyToClosed(e) PROVE Inv'
<1> DEFINE k == Current(e).id
           s == owner[RowOf(e).incident]
           v == situations[s].version
<1>1. /\ TypeOK /\ RowsAreQueued /\ OwnersExist /\ LeasesAreOpen /\ OneOpen /\ RowsAreOwned
      /\ AttemptsAreBurned /\ EveryInputCountsOnce /\ LastWord /\ RunsAreDecided
  BY DEF Inv
<1>2. batch[e] # {} /\ FenceHolds(e) BY DEF ApplyToClosed, Busy
<1>3. /\ k \in InputIds /\ RowOf(e) = inputs[k]
      /\ inputs[k].status \in {"claimed", "expired"}
  BY <1>1, <1>2, FenceRow
<1>4. inputs[k].incident \in Incidents BY <1>1, <1>3 DEF RowsAreQueued
<1>5. s # 0 /\ s \in 0..MaxIncidents
  BY <1>1, <1>3, <1>4 DEF ApplyToClosed, OwnerIsClosed, OwnerTerminal, TypeOK
<1>6. s \in Incidents BY <1>5, InputsAssumption DEF Incidents
<1>7. v \in Nat BY <1>1, <1>6 DEF TypeOK, Situation
<1>8. MarkApplied(e, "recorded", s, v) BY DEF ApplyToClosed
<1>9. UNCHANGED <<burned, situations, owner, alert, age, runs, faults>> /\ Advance(e)
  BY DEF ApplyToClosed, alertVars
<1>10. s = owner[inputs[k].incident] BY <1>3
<1> HIDE DEF k, s, v
<1>11. /\ inputs' \in [InputIds -> Input] /\ \A m \in InputIds \ {k} : inputs'[m] = inputs[m]
       /\ inputs'[k].status = "recorded" /\ inputs'[k].situation = s
       /\ inputs'[k].incident = inputs[k].incident /\ inputs'[k].kind = inputs[k].kind
  BY <1>1, <1>2, <1>6, <1>7, <1>8, MarkedRow DEF Done, k
<1>12. TypeOK' BY <1>1, <1>9, <1>11, AdvanceTypes DEF TypeOK
<1>13. RowsStay /\ RowsAreQueued' /\ AttemptsAreBurned' /\ LastWord'
  BY <1>3, <1>9, <1>11, <1>12, RowDone DEF Done
<1>14. NoneApplied /\ SameVersions BY <1>3, <1>9, <1>11 DEF NoneApplied, SameVersions
<1>15. EveryInputCountsOnce' /\ \A t \in Incidents : AppliedTo(t)' = AppliedTo(t)
  BY <1>1, <1>12, <1>14, CountKept
<1>16. OwnersExist' /\ LeasesAreOpen' /\ OneOpen'
  BY <1>1, <1>9 DEF OwnersExist, LeasesAreOpen, OneOpen
<1>17. RowsAreOwned' BY <1>1, <1>5, <1>9, <1>10, <1>11 DEF RowsAreOwned
<1>18. RunsAreDecided'
  <2> SUFFICES ASSUME NEW r \in runs
               PROVE  /\ r.token <= situations[r.situation].token
                      /\ r.version <= situations[r.situation].version /\ Decided(r)'
    BY <1>9 DEF RunsAreDecided
  <2>1. r \in Run /\ r.situation \in Incidents BY <1>1 DEF TypeOK, Run
  <2>2. Decided(r) /\ (HoldsLease(r)' => HoldsLease(r))
    BY <1>1, <1>9 DEF RunsAreDecided, HoldsLease
  <2>3. \A i \in Incidents : age'[i] >= age[i] BY <1>1, <1>9 DEF TypeOK
  <2>4. Decided(r)' BY <1>1, <1>9, <1>12, <1>13, <1>15, <2>1, <2>2, <2>3, DecidedKept
  <2> QED BY <1>1, <2>4 DEF RunsAreDecided
<1> QED BY <1>12, <1>13, <1>15, <1>16, <1>17, <1>18 DEF Inv

\* One more input is counted, by one Situation.
LEMMA CountOne ==
  ASSUME TypeOK, TypeOK', EveryInputCountsOnce, NEW k \in InputIds, NEW s \in Incidents,
         inputs[k].status # "applied", inputs'[k].status = "applied", inputs'[k].situation = s,
         inputs'[k].version = situations[s].version + 1,
         \A m \in InputIds \ {k} : inputs'[m] = inputs[m],
         situations'[s].version = situations[s].version + 1,
         \A t \in Incidents \ {s} : situations'[t].version = situations[t].version
  PROVE  /\ EveryInputCountsOnce'
         /\ \A t \in Incidents \ {s} : AppliedTo(t)' = AppliedTo(t)
<1>1. /\ DOMAIN inputs = InputIds /\ DOMAIN inputs' = InputIds
      /\ DOMAIN situations = Incidents /\ DOMAIN situations' = Incidents
  BY DEF TypeOK
<1>2. \A t \in Incidents \ {s} : AppliedTo(t)' = AppliedTo(t) BY <1>1 DEF AppliedTo
<1>3. AppliedTo(s)' = AppliedTo(s) \cup {k} /\ k \notin AppliedTo(s) BY <1>1 DEF AppliedTo
<1>4. ASSUME NEW t \in Incidents \ {s}
      PROVE  /\ Cardinality(AppliedTo(t)') = situations'[t].version
             /\ {inputs'[m].version : m \in AppliedTo(t)'} = 1..situations'[t].version
  <2>1. /\ Cardinality(AppliedTo(t)) = situations[t].version
        /\ {inputs[m].version : m \in AppliedTo(t)} = 1..situations[t].version
    BY <1>1 DEF EveryInputCountsOnce
  <2>2. \A m \in AppliedTo(t) : inputs'[m].version = inputs[m].version
    BY <1>1 DEF AppliedTo
  <2> QED BY <1>2, <2>1, <2>2
<1>5. /\ Cardinality(AppliedTo(s)') = situations'[s].version
      /\ {inputs'[m].version : m \in AppliedTo(s)'} = 1..situations'[s].version
  <2> DEFINE v == situations[s].version
  <2>1. /\ Cardinality(AppliedTo(s)) = v /\ {inputs[m].version : m \in AppliedTo(s)} = 1..v
        /\ v \in Nat
    BY <1>1 DEF EveryInputCountsOnce, TypeOK, Situation
  <2>2. IsFiniteSet(AppliedTo(s))
    <3>1. IsFiniteSet(InputIds) BY FS_Interval, InputsAssumption DEF InputIds
    <3>2. AppliedTo(s) \in SUBSET InputIds BY <1>1 DEF AppliedTo
    <3> QED BY <3>1, <3>2, FS_Subset
  <2>3. Cardinality(AppliedTo(s)') = v + 1 BY <1>3, <2>1, <2>2, FS_AddElement
  <2>4. \A m \in AppliedTo(s) : inputs'[m].version = inputs[m].version
    BY <1>1, <1>3 DEF AppliedTo
  <2>5. {inputs'[m].version : m \in AppliedTo(s) \cup {k}} = 1..v \cup {v + 1}
    BY <2>1, <2>4
  <2>6. 1..v \cup {v + 1} = 1..(v + 1) BY <2>1
  <2> QED BY <1>3, <2>3, <2>5, <2>6
<1> QED BY <1>1, <1>2, <1>4, <1>5 DEF EveryInputCountsOnce

LEMMA ApplyStep ==
  ASSUME Inv, NEW e \in Executors, Apply(e) PROVE Inv'
<1> DEFINE k == Current(e).id
           i == inputs[k].incident
<1>1. /\ TypeOK /\ RowsAreQueued /\ OwnersExist /\ LeasesAreOpen /\ OneOpen /\ RowsAreOwned
      /\ AttemptsAreBurned /\ EveryInputCountsOnce /\ LastWord /\ RunsAreDecided
  BY DEF Inv
<1>2. batch[e] # {} /\ FenceHolds(e) BY DEF Apply, Busy, MayApply
<1>3. /\ k \in InputIds /\ RowOf(e) = inputs[k]
      /\ inputs[k].status \in {"claimed", "expired"}
  BY <1>1, <1>2, FenceRow
<1>4. i \in Incidents /\ alert[i] # "none" BY <1>1, <1>3 DEF RowsAreQueued
<1>5. PICK s \in Incidents :
        /\ Target(i, s) /\ ~ProtectedNow(s)
        /\ situations' = [situations EXCEPT ![s] = Joined(s)]
        /\ owner' = [owner EXCEPT ![i] = s]
        /\ MarkApplied(e, "applied", s, Joined(s).version)
  BY <1>3 DEF Apply
<1>6. UNCHANGED <<burned, alert, age, runs, faults>> /\ Advance(e) BY DEF Apply, alertVars
<1>7. /\ Joined(s) \in Situation /\ Joined(s).lease = "none"
      /\ Joined(s).version = situations[s].version + 1
      /\ situations[s].life = "none" => Joined(s).life = "active"
      /\ situations[s].life # "none" => Joined(s).life = situations[s].life
      /\ Joined(s).token = situations[s].token /\ Joined(s).life # "none"
  BY <1>1, JoinedRow
<1>8. /\ owner[i] # 0 => s = owner[i]
      /\ situations[s].life = "none" => \A t \in Incidents : situations[t].life \notin Open
  BY <1>1, <1>4, <1>5, TargetRow
<1>9. /\ situations'[s] = Joined(s) /\ \A t \in Incidents \ {s} : situations'[t] = situations[t]
      /\ situations' \in [Incidents -> Situation]
  BY <1>1, <1>5, <1>7 DEF TypeOK
<1>10. s \in 0..MaxIncidents /\ s # 0 BY InputsAssumption DEF Incidents
<1>11. /\ owner'[i] = s /\ \A n \in Incidents \ {i} : owner'[n] = owner[n]
       /\ owner' \in [Incidents -> 0..MaxIncidents]
  BY <1>1, <1>4, <1>5, <1>10 DEF TypeOK
<1> HIDE DEF k, i
<1>12. Joined(s).version \in Nat BY <1>7 DEF Situation
<1>13. /\ inputs' \in [InputIds -> Input] /\ \A m \in InputIds \ {k} : inputs'[m] = inputs[m]
       /\ inputs'[k].status = "applied" /\ inputs'[k].situation = s
       /\ inputs'[k].version = situations[s].version + 1
       /\ inputs'[k].incident = inputs[k].incident /\ inputs'[k].kind = inputs[k].kind
  BY <1>1, <1>2, <1>5, <1>7, <1>12, MarkedRow DEF Done, k
<1>14. TypeOK' BY <1>1, <1>6, <1>9, <1>11, <1>13, AdvanceTypes DEF TypeOK
<1>15. RowsStay /\ RowsAreQueued' /\ AttemptsAreBurned' /\ LastWord'
  BY <1>3, <1>6, <1>13, <1>14, RowDone DEF Done
<1>16. EveryInputCountsOnce' /\ \A t \in Incidents \ {s} : AppliedTo(t)' = AppliedTo(t)
  <2>1. inputs[k].status # "applied" BY <1>3
  <2> QED BY <1>1, <1>3, <1>7, <1>9, <1>13, <1>14, <2>1, CountOne
<1>17. \A t \in Incidents : situations[t].life # "none" => situations'[t].life = situations[t].life
  BY <1>7, <1>9
<1>18. OwnersExist'
  <2> SUFFICES ASSUME NEW n \in Incidents, owner'[n] # 0
               PROVE  alert[n] # "none" /\ situations'[owner'[n]].life # "none"
    BY <1>6 DEF OwnersExist
  <2>1. CASE n = i BY <1>4, <1>7, <1>9, <1>11, <2>1
  <2>2. CASE n # i
    <3>1. owner'[n] = owner[n] /\ owner[n] \in 0..MaxIncidents BY <1>1, <1>11, <2>2 DEF TypeOK
    <3>2. owner[n] \in Incidents BY <3>1, InputsAssumption DEF Incidents
    <3> QED BY <1>1, <1>17, <3>1, <3>2 DEF OwnersExist
  <2> QED BY <2>1, <2>2
<1>19. LeasesAreOpen' BY <1>1, <1>7, <1>9 DEF LeasesAreOpen
<1>20. OneOpen'
  <2> SUFFICES ASSUME NEW t \in Incidents, NEW u \in Incidents,
                      situations'[t].life \in Open, situations'[u].life \in Open
               PROVE  t = u
    BY DEF OneOpen
  <2>1. CASE situations[s].life # "none"
    <3>1. situations'[t].life = situations[t].life /\ situations'[u].life = situations[u].life
      BY <1>7, <1>9, <2>1
    <3> QED BY <1>1, <3>1 DEF OneOpen
  <2>2. CASE situations[s].life = "none" BY <1>8, <1>9, <2>2
  <2> QED BY <2>1, <2>2
<1>21. RowsAreOwned'
  <2> SUFFICES ASSUME NEW m \in InputIds, inputs'[m].status \in Done
               PROVE  inputs'[m].situation # 0 /\ inputs'[m].situation = owner'[inputs'[m].incident]
    BY DEF RowsAreOwned
  <2>1. CASE m = k BY <1>10, <1>11, <1>13, <2>1 DEF i
  <2>2. CASE m # k
    <3>1. inputs'[m] = inputs[m] /\ inputs[m].situation # 0
          /\ inputs[m].situation = owner[inputs[m].incident]
      BY <1>1, <1>13, <2>2 DEF RowsAreOwned
    <3>2. inputs[m].incident \in Incidents BY <1>1, <3>1 DEF RowsAreQueued, Done
    <3> QED BY <1>8, <1>11, <3>1, <3>2
  <2> QED BY <2>1, <2>2
<1>22. RunsAreDecided'
  <2> SUFFICES ASSUME NEW r \in runs
               PROVE  /\ r.token <= situations'[r.situation].token
                      /\ r.version <= situations'[r.situation].version /\ Decided(r)'
    BY <1>6 DEF RunsAreDecided
  <2>1. r \in Run /\ r.situation \in Incidents /\ r.version \in Nat
    BY <1>1 DEF TypeOK, Run
  <2>2. /\ Decided(r) /\ r.token <= situations[r.situation].token
        /\ r.version <= situations[r.situation].version
    BY <1>1 DEF RunsAreDecided
  <2>3. CASE r.situation = s
    <3>1. ~HoldsLease(r)' BY <1>7, <1>9, <2>3 DEF HoldsLease
    <3>2. situations[s].version \in Nat BY <1>1 DEF TypeOK, Situation
    <3> QED BY <1>7, <1>9, <2>1, <2>2, <2>3, <3>1, <3>2 DEF Decided
  <2>4. CASE r.situation # s
    <3>1. situations'[r.situation] = situations[r.situation] BY <1>9, <2>1, <2>4
    <3>2. HoldsLease(r)' => HoldsLease(r) BY <3>1 DEF HoldsLease
    <3>3. \A n \in Incidents : age'[n] >= age[n] BY <1>1, <1>6 DEF TypeOK
    <3>4. AppliedTo(r.situation)' = AppliedTo(r.situation) BY <1>16, <2>1, <2>4
    <3>5. Decided(r)'
      BY <1>1, <1>14, <1>15, <2>1, <2>2, <3>1, <3>2, <3>3, <3>4, DecidedKept
    <3> QED BY <2>2, <3>1, <3>5
  <2> QED BY <2>3, <2>4
<1> QED BY <1>14, <1>15, <1>16, <1>18, <1>19, <1>20, <1>21, <1>22 DEF Inv

-----------------------------------------------------------------------------
(* Time and the controller's runs.                                         *)

\* A step that leaves the queue alone, opens no Situation and is harmless to
\* every run it leaves: a run of before keeps what it decided on, or loses its
\* lease; a run that is new, or has just decided, is sound.
LEMMA SituationsMoved ==
  ASSUME Inv, TypeOK', UNCHANGED <<inputs, burned, owner, alert>>,
         \A i \in Incidents : alert[i] # "none" => age'[i] >= age[i],
         \A t \in Incidents :
           /\ situations'[t].version = situations[t].version
           /\ situations'[t].token >= situations[t].token
           /\ situations[t].life = "none" => situations'[t] = situations[t]
           /\ situations[t].life # "none" => situations'[t].life # "none"
           /\ situations'[t].life \in Open => situations[t].life \in Open
           /\ situations'[t].lease # "none" => situations'[t].life \in Open,
         \A r \in runs' :
           \/ /\ r \in runs
              /\ HoldsLease(r)' =>
                   /\ HoldsLease(r) /\ situations'[r.situation].life = situations[r.situation].life
                   /\ situations[r.situation].grace = 0 => situations'[r.situation].grace = 0
           \/ /\ r.token <= situations'[r.situation].token
              /\ r.version <= situations'[r.situation].version /\ Decided(r)'
  PROVE  Inv'
<1>1. /\ TypeOK /\ RowsAreQueued /\ OwnersExist /\ LeasesAreOpen /\ OneOpen /\ RowsAreOwned
      /\ AttemptsAreBurned /\ EveryInputCountsOnce /\ LastWord /\ RunsAreDecided
  BY DEF Inv
<1>2. NoneApplied /\ SameVersions /\ RowsStay BY DEF NoneApplied, SameVersions, RowsStay
<1>3. EveryInputCountsOnce' /\ \A t \in Incidents : AppliedTo(t)' = AppliedTo(t)
  BY <1>1, <1>2, CountKept
<1>4. RowsAreQueued' /\ RowsAreOwned' /\ AttemptsAreBurned' /\ LastWord'
  BY <1>1 DEF RowsAreQueued, RowsAreOwned, AttemptsAreBurned, LastWord, Later
<1>5. OwnersExist'
  <2> SUFFICES ASSUME NEW n \in Incidents, owner[n] # 0
               PROVE  alert[n] # "none" /\ situations'[owner[n]].life # "none"
    BY DEF OwnersExist
  <2>1. owner[n] \in 0..MaxIncidents BY <1>1 DEF TypeOK
  <2>2. owner[n] \in Incidents BY <2>1, InputsAssumption DEF Incidents
  <2> QED BY <1>1, <2>2 DEF OwnersExist
<1>6. LeasesAreOpen'
  <2> SUFFICES ASSUME NEW t \in Incidents
               PROVE  /\ situations'[t].life = "none" => situations'[t] = NoSituation
                      /\ situations'[t].lease # "none" => situations'[t].life \in Open
    BY DEF LeasesAreOpen
  <2>1. situations[t].life = "none" => situations[t] = NoSituation BY <1>1 DEF LeasesAreOpen
  <2> QED BY <2>1
<1>7. OneOpen' BY <1>1 DEF OneOpen
<1>8. RunsAreDecided'
  <2> SUFFICES ASSUME NEW r \in runs'
               PROVE  /\ r.token <= situations'[r.situation].token
                      /\ r.version <= situations'[r.situation].version /\ Decided(r)'
    BY DEF RunsAreDecided
  <2>1. r \in Run /\ r.situation \in Incidents /\ r.token \in Int BY DEF TypeOK, Run
  <2>2. CASE /\ r \in runs
             /\ HoldsLease(r)' =>
                  /\ HoldsLease(r) /\ situations'[r.situation].life = situations[r.situation].life
                  /\ situations[r.situation].grace = 0 => situations'[r.situation].grace = 0
    <3>1. /\ r.token <= situations[r.situation].token /\ Decided(r)
          /\ r.version <= situations[r.situation].version
      BY <1>1, <2>2 DEF RunsAreDecided
    <3>2. /\ situations'[r.situation].token \in Int /\ situations[r.situation].token \in Int
          /\ situations'[r.situation].version = situations[r.situation].version
          /\ situations'[r.situation].token >= situations[r.situation].token
      BY <1>1, <2>1 DEF TypeOK, Situation
    <3>3. r.token <= situations'[r.situation].token BY <2>1, <3>1, <3>2
    <3>4. CASE ~HoldsLease(r)' BY <3>1, <3>2, <3>3, <3>4 DEF Decided
    <3>5. CASE HoldsLease(r)'
      <4>1. Decided(r)' BY <1>1, <1>2, <1>3, <2>1, <2>2, <3>1, <3>2, <3>5, DecidedKept
      <4> QED BY <3>1, <3>2, <3>3, <4>1
    <3> QED BY <3>4, <3>5
  <2> QED BY <2>2
<1> QED BY <1>3, <1>4, <1>5, <1>6, <1>7, <1>8 DEF Inv

\* Steps that change only the lease or the protection of one open Situation.
LEMMA LeaseMoved ==
  ASSUME Inv, NEW s \in Incidents, NEW row \in Situation, situations[s].life # "none",
         situations' = [situations EXCEPT ![s] = row],
         row.version = situations[s].version, row.token = situations[s].token,
         row.grace = situations[s].grace, row.life = situations[s].life,
         row.lease # "none" => situations[s].lease # "none",
         UNCHANGED <<inputs, burned, owner, alert, age, batch, pc>>, runs' \subseteq runs,
         faults' \in 0..MaxFaults
  PROVE  Inv'
<1>1. TypeOK /\ LeasesAreOpen BY DEF Inv
<1>2. situations'[s] = row /\ \A t \in Incidents \ {s} : situations'[t] = situations[t]
  BY <1>1 DEF TypeOK
<1>3. TypeOK' BY <1>1 DEF TypeOK
<1>4. \A i \in Incidents : age'[i] >= age[i] BY <1>1 DEF TypeOK
<1>5. \A t \in Incidents :
        /\ situations'[t].version = situations[t].version
        /\ situations'[t].token >= situations[t].token
        /\ situations[t].life = "none" => situations'[t] = situations[t]
        /\ situations[t].life # "none" => situations'[t].life # "none"
        /\ situations'[t].life \in Open => situations[t].life \in Open
        /\ situations'[t].lease # "none" => situations'[t].life \in Open
  <2>1. \A t \in Incidents : situations[t].token \in Int BY <1>1 DEF TypeOK, Situation
  <2> QED BY <1>1, <1>2, <2>1 DEF LeasesAreOpen
<1>6. \A r \in runs' :
        /\ r \in runs
        /\ HoldsLease(r)' =>
             /\ HoldsLease(r) /\ situations'[r.situation].life = situations[r.situation].life
             /\ situations[r.situation].grace = 0 => situations'[r.situation].grace = 0
  <2>1. \A r \in runs : r.situation \in Incidents BY <1>1 DEF TypeOK, Run
  <2> QED BY <1>2, <2>1 DEF HoldsLease
<1> QED BY <1>3, <1>4, <1>5, <1>6, SituationsMoved

LEMMA LeaseExpiresStep ==
  ASSUME Inv, NEW s \in Incidents, LeaseExpires(s) PROVE Inv'
<1>1. TypeOK /\ LeasesAreOpen /\ situations[s] \in Situation BY DEF Inv, TypeOK
<1> DEFINE row == [situations[s] EXCEPT !.lease = "expired"]
<1>2. situations' = [situations EXCEPT ![s] = row] BY DEF LeaseExpires
<1>3. /\ row \in Situation /\ row.version = situations[s].version
      /\ row.token = situations[s].token
      /\ row.grace = situations[s].grace /\ row.life = situations[s].life
  BY <1>1 DEF Situation
<1>4. situations[s].lease # "none" /\ situations[s].life # "none"
  BY <1>1 DEF LeaseExpires, LeasesAreOpen, Open
<1>5. /\ UNCHANGED <<inputs, burned, owner, alert, age, batch, pc, runs>>
      /\ faults' \in 0..MaxFaults
  BY <1>1, InputsAssumption DEF LeaseExpires, TypeOK, inputVars, alertVars, workVars
<1> HIDE DEF row
<1> QED BY <1>2, <1>3, <1>4, <1>5, LeaseMoved

LEMMA HeartbeatStep ==
  ASSUME Inv, NEW r \in runs, Heartbeat(r) \/ Protect(r) PROVE Inv'
<1> DEFINE s == r.situation
           row == IF Heartbeat(r) THEN [situations[s] EXCEPT !.lease = "live"]
                  ELSE [situations[s] EXCEPT !.protected = TRUE]
<1>1. TypeOK /\ LeasesAreOpen /\ s \in Incidents BY DEF Inv, TypeOK, Run
<1>2. situations[s] \in Situation BY <1>1 DEF TypeOK
<1>3. situations' = [situations EXCEPT ![s] = row] BY DEF Heartbeat, Protect
<1>4. /\ row \in Situation /\ row.version = situations[s].version
      /\ row.token = situations[s].token
      /\ row.grace = situations[s].grace /\ row.life = situations[s].life
  BY <1>2 DEF Situation
<1>5. situations[s].lease # "none" BY DEF Heartbeat, Protect, HoldsLease
<1>6. situations[s].life # "none" BY <1>1, <1>5 DEF LeasesAreOpen, Open
<1>7. /\ UNCHANGED <<inputs, burned, owner, alert, age, batch, pc, runs>>
      /\ faults' \in 0..MaxFaults
  BY <1>1 DEF Heartbeat, Protect, TypeOK, inputVars, alertVars, workVars
<1> HIDE DEF row, s
<1> QED BY <1>1, <1>3, <1>4, <1>5, <1>6, <1>7, LeaseMoved

LEMMA ReleaseStep ==
  ASSUME Inv, NEW r \in runs, Release(r) PROVE Inv'
<1> DEFINE s == r.situation
           row == [situations[s] EXCEPT !.lease = "none", !.protected = FALSE]
<1>1. TypeOK /\ LeasesAreOpen /\ s \in Incidents BY DEF Inv, TypeOK, Run
<1>2. situations[s] \in Situation BY <1>1 DEF TypeOK
<1>3. /\ UNCHANGED <<inputs, burned, owner, alert, age, batch, pc>> /\ runs' \subseteq runs
      /\ faults' \in 0..MaxFaults
  BY <1>1 DEF Release, TypeOK, inputVars, alertVars, workVars
<1>4. CASE ~HoldsLease(r)
  <2>1. situations' = situations BY <1>4 DEF Release
  <2>2. batch' \in [Executors -> SUBSET Claim] /\ pc' \in [Executors -> {"apply", "defer", "retry"}]
    BY <1>1, <1>3 DEF TypeOK
  <2> QED BY <1>3, <2>1, <2>2, QueueKept
<1>5. CASE HoldsLease(r)
  <2>1. situations' = [situations EXCEPT ![s] = row] BY <1>1, <1>5 DEF Release, TypeOK
  <2>2. /\ row \in Situation /\ row.version = situations[s].version /\ row.lease = "none"
        /\ row.token = situations[s].token
        /\ row.grace = situations[s].grace /\ row.life = situations[s].life
    BY <1>2 DEF Situation
  <2>3. situations[s].life # "none" BY <1>1, <1>5 DEF LeasesAreOpen, Open, HoldsLease
  <2> HIDE DEF row, s
  <2> QED BY <1>1, <1>3, <2>1, <2>2, <2>3, LeaseMoved
<1> QED BY <1>4, <1>5

LEMMA TickStep == ASSUME Inv, Tick PROVE Inv'
<1>1. TypeOK /\ LeasesAreOpen BY DEF Inv
<1> DEFINE row(t) == [situations[t] EXCEPT !.grace = Shorter(situations[t].grace)]
<1>2. \A t \in Incidents : situations'[t] = row(t) BY DEF Tick
<1>3. ASSUME NEW t \in Incidents
      PROVE  /\ situations'[t] \in Situation
             /\ situations'[t].life = situations[t].life
             /\ situations'[t].version = situations[t].version
             /\ situations'[t].lease = situations[t].lease
             /\ situations'[t].token = situations[t].token
             /\ situations'[t].token >= situations[t].token
             /\ situations[t].grace = 0 => situations'[t].grace = 0
             /\ situations[t].life = "none" => situations'[t] = situations[t]
  <2> DEFINE g == Shorter(situations[t].grace)
             q == situations[t]
             w == situations'[t]
  <2>1. q \in Situation /\ q.grace \in NoGrace..Grace /\ q.token \in Int BY <1>1 DEF TypeOK, Situation
  <2>2. g \in NoGrace..Grace /\ (q.grace = 0 => g = 0) /\ (q.grace = NoGrace => g = NoGrace)
    BY <2>1, InputsAssumption DEF Shorter, NoGrace
  <2>3. w = [q EXCEPT !.grace = g] BY <1>2
  <2> HIDE DEF g
  <2>4. /\ w \in Situation /\ w.life = q.life /\ w.version = q.version /\ w.lease = q.lease
        /\ w.token = q.token /\ w.grace = g /\ (g = q.grace => w = q)
    BY <2>1, <2>2, <2>3 DEF Situation
  <2>5. q.life = "none" => q.grace = NoGrace BY <1>1 DEF LeasesAreOpen, NoSituation
  <2> QED BY <2>1, <2>2, <2>4, <2>5
<1>4. situations' \in [Incidents -> Situation]
  <2>1. situations' = [t \in Incidents |-> row(t)] BY DEF Tick
  <2>2. \A t \in Incidents : row(t) \in Situation BY <1>2, <1>3
  <2> HIDE DEF row
  <2> QED BY <2>1, <2>2
<1>5. ASSUME NEW i \in Incidents
      PROVE  age'[i] \in 0..OldestAge /\ (alert[i] # "none" => age'[i] >= age[i])
  <2>1. age[i] \in 0..OldestAge /\ OldestAge \in Nat
    BY <1>1, InputsAssumption DEF TypeOK, OldestAge
  <2>2. CASE Exists(i)
    <3>1. age'[i] = Older(age[i]) BY <2>2 DEF Tick
    <3> QED BY <2>1, <3>1 DEF Older
  <2>3. CASE ~Exists(i)
    <3>1. age'[i] = 0 BY <2>3 DEF Tick
    <3> QED BY <2>1, <2>3, <3>1 DEF Exists
  <2> QED BY <2>2, <2>3
<1>6. age' \in [Incidents -> 0..OldestAge]
  <2>1. age' = [i \in Incidents |-> age'[i]] BY DEF Tick
  <2> QED BY <1>5, <2>1
<1>7. UNCHANGED <<inputs, burned, owner, alert, batch, pc, runs, faults>>
  BY DEF Tick, inputVars, workVars
<1>8. TypeOK' BY <1>1, <1>4, <1>6, <1>7 DEF TypeOK
<1>9. \A r \in runs' :
        /\ r \in runs
        /\ HoldsLease(r)' =>
             /\ HoldsLease(r) /\ situations'[r.situation].life = situations[r.situation].life
             /\ situations[r.situation].grace = 0 => situations'[r.situation].grace = 0
  <2>1. \A r \in runs : r.situation \in Incidents BY <1>1 DEF TypeOK, Run
  <2> QED BY <1>3, <1>7, <2>1 DEF HoldsLease
<1> HIDE DEF row
<1> QED BY <1>1, <1>3, <1>5, <1>7, <1>8, <1>9, SituationsMoved DEF LeasesAreOpen

LEMMA ClaimSituationStep ==
  ASSUME Inv, NEW s \in Incidents, ClaimSituation(s) PROVE Inv'
<1> DEFINE old == situations[s]
           t1 == old.token + 1
           p == (old.streak >= GuardAfter)
           row == [old EXCEPT !.lease = "live", !.token = t1, !.protected = p]
           new == [situation |-> s, token |-> t1, version |-> old.version,
                   life |-> "none", grace |-> NoGrace]
<1>1. TypeOK /\ LeasesAreOpen /\ RunsAreDecided /\ old \in Situation BY DEF Inv, TypeOK
<1>2. /\ old.life \in Open /\ old.token < MaxClaims
      /\ situations' = [situations EXCEPT ![s] = row] /\ runs' = runs \cup {new}
      /\ UNCHANGED <<inputs, burned, owner, alert, age, batch, pc, faults>>
  BY DEF ClaimSituation, inputVars, alertVars, workVars
<1>3. old.token \in 0..MaxClaims /\ old.version \in Nat BY <1>1 DEF Situation
<1>4. t1 \in 0..MaxClaims /\ t1 \in 1..MaxClaims /\ t1 > old.token /\ p \in BOOLEAN
  BY <1>2, <1>3, InputsAssumption
<1>5. /\ new \in Run /\ new.situation = s /\ new.token = t1 /\ new.version = old.version
      /\ new.life = "none"
  BY <1>3, <1>4, InputsAssumption DEF Run, NoGrace
<1> HIDE DEF t1, p, new
<1>6. /\ row \in Situation /\ row.life = old.life /\ row.version = old.version
      /\ row.token = t1 /\ row.lease = "live"
  BY <1>1, <1>4 DEF Situation
<1> HIDE DEF row
<1>7. situations'[s] = row /\ \A t \in Incidents \ {s} : situations'[t] = situations[t]
  BY <1>1, <1>2 DEF TypeOK
<1>8. TypeOK'
  <2>1. situations' \in [Incidents -> Situation] BY <1>1, <1>2, <1>6 DEF TypeOK
  <2> QED BY <1>1, <1>2, <1>5, <2>1 DEF TypeOK
<1>9. \A i \in Incidents : age'[i] >= age[i] BY <1>1, <1>2 DEF TypeOK
<1>10. \A t \in Incidents :
        /\ situations'[t].version = situations[t].version
        /\ situations'[t].token >= situations[t].token
        /\ situations[t].life = "none" => situations'[t] = situations[t]
        /\ situations[t].life # "none" => situations'[t].life # "none"
        /\ situations'[t].life \in Open => situations[t].life \in Open
        /\ situations'[t].lease # "none" => situations'[t].life \in Open
  <2>1. \A t \in Incidents : situations[t].token \in Int BY <1>1 DEF TypeOK, Situation
  <2>2. t1 >= old.token BY <1>3, <1>4
  <2> QED BY <1>1, <1>2, <1>6, <1>7, <2>1, <2>2 DEF LeasesAreOpen, Open
<1>11. ASSUME NEW r \in runs'
       PROVE  \/ /\ r \in runs
                 /\ HoldsLease(r)' =>
                      /\ HoldsLease(r)
                      /\ situations'[r.situation].life = situations[r.situation].life
                      /\ situations[r.situation].grace = 0 => situations'[r.situation].grace = 0
              \/ /\ r.token <= situations'[r.situation].token
                 /\ r.version <= situations'[r.situation].version /\ Decided(r)'
  <2>1. CASE r = new
    <3>1. r.token <= situations'[r.situation].token /\ r.version <= situations'[r.situation].version
      BY <1>3, <1>4, <1>5, <1>6, <1>7, <2>1
    <3>2. Decided(r)' BY <1>5, <2>1 DEF Decided
    <3> QED BY <3>1, <3>2
  <2>2. CASE r \in runs /\ r.situation = s
    <3>1. r.token <= old.token /\ r.token \in Int BY <1>1, <2>2 DEF RunsAreDecided, TypeOK, Run
    <3>2. ~HoldsLease(r)' BY <1>3, <1>4, <1>6, <1>7, <2>2, <3>1 DEF HoldsLease
    <3> QED BY <2>2, <3>2
  <2>3. CASE r \in runs /\ r.situation # s
    <3>1. r.situation \in Incidents BY <1>1, <2>3 DEF TypeOK, Run
    <3>2. situations'[r.situation] = situations[r.situation] BY <1>7, <2>3, <3>1
    <3> QED BY <2>3, <3>2 DEF HoldsLease
  <2> QED BY <1>2, <2>1, <2>2, <2>3
<1> QED BY <1>2, <1>8, <1>9, <1>10, <1>11, SituationsMoved

\* What is read decides: a Situation found quiet has applied no firing that is
\* the last word on its Incident.
LEMMA QuietAtLoad ==
  ASSUME Inv, NEW s \in Incidents, ~AnyFiring(s), NEW k \in AppliedTo(s),
         inputs[k].kind = "firing"
  PROVE  Outdated(s, k)
<1>1. TypeOK /\ RowsAreQueued /\ RowsAreOwned /\ LastWord BY DEF Inv
<1>2. k \in InputIds /\ inputs[k].status = "applied" /\ inputs[k].situation = s
  BY <1>1 DEF AppliedTo, TypeOK
<1>3. inputs[k].incident \in Incidents /\ owner[inputs[k].incident] = s
  BY <1>1, <1>2 DEF RowsAreQueued, RowsAreOwned, Done
<1>4. CASE alert[inputs[k].incident] # "firing"
  BY <1>1, <1>2, <1>4 DEF LastWord, Outdated, TypeOK
<1>5. CASE alert[inputs[k].incident] = "firing"
  <2>1. ~(age[inputs[k].incident] < Horizon) BY <1>3, <1>5 DEF AnyFiring, Members
  <2>2. age[inputs[k].incident] \in Int /\ Horizon \in Int
    BY <1>1, <1>3, InputsAssumption DEF TypeOK
  <2> QED BY <2>1, <2>2 DEF Outdated
<1> QED BY <1>4, <1>5

LEMMA LoadStep ==
  ASSUME Inv, NEW r \in runs, Load(r) PROVE Inv'
<1> DEFINE s == r.situation
           l == Resolve(s).life
           g == Resolve(s).grace
           new == [r EXCEPT !.life = l, !.grace = g]
<1>1. TypeOK /\ LeasesAreOpen /\ RunsAreDecided /\ r \in Run BY DEF Inv, TypeOK
<1>2. s \in Incidents BY <1>1 DEF Run
<1>3. /\ runs' = (runs \ {r}) \cup {new}
      /\ UNCHANGED <<inputs, burned, situations, owner, alert, age, batch, pc, faults>>
  BY DEF Load, inputVars, alertVars, workVars
<1>4. /\ l \in Open \cup Terminal \cup {"none"} /\ g \in NoGrace..Grace
      /\ situations[s].life \in Open /\ l = "recovered" =>
              situations[s].life = "recovery_pending" /\ situations[s].grace = 0 /\ ~AnyFiring(s)
  BY <1>1, <1>2, Resolution
<1>5. /\ r.token <= situations[s].token /\ r.version <= situations[s].version
  BY <1>1 DEF RunsAreDecided
<1> HIDE DEF l, g
<1>6. /\ new \in Run /\ new.situation = s /\ new.token = r.token /\ new.version = r.version
      /\ new.life = l
  BY <1>1, <1>4 DEF Run
<1>7. TypeOK'
  <2> HIDE DEF new
  <2> QED BY <1>1, <1>3, <1>6 DEF TypeOK
<1>8. ASSUME NEW q, q = new PROVE Decided(q)'
  <2>1. q.situation = s /\ q.token = r.token /\ q.version = r.version /\ q.life = l
    BY <1>6, <1>8
  <2> HIDE DEF new
  <2>2. Decided(q)
    <3> SUFFICES ASSUME q.life # "none", HoldsLease(q)
                 PROVE  /\ situations[s].life = "active" => l # "recovered"
                        /\ l = "recovered" =>
                             /\ situations[s].grace = 0
                             /\ \A k \in AppliedTo(s) :
                                  inputs[k].kind = "firing" => Outdated(s, k)
      BY <2>1 DEF Decided
    <3>1. situations[s].life \in Open BY <1>1, <1>2, <2>1 DEF HoldsLease, LeasesAreOpen
    <3>2. CASE l = "recovered"
      <4>1. situations[s].life = "recovery_pending" /\ situations[s].grace = 0 /\ ~AnyFiring(s)
        BY <1>4, <3>1, <3>2
      <4> QED BY <1>2, <4>1, QuietAtLoad
    <3> QED BY <3>2
  <2> QED BY <1>3, <2>2 DEF Decided, HoldsLease, AppliedTo, Outdated, Later
<1>9. ASSUME NEW q \in runs'
      PROVE  \/ /\ q \in runs
                /\ HoldsLease(q)' =>
                     /\ HoldsLease(q)
                     /\ situations'[q.situation].life = situations[q.situation].life
                     /\ situations[q.situation].grace = 0 => situations'[q.situation].grace = 0
             \/ /\ q.token <= situations'[q.situation].token
                /\ q.version <= situations'[q.situation].version /\ Decided(q)'
  <2> HIDE DEF new
  <2>1. CASE q = new BY <1>3, <1>5, <1>6, <1>8, <2>1
  <2>2. CASE q \in runs BY <1>3, <2>2 DEF HoldsLease
  <2> QED BY <1>3, <2>1, <2>2
<1>10. \A i \in Incidents : age'[i] >= age[i] BY <1>1, <1>3 DEF TypeOK
<1>11. \A t \in Incidents :
        /\ situations'[t].version = situations[t].version
        /\ situations'[t].token >= situations[t].token
        /\ situations[t].life = "none" => situations'[t] = situations[t]
        /\ situations[t].life # "none" => situations'[t].life # "none"
        /\ situations'[t].life \in Open => situations[t].life \in Open
        /\ situations'[t].lease # "none" => situations'[t].life \in Open
  BY <1>1, <1>3 DEF LeasesAreOpen, TypeOK, Situation
<1> QED BY <1>3, <1>7, <1>9, <1>10, <1>11, SituationsMoved

LEMMA CommitStep ==
  ASSUME Inv, NEW r \in runs, Commit(r) PROVE Inv'
<1> DEFINE s == r.situation
           row == [situations[s] EXCEPT !.life = r.life, !.grace = r.grace, !.lease = "none",
                                        !.protected = FALSE, !.streak = 0]
<1>1. TypeOK /\ LeasesAreOpen /\ RunsAreDecided /\ r \in Run BY DEF Inv, TypeOK
<1>2. s \in Incidents /\ r.life \in Open \cup Terminal \cup {"none"} /\ r.grace \in NoGrace..Grace
  BY <1>1 DEF Run
<1>3. situations[s] \in Situation BY <1>1, <1>2 DEF TypeOK
<1>4. /\ r.life # "none" /\ HoldsLease(r) /\ situations' = [situations EXCEPT ![s] = row]
      /\ runs' \subseteq runs
      /\ UNCHANGED <<inputs, burned, owner, alert, age, batch, pc, faults>>
  BY DEF Commit, CommitFence, inputVars, alertVars, workVars
<1>5. situations[s].life \in Open BY <1>1, <1>2, <1>4 DEF HoldsLease, LeasesAreOpen
<1>6. /\ row \in Situation /\ row.life = r.life /\ row.version = situations[s].version
      /\ row.token = situations[s].token /\ row.lease = "none"
  BY <1>2, <1>3 DEF Situation
<1> HIDE DEF row
<1>7. situations'[s] = row /\ \A t \in Incidents \ {s} : situations'[t] = situations[t]
  BY <1>1, <1>2, <1>4 DEF TypeOK
<1>8. TypeOK'
  <2>1. situations' \in [Incidents -> Situation] BY <1>1, <1>4, <1>6 DEF TypeOK
  <2> QED BY <1>1, <1>4, <2>1 DEF TypeOK
<1>9. \A i \in Incidents : age'[i] >= age[i] BY <1>1, <1>4 DEF TypeOK
<1>10. \A t \in Incidents :
        /\ situations'[t].version = situations[t].version
        /\ situations'[t].token >= situations[t].token
        /\ situations[t].life = "none" => situations'[t] = situations[t]
        /\ situations[t].life # "none" => situations'[t].life # "none"
        /\ situations'[t].life \in Open => situations[t].life \in Open
        /\ situations'[t].lease # "none" => situations'[t].life \in Open
  <2>1. \A t \in Incidents : situations[t].token \in Int BY <1>1 DEF TypeOK, Situation
  <2> QED BY <1>1, <1>4, <1>5, <1>6, <1>7, <2>1 DEF LeasesAreOpen, Open
<1>11. \A q \in runs' :
         /\ q \in runs
         /\ HoldsLease(q)' =>
              /\ HoldsLease(q) /\ situations'[q.situation].life = situations[q.situation].life
              /\ situations[q.situation].grace = 0 => situations'[q.situation].grace = 0
  <2>1. \A q \in runs : q.situation \in Incidents BY <1>1 DEF TypeOK, Run
  <2> QED BY <1>4, <1>6, <1>7, <2>1 DEF HoldsLease
<1> QED BY <1>4, <1>8, <1>9, <1>10, <1>11, SituationsMoved

-----------------------------------------------------------------------------
(* The theorems.                                                           *)

LEMMA InvStep == Inv /\ [Next]_vars => Inv'
<1> SUFFICES ASSUME Inv, [Next]_vars PROVE Inv' OBVIOUS
<1>1. CASE UNCHANGED vars
  <2>1. TypeOK BY DEF Inv
  <2>2. /\ UNCHANGED <<inputs, burned, situations, owner, alert, age>> /\ runs' \subseteq runs
        /\ batch' \in [Executors -> SUBSET Claim] /\ pc' \in [Executors -> {"apply", "defer", "retry"}]
        /\ faults' \in 0..MaxFaults
    BY <1>1, <2>1 DEF vars, inputVars, alertVars, workVars, TypeOK
  <2> QED BY <2>2, QueueKept
<1>2. CASE \E i \in Incidents : DeliverFiring(i) \/ DeliverResolved(i) \/ TriageRecords(i)
                                \/ RecordArtifact(i)
  BY <1>2, DeliveryStep, RecordStep
<1>3. CASE \E k \in InputIds : InputLeaseExpires(k) BY <1>3, InputLeaseExpiresStep
<1>4. CASE \E e \in Executors : ClaimInputs(e) \/ Work(e) \/ ApplyFails(e) \/ WriteBackFails(e)
  BY <1>4, ClaimInputsStep, ApplyIdleStep, ApplyToClosedStep, ApplyStep, ApplyProtectedStep,
     DeferStep, RetryStep, WriteBackFailsStep DEF Work
<1>5. CASE \E s \in Incidents : LeaseExpires(s) \/ ClaimSituation(s)
  BY <1>5, LeaseExpiresStep, ClaimSituationStep
<1>6. CASE \E r \in runs : Load(r) \/ Heartbeat(r) \/ Protect(r) \/ Commit(r) \/ Release(r)
  BY <1>6, LoadStep, HeartbeatStep, CommitStep, ReleaseStep
<1>7. CASE Tick \/ Crash BY <1>7, TickStep, CrashStep
<1> QED BY <1>1, <1>2, <1>3, <1>4, <1>5, <1>6, <1>7 DEF Next

LEMMA AlwaysInv == Spec => []Inv
BY InvInit, InvStep, PTL DEF Spec

\* The tables keep their types, whatever the worker, the controller and the
\* operators interleave (migration 0015).
THEOREM TypesHold == Spec => []TypeOK
<1>1. Inv => TypeOK BY DEF Inv
<1> QED BY <1>1, AlwaysInv, PTL

\* Every input is counted once: ApplySituationInputResult fences on the claim
\* token, so a Situation's input_version numbers exactly its applied inputs.
THEOREM CountsOnce == Spec => []EveryInputCountsOnce
<1>1. Inv => EveryInputCountsOnce BY DEF Inv
<1> QED BY <1>1, AlwaysInv, PTL

\* A group has at most one open Situation, and an Incident one owner for ever
\* (resolveAndApplySituationTx).
THEOREM SingleEpisode == Spec => []OneEpisodeAtATime
<1>1. Inv => OneEpisodeAtATime
  <2> SUFFICES ASSUME Inv PROVE OneEpisodeAtATime OBVIOUS
  <2>1. TypeOK /\ OneOpen /\ RowsAreOwned BY DEF Inv
  <2>2. Cardinality(OpenSituations) <= 1
    <3>1. CASE OpenSituations = {}
      BY <3>1, FS_EmptySet
    <3>2. CASE OpenSituations # {}
      <4>1. PICK s \in OpenSituations : TRUE BY <3>2
      <4>2. \A t \in OpenSituations : t = s BY <2>1 DEF OpenSituations, OneOpen, TypeOK
      <4>3. OpenSituations = {s} BY <4>1, <4>2
      <4> QED BY <4>3, FS_Singleton
    <3> QED BY <3>1, <3>2
  <2> QED BY <2>1, <2>2 DEF OneEpisodeAtATime, RowsAreOwned, TypeOK
<1> QED BY <1>1, AlwaysInv, PTL

\* An input is given up only after MaxAttempts claims of it were spent on it
\* (RetrySituationInput, DeferSituationInput).
THEOREM FailuresEarned == Spec => []FailureIsEarned
<1>1. Inv => FailureIsEarned BY DEF Inv, AttemptsAreBurned, FailureIsEarned, TypeOK
<1> QED BY <1>1, AlwaysInv, PTL

\* Only a commit or an input that opens a Situation changes a lifecycle.
LEMMA LifecycleStep ==
  ASSUME Inv, [Next]_vars, NEW s \in Incidents, situations'[s].life # situations[s].life
  PROVE  \/ situations[s].life = "none" /\ situations'[s].life = "active"
         \/ \E r \in runs : Commit(r) /\ r.situation = s /\ situations'[s].life = r.life
<1>1. TypeOK /\ LeasesAreOpen BY DEF Inv
<1>2. situations' # situations OBVIOUS
<1>3. ASSUME NEW e \in Executors, Apply(e)
      PROVE  situations[s].life = "none" /\ situations'[s].life = "active"
  <2>1. PICK t \in Incidents : situations' = [situations EXCEPT ![t] = Joined(t)]
    BY <1>3 DEF Apply
  <2>2. s = t /\ situations'[s] = Joined(s) BY <1>1, <2>1 DEF TypeOK
  <2> QED BY <1>1, <2>2, JoinedRow
<1>4. ASSUME NEW r \in runs, Commit(r)
      PROVE  r.situation = s /\ situations'[s].life = r.life
  <2>1. r.situation \in Incidents /\ situations[r.situation] \in Situation BY <1>1 DEF TypeOK, Run
  <2> DEFINE row == [situations[r.situation] EXCEPT !.life = r.life, !.grace = r.grace,
                       !.lease = "none", !.protected = FALSE, !.streak = 0]
  <2>2. situations' = [situations EXCEPT ![r.situation] = row] BY <1>4 DEF Commit
  <2>3. row.life = r.life BY <2>1 DEF Situation
  <2> HIDE DEF row
  <2>4. r.situation = s /\ situations'[s] = row BY <1>1, <2>1, <2>2 DEF TypeOK
  <2> QED BY <2>3, <2>4
<1>5. ASSUME NEW t \in Incidents, LeaseExpires(t) \/ ClaimSituation(t) PROVE FALSE
  <2>1. situations[t] \in Situation BY <1>1 DEF TypeOK
  <2>2. CASE LeaseExpires(t)
    <3>1. situations' = [situations EXCEPT ![t].lease = "expired"] BY <2>2 DEF LeaseExpires
    <3> QED BY <1>1, <2>1, <3>1 DEF TypeOK, Situation
  <2>3. CASE ClaimSituation(t)
    <3> DEFINE n == situations[t].token + 1
               p == (situations[t].streak >= GuardAfter)
               row == [situations[t] EXCEPT !.lease = "live", !.token = n, !.protected = p]
    <3>1. situations' = [situations EXCEPT ![t] = row] BY <2>3 DEF ClaimSituation
    <3> HIDE DEF n, p
    <3>2. row.life = situations[t].life BY <2>1 DEF Situation
    <3> HIDE DEF row
    <3> QED BY <1>1, <3>1, <3>2 DEF TypeOK
  <2> QED BY <1>5, <2>2, <2>3
<1>6. ASSUME NEW r \in runs, Load(r) \/ Heartbeat(r) \/ Protect(r) \/ Release(r) PROVE FALSE
  <2>1. r.situation \in Incidents /\ situations[r.situation] \in Situation BY <1>1 DEF TypeOK, Run
  <2>2. CASE Load(r) BY <1>2, <2>2 DEF Load
  <2>3. CASE Heartbeat(r)
    <3>1. situations' = [situations EXCEPT ![r.situation].lease = "live"] BY <2>3 DEF Heartbeat
    <3> QED BY <1>1, <2>1, <3>1 DEF TypeOK, Situation
  <2>4. CASE Protect(r)
    <3>1. situations' = [situations EXCEPT ![r.situation].protected = TRUE] BY <2>4 DEF Protect
    <3>2. [situations[r.situation] EXCEPT !.protected = TRUE].life = situations[r.situation].life
      BY <2>1 DEF Situation
    <3> QED BY <1>1, <2>1, <3>1, <3>2 DEF TypeOK
  <2>5. CASE Release(r) BY <1>1, <2>1, <2>5 DEF Release, TypeOK, Situation
  <2> QED BY <1>6, <2>2, <2>3, <2>4, <2>5
<1>7. ~Tick
  <2> SUFFICES ASSUME Tick PROVE FALSE OBVIOUS
  <2>1. situations'[s] = [situations[s] EXCEPT !.grace = Shorter(situations[s].grace)] BY DEF Tick
  <2>2. situations[s] \in Situation BY <1>1 DEF TypeOK
  <2> QED BY <2>1, <2>2 DEF Situation
<1>8. ~UNCHANGED vars /\ ~Crash BY <1>2 DEF vars, Crash
<1>9. \A i \in Incidents : ~DeliverFiring(i) /\ ~DeliverResolved(i) /\ ~TriageRecords(i) /\ ~RecordArtifact(i)
  BY <1>2 DEF DeliverFiring, DeliverResolved, Correlate, TriageRecords, RecordArtifact
<1>10. /\ \A k \in InputIds : ~InputLeaseExpires(k)
       /\ \A e \in Executors : /\ ~ClaimInputs(e) /\ ~ApplyIdle(e) /\ ~ApplyToClosed(e)
                               /\ ~ApplyProtected(e) /\ ~Defer(e) /\ ~Retry(e)
                               /\ ~ApplyFails(e) /\ ~WriteBackFails(e)
  BY <1>2 DEF InputLeaseExpires, ClaimInputs, ApplyIdle, ApplyToClosed, ApplyProtected, Defer,
              Retry, ApplyFails, WriteBackFails
<1> QED BY <1>3, <1>4, <1>5, <1>6, <1>7, <1>8, <1>9, <1>10 DEF Next, Work

\* A Situation is declared recovered only out of an expired grace, and on no
\* firing that is still the last word on its Incident: the fence of
\* CommitController on token and version makes the unfenced read of
\* LoadReconciliationInput good enough.
THEOREM RecoveryIsQuiet == Spec => RecoveredIsQuiet
<1>1. ASSUME Inv, [Next]_vars, NEW s \in DOMAIN situations,
             situations[s].life # "recovered", situations'[s].life = "recovered"
      PROVE  /\ situations[s].life = "recovery_pending" /\ situations[s].grace = 0
             /\ \A k \in AppliedTo(s) : inputs[k].kind = "firing" => Outdated(s, k)
  <2>1. s \in Incidents BY <1>1 DEF Inv, TypeOK
  <2>2. PICK r \in runs : Commit(r) /\ r.situation = s /\ r.life = "recovered"
    BY <1>1, <2>1, LifecycleStep
  <2>3. HoldsLease(r) /\ situations[s].version = r.version BY <2>2 DEF Commit, CommitFence
  <2>4. Decided(r) BY <1>1, <2>2 DEF Inv, RunsAreDecided
  <2>5. situations[s].life \in Open BY <1>1, <2>1, <2>2, <2>3 DEF Inv, LeasesAreOpen, HoldsLease
  <2> QED BY <2>2, <2>3, <2>4, <2>5 DEF Decided, Open
<1>2. Inv /\ [Next]_vars =>
        [\A s \in DOMAIN situations :
           situations[s].life # "recovered" /\ situations'[s].life = "recovered" =>
             /\ situations[s].life = "recovery_pending" /\ situations[s].grace = 0
             /\ \A k \in AppliedTo(s) : inputs[k].kind = "firing" => Outdated(s, k)]_vars
  BY <1>1
<1> QED BY <1>2, AlwaysInv, PTL DEF Spec, RecoveredIsQuiet

\* Every Situation implements EpisodeLifecycle: resolveLifecycle commits only
\* transitions that AdvanceLifecycle has, the lifecycle it decided on being the
\* one it replaces.
THEOREM LifecycleIsFollowed == Spec => FollowsLifecycle
<1>1. Init => \A s \in DOMAIN situations : Episode(s)!Init
  BY DEF Init, NoSituation, Episode!Init
<1>2. ASSUME Inv, [Next]_vars, NEW s \in DOMAIN situations,
             situations'[s].life # situations[s].life
      PROVE  Episode(s)!Next
  <2>1. s \in Incidents /\ situations[s] \in Situation BY <1>2 DEF Inv, TypeOK
  <2>2. CASE situations[s].life = "none" /\ situations'[s].life = "active"
    BY <2>2 DEF Episode!Next, Episode!Open
  <2>3. CASE \E r \in runs : Commit(r) /\ r.situation = s /\ situations'[s].life = r.life
    <3>1. PICK r \in runs : Commit(r) /\ r.situation = s /\ situations'[s].life = r.life BY <2>3
    <3>2. HoldsLease(r) /\ r.life # "none" BY <3>1 DEF Commit, CommitFence
    <3>3. Decided(r) /\ r \in Run BY <1>2, <3>1 DEF Inv, RunsAreDecided, TypeOK
    <3>4. situations[s].life \in Open
      BY <1>2, <2>1, <3>1, <3>2 DEF Inv, LeasesAreOpen, HoldsLease
    <3>5. situations[s].life = "active" => r.life # "recovered"
      BY <3>1, <3>2, <3>3 DEF Decided
    <3>6. r.life \in {"active", "recovery_pending", "recovered", "closed_unknown"}
      BY <3>2, <3>3 DEF Run, Open, Terminal
    <3>7. Episode(s)!Step
      <4> DEFINE a == situations[s].life
                 b == situations'[s].life
      <4>1. \/ a = "active" /\ b \in {"recovery_pending", "closed_unknown"}
            \/ a = "recovery_pending" /\ b \in {"active", "recovered", "closed_unknown"}
        BY <1>2, <3>1, <3>4, <3>5, <3>6 DEF Open
      <4> QED BY <4>1 DEF Episode!Step, Episode!Advance, Episode!Events
    <3> QED BY <3>7 DEF Episode!Next
  <2> QED BY <1>2, <2>1, <2>2, <2>3, LifecycleStep
<1>3. Inv /\ [Next]_vars =>
        [\A s \in DOMAIN situations : Episode(s)!Next \/ UNCHANGED situations[s].life]_vars
  BY <1>2
<1> QED BY <1>1, <1>3, AlwaysInv, PTL DEF Spec, FollowsLifecycle
=============================================================================
