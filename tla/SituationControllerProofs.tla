--------------------- MODULE SituationControllerProofs ---------------------
(***************************************************************************)
(* Safety of one Situation's controller for every number of hashes,        *)
(* attempts, inputs, claims, outages and faults.                           *)
(***************************************************************************)
EXTENDS SituationController, TLAPS

-----------------------------------------------------------------------------
(* Types.                                                                  *)

\* What CycleIsSet says of one executor, with the types of its cycle.
LEMMA CycleTypes ==
  ASSUME TypeOK, CycleIsSet, NEW e \in Executors
  PROVE  /\ claim[e] \in Claims /\ seen[e] \in Seen /\ coord[e] \in Coords
         /\ pc[e] \in {"loaded", "exhausted", "begun", "called", "concluded"}
              => seen[e].hash \in Hashes
         /\ pc[e] \in {"begun", "called", "concluded"}
              => /\ coord[e].attempt \in 1..MaxAttempts
                 /\ NextCall(e) \in Call
<1>1. claim[e] \in Claims /\ seen[e] \in Seen /\ coord[e] \in Coords BY DEF TypeOK
<1>2. pc[e] \in {"loaded", "exhausted", "begun", "called", "concluded"} => seen[e].hash \in Hashes
  BY DEF CycleIsSet
<1>3. ASSUME pc[e] \in {"begun", "called", "concluded"}
      PROVE  coord[e].attempt \in 1..MaxAttempts
  BY <1>1, <1>3, ControllerAssumption DEF CycleIsSet, Coords
<1>4. ASSUME pc[e] \in {"begun", "called", "concluded"}
      PROVE  NextCall(e) \in Call
  BY <1>1, <1>2, <1>3, <1>4 DEF NextCall, Call, Claims, Coords
<1> QED BY <1>1, <1>2, <1>3, <1>4

LEMMA TypeInit == Init => TypeOK /\ CycleIsSet
BY ControllerAssumption
DEF Init, TypeOK, CycleIsSet, Executors, Parks, Claims, Seen, Coords, NoClaim, Unseen, NoCoord

\* What one executor's step owes the others and its own cycle.
LEMMA CycleStep ==
  ASSUME CycleIsSet, NEW e \in Executors, pc[e] # "off", phase' = phase,
         \A f \in Executors : f # e => /\ pc'[f] = pc[f] /\ seen'[f] = seen[f]
                                       /\ coord'[f] = coord[f] /\ verdict'[f] = verdict[f],
         pc'[e] \in {"loaded", "exhausted", "begun", "called", "concluded"}
           => seen'[e].hash \in Hashes,
         pc'[e] \in {"begun", "called", "concluded"} => coord'[e].attempt >= 1,
         verdict'[e] # "none" => pc'[e] = "concluded"
  PROVE  CycleIsSet'
<1>1. CASE e = "loop" BY <1>1 DEF CycleIsSet, Executors
<1>2. CASE e = "drain" BY <1>2 DEF CycleIsSet, Executors
<1> QED BY <1>1, <1>2 DEF Executors

LEMMA EndCycleTypes ==
  ASSUME TypeOK, CycleIsSet, NEW e \in Executors, EndCycle(e), pc[e] # "off", phase' = phase
  PROVE  /\ pc' \in [Executors -> {"off", "idle", "claimed", "loaded", "exhausted",
                                   "begun", "called", "concluded"}]
         /\ claim' \in [Executors -> Claims] /\ seen' \in [Executors -> Seen]
         /\ coord' \in [Executors -> Coords]
         /\ verdict' \in [Executors -> Verdicts \cup {"none"}]
         /\ CycleIsSet'
<1>1. NoClaim \in Claims /\ Unseen \in Seen /\ NoCoord \in Coords
  BY ControllerAssumption DEF NoClaim, Claims, Unseen, Seen, Parks, NoCoord, Coords
<1>2. \A f \in Executors : f # e => /\ pc'[f] = pc[f] /\ seen'[f] = seen[f]
                                    /\ coord'[f] = coord[f] /\ verdict'[f] = verdict[f]
  BY DEF EndCycle, TypeOK
<1>3. pc'[e] = "idle" /\ verdict'[e] = "none" BY DEF EndCycle, TypeOK
<1>4. CycleIsSet' BY <1>2, <1>3, CycleStep
<1> QED BY <1>1, <1>4 DEF EndCycle, TypeOK

LEMMA CommitTypes ==
  ASSUME TypeOK, CycleIsSet, NEW e \in Executors, CommitStep(e)
  PROVE  TypeOK' /\ CycleIsSet'
<1> USE ControllerAssumption
<1>0. /\ Commit(e)
      /\ pc[e] \in {"loaded", "exhausted", "begun", "called", "concluded"}
  BY DEF CommitStep, CommitReuse, CommitDeferred, CommitBlocked, CommitExhausted,
         CommitAccepted, CommitFailed, CommitBudget
<1>1. seen[e] \in Seen /\ seen[e].hash \in Hashes BY <1>0, CycleTypes
<1>2. trusted' \in Hashes \cup {"null"}
  BY <1>1 DEF CommitStep, CommitReuse, CommitDeferred, CommitBlocked, CommitExhausted,
              CommitAccepted, CommitFailed, CommitBudget, Preserve, TypeOK
<1>3. park' \in Parks
  BY <1>1 DEF CommitStep, CommitReuse, CommitDeferred, CommitBlocked, CommitExhausted,
              CommitAccepted, CommitFailed, CommitBudget, Parks, ParkedReason, TypeOK
<1>4. retry' \in {"none", "waiting", "reached"}
  BY <1>1 DEF CommitStep, CommitReuse, CommitDeferred, CommitBlocked, CommitExhausted,
              CommitAccepted, CommitFailed, CommitBudget, Seen
<1>5. outcomes' \in SUBSET Outcome
  <2>1. CASE CommitAccepted(e)
    <3>1. NextCall(e) \in Call BY <2>1, CycleTypes DEF CommitAccepted
    <3> QED BY <2>1, <3>1 DEF CommitAccepted, Outcome, Verdicts, TypeOK
  <2> QED BY <2>1 DEF CommitStep, CommitReuse, CommitDeferred, CommitBlocked, CommitExhausted,
                      CommitFailed, CommitBudget, TypeOK
<1>6. retry_epoch' \in Nat /\ work_attempts' \in 0..MaxAttempts
  <2>1. CASE CommitBudget(e)
    <3>1. coord[e].attempt \in 1..MaxAttempts BY <2>1, CycleTypes DEF CommitBudget
    <3> QED BY <2>1, <3>1 DEF CommitBudget, Refund, TypeOK
  <2> QED BY <2>1 DEF CommitStep, CommitReuse, CommitDeferred, CommitBlocked, CommitExhausted,
                      CommitFailed, CommitAccepted, budgetVars, TypeOK
<1>7. /\ lifecycle' \in {"open", "terminal"} /\ hash' \in Hashes \cup {"null"}
      /\ lease' \in {"none", "live", "expired"} /\ owner' \in Nat
      /\ protected' \in {"yes", "no"} /\ streak' \in Nat
      /\ due' \in {"waiting", "reached", "moved"}
      /\ input_version' = input_version /\ claim_token' = claim_token
      /\ consumed' = consumed /\ ledger' = ledger /\ latest' = latest
      /\ phase' = phase /\ process' = process /\ faults' = faults /\ outage' = outage
  BY <1>0, <1>1 DEF Commit, Checkpoint, procVars, TypeOK
<1>8. EndCycle(e) /\ pc[e] # "off" BY <1>0 DEF Commit
<1>9. phase' = phase BY <1>7
<1> QED BY <1>9, <1>2, <1>3, <1>4, <1>5, <1>6, <1>7, <1>8, EndCycleTypes DEF TypeOK

\* BeginControllerAttempt's coordinate is well typed.
LEMMA MintedTypes ==
  ASSUME TypeOK, NEW v \in Nat, NEW h \in Hashes, ~Spent(Minted(v, h))
  PROVE  /\ Minted(v, h).epoch \in Nat
         /\ Minted(v, h).attempt \in 1..MaxAttempts
         /\ Basis(v) \in Hashes \cup {"null"}
<1> USE ControllerAssumption
<1>1. Stranded(v) => latest \in Call BY DEF Stranded, Dispatched, TypeOK
<1>2. Attempts(v) \in 0..MaxAttempts /\ Basis(v) \in Hashes \cup {"null"}
  BY <1>1 DEF Attempts, Basis, Call, TypeOK
<1> QED BY <1>2 DEF Minted, Spent, TypeOK

LEMMA BeginTypes ==
  ASSUME TypeOK, CycleIsSet, NEW e \in Executors, Begin(e)
  PROVE  TypeOK' /\ CycleIsSet'
<1> USE ControllerAssumption
<1> DEFINE v == claim[e].version
           m == Minted(v, seen[e].hash)
<1>1. v \in Nat /\ seen[e].hash \in Hashes BY CycleTypes DEF Begin, Claims
<1>2. CASE Spent(m)
  <2>1. /\ pc' = [pc EXCEPT ![e] = "exhausted"]
        /\ UNCHANGED <<coord, hash, park, budgetVars>>
    BY <1>2 DEF Begin
  <2>2. TypeOK' BY <2>1 DEF Begin, TypeOK, leaseVars, budgetVars, timeVars, tableVars, procVars
  <2>3. /\ pc[e] = "loaded" /\ seen' = seen /\ coord' = coord /\ verdict' = verdict
        /\ phase' = phase /\ verdict[e] = "none"
    BY <2>1 DEF Begin, procVars, CycleIsSet
  <2>4. CycleIsSet' BY <1>1, <2>1, <2>3, CycleStep DEF TypeOK
  <2> QED BY <2>2, <2>4
<1>3. CASE ~Spent(m)
  <2>1. /\ retry_epoch' = m.epoch /\ work_attempts' = m.attempt /\ hash' = Basis(v)
        /\ park' = IF Stranded(v) THEN "null" ELSE park
        /\ coord' = [coord EXCEPT ![e] = [epoch |-> m.epoch, number |-> 1,
                                           attempt |-> m.attempt]]
        /\ pc' = [pc EXCEPT ![e] = "begun"]
    BY <1>3 DEF Begin
  <2>2. m.epoch \in Nat /\ m.attempt \in 1..MaxAttempts /\ Basis(v) \in Hashes \cup {"null"}
    BY <1>1, <1>3, MintedTypes
  <2> HIDE DEF m, v
  <2>3. [epoch |-> m.epoch, number |-> 1, attempt |-> m.attempt] \in Coords
    BY <2>2 DEF Coords
  <2>4. TypeOK'
    BY <2>1, <2>2, <2>3 DEF Begin, TypeOK, Parks, leaseVars, timeVars, tableVars, procVars
  <2>5. seen' = seen /\ verdict' = verdict /\ phase' = phase /\ verdict[e] = "none"
    BY DEF Begin, procVars, CycleIsSet
  <2>6. coord'[e].attempt >= 1 /\ pc'[e] = "begun" BY <2>1, <2>2 DEF TypeOK
  <2>7. \A f \in Executors : f # e => pc'[f] = pc[f] /\ coord'[f] = coord[f]
    BY <2>1 DEF TypeOK
  <2>8. pc[e] # "off" BY DEF Begin
  <2>9. CycleIsSet' BY <1>1, <2>5, <2>6, <2>7, <2>8, CycleStep
  <2> QED BY <2>4, <2>9
<1> QED BY <1>2, <1>3

LEMMA StepTypes ==
  ASSUME TypeOK, CycleIsSet, NEW e \in Executors,
         Claim(e) \/ Load(e) \/ RecordCall(e) \/ Fail(e) \/ Heartbeat(e) \/ Wake(e)
  PROVE  TypeOK' /\ CycleIsSet'
<1> USE ControllerAssumption
<1>1. CASE Claim(e)
  <2>1. [token |-> claim_token + 1, version |-> input_version] \in Claims
    BY DEF Claims, TypeOK
  <2>2. TypeOK'
    BY <1>1, <2>1 DEF Claim, Guard, TypeOK, budgetVars, tableVars, procVars
  <2>3. /\ pc[e] = "idle" /\ pc' = [pc EXCEPT ![e] = "claimed"] /\ seen' = seen
        /\ coord' = coord /\ verdict' = verdict /\ phase' = phase /\ verdict[e] = "none"
    BY <1>1 DEF Claim, procVars, CycleIsSet
  <2>4. CycleIsSet' BY <2>3, CycleStep DEF TypeOK
  <2> QED BY <2>2, <2>4
<1>2. CASE Load(e)
  <2>1. PICK h \in Hashes :
          seen' = [seen EXCEPT ![e] = [hash |-> h, park |-> park, basis |-> hash,
                                       retry |-> retry]]
    BY <1>2 DEF Load
  <2>2. [hash |-> h, park |-> park, basis |-> hash, retry |-> retry] \in Seen
    BY DEF Seen, TypeOK
  <2>3. TypeOK'
    BY <1>2, <2>1, <2>2 DEF Load, TypeOK, leaseVars, budgetVars, timeVars, tableVars, procVars
  <2>4. /\ seen'[e].hash \in Hashes
        /\ \A f \in Executors : f # e => seen'[f] = seen[f]
    BY <2>1 DEF TypeOK
  <2>5. /\ pc[e] = "claimed" /\ pc' = [pc EXCEPT ![e] = "loaded"]
        /\ coord' = coord /\ verdict' = verdict /\ phase' = phase /\ verdict[e] = "none"
    BY <1>2 DEF Load, procVars, CycleIsSet
  <2>6. CycleIsSet' BY <2>4, <2>5, CycleStep DEF TypeOK
  <2> QED BY <2>3, <2>6
<1>3. CASE RecordCall(e)
  <2>1. NextCall(e) \in Call BY <1>3, CycleTypes DEF RecordCall
  <2>2. TypeOK'
    BY <1>3, <2>1 DEF RecordCall, Protect, TypeOK, budgetVars, timeVars, procVars
  <2>3. /\ pc[e] = "begun" /\ pc' = [pc EXCEPT ![e] = "called"] /\ seen' = seen
        /\ coord' = coord /\ verdict' = verdict /\ phase' = phase /\ verdict[e] = "none"
    BY <1>3 DEF RecordCall, procVars, CycleIsSet
  <2>4. seen[e].hash \in Hashes /\ coord[e].attempt >= 1 BY <2>3 DEF CycleIsSet
  <2>5. CycleIsSet' BY <2>3, <2>4, CycleStep DEF TypeOK
  <2> QED BY <2>2, <2>5
<1>4. CASE Fail(e)
  <2>1. EndCycle(e) /\ pc[e] # "off" /\ phase' = phase BY <1>4 DEF Fail, procVars
  <2>2. outcomes' \in SUBSET Outcome
    <3>1. CASE verdict[e] = "accepted" /\ outcomes' = outcomes \cup {[call |-> NextCall(e), status |-> "stale"]}
      <4>1. verdict[e] = "accepted" => NextCall(e) \in Call
        BY CycleTypes DEF CycleIsSet
      <4> QED BY <3>1, <4>1 DEF Outcome, TypeOK
    <3> QED BY <1>4, <3>1 DEF Fail, TypeOK
  <2> QED BY <1>4, <2>1, <2>2, EndCycleTypes DEF Fail, Checkpoint, TypeOK, budgetVars, timeVars, procVars
<1>5. CASE Heartbeat(e)
  BY <1>5 DEF Heartbeat, TypeOK, CycleIsSet, budgetVars, timeVars, tableVars, procVars, execVars
<1>6. CASE Wake(e)
  BY <1>6 DEF Wake, TypeOK, CycleIsSet, Parks, leaseVars, tableVars, procVars, execVars
<1> QED BY <1>1, <1>2, <1>3, <1>4, <1>5, <1>6

LEMMA CallReturnsTypes ==
  ASSUME TypeOK, CycleIsSet, NEW e \in Executors, NEW v \in Verdicts, CallReturns(e, v)
  PROVE  TypeOK' /\ CycleIsSet'
<1> USE ControllerAssumption
<1>1. pc[e] = "called" /\ NextCall(e) \in Call /\ coord[e] \in Coords
      /\ coord[e].attempt \in 1..MaxAttempts /\ seen[e].hash \in Hashes
  BY CycleTypes DEF CallReturns
<1>2. outcomes' \in SUBSET Outcome BY <1>1 DEF CallReturns, Outcome, TypeOK
<1>3. CASE v = "malformed" /\ coord[e].number = 1
  <2>1. /\ pc' = [pc EXCEPT ![e] = "begun"]
        /\ coord' = [coord EXCEPT ![e] = [epoch |-> coord[e].epoch, number |-> 2,
                                           attempt |-> coord[e].attempt]]
        /\ verdict' = verdict
    BY <1>3 DEF CallReturns
  <2>2. [epoch |-> coord[e].epoch, number |-> 2, attempt |-> coord[e].attempt] \in Coords
    BY <1>1 DEF Coords
  <2>3. TypeOK'
    BY <1>2, <2>1, <2>2
    DEF CallReturns, TypeOK, leaseVars, budgetVars, timeVars, procVars
  <2>4. /\ coord'[e].attempt = coord[e].attempt /\ seen' = seen /\ phase' = phase
        /\ \A f \in Executors : f # e => coord'[f] = coord[f]
    BY <2>1 DEF CallReturns, TypeOK, procVars
  <2>5. verdict[e] = "none" /\ coord'[e].attempt >= 1 BY <1>1, <2>4 DEF CycleIsSet
  <2>6. CycleIsSet' BY <1>1, <2>1, <2>4, <2>5, CycleStep DEF TypeOK
  <2> QED BY <2>3, <2>6
<1>4. CASE ~(v = "malformed" /\ coord[e].number = 1)
  <2>1. /\ pc' = [pc EXCEPT ![e] = "concluded"] /\ coord' = coord /\ seen' = seen
        /\ verdict' = [verdict EXCEPT ![e] = v] /\ phase' = phase
    BY <1>4 DEF CallReturns, procVars
  <2>2. TypeOK'
    BY <1>2, <2>1 DEF CallReturns, TypeOK, leaseVars, budgetVars, timeVars, procVars
  <2>3. coord[e].attempt >= 1 BY <1>1
  <2>4. CycleIsSet' BY <1>1, <2>1, <2>3, CycleStep DEF TypeOK
  <2> QED BY <2>2, <2>4
<1> QED BY <1>3, <1>4

LEMMA HaltTypes ==
  ASSUME TypeOK, Halt, faults' \in 0..MaxFaults
  PROVE  TypeOK' /\ CycleIsSet'
<1>1. NoClaim \in Claims /\ Unseen \in Seen /\ NoCoord \in Coords
  BY ControllerAssumption DEF NoClaim, Claims, Unseen, Seen, Parks, NoCoord, Coords
<1>2. TypeOK' BY <1>1 DEF Halt, TypeOK, leaseVars, budgetVars, timeVars, tableVars
<1> QED BY <1>2 DEF Halt, CycleIsSet, Executors

LEMMA ProcessTypes ==
  ASSUME TypeOK, CycleIsSet,
         \/ Join \/ LeaseExpires \/ TimerReached \/ ProviderRecovers
         \/ Boot \/ RecoverCalls \/ Signal \/ Exit \/ Crash \/ UNCHANGED vars
  PROVE  TypeOK' /\ CycleIsSet'
<1> USE ControllerAssumption
<1>1. CASE Join
  BY <1>1 DEF Join, TypeOK, CycleIsSet, budgetVars, tableVars, procVars, execVars
<1>2. CASE LeaseExpires \/ TimerReached \/ ProviderRecovers
  BY <1>2 DEF LeaseExpires, TimerReached, ProviderRecovers, TypeOK, CycleIsSet,
     leaseVars, budgetVars, timeVars, tableVars, procVars, execVars
<1>3. CASE Boot
  BY <1>3 DEF Boot, TypeOK, CycleIsSet, budgetVars, timeVars, tableVars, execVars
<1>4. CASE RecoverCalls
  <2>1. latest # NoCall => latest \in Call BY DEF TypeOK
  <2>2. outcomes' \in SUBSET Outcome
    <3>1. Orphans \subseteq Call BY DEF Orphans, TypeOK
    <3>2. \A c \in Call : [call |-> c, status |-> "interrupted"] \in Outcome BY DEF Outcome
    <3> QED BY <1>4, <3>1, <3>2 DEF RecoverCalls, StaleBasis, AdvanceBasis, TypeOK
  <2>3. /\ hash' \in Hashes \cup {"null"} /\ work_attempts' \in 0..MaxAttempts
        /\ retry_epoch' \in Nat /\ park' \in Parks
    BY <1>4, <2>1 DEF RecoverCalls, StaleBasis, AdvanceBasis, TypeOK, Call, Parks
  <2>4. TypeOK'
    BY <1>4, <2>2, <2>3 DEF RecoverCalls, StaleBasis, AdvanceBasis, TypeOK, Executors, leaseVars, timeVars
  <2>5. verdict' = verdict /\ seen' = seen /\ coord' = coord BY <1>4 DEF RecoverCalls, StaleBasis, AdvanceBasis
  <2>6. verdict["loop"] = "none" BY <1>4 DEF RecoverCalls, StaleBasis, AdvanceBasis, CycleIsSet, Executors
  <2> QED BY <1>4, <2>4, <2>5, <2>6 DEF RecoverCalls, StaleBasis, AdvanceBasis, CycleIsSet, TypeOK
<1>5. CASE Signal
  <2>1. TypeOK'
    BY <1>5 DEF Signal, TypeOK, Executors, leaseVars, budgetVars, timeVars, tableVars
  <2>6. verdict["drain"] = "none" BY <1>5 DEF Signal, CycleIsSet, Executors
  <2> QED BY <1>5, <2>1, <2>6 DEF Signal, CycleIsSet, TypeOK
<1>6. CASE Exit \/ Crash
  BY <1>6, HaltTypes DEF Exit, Crash, TypeOK
<1>7. CASE UNCHANGED vars
  BY <1>7 DEF vars, TypeOK, CycleIsSet, leaseVars, budgetVars, timeVars, tableVars, procVars,
     execVars
<1> QED BY <1>1, <1>2, <1>3, <1>4, <1>5, <1>6, <1>7

\* Every step keeps the types and the shape of a cycle.
LEMMA TypeNext ==
  ASSUME TypeOK, CycleIsSet, [Next]_vars
  PROVE  TypeOK' /\ CycleIsSet'
BY ProcessTypes, StepTypes, BeginTypes, CommitTypes, CallReturnsTypes DEF Next, Cycle

\* Every reachable state has the declared types: in particular no attempt
\* counter passes the budget of an input, in the row, a cycle or the ledger.
THEOREM TypeCorrect == Spec => []TypeOK
<1>1. TypeOK /\ CycleIsSet /\ [Next]_vars => (TypeOK /\ CycleIsSet)' BY TypeNext
<1> QED BY TypeInit, <1>1, PTL DEF Spec

-----------------------------------------------------------------------------
(* The supersede guard.                                                    *)

LEMMA GuardNext ==
  ASSUME TypeOK, GuardIsArmed, StormIsBounded, [Next]_vars
  PROVE  GuardIsArmed' /\ StormIsBounded'
<1> USE ControllerAssumption
<1>1. CASE Join BY <1>1 DEF Join, GuardIsArmed, StormIsBounded, TypeOK
<1>2. ASSUME NEW e \in Executors, Claim(e) PROVE GuardIsArmed' /\ StormIsBounded'
  BY <1>2 DEF Claim, Guard, GuardIsArmed, StormIsBounded, TypeOK
<1>3. ASSUME NEW e \in Executors, RecordCall(e) PROVE GuardIsArmed' /\ StormIsBounded'
  BY <1>3 DEF RecordCall, Protect, GuardIsArmed, StormIsBounded
<1>4. ASSUME NEW e \in Executors, CommitStep(e) PROVE GuardIsArmed' /\ StormIsBounded'
  <2>1. lease' = "none" /\ streak' = 0
    BY <1>4 DEF CommitStep, CommitReuse, CommitDeferred, CommitBlocked, CommitExhausted,
                CommitAccepted, CommitFailed, CommitBudget, Commit
  <2> QED BY <2>1 DEF GuardIsArmed, StormIsBounded
<1>5. ASSUME NEW e \in Executors, Fail(e) \/ Heartbeat(e) \/ Load(e) \/ Begin(e) \/ Wake(e)
      PROVE GuardIsArmed' /\ StormIsBounded'
  BY <1>5 DEF Fail, Heartbeat, Load, Begin, Wake, leaseVars, GuardIsArmed, StormIsBounded,
              FenceHolds
<1>6. ASSUME NEW e \in Executors, NEW v \in Verdicts, CallReturns(e, v)
      PROVE GuardIsArmed' /\ StormIsBounded'
  BY <1>6 DEF CallReturns, leaseVars, GuardIsArmed, StormIsBounded
<1>7. CASE LeaseExpires \/ Boot BY <1>7 DEF LeaseExpires, Boot, GuardIsArmed, StormIsBounded
<1>8. CASE \/ TimerReached \/ ProviderRecovers \/ RecoverCalls \/ Signal \/ Exit \/ Crash
           \/ UNCHANGED vars
  BY <1>8 DEF TimerReached, ProviderRecovers, RecoverCalls, StaleBasis, AdvanceBasis, Signal, Exit, Crash, Halt, vars,
     leaseVars, GuardIsArmed, StormIsBounded
<1> QED BY <1>1, <1>2, <1>3, <1>4, <1>5, <1>6, <1>7, <1>8 DEF Next, Cycle

\* An input storm takes the claim away from at most GuardAfter runs in a row:
\* the next claim is protected, whatever fails, expires or restarts meanwhile.
THEOREM Storm == Spec => []StormIsBounded
<1>1. Init => GuardIsArmed /\ StormIsBounded
  BY ControllerAssumption DEF Init, GuardIsArmed, StormIsBounded
<1>2. /\ TypeOK /\ GuardIsArmed /\ StormIsBounded /\ [Next]_vars
      => (GuardIsArmed /\ StormIsBounded)'
  BY GuardNext
<1> QED BY <1>1, <1>2, TypeCorrect, PTL DEF Spec

-----------------------------------------------------------------------------
(* The fence.                                                              *)

\* The row's lease columns and what a cycle holds, all that a fence reads.
fenceVars == <<lease, owner, claim_token, process, input_version>>

\* A fence that holds after a step held before it, on the same claim and the
\* same input, unless the step is the claim itself.
LEMMA FenceIsInherited ==
  ASSUME TypeOK, CycleIsSet, ClaimsAreOwn, [Next]_vars,
         NEW f \in Executors, Active(f)', FenceHolds(f)', ~Claim(f)
  PROVE  /\ Active(f) /\ FenceHolds(f)
         /\ claim'[f] = claim[f] /\ input_version' = input_version
<1> USE ControllerAssumption
<1>1. CASE Join BY <1>1 DEF Join, FenceHolds
<1>2. ASSUME NEW e \in Executors, Claim(e) PROVE FALSE
  <2>1. e # f BY <1>2
  <2>2. claim'[f] = claim[f] /\ pc'[f] = pc[f] /\ claim_token' = claim_token + 1
    BY <1>2, <2>1 DEF Claim, TypeOK
  <2>3. claim[f].token \in 1..claim_token BY <2>2 DEF ClaimsAreOwn, Active
  <2> QED BY <2>2, <2>3 DEF FenceHolds, TypeOK
<1>3. ASSUME NEW e \in Executors, CommitStep(e) PROVE FALSE
  BY <1>3 DEF CommitStep, CommitReuse, CommitDeferred, CommitBlocked, CommitExhausted,
              CommitAccepted, CommitFailed, CommitBudget, Commit, FenceHolds
<1>4. ASSUME NEW e \in Executors, Fail(e)
      PROVE  /\ Active(f) /\ FenceHolds(f)
             /\ claim'[f] = claim[f] /\ input_version' = input_version
  <2>1. e # f /\ claim'[f] = claim[f] /\ pc'[f] = pc[f]
    BY <1>4 DEF Fail, EndCycle, Active, TypeOK
  <2> QED BY <1>4, <2>1 DEF Fail, Active, FenceHolds, procVars
<1>5. ASSUME NEW e \in Executors, Load(e) \/ Begin(e) \/ RecordCall(e)
      PROVE  /\ Active(f) /\ FenceHolds(f)
             /\ claim'[f] = claim[f] /\ input_version' = input_version
  <2>1. UNCHANGED <<claim, fenceVars>>
    BY <1>5 DEF Load, Begin, RecordCall, leaseVars, procVars, fenceVars
  <2>2. Active(f)
    BY <1>5 DEF Load, Begin, RecordCall, Active, TypeOK
  <2> QED BY <2>1, <2>2 DEF FenceHolds, fenceVars
<1>6. ASSUME NEW e \in Executors, NEW v \in Verdicts, CallReturns(e, v)
      PROVE  /\ Active(f) /\ FenceHolds(f)
             /\ claim'[f] = claim[f] /\ input_version' = input_version
  <2>1. UNCHANGED <<claim, fenceVars>> BY <1>6 DEF CallReturns, leaseVars, procVars, fenceVars
  <2>2. Active(f) BY <1>6 DEF CallReturns, Active, TypeOK
  <2> QED BY <2>1, <2>2 DEF FenceHolds, fenceVars
<1>7. ASSUME NEW e \in Executors, Heartbeat(e) \/ Wake(e)
      PROVE  /\ Active(f) /\ FenceHolds(f)
             /\ claim'[f] = claim[f] /\ input_version' = input_version
  BY <1>7 DEF Heartbeat, Wake, leaseVars, procVars, execVars, FenceHolds, Active
<1>8. CASE LeaseExpires \/ TimerReached \/ ProviderRecovers \/ UNCHANGED vars
  BY <1>8 DEF LeaseExpires, TimerReached, ProviderRecovers, vars, leaseVars, procVars, execVars,
              FenceHolds, Active
<1>9. CASE Boot \/ RecoverCalls
  <2>1. pc[f] = "off" BY <1>9 DEF Boot, RecoverCalls, StaleBasis, AdvanceBasis, CycleIsSet, Executors
  <2>2. pc'[f] \in {"off", "idle"}
    BY <1>9, <2>1 DEF Boot, RecoverCalls, StaleBasis, AdvanceBasis, execVars, TypeOK
  <2> QED BY <2>2 DEF Active
<1>10. CASE Signal
  BY <1>10 DEF Signal, leaseVars, FenceHolds, Active, TypeOK
<1>11. CASE Exit \/ Crash BY <1>11 DEF Exit, Crash, Halt, Active
<1> QED BY <1>1, <1>2, <1>3, <1>4, <1>5, <1>6, <1>7, <1>8, <1>9, <1>10, <1>11 DEF Next, Cycle

\* At most one cycle holds the fence.
LEMMA FenceIsExclusive ==
  ASSUME ClaimsAreOwn, NEW e \in Executors, NEW f \in Executors,
         Active(e), FenceHolds(e), Active(f), FenceHolds(f)
  PROVE  e = f
BY DEF ClaimsAreOwn, FenceHolds

\* A cycle in progress was in progress before, unless it starts right now.
LEMMA CycleIsInherited ==
  ASSUME TypeOK, CycleIsSet, [Next]_vars, NEW f \in Executors, Active(f)', ~Claim(f)
  PROVE  /\ Active(f) /\ claim'[f] = claim[f]
         /\ \/ claim_token' = claim_token
            \/ claim_token' = claim_token + 1 /\ \E e \in Executors : Claim(e)
<1>1. ASSUME NEW e \in Executors, Claim(e)
      PROVE  Active(f) /\ claim'[f] = claim[f] /\ claim_token' = claim_token + 1
  BY <1>1 DEF Claim, Active, TypeOK
<1>2. ASSUME NEW e \in Executors, CommitStep(e) \/ Fail(e)
      PROVE  Active(f) /\ claim'[f] = claim[f] /\ claim_token' = claim_token
  <2>1. EndCycle(e) /\ claim_token' = claim_token
    BY <1>2 DEF CommitStep, CommitReuse, CommitDeferred, CommitBlocked, CommitExhausted,
                CommitAccepted, CommitFailed, CommitBudget, Commit, Fail
  <2> QED BY <2>1 DEF EndCycle, Active, TypeOK
<1>3. ASSUME NEW e \in Executors, Load(e) \/ Begin(e) \/ RecordCall(e)
      PROVE  Active(f) /\ claim'[f] = claim[f] /\ claim_token' = claim_token
  <2>1. UNCHANGED <<claim, claim_token>> BY <1>3 DEF Load, Begin, RecordCall, leaseVars
  <2>2. Active(f) BY <1>3 DEF Load, Begin, RecordCall, Active, TypeOK
  <2> QED BY <2>1, <2>2
<1>4. ASSUME NEW e \in Executors, NEW v \in Verdicts, CallReturns(e, v)
      PROVE  Active(f) /\ claim'[f] = claim[f] /\ claim_token' = claim_token
  <2>1. UNCHANGED <<claim, claim_token>> BY <1>4 DEF CallReturns, leaseVars
  <2>2. Active(f) BY <1>4 DEF CallReturns, Active, TypeOK
  <2> QED BY <2>1, <2>2
<1>5. ASSUME NEW e \in Executors, Heartbeat(e) \/ Wake(e)
      PROVE  Active(f) /\ claim'[f] = claim[f] /\ claim_token' = claim_token
  BY <1>5 DEF Heartbeat, Wake, leaseVars, execVars, Active
<1>6. CASE \/ Join \/ LeaseExpires \/ TimerReached \/ ProviderRecovers \/ Boot
           \/ UNCHANGED vars
  BY <1>6 DEF Join, LeaseExpires, TimerReached, ProviderRecovers, Boot, vars, leaseVars,
              execVars, Active
<1>7. CASE Signal \/ RecoverCalls
  <2>1. UNCHANGED <<claim, claim_token>> BY <1>7 DEF Signal, RecoverCalls, StaleBasis, AdvanceBasis, leaseVars
  <2>2. Active(f) BY <1>7 DEF Signal, RecoverCalls, StaleBasis, AdvanceBasis, Active, TypeOK, Executors
  <2> QED BY <2>1, <2>2
<1>8. CASE Exit \/ Crash BY <1>8 DEF Exit, Crash, Halt, Active
<1> QED BY <1>1, <1>2, <1>3, <1>4, <1>5, <1>6, <1>7, <1>8 DEF Next, Cycle

LEMMA ClaimsNext ==
  ASSUME TypeOK, CycleIsSet, ClaimsAreOwn, [Next]_vars
  PROVE  ClaimsAreOwn'
<1>1. ASSUME NEW e \in Executors, Claim(e)
      PROVE  /\ claim'[e] = [token |-> claim_token + 1, version |-> input_version]
             /\ claim_token' = claim_token + 1 /\ input_version' = input_version
             /\ \A f \in Executors : f # e => claim'[f] = claim[f] /\ pc'[f] = pc[f]
  BY <1>1 DEF Claim, TypeOK
<1>2. ASSUME NEW f \in Executors, Active(f)' PROVE claim'[f].token \in 1..claim_token'
  <2>1. CASE Claim(f) BY <1>1, <2>1 DEF TypeOK
  <2>2. CASE ~Claim(f)
    <3>1. /\ Active(f) /\ claim'[f] = claim[f]
          /\ claim_token' \in {claim_token, claim_token + 1}
      BY <1>2, <2>2, CycleIsInherited
    <3> QED BY <3>1 DEF ClaimsAreOwn, TypeOK
  <2> QED BY <2>1, <2>2
<1>3. ASSUME NEW e \in Executors, NEW f \in Executors, e # f, Active(e)', Active(f)'
      PROVE  claim'[e].token # claim'[f].token
  <2>1. ASSUME NEW g \in Executors, NEW k \in Executors, g # k, Active(k)', Claim(g)
        PROVE  claim'[g].token # claim'[k].token
    <3>1. Active(k) BY <1>1, <2>1 DEF Active
    <3>2. claim[k].token \in 1..claim_token BY <3>1 DEF ClaimsAreOwn
    <3> QED BY <1>1, <2>1, <3>2 DEF TypeOK
  <2>2. CASE Claim(e) \/ Claim(f) BY <1>3, <2>1, <2>2
  <2>3. CASE ~Claim(e) /\ ~Claim(f)
    BY <1>3, <2>3, CycleIsInherited DEF ClaimsAreOwn
  <2> QED BY <2>2, <2>3
<1>4. ASSUME NEW f \in Executors, Active(f)', FenceHolds(f)'
      PROVE  claim'[f].version = input_version'
  <2>1. CASE Claim(f) BY <1>1, <2>1
  <2>2. CASE ~Claim(f) BY <1>4, <2>2, FenceIsInherited DEF ClaimsAreOwn
  <2> QED BY <2>1, <2>2
<1> QED BY <1>2, <1>3, <1>4 DEF ClaimsAreOwn

-----------------------------------------------------------------------------
(* The call ledger and its coordinates.                                    *)

\* Below orders the coordinates of calls totally.
LEMMA BelowOrder ==
  ASSUME NEW a \in Call, NEW b \in Call, NEW c \in Call, Below(a, b), ~Below(a, c)
  PROVE  ~Below(b, c) /\ ~(b.epoch = c.epoch /\ b.attempt = c.attempt /\ b.number = c.number)
BY ControllerAssumption DEF Below, Call

\* Below ignores the version and the hash.
LEMMA BelowSelf ==
  ASSUME NEW a \in Call
  PROVE  ~Below(a, a)
BY ControllerAssumption DEF Below, Call

\* BeginControllerAttempt mints above everything dispatched for the input.
LEMMA MintedAbove ==
  ASSUME TypeOK, LedgerIsOrdered, NEW h \in Hashes
  PROVE  LET v == input_version
             m == Minted(v, h)
         IN /\ m.epoch \in {retry_epoch, retry_epoch + 1} /\ m.attempt \in Nat
            /\ Dispatched(v) =>
                 \/ latest.epoch < m.epoch
                 \/ latest.epoch = m.epoch /\ latest.attempt < m.attempt
<1> USE ControllerAssumption
<1> DEFINE v == input_version
           m == Minted(v, h)
<1>1. CASE ~Dispatched(v)
  <2>1. Attempts(v) = work_attempts BY <1>1 DEF Attempts, Stranded
  <2> QED BY <1>1, <2>1 DEF Minted, TypeOK
<1>2. CASE Dispatched(v)
  <2>1. latest \in Call /\ latest \in ledger BY <1>2 DEF Dispatched, LedgerIsOrdered, TypeOK
  <2>2. /\ latest.epoch \in Nat /\ latest.attempt \in 1..MaxAttempts /\ latest.hash \in Hashes
        /\ latest.epoch <= retry_epoch
        /\ latest.epoch = retry_epoch => latest.attempt <= work_attempts
    BY <1>2, <2>1 DEF LedgerIsOrdered, Call
  <2>3. Basis(v) = latest.hash BY <1>2 DEF Basis, Stranded
  <2>4. Basis(v) # "null" BY <2>2, <2>3
  <2>5. Attempts(v) \in Nat /\ (latest.epoch = retry_epoch => latest.attempt <= Attempts(v))
    BY <2>2 DEF Attempts, TypeOK
  <2>6. CASE Basis(v) = h
    BY <2>2, <2>5, <2>6 DEF Minted, TypeOK
  <2>7. CASE Basis(v) # h
    BY <2>2, <2>4, <2>7 DEF Minted, TypeOK
  <2> QED BY <2>6, <2>7
<1> QED BY <1>1, <1>2

\* The ledger parts read only these; most steps leave them alone.
ledgerVars == <<input_version, retry_epoch, work_attempts, ledger, latest>>

LEMMA LedgerFrame ==
  ASSUME LedgerIsOrdered, UNCHANGED ledgerVars
  PROVE  LedgerIsOrdered'
BY DEF LedgerIsOrdered, Dispatched, Below, ledgerVars

\* A fresh epoch is above everything.
LEMMA LedgerFreshEpoch ==
  ASSUME TypeOK, LedgerIsOrdered, UNCHANGED <<input_version, ledger, latest>>,
         retry_epoch' = retry_epoch + 1
  PROVE  LedgerIsOrdered'
<1>1. \A c \in ledger : c.epoch \in Nat /\ c.epoch <= retry_epoch
  BY DEF LedgerIsOrdered, TypeOK, Call
<1>2. Dispatched(input_version) => latest \in ledger BY DEF LedgerIsOrdered, Dispatched
<1>3. Dispatched(input_version) => latest.epoch # retry_epoch + 1 BY <1>1, <1>2 DEF TypeOK
<1>4. \A c \in ledger : c.epoch <= retry_epoch' BY <1>1 DEF TypeOK
<1> QED BY <1>3, <1>4 DEF LedgerIsOrdered, Dispatched, Below

LEMMA LedgerNext ==
  ASSUME TypeOK, CycleIsSet, ClaimsAreOwn, LedgerIsOrdered, CycleIsAhead, [Next]_vars
  PROVE  LedgerIsOrdered'
<1> USE ControllerAssumption
<1>1. CASE Join
  <2>1. /\ input_version' = input_version + 1 /\ input_version \in Nat
        /\ UNCHANGED <<retry_epoch, work_attempts, ledger, latest>>
    BY <1>1 DEF Join, budgetVars, tableVars, TypeOK
  <2>2. \A c \in ledger : c.version \in Nat /\ c.version <= input_version
    BY DEF LedgerIsOrdered, TypeOK, Call
  <2>3. latest # NoCall => latest.version # input_version' BY <2>1, <2>2 DEF LedgerIsOrdered
  <2>4. \A c \in ledger : c.version <= input_version' /\ c.version # input_version'
    BY <2>1, <2>2
  <2> QED BY <2>1, <2>3, <2>4 DEF LedgerIsOrdered, Dispatched
<1>2. ASSUME NEW e \in Executors, Begin(e) PROVE LedgerIsOrdered'
  <2> DEFINE v == claim[e].version
             m == Minted(v, seen[e].hash)
  <2>1. Active(e) /\ FenceHolds(e) /\ seen[e].hash \in Hashes
    BY <1>2, CycleTypes DEF Begin, Active
  <2>2. v = input_version BY <2>1 DEF ClaimsAreOwn
  <2>3. UNCHANGED <<input_version, ledger, latest>> BY <1>2 DEF Begin, tableVars
  <2>4. CASE Spent(m)
    BY <1>2, <2>3, <2>4, LedgerFrame DEF Begin, budgetVars, ledgerVars
  <2>5. CASE ~Spent(m)
    <3>1. retry_epoch' = m.epoch /\ work_attempts' = m.attempt BY <1>2, <2>5 DEF Begin
    <3>2. /\ m.epoch \in {retry_epoch, retry_epoch + 1} /\ m.attempt \in Nat
          /\ Dispatched(v) => \/ latest.epoch < m.epoch
                              \/ latest.epoch = m.epoch /\ latest.attempt < m.attempt
      BY <2>1, <2>2, MintedAbove
    <3> HIDE DEF m
    <3>3. CASE m.epoch = retry_epoch + 1 BY <2>3, <3>1, <3>3, LedgerFreshEpoch
    <3>4. CASE m.epoch = retry_epoch
      <4>1. Dispatched(v) => latest \in Call BY DEF Dispatched, TypeOK
      <4>2. Dispatched(v) /\ latest.epoch = retry_epoch' => latest.attempt <= work_attempts'
        BY <3>1, <3>2, <3>4, <4>1 DEF Call, TypeOK
      <4> QED BY <2>2, <2>3, <3>1, <3>4, <4>2 DEF LedgerIsOrdered, Dispatched, Below
    <3> QED BY <3>2, <3>3, <3>4
  <2> QED BY <2>4, <2>5
<1>3. ASSUME NEW e \in Executors, RecordCall(e) PROVE LedgerIsOrdered'
  <2> DEFINE n == NextCall(e)
  <2>1. Active(e) /\ FenceHolds(e) /\ n \in Call
    BY <1>3, CycleTypes DEF RecordCall, Active
  <2>2. claim[e].version = input_version BY <2>1 DEF ClaimsAreOwn
  <2>3. /\ n.version = input_version /\ n.epoch = coord[e].epoch /\ n.attempt = coord[e].attempt
    BY <2>2 DEF NextCall
  <2>4. /\ n.epoch <= retry_epoch
        /\ n.epoch = retry_epoch => n.attempt <= work_attempts
        /\ Dispatched(input_version) => Below(latest, n)
    BY <1>3, <2>1, <2>3 DEF CycleIsAhead, RecordCall
  <2>5. /\ ledger' = ledger \cup {n} /\ latest' = n
        /\ UNCHANGED <<input_version, retry_epoch, work_attempts>>
    BY <1>3 DEF RecordCall, budgetVars
  <2> HIDE DEF n
  <2>6. n # NoCall
    <3>1. NoCall = [version |-> 0] BY DEF NoCall
    <3>2. DOMAIN n = {"version", "epoch", "attempt", "number", "hash"} BY <2>1 DEF Call
    <3>3. DOMAIN NoCall = {"version"} BY <3>1
    <3> QED BY <3>2, <3>3
  <2>7. ASSUME NEW c \in ledger, c.version = input_version PROVE ~Below(n, c)
    <3>1. Dispatched(input_version) /\ ~Below(latest, c) /\ c \in Call
      BY <2>7 DEF LedgerIsOrdered, TypeOK
    <3>2. latest \in Call BY <3>1 DEF Dispatched, TypeOK
    <3> QED BY <2>1, <2>4, <3>1, <3>2, BelowOrder
  <2>8. ~Below(n, n) BY <2>1, BelowSelf
  <2>9. \A c \in ledger' : c.version <= input_version' /\ c.epoch <= retry_epoch'
    BY <2>3, <2>4, <2>5 DEF LedgerIsOrdered, TypeOK
  <2>10. Dispatched(input_version)' BY <2>3, <2>5, <2>6 DEF Dispatched
  <2>11. \A c \in ledger' : c.version = input_version' => ~Below(latest', c)
    BY <2>5, <2>7, <2>8
  <2>12. \A c \in ledger' : c.version = input_version' => ~Below(latest, c)'
    BY <2>11 DEF Below
  <2> QED BY <2>3, <2>4, <2>5, <2>9, <2>10, <2>12 DEF LedgerIsOrdered
<1>4. ASSUME NEW e \in Executors, CommitStep(e) PROVE LedgerIsOrdered'
  <2>1. UNCHANGED <<input_version, ledger, latest>>
    BY <1>4 DEF CommitStep, CommitReuse, CommitDeferred, CommitBlocked, CommitExhausted,
                CommitAccepted, CommitFailed, CommitBudget, Commit
  <2>2. CASE CommitBudget(e)
    BY <2>1, <2>2, LedgerFreshEpoch DEF CommitBudget, Refund
  <2>3. CASE ~CommitBudget(e)
    <3>1. UNCHANGED budgetVars
      BY <1>4, <2>3 DEF CommitStep, CommitReuse, CommitDeferred, CommitBlocked,
         CommitExhausted, CommitAccepted, CommitFailed
    <3> QED BY <2>1, <3>1, LedgerFrame DEF budgetVars, ledgerVars
  <2> QED BY <2>2, <2>3
<1>5. ASSUME NEW e \in Executors, Wake(e) PROVE LedgerIsOrdered'
  BY <1>5, LedgerFreshEpoch DEF Wake, tableVars
<1>6. CASE RecoverCalls
  <2>1. UNCHANGED <<input_version, ledger, latest>> BY <1>6 DEF RecoverCalls, StaleBasis, AdvanceBasis
  <2>2. \/ retry_epoch' = retry_epoch + 1 \/ UNCHANGED <<retry_epoch, work_attempts>>
    BY <1>6 DEF RecoverCalls, StaleBasis, AdvanceBasis
  <2> QED BY <2>1, <2>2, LedgerFreshEpoch, LedgerFrame DEF ledgerVars
<1>7. ASSUME NEW e \in Executors, Claim(e) \/ Load(e) \/ Fail(e) \/ Heartbeat(e)
      PROVE LedgerIsOrdered'
  <2>1. UNCHANGED ledgerVars
    BY <1>7 DEF Claim, Load, Fail, Heartbeat, budgetVars, tableVars, ledgerVars
  <2> QED BY <2>1, LedgerFrame
<1>8. ASSUME NEW e \in Executors, NEW v \in Verdicts, CallReturns(e, v) PROVE LedgerIsOrdered'
  <2>1. UNCHANGED ledgerVars BY <1>8 DEF CallReturns, budgetVars, ledgerVars
  <2> QED BY <2>1, LedgerFrame
<1>9. CASE \/ LeaseExpires \/ TimerReached \/ ProviderRecovers \/ Boot \/ Signal \/ Exit
           \/ Crash \/ UNCHANGED vars
  <2>1. UNCHANGED ledgerVars
    BY <1>9 DEF LeaseExpires, TimerReached, ProviderRecovers, Boot, Signal, Exit, Crash, Halt,
                vars, budgetVars, tableVars, ledgerVars
  <2> QED BY <2>1, LedgerFrame
<1> QED BY <1>1, <1>2, <1>3, <1>4, <1>5, <1>6, <1>7, <1>8, <1>9 DEF Next, Cycle

\* What CycleIsAhead says of a cycle that holds the fence.
Ahead(e) ==
  /\ coord[e].epoch <= retry_epoch
  /\ coord[e].epoch = retry_epoch => coord[e].attempt <= work_attempts
  /\ pc[e] = "begun" /\ Dispatched(input_version) => Below(latest, NextCall(e))
  /\ pc[e] = "called" => latest = NextCall(e)

LEMMA AheadFrame ==
  ASSUME NEW f \in Executors, Ahead(f), UNCHANGED ledgerVars,
         pc'[f] = pc[f], coord'[f] = coord[f], claim'[f] = claim[f], seen'[f] = seen[f]
  PROVE  Ahead(f)'
<1>1. NextCall(f)' = NextCall(f) BY DEF NextCall
<1> QED BY <1>1 DEF Ahead, Dispatched, Below, ledgerVars

LEMMA AheadNext ==
  ASSUME TypeOK, CycleIsSet, ClaimsAreOwn, LedgerIsOrdered, CycleIsAhead, [Next]_vars
  PROVE  CycleIsAhead'
<1> USE ControllerAssumption
<1> SUFFICES ASSUME NEW f \in Executors, pc'[f] \in {"begun", "called"}, FenceHolds(f)'
             PROVE  Ahead(f)'
  BY DEF CycleIsAhead, Ahead
<1>0. /\ Active(f) /\ FenceHolds(f) /\ claim'[f] = claim[f]
      /\ input_version' = input_version /\ claim[f].version = input_version
  <2>1. ~Claim(f) BY DEF Claim, TypeOK
  <2>2. Active(f)' BY DEF Active
  <2>3. /\ Active(f) /\ FenceHolds(f)
        /\ claim'[f] = claim[f] /\ input_version' = input_version
    BY <2>1, <2>2, FenceIsInherited
  <2> QED BY <2>3 DEF ClaimsAreOwn
<1>a. pc[f] \in {"begun", "called"} => Ahead(f) BY <1>0 DEF CycleIsAhead, Ahead
<1>1. CASE Join BY <1>0, <1>1 DEF Join, TypeOK
<1>2. ASSUME NEW e \in Executors, Begin(e) PROVE Ahead(f)'
  <2> DEFINE v == claim[e].version
             m == Minted(v, seen[e].hash)
  <2>1. e = f /\ v = input_version
    BY <1>0, <1>2, FenceIsExclusive DEF Begin, Active
  <2>2. seen[e].hash \in Hashes /\ coord[e] \in Coords BY <1>2, CycleTypes DEF Begin
  <2>3. ~Spent(m) BY <1>2, <2>1 DEF Begin, TypeOK
  <2>4. /\ retry_epoch' = m.epoch /\ work_attempts' = m.attempt /\ pc'[f] = "begun"
        /\ coord'[f] = [epoch |-> m.epoch, number |-> 1, attempt |-> m.attempt]
        /\ UNCHANGED <<input_version, latest, seen>>
    BY <1>2, <2>1, <2>3 DEF Begin, tableVars, TypeOK
  <2>5. /\ m.epoch \in Nat /\ m.attempt \in Nat
        /\ Dispatched(v) => \/ latest.epoch < m.epoch
                            \/ latest.epoch = m.epoch /\ latest.attempt < m.attempt
    BY <2>1, <2>2, MintedAbove DEF TypeOK
  <2> HIDE DEF m
  <2>6. NextCall(f)'.epoch = m.epoch /\ NextCall(f)'.attempt = m.attempt
    BY <2>4 DEF NextCall
  <2>7. Dispatched(input_version)' => Below(latest, NextCall(f))'
    BY <2>1, <2>4, <2>5, <2>6 DEF Dispatched, Below
  <2>8. coord'[f].epoch = m.epoch /\ coord'[f].attempt = m.attempt BY <2>4
  <2> QED BY <2>4, <2>5, <2>7, <2>8 DEF Ahead
<1>3. ASSUME NEW e \in Executors, RecordCall(e) PROVE Ahead(f)'
  <2>1. e = f BY <1>0, <1>3, FenceIsExclusive DEF RecordCall, Active
  <2>2. /\ pc[f] = "begun" /\ pc'[f] = "called" /\ latest' = NextCall(f)
        /\ UNCHANGED <<coord, seen, retry_epoch, work_attempts>>
    BY <1>3, <2>1 DEF RecordCall, budgetVars, TypeOK
  <2>3. NextCall(f)' = NextCall(f) BY <1>0, <2>2 DEF NextCall
  <2> QED BY <1>a, <2>2, <2>3 DEF Ahead
<1>4. ASSUME NEW e \in Executors, NEW w \in Verdicts, CallReturns(e, w) PROVE Ahead(f)'
  <2>0. UNCHANGED ledgerVars /\ seen' = seen
    BY <1>4 DEF CallReturns, budgetVars, ledgerVars
  <2>1. CASE e = f
    <3>1. /\ pc[f] = "called" /\ pc'[f] = "begun" /\ coord[f].number = 1
          /\ coord'[f] = [epoch |-> coord[f].epoch, number |-> 2, attempt |-> coord[f].attempt]
      BY <1>4, <2>1 DEF CallReturns, TypeOK
    <3>2. latest = NextCall(f) /\ Ahead(f) BY <1>a, <3>1 DEF Ahead
    <3>3. /\ latest.epoch = coord[f].epoch /\ latest.attempt = coord[f].attempt
          /\ latest.number = 1
      BY <3>1, <3>2 DEF NextCall
    <3>4. /\ NextCall(f)'.epoch = coord[f].epoch /\ NextCall(f)'.attempt = coord[f].attempt
          /\ NextCall(f)'.number = 2
      BY <3>1 DEF NextCall
    <3>5. Below(latest, NextCall(f))' BY <2>0, <3>3, <3>4 DEF Below, ledgerVars
    <3>6. coord'[f].epoch = coord[f].epoch /\ coord'[f].attempt = coord[f].attempt BY <3>1
    <3> QED BY <2>0, <3>1, <3>2, <3>5, <3>6 DEF Ahead, ledgerVars
  <2>2. CASE e # f
    <3>1. pc'[f] = pc[f] /\ coord'[f] = coord[f] BY <1>4, <2>2 DEF CallReturns, TypeOK
    <3> QED BY <1>0, <1>a, <2>0, <3>1, AheadFrame
  <2> QED BY <2>1, <2>2
<1>5. ASSUME NEW e \in Executors, CommitStep(e) PROVE FALSE
  BY <1>5 DEF CommitStep, CommitReuse, CommitDeferred, CommitBlocked, CommitExhausted,
              CommitAccepted, CommitFailed, CommitBudget, Commit, FenceHolds
<1>6. ASSUME NEW e \in Executors, Claim(e) \/ Load(e) \/ Fail(e) PROVE Ahead(f)'
  <2>1. e # f BY <1>6 DEF Claim, Load, Fail, EndCycle, TypeOK
  <2>2. pc'[f] = pc[f] /\ coord'[f] = coord[f] /\ seen'[f] = seen[f]
    BY <1>6, <2>1 DEF Claim, Load, Fail, EndCycle, TypeOK
  <2>3. UNCHANGED ledgerVars BY <1>6 DEF Claim, Load, Fail, budgetVars, tableVars, ledgerVars
  <2> QED BY <1>0, <1>a, <2>2, <2>3, AheadFrame
<1>7. ASSUME NEW e \in Executors, Heartbeat(e) PROVE Ahead(f)'
  <2>1. UNCHANGED <<ledgerVars, execVars>>
    BY <1>7 DEF Heartbeat, budgetVars, tableVars, ledgerVars
  <2> QED BY <1>a, <2>1, AheadFrame DEF execVars
<1>8. ASSUME NEW e \in Executors, Wake(e) PROVE Ahead(f)'
  <2>1. /\ retry_epoch' = retry_epoch + 1
        /\ UNCHANGED <<input_version, ledger, latest, pc, coord, seen>>
    BY <1>8 DEF Wake, tableVars, execVars
  <2>2. Ahead(f) /\ coord[f] \in Coords BY <1>a, <2>1, CycleTypes
  <2>3. NextCall(f)' = NextCall(f) BY <1>0, <2>1 DEF NextCall
  <2>4. coord[f].epoch <= retry_epoch' /\ coord[f].epoch # retry_epoch'
    BY <2>1, <2>2 DEF Ahead, Coords, TypeOK
  <2> QED BY <2>1, <2>2, <2>3, <2>4 DEF Ahead, Dispatched, Below
<1>9. CASE Boot \/ RecoverCalls
  BY <1>0, <1>9 DEF Boot, RecoverCalls, StaleBasis, AdvanceBasis, CycleIsSet, Executors, Active
<1>10. CASE LeaseExpires \/ TimerReached \/ ProviderRecovers \/ UNCHANGED vars
  <2>1. UNCHANGED <<ledgerVars, execVars>>
    BY <1>10 DEF LeaseExpires, TimerReached, ProviderRecovers, vars, budgetVars, tableVars,
                 ledgerVars
  <2> QED BY <1>a, <2>1, AheadFrame DEF execVars
<1>11. CASE Signal
  <2>1. pc'[f] = pc[f] BY <1>11 DEF Signal, TypeOK
  <2>2. UNCHANGED <<ledgerVars, coord, seen>>
    BY <1>11 DEF Signal, budgetVars, tableVars, ledgerVars
  <2> QED BY <1>0, <1>a, <2>1, <2>2, AheadFrame
<1>12. CASE Exit \/ Crash BY <1>12 DEF Exit, Crash, Halt
<1> QED
  BY <1>1, <1>2, <1>3, <1>4, <1>5, <1>6, <1>7, <1>8, <1>9, <1>10, <1>11, <1>12
  DEF Next, Cycle

\* The ledger's order is what keeps a coordinate fresh.
LEMMA AheadIsFresh ==
  ASSUME TypeOK, CycleIsSet, ClaimsAreOwn, LedgerIsOrdered, CycleIsAhead
  PROVE  CoordinatesAreFresh
<1> SUFFICES ASSUME NEW e \in Executors, pc[e] = "begun", FenceHolds(e),
                    NEW k \in ledger,
                    LET n == NextCall(e)
                    IN /\ k.version = n.version /\ k.epoch = n.epoch
                       /\ k.attempt = n.attempt /\ k.number = n.number
             PROVE  FALSE
  BY DEF CoordinatesAreFresh, Collides
<1> DEFINE n == NextCall(e)
<1>1. n \in Call /\ k \in Call BY CycleTypes DEF TypeOK
<1>2. n.version = input_version BY DEF NextCall, ClaimsAreOwn, Active
<1>3. Dispatched(input_version) /\ ~Below(latest, k) BY <1>2 DEF LedgerIsOrdered
<1>4. Below(latest, n) BY <1>3 DEF CycleIsAhead
<1>5. latest \in Call BY <1>3 DEF Dispatched, TypeOK
<1> QED BY <1>1, <1>3, <1>4, <1>5, BelowOrder

-----------------------------------------------------------------------------
(* Paid calls.                                                             *)

LEMMA PaidNext ==
  ASSUME TypeOK, CycleIsSet, ClaimsAreOwn, PaidIsProtected, [Next]_vars
  PROVE  PaidIsProtected'
<1> USE ControllerAssumption
<1> SUFFICES ASSUME NEW f \in Executors, Paid(f)', FenceHolds(f)'
             PROVE  protected' = "yes"
  BY DEF PaidIsProtected
<1>0. pc'[f] \in {"begun", "called", "concluded"} BY DEF Paid
<1>1. Active(f) /\ FenceHolds(f) /\ claim'[f] = claim[f]
  <2>1. ~Claim(f) BY <1>0 DEF Claim, TypeOK
  <2>2. Active(f)' BY <1>0 DEF Active
  <2> QED BY <2>1, <2>2, FenceIsInherited
<1>a. Paid(f) => protected = "yes" BY <1>1 DEF PaidIsProtected
<1>2. ASSUME NEW e \in Executors, RecordCall(e) PROVE protected' = "yes"
  BY <1>2 DEF RecordCall, Protect
<1>3. ASSUME NEW e \in Executors, Begin(e) PROVE FALSE
  <2>1. e = f BY <1>1, <1>3, FenceIsExclusive DEF Begin, Active
  <2>2. pc'[f] = "begun" => coord'[f].number = 1 BY <1>3, <2>1 DEF Begin, TypeOK
  <2>3. pc'[f] \in {"begun", "exhausted"} BY <1>3, <2>1 DEF Begin, TypeOK
  <2> QED BY <1>0, <2>2, <2>3 DEF Paid
<1>4. ASSUME NEW e \in Executors, NEW v \in Verdicts, CallReturns(e, v) PROVE protected' = "yes"
  <2>1. protected' = protected BY <1>4 DEF CallReturns, leaseVars
  <2>2. CASE e = f BY <1>4, <1>a, <2>1, <2>2 DEF CallReturns, Paid
  <2>3. CASE e # f
    <3>1. pc'[f] = pc[f] /\ coord'[f] = coord[f] BY <1>4, <2>3 DEF CallReturns, TypeOK
    <3> QED BY <1>a, <2>1, <3>1 DEF Paid
  <2> QED BY <2>2, <2>3
<1>5. ASSUME NEW e \in Executors, CommitStep(e) PROVE FALSE
  BY <1>5 DEF CommitStep, CommitReuse, CommitDeferred, CommitBlocked, CommitExhausted,
              CommitAccepted, CommitFailed, CommitBudget, Commit, FenceHolds
<1>6. ASSUME NEW e \in Executors, Claim(e) PROVE FALSE
  <2>1. claim_token' = claim_token + 1 BY <1>6 DEF Claim
  <2>2. claim_token' = claim_token BY <1>1 DEF FenceHolds
  <2> QED BY <2>1, <2>2 DEF TypeOK
<1>7. ASSUME NEW e \in Executors, Load(e) \/ Fail(e) PROVE protected' = "yes"
  <2>1. e # f BY <1>0, <1>7 DEF Load, Fail, EndCycle, TypeOK
  <2>2. pc'[f] = pc[f] /\ coord'[f] = coord[f]
    BY <1>7, <2>1 DEF Load, Fail, EndCycle, TypeOK
  <2>3. protected' = protected BY <1>7 DEF Load, Fail, leaseVars, FenceHolds
  <2> QED BY <1>a, <2>2, <2>3 DEF Paid
<1>8. ASSUME NEW e \in Executors, Heartbeat(e) \/ Wake(e) PROVE protected' = "yes"
  BY <1>8, <1>a DEF Heartbeat, Wake, leaseVars, execVars, Paid
<1>9. CASE Boot \/ RecoverCalls
  BY <1>1, <1>9 DEF Boot, RecoverCalls, StaleBasis, AdvanceBasis, CycleIsSet, Executors, Active
<1>10. CASE LeaseExpires \/ TimerReached \/ ProviderRecovers \/ UNCHANGED vars
  BY <1>10, <1>a DEF LeaseExpires, TimerReached, ProviderRecovers, vars, leaseVars, execVars, Paid
<1>11. CASE Signal
  <2>1. pc'[f] = pc[f] /\ coord' = coord /\ protected' = protected
    BY <1>0, <1>11 DEF Signal, leaseVars, TypeOK
  <2> QED BY <1>a, <2>1 DEF Paid
<1>12. CASE Exit \/ Crash BY <1>0, <1>12 DEF Exit, Crash, Halt
<1>13. CASE Join BY <1>13 DEF Join, FenceHolds
<1> QED
  BY <1>2, <1>3, <1>4, <1>5, <1>6, <1>7, <1>8, <1>9, <1>10, <1>11, <1>12, <1>13
  DEF Next, Cycle

\* Only Join advances the version, and Join refuses a live protected lease.
LEMMA PaidStep ==
  ASSUME TypeOK, PaidIsProtected, [Next]_vars
  PROVE  PaidCallKept
<1>1. CASE Join BY <1>1 DEF Join, PaidIsProtected, PaidCallKept
<1>2. CASE ~Join
  <2>1. ASSUME NEW e \in Executors,
               \/ Claim(e) \/ Load(e) \/ Begin(e) \/ RecordCall(e) \/ Fail(e)
               \/ Heartbeat(e) \/ Wake(e)
        PROVE  input_version' = input_version
    BY <2>1 DEF Claim, Load, Begin, RecordCall, Fail, Heartbeat, Wake
  <2>2. ASSUME NEW e \in Executors, CommitStep(e) PROVE input_version' = input_version
    BY <2>2 DEF CommitStep, CommitReuse, CommitDeferred, CommitBlocked, CommitExhausted,
                CommitAccepted, CommitFailed, CommitBudget, Commit
  <2>3. ASSUME NEW e \in Executors, NEW v \in Verdicts, CallReturns(e, v)
        PROVE  input_version' = input_version
    BY <2>3 DEF CallReturns
  <2>4. CASE \/ LeaseExpires \/ TimerReached \/ ProviderRecovers \/ Boot \/ RecoverCalls
             \/ Signal \/ Exit \/ Crash \/ UNCHANGED vars
    BY <2>4 DEF LeaseExpires, TimerReached, ProviderRecovers, Boot, RecoverCalls, StaleBasis, AdvanceBasis, Signal, Exit,
                Crash, Halt, vars, PaidCallKept
  <2> QED BY <1>2, <2>1, <2>2, <2>3, <2>4 DEF Next, Cycle, PaidCallKept
<1> QED BY <1>1, <1>2

-----------------------------------------------------------------------------
(* Rejections.                                                             *)

\* What RejectionIsSeen says of a cycle that holds the fence.
Sees(e) ==
  /\ pc[e] = "loaded" => /\ seen[e].basis = hash
                         /\ park = "rejected" => seen[e].park = "rejected"
  /\ pc[e] \in {"begun", "called"} /\ park = "rejected" => seen[e].hash # hash

LEMMA RejectionNext ==
  ASSUME TypeOK, CycleIsSet, ClaimsAreOwn, RejectionIsSeen, [Next]_vars
  PROVE  RejectionIsSeen'
<1> USE ControllerAssumption
<1> SUFFICES ASSUME NEW f \in Executors, FenceHolds(f)',
                    pc'[f] \in {"loaded", "begun", "called"}
             PROVE  Sees(f)'
  BY DEF RejectionIsSeen, Sees
<1>1. Active(f) /\ FenceHolds(f)
  <2>1. ~Claim(f) BY DEF Claim, TypeOK
  <2>2. Active(f)' BY DEF Active
  <2> QED BY <2>1, <2>2, FenceIsInherited
<1>a. Sees(f) BY <1>1 DEF RejectionIsSeen, Sees
<1>b. ASSUME UNCHANGED <<hash, park>>, pc'[f] = pc[f], seen'[f] = seen[f] PROVE Sees(f)'
  BY <1>a, <1>b DEF Sees
<1>2. ASSUME NEW e \in Executors, Load(e) PROVE Sees(f)'
  <2>0. UNCHANGED <<hash, park>> BY <1>2 DEF Load
  <2>1. CASE e = f
    <3>1. PICK h \in Hashes :
            seen' = [seen EXCEPT ![e] = [hash |-> h, park |-> park, basis |-> hash,
                                         retry |-> retry]]
      BY <1>2 DEF Load
    <3>2. pc'[f] = "loaded" BY <1>2, <2>1 DEF Load, TypeOK
    <3>3. seen'[f].basis = hash /\ seen'[f].park = park BY <2>1, <3>1 DEF TypeOK
    <3> QED BY <2>0, <3>2, <3>3 DEF Sees
  <2>2. CASE e # f
    <3>1. pc'[f] = pc[f] /\ seen'[f] = seen[f] BY <1>2, <2>2 DEF Load, TypeOK
    <3> QED BY <1>b, <2>0, <3>1
  <2> QED BY <2>1, <2>2
<1>3. ASSUME NEW e \in Executors, Begin(e) PROVE Sees(f)'
  <2> DEFINE v == claim[e].version
             m == Minted(v, seen[e].hash)
  <2>1. e = f BY <1>1, <1>3, FenceIsExclusive DEF Begin, Active
  <2>2. pc[f] = "loaded" /\ pc'[f] = "begun" /\ seen' = seen BY <1>3, <2>1 DEF Begin, TypeOK
  <2>3. ~Spent(m) BY <1>3, <2>1, <2>2 DEF Begin, TypeOK
  <2>4. hash' = Basis(v) /\ park' = IF Stranded(v) THEN "null" ELSE park
    BY <1>3, <2>3 DEF Begin
  <2>5. ASSUME park' = "rejected" PROVE seen[f].hash # hash'
    <3>1. ~Stranded(v) /\ park = "rejected" BY <2>4, <2>5
    <3>2. hash' = hash BY <2>4, <3>1 DEF Basis
    <3>3. seen[f].park = "rejected" /\ seen[f].basis = hash BY <1>a, <2>2, <3>1 DEF Sees
    <3>4. ~ParkBlocks(f) BY <1>3, <2>1 DEF Begin
    <3> QED BY <3>2, <3>3, <3>4 DEF ParkBlocks
  <2> QED BY <2>2, <2>5 DEF Sees
<1>4. ASSUME NEW e \in Executors, RecordCall(e) PROVE Sees(f)'
  <2>1. e = f BY <1>1, <1>4, FenceIsExclusive DEF RecordCall, Active
  <2>2. pc[f] = "begun" /\ pc'[f] = "called" /\ UNCHANGED <<seen, hash, park>>
    BY <1>4, <2>1 DEF RecordCall, TypeOK
  <2> QED BY <1>a, <2>2 DEF Sees
<1>5. ASSUME NEW e \in Executors, NEW w \in Verdicts, CallReturns(e, w) PROVE Sees(f)'
  <2>0. UNCHANGED <<hash, park, seen>> BY <1>5 DEF CallReturns
  <2>1. CASE e = f
    <3>1. pc[f] = "called" /\ pc'[f] \in {"begun", "concluded"}
      BY <1>5, <2>1 DEF CallReturns, TypeOK
    <3> QED BY <1>a, <2>0, <3>1 DEF Sees
  <2>2. CASE e # f
    <3>1. pc'[f] = pc[f] BY <1>5, <2>2 DEF CallReturns, TypeOK
    <3> QED BY <1>b, <2>0, <3>1
  <2> QED BY <2>1, <2>2
<1>6. ASSUME NEW e \in Executors, CommitStep(e) PROVE FALSE
  BY <1>6 DEF CommitStep, CommitReuse, CommitDeferred, CommitBlocked, CommitExhausted,
              CommitAccepted, CommitFailed, CommitBudget, Commit, FenceHolds
<1>7. ASSUME NEW e \in Executors, Claim(e) \/ Fail(e) PROVE Sees(f)'
  <2>1. e # f BY <1>7 DEF Claim, Fail, EndCycle, TypeOK
  <2>2. pc'[f] = pc[f] /\ seen'[f] = seen[f] BY <1>7, <2>1 DEF Claim, Fail, EndCycle, TypeOK
  <2>3. UNCHANGED <<hash, park>> BY <1>7 DEF Claim, Fail
  <2> QED BY <1>b, <2>2, <2>3
<1>8. ASSUME NEW e \in Executors, Heartbeat(e) PROVE Sees(f)'
  BY <1>8, <1>b DEF Heartbeat, execVars
<1>9. ASSUME NEW e \in Executors, Wake(e) PROVE Sees(f)'
  <2>1. park' = "null" /\ UNCHANGED <<hash, pc, seen>> BY <1>9 DEF Wake, execVars
  <2> QED BY <1>a, <2>1 DEF Sees
<1>10. CASE Boot \/ RecoverCalls
  BY <1>1, <1>10 DEF Boot, RecoverCalls, StaleBasis, AdvanceBasis, CycleIsSet, Executors, Active
<1>11. CASE Join \/ LeaseExpires \/ TimerReached \/ ProviderRecovers \/ UNCHANGED vars
  BY <1>11, <1>b DEF Join, LeaseExpires, TimerReached, ProviderRecovers, vars, execVars
<1>12. CASE Signal
  <2>1. pc'[f] = pc[f] /\ UNCHANGED <<hash, park, seen>> BY <1>12 DEF Signal, TypeOK
  <2> QED BY <1>b, <2>1
<1>13. CASE Exit \/ Crash BY <1>13 DEF Exit, Crash, Halt
<1> QED
  BY <1>2, <1>3, <1>4, <1>5, <1>6, <1>7, <1>8, <1>9, <1>10, <1>11, <1>12, <1>13
  DEF Next, Cycle

\* Only RecordCall extends the ledger and only Wake consumes an outage.
LEMMA RejectionStep ==
  ASSUME TypeOK, RejectionIsSeen, [Next]_vars
  PROVE  RejectionKept
<1>1. ASSUME NEW e \in Executors, RecordCall(e) PROVE RejectionKept
  <2>1. /\ pc[e] = "begun" /\ FenceHolds(e) /\ consumed' = consumed
        /\ ledger' = ledger \cup {NextCall(e)}
    BY <1>1 DEF RecordCall
  <2>2. park = "rejected" => NextCall(e).hash # hash BY <2>1 DEF RejectionIsSeen, NextCall
  <2> QED BY <2>1, <2>2 DEF RejectionKept
<1>2. ASSUME NEW e \in Executors, Wake(e) PROVE RejectionKept
  BY <1>2 DEF Wake, Wakeable, RejectionKept
<1>3. ASSUME NEW e \in Executors,
             Claim(e) \/ Load(e) \/ Begin(e) \/ Fail(e) \/ Heartbeat(e)
      PROVE  RejectionKept
  BY <1>3 DEF Claim, Load, Begin, Fail, Heartbeat, tableVars, RejectionKept
<1>4. ASSUME NEW e \in Executors, CommitStep(e) PROVE RejectionKept
  BY <1>4 DEF CommitStep, CommitReuse, CommitDeferred, CommitBlocked, CommitExhausted,
              CommitAccepted, CommitFailed, CommitBudget, Commit, RejectionKept
<1>5. ASSUME NEW e \in Executors, NEW v \in Verdicts, CallReturns(e, v) PROVE RejectionKept
  BY <1>5 DEF CallReturns, RejectionKept
<1>6. CASE \/ Join \/ LeaseExpires \/ TimerReached \/ ProviderRecovers \/ Boot
           \/ RecoverCalls \/ Signal \/ Exit \/ Crash \/ UNCHANGED vars
  BY <1>6 DEF Join, LeaseExpires, TimerReached, ProviderRecovers, Boot, RecoverCalls, StaleBasis, AdvanceBasis, Signal,
              Exit, Crash, Halt, vars, tableVars, RejectionKept
<1> QED BY <1>1, <1>2, <1>3, <1>4, <1>5, <1>6 DEF Next, Cycle

-----------------------------------------------------------------------------
(* Outcomes.                                                               *)

\* A cycle that waits for its call waited for the same one before, unless the
\* step is its dispatch.
LEMMA AwaitsIsInherited ==
  ASSUME TypeOK, CycleIsSet, [Next]_vars, NEW f \in Executors, Awaits(f)', ~RecordCall(f)
  PROVE  Awaits(f) /\ NextCall(f)' = NextCall(f)
<1>0. pc'[f] \in {"called", "concluded"} BY DEF Awaits
<1>1. claim'[f] = claim[f]
  <2>1. Active(f)' /\ ~Claim(f) BY <1>0 DEF Active, Claim, TypeOK
  <2> QED BY <2>1, CycleIsInherited
<1>a. ASSUME pc'[f] = pc[f], seen'[f] = seen[f], coord'[f] = coord[f],
             verdict'[f] = verdict[f]
      PROVE  Awaits(f) /\ NextCall(f)' = NextCall(f)
  BY <1>1, <1>a DEF Awaits, NextCall
<1>2. ASSUME NEW e \in Executors, Claim(e) \/ Load(e) \/ Begin(e) \/ RecordCall(e)
      PROVE  Awaits(f) /\ NextCall(f)' = NextCall(f)
  <2>1. e # f BY <1>0, <1>2 DEF Claim, Load, Begin, TypeOK
  <2>2. pc'[f] = pc[f] /\ seen'[f] = seen[f] /\ coord'[f] = coord[f] /\ verdict'[f] = verdict[f]
    BY <1>2, <2>1 DEF Claim, Load, Begin, RecordCall, TypeOK
  <2> QED BY <1>a, <2>2
<1>3. ASSUME NEW e \in Executors, CommitStep(e) \/ Fail(e)
      PROVE  Awaits(f) /\ NextCall(f)' = NextCall(f)
  <2>1. EndCycle(e)
    BY <1>3 DEF CommitStep, CommitReuse, CommitDeferred, CommitBlocked, CommitExhausted,
                CommitAccepted, CommitFailed, CommitBudget, Commit, Fail
  <2>2. e # f BY <1>0, <2>1 DEF EndCycle, TypeOK
  <2>3. pc'[f] = pc[f] /\ seen'[f] = seen[f] /\ coord'[f] = coord[f] /\ verdict'[f] = verdict[f]
    BY <2>1, <2>2 DEF EndCycle, TypeOK
  <2> QED BY <1>a, <2>3
<1>4. ASSUME NEW e \in Executors, NEW v \in Verdicts, CallReturns(e, v)
      PROVE  Awaits(f) /\ NextCall(f)' = NextCall(f)
  <2>1. CASE e = f
    <3>1. pc[f] = "called" /\ pc'[f] = "concluded" /\ UNCHANGED <<coord, seen>>
      BY <1>0, <1>4, <2>1 DEF CallReturns, TypeOK
    <3> QED BY <1>1, <3>1 DEF Awaits, NextCall
  <2>2. CASE e # f
    <3>1. pc'[f] = pc[f] /\ seen'[f] = seen[f] /\ coord'[f] = coord[f]
          /\ verdict'[f] = verdict[f]
      BY <1>4, <2>2 DEF CallReturns, TypeOK
    <3> QED BY <1>a, <3>1
  <2> QED BY <2>1, <2>2
<1>5. ASSUME NEW e \in Executors, Heartbeat(e) \/ Wake(e)
      PROVE  Awaits(f) /\ NextCall(f)' = NextCall(f)
  BY <1>5, <1>a DEF Heartbeat, Wake, execVars
<1>6. CASE \/ Join \/ LeaseExpires \/ TimerReached \/ ProviderRecovers \/ Boot
           \/ UNCHANGED vars
  BY <1>6, <1>a DEF Join, LeaseExpires, TimerReached, ProviderRecovers, Boot, vars, execVars
<1>7. CASE Signal \/ RecoverCalls
  <2>1. pc'[f] = pc[f] /\ UNCHANGED <<seen, coord, verdict>>
    BY <1>0, <1>7 DEF Signal, RecoverCalls, StaleBasis, AdvanceBasis, TypeOK
  <2> QED BY <1>a, <2>1
<1>8. CASE Exit \/ Crash BY <1>0, <1>8 DEF Exit, Crash, Halt
<1> QED BY <1>2, <1>3, <1>4, <1>5, <1>6, <1>7, <1>8 DEF Next, Cycle

\* Outside recovery an outcome belongs to a call whose cycle stops waiting.
LEMMA OutcomeStep ==
  ASSUME TypeOK, CycleIsSet, [Next]_vars, ~RecoverCalls
  PROVE  \/ outcomes' = outcomes
         \/ \E e \in Executors : \E s \in Outcome :
              /\ Awaits(e) /\ ~Awaits(e)' /\ ledger' = ledger
              /\ s.call = NextCall(e) /\ outcomes' = outcomes \cup {s}
<1> DEFINE Concludes(e, s) == /\ Awaits(e) /\ ~Awaits(e)' /\ ledger' = ledger
                              /\ s.call = NextCall(e) /\ outcomes' = outcomes \cup {s}
<1>1. ASSUME NEW e \in Executors, NEW v \in Verdicts, CallReturns(e, v), v # "accepted"
      PROVE  Concludes(e, [call |-> NextCall(e), status |-> v])
  <2>1. pc[e] = "called" /\ ledger' = ledger
        /\ outcomes' = outcomes \cup {[call |-> NextCall(e), status |-> v]}
    BY <1>1 DEF CallReturns
  <2>2. pc'[e] = "begun" \/ (pc'[e] = "concluded" /\ verdict'[e] = v)
    BY <1>1 DEF CallReturns, TypeOK
  <2> QED BY <1>1, <2>1, <2>2 DEF Awaits
<1>2. ASSUME NEW e \in Executors, NEW v \in Verdicts, CallReturns(e, v), v = "accepted"
      PROVE  outcomes' = outcomes
  BY <1>2 DEF CallReturns
<1>3. ASSUME NEW e \in Executors, CommitAccepted(e)
      PROVE  Concludes(e, [call |-> NextCall(e), status |-> "accepted"])
  <2>1. /\ pc[e] = "concluded" /\ verdict[e] = "accepted" /\ ledger' = ledger /\ EndCycle(e)
        /\ outcomes' = outcomes \cup {[call |-> NextCall(e), status |-> "accepted"]}
    BY <1>3 DEF CommitAccepted, Commit
  <2>2. pc'[e] = "idle" BY <2>1 DEF EndCycle, TypeOK
  <2> QED BY <2>1, <2>2 DEF Awaits
<1>4. ASSUME NEW e \in Executors, Fail(e), outcomes' # outcomes
      PROVE  Concludes(e, [call |-> NextCall(e), status |-> "stale"])
  <2>1. /\ verdict[e] = "accepted" /\ ledger' = ledger /\ EndCycle(e)
        /\ outcomes' = outcomes \cup {[call |-> NextCall(e), status |-> "stale"]}
    BY <1>4 DEF Fail
  <2>2. pc[e] = "concluded" BY <2>1 DEF CycleIsSet
  <2>3. pc'[e] = "idle" BY <2>1 DEF EndCycle, TypeOK
  <2> QED BY <2>1, <2>2, <2>3 DEF Awaits
<1>5. ASSUME NEW e \in Executors, CommitStep(e), ~CommitAccepted(e) PROVE outcomes' = outcomes
  BY <1>5 DEF CommitStep, CommitReuse, CommitDeferred, CommitBlocked, CommitExhausted,
              CommitFailed, CommitBudget
<1>6. ASSUME NEW e \in Executors,
             Claim(e) \/ Load(e) \/ Begin(e) \/ RecordCall(e) \/ Heartbeat(e) \/ Wake(e)
      PROVE  outcomes' = outcomes
  BY <1>6 DEF Claim, Load, Begin, RecordCall, Heartbeat, Wake, tableVars
<1>7. ASSUME \/ Join \/ LeaseExpires \/ TimerReached \/ ProviderRecovers \/ Boot
             \/ Signal \/ Exit \/ Crash \/ UNCHANGED vars
      PROVE  outcomes' = outcomes
  BY <1>7 DEF Join, LeaseExpires, TimerReached, ProviderRecovers, Boot, Signal, Exit, Crash,
              Halt, vars, tableVars
<1>8. ASSUME NEW e \in Executors, Awaits(e),
             NEW t \in {"accepted", "stale"} \cup Verdicts
      PROVE  [call |-> NextCall(e), status |-> t] \in Outcome
  <2>1. NextCall(e) \in Call BY <1>8, CycleTypes DEF Awaits
  <2> QED BY <2>1 DEF Outcome, Verdicts
<1>9. ASSUME NEW e \in Executors, NEW t \in {"accepted", "stale"} \cup Verdicts,
             Concludes(e, [call |-> NextCall(e), status |-> t])
      PROVE  \E s \in Outcome : Concludes(e, s)
  BY <1>8, <1>9
<1> HIDE DEF Concludes
<1> DEFINE Goal == \/ outcomes' = outcomes
                  \/ \E e \in Executors : \E s \in Outcome : Concludes(e, s)
<1>10. ASSUME NEW e \in Executors, NEW v \in Verdicts, CallReturns(e, v) PROVE Goal
  BY <1>1, <1>2, <1>9, <1>10
<1>11. ASSUME NEW e \in Executors, CommitStep(e) PROVE Goal
  BY <1>3, <1>5, <1>9, <1>11
<1>12. ASSUME NEW e \in Executors, Fail(e) PROVE Goal
  BY <1>4, <1>9, <1>12
<1>13. ASSUME outcomes' # outcomes, NEW e \in Executors, Cycle(e) \/ Heartbeat(e) \/ Wake(e)
       PROVE  Goal
  BY <1>6, <1>10, <1>11, <1>12, <1>13 DEF Cycle
<1>14. CASE outcomes' # outcomes
  <2>1. \E e \in Executors : Cycle(e) \/ Heartbeat(e) \/ Wake(e)
    BY <1>7, <1>14 DEF Next
  <2> QED BY <1>13, <1>14, <2>1 DEF Concludes
<1> QED BY <1>14

LEMMA LedgerStep ==
  ASSUME [Next]_vars, \A e \in Executors : ~RecordCall(e)
  PROVE  ledger' = ledger
<1>1. ASSUME NEW e \in Executors,
             Claim(e) \/ Load(e) \/ Begin(e) \/ Fail(e) \/ Heartbeat(e) \/ Wake(e)
      PROVE  ledger' = ledger
  BY <1>1 DEF Claim, Load, Begin, Fail, Heartbeat, Wake, tableVars
<1>2. ASSUME NEW e \in Executors, CommitStep(e) PROVE ledger' = ledger
  BY <1>2 DEF CommitStep, CommitReuse, CommitDeferred, CommitBlocked, CommitExhausted,
              CommitAccepted, CommitFailed, CommitBudget, Commit
<1>3. ASSUME NEW e \in Executors, NEW v \in Verdicts, CallReturns(e, v) PROVE ledger' = ledger
  BY <1>3 DEF CallReturns
<1>4. CASE \/ Join \/ LeaseExpires \/ TimerReached \/ ProviderRecovers \/ Boot
           \/ RecoverCalls \/ Signal \/ Exit \/ Crash \/ UNCHANGED vars
  BY <1>4 DEF Join, LeaseExpires, TimerReached, ProviderRecovers, Boot, RecoverCalls, StaleBasis, AdvanceBasis, Signal,
              Exit, Crash, Halt, vars, tableVars
<1> QED BY <1>1, <1>2, <1>3, <1>4 DEF Next, Cycle

LEMMA OutcomesNext ==
  ASSUME TypeOK, CycleIsSet, AwaitedIsOpen, OneOutcomePerCall, [Next]_vars
  PROVE  AwaitedIsOpen' /\ OneOutcomePerCall'
<1>1. CASE RecoverCalls
  <2> DEFINE Cut == {[call |-> c, status |-> "interrupted"] : c \in Orphans}
  <2>1. ledger' = ledger /\ (outcomes' = outcomes \/ outcomes' = outcomes \cup Cut)
    BY <1>1 DEF RecoverCalls, StaleBasis, AdvanceBasis
  <2>2. \A e \in Executors : ~Awaits(e)'
    <3>1. \A e \in Executors : pc[e] = "off"
      BY <1>1 DEF RecoverCalls, StaleBasis, AdvanceBasis, CycleIsSet, Executors
    <3>2. \A e \in Executors : pc'[e] \in {"off", "idle"}
      BY <1>1, <3>1 DEF RecoverCalls, StaleBasis, AdvanceBasis, TypeOK
    <3> QED BY <3>2 DEF Awaits
  <2>3. \A o \in Cut : /\ o.status = "interrupted" /\ o.call \in ledger
                       /\ \A p \in outcomes : p.call # o.call
    BY DEF Orphans
  <2> HIDE DEF Cut
  <2>4. \A o \in outcomes' : o.call \in ledger' BY <2>1, <2>3 DEF AwaitedIsOpen
  <2>5. OneOutcomePerCall' BY <2>1, <2>3 DEF OneOutcomePerCall
  <2> QED BY <2>2, <2>4, <2>5 DEF AwaitedIsOpen
<1>2. ASSUME NEW e \in Executors, RecordCall(e) PROVE AwaitedIsOpen' /\ OneOutcomePerCall'
  <2> DEFINE n == NextCall(e)
  <2>1. outcomes' = outcomes /\ ledger' = ledger \cup {n} BY <1>2 DEF RecordCall
  <2>2. n \notin ledger BY <1>2 DEF RecordCall, Collides
  <2>3. NextCall(e)' = n BY <1>2 DEF RecordCall, NextCall
  <2>4. ASSUME NEW f \in Executors, f # e, Awaits(f)'
        PROVE  Awaits(f) /\ NextCall(f)' = NextCall(f)
    <3>1. pc'[f] = pc[f] /\ UNCHANGED <<claim, seen, coord, verdict>>
      BY <1>2, <2>4 DEF RecordCall, TypeOK
    <3> QED BY <2>4, <3>1 DEF Awaits, NextCall
  <2> HIDE DEF n
  <2>5. \A o \in outcomes : o.call \in ledger /\ o.call # n BY <2>2 DEF AwaitedIsOpen
  <2>6. ASSUME NEW f \in Executors, Awaits(f)'
        PROVE  NextCall(f)' \in ledger' /\ \A o \in outcomes' : o.call # NextCall(f)'
    <3>1. CASE f = e BY <2>1, <2>3, <2>5, <3>1
    <3>2. CASE f # e
      <4>1. Awaits(f) /\ NextCall(f)' = NextCall(f) BY <2>4, <2>6, <3>2
      <4> QED BY <2>1, <4>1 DEF AwaitedIsOpen
    <3> QED BY <3>1, <3>2
  <2>7. ASSUME NEW f \in Executors, NEW g \in Executors, f # g, Awaits(f)', Awaits(g)'
        PROVE  NextCall(f)' # NextCall(g)'
    <3>1. ASSUME NEW k \in Executors, k # e, Awaits(k)' PROVE NextCall(k)' # n
      <4>1. Awaits(k) /\ NextCall(k)' = NextCall(k) BY <2>4, <3>1
      <4> QED BY <2>2, <4>1 DEF AwaitedIsOpen
    <3>2. CASE f = e \/ g = e BY <2>3, <2>7, <3>1, <3>2
    <3>3. CASE f # e /\ g # e
      <4>1. /\ Awaits(f) /\ NextCall(f)' = NextCall(f)
            /\ Awaits(g) /\ NextCall(g)' = NextCall(g)
        BY <2>4, <2>7, <3>3
      <4> QED BY <2>7, <4>1 DEF AwaitedIsOpen
    <3> QED BY <3>2, <3>3
  <2>8. OneOutcomePerCall' BY <2>1 DEF OneOutcomePerCall
  <2>9. \A o \in outcomes' : o.call \in ledger' BY <2>1, <2>5
  <2> QED BY <2>6, <2>7, <2>8, <2>9 DEF AwaitedIsOpen
<1>3. CASE ~RecoverCalls /\ \A e \in Executors : ~RecordCall(e)
  <2>1. ASSUME NEW f \in Executors, Awaits(f)'
        PROVE  /\ Awaits(f) /\ NextCall(f)' = NextCall(f) /\ NextCall(f) \in ledger
               /\ \A o \in outcomes : o.call # NextCall(f)
    <3>1. Awaits(f) /\ NextCall(f)' = NextCall(f) BY <1>3, <2>1, AwaitsIsInherited
    <3> QED BY <3>1 DEF AwaitedIsOpen
  <2>2. ASSUME NEW f \in Executors, NEW g \in Executors, f # g, Awaits(f)', Awaits(g)'
        PROVE  NextCall(f)' # NextCall(g)'
    <3>1. /\ Awaits(f) /\ NextCall(f)' = NextCall(f)
          /\ Awaits(g) /\ NextCall(g)' = NextCall(g)
      BY <2>1, <2>2
    <3> QED BY <2>2, <3>1 DEF AwaitedIsOpen
  <2>3. ledger' = ledger BY <1>3, LedgerStep
  <2>4. CASE outcomes' = outcomes
    <3>1. \A o \in outcomes' : o.call \in ledger' BY <2>3, <2>4 DEF AwaitedIsOpen
    <3>2. OneOutcomePerCall' BY <2>4 DEF OneOutcomePerCall
    <3> QED BY <2>1, <2>2, <2>3, <2>4, <3>1, <3>2 DEF AwaitedIsOpen
  <2>5. ASSUME NEW e \in Executors, NEW s \in Outcome, Awaits(e), ~Awaits(e)',
               s.call = NextCall(e), outcomes' = outcomes \cup {s}
        PROVE  AwaitedIsOpen' /\ OneOutcomePerCall'
    <3>1. s.call \in ledger /\ \A o \in outcomes : o.call # s.call
      BY <2>5 DEF AwaitedIsOpen
    <3>2. \A o \in outcomes' : o.call \in ledger' BY <2>3, <2>5, <3>1 DEF AwaitedIsOpen
    <3>3. OneOutcomePerCall' BY <2>5, <3>1 DEF OneOutcomePerCall
    <3>4. ASSUME NEW f \in Executors, Awaits(f)'
          PROVE  NextCall(f)' \in ledger' /\ \A o \in outcomes' : o.call # NextCall(f)'
      <4>1. /\ Awaits(f) /\ NextCall(f)' = NextCall(f) /\ NextCall(f) \in ledger
            /\ \A o \in outcomes : o.call # NextCall(f)
        BY <2>1, <3>4
      <4>2. f # e BY <2>5, <3>4
      <4>3. NextCall(f) # NextCall(e) BY <2>5, <4>1, <4>2 DEF AwaitedIsOpen
      <4> QED BY <2>3, <2>5, <4>1, <4>3
    <3> QED BY <2>2, <3>2, <3>3, <3>4 DEF AwaitedIsOpen
  <2> QED BY <1>3, <2>4, <2>5, OutcomeStep
<1> QED BY <1>1, <1>2, <1>3

-----------------------------------------------------------------------------
(* The theorems.                                                           *)

LEMMA InvariantInit == Init => ControllerInvariant
<1> SUFFICES ASSUME Init PROVE ControllerInvariant
  OBVIOUS
<1>1. TypeOK /\ CycleIsSet BY TypeInit
<1>2. \A e \in Executors : pc[e] = "off" BY DEF Init
<1>3. ClaimsAreOwn /\ CycleIsAhead /\ PaidIsProtected /\ RejectionIsSeen
  BY <1>2 DEF ClaimsAreOwn, CycleIsAhead, PaidIsProtected, RejectionIsSeen, Active, Paid
<1>4. LedgerIsOrdered /\ GuardIsArmed BY DEF Init, LedgerIsOrdered, Dispatched, GuardIsArmed
<1>5. AwaitedIsOpen BY <1>2 DEF Init, AwaitedIsOpen, Awaits
<1> QED BY <1>1, <1>3, <1>4, <1>5 DEF ControllerInvariant

\* The inductive invariant of the controller, together with the two bounds it
\* is stated beside, holds in every reachable state.
THEOREM Invariance == Spec => [](ControllerInvariant /\ StormIsBounded /\ OneOutcomePerCall)
<1>1. Init => ControllerInvariant /\ StormIsBounded /\ OneOutcomePerCall
  <2>1. Init => StormIsBounded /\ OneOutcomePerCall
    BY ControllerAssumption DEF Init, StormIsBounded, OneOutcomePerCall
  <2> QED BY <2>1, InvariantInit
<1>2. ControllerInvariant /\ StormIsBounded /\ OneOutcomePerCall /\ [Next]_vars
        => (ControllerInvariant /\ StormIsBounded /\ OneOutcomePerCall)'
  <2> SUFFICES ASSUME ControllerInvariant, StormIsBounded, OneOutcomePerCall, [Next]_vars
               PROVE  ControllerInvariant' /\ StormIsBounded' /\ OneOutcomePerCall'
    OBVIOUS
  <2>0. /\ TypeOK /\ CycleIsSet /\ ClaimsAreOwn /\ LedgerIsOrdered /\ CycleIsAhead
        /\ GuardIsArmed /\ PaidIsProtected /\ AwaitedIsOpen /\ RejectionIsSeen
    BY DEF ControllerInvariant
  <2>1. TypeOK' /\ CycleIsSet' BY <2>0, TypeNext
  <2>2. ClaimsAreOwn' BY <2>0, ClaimsNext
  <2>3. LedgerIsOrdered' /\ CycleIsAhead' BY <2>0, LedgerNext, AheadNext
  <2>4. GuardIsArmed' /\ StormIsBounded' BY <2>0, GuardNext
  <2>5. PaidIsProtected' /\ RejectionIsSeen' BY <2>0, PaidNext, RejectionNext
  <2>6. AwaitedIsOpen' /\ OneOutcomePerCall' BY <2>0, OutcomesNext
  <2> QED BY <2>1, <2>2, <2>3, <2>4, <2>5, <2>6 DEF ControllerInvariant
<1> QED BY <1>1, <1>2, PTL DEF Spec

\* A live cycle never carries a coordinate that the ledger's UNIQUE index
\* holds: BeginControllerAttempt mints above every call of its input, through
\* every repair, refund, wake and recovery.
THEOREM FreshCoordinates == Spec => []CoordinatesAreFresh
<1>1. ControllerInvariant => CoordinatesAreFresh BY AheadIsFresh DEF ControllerInvariant
<1> QED BY <1>1, Invariance, PTL

\* AppendAssessmentAttempt, the commit, the stale append and the recovery at
\* startup conclude a call once between them.
THEOREM SingleOutcome == Spec => []OneOutcomePerCall
BY Invariance, PTL

\* joinSituationTx never takes a live claim from a cycle that has dispatched.
THEOREM PaidCallsSurviveInputs == Spec => PaidCallsAreKept
<1>1. ControllerInvariant /\ [Next]_vars => [PaidCallKept]_vars
  BY PaidStep DEF ControllerInvariant
<1> QED BY <1>1, Invariance, PTL DEF Spec, PaidCallsAreKept

\* controllerParkBlocksDispatch and WakeDependencyRecoveredSituations keep a
\* rejected basis unpaid.
THEOREM RejectionsStand == Spec => RejectionIsFinal
<1>1. ControllerInvariant /\ [Next]_vars => [RejectionKept]_vars
  BY RejectionStep DEF ControllerInvariant
<1> QED BY <1>1, Invariance, PTL DEF Spec, RejectionIsFinal
=============================================================================
