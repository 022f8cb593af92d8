------------------------ MODULE AlertDispatchProofs ------------------------
(***************************************************************************)
(* Safety of the delivery outbox for every number of deliveries, batch     *)
(* size, attempt limit and number of faults.                               *)
(***************************************************************************)
EXTENDS AlertDispatch, TLAPS

LEMMA TypeInit == Init => TypeOK
BY DispatchAssumption DEF Init, TypeOK, Absent, Row, Statuses, Phases, Executors

\* The row a claim leaves behind is a row, and so is the claim it hands out.
LEMMA LeasedType ==
  ASSUME NEW r \in Row, epoch \in Nat
  PROVE  /\ Leased(r) \in Row
         /\ Leased(r).token = r.token + 1
         /\ Leased(r).attempts = r.attempts + 1
         /\ Leased(r).status = "claimed"
         /\ Leased(r).owner = epoch
BY DEF Leased, Row, Statuses

LEMMA UnleasedType ==
  ASSUME NEW r \in Row, NEW status \in Statuses, NEW timer \in {"none", "waiting", "reached"}
  PROVE  /\ Unleased(r, status, timer) \in Row
         /\ Unleased(r, status, timer).token = r.token
         /\ Unleased(r, status, timer).attempts = r.attempts
         /\ Unleased(r, status, timer).status = status
BY DEF Unleased, Row

LEMMA RecoveredType ==
  ASSUME NEW r \in Row
  PROVE  /\ Recovered(r) \in Row
         /\ Recovered(r).token = r.token
         /\ Recovered(r).attempts = r.attempts
         /\ Recovered(r).status # r.status =>
              r.status = "claimed" /\ r.timer = "reached" /\ Recovered(r).status = "pending"
BY UnleasedType DEF Recovered, Row, Statuses

\* An executor's batch only shrinks when a claim is settled.
LEMMA SettleType ==
  ASSUME TypeOK, NEW e \in Executors, NEW c, Settle(e, c)
  PROVE  /\ claims' \in [Executors -> SUBSET Claim]
         /\ pc' \in [Executors -> {"off", "idle", "round", "writeback"}]
BY DEF TypeOK, Settle, Executors

LEMMA StopRoundType ==
  ASSUME TypeOK, NEW e \in Executors, StopRound(e)
  PROVE  /\ claims' \in [Executors -> SUBSET Claim]
         /\ pc' \in [Executors -> {"off", "idle", "round", "writeback"}]
BY DEF TypeOK, StopRound, Executors

LEMMA HaltType ==
  ASSUME TypeOK, Halt
  PROVE  /\ phase' \in Phases /\ epoch' \in Nat
         /\ disp' \in [Deliveries -> Row] /\ correlated' \in [Deliveries -> Nat]
         /\ permanent' \in SUBSET Deliveries
         /\ claims' \in [Executors -> SUBSET Claim]
         /\ pc' \in [Executors -> {"off", "idle", "round", "writeback"}]
         /\ cur' \in [Executors -> Verdict \cup {NoVerdict}]
         /\ cancelled' \in SUBSET Executors
BY DEF TypeOK, Halt, Executors, Phases, rowVars

\* Every step keeps the types, given that a write-back has its claim.
LEMMA TypeNext ==
  ASSUME TypeOK, WritebackHoldsClaim, [Next]_vars
  PROVE  TypeOK'
<1> USE DispatchAssumption
<1>1. ASSUME NEW S \in SUBSET Deliveries, Accept(S) PROVE TypeOK'
  BY <1>1 DEF TypeOK, Accept, Absent, Row, Statuses, procVars, execVars
<1>2. ASSUME NEW e \in Executors, ClaimAlertDispatches(e) PROVE TypeOK'
  <2>1. PICK S \in SUBSET Due :
          /\ disp' = [d \in Deliveries |->
                        IF d \in S THEN Leased(disp[d]) ELSE disp[d]]
          /\ claims' = [claims EXCEPT ![e] =
                          {[id |-> d, owner |-> Leased(disp[d]).owner,
                            token |-> Leased(disp[d]).token,
                            attempts |-> Leased(disp[d]).attempts] : d \in S}]
    BY <1>2 DEF ClaimAlertDispatches
  <2>2. \A d \in Deliveries : disp[d] \in Row /\ Leased(disp[d]) \in Row
    BY LeasedType DEF TypeOK
  <2>3. disp' \in [Deliveries -> Row]
    BY <2>1, <2>2
  <2>4. {[id |-> d, owner |-> Leased(disp[d]).owner,
          token |-> Leased(disp[d]).token,
          attempts |-> Leased(disp[d]).attempts] : d \in S} \in SUBSET Claim
    BY <2>2 DEF Claim, Row, Due
  <2>5. claims' \in [Executors -> SUBSET Claim]
    BY <2>1, <2>4 DEF TypeOK
  <2> QED
    BY <1>2, <2>3, <2>5 DEF TypeOK, ClaimAlertDispatches, procVars, Executors
<1>3. ASSUME NEW e \in Executors, NEW c \in claims[e], ApplyCommit(e, c) PROVE TypeOK'
  <2>1. c \in Claim /\ c.id \in Deliveries BY DEF TypeOK, Claim
  <2>2. disp' \in [Deliveries -> Row]
    BY <1>3, <2>1, UnleasedType DEF TypeOK, ApplyCommit, Statuses
  <2>3. correlated' \in [Deliveries -> Nat]
    BY <1>3, <2>1 DEF TypeOK, ApplyCommit
  <2>4. Settle(e, c) BY <1>3 DEF ApplyCommit
  <2> QED
    BY <1>3, <2>2, <2>3, <2>4, SettleType DEF TypeOK, ApplyCommit, procVars
<1>4. ASSUME NEW e \in Executors, NEW c \in claims[e], ApplyLeaseLost(e, c) PROVE TypeOK'
  <2>1. StopRound(e) BY <1>4 DEF ApplyLeaseLost
  <2> QED BY <1>4, <2>1, StopRoundType DEF TypeOK, ApplyLeaseLost, Phases, rowVars
<1>5. ASSUME NEW e \in Executors, NEW c \in claims[e], ApplyCancelled(e, c) PROVE TypeOK'
  <2>1. StopRound(e) BY <1>5 DEF ApplyCancelled
  <2> QED BY <1>5, <2>1, StopRoundType DEF TypeOK, ApplyCancelled, procVars, rowVars
<1>6. ASSUME NEW e \in Executors, NEW c \in claims[e], NEW class \in ErrorClasses,
             ApplyFails(e, c, class)
      PROVE TypeOK'
  <2>1. c \in Claim /\ c.id \in Deliveries BY DEF TypeOK, Claim
  <2>2. [claim |-> c, status |-> IF class = "invalid_delivery" \/ c.attempts >= MaxAttempts
                                  THEN "failed" ELSE "pending"] \in Verdict
    BY <2>1 DEF Verdict
  <2> QED
    BY <1>6, <2>1, <2>2 DEF TypeOK, ApplyFails, procVars, Executors
<1>7. ASSUME NEW e \in Executors, RetryAlertDispatch(e) PROVE TypeOK'
  <2>1. cur[e] \in Verdict /\ cur[e].claim \in Claim /\ cur[e].claim.id \in Deliveries
    BY <1>7 DEF WritebackHoldsClaim, RetryAlertDispatch, Verdict, Claim
  <2>2. disp' \in [Deliveries -> Row]
    BY <1>7, <2>1, UnleasedType DEF TypeOK, RetryAlertDispatch, Verdict, Statuses
  <2>3. Settle(e, cur[e].claim) BY <1>7 DEF RetryAlertDispatch
  <2>4. cur' \in [Executors -> Verdict \cup {NoVerdict}]
    BY <1>7 DEF TypeOK, RetryAlertDispatch
  <2> QED
    BY <1>7, <2>2, <2>3, <2>4, SettleType DEF TypeOK, RetryAlertDispatch, procVars
<1>8. ASSUME NEW e \in Executors, RetryWriteFails(e) PROVE TypeOK'
  <2>1. Settle(e, cur[e].claim) BY <1>8 DEF RetryWriteFails
  <2>2. cur' \in [Executors -> Verdict \cup {NoVerdict}]
    BY <1>8 DEF TypeOK, RetryWriteFails
  <2> QED BY <1>8, <2>1, <2>2, SettleType DEF TypeOK, RetryWriteFails, rowVars
<1>9. ASSUME NEW d \in Deliveries, TimerReached(d) PROVE TypeOK'
  BY <1>9 DEF TypeOK, TimerReached, Row, procVars, execVars
<1>10. CASE Boot
  <2>1. disp' \in [Deliveries -> Row]
    BY <1>10, RecoveredType DEF TypeOK, Boot
  <2> QED BY <1>10, <2>1 DEF TypeOK, Boot, Phases, Executors
<1>11. CASE DrainDone \/ LoopExits \/ DrainCancelled
  BY <1>11 DEF TypeOK, DrainDone, LoopExits, DrainCancelled, procVars, rowVars, Executors
<1>12. CASE StartWorkers \/ Signal \/ StopReceivers \/ ShutdownTimeout
  <2>1. CASE StartWorkers
    BY <2>1 DEF TypeOK, StartWorkers, rowVars, Phases, Executors
  <2>2. CASE Signal
    BY <2>2 DEF TypeOK, Signal, rowVars, Phases, Executors
  <2>3. CASE StopReceivers
    BY <2>3 DEF TypeOK, StopReceivers, rowVars, Phases, Executors
  <2>4. CASE ShutdownTimeout
    BY <2>4 DEF TypeOK, ShutdownTimeout, procVars, rowVars, Executors
  <2> QED BY <1>12, <2>1, <2>2, <2>3, <2>4
<1>13. CASE Exit \/ Crash
  BY <1>13, HaltType DEF TypeOK, Exit, Crash
<1>14. CASE UNCHANGED vars
  BY <1>14 DEF TypeOK, vars
<1> QED
  BY <1>1, <1>2, <1>3, <1>4, <1>5, <1>6, <1>7, <1>8, <1>9, <1>10, <1>11, <1>12,
     <1>13, <1>14 DEF Next, ApplyStep

-----------------------------------------------------------------------------
(* What an executor holds.                                                 *)

\* Settling or dropping claims of one executor adds none to anybody.
LEMMA SettleShrinks ==
  ASSUME TypeOK, NEW e \in Executors, NEW c, Settle(e, c) \/ StopRound(e)
  PROVE  /\ \A f \in Executors : claims'[f] \subseteq claims[f]
         /\ \A f \in Executors \ {e} : claims'[f] = claims[f] /\ pc'[f] = pc[f]
         /\ pc'[e] # "writeback"
BY DEF TypeOK, Settle, StopRound

LEMMA WritebackNext ==
  ASSUME TypeOK, WritebackHoldsClaim, [Next]_vars
  PROVE  WritebackHoldsClaim'
<1> SUFFICES ASSUME NEW e \in Executors, pc'[e] = "writeback"
             PROVE  cur'[e] \in Verdict /\ cur'[e].claim \in claims'[e]
  BY DEF WritebackHoldsClaim
<1>1. ASSUME NEW S \in SUBSET Deliveries, Accept(S)
      PROVE  cur'[e] \in Verdict /\ cur'[e].claim \in claims'[e]
  BY <1>1 DEF Accept, execVars, WritebackHoldsClaim
<1>2. ASSUME NEW f \in Executors, ClaimAlertDispatches(f)
      PROVE  cur'[e] \in Verdict /\ cur'[e].claim \in claims'[e]
  BY <1>2 DEF ClaimAlertDispatches, WritebackHoldsClaim, TypeOK
<1>3. ASSUME NEW f \in Executors, NEW c \in claims[f],
             ApplyCommit(f, c) \/ ApplyLeaseLost(f, c) \/ ApplyCancelled(f, c)
      PROVE  cur'[e] \in Verdict /\ cur'[e].claim \in claims'[e]
  <2>1. Settle(f, c) \/ StopRound(f)
    BY <1>3 DEF ApplyCommit, ApplyLeaseLost, ApplyCancelled
  <2>2. e # f /\ cur' = cur
    BY <1>3, <2>1, SettleShrinks DEF ApplyCommit, ApplyLeaseLost, ApplyCancelled
  <2> QED BY <2>1, <2>2, SettleShrinks DEF WritebackHoldsClaim
<1>4. ASSUME NEW f \in Executors, NEW c \in claims[f], NEW class \in ErrorClasses,
             ApplyFails(f, c, class)
      PROVE  cur'[e] \in Verdict /\ cur'[e].claim \in claims'[e]
  <2>1. CASE e = f
    BY <1>4, <2>1 DEF ApplyFails, TypeOK, Verdict
  <2>2. CASE e # f
    BY <1>4, <2>2 DEF ApplyFails, TypeOK, WritebackHoldsClaim
  <2> QED BY <2>1, <2>2
<1>5. ASSUME NEW f \in Executors, RetryAlertDispatch(f) \/ RetryWriteFails(f)
      PROVE  cur'[e] \in Verdict /\ cur'[e].claim \in claims'[e]
  <2>1. Settle(f, cur[f].claim)
    BY <1>5 DEF RetryAlertDispatch, RetryWriteFails
  <2>2. e # f /\ cur'[e] = cur[e]
    BY <1>5, <2>1, SettleShrinks DEF RetryAlertDispatch, RetryWriteFails, TypeOK
  <2> QED BY <2>1, <2>2, SettleShrinks DEF WritebackHoldsClaim
<1>6. ASSUME NEW d \in Deliveries, TimerReached(d)
      PROVE  cur'[e] \in Verdict /\ cur'[e].claim \in claims'[e]
  BY <1>6 DEF TimerReached, execVars, WritebackHoldsClaim
<1>7. CASE Boot \/ DrainDone \/ StartWorkers \/ LoopExits \/ StopReceivers \/ DrainCancelled
  BY <1>7 DEF Boot, DrainDone, StartWorkers, LoopExits, StopReceivers, DrainCancelled,
              TypeOK, WritebackHoldsClaim
<1>8. CASE Signal \/ ShutdownTimeout \/ UNCHANGED vars
  BY <1>8 DEF Signal, ShutdownTimeout, vars, WritebackHoldsClaim
<1>9. CASE Exit \/ Crash
  BY <1>9 DEF Exit, Crash, Halt
<1> QED
  BY <1>1, <1>2, <1>3, <1>4, <1>5, <1>6, <1>7, <1>8, <1>9 DEF Next, ApplyStep

\* The types of AlertDispatch hold in every reachable state.
THEOREM TypeCorrect == Spec => []TypeOK
<1>1. Init => TypeOK /\ WritebackHoldsClaim
  BY TypeInit DEF Init, WritebackHoldsClaim
<1>2. TypeOK /\ WritebackHoldsClaim /\ [Next]_vars => (TypeOK /\ WritebackHoldsClaim)'
  BY TypeNext, WritebackNext
<1> QED BY <1>1, <1>2, PTL DEF Spec

-----------------------------------------------------------------------------
(* Safety.  Every step either rewrites rows one by one, moving each along   *)
(* one of the edges below, or leaves them alone.                            *)

\* The edges a dispatch row may take in one step.
RowEdge(d) ==
  \/ disp'[d] = disp[d]
  \/ disp[d].status = "absent" /\ disp'[d].status = "pending"
     /\ disp'[d].token = disp[d].token /\ disp'[d].attempts = disp[d].attempts
  \/ disp[d].status \in {"pending", "claimed"} /\ disp[d].timer = "reached"
     /\ disp'[d].status = "claimed"
     /\ disp'[d].token = disp[d].token + 1 /\ disp'[d].attempts = disp[d].attempts + 1
  \/ disp[d].status = "claimed" /\ disp'[d].status = "pending"
     /\ disp'[d].token = disp[d].token /\ disp'[d].attempts = disp[d].attempts
  \/ disp'[d].status = disp[d].status
     /\ disp'[d].token = disp[d].token /\ disp'[d].attempts = disp[d].attempts

LEMMA InvInit == Init => DispatchInvariant
BY DEF Init, DispatchInvariant, WritebackHoldsClaim, CorrelatedExactlyOnce,
       TokensAreFences, ClaimsMirrorRows, DeadLetterIsEarned, Absent, Verdict, NoVerdict

\* A step that hands out no claim, reaches no new verdict and neither applies
\* nor fails a row keeps the invariant.
LEMMA QuietStep ==
  ASSUME TypeOK, TypeOK', DispatchInvariant, WritebackHoldsClaim',
         \A d \in Deliveries : RowEdge(d),
         \A d \in Deliveries : disp'[d].token = disp[d].token,
         correlated' = correlated, permanent' = permanent,
         \A e \in Executors : claims'[e] \subseteq claims[e],
         \A e \in Executors : cur'[e] \in {cur[e], NoVerdict}
  PROVE  DispatchInvariant'
<1>0. \A d \in Deliveries : disp[d] \in Row /\ disp'[d] \in Row BY DEF TypeOK
<1>a. \A d \in Deliveries : disp[d].token \in Nat /\ disp[d].token + 1 # disp[d].token
  BY <1>0 DEF Row
<1>b. \A d \in Deliveries : disp'[d].attempts = disp[d].attempts
  BY <1>a DEF RowEdge
<1>c. \A e \in Executors : \A c \in claims[e] : c.id \in Deliveries
  BY DEF TypeOK, Claim
<1>1. CorrelatedExactlyOnce'
  <2> SUFFICES ASSUME NEW d \in Deliveries
               PROVE  disp'[d].status = "applied" <=> disp[d].status = "applied"
    BY DEF DispatchInvariant, CorrelatedExactlyOnce
  <2> QED BY <1>a DEF RowEdge
<1>2. TokensAreFences'
  BY <1>c DEF DispatchInvariant, TokensAreFences
<1>3. ClaimsMirrorRows'
  BY <1>b, <1>c DEF DispatchInvariant, ClaimsMirrorRows, Verdict, NoVerdict
<1>4. DeadLetterIsEarned'
  <2> SUFFICES ASSUME NEW d \in Deliveries, disp'[d].status = "failed"
               PROVE  disp[d].status = "failed"
    BY <1>b DEF DispatchInvariant, DeadLetterIsEarned
  <2> QED BY <1>a DEF RowEdge
<1> QED BY <1>1, <1>2, <1>3, <1>4 DEF DispatchInvariant

\* A claim takes due rows under fresh tokens.
LEMMA InvClaim ==
  ASSUME TypeOK, TypeOK', DispatchInvariant, WritebackHoldsClaim',
         NEW e \in Executors, ClaimAlertDispatches(e)
  PROVE  DispatchInvariant'
<1>1. PICK S \in SUBSET Due :
        /\ disp' = [d \in Deliveries |->
                      IF d \in S THEN Leased(disp[d]) ELSE disp[d]]
        /\ claims' = [claims EXCEPT ![e] =
                        {[id |-> d, owner |-> Leased(disp[d]).owner,
                          token |-> Leased(disp[d]).token,
                          attempts |-> Leased(disp[d]).attempts] : d \in S}]
  BY DEF ClaimAlertDispatches
<1>2. \A d \in Deliveries : disp[d].token \in Nat /\ disp[d].attempts \in Nat
  BY DEF TypeOK, Row
<1>3. \A d \in S : /\ d \in Deliveries
                   /\ disp[d].status \in {"pending", "claimed"}
                   /\ disp'[d].status = "claimed"
                   /\ disp'[d].token = disp[d].token + 1
                   /\ disp'[d].attempts = disp[d].attempts + 1
  BY <1>1, LeasedType DEF Due, TypeOK
<1>4. \A d \in Deliveries \ S : disp'[d] = disp[d]
  BY <1>1
<1>5. \A c \in claims'[e] : /\ c.id \in S
                            /\ c.token = disp[c.id].token + 1
                            /\ c.attempts = disp[c.id].attempts + 1
  BY <1>1, LeasedType DEF TypeOK, Due
<1>6. \A f \in Executors \ {e} : claims'[f] = claims[f]
  BY <1>1 DEF TypeOK
<1>7. \A f \in Executors : \A c \in claims[f] : c \in Claim /\ c.id \in Deliveries /\ c.token \in Nat
  BY DEF TypeOK, Claim
<1>8. correlated' = correlated /\ permanent' = permanent /\ cur' = cur
  BY DEF ClaimAlertDispatches
<1>9. CorrelatedExactlyOnce'
  BY <1>3, <1>4, <1>8 DEF DispatchInvariant, CorrelatedExactlyOnce
<1>10. \A d \in Deliveries : disp[d].token <= disp'[d].token /\ disp'[d].token \in Nat
  BY <1>2, <1>3, <1>4
<1>11. TokensAreFences'
  <2> SUFFICES ASSUME NEW f \in Executors, NEW c \in claims'[f]
               PROVE  /\ c.token <= disp'[c.id].token
                      /\ \A g \in Executors \ {f} : \A k \in claims'[g] :
                           c.id = k.id => c.token # k.token
    BY DEF TokensAreFences
  <2>1. CASE f = e
    <3>1. c.token = disp'[c.id].token /\ c.token = disp[c.id].token + 1
      BY <1>3, <1>5, <2>1
    <3>2. ASSUME NEW g \in Executors \ {e}, NEW k \in claims'[g], c.id = k.id
          PROVE  c.token # k.token
      <4>1. k \in claims[g] BY <1>6
      <4>2. k.token <= disp[c.id].token BY <3>2, <4>1 DEF DispatchInvariant, TokensAreFences
      <4>3. k.token \in Nat /\ disp[c.id].token \in Nat BY <1>2, <1>7, <3>2, <4>1
      <4> QED BY <3>1, <4>2, <4>3
    <3>3. disp'[c.id].token \in Nat BY <1>3, <1>5, <1>10, <2>1
    <3> QED BY <2>1, <3>1, <3>2, <3>3
  <2>2. CASE f # e
    <3>1. c \in claims[f] /\ c.id \in Deliveries /\ c.token \in Nat BY <1>6, <1>7, <2>2
    <3>2. c.token <= disp[c.id].token BY <3>1 DEF DispatchInvariant, TokensAreFences
    <3>3. c.token <= disp'[c.id].token BY <1>2, <1>10, <3>1, <3>2
    <3>4. ASSUME NEW g \in Executors \ {f}, NEW k \in claims'[g], c.id = k.id
          PROVE  c.token # k.token
      <4>1. CASE g = e
        <5>1. k.token = disp[c.id].token + 1 BY <1>5, <3>4, <4>1
        <5> QED BY <1>2, <3>1, <3>2, <5>1
      <4>2. CASE g # e
        BY <1>6, <3>1, <3>4, <4>2 DEF DispatchInvariant, TokensAreFences
      <4> QED BY <4>1, <4>2
    <3> QED BY <3>3, <3>4
  <2> QED BY <2>1, <2>2
<1>12. ClaimsMirrorRows'
  <2>1. ASSUME NEW f \in Executors, NEW c \in claims'[f], c.token = disp'[c.id].token
        PROVE  c.attempts = disp'[c.id].attempts
    <3>1. CASE f = e BY <1>3, <1>5, <3>1
    <3>2. CASE f # e
      <4>1. c \in claims[f] /\ c.id \in Deliveries /\ c.token \in Nat BY <1>6, <1>7, <3>2
      <4>2. c.token <= disp[c.id].token BY <4>1 DEF DispatchInvariant, TokensAreFences
      <4>3. c.id \notin S BY <1>2, <1>3, <2>1, <4>1, <4>2
      <4>4. disp'[c.id] = disp[c.id] BY <1>4, <4>1, <4>3
      <4> QED BY <2>1, <4>1, <4>4 DEF DispatchInvariant, ClaimsMirrorRows
    <3> QED BY <3>1, <3>2
  <2> QED BY <1>8, <2>1 DEF DispatchInvariant, ClaimsMirrorRows
<1>13. DeadLetterIsEarned'
  BY <1>3, <1>4, <1>8 DEF DispatchInvariant, DeadLetterIsEarned
<1> QED BY <1>9, <1>11, <1>12, <1>13 DEF DispatchInvariant

\* A commit turns the row it fences from claimed to applied, once.
LEMMA InvCommit ==
  ASSUME TypeOK, TypeOK', DispatchInvariant, WritebackHoldsClaim',
         NEW e \in Executors, NEW c \in claims[e], ApplyCommit(e, c)
  PROVE  DispatchInvariant'
<1>1. c.id \in Deliveries BY DEF TypeOK, Claim
<1>2. /\ disp[c.id].status = "claimed"
      /\ disp'[c.id] = Unleased(disp[c.id], "applied", "none")
      /\ \A d \in Deliveries \ {c.id} : disp'[d] = disp[d]
  BY <1>1 DEF ApplyCommit, FenceHolds, TypeOK
<1>3. /\ disp'[c.id].status = "applied"
      /\ disp'[c.id].token = disp[c.id].token
      /\ disp'[c.id].attempts = disp[c.id].attempts
  BY <1>2 DEF Unleased
<1>4. /\ \A f \in Executors : claims'[f] \subseteq claims[f]
      /\ cur' = cur /\ permanent' = permanent
  BY SettleShrinks DEF ApplyCommit
<1>5. \A f \in Executors : \A k \in claims[f] : k.id \in Deliveries
  BY DEF TypeOK, Claim
<1>6. CorrelatedExactlyOnce'
  BY <1>1, <1>2, <1>3 DEF DispatchInvariant, CorrelatedExactlyOnce, ApplyCommit, TypeOK
<1>7. \A d \in Deliveries : /\ disp'[d].token = disp[d].token
                            /\ disp'[d].attempts = disp[d].attempts
  BY <1>2, <1>3
<1>8. TokensAreFences'
  BY <1>4, <1>5, <1>7 DEF DispatchInvariant, TokensAreFences
<1>9. ClaimsMirrorRows'
  BY <1>4, <1>5, <1>7 DEF DispatchInvariant, ClaimsMirrorRows
<1>10. DeadLetterIsEarned'
  BY <1>2, <1>3, <1>4 DEF DispatchInvariant, DeadLetterIsEarned
<1> QED BY <1>6, <1>8, <1>9, <1>10 DEF DispatchInvariant

\* A verdict is justified when it is reached ...
LEMMA InvFails ==
  ASSUME TypeOK, TypeOK', DispatchInvariant, WritebackHoldsClaim',
         NEW e \in Executors, NEW c \in claims[e], NEW class \in ErrorClasses,
         ApplyFails(e, c, class)
  PROVE  DispatchInvariant'
<1>1. disp' = disp /\ correlated' = correlated /\ claims' = claims
  BY DEF ApplyFails
<1>2. permanent \subseteq permanent' BY DEF ApplyFails
<1>3. CorrelatedExactlyOnce' /\ TokensAreFences' /\ DeadLetterIsEarned'
  BY <1>1, <1>2 DEF DispatchInvariant, CorrelatedExactlyOnce, TokensAreFences,
                    DeadLetterIsEarned
<1>4. cur'[e].status = "failed" => c.id \in permanent' \/ c.attempts >= MaxAttempts
  BY DEF ApplyFails, TypeOK
<1>5. cur'[e].claim = c /\ \A f \in Executors \ {e} : cur'[f] = cur[f]
  BY DEF ApplyFails, TypeOK
<1>6. ClaimsMirrorRows'
  BY <1>1, <1>2, <1>4, <1>5 DEF DispatchInvariant, ClaimsMirrorRows
<1> QED BY <1>3, <1>6 DEF DispatchInvariant

\* ... and it dead-letters only the row it was reached for.
LEMMA InvRetry ==
  ASSUME TypeOK, TypeOK', DispatchInvariant, WritebackHoldsClaim',
         NEW e \in Executors, RetryAlertDispatch(e)
  PROVE  DispatchInvariant'
<1> DEFINE c == cur[e].claim
<1>1. /\ cur[e] \in Verdict /\ c \in claims[e] /\ c.id \in Deliveries
      /\ cur[e].status \in {"pending", "failed"}
  BY DEF DispatchInvariant, WritebackHoldsClaim, RetryAlertDispatch, Verdict, Claim, TypeOK
<1>2. /\ \A f \in Executors : claims'[f] \subseteq claims[f]
      /\ \A f \in Executors : cur'[f] \in {cur[f], NoVerdict}
      /\ correlated' = correlated /\ permanent' = permanent
  BY SettleShrinks DEF RetryAlertDispatch, TypeOK
<1>3. CASE disp' = disp
  BY <1>2, <1>3, QuietStep DEF RowEdge
<1>4. CASE disp' # disp
  <2>1. FenceHolds(c) /\ \A d \in Deliveries \ {c.id} : disp'[d] = disp[d]
    BY <1>1, <1>4 DEF RetryAlertDispatch, TypeOK
  <2>2. disp'[c.id] = Unleased(disp[c.id], cur[e].status,
                        IF cur[e].status = "failed" THEN "none" ELSE "waiting")
    BY <1>1, <1>4 DEF RetryAlertDispatch, TypeOK
  <2>3. /\ disp'[c.id].status = cur[e].status
        /\ disp'[c.id].token = disp[c.id].token
        /\ disp'[c.id].attempts = disp[c.id].attempts
    BY <2>2 DEF Unleased
  <2>4. disp[c.id].status = "claimed" /\ disp[c.id].token = c.token
    BY <2>1 DEF FenceHolds
  <2>5. \A d \in Deliveries : /\ disp'[d].token = disp[d].token
                              /\ disp'[d].attempts = disp[d].attempts
    BY <2>1, <2>3
  <2>6. \A f \in Executors : \A k \in claims[f] : k.id \in Deliveries
    BY DEF TypeOK, Claim
  <2>7. CorrelatedExactlyOnce'
    BY <1>1, <1>2, <2>1, <2>3, <2>4 DEF DispatchInvariant, CorrelatedExactlyOnce
  <2>8. TokensAreFences'
    BY <1>2, <2>5, <2>6 DEF DispatchInvariant, TokensAreFences
  <2>9. ClaimsMirrorRows'
    BY <1>2, <2>5, <2>6 DEF DispatchInvariant, ClaimsMirrorRows, Verdict, NoVerdict
  <2>10. DeadLetterIsEarned'
    <3>1. c.attempts = disp[c.id].attempts
      BY <1>1, <2>4 DEF DispatchInvariant, ClaimsMirrorRows
    <3>2. cur[e].status = "failed" =>
            c.id \in permanent \/ disp[c.id].attempts >= MaxAttempts
      BY <1>1, <3>1 DEF DispatchInvariant, ClaimsMirrorRows
    <3> QED BY <1>2, <2>1, <2>3, <2>5, <3>2 DEF DispatchInvariant, DeadLetterIsEarned
  <2> QED BY <2>7, <2>8, <2>9, <2>10 DEF DispatchInvariant
<1> QED BY <1>3, <1>4

\* A batch of new deliveries adds pending rows and nothing else.
LEMMA InvAccept ==
  ASSUME TypeOK, TypeOK', DispatchInvariant, WritebackHoldsClaim',
         NEW S \in SUBSET Deliveries, Accept(S)
  PROVE  DispatchInvariant'
<1>1. ASSUME NEW d \in Deliveries
      PROVE  RowEdge(d) /\ disp'[d].token = disp[d].token
  <2>1. CASE d \in S /\ disp[d] = Absent
    <3>1. disp'[d] = [Absent EXCEPT !.status = "pending", !.timer = "reached"]
      BY <2>1 DEF Accept
    <3> QED BY <2>1, <3>1 DEF Absent, RowEdge
  <2>2. CASE ~(d \in S /\ disp[d] = Absent)
    BY <2>2 DEF Accept, RowEdge
  <2> QED BY <2>1, <2>2
<1> QED BY <1>1, QuietStep DEF Accept, execVars

\* An executor that gives up a claim leaves the row as it is.
LEMMA InvDrop ==
  ASSUME TypeOK, TypeOK', DispatchInvariant, WritebackHoldsClaim',
         NEW e \in Executors, NEW c,
         Settle(e, c) \/ StopRound(e),
         disp' = disp, correlated' = correlated, permanent' = permanent,
         \A f \in Executors : cur'[f] \in {cur[f], NoVerdict}
  PROVE  DispatchInvariant'
<1>1. \A f \in Executors : claims'[f] \subseteq claims[f]
  BY SettleShrinks
<1> QED BY <1>1, QuietStep DEF RowEdge

\* The clock and the recovery of expired leases move rows only along edges
\* that keep their tokens.
LEMMA InvClock ==
  ASSUME TypeOK, TypeOK', DispatchInvariant, WritebackHoldsClaim',
         Boot \/ \E d \in Deliveries : TimerReached(d)
  PROVE  DispatchInvariant'
<1>1. CASE Boot
  <2>1. ASSUME NEW d \in Deliveries
        PROVE  RowEdge(d) /\ disp'[d].token = disp[d].token
    <3>1. disp[d] \in Row /\ disp'[d] = Recovered(disp[d]) BY <1>1 DEF Boot, TypeOK
    <3> QED BY <3>1, RecoveredType DEF RowEdge
  <2> QED BY <1>1, <2>1, QuietStep DEF Boot
<1>2. ASSUME NEW d \in Deliveries, TimerReached(d) PROVE DispatchInvariant'
  <2>1. ASSUME NEW k \in Deliveries
        PROVE  RowEdge(k) /\ disp'[k].token = disp[k].token
    <3>1. CASE k = d
      <4>1. disp[d] \in Row /\ disp'[d] = [disp[d] EXCEPT !.timer = "reached"]
        BY <1>2 DEF TimerReached, TypeOK
      <4> QED BY <3>1, <4>1 DEF Row, RowEdge
    <3>2. CASE k # d
      BY <1>2, <3>2 DEF TimerReached, TypeOK, RowEdge
    <3> QED BY <3>1, <3>2
  <2> QED BY <1>2, <2>1, QuietStep DEF TimerReached, execVars
<1> QED BY <1>1, <1>2

\* Starting and stopping the process touches no row and hands out no claim.
LEMMA InvProcess ==
  ASSUME TypeOK, TypeOK', DispatchInvariant, WritebackHoldsClaim',
         \/ DrainDone \/ StartWorkers \/ Signal \/ LoopExits \/ StopReceivers
         \/ ShutdownTimeout \/ DrainCancelled \/ Exit \/ Crash \/ UNCHANGED vars
  PROVE  DispatchInvariant'
<1>1. disp' = disp /\ correlated' = correlated /\ permanent' = permanent
  BY DEF DrainDone, StartWorkers, Signal, LoopExits, StopReceivers, ShutdownTimeout,
         DrainCancelled, Exit, Crash, Halt, rowVars, vars
<1>2. \A e \in Executors : /\ claims'[e] \subseteq claims[e]
                           /\ cur'[e] \in {cur[e], NoVerdict}
  BY DEF DrainDone, StartWorkers, Signal, LoopExits, StopReceivers, ShutdownTimeout,
         DrainCancelled, Exit, Crash, Halt, vars
<1> QED BY <1>1, <1>2, QuietStep DEF RowEdge

LEMMA InvNext ==
  ASSUME TypeOK, TypeOK', DispatchInvariant, [Next]_vars
  PROVE  DispatchInvariant'
<1>0. WritebackHoldsClaim'
  BY WritebackNext DEF DispatchInvariant
<1>1. ASSUME NEW S \in SUBSET Deliveries, Accept(S) PROVE DispatchInvariant'
  BY <1>0, <1>1, InvAccept
<1>2. ASSUME NEW e \in Executors, ClaimAlertDispatches(e) PROVE DispatchInvariant'
  BY <1>0, <1>2, InvClaim
<1>3. ASSUME NEW e \in Executors, NEW c \in claims[e], ApplyCommit(e, c)
      PROVE  DispatchInvariant'
  BY <1>0, <1>3, InvCommit
<1>4. ASSUME NEW e \in Executors, NEW c \in claims[e],
             ApplyLeaseLost(e, c) \/ ApplyCancelled(e, c)
      PROVE  DispatchInvariant'
  <2>1. StopRound(e) /\ cur' = cur /\ disp' = disp /\ correlated' = correlated
        /\ permanent' = permanent
    BY <1>4 DEF ApplyLeaseLost, ApplyCancelled, rowVars
  <2> QED BY <1>0, <2>1, InvDrop
<1>5. ASSUME NEW e \in Executors, NEW c \in claims[e], NEW class \in ErrorClasses,
             ApplyFails(e, c, class)
      PROVE  DispatchInvariant'
  BY <1>0, <1>5, InvFails
<1>6. ASSUME NEW e \in Executors, RetryAlertDispatch(e) PROVE DispatchInvariant'
  BY <1>0, <1>6, InvRetry
<1>7. ASSUME NEW e \in Executors, RetryWriteFails(e) PROVE DispatchInvariant'
  <2>1. Settle(e, cur[e].claim) /\ disp' = disp /\ correlated' = correlated
        /\ permanent' = permanent
    BY <1>7 DEF RetryWriteFails, rowVars
  <2>2. \A f \in Executors : cur'[f] \in {cur[f], NoVerdict}
    BY <1>7 DEF RetryWriteFails, TypeOK
  <2> QED BY <1>0, <2>1, <2>2, InvDrop
<1>8. CASE Boot \/ \E d \in Deliveries : TimerReached(d)
  BY <1>0, <1>8, InvClock
<1>9. CASE \/ DrainDone \/ StartWorkers \/ Signal \/ LoopExits \/ StopReceivers
           \/ ShutdownTimeout \/ DrainCancelled \/ Exit \/ Crash \/ UNCHANGED vars
  BY <1>0, <1>9, InvProcess
<1> QED
  BY <1>1, <1>2, <1>3, <1>4, <1>5, <1>6, <1>7, <1>8, <1>9 DEF Next, ApplyStep

\* The inductive invariant holds in every reachable state.
THEOREM Invariance == Spec => []DispatchInvariant
<1>1. Init => TypeOK /\ DispatchInvariant
  BY TypeInit, InvInit
<1>2. TypeOK /\ DispatchInvariant /\ [Next]_vars => (TypeOK /\ DispatchInvariant)'
  <2> SUFFICES ASSUME TypeOK, DispatchInvariant, [Next]_vars
               PROVE  TypeOK' /\ DispatchInvariant'
    OBVIOUS
  <2>1. TypeOK' BY TypeNext DEF DispatchInvariant
  <2> QED BY <2>1, InvNext
<1> QED BY <1>1, <1>2, PTL DEF Spec

\* ApplyCorrelatedDelivery commits exactly once for every applied row and
\* never for another, whatever the two executors and restarts do.
THEOREM ExactlyOnce == Spec => []CorrelatedExactlyOnce
<1>1. DispatchInvariant => CorrelatedExactlyOnce BY DEF DispatchInvariant
<1> QED BY <1>1, Invariance, PTL

\* No two executors ever hold one delivery under one token.
THEOREM Fencing == Spec => []TokensAreFences
<1>1. DispatchInvariant => TokensAreFences BY DEF DispatchInvariant
<1> QED BY <1>1, Invariance, PTL

\* RetryAlertDispatch dead-letters only what failed for good or often enough.
THEOREM DeadLetters == Spec => []DeadLetterIsEarned
<1>1. DispatchInvariant => DeadLetterIsEarned BY DEF DispatchInvariant
<1> QED BY <1>1, Invariance, PTL

\* A live lease changes hands only through the executor that holds its token;
\* a holder that has been overtaken cannot disturb it.
THEOREM LeaseExclusion == Spec => LiveLeaseIsExclusive
<1> DEFINE Touched(d) == /\ disp[d].status = "claimed" /\ disp[d].timer # "reached"
                         /\ <<disp'[d].status, disp'[d].token>> # <<disp[d].status, disp[d].token>>
           ByHolder(d) == \E e \in Executors : \E c \in claims[e] \ claims'[e] :
                            c.id = d /\ c.token = disp[d].token
<1>1. ASSUME TypeOK, TypeOK', DispatchInvariant, Next PROVE LiveLeaseKept
  <2> SUFFICES ASSUME NEW d \in Deliveries, Touched(d) PROVE ByHolder(d)
    BY DEF LiveLeaseKept
  <2>0. disp[d] \in Row /\ disp'[d] # disp[d] BY <1>1 DEF TypeOK
  <2>1. ASSUME NEW S \in SUBSET Deliveries, Accept(S) PROVE ByHolder(d)
    <3>1. disp[d] # Absent BY DEF Absent
    <3> QED BY <2>0, <2>1, <3>1 DEF Accept
  <2>2. ASSUME NEW e \in Executors, ClaimAlertDispatches(e) PROVE ByHolder(d)
    <3>1. d \notin Due BY DEF Due
    <3> QED BY <2>0, <2>2, <3>1 DEF ClaimAlertDispatches
  <2>3. ASSUME NEW e \in Executors, NEW c \in claims[e], ApplyCommit(e, c) PROVE ByHolder(d)
    <3>1. c.id = d /\ c.token = disp[d].token
      BY <1>1, <2>0, <2>3 DEF ApplyCommit, FenceHolds, TypeOK
    <3>2. c \notin claims'[e] BY <1>1, <2>3 DEF ApplyCommit, Settle, TypeOK
    <3> QED BY <3>1, <3>2
  <2>4. ASSUME NEW e \in Executors, RetryAlertDispatch(e) PROVE ByHolder(d)
    <3> DEFINE c == cur[e].claim
    <3>1. c \in claims[e] BY <1>1, <2>4 DEF RetryAlertDispatch, DispatchInvariant, WritebackHoldsClaim
    <3>2. c.id = d /\ c.token = disp[d].token
      BY <1>1, <2>0, <2>4 DEF RetryAlertDispatch, FenceHolds, TypeOK
    <3>3. c \notin claims'[e] BY <1>1, <2>4 DEF RetryAlertDispatch, Settle, TypeOK
    <3> QED BY <3>1, <3>2, <3>3
  <2>5. ASSUME NEW k \in Deliveries, TimerReached(k) PROVE ByHolder(d)
    <3>1. k = d => disp'[d] = [disp[d] EXCEPT !.timer = "reached"]
      BY <1>1, <2>5 DEF TimerReached, TypeOK
    <3>2. k # d => disp'[d] = disp[d] BY <1>1, <2>5 DEF TimerReached, TypeOK
    <3> QED BY <2>0, <3>1, <3>2 DEF Row
  <2>6. CASE Boot
    <3>1. disp'[d] = Recovered(disp[d]) BY <2>6 DEF Boot
    <3> QED BY <2>0, <3>1 DEF Recovered
  <2>7. CASE disp' = disp BY <2>0, <2>7
  <2>8. ASSUME NEW e \in Executors, NEW c \in claims[e], NEW class \in ErrorClasses,
               \/ ApplyLeaseLost(e, c) \/ ApplyCancelled(e, c)
               \/ ApplyFails(e, c, class)
        PROVE  ByHolder(d)
    BY <2>7, <2>8 DEF ApplyLeaseLost, ApplyCancelled, ApplyFails, rowVars
  <2>11. ASSUME NEW e \in Executors, RetryWriteFails(e) PROVE ByHolder(d)
    BY <2>7, <2>11 DEF RetryWriteFails, rowVars
  <2>9. CASE \/ DrainDone \/ StartWorkers \/ Signal \/ LoopExits \/ StopReceivers
             \/ ShutdownTimeout \/ DrainCancelled \/ Exit \/ Crash
    BY <2>7, <2>9 DEF DrainDone, StartWorkers, Signal, LoopExits, StopReceivers,
         ShutdownTimeout, DrainCancelled, Exit, Crash, Halt, rowVars
  <2>10. ErrorClasses # {} BY DEF ErrorClasses
  <2> QED
    BY <1>1, <2>1, <2>2, <2>3, <2>4, <2>5, <2>6, <2>8, <2>9, <2>10,
       <2>11 DEF Next, ApplyStep
<1>2. TypeOK /\ TypeOK' /\ DispatchInvariant /\ [Next]_vars => [LiveLeaseKept]_vars
  BY <1>1
<1> QED BY <1>2, TypeCorrect, Invariance, PTL DEF Spec, LiveLeaseIsExclusive

-----------------------------------------------------------------------------
(* The refinement of DeliveryOutbox.                                       *)

\* Promise looks at the status only.
LEMMA PromiseOf ==
  ASSUME NEW r
  PROVE  /\ r.status = "absent" => Promise(r) = "absent"
         /\ r.status \in {"pending", "claimed"} => Promise(r) = "accepted"
         /\ r.status = "applied" => Promise(r) = "correlated"
         /\ r.status = "failed" => Promise(r) = "dead"
BY DEF Promise

\* A step that keeps what every row promises is a stutter of the outbox.
LEMMA PromisesStand ==
  ASSUME \A d \in Deliveries : Promise(disp'[d]) = Promise(disp[d])
  PROVE  UNCHANGED promises
BY DEF promises

\* The abstract state after a step that gives one row another status.
LEMMA OneRowSettles ==
  ASSUME TypeOK, NEW k \in Deliveries, NEW r \in Row,
         disp[k].status = "claimed", r.status \in {"pending", "applied", "failed"},
         disp' = [disp EXCEPT ![k] = r]
  PROVE  [Outbox!Next]_promises
<1>1. Promise(disp[k]) = "accepted" BY PromiseOf
<1>2. disp'[k] = r /\ \A d \in Deliveries \ {k} : disp'[d] = disp[d] BY DEF TypeOK
<1>3. promises' = [promises EXCEPT ![k] = Promise(r)]
  <2>1. promises' = [d \in Deliveries |-> Promise(disp'[d])] BY DEF promises
  <2>2. \A d \in Deliveries : promises'[d] = [promises EXCEPT ![k] = Promise(r)][d]
    BY <1>2, <2>1 DEF promises
  <2>3. DOMAIN promises = Deliveries BY DEF promises
  <2> QED BY <2>1, <2>2, <2>3
<1>4. CASE r.status = "pending"
  <2>1. Promise(r) = Promise(disp[k]) BY <1>1, <1>4, PromiseOf
  <2>2. \A d \in Deliveries : Promise(disp'[d]) = Promise(disp[d]) BY <1>2, <2>1
  <2> QED BY <2>2, PromisesStand
<1>5. CASE r.status \in {"applied", "failed"}
  <2>1. Promise(r) \in {"correlated", "dead"} BY <1>5, PromiseOf
  <2>2. promises[k] = "accepted" BY <1>1 DEF promises
  <2>3. Outbox!Settle(k) BY <1>3, <2>1, <2>2 DEF Outbox!Settle
  <2> QED BY <2>3 DEF Outbox!Next
<1> QED BY <1>4, <1>5

\* The outbox of the store implements DeliveryOutbox (its safety part): an accepted
\* delivery is settled once, as correlated or as dead, by one step of its own,
\* through every claim, expiry, write-back, crash and recovery.
THEOREM OutboxIsRefined == Spec => PromisesAreKept
<1>1. Init => Outbox!Init
  BY DEF Init, Outbox!Init, promises, Promise, Absent
<1>2. TypeOK /\ TypeOK' /\ DispatchInvariant /\ [Next]_vars => [Outbox!Next]_promises
  <2> SUFFICES ASSUME TypeOK, TypeOK', DispatchInvariant, [Next]_vars PROVE [Outbox!Next]_promises
    OBVIOUS
  <2>1. ASSUME NEW S \in SUBSET Deliveries, Accept(S) PROVE [Outbox!Next]_promises
    <3> DEFINE T == {d \in S : disp[d] = Absent}
    <3>1. \A d \in T : Promise(disp[d]) = "absent" BY DEF Promise, Absent
    <3>2. \A d \in Deliveries : disp'[d] = IF d \in T THEN [Absent EXCEPT !.status = "pending", !.timer = "reached"]
                                           ELSE disp[d]
      BY <2>1 DEF Accept
    <3>3. ASSUME NEW d \in Deliveries PROVE Promise(disp'[d]) = IF d \in T THEN "accepted" ELSE Promise(disp[d])
      <4>1. CASE d \in T
        <5>1. disp'[d].status = "pending" BY <3>2, <4>1 DEF Absent
        <5> QED BY <4>1, <5>1, PromiseOf
      <4>2. CASE d \notin T
        <5>1. disp'[d] = disp[d] BY <3>2, <4>2
        <5> QED BY <4>2, <5>1
      <4> QED BY <4>1, <4>2
    <3>4. Outbox!Accept(T) BY <3>1, <3>3 DEF Outbox!Accept, promises
    <3>5. T \in SUBSET Deliveries OBVIOUS
    <3> QED BY <3>4, <3>5 DEF Outbox!Next
  <2>2. ASSUME NEW e \in Executors, ClaimAlertDispatches(e) PROVE [Outbox!Next]_promises
    <3>1. \A d \in Deliveries : disp'[d] = disp[d] \/ (d \in Due /\ disp'[d] = Leased(disp[d]))
      BY <2>2 DEF ClaimAlertDispatches
    <3>2. ASSUME NEW d \in Deliveries PROVE Promise(disp'[d]) = Promise(disp[d])
      <4>1. CASE disp'[d] = disp[d] BY <4>1
      <4>2. CASE d \in Due /\ disp'[d] = Leased(disp[d])
        <5>1. disp[d].status \in {"pending", "claimed"} /\ disp'[d].status = "claimed"
          BY <4>2 DEF Due, Leased
        <5> QED BY <5>1, PromiseOf
      <4> QED BY <3>1, <4>1, <4>2
    <3> QED BY <3>2, PromisesStand
  <2>3. ASSUME NEW e \in Executors, NEW c \in claims[e], ApplyCommit(e, c) PROVE [Outbox!Next]_promises
    <3>1. c \in Claim /\ c.id \in Deliveries /\ disp[c.id] \in Row BY DEF TypeOK, Claim
    <3>2. Unleased(disp[c.id], "applied", "none") \in Row BY <3>1 DEF Unleased, Row, Statuses
    <3>3. disp' = [disp EXCEPT ![c.id] = Unleased(disp[c.id], "applied", "none")]
      BY <2>3 DEF ApplyCommit
    <3>4. disp[c.id].status = "claimed" BY <2>3 DEF ApplyCommit, FenceHolds
    <3>5. Unleased(disp[c.id], "applied", "none").status = "applied" BY DEF Unleased
    <3> QED BY <3>1, <3>2, <3>3, <3>4, <3>5, OneRowSettles
  <2>4. ASSUME NEW e \in Executors, RetryAlertDispatch(e) PROVE [Outbox!Next]_promises
    <3>1. CASE disp' = disp BY <3>1 DEF promises
    <3>2. CASE disp' # disp
      <4> DEFINE c == cur[e].claim
                 r == Unleased(disp[c.id], cur[e].status, IF cur[e].status = "failed" THEN "none" ELSE "waiting")
      <4>1. cur[e] \in Verdict BY <2>4 DEF RetryAlertDispatch, DispatchInvariant, WritebackHoldsClaim
      <4>2. c.id \in Deliveries /\ cur[e].status \in {"pending", "failed"} BY <4>1 DEF Verdict, Claim
      <4>3. disp[c.id] \in Row BY <4>2 DEF TypeOK
      <4>4. disp' = [disp EXCEPT ![c.id] = r] /\ disp[c.id].status = "claimed"
        BY <2>4, <3>2 DEF RetryAlertDispatch, FenceHolds
      <4>5. r \in Row /\ r.status = cur[e].status BY <4>2, <4>3 DEF Unleased, Row, Statuses
      <4> HIDE DEF c, r
      <4> QED BY <4>2, <4>4, <4>5, OneRowSettles
    <3> QED BY <3>1, <3>2
  <2>5. ASSUME NEW k \in Deliveries, TimerReached(k) PROVE [Outbox!Next]_promises
    <3>1. \A d \in Deliveries : disp[d] \in Row /\ disp'[d] \in Row /\ disp'[d].status = disp[d].status
      BY <2>5 DEF TimerReached, TypeOK, Row
    <3>2. \A d \in Deliveries : Promise(disp'[d]) = Promise(disp[d]) BY <3>1 DEF Promise
    <3> QED BY <3>2, PromisesStand
  <2>6. CASE Boot
    <3>1. \A d \in Deliveries : disp'[d] = Recovered(disp[d]) BY <2>6 DEF Boot
    <3>2. ASSUME NEW d \in Deliveries PROVE Promise(disp'[d]) = Promise(disp[d])
      <4>1. CASE disp'[d] = disp[d] BY <4>1
      <4>2. CASE disp'[d] # disp[d]
        <5>1. disp[d].status = "claimed" /\ disp'[d] = Unleased(disp[d], "pending", "reached")
          BY <3>1, <4>2 DEF Recovered
        <5>2. disp'[d].status = "pending" BY <5>1 DEF Unleased
        <5> QED BY <5>1, <5>2, PromiseOf
      <4> QED BY <4>1, <4>2
    <3> QED BY <3>2, PromisesStand
  <2>7. CASE disp' = disp BY <2>7 DEF promises
  <2>8. ASSUME NEW e \in Executors, NEW c \in claims[e], NEW class \in ErrorClasses,
               ApplyLeaseLost(e, c) \/ ApplyCancelled(e, c) \/ ApplyFails(e, c, class)
        PROVE  [Outbox!Next]_promises
    BY <2>7, <2>8 DEF ApplyLeaseLost, ApplyCancelled, ApplyFails, rowVars
  <2>9. CASE \/ DrainDone \/ StartWorkers \/ Signal \/ LoopExits \/ StopReceivers
             \/ ShutdownTimeout \/ DrainCancelled \/ Exit \/ Crash \/ UNCHANGED vars
             \/ \E e \in Executors : RetryWriteFails(e)
    BY <2>7, <2>9 DEF DrainDone, StartWorkers, Signal, LoopExits, StopReceivers, RetryWriteFails,
         ShutdownTimeout, DrainCancelled, Exit, Crash, Halt, rowVars, vars
  <2>10. ErrorClasses # {} BY DEF ErrorClasses
  <2> QED
    BY <2>1, <2>2, <2>3, <2>4, <2>5, <2>6, <2>8, <2>9, <2>10 DEF Next, ApplyStep
<1> QED BY <1>1, <1>2, TypeCorrect, Invariance, PTL DEF Spec, PromisesAreKept, Outbox!Spec
=============================================================================
