--------------------------- MODULE TransitionStream ---------------------------
(***************************************************************************)
(* The stdout Transition stream: the outbox a history commit fills         *)
(* (insertTransitionStreamTx), its claim and acknowledgement lifecycle     *)
(* (situation_transition_stream.go), and the worker that writes one line   *)
(* per Transition (TransitionStreamWorker), with its stop protocol.        *)
(*                                                                         *)
(* Transitions are numbered in commit order.  The worker's context is the  *)
(* process's signal context until the loop has ended, and the shutdown     *)
(* context in the final pass.  A line's content is left out.               *)
(***************************************************************************)
EXTENDS Naturals, Sequences, FiniteSets, FiniteSetsExt

CONSTANTS
  Transitions,   \* 1 .. n
  Unrenderable,  \* the Transitions whose stored row this build cannot render
  Batch,         \* rows one round claims at most
  MaxFaults,     \* bound: failing writes to stdout and to the store
  MaxStops       \* bound: crashes and shutdowns

VARIABLES
  entry,     \* entry[t]: the outbox row of t
  worker,    \* [pc, batch, result]: the round in progress
  phase,     \* "running", "stopping" (signalled), "final" and "last" (Stop's own pass), "down"
  expired,   \* the context of the round in progress is done
  written,   \* the Transitions whose line reached stdout
  faults, stops

vars == <<entry, worker, phase, expired, written, faults, stops>>

Uncommitted == [status |-> "none", leased |-> FALSE, live |-> FALSE, due |-> TRUE, token |-> 0]

Idle == [pc |-> "idle", batch |-> <<>>, result |-> "none"]

Init ==
  /\ entry = [t \in Transitions |-> Uncommitted]
  /\ worker = Idle
  /\ phase = "running"
  /\ expired = FALSE
  /\ written = {}
  /\ faults = 0
  /\ stops = 0

Committed == {t \in Transitions : entry[t].status # "none"}

\* The controller commits the next Transition and its row; it is drained and stopped
\* before the stream makes its final pass.
Commit(t) ==
  /\ phase \in {"running", "stopping"}
  /\ entry[t].status = "none" /\ \A u \in Transitions : u < t => entry[u].status # "none"
  /\ entry' = [entry EXCEPT ![t].status = "pending"]
  /\ UNCHANGED <<worker, phase, expired, written, faults, stops>>

-----------------------------------------------------------------------------
\* RecoverExpiredTransitionStreamClaims on one row.
Recovered(e) ==
  IF e.status = "pending" /\ e.leased /\ ~e.live THEN [e EXCEPT !.leased = FALSE] ELSE e

\* The rows ClaimTransitionStream may take: pending, free or expired, and due.
Claimable(t) ==
  /\ entry[t].status = "pending" /\ entry[t].due
  /\ ~entry[t].leased \/ ~entry[t].live

\* The oldest of them, up to a batch.
Claimed ==
  {t \in Transitions : Claimable(t) /\ Cardinality({u \in 1 .. t : Claimable(u)}) <= Batch}

\* The claims of the rows in S, in commit order, as they stand after the claim.
ClaimsOf(S) ==
  LET rank(t) == Cardinality({u \in S : u <= t})
  IN  [k \in 1 .. Cardinality(S) |->
         LET t == CHOOSE u \in S : rank(u) = k IN [row |-> t, token |-> entry[t].token + 1]]

\* RunOnce up to its loop: sweep abandoned leases and claim a batch.  A context that is
\* done fails both, so a stopping loop claims nothing more.
Round ==
  /\ worker.pc = "idle"
  /\ \/ phase = "running" /\ Claimed # {} /\ UNCHANGED phase
     \/ phase = "final" /\ ~expired /\ phase' = "last"
  /\ entry' = [t \in Transitions |->
                 IF t \in Claimed
                 THEN [entry[t] EXCEPT !.leased = TRUE, !.live = TRUE, !.token = @ + 1]
                 ELSE Recovered(entry[t])]
  /\ worker' = [pc |-> "loop", batch |-> ClaimsOf(Claimed), result |-> "none"]
  /\ UNCHANGED <<expired, written, faults, stops>>

Current == worker.batch[1]

\* The fence of every acknowledgement: the row is pending and the claim is its last.
Fenced(c) == entry[c.row].status = "pending" /\ entry[c.row].leased /\ entry[c.row].token = c.token

\* fencedTransitionStreamAck: write(e) if the claim still stands, nothing if it is lost.
Acked(c, write(_)) ==
  IF Fenced(c) THEN [entry EXCEPT ![c.row] = write(@)] ELSE entry

Freed(e) == [e EXCEPT !.leased = FALSE, !.live = FALSE]

\* The loop over the claims takes the next one, unless the context is done.
TakeUp ==
  /\ worker.pc = "loop" /\ worker.batch # <<>> /\ ~expired
  /\ worker' = [worker EXCEPT !.pc = "write"]
  /\ UNCHANGED <<entry, phase, expired, written, faults, stops>>

\* A done context ends the round; only the claim at hand is released, the rest of the
\* batch keeps its leases.  The release itself may fail.
GiveUp ==
  /\ worker.pc = "loop" /\ worker.batch # <<>> /\ expired
  /\ \/ entry' = Acked(Current, Freed) /\ UNCHANGED faults
     \/ faults < MaxFaults /\ faults' = faults + 1 /\ UNCHANGED entry
  /\ worker' = Idle
  /\ UNCHANGED <<phase, expired, written, stops>>

RoundEnds ==
  /\ worker.pc = "loop" /\ worker.batch = <<>>
  /\ worker' = Idle
  /\ UNCHANGED <<entry, phase, expired, written, faults, stops>>

\* emit: render and write the line.  The line is out before anything is acknowledged.
Emit(result) ==
  /\ worker.pc = "write"
  /\ worker' = [worker EXCEPT !.pc = "ack", !.result = result]
  /\ UNCHANGED <<entry, phase, expired, stops>>

EmitLine ==
  /\ Emit("emitted") /\ Current.row \notin Unrenderable
  /\ written' = written \cup {Current.row}
  /\ UNCHANGED faults

EmitInvalid == Emit("invalid") /\ Current.row \in Unrenderable /\ UNCHANGED <<written, faults>>

WriteFails ==
  /\ faults < MaxFaults
  /\ Emit("unavailable") /\ Current.row \notin Unrenderable
  /\ faults' = faults + 1
  /\ UNCHANGED written

\* Variant of the code: an unavailable stdout is dead-lettered like an invalid row.
OutcomeFinal(e) ==
  IF worker.result = "emitted" THEN [Freed(e) EXCEPT !.status = "delivered"]
  ELSE [Freed(e) EXCEPT !.status = "failed"]

\* What acknowledge makes of a row: delivered, failed for good, or due again later.
Outcome(e) ==
  CASE worker.result = "emitted" -> [Freed(e) EXCEPT !.status = "delivered"]
    [] worker.result = "invalid" -> [Freed(e) EXCEPT !.status = "failed"]
    [] OTHER -> [Freed(e) EXCEPT !.due = FALSE]

NextClaim == [pc |-> "loop", batch |-> Tail(worker.batch), result |-> "none"]

\* The acknowledgement uses the round's context: once that is done it cannot be written,
\* and the row keeps its lease.
Acknowledge ==
  /\ worker.pc = "ack" /\ ~expired
  /\ entry' = Acked(Current, Outcome)
  /\ worker' = NextClaim
  /\ UNCHANGED <<phase, expired, written, faults, stops>>

AcknowledgeFails ==
  /\ worker.pc = "ack"
  /\ IF expired THEN UNCHANGED faults ELSE faults < MaxFaults /\ faults' = faults + 1
  /\ worker' = NextClaim
  /\ UNCHANGED <<entry, phase, expired, written, stops>>

-----------------------------------------------------------------------------
LeaseExpires(t) ==
  /\ entry[t].leased /\ entry[t].live
  /\ entry' = [entry EXCEPT ![t].live = FALSE]
  /\ UNCHANGED <<worker, phase, expired, written, faults, stops>>

RetryDue(t) ==
  /\ entry[t].status = "pending" /\ ~entry[t].due
  /\ entry' = [entry EXCEPT ![t].due = TRUE]
  /\ UNCHANGED <<worker, phase, expired, written, faults, stops>>

\* The signal: the loop's context is done.
Signal ==
  /\ phase = "running" /\ stops < MaxStops
  /\ phase' = "stopping" /\ expired' = TRUE /\ stops' = stops + 1
  /\ UNCHANGED <<entry, worker, written, faults>>

\* Stop: the loop has ended, and one more round runs under the shutdown context.
LoopEnds ==
  /\ phase = "stopping" /\ worker.pc = "idle"
  /\ phase' = "final" /\ expired' = FALSE
  /\ UNCHANGED <<entry, worker, written, faults, stops>>

\* The shutdown context ends during the final pass.
Deadline ==
  /\ phase \in {"final", "last"} /\ ~expired
  /\ expired' = TRUE
  /\ UNCHANGED <<entry, worker, phase, written, faults, stops>>

\* Stop returns after the final pass, or its context ends before the loop does; then the
\* claim the loop is holding is released behind its back.
Stopped ==
  /\ \/ phase = "last" /\ worker.pc = "idle" /\ UNCHANGED entry
     \/ phase = "final" /\ expired /\ UNCHANGED entry
     \/ phase = "stopping" /\ worker.pc \in {"write", "ack"} /\ entry' = Acked(Current, Freed)
  /\ phase' = "down" /\ expired' = FALSE /\ worker' = Idle
  /\ UNCHANGED <<written, faults, stops>>

Crash ==
  /\ phase # "down" /\ stops < MaxStops
  /\ phase' = "down" /\ expired' = FALSE /\ worker' = Idle /\ stops' = stops + 1
  /\ UNCHANGED <<entry, written, faults>>

\* Startup sweeps the leases that ran out before the worker starts.
Boot ==
  /\ phase = "down"
  /\ entry' = [t \in Transitions |-> Recovered(entry[t])]
  /\ phase' = "running"
  /\ UNCHANGED <<worker, expired, written, faults, stops>>

\* One step of the worker's own goroutine.
Step ==
  \/ Round \/ TakeUp \/ GiveUp \/ RoundEnds
  \/ EmitLine \/ EmitInvalid \/ WriteFails
  \/ Acknowledge \/ AcknowledgeFails

Next ==
  \/ \E t \in Transitions : Commit(t) \/ LeaseExpires(t) \/ RetryDue(t)
  \/ Step
  \/ Signal \/ LoopEnds \/ Deadline \/ Stopped \/ Crash \/ Boot

\* The goroutine runs, clocks advance, and a process that ends is started again.
Fairness ==
  /\ WF_vars(Step)
  /\ WF_vars(LoopEnds)
  /\ WF_vars(Stopped)
  /\ WF_vars(Boot)
  /\ \A t \in Transitions : WF_vars(LeaseExpires(t)) /\ WF_vars(RetryDue(t))

Spec == Init /\ [][Next]_vars
FairSpec == Spec /\ Fairness

-----------------------------------------------------------------------------
TypeOK ==
  /\ entry \in [Transitions -> [status : {"none", "pending", "delivered", "failed"},
                                leased : BOOLEAN, live : BOOLEAN, due : BOOLEAN, token : Nat]]
  /\ worker.pc \in {"idle", "loop", "write", "ack"}
  /\ worker.result \in {"none", "emitted", "invalid", "unavailable"}
  /\ phase \in {"running", "stopping", "final", "last", "down"}
  /\ expired \in BOOLEAN
  /\ written \subseteq Committed

\* A committed Transition is done with: on stdout and then acknowledged, or set aside.
Settled(t) ==
  CASE entry[t].status = "none" -> TRUE
    [] t \in Unrenderable -> entry[t].status = "failed"
    [] OTHER -> entry[t].status = "delivered" /\ t \in written

\* The stream is complete (claim, retry, release, recover and Stop together): again and again
\* every Transition that can be rendered is on stdout and acknowledged, and one that cannot
\* is set aside, whatever writes fail, whatever stops when.
StreamIsComplete == []<>(\A t \in Transitions : Settled(t))
=============================================================================
