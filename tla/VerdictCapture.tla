--------------------------- MODULE VerdictCapture ---------------------------
(***************************************************************************)
(* The capture engine (skills/acutetriage/capture.go): verdicts and notes  *)
(* of operators on one Incident that carries a finding.  Every request     *)
(* runs on a goroutine of its own; a verdict is widened live, persisted,   *)
(* audited and then graded by a replay that writes nothing.  Shutdown      *)
(* closes the engine, waits for what is in progress or gives up on it,     *)
(* then seals the LLM health tracker and closes the store (cmd/alertint).  *)
(***************************************************************************)
EXTENDS Integers, Sequences

CONSTANTS
  Requests,   \* MCP requests
  Queries     \* widen_queries expressions

VARIABLES
  phase,      \* shutdown: "open", "closing", "joined", "abandoned", "sealed", "closed"
  joined,     \* Close returned nil: every operation had left
  ops,        \* the request goroutines
  verdicts,   \* incident_verdicts of the Incident, by version
  notes,      \* requests whose annotation is stored
  marks,      \* memory_refute_marks
  inputs,     \* Situation inputs the transactions enqueued, by request
  observed    \* requests whose LLM call the health tracker counted

vars == <<phase, joined, ops, verdicts, notes, marks, inputs, observed>>

Kinds == {"correction", "confirmation"}
Expectations == {1, 2}
NoVerdict == [kind |-> "none", exp |-> 0, widened |-> {}]

Idle == [pc |-> "idle", kind |-> "none", exp |-> 0, widen |-> {}, prior |-> NoVerdict, answer |-> "none"]

Init ==
  /\ phase = "open" /\ joined = FALSE
  /\ ops = [r \in Requests |-> Idle]
  /\ verdicts = <<>> /\ notes = {} /\ marks = 0 /\ inputs = {} /\ observed = {}

Store == <<verdicts, notes, marks, inputs>>
StoreOpen == phase # "closed"
InProgress == {r \in Requests : ops[r].pc \notin {"idle", "left"}}

Leaves(r, answer) == ops' = [ops EXCEPT ![r].pc = "left", ![r].answer = answer]
Moves(r, pc) == ops' = [ops EXCEPT ![r].pc = pc]
-----------------------------------------------------------------------------
(* An operation.                                                           *)

\* Faulty: the flag is not looked at.
AdmittedAlways == TRUE

\* enter: no operation begins once Close has.
Admitted == phase = "open"

\* The arguments of a request, validated.
Begun(pc, kind, exp, widen) == [Idle EXCEPT !.pc = pc, !.kind = kind, !.exp = exp, !.widen = widen]

Enter(r) ==
  /\ ops[r].pc = "idle"
  /\ IF Admitted
     THEN \/ \E kind \in Kinds, exp \in Expectations, widen \in SUBSET Queries :
               ops' = [ops EXCEPT ![r] = Begun("entered", kind, exp, widen)]
          \/ ops' = [ops EXCEPT ![r] = Begun("annotating", "note", 0, {})]
     ELSE Leaves(r, "closed")
  /\ UNCHANGED <<phase, joined, Store, observed>>

Latest == IF verdicts = <<>> THEN NoVerdict ELSE verdicts[Len(verdicts)]

\* A repeat with nothing new is only graded again.
NeedsPersist(op, prior) ==
  prior.kind # op.kind \/ prior.exp # op.exp \/ ~(op.widen \subseteq prior.widened)

\* CaptureVerdict reads the latest verdict; what it reads decides the rest.
Load(r) ==
  /\ ops[r].pc = "entered"
  /\ IF StoreOpen
     THEN ops' = [ops EXCEPT ![r].pc = IF NeedsPersist(ops[r], Latest) THEN "loaded" ELSE "captured",
                             ![r].prior = Latest]
     ELSE Leaves(r, "error")
  /\ UNCHANGED <<phase, joined, Store, observed>>

\* widen: each new expression is fetched once, and kept whatever comes back.
Widen(r) ==
  /\ ops[r].pc = "loaded" /\ Moves(r, "widened")
  /\ UNCHANGED <<phase, joined, Store, observed>>

\* PersistVerdictCapture: version, annotation, marks and Situation input in one transaction,
\* merged with the widened queries that were read before.
Persist(r) ==
  /\ ops[r].pc = "widened"
  /\ \/ /\ StoreOpen
        /\ verdicts' = Append(verdicts, [kind |-> ops[r].kind, exp |-> ops[r].exp,
                                         widened |-> ops[r].prior.widened \cup ops[r].widen])
        /\ notes' = notes \cup {r} /\ inputs' = inputs \cup {r}
        /\ marks' = IF ops[r].kind = "correction" THEN 2 ELSE marks
        /\ Moves(r, "persisted")
     \/ Leaves(r, "error") /\ UNCHANGED Store
  /\ UNCHANGED <<phase, joined, observed>>

\* The audit row; without it the operator is told of an error, though the verdict stands.
Audit(r) ==
  /\ ops[r].pc = "persisted"
  /\ \/ StoreOpen /\ Moves(r, "captured")
     \/ Leaves(r, "error")
  /\ UNCHANGED <<phase, joined, Store, observed>>

\* gradeContext: refused once Close has begun.
Grade(r) ==
  /\ ops[r].pc = "captured"
  /\ IF phase = "open" THEN Moves(r, "grading") ELSE Leaves(r, "ungraded")
  /\ UNCHANGED <<phase, joined, Store, observed>>

\* grade: red without a call when the evidence is not in the pack.
GradeByDiff(r) ==
  /\ ops[r].pc = "grading" /\ Leaves(r, "graded")
  /\ UNCHANGED <<phase, joined, Store, observed>>

\* replayIncidentWith: the current pipeline over frozen inputs; it writes nothing, but its
\* calls are observed until the tracker is sealed.
Replay(r) ==
  /\ ops[r].pc = "grading" /\ Leaves(r, "graded")
  /\ observed' = IF phase \in {"sealed", "closed"} THEN observed ELSE observed \cup {r}
  /\ UNCHANGED <<phase, joined, Store>>

\* Close cancels the grade or its deadline passes; a cancellation is not an observation.
GradeEnds(r) ==
  /\ ops[r].pc = "grading" /\ Leaves(r, "ungraded")
  /\ UNCHANGED <<phase, joined, Store, observed>>

\* Annotate: a note speaks to the next reader and pulls no lever.
Annotate(r) ==
  /\ ops[r].pc = "annotating"
  /\ \/ StoreOpen /\ notes' = notes \cup {r} /\ inputs' = inputs \cup {r} /\ Moves(r, "noted")
     \/ Leaves(r, "error") /\ UNCHANGED <<notes, inputs>>
  /\ UNCHANGED <<phase, joined, verdicts, marks, observed>>

AuditNote(r) ==
  /\ ops[r].pc = "noted"
  /\ (StoreOpen /\ Leaves(r, "noted")) \/ Leaves(r, "error")
  /\ UNCHANGED <<phase, joined, Store, observed>>
-----------------------------------------------------------------------------
(* Shutdown, in the order of the deferred calls.                           *)

Close ==
  /\ phase = "open" /\ phase' = "closing"
  /\ UNCHANGED <<joined, ops, Store, observed>>

\* ops.Wait returns, or the shutdown window passes first.
Join ==
  /\ phase = "closing"
  /\ \/ InProgress = {} /\ phase' = "joined" /\ joined' = TRUE
     \/ phase' = "abandoned" /\ UNCHANGED joined
  /\ UNCHANGED <<ops, Store, observed>>

\* The health runner seals the tracker before its final pass.
Seal ==
  /\ phase \in {"joined", "abandoned"} /\ phase' = "sealed"
  /\ UNCHANGED <<joined, ops, Store, observed>>

CloseStore ==
  /\ phase = "sealed" /\ phase' = "closed"
  /\ UNCHANGED <<joined, ops, Store, observed>>

Next ==
  \/ \E r \in Requests : \/ Enter(r) \/ Load(r) \/ Widen(r) \/ Persist(r) \/ Audit(r) \/ Grade(r)
                         \/ GradeByDiff(r) \/ Replay(r) \/ GradeEnds(r) \/ Annotate(r) \/ AuditNote(r)
  \/ Close \/ Join \/ Seal \/ CloseStore

Spec == Init /\ [][Next]_vars
-----------------------------------------------------------------------------
\* After Close has returned nothing of an operator's request moves any more, neither the store
\* nor the state the health runner acknowledges; after a Close that gave up, an operation
\* that is still there reports nothing once the tracker is sealed and writes nothing once the
\* store is closed (enter, Close, closeCaptureEngine).
Quiet ==
  /\ joined => UNCHANGED <<verdicts, notes, marks, inputs, observed>>
  /\ phase \in {"sealed", "closed"} => UNCHANGED observed
  /\ phase = "closed" => UNCHANGED <<verdicts, notes, marks, inputs>>
ShutdownIsQuiet == [][Quiet]_vars
=============================================================================
