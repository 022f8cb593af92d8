------------------------------- MODULE AuditLog -------------------------------
(***************************************************************************)
(* The hash-chained audit log: Append chains an entry to the last one,     *)
(* PruneBefore removes the oldest entries in steps, each anchored in the   *)
(* chain first, and Verify walks what is left.                             *)
(*                                                                         *)
(* A hash is the sequence of everything that was hashed into it, so two    *)
(* hashes are equal exactly when all they cover is.  The clock may be set  *)
(* back.  An entry's stored fields may be changed, or an entry taken out,  *)
(* behind the program's back: that is what Verify is for.                  *)
(***************************************************************************)
EXTENDS Naturals, Sequences, FiniteSets, FiniteSetsExt

CONSTANTS
  Times,        \* the times the clock may show
  PruneStep,    \* entries one prune step removes at most
  MaxEntries,   \* bound: entries ever appended, anchors included
  MaxHarm       \* bound: changes behind the program's back

VARIABLES
  log,      \* the rows kept, in seq order: [seq, content, prev, hash]
  next,     \* the seq of the next row
  pass,     \* the prune pass in progress: [active, cutoff, last]
  through,  \* the last seq a prune step removed
  harm      \* what was changed: [kind, seq]

vars == <<log, next, pass, through, harm>>

NoHash == <<>>

Init ==
  /\ log = <<>>
  /\ next = 1
  /\ pass = [active |-> FALSE, cutoff |-> 0, last |-> 0]
  /\ through = 0
  /\ harm = {}

\* computeHash over the fields of an entry and the hash before it; seq is left out.
Hash(content, prev) == <<content, prev>>

LastHash(rows) == IF rows = <<>> THEN NoHash ELSE rows[Len(rows)].hash

\* AppendTx: the row an entry becomes behind rows.
Entry(rows, content) ==
  [seq |-> next, content |-> content, prev |-> LastHash(rows), hash |-> Hash(content, LastHash(rows))]

AppendAt(at) ==
  /\ next <= MaxEntries
  /\ log' = Append(log, Entry(log, [kind |-> "event", ts |-> at, seq |-> 0, hash |-> NoHash]))
  /\ next' = next + 1
  /\ UNCHANGED <<pass, through, harm>>

-----------------------------------------------------------------------------
\* PruneBefore starts: the pass covers the entries there are now.
BeginPrune(cutoff) ==
  /\ ~pass.active /\ log # <<>>
  /\ pass' = [active |-> TRUE, cutoff |-> cutoff, last |-> log[Len(log)].seq]
  /\ UNCHANGED <<log, next, through, harm>>

\* readPrunablePrefix: how many of the oldest rows are before the cutoff, up to a step.
\* The first row that is not ends the run.
Prunable ==
  LET covered == {n \in 1 .. Len(log) : n <= PruneStep /\ log[n].seq <= pass.last}
      run(n)  == \A i \in 1 .. n : i \in covered /\ log[i].content.ts < pass.cutoff
  IN  Max({n \in 0 .. Len(log) : run(n)})

\* Variant of the code: the anchor names the end of the pass, not of the step.
AnchorOfPass(n, at) ==
  LET e == CHOOSE i \in DOMAIN log : log[i].seq = pass.last
  IN  [kind |-> "audit_pruned", ts |-> at, seq |-> log[e].seq, hash |-> log[e].hash]

\* The anchor of a step that removes the oldest n rows.
Anchor(n, at) == [kind |-> "audit_pruned", ts |-> at, seq |-> log[n].seq, hash |-> log[n].hash]

\* One step: append the anchor, delete what it accounts for, in one transaction.
PruneStepAt(at) ==
  /\ pass.active /\ Prunable > 0
  /\ next <= MaxEntries
  /\ log' = SubSeq(Append(log, Entry(log, Anchor(Prunable, at))), Prunable + 1, Len(log) + 1)
  /\ next' = next + 1
  /\ through' = log[Prunable].seq
  /\ UNCHANGED <<pass, harm>>

\* Nothing is left to remove, or the pass is cut short between two steps.
EndPrune ==
  /\ pass.active
  /\ pass' = [pass EXCEPT !.active = FALSE]
  /\ UNCHANGED <<log, next, through, harm>>

-----------------------------------------------------------------------------
\* A field row i was hashed over is changed.
Change(i) ==
  /\ Cardinality(harm) < MaxHarm
  /\ \/ log' = [log EXCEPT ![i].content.kind = "changed"]
     \/ log' = [log EXCEPT ![i].prev = <<"changed">>]
  /\ harm' = harm \cup {[kind |-> "change", seq |-> log[i].seq]}
  /\ UNCHANGED <<next, pass, through>>

\* Row i is taken out.  The last row is left: nothing after it would tell.
TakeOut(i) ==
  /\ Cardinality(harm) < MaxHarm
  /\ i < Len(log)
  /\ log' = SubSeq(log, 1, i - 1) \o SubSeq(log, i + 1, Len(log))
  /\ harm' = harm \cup {[kind |-> "gap", seq |-> log[i].seq]}
  /\ UNCHANGED <<next, pass, through>>

Next ==
  \/ \E at \in Times : AppendAt(at) \/ BeginPrune(at) \/ PruneStepAt(at)
  \/ EndPrune
  \/ \E i \in DOMAIN log : Change(i) \/ TakeOut(i)

Spec == Init /\ [][Next]_vars

-----------------------------------------------------------------------------
\* pruneAnchorFor: a kept anchor accounts for everything before row first.
Anchored(first) ==
  \E i \in DOMAIN log : /\ log[i].content.kind = "audit_pruned"
                        /\ log[i].content.hash = first.prev /\ log[i].content.seq < first.seq

\* The verdict of Verify: the first row starts the chain or is anchored, every row links to
\* the one before, and every stored hash is the hash of what is stored.
Verify ==
  log # <<>> =>
    /\ log[1].prev = NoHash \/ Anchored(log[1])
    /\ \A i \in DOMAIN log :
         /\ i > 1 => log[i].prev = log[i - 1].hash
         /\ log[i].hash = Hash(log[i].content, log[i].prev)

TypeOK ==
  /\ \A i \in DOMAIN log : /\ log[i].seq \in 1 .. next - 1 /\ log[i].content.ts \in Times
                           /\ i > 1 => log[i - 1].seq < log[i].seq
  /\ next \in 1 .. MaxEntries + 1
  /\ pass.active \in BOOLEAN
  /\ through \in 0 .. next - 1

\* Retention and Verify agree (PruneBefore, pruneAnchorFor, Verify): however appends, prune
\* passes and clock changes interleave, the chain verifies exactly when no entry that is
\* still kept was changed, and none was taken out that retention has not gone past.
VerifyIsExact ==
  Verify <=> \A h \in harm :
    /\ h.kind = "change" => \A i \in DOMAIN log : log[i].seq # h.seq
    /\ h.kind = "gap" => h.seq <= through
=============================================================================
