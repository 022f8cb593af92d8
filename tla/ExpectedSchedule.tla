--------------------------- MODULE ExpectedSchedule ---------------------------
(***************************************************************************)
(* Which occurrence of an expected-behaviour schedule an alert belongs to  *)
(* (internal/situation/expected_behavior_schedule.go).  A schedule is      *)
(* written in local time and resolved once to instants, in a zone whose    *)
(* clock may be put forward or back in between.                            *)
(*                                                                         *)
(* An instant is a number of ticks, a date d has DayLength of them, and a  *)
(* weekday is the date itself: the dates looked at fit in one week.        *)
(***************************************************************************)
EXTENDS Integers, FiniteSets, FiniteSetsExt

CONSTANTS
  DayLength,         \* ticks of a day
  LastDate,          \* dates 0..LastDate
  Shifts,            \* by how much a zone's clock may be changed, 0 for never
  Advance,           \* how far a time that does not exist is moved on: 180 minutes
  Reach,             \* how far from its nominal instant a time is looked for: 4 hours
  MaxTolerance, MaxDuration

VARIABLES zone, schedule, started, occurrence

vars == <<zone, schedule, started, occurrence>>

Instants == (-DayLength)..((LastDate + 2) * DayLength + Reach)
NotResolved == [known |-> FALSE, ok |-> FALSE, date |-> 0, start |-> 0, end |-> 0, boundary |-> 0]

\* In(loc): the clock on the wall, before and after the change.
Local(u) == IF u < zone.at THEN u ELSE u + zone.by

\* time.Date(..., loc): right in one of the zones around the change.
Nominal(l) == IF l < zone.at THEN l ELSE l - zone.by

\* resolveExpectedBehaviorLocal: every instant the clock shows l, or the first time
\* after l that it shows at all; none when that is too far.
Copies(l) == {u \in Instants : Local(u) = l /\ u \in (Nominal(l) - Reach)..(Nominal(l) + Reach)}
ResolveLocal(l) ==
  LET shown == {k \in 0..Advance : Copies(l + k) # {}}
  IN  IF shown = {} THEN {} ELSE Copies(l + Min(shown))

Overnight == IF schedule.end < schedule.start THEN 1 ELSE 0
LocalStart(date) == date * DayLength + schedule.start
LocalEnd(date) == (date + Overnight) * DayLength + schedule.end

\* Faulty: a repeated minute starts the occurrence at its second copy.
StartAtLastCopy(date) == Max(ResolveLocal(LocalStart(date)))

\* resolveExpectedBehaviorRange: from the first copy of the start to the last of the end.
StartOf(date) == Min(ResolveLocal(LocalStart(date)))
EndOf(date) == Max(ResolveLocal(LocalEnd(date)))
Resolvable(date) ==
  /\ ResolveLocal(LocalStart(date)) # {} /\ ResolveLocal(LocalEnd(date)) # {}
  /\ EndOf(date) > StartOf(date)

\* ResolveExpectedBehaviorOccurrence considers the alert's local date and the one before.
Dates == {d \in {Local(started) \div DayLength, Local(started) \div DayLength - 1} : d \in schedule.days}
Candidates ==
  {d \in Dates : /\ started >= StartOf(d) - schedule.tolerance
                 /\ started <= StartOf(d) + schedule.tolerance}

\* validateExpectedBehaviorSchedule.
Schedules ==
  {s \in [days : (SUBSET (0..LastDate)) \ {{}}, start : 0..(DayLength - 1), end : 0..(DayLength - 1),
          tolerance : 0..MaxTolerance, duration : 1..MaxDuration] : s.start # s.end}

Resolve ==
  /\ ~occurrence.known
  /\ occurrence' =
       IF (\E d \in Dates : ~Resolvable(d)) \/ Candidates = {} THEN [NotResolved EXCEPT !.known = TRUE]
       ELSE LET d == CHOOSE c \in Candidates : \A e \in Candidates : StartOf(e) <= StartOf(c)
            IN  [known |-> TRUE, ok |-> TRUE, date |-> d, start |-> StartOf(d), end |-> EndOf(d),
                 boundary |-> Min({started + schedule.duration, EndOf(d)})]
  /\ UNCHANGED <<zone, schedule, started>>

Init ==
  /\ \E by \in Shifts, at \in 1..((LastDate + 1) * DayLength) : zone = [at |-> at, by |-> by]
  /\ schedule \in Schedules
  /\ started \in 1..(LastDate * DayLength)
  /\ occurrence = NotResolved

Next == Resolve
Spec == Init /\ [][Next]_vars
-----------------------------------------------------------------------------
\* The instants the operator meant: the clock is in the window of the owning date.
Window == {u \in Instants : LocalStart(occurrence.date) <= Local(u) /\ Local(u) < LocalEnd(occurrence.date)}
Length == LocalEnd(occurrence.date) - LocalStart(occurrence.date)
Size(by) == IF by < 0 THEN -by ELSE by

\* A resolved occurrence covers every instant of the window, both copies of a repeated
\* time included; it is longer than the window reads by no more than the clock was
\* changed; and authority ends no later than the occurrence or the longest duration
\* (resolveExpectedBehaviorRange, ResolveExpectedBehaviorOccurrence).
OccurrenceCovers ==
  occurrence.ok =>
    /\ Window \subseteq occurrence.start..(occurrence.end - 1)
    /\ occurrence.end - occurrence.start <= Length + Size(zone.by)
    /\ occurrence.boundary <= occurrence.end

=============================================================================
