------------------------- MODULE NotificationsProofs -------------------------
(***************************************************************************)
(* What Slack is shown of a Situation, for any number of Situations,       *)
(* commits, gaps, outages, refusals and faults: the journal is in order    *)
(* under a root that is not behind it, and nothing is said twice.          *)
(***************************************************************************)
EXTENDS Notifications, SequenceTheorems, TLAPS

-----------------------------------------------------------------------------
(* The inductive invariant.                                                *)

\* A cycle that is under way has a commit left, and a rootless Situation stays
\* one until that commit.
PlansHold ==
  \A s \in Situations : plan[s].read =>
    /\ commits[s] < MaxCommits
    /\ ~plan[s].published /\ ~plan[s].owed => ~Published(s) /\ ~Owed(s)

\* What has not been committed has no intent, and an entry has its root.
IntentsAreCommitted ==
  \A s \in Situations, n \in Sequence :
    /\ n > commits[s] => intents[RootOf(s, n)].status = "absent"
    /\ intents[RootOf(s, n)].status = "absent" => intents[ReplyOf(s, n)].status = "absent"

\* A live root is the newest one.
LiveRootIsNewest ==
  \A s \in Situations : \A m, n \in Sequence :
    /\ intents[RootOf(s, m)].status \in Live
    /\ intents[RootOf(s, n)].status # "absent"
    => n <= m

\* When no root is owed any more, the message shows the newest one.
RootIsShown ==
  \A s \in Situations, n \in Sequence :
    Published(s) /\ ~Owed(s) /\ intents[RootOf(s, n)].status # "absent" =>
      n <= channel[s][coord[s]]

\* Messages show states that were committed.
ChannelIsCommitted ==
  \A s \in Situations : \A k \in 1..Len(channel[s]) : channel[s][k] <= commits[s]

\* Everything older than a posted entry is settled.
PostedIsSettled ==
  \A s \in Situations : \A m \in thread[s] :
    /\ m <= commits[s]
    /\ \A n \in Sequence : n < m => intents[ReplyOf(s, n)].status \notin Live

Claimed == todo \cup {cur}

\* What the worker holds outside of its delivery steps.
WorkerIsIdle ==
  /\ pc \notin {"deliver", "send", "answer"} => todo = {}
  /\ pc \notin {"send", "answer"} => cur = NoIntent
  /\ pc \in {"send", "answer"} => cur # NoIntent
  /\ cur \notin todo
  /\ pc # "answer" => answer = "none"

\* A claimed root has been superseded at most, and then by one that is owed
\* or shown.
ClaimedRoots ==
  \A s \in Situations, n \in Sequence : RootOf(s, n) \in Claimed =>
    /\ n <= commits[s]
    /\ \/ intents[RootOf(s, n)].status = "pending" /\ intents[RootOf(s, n)].claim = "held"
       \/ intents[RootOf(s, n)].status = "superseded"
    /\ Published(s) \/ Owed(s)

\* A claimed entry is the only one of its Situation; it follows everything
\* posted, precedes everything live, and its root shows its state.
ClaimedReplies ==
  \A s \in Situations, n \in Sequence : ReplyOf(s, n) \in Claimed =>
    /\ n <= commits[s]
    /\ \A m \in Sequence : m < n => intents[ReplyOf(s, m)].status \notin Live
    /\ \A m \in Sequence : ReplyOf(s, m) \in Claimed => m = n
    /\ \A m \in thread[s] : m <= n
    /\ Published(s) /\ channel[s][coord[s]] >= n

\* The root being sent is read once: no other message is newer, and it is
\* edited in place.
RootIsRead ==
  \A s \in Situations, n \in Sequence : cur = RootOf(s, n) =>
    /\ pc = "send" => seen = coord[s]
    /\ pc = "answer" /\ answer = "ok" =>
         /\ seen \in 1..Len(channel[s]) /\ channel[s][seen] = n
         /\ coord[s] \in {0, seen}
    /\ pc = "send" => \A k \in 1..Len(channel[s]) : channel[s][k] <= n

\* A post that is not the root is a fault's, unless its answer is being taken in.
Answering(s) == pc = "answer" /\ answer = "ok" /\ cur.kind = "root" /\ cur.of = s
PostsAreCounted ==
  \A s \in Situations :
    /\ Len(channel[s]) <= 1 + faults
    /\ coord[s] = 0 /\ ~Answering(s) => Len(channel[s]) <= faults

\* The outage that opened a gap is not over, and its window has the gap.
OutageHasGap ==
  /\ outageGaps <= 1
  /\ outageGaps = 1 => window # NoWindow /\ windowGap

Inv ==
  /\ TypeOK
  /\ PlansHold /\ IntentsAreCommitted /\ LiveRootIsNewest /\ RootIsShown
  /\ ChannelIsCommitted /\ PostedIsSettled
  /\ WorkerIsIdle /\ ClaimedRoots /\ ClaimedReplies /\ RootIsRead
  /\ PostsAreCounted /\ OutageHasGap
-----------------------------------------------------------------------------
(* Intents and rows.                                                       *)

\* An intent is named by its kind, its Situation and its number.
LEMMA IntentNames ==
  /\ \A s \in Situations, n \in Sequence :
       /\ RootOf(s, n) \in RootIntents /\ ReplyOf(s, n) \in ReplyIntents
       /\ RootOf(s, n) \in Intents /\ ReplyOf(s, n) \in Intents
       /\ RootOf(s, n).kind = "root" /\ RootOf(s, n).of = s /\ RootOf(s, n).n = n
       /\ ReplyOf(s, n).kind = "reply" /\ ReplyOf(s, n).of = s /\ ReplyOf(s, n).n = n
       /\ RootOf(s, n) \notin ReplyIntents /\ ReplyOf(s, n) \notin RootIntents
       /\ RootOf(s, n) \notin NoticeIntents /\ ReplyOf(s, n) \notin NoticeIntents
       /\ RootOf(s, n) # NoIntent /\ ReplyOf(s, n) # NoIntent
  /\ \A i \in RootIntents : i.of \in Situations /\ i.n \in Sequence /\ i = RootOf(i.of, i.n)
  /\ \A i \in ReplyIntents : i.of \in Situations /\ i.n \in Sequence /\ i = ReplyOf(i.of, i.n)
  /\ \A g \in Gaps : NoticeOf(g) \in NoticeIntents /\ NoticeOf(g) \in Intents
  /\ \A i \in NoticeIntents : i.n \in Gaps /\ i = NoticeOf(i.n)
BY DEF RootOf, ReplyOf, NoticeOf, NoIntent, RootIntents, ReplyIntents, NoticeIntents, Intents

\* The kind of an intent is the set it belongs to.
LEMMA IntentKinds ==
  ASSUME NEW i \in Intents
  PROVE  /\ i.kind = "root" <=> i \in RootIntents
         /\ i.kind = "reply" <=> i \in ReplyIntents
         /\ i.kind = "notice" <=> i \in NoticeIntents
         /\ i # NoIntent /\ i.kind # "none"
BY DEF NoIntent, RootIntents, ReplyIntents, NoticeIntents, Intents

\* A root is owed when some root row is live.
LEMMA OwedMeans ==
  ASSUME NEW s \in Situations
  PROVE  /\ Owed(s) <=> \E n \in Sequence : intents[RootOf(s, n)].status \in Live
         /\ Owed(s)' <=> \E n \in Sequence : intents'[RootOf(s, n)].status \in Live
BY IntentNames DEF Owed, LiveRoots

\* What writing one status into a set of rows does.
LEMMA RowsWritten ==
  ASSUME NEW rows \in [Intents -> Row], NEW which
  PROVE  /\ Retire(rows, which) \in [Intents -> Row]
         /\ ToPending(rows, which) \in [Intents -> Row]
         /\ \A i \in Intents :
              /\ i \in which => /\ Retire(rows, which)[i].status = "superseded"
                                /\ ToPending(rows, which)[i].status = "pending"
                                /\ Retire(rows, which)[i].claim = "free"
                                /\ ToPending(rows, which)[i].claim = "free"
              /\ i \notin which => /\ Retire(rows, which)[i] = rows[i]
                                   /\ ToPending(rows, which)[i] = rows[i]
<1>1. \A i \in Intents : /\ [rows[i] EXCEPT !.status = "superseded", !.claim = "free"] \in Row
                         /\ [rows[i] EXCEPT !.status = "pending", !.claim = "free"] \in Row
                         /\ [rows[i] EXCEPT !.status = "superseded", !.claim = "free"].status = "superseded"
                         /\ [rows[i] EXCEPT !.status = "superseded", !.claim = "free"].claim = "free"
                         /\ [rows[i] EXCEPT !.status = "pending", !.claim = "free"].status = "pending"
                         /\ [rows[i] EXCEPT !.status = "pending", !.claim = "free"].claim = "free"
  BY DEF Row, Live
<1> QED BY <1>1 DEF Retire, ToPending

\* What a commit that leaves intents does to the rows: it retires what is live
\* of its Situation, and adds its own root and, perhaps, its own entry.
LEMMA CommitRows ==
  ASSUME TypeOK, PlansHold, IntentsAreCommitted, NEW s \in Situations,
         NEW poke \in BOOLEAN, NEW authority \in BOOLEAN, NEW meetsFloor \in BOOLEAN,
         NEW reply \in BOOLEAN, NEW overtakes \in BOOLEAN, NEW class \in {"thread", "transient"},
         Commit(s, poke, authority, meetsFloor, reply, class, overtakes)
  PROVE  /\ commits[s] + 1 \in Sequence
         /\ intents' \in [Intents -> Row]
         /\ \/ intents' = intents /\ ~plan[s].published /\ ~plan[s].owed
            \/ /\ intents'[RootOf(s, commits[s] + 1)].status = RootStatus(plan[s], meetsFloor)
               /\ intents'[ReplyOf(s, commits[s] + 1)].status \in {"absent", "pending"}
               /\ \A m \in Sequence : m # commits[s] + 1 =>
                    intents'[RootOf(s, m)].status \notin Live
               /\ \A i \in Intents \ {RootOf(s, commits[s] + 1), ReplyOf(s, commits[s] + 1)} :
                    \/ intents'[i] = intents[i]
                    \/ /\ i.of = s /\ i \notin NoticeIntents
                       /\ intents[i].status \in Live /\ intents'[i].status = "superseded"
<1> DEFINE n == commits[s] + 1
           p == plan[s]
           root == RootOf(s, n)
           entry == ReplyOf(s, n)
           quiet == ~p.published /\ ~p.owed /\ ~authority
           cleared == SupersedeLiveRootSync(intents, s, root)
           rooted == [cleared EXCEPT ![root].status = RootStatus(p, meetsFloor)]
           replied == [rooted EXCEPT ![entry] =
                        [status |-> "pending", claim |-> "free",
                         class |-> ReplyClass(p, poke, meetsFloor, class)]]
           old == {i \in ReplyIntents : /\ i.of = s /\ i.n < n
                                        /\ replied[i].class = "transient" /\ replied[i].status \in Live}
<1>n. n \in Sequence /\ n \in Nat /\ commits[s] < n
  BY NotificationsAssumption DEF TypeOK, PlansHold, Commit, Sequence
<1>i. root \in Intents /\ entry \in Intents /\ root # entry /\ root \in RootIntents
      /\ entry \in ReplyIntents /\ entry \notin RootIntents
  BY <1>n, IntentNames
<1>r. intents[root].status = "absent" /\ intents[entry].status = "absent"
  BY <1>n DEF IntentsAreCommitted
<1>t. intents \in [Intents -> Row]
  BY DEF TypeOK
<1>s. RootStatus(p, meetsFloor) \in {"withheld", "pending"}
  BY DEF RootStatus
<1>1. /\ cleared \in [Intents -> Row]
      /\ cleared[root] = intents[root]
      /\ \A i \in Intents \ {root} :
           \/ cleared[i] = intents[i]
           \/ i \in RootIntents /\ i.of = s /\ intents[i].status \in Live /\ cleared[i].status = "superseded"
      /\ \A m \in Sequence : m # n => cleared[RootOf(s, m)].status \notin Live
  <2>1. \A i \in Intents : i \in LiveRoots(intents, s) \ {root} =>
           i \in RootIntents /\ i.of = s /\ intents[i].status \in Live
    BY DEF LiveRoots
  <2>2. cleared = Retire(intents, LiveRoots(intents, s) \ {root})
    BY DEF SupersedeLiveRootSync
  <2>3. ASSUME NEW m \in Sequence, m # n
        PROVE  cleared[RootOf(s, m)].status \notin Live
    <3>1. RootOf(s, m) # root /\ RootOf(s, m) \in Intents /\ RootOf(s, m) \in RootIntents /\ RootOf(s, m).of = s
      BY <2>3, <1>n, IntentNames
    <3>2. CASE intents[RootOf(s, m)].status \in Live
      <4>1. RootOf(s, m) \in LiveRoots(intents, s) \ {root}
        BY <3>1, <3>2 DEF LiveRoots
      <4> QED BY <4>1, <3>1, <2>2, <1>t, RowsWritten DEF Live
    <3>3. CASE intents[RootOf(s, m)].status \notin Live
      <4>1. RootOf(s, m) \notin LiveRoots(intents, s)
        BY <3>3 DEF LiveRoots
      <4> QED BY <4>1, <3>1, <3>3, <2>2, <1>t, RowsWritten
    <3> QED BY <3>2, <3>3
  <2> DEFINE gone == LiveRoots(intents, s) \ {root}
  <2>4. cleared = Retire(intents, gone) /\ root \notin gone
    BY <2>2
  <2>5. \A i \in Intents : i \in gone => i \in RootIntents /\ i.of = s /\ intents[i].status \in Live
    BY <2>1
  <2> HIDE DEF cleared, gone, root, n
  <2>6. /\ cleared \in [Intents -> Row]
        /\ \A i \in Intents : /\ i \in gone => cleared[i].status = "superseded"
                              /\ i \notin gone => cleared[i] = intents[i]
    BY <2>4, <1>t, RowsWritten
  <2> QED BY <2>3, <2>4, <2>5, <2>6, <1>i
<1> HIDE DEF cleared, root, entry, n
<1>2. /\ rooted \in [Intents -> Row]
      /\ rooted[root].status = RootStatus(p, meetsFloor)
      /\ \A i \in Intents \ {root} : rooted[i] = cleared[i]
  <2>1. [cleared[root] EXCEPT !.status = RootStatus(p, meetsFloor)] \in Row
    BY <1>1, <1>i, <1>s DEF Row, Live
  <2>2. [cleared[root] EXCEPT !.status = RootStatus(p, meetsFloor)].status = RootStatus(p, meetsFloor)
    BY <1>1, <1>i DEF Row
  <2> DEFINE w == [cleared[root] EXCEPT !.status = RootStatus(p, meetsFloor)]
  <2>3. rooted = [cleared EXCEPT ![root] = w]
    OBVIOUS
  <2> HIDE DEF w, rooted
  <2>4. rooted \in [Intents -> Row] /\ rooted[root] = w /\ \A i \in Intents \ {root} : rooted[i] = cleared[i]
    BY <2>1, <2>3, <1>1, <1>i DEF w
  <2> QED BY <2>2, <2>4 DEF w
<1> HIDE DEF rooted
<1>3. /\ replied \in [Intents -> Row]
      /\ replied[entry].status = "pending"
      /\ \A i \in Intents \ {entry} : replied[i] = rooted[i]
  <2>1. [status |-> "pending", claim |-> "free", class |-> ReplyClass(p, poke, meetsFloor, class)] \in Row
    BY DEF Row, Live, ReplyClass
  <2> QED BY <2>1, <1>2, <1>i
<1> HIDE DEF replied
<1>4. /\ RetireTransient(replied, s, n) \in [Intents -> Row]
      /\ RetireTransient(replied, s, n)[root] = replied[root]
      /\ RetireTransient(replied, s, n)[entry] = replied[entry]
      /\ \A i \in Intents : \/ RetireTransient(replied, s, n)[i] = replied[i]
                            \/ /\ i \in ReplyIntents /\ i.of = s /\ i # entry
                               /\ replied[i].status \in Live
                               /\ RetireTransient(replied, s, n)[i].status = "superseded"
  <2>1. RetireTransient(replied, s, n) = Retire(replied, old)
    BY DEF RetireTransient
  <2>2. entry \notin old /\ root \notin old
    BY <1>n, IntentNames DEF entry, root
  <2>3. \A i \in Intents : i \in old => i \in ReplyIntents /\ i.of = s /\ replied[i].status \in Live
    OBVIOUS
  <2> HIDE DEF old
  <2> QED BY <2>1, <2>2, <2>3, <1>3, <1>i, RowsWritten
<1>5. \/ quiet /\ intents' = intents
      \/ ~quiet /\ intents' \in {rooted, replied, RetireTransient(replied, s, n)}
  BY DEF Commit, rooted, replied, cleared, root, entry, n
<1>6. CASE quiet /\ intents' = intents
  BY <1>6, <1>n, <1>t DEF n
<1>7. CASE intents' = rooted
  <2>1. intents'[entry].status = "absent"
    BY <1>7, <1>2, <1>1, <1>i, <1>r
  <2>2. \A m \in Sequence : m # n => RootOf(s, m) # root /\ RootOf(s, m) \in Intents
    BY <1>n, IntentNames DEF root
  <2>3. \A i \in RootIntents : i \notin NoticeIntents
    BY DEF RootIntents, NoticeIntents
  <2> QED BY <1>7, <2>1, <2>2, <2>3, <1>1, <1>2, <1>n DEF n, root, entry
<1>8. CASE intents' = replied
  <2>2. \A m \in Sequence : m # n => /\ RootOf(s, m) # root /\ RootOf(s, m) \in Intents
                                     /\ RootOf(s, m) # entry
    BY <1>n, IntentNames DEF root, entry
  <2>3. \A i \in RootIntents : i \notin NoticeIntents
    BY DEF RootIntents, NoticeIntents
  <2> QED BY <1>8, <2>2, <2>3, <1>1, <1>2, <1>3, <1>n, <1>i DEF n, root, entry
<1>9. CASE intents' = RetireTransient(replied, s, n)
  <2>2. \A m \in Sequence : m # n => /\ RootOf(s, m) # root /\ RootOf(s, m) \in Intents
                                     /\ RootOf(s, m) # entry /\ RootOf(s, m) \notin ReplyIntents
    BY <1>n, IntentNames DEF root, entry
  <2>3. \A i \in RootIntents \cup ReplyIntents : i \notin NoticeIntents
    BY DEF RootIntents, ReplyIntents, NoticeIntents
  <2>4. \A i \in ReplyIntents : i \notin RootIntents
    BY DEF RootIntents, ReplyIntents
  <2>5. ASSUME NEW i \in Intents \ {root, entry}
        PROVE  \/ intents'[i] = intents[i]
               \/ /\ i.of = s /\ i \notin NoticeIntents
                  /\ intents[i].status \in Live /\ intents'[i].status = "superseded"
    BY <1>9, <2>3, <2>4, <1>1, <1>2, <1>3, <1>4
  <2>6. \A m \in Sequence : m # n => intents'[RootOf(s, m)].status \notin Live
    BY <1>9, <2>2, <1>1, <1>2, <1>3, <1>4
  <2> QED BY <1>9, <2>5, <2>6, <1>2, <1>3, <1>4, <1>n, <1>i DEF n, root, entry
<1> QED BY <1>5, <1>6, <1>7, <1>8, <1>9

-----------------------------------------------------------------------------
(* Types.                                                                  *)

\* A reactivation frees the blocked rows and touches no other: a blocked root
\* is the newest one, so it is the one that is kept.
LEMMA ReactivatedRows ==
  ASSUME TypeOK, LiveRootIsNewest, Reactivate
  PROVE  /\ intents' \in [Intents -> Row] /\ reactivated' \in BOOLEAN
         /\ \A i \in Intents :
              \/ intents'[i] = intents[i]
              \/ intents[i].status = "blocked" /\ intents'[i].status = "pending"
<1>t. intents \in [Intents -> Row] /\ reactivated \in BOOLEAN
  BY DEF TypeOK
<1>1. CASE ~(Blocked # {} /\ ~reactivated)
  BY <1>1, <1>t DEF Reactivate
<1>2. CASE Blocked # {} /\ ~reactivated
  <2> DEFINE some == Blocked \ RootIntents
             replies == ToPending(intents, some)
  <2>1. /\ intents' = [i \in Intents |-> IF i \in RootIntents THEN ReactivateRoot(replies, i.of)[i]
                                         ELSE replies[i]]
        /\ reactivated' = TRUE
    BY <1>2 DEF Reactivate
  <2>2. \A i \in Intents : i \in some => intents[i].status = "blocked" /\ i \notin RootIntents
    BY DEF Blocked, With
  <2> HIDE DEF some
  <2>3. /\ replies \in [Intents -> Row]
        /\ \A i \in Intents : /\ i \in some => replies[i].status = "pending"
                              /\ i \notin some => replies[i] = intents[i]
    BY <1>t, RowsWritten
  <2> HIDE DEF replies
  <2>4. ASSUME NEW i \in RootIntents
        PROVE  /\ ReactivateRoot(replies, i.of)[i] \in Row
               /\ \/ ReactivateRoot(replies, i.of)[i] = intents[i]
                  \/ /\ intents[i].status = "blocked"
                     /\ ReactivateRoot(replies, i.of)[i].status = "pending"
    <3> DEFINE s == i.of
               roots == {j \in RootIntents : j.of = s /\ replies[j].status \in Live \cup {"delivered"}}
               keeper == CHOOSE j \in roots : \A k \in roots : k.n <= j.n
               kept == SupersedeLiveRootSync(replies, s, keeper)
               back == IF replies[keeper].status = "blocked" THEN {keeper} ELSE {}
    <3>0. RootIntents \subseteq Intents
      BY DEF Intents
    <3>1. \A j \in RootIntents : replies[j] = intents[j]
      BY <2>2, <2>3, <3>0
    <3>2. CASE ~\E j \in roots : replies[j].status = "blocked"
      BY <3>2, <3>1, <3>0, <1>t DEF ReactivateRoot
    <3>3. CASE \E j \in roots : replies[j].status = "blocked"
      <4>1. PICK b \in roots : replies[b].status = "blocked"
        BY <3>3
      <4>2. ASSUME NEW j \in roots
            PROVE  j.n <= b.n
        <5>1. /\ j = RootOf(s, j.n) /\ j.n \in Sequence /\ b = RootOf(s, b.n) /\ b.n \in Sequence
              /\ s \in Situations
          BY IntentNames
        <5>2. intents[b].status \in Live /\ intents[j].status # "absent"
          BY <3>1, <4>1 DEF Live
        <5> QED BY <5>1, <5>2 DEF LiveRootIsNewest
      <4>3. keeper \in roots /\ b.n <= keeper.n
        BY <4>1, <4>2
      <4>4. keeper = b
        <5> HIDE DEF keeper
        <5>1. /\ keeper = RootOf(s, keeper.n) /\ keeper.n \in Sequence
              /\ b = RootOf(s, b.n) /\ b.n \in Sequence
          BY <4>3, IntentNames
        <5>2. keeper.n <= b.n
          BY <4>2, <4>3
        <5>3. keeper.n = b.n
          BY <5>1, <5>2, <4>3 DEF Sequence
        <5> QED BY <5>1, <5>3
      <4>5. \A j \in LiveRoots(replies, s) : j = b
        <5>1. SUFFICES ASSUME NEW j \in LiveRoots(replies, s) PROVE j = b
          OBVIOUS
        <5>2. j \in roots /\ j \in RootIntents
          BY DEF LiveRoots
        <5>3. /\ j = RootOf(s, j.n) /\ j.n \in Sequence /\ b = RootOf(s, b.n) /\ b.n \in Sequence
              /\ s \in Situations
          BY <5>2, IntentNames
        <5>4. intents[j].status \in Live /\ intents[b].status # "absent"
          BY <3>1, <4>1, <5>2 DEF LiveRoots, Live
        <5>5. b.n <= j.n /\ j.n <= b.n
          BY <5>2, <5>3, <5>4, <4>2 DEF LiveRootIsNewest
        <5> QED BY <5>3, <5>5 DEF Sequence
      <4>6. LiveRoots(replies, s) \ {keeper} = {}
        BY <4>4, <4>5
      <4>7. kept = Retire(replies, {})
        BY <4>6 DEF SupersedeLiveRootSync
      <4>8. ReactivateRoot(replies, s) = ToPending(kept, back)
        BY <3>3 DEF ReactivateRoot
      <4>9. back = {b}
        BY <4>1, <4>4
      <4> HIDE DEF kept, back, keeper
      <4>10. kept \in [Intents -> Row] /\ \A j \in Intents : kept[j] = replies[j]
        BY <4>7, <2>3, RowsWritten
      <4>11. /\ ToPending(kept, {b}) \in [Intents -> Row]
             /\ \A j \in Intents : /\ j = b => ToPending(kept, {b})[j].status = "pending"
                                   /\ j # b => ToPending(kept, {b})[j] = kept[j]
        BY <4>10, RowsWritten
      <4> QED BY <4>1, <4>8, <4>9, <4>10, <4>11, <3>1, <3>0
    <3> QED BY <3>2, <3>3
  <2>5. ASSUME NEW i \in Intents
        PROVE  /\ intents'[i] \in Row
               /\ \/ intents'[i] = intents[i]
                  \/ intents[i].status = "blocked" /\ intents'[i].status = "pending"
    <3>1. CASE i \in RootIntents
      BY <3>1, <2>1, <2>4
    <3>2. CASE i \notin RootIntents
      BY <3>2, <2>1, <2>2, <2>3
    <3> QED BY <3>1, <3>2
  <2> QED BY <2>1, <2>5
<1> QED BY <1>1, <1>2

\* A redriven intent was failed; there is no live root beside it to retire.
LEMMA RedrivenRows ==
  ASSUME TypeOK, LiveRootIsNewest, NEW i \in Intents, Redrive(i)
  PROVE  /\ intents' \in [Intents -> Row]
         /\ intents[i].status = "failed" /\ intents'[i].status = "pending"
         /\ \A j \in Intents \ {i} : intents'[j] = intents[j]
<1>t. intents \in [Intents -> Row] /\ intents[i].status = "failed"
  BY DEF TypeOK, Redrive
<1>1. i.kind = "root" => \A j \in LiveRoots(intents, i.of) : j = i
  <2> SUFFICES ASSUME i.kind = "root", NEW j \in LiveRoots(intents, i.of) PROVE j = i
    OBVIOUS
  <2>1. i \in RootIntents /\ j \in RootIntents /\ j.of = i.of /\ intents[j].status \in Live
    BY IntentKinds DEF LiveRoots
  <2>2. /\ i = RootOf(i.of, i.n) /\ j = RootOf(i.of, j.n) /\ i.of \in Situations
        /\ i.n \in Sequence /\ j.n \in Sequence
    BY <2>1, IntentNames
  <2>3. intents[i].status \in Live /\ intents[i].status # "absent" /\ intents[j].status # "absent"
    BY <2>1, <1>t DEF Live
  <2>4. i.n <= j.n /\ j.n <= i.n
    BY <2>1, <2>2, <2>3 DEF LiveRootIsNewest
  <2> QED BY <2>2, <2>4 DEF Sequence
<1>2. intents' = ToPending(intents, {i})
  <2>1. i.kind = "root" => ~\E j \in LiveRoots(intents, i.of) : intents[j].status = "pending"
    BY <1>1, <1>t
  <2> QED BY <2>1 DEF Redrive
<1> QED BY <1>t, <1>2, RowsWritten

\* Every step keeps the types.
LEMMA TypesNext == Inv /\ [Next]_vars => TypeOK'
<1> SUFFICES ASSUME Inv, [Next]_vars PROVE TypeOK'
  OBVIOUS
<1> USE DEF planVars, gapVars, workVars, slackVars, budgets
<1>t. TypeOK
  BY DEF Inv
<1>g. ObserveFailure => /\ gaps' \in [Gaps -> Gap] /\ openGap' \in 0..MaxGaps
                        /\ window' \in NoWindow..Threshold /\ windowGap' \in BOOLEAN
                        /\ outageGaps' \in Nat
  <2> SUFFICES ASSUME ObserveFailure
               PROVE  /\ gaps' \in [Gaps -> Gap] /\ openGap' \in 0..MaxGaps
                      /\ window' \in NoWindow..Threshold /\ windowGap' \in BOOLEAN
                      /\ outageGaps' \in Nat
    OBVIOUS
  <2>1. CASE window = NoWindow
    <3>1. window' = 0 /\ windowGap' = FALSE /\ UNCHANGED <<gaps, openGap, outageGaps>>
      BY <2>1 DEF ObserveFailure
    <3>2. window' \in NoWindow..Threshold
      BY <3>1, NotificationsAssumption DEF NoWindow
    <3> QED BY <3>1, <3>2, <1>t DEF TypeOK
  <2>2. CASE window # NoWindow /\ UNCHANGED <<gaps, openGap, windowGap, outageGaps>>
    BY <2>2, <1>t DEF TypeOK, ObserveFailure
  <2>3. CASE window # NoWindow /\ ~UNCHANGED <<gaps, openGap, windowGap, outageGaps>>
    <3>1. PICK g \in Gaps : /\ gaps' = [gaps EXCEPT ![g].status = "open"]
                            /\ openGap' = g /\ windowGap' = TRUE /\ outageGaps' = outageGaps + 1
                            /\ UNCHANGED window
      BY <2>3 DEF ObserveFailure
    <3>2. [gaps[g] EXCEPT !.status = "open"] \in Gap
      BY <1>t DEF TypeOK, Gap
    <3>3. gaps' \in [Gaps -> Gap]
      BY <3>1, <3>2, <1>t DEF TypeOK
    <3> QED BY <3>1, <3>3, <1>t, NotificationsAssumption DEF TypeOK, Gaps
  <2> QED BY <2>1, <2>2, <2>3
<1>n. NextClaim /\ pc \in {"send", "answer"} =>
        /\ pc' \in {"probe", "deliver"} /\ todo' = todo /\ cur' = NoIntent /\ seen' = 0 /\ answer' = "none"
        /\ UNCHANGED <<probed, reactivated>>
  BY DEF NextClaim
<1>f. Fault => faults' \in 0..MaxFaults /\ UNCHANGED <<outages, rejects>>
  BY <1>t, NotificationsAssumption DEF TypeOK, Fault
<1>c. cur \in Intents => \A st \in {"pending", "blocked", "failed", "delivered"} : SetCurrent(st) \in [Intents -> Row]
  <2> SUFFICES ASSUME cur \in Intents, NEW st \in {"pending", "blocked", "failed", "delivered"}
               PROVE  SetCurrent(st) \in [Intents -> Row]
    OBVIOUS
  <2> DEFINE w == [intents[cur] EXCEPT !.status = st, !.claim = "free"]
  <2>1. SetCurrent(st) = [intents EXCEPT ![cur] = w]
    BY DEF SetCurrent
  <2>2. w \in Row
    BY <1>t DEF TypeOK, Row, Live
  <2> HIDE DEF w
  <2> QED BY <2>1, <2>2, <1>t DEF TypeOK
<1>d. pc \in {"send", "answer"} => cur \in Intents
  BY <1>t DEF Inv, WorkerIsIdle, TypeOK
<1>k. \A i \in Intents, c \in {"free", "held", "dead"} : [intents[i] EXCEPT !.claim = c] \in Row
  BY <1>t DEF TypeOK, Row
<1>a. Accept /\ pc = "send" => /\ channel' \in [Situations -> Seq(Sequence)]
                               /\ thread' \in [Situations -> SUBSET Sequence] /\ seen' \in Nat
                               /\ \A s \in Situations : coord[s] <= Len(channel'[s])
  <2> SUFFICES ASSUME Accept, pc = "send"
               PROVE  /\ channel' \in [Situations -> Seq(Sequence)]
                      /\ thread' \in [Situations -> SUBSET Sequence] /\ seen' \in Nat
                      /\ \A s \in Situations : coord[s] <= Len(channel'[s])
    OBVIOUS
  <2>c. cur \in Intents
    BY <1>d
  <2>1. CASE cur.kind = "root"
    <3>1. cur \in RootIntents /\ cur.of \in Situations /\ cur.n \in Sequence /\ cur = RootOf(cur.of, cur.n)
      BY <2>1, <2>c, IntentKinds, IntentNames
    <3>2. seen = coord[cur.of] /\ seen \in Nat /\ seen <= Len(channel[cur.of])
      BY <3>1, <1>t DEF Inv, RootIsRead, TypeOK
    <3>3. channel[cur.of] \in Seq(Sequence) /\ Len(channel[cur.of]) \in Nat
      BY <3>1, <1>t DEF TypeOK
    <3>4. thread' = thread /\ seen' \in Nat
      BY <2>1, <3>2, <3>3 DEF Accept
    <3>5. CASE seen = 0
      <4>1. channel' = [channel EXCEPT ![cur.of] = Append(channel[cur.of], cur.n)]
        BY <3>5, <2>1 DEF Accept
      <4>2. /\ Append(channel[cur.of], cur.n) \in Seq(Sequence)
            /\ Len(Append(channel[cur.of], cur.n)) = Len(channel[cur.of]) + 1
        BY <3>1, <3>3, AppendProperties
      <4> QED BY <3>1, <3>3, <3>4, <4>1, <4>2, <1>t DEF TypeOK
    <3>6. CASE seen # 0
      <4>1. channel' = [channel EXCEPT ![cur.of] = [channel[cur.of] EXCEPT ![seen] = cur.n]]
        BY <3>6, <2>1 DEF Accept
      <4>2. seen \in 1..Len(channel[cur.of])
        BY <3>2, <3>3, <3>6
      <4>3. /\ [channel[cur.of] EXCEPT ![seen] = cur.n] \in Seq(Sequence)
            /\ Len([channel[cur.of] EXCEPT ![seen] = cur.n]) = Len(channel[cur.of])
        BY <3>1, <3>3, <4>2, ExceptSeq
      <4> QED BY <3>1, <3>3, <3>4, <4>1, <4>3, <1>t DEF TypeOK
    <3> QED BY <3>5, <3>6
  <2>2. CASE cur.kind # "root"
    <3>1. channel' = channel /\ seen' = seen
      BY <2>2 DEF Accept
    <3>2. thread' \in [Situations -> SUBSET Sequence]
      <4>1. CASE cur.kind # "reply"
        BY <4>1, <1>t DEF Accept, TypeOK
      <4>2. CASE cur.kind = "reply"
        <5>1. cur.of \in Situations /\ cur.n \in Sequence
          BY <4>2, <2>c, IntentKinds, IntentNames
        <5> QED BY <5>1, <4>2, <1>t DEF Accept, TypeOK
      <4> QED BY <4>1, <4>2
    <3> QED BY <3>1, <3>2, <1>t DEF TypeOK
  <2> QED BY <2>1, <2>2
<1>1. ASSUME NEW s \in Situations, Load(s)
      PROVE  TypeOK'
  <2>1. [read |-> TRUE, published |-> Published(s), owed |-> Owed(s)]
           \in [read : BOOLEAN, published : BOOLEAN, owed : BOOLEAN]
    BY DEF Published, Owed
  <2> QED BY <2>1, <1>1, <1>t DEF Load, TypeOK
<1>2. ASSUME NEW s \in Situations, NEW poke \in BOOLEAN, NEW authority \in BOOLEAN,
             NEW meetsFloor \in BOOLEAN, NEW reply \in BOOLEAN, NEW overtakes \in BOOLEAN,
             NEW class \in {"thread", "transient"},
             Commit(s, poke, authority, meetsFloor, reply, class, overtakes)
      PROVE  TypeOK'
  <2>1. commits[s] + 1 \in Sequence /\ intents' \in [Intents -> Row]
    BY <1>2, CommitRows DEF Inv
  <2>2. /\ commits' = [commits EXCEPT ![s] = commits[s] + 1] /\ plan' = [plan EXCEPT ![s] = NoPlan]
        /\ UNCHANGED <<coord, gapVars, workVars, slackVars, budgets>>
    BY <1>2 DEF Commit
  <2>3. commits' \in [Situations -> 0..MaxCommits]
    BY <2>1, <2>2, <1>t DEF TypeOK, Sequence
  <2>4. plan' \in [Situations -> [read : BOOLEAN, published : BOOLEAN, owed : BOOLEAN]]
    BY <2>2, <1>t DEF TypeOK, NoPlan
  <2> QED BY <2>1, <2>2, <2>3, <2>4, <1>t DEF TypeOK
<1>3. CASE Startup
  <2>1. CASE slack = "down"
    BY <2>1, <1>3, <1>t DEF Startup, TypeOK
  <2>2. CASE slack # "down"
    <3>1. intents' \in [Intents -> Row] /\ reactivated' \in BOOLEAN
      BY <2>2, <1>3, ReactivatedRows DEF Inv, Startup
    <3> QED BY <3>1, <2>2, <1>3, <1>t DEF Startup, TypeOK
  <2> QED BY <2>1, <2>2
<1>4. CASE ProbeOk
  <2>1. intents' \in [Intents -> Row] /\ reactivated' \in BOOLEAN
    BY <1>4, ReactivatedRows DEF Inv, ProbeOk
  <2> QED BY <2>1, <1>4, <1>t DEF ProbeOk, TypeOK
<1>5. CASE ProbeFails
  BY <1>5, <1>g, <1>t DEF ProbeFails, TypeOK
<1>6. CASE SkipProbe
  BY <1>6, <1>t DEF SkipProbe, TypeOK
<1>7. CASE Recover
  <2>1. gaps' \in [Gaps -> Gap] /\ intents' \in [Intents -> Row]
    <3>1. CASE OpenGaps = {}
      BY <3>1, <1>7, <1>t DEF Recover, RecoverGap, TypeOK
    <3>2. CASE OpenGaps # {}
      <4>1. PICK g \in Gaps :
              /\ gaps' = [gaps EXCEPT ![g] = [status |-> "replaying", upto |-> commits]]
              /\ intents' = [intents EXCEPT ![NoticeOf(g)].status = "pending"]
        BY <3>2, <1>7 DEF Recover, RecoverGap
      <4>2. [status |-> "replaying", upto |-> commits] \in Gap
        BY <1>t DEF TypeOK, Gap
      <4>3. [intents[NoticeOf(g)] EXCEPT !.status = "pending"] \in Row /\ NoticeOf(g) \in Intents
        <5>1. NoticeOf(g) \in Intents
          BY IntentNames
        <5>2. intents[NoticeOf(g)] \in Row
          BY <5>1, <1>t DEF TypeOK
        <5> QED BY <5>1, <5>2 DEF Row, Live
      <4> QED BY <4>1, <4>2, <4>3, <1>t DEF TypeOK
    <3> QED BY <3>1, <3>2
  <2> QED BY <2>1, <1>7, <1>t DEF Recover, RecoverGap, TypeOK
<1>8. CASE CompleteGap
  <2>1. gaps' \in [Gaps -> Gap] /\ openGap' \in 0..MaxGaps
    <3>1. CASE UNCHANGED <<gaps, openGap>>
      BY <3>1, <1>t DEF TypeOK
    <3>2. CASE ~UNCHANGED <<gaps, openGap>>
      <4>1. PICK g \in Gaps : /\ gaps' = [gaps EXCEPT ![g].status = "complete"]
                              /\ openGap' = IF openGap = g THEN 0 ELSE openGap
        BY <3>2, <1>8 DEF CompleteGap
      <4>2. [gaps[g] EXCEPT !.status = "complete"] \in Gap
        BY <1>t DEF TypeOK, Gap
      <4> QED BY <4>1, <4>2, <1>t, NotificationsAssumption DEF TypeOK
    <3> QED BY <3>1, <3>2
  <2> QED BY <2>1, <1>8, <1>t DEF CompleteGap, TypeOK
<1>9. CASE ClaimNothing
  BY <1>9, <1>t DEF ClaimNothing, TypeOK
<1>10. ASSUME NEW taken \in SUBSET Claimable, Claim(taken)
       PROVE  TypeOK'
  <2>1. Claimable \subseteq Intents
    BY IntentNames DEF Claimable, DueNotices, Intents
  <2>2. intents' \in [Intents -> Row]
    BY <1>10, <1>k, <1>t DEF Claim, TypeOK
  <2> QED BY <2>1, <2>2, <1>10, <1>t DEF Claim, TypeOK
<1>11. ASSUME NEW i \in todo, Prepare(i)
       PROVE  TypeOK'
  <2>1. i \in Intents
    BY <1>t DEF TypeOK
  <2>2. seen' \in Nat
    <3>1. CASE i.kind = "root"
      BY <3>1, <2>1, <1>11, <1>t, IntentKinds, IntentNames DEF Prepare, TypeOK
    <3>2. CASE i.kind # "root"
      BY <3>2, <1>11 DEF Prepare
    <3> QED BY <3>1, <3>2
  <2> QED BY <2>1, <2>2, <1>11, <1>t DEF Prepare, TypeOK
<1>12. CASE SendAccepted
  BY <1>12, <1>a, <1>t DEF SendAccepted, Sent, TypeOK
<1>13. CASE SendUnanswered
  BY <1>13, <1>a, <1>f, <1>t DEF SendUnanswered, Sent, TypeOK
<1>14. CASE SendFails
  BY <1>14, <1>t DEF SendFails, Sent, TypeOK
<1>15. CASE SendRefused
  BY <1>15, <1>t, NotificationsAssumption DEF SendRefused, Sent, Reject, TypeOK
<1>16. CASE AcknowledgeDelivered
  <2>1. intents' \in [Intents -> Row]
    BY <1>16, <1>c, <1>d, <1>t DEF AcknowledgeDelivered, TypeOK
  <2>2. coord' \in [Situations -> Nat] /\ \A s \in Situations : coord'[s] <= Len(channel[s])
    <3>1. CASE coord' = coord
      BY <3>1, <1>t DEF TypeOK
    <3>2. CASE coord' # coord
      <4>1. cur.kind = "root" /\ coord' = [coord EXCEPT ![cur.of] = seen]
        BY <3>2, <1>16 DEF AcknowledgeDelivered, RootAcknowledged
      <4>2. cur.of \in Situations /\ cur.n \in Sequence /\ cur = RootOf(cur.of, cur.n)
        BY <4>1, <1>16, <1>d, IntentKinds, IntentNames DEF AcknowledgeDelivered
      <4>3. seen \in 1..Len(channel[cur.of])
        BY <4>2, <1>16 DEF Inv, RootIsRead, AcknowledgeDelivered
      <4>4. \A s \in Situations : Len(channel[s]) \in Nat
        BY <1>t DEF TypeOK
      <4> QED BY <4>1, <4>2, <4>3, <4>4, <1>t DEF TypeOK
    <3> QED BY <3>1, <3>2
  <2>3. /\ window' = NoWindow /\ outageGaps' = 0 /\ UNCHANGED <<gaps, openGap, windowGap>>
        /\ UNCHANGED <<planVars, slackVars, budgets>> /\ NextClaim /\ pc = "answer"
    BY <1>16 DEF AcknowledgeDelivered, ObserveSuccess
  <2>4. window' \in NoWindow..Threshold
    BY <2>3, NotificationsAssumption DEF NoWindow
  <2> QED BY <2>1, <2>2, <2>3, <2>4, <1>n, <1>t DEF TypeOK
<1>17. CASE AcknowledgeFailure
  <2>1. intents' \in [Intents -> Row]
    <3>1. StatusAfter(answer) \in {"pending", "blocked", "failed", "delivered"}
      BY DEF StatusAfter
    <3> QED BY <3>1, <1>17, <1>c, <1>d, <1>t DEF AcknowledgeFailure, TypeOK
  <2>2. /\ gaps' \in [Gaps -> Gap] /\ openGap' \in 0..MaxGaps
        /\ window' \in NoWindow..Threshold /\ windowGap' \in BOOLEAN
        /\ outageGaps' \in Nat
    BY <1>17, <1>g, <1>t DEF AcknowledgeFailure, TypeOK
  <2>3. UNCHANGED <<coord, planVars, slackVars, budgets>> /\ NextClaim /\ pc = "answer"
    BY <1>17 DEF AcknowledgeFailure
  <2> QED BY <2>1, <2>2, <2>3, <1>n, <1>t DEF TypeOK
<1>18. CASE Abandon
  <2>1. intents' \in [Intents -> Row]
    <3>1. pc \in {"send", "answer"} /\ intents' = IF Fenced THEN [intents EXCEPT ![cur].claim = "dead"] ELSE intents
      BY <1>18 DEF Abandon
    <3> QED BY <3>1, <1>d, <1>k, <1>t DEF TypeOK
  <2>2. UNCHANGED <<coord, planVars, gapVars, slackVars>> /\ NextClaim /\ pc \in {"send", "answer"} /\ Fault
    BY <1>18 DEF Abandon
  <2> QED BY <2>1, <2>2, <1>n, <1>f, <1>t DEF TypeOK
<1>19. ASSUME NEW i \in Intents, LeaseExpires(i)
       PROVE  TypeOK'
  <2>1. intents' \in [Intents -> Row]
    BY <1>19, <1>k, <1>t DEF LeaseExpires, TypeOK
  <2> QED BY <2>1, <1>19, <1>t DEF LeaseExpires, TypeOK
<1>20. CASE Crash
  <2>1. intents' \in [Intents -> Row]
    BY <1>20, <1>k, <1>t DEF Crash, TypeOK
  <2>2. plan' \in [Situations -> [read : BOOLEAN, published : BOOLEAN, owed : BOOLEAN]]
    BY <1>20 DEF Crash, NoPlan
  <2> QED BY <2>1, <2>2, <1>20, <1>f, <1>t DEF Crash, TypeOK
<1>21. ASSUME NEW i \in Intents, Redrive(i)
       PROVE  TypeOK'
  <2>1. intents' \in [Intents -> Row]
    BY <1>21, RedrivenRows DEF Inv
  <2> QED BY <2>1, <1>21, <1>t DEF Redrive, TypeOK
<1>22. CASE SlackFails
  BY <1>22, <1>t, NotificationsAssumption DEF SlackFails, TypeOK
<1>23. CASE SlackReturns
  BY <1>23, <1>t DEF SlackReturns, TypeOK
<1>24. CASE Tick
  BY <1>24, <1>t, NotificationsAssumption DEF Tick, TypeOK, NoWindow
<1>25. CASE UNCHANGED vars
  BY <1>25, <1>t DEF vars, TypeOK
<1> QED
  BY <1>1, <1>2, <1>3, <1>4, <1>5, <1>6, <1>7, <1>8, <1>9, <1>10, <1>11, <1>12, <1>13, <1>14, <1>15,
     <1>16, <1>17, <1>18, <1>19, <1>20, <1>21, <1>22, <1>23, <1>24, <1>25 DEF Next, Worker, Controller

-----------------------------------------------------------------------------
(* Steps that change neither what is live nor what Slack shows.            *)

\* The same roots and entries are live, and the same exist.
SameLife ==
  \A i \in RootIntents \cup ReplyIntents :
    /\ intents'[i].status \in Live <=> intents[i].status \in Live
    /\ intents'[i].status = "absent" <=> intents[i].status = "absent"

Quiet == SameLife /\ UNCHANGED <<commits, coord, channel, thread>>

\* No cycle reads anything, no intent is newly claimed.
KeepsPlans == plan' = plan \/ plan' = [s \in Situations |-> NoPlan]
KeepsClaims ==
  \A i \in Intents : i \in Claimed' =>
    i \in Claimed /\ (i \in RootIntents => intents'[i] = intents[i] \/ intents'[i].status = "superseded")

\* Rows that keep their status keep everything that is said of live rows.
LEMMA SameStatus ==
  ASSUME \A i \in RootIntents \cup ReplyIntents : intents'[i].status = intents[i].status
  PROVE  SameLife
BY DEF SameLife

\* A quiet step keeps what is said of roots, entries and messages.
LEMMA QuietKeepsRows ==
  ASSUME Inv, Quiet
  PROVE  /\ \A s \in Situations : (Owed(s)' <=> Owed(s)) /\ (Published(s)' <=> Published(s))
         /\ IntentsAreCommitted' /\ LiveRootIsNewest' /\ RootIsShown'
         /\ ChannelIsCommitted' /\ PostedIsSettled'
<1>0. \A s \in Situations, n \in Sequence :
        /\ intents'[RootOf(s, n)].status \in Live <=> intents[RootOf(s, n)].status \in Live
        /\ intents'[RootOf(s, n)].status = "absent" <=> intents[RootOf(s, n)].status = "absent"
        /\ intents'[ReplyOf(s, n)].status \in Live <=> intents[ReplyOf(s, n)].status \in Live
        /\ intents'[ReplyOf(s, n)].status = "absent" <=> intents[ReplyOf(s, n)].status = "absent"
  BY IntentNames DEF Quiet, SameLife
<1>1. \A s \in Situations : (Owed(s)' <=> Owed(s)) /\ (Published(s)' <=> Published(s))
  BY <1>0, OwedMeans DEF Quiet, Published
<1>2. IntentsAreCommitted'
  BY <1>0 DEF Inv, Quiet, IntentsAreCommitted
<1>3. LiveRootIsNewest'
  BY <1>0 DEF Inv, LiveRootIsNewest
<1>4. RootIsShown'
  BY <1>0, <1>1 DEF Inv, Quiet, RootIsShown
<1>5. ChannelIsCommitted'
  BY DEF Inv, Quiet, ChannelIsCommitted
<1>6. PostedIsSettled'
  BY <1>0 DEF Inv, Quiet, PostedIsSettled
<1> QED BY <1>1, <1>2, <1>3, <1>4, <1>5, <1>6

\* A quiet step that claims nothing keeps what is said of the claims.
LEMMA QuietKeepsClaims ==
  ASSUME Inv, Quiet, KeepsClaims
  PROVE  ClaimedRoots' /\ ClaimedReplies'
<1>0. \A s \in Situations : (Owed(s)' <=> Owed(s)) /\ (Published(s)' <=> Published(s))
  BY QuietKeepsRows
<1>1. ClaimedRoots'
  <2>1. SUFFICES ASSUME NEW s \in Situations, NEW n \in Sequence, RootOf(s, n) \in Claimed'
                 PROVE  /\ n <= commits'[s]
                        /\ \/ intents'[RootOf(s, n)].status = "pending" /\ intents'[RootOf(s, n)].claim = "held"
                           \/ intents'[RootOf(s, n)].status = "superseded"
                        /\ Published(s)' \/ Owed(s)'
    BY DEF ClaimedRoots
  <2>2. /\ RootOf(s, n) \in Claimed
        /\ intents'[RootOf(s, n)] = intents[RootOf(s, n)] \/ intents'[RootOf(s, n)].status = "superseded"
    BY <2>1, IntentNames DEF KeepsClaims
  <2> QED BY <2>2, <1>0 DEF Inv, ClaimedRoots, Quiet
<1>2. ClaimedReplies'
  <2>1. SUFFICES ASSUME NEW s \in Situations, NEW n \in Sequence, ReplyOf(s, n) \in Claimed'
                 PROVE  /\ n <= commits'[s]
                        /\ \A m \in Sequence : m < n => intents'[ReplyOf(s, m)].status \notin Live
                        /\ \A m \in Sequence : ReplyOf(s, m) \in Claimed' => m = n
                        /\ \A m \in thread'[s] : m <= n
                        /\ Published(s)' /\ channel'[s][coord'[s]] >= n
    BY DEF ClaimedReplies
  <2>2. \A m \in Sequence : ReplyOf(s, m) \in Claimed' => ReplyOf(s, m) \in Claimed
    BY IntentNames DEF KeepsClaims
  <2>3. \A m \in Sequence : intents'[ReplyOf(s, m)].status \in Live <=> intents[ReplyOf(s, m)].status \in Live
    BY IntentNames DEF Quiet, SameLife
  <2> QED BY <2>1, <2>2, <2>3, <1>0 DEF Inv, ClaimedReplies, Quiet
<1> QED BY <1>1, <1>2

\* And one that reads nothing keeps what the cycles have read.
LEMMA QuietKeepsPlans ==
  ASSUME Inv, Quiet, KeepsPlans
  PROVE  PlansHold'
<1>0. \A s \in Situations : (Owed(s)' <=> Owed(s)) /\ (Published(s)' <=> Published(s))
  BY QuietKeepsRows
<1>1. CASE plan' = plan
  BY <1>0, <1>1 DEF Inv, PlansHold, Quiet
<1>2. CASE plan' = [s \in Situations |-> NoPlan]
  BY <1>2 DEF PlansHold, NoPlan
<1> QED BY <1>1, <1>2 DEF KeepsPlans

\* The message a root was read from is not touched.
LEMMA ReadingKept ==
  ASSUME Inv, cur' = NoIntent \/ UNCHANGED <<pc, cur, seen, answer, coord, channel>>
  PROVE  RootIsRead'
<1>1. CASE cur' = NoIntent
  BY <1>1, IntentNames DEF RootIsRead
<1>2. CASE UNCHANGED <<pc, cur, seen, answer, coord, channel>>
  BY <1>2 DEF Inv, RootIsRead
<1> QED BY <1>1, <1>2

\* A post whose answer is not taken in is a fault's.
LEMMA PostsKept ==
  ASSUME Inv, UNCHANGED <<coord, channel>>,
         \/ faults' = faults /\ \A s \in Situations : ~Answering(s) \/ Answering(s)'
         \/ faults' = faults + 1
  PROVE  PostsAreCounted'
<1>1. \A s \in Situations : Len(channel[s]) \in Nat /\ faults \in Nat
  BY NotificationsAssumption DEF Inv, TypeOK
<1>2. SUFFICES ASSUME NEW s \in Situations
               PROVE  /\ Len(channel'[s]) <= 1 + faults'
                      /\ coord'[s] = 0 /\ ~Answering(s)' => Len(channel'[s]) <= faults'
  BY DEF PostsAreCounted
<1>3. /\ Len(channel[s]) <= 1 + faults
      /\ coord[s] = 0 /\ ~Answering(s) => Len(channel[s]) <= faults
  BY DEF Inv, PostsAreCounted
<1> QED BY <1>1, <1>3

-----------------------------------------------------------------------------
(* The worker and the failure window.                                      *)

\* The controller touches intents, commits and its own cycle only.
LEMMA ControllerFrame ==
  ASSUME NEW s \in Situations, Controller(s)
  PROVE  UNCHANGED <<coord, gapVars, workVars, slackVars, budgets>>
<1>1. CASE Load(s)
  BY <1>1 DEF Load
<1>2. CASE ~Load(s)
  <2>1. PICK poke, authority, meetsFloor, reply, overtakes \in BOOLEAN, class \in {"thread", "transient"} :
          Commit(s, poke, authority, meetsFloor, reply, class, overtakes)
    BY <1>2 DEF Controller
  <2> QED BY <2>1 DEF Commit
<1> QED BY <1>1, <1>2

\* Every step keeps the worker's round in shape.
LEMMA WorkerNext == Inv /\ [Next]_vars => WorkerIsIdle'
<1> SUFFICES ASSUME Inv, [Next]_vars PROVE WorkerIsIdle'
  OBVIOUS
<1> USE DEF planVars, gapVars, workVars, slackVars, budgets
<1>w. WorkerIsIdle /\ todo \subseteq Intents /\ NoIntent \notin Intents
  BY IntentKinds DEF Inv, TypeOK
<1>n. NextClaim /\ pc \in {"send", "answer"} => WorkerIsIdle'
  BY <1>w DEF NextClaim, WorkerIsIdle
<1>u. UNCHANGED <<pc, todo, cur, answer>> => WorkerIsIdle'
  BY <1>w DEF WorkerIsIdle
<1>1. CASE Startup \/ ProbeOk \/ ProbeFails \/ SkipProbe \/ Recover \/ CompleteGap \/ ClaimNothing
  BY <1>1, <1>w DEF Startup, ProbeOk, ProbeFails, SkipProbe, Recover, CompleteGap, ClaimNothing, WorkerIsIdle
<1>2. ASSUME NEW taken \in SUBSET Claimable, Claim(taken)
      PROVE  WorkerIsIdle'
  <2>1. Claimable \subseteq Intents
    BY IntentNames DEF Claimable, DueNotices, Intents
  <2> QED BY <2>1, <1>2, <1>w DEF Claim, WorkerIsIdle
<1>3. ASSUME NEW i \in todo, Prepare(i)
      PROVE  WorkerIsIdle'
  BY <1>3, <1>w DEF Prepare, WorkerIsIdle
<1>4. CASE SendAccepted \/ SendUnanswered \/ SendFails \/ SendRefused
  <2>1. \E outcome : Sent(outcome)
    BY <1>4 DEF SendAccepted, SendUnanswered, SendFails, SendRefused
  <2> QED BY <2>1, <1>w DEF Sent, WorkerIsIdle
<1>5. CASE AcknowledgeDelivered \/ AcknowledgeFailure \/ Abandon
  BY <1>5, <1>n DEF AcknowledgeDelivered, AcknowledgeFailure, Abandon
<1>6. CASE Crash
  BY <1>6 DEF Crash, WorkerIsIdle
<1>7. ASSUME NEW i \in Intents, LeaseExpires(i) \/ Redrive(i)
      PROVE  WorkerIsIdle'
  BY <1>7, <1>u DEF LeaseExpires, Redrive
<1>8. ASSUME NEW s \in Situations, Controller(s)
      PROVE  WorkerIsIdle'
  BY <1>8, <1>u, ControllerFrame
<1>9. CASE SlackFails \/ SlackReturns \/ Tick \/ UNCHANGED vars
  BY <1>9, <1>u DEF SlackFails, SlackReturns, Tick, vars
<1> QED BY <1>1, <1>2, <1>3, <1>4, <1>5, <1>6, <1>7, <1>8, <1>9 DEF Next, Worker

\* Every step keeps the gap of an outage with its window.
LEMMA OutageNext == Inv /\ [Next]_vars => OutageHasGap'
<1> SUFFICES ASSUME Inv, [Next]_vars PROVE OutageHasGap'
  OBVIOUS
<1> USE DEF planVars, gapVars, workVars, slackVars, budgets
<1>o. OutageHasGap /\ outageGaps \in Nat /\ window \in Int
  BY NotificationsAssumption DEF Inv, TypeOK, NoWindow
<1>f. ObserveFailure => OutageHasGap'
  BY <1>o DEF ObserveFailure, OutageHasGap, NoWindow
<1>u. UNCHANGED <<window, windowGap, outageGaps>> => OutageHasGap'
  BY <1>o DEF OutageHasGap
<1>1. CASE ProbeFails
  BY <1>1, <1>f DEF ProbeFails
<1>2. CASE AcknowledgeFailure
  BY <1>2, <1>f, <1>u DEF AcknowledgeFailure
<1>3. CASE AcknowledgeDelivered
  BY <1>3 DEF AcknowledgeDelivered, ObserveSuccess, OutageHasGap
<1>4. CASE Tick
  BY <1>4, <1>o DEF Tick, OutageHasGap, NoWindow
<1>5. CASE Recover
  BY <1>5, <1>u DEF Recover, RecoverGap
<1>6. CASE Startup \/ ProbeOk \/ SkipProbe \/ CompleteGap \/ ClaimNothing
  BY <1>6, <1>u DEF Startup, ProbeOk, SkipProbe, CompleteGap, ClaimNothing
<1>7. CASE \E taken \in SUBSET Claimable : Claim(taken)
  BY <1>7, <1>u DEF Claim
<1>8. CASE \E i \in todo : Prepare(i)
  BY <1>8, <1>u DEF Prepare
<1>9. CASE SendAccepted \/ SendUnanswered \/ SendFails \/ SendRefused
  BY <1>9, <1>u DEF SendAccepted, SendUnanswered, SendFails, SendRefused, Sent
<1>10. CASE Abandon \/ Crash \/ SlackFails \/ SlackReturns
  BY <1>10, <1>u DEF Abandon, Crash, SlackFails, SlackReturns
<1>11. CASE \E i \in Intents : LeaseExpires(i) \/ Redrive(i)
  BY <1>11, <1>u DEF LeaseExpires, Redrive
<1>12. CASE \E s \in Situations : Controller(s)
  <2>1. PICK s \in Situations : Controller(s)
    BY <1>12
  <2>2. UNCHANGED gapVars
    BY <2>1, ControllerFrame
  <2> QED BY <2>2, <1>u
<1>13. CASE UNCHANGED vars
  BY <1>13, <1>u DEF vars
<1> QED
  BY <1>1, <1>2, <1>3, <1>4, <1>5, <1>6, <1>7, <1>8, <1>9, <1>10, <1>11, <1>12, <1>13 DEF Next, Worker

-----------------------------------------------------------------------------
(* What Slack shows, step by step.                                         *)

\* What is said of rows, claims and messages.
Shown ==
  /\ PlansHold /\ IntentsAreCommitted /\ LiveRootIsNewest /\ RootIsShown
  /\ ChannelIsCommitted /\ PostedIsSettled
  /\ ClaimedRoots /\ ClaimedReplies /\ RootIsRead /\ PostsAreCounted

\* The steps of the worker between two rounds of deliveries.
LEMMA BetweenRounds ==
  ASSUME Inv, Startup \/ ProbeOk \/ ProbeFails \/ SkipProbe \/ Recover \/ CompleteGap \/ ClaimNothing
  PROVE  Shown'
<1> USE DEF planVars, gapVars, workVars, slackVars, budgets
<1>w. /\ pc \notin {"deliver", "send", "answer"} /\ cur = NoIntent /\ todo = {}
      /\ UNCHANGED <<commits, coord, channel, thread, plan, faults, cur, todo>>
  BY DEF Inv, WorkerIsIdle, Startup, ProbeOk, ProbeFails, SkipProbe, Recover, CompleteGap, ClaimNothing
<1>1. SameLife
  <2>1. CASE UNCHANGED intents
    BY <2>1, SameStatus
  <2>2. CASE Reactivate
    <3>1. \A i \in Intents : \/ intents'[i] = intents[i]
                             \/ intents[i].status = "blocked" /\ intents'[i].status = "pending"
      BY <2>2, ReactivatedRows DEF Inv
    <3> QED BY <3>1 DEF SameLife, Live, Intents
  <2>3. CASE Recover
    <3>1. CASE OpenGaps = {}
      BY <3>1, <2>1, <2>3 DEF Recover, RecoverGap
    <3>2. CASE OpenGaps # {}
      <4>1. PICK g \in Gaps : intents' = [intents EXCEPT ![NoticeOf(g)].status = "pending"]
        BY <3>2, <2>3 DEF Recover, RecoverGap
      <4>2. \A i \in RootIntents \cup ReplyIntents : i # NoticeOf(g) /\ i \in Intents
        BY DEF RootIntents, ReplyIntents, NoticeOf, Intents
      <4>3. \A i \in RootIntents \cup ReplyIntents : intents'[i] = intents[i]
        BY <4>1, <4>2 DEF Inv, TypeOK
      <4> QED BY <4>3, SameStatus
    <3> QED BY <3>1, <3>2
  <2> QED BY <2>1, <2>2, <2>3 DEF Startup, ProbeOk, ProbeFails, SkipProbe, CompleteGap, ClaimNothing
<1>2. Quiet /\ KeepsPlans
  BY <1>1, <1>w DEF Quiet, KeepsPlans
<1>3. KeepsClaims
  <2>1. \A i \in Intents : i # NoIntent
    BY IntentKinds
  <2> QED BY <2>1, <1>w DEF KeepsClaims, Claimed
<1>4. RootIsRead'
  BY <1>w, ReadingKept
<1>5. PostsAreCounted'
  <2>1. \A s \in Situations : ~Answering(s)
    BY <1>w DEF Answering
  <2> QED BY <2>1, <1>w, PostsKept
<1> QED BY <1>2, <1>3, <1>4, <1>5, QuietKeepsRows, QuietKeepsClaims, QuietKeepsPlans DEF Shown

\* Steps beside the worker: leases, redrives, Slack and the clock.
LEMMA BesideTheWorker ==
  ASSUME Inv, (\E i \in Intents : LeaseExpires(i) \/ Redrive(i)) \/ SlackFails \/ SlackReturns \/ Tick
              \/ UNCHANGED vars
  PROVE  Shown'
<1> USE DEF planVars, gapVars, workVars, slackVars, budgets
<1>w. UNCHANGED <<commits, coord, channel, thread, plan, faults, pc, cur, todo, seen, answer>>
  BY DEF LeaseExpires, Redrive, SlackFails, SlackReturns, Tick, vars
<1>1. SameLife /\ KeepsClaims
  <2>1. CASE UNCHANGED intents
    BY <2>1, <1>w, SameStatus DEF KeepsClaims, Claimed
  <2>2. ASSUME NEW i \in Intents, LeaseExpires(i)
        PROVE  SameLife /\ KeepsClaims
    <3>1. intents[i].claim = "dead" /\ intents[i] \in Row /\ intents' = [intents EXCEPT ![i].claim = "free"]
      BY <2>2 DEF LeaseExpires, Inv, TypeOK
    <3>2. [intents[i] EXCEPT !.claim = "free"].status = intents[i].status
      BY <3>1 DEF Row
    <3>3. \A j \in Intents : /\ intents'[j].status = intents[j].status
                             /\ j # i => intents'[j] = intents[j]
      BY <3>1, <3>2 DEF Inv, TypeOK
    <3>4. SameLife
      BY <3>3, SameStatus DEF Intents
    <3>5. ASSUME NEW j \in RootIntents, j \in Claimed
          PROVE  intents'[j] = intents[j] \/ intents'[j].status = "superseded"
      <4>1. j \in Intents /\ (j = i => intents[j].status = "superseded")
        BY <3>1, <3>5, IntentNames DEF Inv, ClaimedRoots, Intents
      <4> QED BY <4>1, <3>3
    <3> QED BY <3>4, <3>5, <1>w DEF KeepsClaims, Claimed
  <2>3. ASSUME NEW i \in Intents, Redrive(i)
        PROVE  SameLife /\ KeepsClaims
    <3>1. /\ intents[i].status = "failed" /\ intents'[i].status = "pending"
          /\ \A j \in Intents \ {i} : intents'[j] = intents[j]
      BY <2>3, RedrivenRows DEF Inv
    <3>2. SameLife
      BY <3>1 DEF SameLife, Live, Intents
    <3>3. ASSUME NEW j \in RootIntents, j \in Claimed
          PROVE  intents'[j] = intents[j]
      <4>1. j \in Intents /\ j # i
        BY <3>1, <3>3, IntentNames DEF Inv, ClaimedRoots, Intents
      <4> QED BY <4>1, <3>1
    <3> QED BY <3>2, <3>3, <1>w DEF KeepsClaims, Claimed
  <2> QED BY <2>1, <2>2, <2>3 DEF SlackFails, SlackReturns, Tick, vars
<1>2. Quiet /\ KeepsPlans
  BY <1>1, <1>w DEF Quiet, KeepsPlans
<1>3. RootIsRead'
  BY <1>w, ReadingKept
<1>4. PostsAreCounted'
  <2>1. \A s \in Situations : ~Answering(s) \/ Answering(s)'
    BY <1>w DEF Answering
  <2> QED BY <2>1, <1>w, PostsKept
<1> QED BY <1>1, <1>2, <1>3, <1>4, QuietKeepsRows, QuietKeepsClaims, QuietKeepsPlans DEF Shown

\* Deliveries that end without a success: the row stays live.
LEMMA EndsWithoutSuccess ==
  ASSUME Inv, AcknowledgeFailure \/ Abandon \/ Crash
  PROVE  Shown'
<1> USE DEF planVars, gapVars, workVars, slackVars, budgets
<1>w. /\ UNCHANGED <<commits, coord, channel, thread>> /\ KeepsPlans
      /\ cur' = NoIntent /\ todo' \subseteq todo
  BY DEF AcknowledgeFailure, Abandon, Crash, NextClaim, KeepsPlans
<1>d. NoIntent \notin Intents /\ cur \notin todo
  BY IntentKinds DEF Inv, WorkerIsIdle
<1>1. SameLife /\ KeepsClaims
  <2>1. CASE Crash
    <3>1. \A i \in Intents : [intents[i] EXCEPT !.claim = "dead"].status = intents[i].status
      BY DEF Inv, TypeOK, Row
    <3>2. \A i \in Intents : intents'[i].status = intents[i].status
      BY <2>1, <3>1 DEF Crash
    <3>3. todo' = {}
      BY <2>1 DEF Crash
    <3> QED BY <3>2, <3>3, <1>w, <1>d, SameStatus DEF KeepsClaims, Claimed, Intents
  <2>2. CASE AcknowledgeFailure \/ Abandon
    <3>1. cur \in Intents /\ intents[cur] \in Row /\ intents \in [Intents -> Row]
      BY <2>2 DEF AcknowledgeFailure, Abandon, Inv, WorkerIsIdle, TypeOK
    <3>2. \A i \in Intents \ {cur} : intents'[i] = intents[i]
      BY <2>2, <3>1 DEF AcknowledgeFailure, Abandon, SetCurrent
    <3>3. intents'[cur] = intents[cur] \/ (intents[cur].status \in Live /\ intents'[cur].status \in Live)
      <4>1. CASE ~Fenced
        BY <4>1, <2>2 DEF AcknowledgeFailure, Abandon
      <4>2. CASE Fenced /\ Abandon
        <5>1. intents'[cur] = [intents[cur] EXCEPT !.claim = "dead"]
          BY <4>2, <3>1 DEF Abandon
        <5>2. intents'[cur].status = intents[cur].status
          BY <5>1, <3>1 DEF Row
        <5> QED BY <5>2, <4>2 DEF Fenced, Live
      <4>3. CASE Fenced /\ AcknowledgeFailure
        <5>1. intents'[cur] = [intents[cur] EXCEPT !.status = StatusAfter(answer), !.claim = "free"]
          BY <4>3, <3>1 DEF AcknowledgeFailure, SetCurrent
        <5>2. intents'[cur].status = StatusAfter(answer)
          BY <5>1, <3>1 DEF Row
        <5> QED BY <5>2, <4>3 DEF Fenced, Live, StatusAfter
      <4> QED BY <4>1, <4>2, <4>3, <2>2
    <3>4. SameLife
      BY <3>2, <3>3 DEF SameLife, Live, Intents
    <3> QED BY <3>2, <3>4, <1>w, <1>d DEF KeepsClaims, Claimed
  <2> QED BY <2>1, <2>2
<1>2. Quiet
  BY <1>1, <1>w DEF Quiet
<1>3. RootIsRead'
  BY <1>w, ReadingKept
<1>4. PostsAreCounted'
  <2>1. CASE AcknowledgeFailure
    <3>1. faults' = faults /\ \A s \in Situations : ~Answering(s)
      BY <2>1 DEF AcknowledgeFailure, Answering
    <3> QED BY <3>1, <1>w, PostsKept
  <2>2. CASE Abandon \/ Crash
    <3>1. faults' = faults + 1
      BY <2>2 DEF Abandon, Crash, Fault
    <3> QED BY <3>1, <1>w, PostsKept
  <2> QED BY <2>1, <2>2
<1> QED BY <1>1, <1>2, <1>3, <1>4, <1>w, QuietKeepsRows, QuietKeepsClaims, QuietKeepsPlans DEF Shown

\* A controller cycle reads the publication state.
LEMMA LoadShows ==
  ASSUME Inv, NEW s \in Situations, Load(s)
  PROVE  Shown'
<1> USE DEF planVars, gapVars, workVars, slackVars, budgets
<1>w. UNCHANGED <<intents, commits, coord, channel, thread, faults, pc, cur, todo, seen, answer>>
  BY DEF Load
<1>1. SameLife /\ KeepsClaims /\ Quiet
  BY <1>w, SameStatus DEF KeepsClaims, Claimed, Quiet
<1>2. PlansHold'
  <2>1. \A t \in Situations : (Owed(t)' <=> Owed(t)) /\ (Published(t)' <=> Published(t))
    BY <1>1, QuietKeepsRows
  <2>2. /\ plan' = [plan EXCEPT ![s] = [read |-> TRUE, published |-> Published(s), owed |-> Owed(s)]]
        /\ commits[s] < MaxCommits
    BY DEF Load
  <2>3. \A t \in Situations \ {s} : plan'[t] = plan[t]
    BY <2>2 DEF Inv, TypeOK
  <2>4. plan'[s].published = Published(s) /\ plan'[s].owed = Owed(s)
    BY <2>2 DEF Inv, TypeOK
  <2> QED BY <2>1, <2>2, <2>3, <2>4, <1>w DEF Inv, PlansHold
<1>3. RootIsRead'
  BY <1>w, ReadingKept
<1>4. PostsAreCounted'
  <2>1. \A t \in Situations : ~Answering(t) \/ Answering(t)'
    BY <1>w DEF Answering
  <2> QED BY <2>1, <1>w, PostsKept
<1> QED BY <1>1, <1>2, <1>3, <1>4, QuietKeepsRows, QuietKeepsClaims DEF Shown

\* The worker claims heads: nothing of their Situation is live before them,
\* and the root shows the newest state.
LEMMA ClaimShows ==
  ASSUME Inv, NEW taken \in SUBSET Claimable, Claim(taken)
  PROVE  Shown'
<1> USE DEF planVars, gapVars, workVars, slackVars, budgets
<1>w. /\ UNCHANGED <<commits, coord, channel, thread, plan, faults, cur>> /\ todo' = taken /\ pc = "claim"
      /\ cur = NoIntent
      /\ \A i \in Intents : intents'[i] = IF i \in taken THEN [intents[i] EXCEPT !.claim = "held"] ELSE intents[i]
  BY DEF Claim, Inv, WorkerIsIdle
<1>r. \A i \in Intents : /\ [intents[i] EXCEPT !.claim = "held"].status = intents[i].status
                         /\ [intents[i] EXCEPT !.claim = "held"].claim = "held"
  BY DEF Inv, TypeOK, Row
<1>s. \A i \in Intents : intents'[i].status = intents[i].status
  BY <1>w, <1>r
<1>1. SameLife /\ Quiet /\ KeepsPlans
  BY <1>w, <1>s, SameStatus DEF Quiet, KeepsPlans, Intents
<1>o. \A s \in Situations : (Owed(s)' <=> Owed(s)) /\ (Published(s)' <=> Published(s))
  BY <1>1, QuietKeepsRows
<1>c. \A s \in Situations, n \in Sequence : /\ RootOf(s, n) \in Claimed' <=> RootOf(s, n) \in taken
                                            /\ ReplyOf(s, n) \in Claimed' <=> ReplyOf(s, n) \in taken
  BY <1>w, IntentNames DEF Claimed
<1>h. \A i \in RootIntents \cup ReplyIntents : i \in taken => IsHead(i) /\ Unclaimed(i) /\ RootReady(i)
  <2>1. \A i \in RootIntents \cup ReplyIntents : i \notin DueNotices
    <3>1. \A g : NoticeOf(g).kind = "notice"
      BY DEF NoticeOf
    <3>2. \A i \in DueNotices : i.kind = "notice"
      BY <3>1 DEF DueNotices
    <3>3. \A i \in RootIntents \cup ReplyIntents : i.kind # "notice"
      BY DEF RootIntents, ReplyIntents
    <3> QED BY <3>2, <3>3
  <2> QED BY <2>1 DEF Claimable
<1>2. ClaimedRoots'
  <2>0. SUFFICES ASSUME NEW s \in Situations, NEW n \in Sequence, RootOf(s, n) \in Claimed'
                 PROVE  /\ n <= commits'[s]
                        /\ \/ intents'[RootOf(s, n)].status = "pending" /\ intents'[RootOf(s, n)].claim = "held"
                           \/ intents'[RootOf(s, n)].status = "superseded"
                        /\ Published(s)' \/ Owed(s)'
    BY DEF ClaimedRoots
  <2>1. RootOf(s, n) \in taken
    BY <2>0, <1>c
  <2>2. RootOf(s, n) \in Intents /\ intents[RootOf(s, n)].status = "pending"
    <3>1. RootOf(s, n) \in RootIntents /\ RootOf(s, n) \in Intents
      BY IntentNames
    <3> QED BY <3>1, <2>1, <1>h DEF Unclaimed
  <2>3. n <= commits[s]
    <3>1. n \in Nat /\ commits[s] \in Nat
      BY NotificationsAssumption DEF Inv, TypeOK, Sequence
    <3>2. ~(n > commits[s])
      BY <2>2 DEF Inv, IntentsAreCommitted
    <3> QED BY <3>1, <3>2
  <2>4. Owed(s)
    BY <2>2, OwedMeans DEF Live
  <2> QED BY <2>1, <2>2, <2>3, <2>4, <1>o, <1>w, <1>r
<1>3. ClaimedReplies'
  <2>0. SUFFICES ASSUME NEW s \in Situations, NEW n \in Sequence, ReplyOf(s, n) \in Claimed'
                 PROVE  /\ n <= commits'[s]
                        /\ \A m \in Sequence : m < n => intents'[ReplyOf(s, m)].status \notin Live
                        /\ \A m \in Sequence : ReplyOf(s, m) \in Claimed' => m = n
                        /\ \A m \in thread'[s] : m <= n
                        /\ Published(s)' /\ channel'[s][coord'[s]] >= n
    BY DEF ClaimedReplies
  <2>1. ReplyOf(s, n) \in taken
    BY <2>0, <1>c
  <2>2. ASSUME NEW k \in Sequence, ReplyOf(s, k) \in taken
        PROVE  /\ intents[ReplyOf(s, k)].status = "pending" /\ intents[ReplyOf(s, k)].status \in Live
               /\ ~Owed(s) /\ Published(s)
               /\ \A m \in Sequence : m < k => intents[ReplyOf(s, m)].status \notin Live
    <3>1. /\ ReplyOf(s, k).kind = "reply" /\ ReplyOf(s, k).of = s /\ ReplyOf(s, k).n = k
          /\ ReplyOf(s, k) \in ReplyIntents
      BY IntentNames
    <3>2. IsHead(ReplyOf(s, k)) /\ Unclaimed(ReplyOf(s, k)) /\ RootReady(ReplyOf(s, k))
      BY <2>2, <3>1, <1>h
    <3>3. \A m \in Sequence : ReplyOf(s, m) \in ReplyIntents /\ ReplyOf(s, m).of = s /\ ReplyOf(s, m).n = m
      BY IntentNames
    <3> QED BY <3>1, <3>2, <3>3 DEF IsHead, Unclaimed, RootReady, Owed, Live
  <2>3. n \in Nat /\ commits[s] \in Nat /\ intents[ReplyOf(s, n)].status # "absent"
    BY <2>1, <2>2, NotificationsAssumption DEF Inv, TypeOK, Sequence
  <2>4. intents[RootOf(s, n)].status # "absent" /\ n <= commits[s]
    BY <2>3 DEF Inv, IntentsAreCommitted
  <2>5. channel[s][coord[s]] >= n
    <3>1. n <= channel[s][coord[s]]
      BY <2>1, <2>2, <2>4 DEF Inv, RootIsShown
    <3>2. channel[s][coord[s]] \in Sequence
      <4>1. coord[s] # 0 /\ coord[s] \in Nat /\ coord[s] <= Len(channel[s]) /\ channel[s] \in Seq(Sequence)
        BY <2>1, <2>2 DEF Inv, TypeOK, Published
      <4>2. coord[s] \in 1..Len(channel[s])
        BY <4>1
      <4> QED BY <4>1, <4>2
    <3> QED BY <3>1, <3>2, <2>3 DEF Sequence
  <2>6. \A m \in Sequence : m < n => intents'[ReplyOf(s, m)].status \notin Live
    BY <2>1, <2>2, <1>s, IntentNames
  <2>7. \A m \in Sequence : ReplyOf(s, m) \in taken => m = n
    <3>1. SUFFICES ASSUME NEW m \in Sequence, ReplyOf(s, m) \in taken PROVE m = n
      OBVIOUS
    <3>2. ~(m < n) /\ ~(n < m)
      BY <3>1, <2>1, <2>2
    <3> QED BY <3>2 DEF Sequence
  <2>8. ASSUME NEW m \in thread[s]
        PROVE  m <= n
    <3>1. m \in Sequence
      BY <2>8 DEF Inv, TypeOK
    <3>2. ~(n < m)
      BY <2>1, <2>2, <2>8 DEF Inv, PostedIsSettled
    <3> QED BY <3>1, <3>2 DEF Sequence
  <2>9. Published(s)'
    BY <2>1, <2>2, <1>o
  <2> QED BY <2>4, <2>5, <2>6, <2>7, <2>8, <2>9, <1>w, <1>c
<1>4. RootIsRead'
  BY <1>w, ReadingKept
<1>5. PostsAreCounted'
  <2>1. \A s \in Situations : ~Answering(s)
    BY <1>w DEF Answering
  <2> QED BY <2>1, <1>w, PostsKept
<1> QED BY <1>1, <1>2, <1>3, <1>4, <1>5, QuietKeepsRows, QuietKeepsPlans DEF Shown

\* A delivery is prepared: a root is sent only when it is the current state.
LEMMA PrepareShows ==
  ASSUME Inv, NEW i \in todo, Prepare(i)
  PROVE  Shown'
<1> USE DEF planVars, gapVars, workVars, slackVars, budgets
<1>w. /\ UNCHANGED <<intents, commits, coord, channel, thread, plan, faults>>
      /\ todo' = todo \ {i} /\ cur' = i /\ pc = "deliver" /\ i \in Intents
  BY DEF Prepare, Inv, TypeOK
<1>1. SameLife /\ Quiet /\ KeepsPlans /\ KeepsClaims
  BY <1>w, SameStatus DEF Quiet, KeepsPlans, KeepsClaims, Claimed
<1>2. RootIsRead'
  <2>1. SUFFICES ASSUME NEW s \in Situations, NEW n \in Sequence, i = RootOf(s, n)
                 PROVE  /\ pc' = "send" => seen' = coord[s]
                        /\ ~(pc' = "answer" /\ answer' = "ok")
                        /\ pc' = "send" => \A k \in 1..Len(channel[s]) : channel[s][k] <= n
    BY <1>w DEF RootIsRead
  <2>2. i.kind = "root" /\ i.of = s /\ i.n = n
    BY <2>1, IntentNames
  <2>3. seen' = coord[s] /\ (pc' = "send" => n = commits[s])
    BY <2>2 DEF Prepare, Sendable
  <2>4. ~(pc' = "answer" /\ answer' = "ok")
    BY DEF Prepare
  <2> QED BY <2>3, <2>4 DEF Inv, ChannelIsCommitted
<1>3. PostsAreCounted'
  <2>1. \A s \in Situations : ~Answering(s)
    BY <1>w DEF Answering
  <2> QED BY <2>1, <1>w, PostsKept
<1> QED BY <1>1, <1>2, <1>3, QuietKeepsRows, QuietKeepsClaims, QuietKeepsPlans DEF Shown

\* A request that does not reach the channel.
LEMMA SendFailsShows ==
  ASSUME Inv, SendFails \/ SendRefused
  PROVE  Shown'
<1> USE DEF planVars, gapVars, workVars, slackVars, budgets
<1>w. /\ UNCHANGED <<intents, commits, coord, channel, thread, plan, faults, cur, todo>>
      /\ pc = "send" /\ pc' = "answer" /\ answer' # "ok"
  BY DEF SendFails, SendRefused, Sent, Reject
<1>1. SameLife /\ Quiet /\ KeepsPlans /\ KeepsClaims
  BY <1>w, SameStatus DEF Quiet, KeepsPlans, KeepsClaims, Claimed
<1>2. RootIsRead'
  BY <1>w DEF RootIsRead
<1>3. PostsAreCounted'
  <2>1. \A s \in Situations : ~Answering(s)
    BY <1>w DEF Answering
  <2> QED BY <2>1, <1>w, PostsKept
<1> QED BY <1>1, <1>2, <1>3, QuietKeepsRows, QuietKeepsClaims, QuietKeepsPlans DEF Shown

\* What the channel of a Situation holds.
LEMMA ChannelEntries ==
  ASSUME NEW q \in Seq(Sequence)
  PROVE  Len(q) \in Nat /\ \A k \in 1..Len(q) : q[k] \in Sequence /\ q[k] \in Int
<1>1. Len(q) \in Nat
  OBVIOUS
<1>2. \A k \in 1..Len(q) : q[k] \in Sequence
  OBVIOUS
<1>3. Sequence \subseteq Int
  BY DEF Sequence
<1> QED BY <1>1, <1>2, <1>3

\* Slack takes a root: the version its message shows does not go back.
LEMMA RootTaken ==
  ASSUME Inv, Accept, pc = "send", cur.kind = "root"
  PROVE  /\ cur.of \in Situations /\ cur.n \in Sequence /\ cur = RootOf(cur.of, cur.n)
         /\ thread' = thread
         /\ seen' \in 1..Len(channel'[cur.of]) /\ channel'[cur.of][seen'] = cur.n
         /\ coord[cur.of] \in {0, seen'}
         /\ coord[cur.of] = 0 => Len(channel'[cur.of]) = Len(channel[cur.of]) + 1
         /\ coord[cur.of] # 0 => Len(channel'[cur.of]) = Len(channel[cur.of])
         /\ \A s \in Situations \ {cur.of} : channel'[s] = channel[s]
         /\ \A k \in 1..Len(channel'[cur.of]) : channel'[cur.of][k] <= cur.n
         /\ \A k \in 1..Len(channel[cur.of]) : channel'[cur.of][k] >= channel[cur.of][k]
<1> DEFINE s == cur.of
           q == channel[s]
<1>1. s \in Situations /\ cur.n \in Sequence /\ cur = RootOf(s, cur.n)
  <2>1. cur \in Intents
    BY DEF Inv, WorkerIsIdle, TypeOK
  <2> QED BY <2>1, IntentKinds, IntentNames
<1>2. seen = coord[s] /\ \A k \in 1..Len(q) : q[k] <= cur.n
  BY <1>1 DEF Inv, RootIsRead
<1>3. q \in Seq(Sequence) /\ Len(q) \in Nat /\ seen \in 0..Len(q) /\ channel \in [Situations -> Seq(Sequence)]
  <2>1. /\ channel \in [Situations -> Seq(Sequence)] /\ coord \in [Situations -> Nat]
        /\ \A t \in Situations : coord[t] <= Len(channel[t])
    BY DEF Inv, TypeOK
  <2>2. q \in Seq(Sequence)
    BY <1>1, <2>1
  <2>3. Len(q) \in Nat
    BY <2>2
  <2> QED BY <1>1, <1>2, <2>1, <2>2, <2>3
<1>4. \A k \in 1..Len(q) : q[k] \in Int
  BY <1>3, ChannelEntries
<1>5. thread' = thread
  BY DEF Accept
<1>6. CASE seen = 0
  <2>1. channel' = [channel EXCEPT ![s] = Append(q, cur.n)] /\ seen' = Len(q) + 1
    BY <1>6 DEF Accept
  <2>2. channel'[s] = Append(q, cur.n) /\ \A t \in Situations \ {s} : channel'[t] = channel[t]
    BY <2>1, <1>1, <1>3
  <2>3. /\ Len(channel'[s]) = Len(q) + 1
        /\ \A k \in 1..Len(q) : channel'[s][k] = q[k]
        /\ channel'[s][Len(q) + 1] = cur.n
    BY <2>2, <1>1, <1>3, AppendProperties
  <2>4. cur.n \in Int
    BY <1>1 DEF Sequence
  <2>5. \A k \in 1..Len(channel'[s]) : k \in 1..Len(q) \/ k = Len(q) + 1
    BY <2>3, <1>3
  <2> HIDE DEF s, q
  <2>6. \A k \in 1..Len(channel'[s]) : channel'[s][k] <= cur.n
    BY <2>3, <2>4, <2>5, <1>2
  <2>7. \A k \in 1..Len(q) : channel'[s][k] >= q[k]
    BY <2>3, <1>4
  <2>8. seen' \in 1..Len(channel'[s]) /\ channel'[s][seen'] = cur.n
    BY <2>1, <2>3, <1>3
  <2>9. coord[s] = 0
    BY <1>2, <1>6
  <2>10. /\ coord[s] = 0 => Len(channel'[s]) = Len(q) + 1
         /\ coord[s] # 0 => Len(channel'[s]) = Len(q)
    BY <2>3, <2>9
  <2> QED BY <2>2, <2>6, <2>7, <2>8, <2>9, <2>10, <1>1, <1>5 DEF s, q
<1>7. CASE seen # 0
  <2>1. channel' = [channel EXCEPT ![s] = [q EXCEPT ![seen] = cur.n]] /\ seen' = seen
    BY <1>7 DEF Accept
  <2>2. channel'[s] = [q EXCEPT ![seen] = cur.n] /\ \A t \in Situations \ {s} : channel'[t] = channel[t]
    BY <2>1, <1>1, <1>3
  <2>3. seen \in 1..Len(q)
    BY <1>3, <1>7
  <2>4. /\ Len(channel'[s]) = Len(q)
        /\ \A k \in 1..Len(q) : channel'[s][k] = IF k = seen THEN cur.n ELSE q[k]
    BY <2>2, <2>3, <1>1, <1>3, ExceptSeq
  <2>5. cur.n \in Int
    BY <1>1 DEF Sequence
  <2> HIDE DEF s, q
  <2>6. \A k \in 1..Len(channel'[s]) : channel'[s][k] <= cur.n
    BY <2>4, <2>5, <1>2
  <2>7. \A k \in 1..Len(q) : channel'[s][k] >= q[k]
    BY <2>4, <2>5, <1>2, <1>4
  <2>8. seen' \in 1..Len(channel'[s]) /\ channel'[s][seen'] = cur.n
    BY <2>1, <2>3, <2>4
  <2>9. coord[s] = seen' /\ coord[s] # 0
    BY <1>2, <1>7, <2>1
  <2>10. /\ coord[s] = 0 => Len(channel'[s]) = Len(q) + 1
         /\ coord[s] # 0 => Len(channel'[s]) = Len(q)
    BY <2>4, <2>9
  <2> QED BY <2>2, <2>6, <2>7, <2>8, <2>9, <2>10, <1>1, <1>5 DEF s, q
<1> QED BY <1>3, <1>6, <1>7

\* Slack takes the message, whether the worker hears of it or not.
LEMMA SendShows ==
  ASSUME Inv, SendAccepted \/ SendUnanswered
  PROVE  Shown'
<1> USE DEF planVars, gapVars, workVars, slackVars, budgets
<1>w. /\ UNCHANGED <<intents, commits, coord, plan, cur, todo>>
      /\ pc = "send" /\ pc' = "answer" /\ Accept /\ cur \in Intents
      /\ \/ answer' = "ok" /\ faults' = faults
         \/ answer' = "retryable" /\ faults' = faults + 1
  BY DEF SendAccepted, SendUnanswered, Sent, Fault, Inv, WorkerIsIdle, TypeOK
<1>o. /\ \A s \in Situations : (Owed(s)' <=> Owed(s)) /\ (Published(s)' <=> Published(s))
      /\ Claimed' = Claimed
  BY <1>w, OwedMeans DEF Published, Claimed
<1>k. \A s \in Situations : /\ channel[s] \in Seq(Sequence) /\ coord[s] \in Nat /\ coord[s] <= Len(channel[s])
                            /\ Len(channel[s]) \in Nat /\ commits[s] \in Nat /\ faults \in Nat
                            /\ Published(s) => coord[s] \in 1..Len(channel[s]) /\ channel[s][coord[s]] \in Int
  <2>1. SUFFICES ASSUME NEW s \in Situations
                 PROVE  /\ channel[s] \in Seq(Sequence) /\ coord[s] \in Nat /\ coord[s] <= Len(channel[s])
                        /\ Len(channel[s]) \in Nat /\ commits[s] \in Nat /\ faults \in Nat
                        /\ Published(s) => coord[s] \in 1..Len(channel[s]) /\ channel[s][coord[s]] \in Int
    OBVIOUS
  <2>2. channel[s] \in Seq(Sequence) /\ coord[s] \in Nat /\ coord[s] <= Len(channel[s])
    BY DEF Inv, TypeOK
  <2>3. commits[s] \in Nat /\ faults \in Nat
    BY NotificationsAssumption DEF Inv, TypeOK
  <2>4. Len(channel[s]) \in Nat
    BY <2>2
  <2>5. Published(s) => coord[s] \in 1..Len(channel[s])
    BY <2>2, <2>4 DEF Published
  <2>6. \A k \in 1..Len(channel[s]) : channel[s][k] \in Int
    BY <2>2, ChannelEntries
  <2> QED BY <2>2, <2>3, <2>4, <2>5, <2>6
<1>p. PlansHold' /\ IntentsAreCommitted' /\ LiveRootIsNewest' /\ ClaimedRoots'
  BY <1>w, <1>o DEF Inv, PlansHold, IntentsAreCommitted, LiveRootIsNewest, ClaimedRoots
<1>1. CASE cur.kind = "root"
  <2> DEFINE r == cur.of
             v == cur.n
  <2>1. /\ r \in Situations /\ v \in Sequence /\ cur = RootOf(r, v)
        /\ thread' = thread
        /\ seen' \in 1..Len(channel'[r]) /\ channel'[r][seen'] = v
        /\ coord[r] \in {0, seen'}
        /\ coord[r] = 0 => Len(channel'[r]) = Len(channel[r]) + 1
        /\ coord[r] # 0 => Len(channel'[r]) = Len(channel[r])
        /\ \A s \in Situations \ {r} : channel'[s] = channel[s]
        /\ \A k \in 1..Len(channel'[r]) : channel'[r][k] <= v
        /\ \A k \in 1..Len(channel[r]) : channel'[r][k] >= channel[r][k]
    BY <1>1, <1>w, RootTaken
  <2>2. v <= commits[r] /\ v \in Int
    BY <2>1 DEF Inv, ClaimedRoots, Claimed, Sequence
  <2> HIDE DEF r, v
  <2>k. /\ Len(channel[r]) \in Nat /\ coord[r] \in Nat /\ commits[r] \in Int /\ faults \in Nat
        /\ Published(r) => coord[r] \in 1..Len(channel[r]) /\ channel[r][coord[r]] \in Int
    BY <2>1, <1>k
  <2>i. /\ \A k \in 1..Len(channel'[r]) : channel'[r][k] \in Int
        /\ Len(channel'[r]) \in Nat /\ Len(channel[r]) <= Len(channel'[r])
    <3>1. channel'[r] \in Seq(Sequence)
      <4>1. [Next]_vars
        BY DEF Next, Worker
      <4>2. channel' \in [Situations -> Seq(Sequence)]
        BY <4>1, TypesNext DEF TypeOK
      <4> QED BY <4>2, <2>1
    <3>2. Len(channel[r]) <= Len(channel'[r])
      <4>1. CASE coord[r] = 0
        BY <4>1, <2>1, <2>k
      <4>2. CASE coord[r] # 0
        BY <4>2, <2>1, <2>k
      <4> QED BY <4>1, <4>2
    <3> QED BY <3>1, <3>2, ChannelEntries
  <2>3. RootIsShown'
    <3>1. SUFFICES ASSUME NEW s \in Situations, NEW n \in Sequence, Published(s), ~Owed(s),
                          intents[RootOf(s, n)].status # "absent"
                   PROVE  n <= channel'[s][coord[s]]
      BY <1>w, <1>o DEF RootIsShown
    <3>2. n <= channel[s][coord[s]] /\ n \in Int
      BY <3>1 DEF Inv, RootIsShown, Sequence
    <3>3. CASE s # r
      BY <3>2, <3>3, <2>1
    <3>4. CASE s = r
      <4>1. coord[r] \in 1..Len(channel[r]) /\ channel[r][coord[r]] \in Int
        BY <3>1, <3>4, <1>k
      <4>2. channel'[r][coord[r]] >= channel[r][coord[r]] /\ channel'[r][coord[r]] \in Int
        <5>1. coord[r] \in 1..Len(channel'[r])
          BY <4>1, <2>i, <2>k
        <5> QED BY <4>1, <5>1, <2>1, <2>i
      <4> QED BY <4>1, <4>2, <3>2, <3>4
    <3> QED BY <3>3, <3>4
  <2>4. ChannelIsCommitted'
    <3>1. SUFFICES ASSUME NEW s \in Situations, NEW k \in 1..Len(channel'[s])
                   PROVE  channel'[s][k] <= commits[s]
      BY <1>w DEF ChannelIsCommitted
    <3>2. CASE s # r
      BY <3>1, <3>2, <2>1 DEF Inv, ChannelIsCommitted
    <3>3. CASE s = r
      <4>1. channel'[r][k] <= v /\ channel'[r][k] \in Int /\ commits[r] \in Int
        BY <3>1, <3>3, <2>1, <2>i, <2>k
      <4> QED BY <4>1, <3>3, <2>2
    <3> QED BY <3>2, <3>3
  <2>5. PostedIsSettled'
    BY <1>w, <2>1 DEF Inv, PostedIsSettled
  <2>6. ClaimedReplies'
    <3>1. SUFFICES ASSUME NEW s \in Situations, NEW n \in Sequence, ReplyOf(s, n) \in Claimed'
                   PROVE  /\ n <= commits'[s]
                          /\ \A m \in Sequence : m < n => intents'[ReplyOf(s, m)].status \notin Live
                          /\ \A m \in Sequence : ReplyOf(s, m) \in Claimed' => m = n
                          /\ \A m \in thread'[s] : m <= n
                          /\ Published(s)' /\ channel'[s][coord'[s]] >= n
      BY DEF ClaimedReplies
    <3>2. /\ n <= commits[s]
          /\ \A m \in Sequence : m < n => intents[ReplyOf(s, m)].status \notin Live
          /\ \A m \in Sequence : ReplyOf(s, m) \in Claimed => m = n
          /\ \A m \in thread[s] : m <= n
          /\ Published(s) /\ channel[s][coord[s]] >= n /\ n \in Int
      BY <3>1, <1>o DEF Inv, ClaimedReplies, Sequence
    <3>3. channel'[s][coord[s]] >= n
      <4>1. CASE s # r
        BY <4>1, <3>2, <2>1
      <4>2. CASE s = r
        <5>1. coord[r] \in 1..Len(channel[r]) /\ channel[r][coord[r]] \in Int
          BY <3>2, <4>2, <1>k
        <5>2. coord[r] \in 1..Len(channel'[r])
          BY <5>1, <2>i, <2>k
        <5> QED BY <5>1, <5>2, <4>2, <3>2, <2>1, <2>i
      <4> QED BY <4>1, <4>2
    <3> QED BY <3>2, <3>3, <2>1, <1>w, <1>o
  <2>7. RootIsRead'
    <3>1. SUFFICES ASSUME NEW s \in Situations, NEW n \in Sequence, cur = RootOf(s, n)
                   PROVE  /\ seen' \in 1..Len(channel'[s]) /\ channel'[s][seen'] = n
                          /\ coord[s] \in {0, seen'}
      BY <1>w DEF RootIsRead
    <3>2. s = r /\ n = v
      BY <3>1, IntentNames DEF r, v
    <3> QED BY <3>2, <2>1
  <2>8. PostsAreCounted'
    <3>1. SUFFICES ASSUME NEW s \in Situations
                   PROVE  /\ Len(channel'[s]) <= 1 + faults'
                          /\ coord[s] = 0 /\ ~Answering(s)' => Len(channel'[s]) <= faults'
      BY <1>w DEF PostsAreCounted
    <3>2. /\ Len(channel[s]) <= 1 + faults
          /\ coord[s] = 0 => Len(channel[s]) <= faults
      BY <1>w DEF Inv, PostsAreCounted, Answering
    <3>3. CASE s # r
      BY <3>2, <3>3, <2>1, <1>k, <1>w
    <3>4. CASE s = r
      <4>1. answer' = "ok" => Answering(s)'
        BY <3>4, <1>1, <1>w DEF Answering, r
      <4>2. CASE coord[r] = 0
        BY <4>1, <4>2, <3>2, <3>4, <2>1, <2>k, <1>w
      <4>3. CASE coord[r] # 0
        BY <4>3, <3>2, <3>4, <2>1, <2>k, <1>w
      <4> QED BY <4>2, <4>3
    <3> QED BY <3>3, <3>4
  <2> QED BY <2>3, <2>4, <2>5, <2>6, <2>7, <2>8, <1>p DEF Shown
<1>2. CASE cur.kind # "root"
  <2>1. channel' = channel
    BY <1>2 DEF Accept, SendAccepted, SendUnanswered
  <2>2. RootIsShown' /\ ChannelIsCommitted'
    BY <2>1, <1>w, <1>o DEF Inv, RootIsShown, ChannelIsCommitted
  <2>3. RootIsRead'
    BY <1>2, <1>w, IntentNames DEF RootIsRead
  <2>4. PostsAreCounted'
    <3>1. \A s \in Situations : ~Answering(s)
      BY <1>w DEF Answering
    <3> QED BY <3>1, <2>1, <1>w, PostsKept
  <2>5. PostedIsSettled' /\ ClaimedReplies'
    <3>1. CASE cur.kind # "reply"
      <4>1. thread' = thread
        BY <3>1, <1>w DEF Accept
      <4> QED BY <4>1, <2>1, <1>w, <1>o DEF Inv, PostedIsSettled, ClaimedReplies
    <3>2. CASE cur.kind = "reply"
      <4> DEFINE r == cur.of
                 v == cur.n
      <4>1. r \in Situations /\ v \in Sequence /\ cur = ReplyOf(r, v) /\ cur \in Claimed
        BY <3>2, <1>w, IntentKinds, IntentNames DEF Claimed
      <4>2. thread' = [thread EXCEPT ![r] = @ \cup {v}]
        BY <3>2, <1>w DEF Accept
      <4> HIDE DEF r, v
      <4>3. /\ thread'[r] = thread[r] \cup {v}
            /\ \A s \in Situations \ {r} : thread'[s] = thread[s]
        BY <4>1, <4>2 DEF Inv, TypeOK
      <4>4. /\ v <= commits[r]
            /\ \A m \in Sequence : m < v => intents[ReplyOf(r, m)].status \notin Live
            /\ \A m \in Sequence : ReplyOf(r, m) \in Claimed => m = v
            /\ v \in Int
        BY <4>1 DEF Inv, ClaimedReplies, Sequence
      <4>5. PostedIsSettled'
        <5>1. SUFFICES ASSUME NEW s \in Situations, NEW m \in thread'[s]
                       PROVE  /\ m <= commits[s]
                              /\ \A n \in Sequence : n < m => intents[ReplyOf(s, n)].status \notin Live
          BY <1>w DEF PostedIsSettled
        <5>2. CASE m \in thread[s]
          BY <5>2 DEF Inv, PostedIsSettled
        <5>3. CASE m \notin thread[s]
          <6>1. s = r /\ m = v
            BY <5>3, <4>3
          <6> QED BY <6>1, <4>4
        <5> QED BY <5>2, <5>3
      <4>6. ClaimedReplies'
        <5>1. SUFFICES ASSUME NEW s \in Situations, NEW n \in Sequence, ReplyOf(s, n) \in Claimed'
                       PROVE  /\ n <= commits'[s]
                              /\ \A m \in Sequence : m < n => intents'[ReplyOf(s, m)].status \notin Live
                              /\ \A m \in Sequence : ReplyOf(s, m) \in Claimed' => m = n
                              /\ \A m \in thread'[s] : m <= n
                              /\ Published(s)' /\ channel'[s][coord'[s]] >= n
          BY DEF ClaimedReplies
        <5>2. /\ n <= commits[s]
              /\ \A m \in Sequence : m < n => intents[ReplyOf(s, m)].status \notin Live
              /\ \A m \in Sequence : ReplyOf(s, m) \in Claimed => m = n
              /\ \A m \in thread[s] : m <= n
              /\ Published(s) /\ channel[s][coord[s]] >= n
          BY <5>1, <1>o DEF Inv, ClaimedReplies
        <5>3. \A m \in thread'[s] : m <= n
          <6>1. CASE s # r
            BY <6>1, <5>2, <4>3
          <6>2. CASE s = r
            <7>1. n = v
              BY <6>2, <5>1, <4>4, <1>o
            <7> QED BY <6>2, <7>1, <5>2, <4>3, <4>4
          <6> QED BY <6>1, <6>2
        <5> QED BY <5>2, <5>3, <2>1, <1>w, <1>o
      <4> QED BY <4>5, <4>6
    <3> QED BY <3>1, <3>2
  <2> QED BY <2>2, <2>3, <2>4, <2>5, <1>p DEF Shown
<1> QED BY <1>1, <1>2

\* A success is taken in: the row is settled and the message becomes the root.
LEMMA AcknowledgeShows ==
  ASSUME Inv, AcknowledgeDelivered
  PROVE  Shown'
<1> USE DEF planVars, gapVars, workVars, slackVars, budgets
<1>w. /\ UNCHANGED <<commits, channel, thread, plan, faults>>
      /\ pc = "answer" /\ answer = "ok" /\ pc' # "answer" /\ cur \in Intents
      /\ cur' = NoIntent /\ todo' = todo /\ cur \notin todo
  BY DEF AcknowledgeDelivered, NextClaim, Inv, WorkerIsIdle, TypeOK
<1>r. /\ \A i \in Intents \ {cur} : intents'[i] = intents[i]
      /\ \/ ~Fenced /\ intents'[cur] = intents[cur]
         \/ /\ Fenced /\ intents[cur].status = "pending" /\ intents[cur].claim = "held"
            /\ intents'[cur].status = "delivered"
  <2>1. intents \in [Intents -> Row] /\ intents[cur] \in Row
    BY <1>w DEF Inv, TypeOK
  <2>2. CASE ~Fenced
    BY <2>2 DEF AcknowledgeDelivered
  <2>3. CASE Fenced
    <3>1. intents' = [intents EXCEPT ![cur] = [intents[cur] EXCEPT !.status = "delivered", !.claim = "free"]]
      BY <2>3 DEF AcknowledgeDelivered, SetCurrent
    <3>2. [intents[cur] EXCEPT !.status = "delivered", !.claim = "free"].status = "delivered"
      BY <2>1 DEF Row
    <3> QED BY <3>1, <3>2, <2>1, <2>3, <1>w DEF Fenced
  <2> QED BY <2>2, <2>3
<1>l. \A i \in Intents : /\ intents'[i].status \in Live => intents[i].status \in Live
                         /\ intents'[i].status = "absent" <=> intents[i].status = "absent"
  BY <1>r DEF Live
<1>m. \A s \in Situations, n \in Sequence :
        /\ intents'[RootOf(s, n)].status \in Live => intents[RootOf(s, n)].status \in Live
        /\ intents'[ReplyOf(s, n)].status \in Live => intents[ReplyOf(s, n)].status \in Live
        /\ intents'[RootOf(s, n)].status = "absent" <=> intents[RootOf(s, n)].status = "absent"
        /\ intents'[ReplyOf(s, n)].status = "absent" <=> intents[ReplyOf(s, n)].status = "absent"
  BY <1>l, IntentNames
<1>c. Claimed' = todo \cup {NoIntent} /\ \A i \in Intents : i \in Claimed' => i \in Claimed /\ i # cur
  BY <1>w, IntentKinds DEF Claimed
<1>1. IntentsAreCommitted' /\ LiveRootIsNewest' /\ ChannelIsCommitted' /\ PostedIsSettled'
  BY <1>m, <1>w DEF Inv, IntentsAreCommitted, LiveRootIsNewest, ChannelIsCommitted, PostedIsSettled
<1>2. RootIsRead'
  BY <1>w, ReadingKept
<1>k. \A s \in Situations : coord[s] \in Nat
  BY DEF Inv, TypeOK
\* What the rest needs of the coordinates.
<1>x. /\ \A s \in Situations : coord[s] # 0 => coord'[s] = coord[s]
      /\ \A s \in Situations : Answering(s) => coord'[s] # 0
      /\ \A s \in Situations : coord'[s] = 0 => (Owed(s)' <=> Owed(s))
      /\ \A s \in Situations : coord'[s] # coord[s] => Owed(s)
      /\ \A s \in Situations : ~Owed(s) => ~Owed(s)'
      /\ \A s \in Situations, n \in Sequence :
           Published(s)' /\ ~Owed(s)' /\ intents[RootOf(s, n)].status # "absent" => n <= channel[s][coord'[s]]
  <2>0. \A s \in Situations : Owed(s)' => Owed(s)
    BY <1>m, OwedMeans
  <2>1. CASE cur.kind # "root"
    <3>1. coord' = coord
      BY <2>1 DEF AcknowledgeDelivered, RootAcknowledged
    <3>2. \A i \in RootIntents : i # cur /\ i \in Intents
      BY <2>1 DEF RootIntents, Intents
    <3>3. \A s \in Situations : Owed(s)' <=> Owed(s)
      <4>1. \A s \in Situations, n \in Sequence : intents'[RootOf(s, n)] = intents[RootOf(s, n)]
        BY <3>2, <1>r, IntentNames
      <4> QED BY <4>1, OwedMeans
    <3>4. \A s \in Situations : ~Answering(s)
      BY <2>1 DEF Answering
    <3> QED BY <3>1, <3>3, <3>4 DEF Inv, RootIsShown, Published
  <2>2. CASE cur.kind = "root"
    <3>0. PICK r \in Situations, v \in Sequence : cur = RootOf(r, v)
      BY <2>2, <1>w, IntentKinds, IntentNames
    <3>1. r \in Situations /\ v \in Sequence /\ cur = RootOf(r, v) /\ cur \in Claimed /\ cur.of = r
      BY <3>0, IntentNames DEF Claimed
    <3>2. /\ seen \in 1..Len(channel[r]) /\ channel[r][seen] = v
          /\ coord[r] \in {0, seen}
      BY <3>1, <1>w DEF Inv, RootIsRead
    <3>3. /\ \/ intents[cur].status = "pending" /\ intents[cur].claim = "held"
             \/ intents[cur].status = "superseded"
          /\ Published(r) \/ Owed(r)
      BY <3>1 DEF Inv, ClaimedRoots
    <3>4. coord' = [coord EXCEPT ![r] = seen] \/ (coord' = coord /\ coord[r] # 0)
      BY <2>2, <3>1, <3>3 DEF AcknowledgeDelivered, RootAcknowledged, Fenced
    <3>5. coord'[r] = seen /\ seen # 0 /\ \A s \in Situations \ {r} : coord'[s] = coord[s]
      BY <3>1, <3>2, <3>4 DEF Inv, TypeOK
    <3>6. \A s \in Situations \ {r} : Owed(s)' <=> Owed(s)
      <4>1. \A s \in Situations \ {r}, n \in Sequence : intents'[RootOf(s, n)] = intents[RootOf(s, n)]
        BY <3>1, <1>r, IntentNames
      <4> QED BY <4>1, OwedMeans
    <3>7. ASSUME NEW n \in Sequence, ~Owed(r)', intents[RootOf(r, n)].status # "absent"
          PROVE  n <= v
      <4>1. CASE Fenced
        <5>1. intents[RootOf(r, v)].status \in Live
          BY <4>1, <3>1 DEF Fenced, Live
        <5> QED BY <5>1, <3>1, <3>7 DEF Inv, LiveRootIsNewest
      <4>2. CASE ~Fenced
        <5>1. intents' = intents
          BY <4>2 DEF AcknowledgeDelivered
        <5>2. ~Owed(r)
          <6>1. ~\E m \in Sequence : intents'[RootOf(r, m)].status \in Live
            BY <3>1, <3>7, OwedMeans
          <6> QED BY <6>1, <5>1, <3>1, OwedMeans
        <5>3. Published(r) /\ coord[r] = seen
          BY <5>2, <3>2, <3>3 DEF Published
        <5> QED BY <5>2, <5>3, <3>1, <3>2, <3>7 DEF Inv, RootIsShown
      <4> QED BY <4>1, <4>2
    <3>8. coord'[r] # coord[r] => Owed(r)
      BY <3>2, <3>3, <3>5 DEF Published
    <3>9. \A s \in Situations : Answering(s) => s = r
      BY <3>1 DEF Answering
    <3>10. ASSUME NEW s \in Situations, NEW n \in Sequence,
                  Published(s)', ~Owed(s)', intents[RootOf(s, n)].status # "absent"
           PROVE  n <= channel[s][coord'[s]]
      <4>1. CASE s = r
        BY <4>1, <3>2, <3>5, <3>7, <3>10
      <4>2. CASE s # r
        <5>1. coord'[s] = coord[s] /\ Published(s) /\ ~Owed(s)
          BY <4>2, <3>5, <3>6, <3>10 DEF Published
        <5> QED BY <5>1, <3>10 DEF Inv, RootIsShown
      <4> QED BY <4>1, <4>2
    <3>11. \A s \in Situations : coord[s] # 0 => coord'[s] = coord[s]
      BY <3>2, <3>5
    <3>12. \A s \in Situations : coord'[s] = 0 => (Owed(s)' <=> Owed(s))
      BY <3>5, <3>6
    <3> QED BY <2>0, <3>5, <3>8, <3>9, <3>10, <3>11, <3>12
  <2> QED BY <2>1, <2>2
<1>3. RootIsShown'
  BY <1>x, <1>m, <1>w DEF RootIsShown
<1>4. PlansHold'
  <2>1. SUFFICES ASSUME NEW s \in Situations, plan[s].read
                 PROVE  /\ commits[s] < MaxCommits
                        /\ ~plan[s].published /\ ~plan[s].owed => ~Published(s)' /\ ~Owed(s)'
    BY <1>w DEF PlansHold
  <2>2. /\ commits[s] < MaxCommits
        /\ ~plan[s].published /\ ~plan[s].owed => ~Published(s) /\ ~Owed(s)
    BY <2>1 DEF Inv, PlansHold
  <2>3. ~Published(s) /\ ~Owed(s) => ~Published(s)' /\ ~Owed(s)'
    BY <1>x DEF Published
  <2> QED BY <2>2, <2>3
<1>5. ClaimedRoots'
  <2>1. SUFFICES ASSUME NEW s \in Situations, NEW n \in Sequence, RootOf(s, n) \in Claimed'
                 PROVE  /\ n <= commits'[s]
                        /\ \/ intents'[RootOf(s, n)].status = "pending" /\ intents'[RootOf(s, n)].claim = "held"
                           \/ intents'[RootOf(s, n)].status = "superseded"
                        /\ Published(s)' \/ Owed(s)'
    BY DEF ClaimedRoots
  <2>2. RootOf(s, n) \in Claimed /\ intents'[RootOf(s, n)] = intents[RootOf(s, n)]
    BY <2>1, <1>c, <1>r, IntentNames
  <2>3. /\ n <= commits[s]
        /\ \/ intents[RootOf(s, n)].status = "pending" /\ intents[RootOf(s, n)].claim = "held"
           \/ intents[RootOf(s, n)].status = "superseded"
        /\ Published(s) \/ Owed(s)
    BY <2>2 DEF Inv, ClaimedRoots
  <2>4. Published(s)' \/ Owed(s)'
    BY <2>3, <1>x DEF Published
  <2> QED BY <2>2, <2>3, <2>4, <1>w
<1>6. ClaimedReplies'
  <2>1. SUFFICES ASSUME NEW s \in Situations, NEW n \in Sequence, ReplyOf(s, n) \in Claimed'
                 PROVE  /\ n <= commits'[s]
                        /\ \A m \in Sequence : m < n => intents'[ReplyOf(s, m)].status \notin Live
                        /\ \A m \in Sequence : ReplyOf(s, m) \in Claimed' => m = n
                        /\ \A m \in thread'[s] : m <= n
                        /\ Published(s)' /\ channel'[s][coord'[s]] >= n
    BY DEF ClaimedReplies
  <2>2. \A m \in Sequence : ReplyOf(s, m) \in Claimed' => ReplyOf(s, m) \in Claimed
    BY <1>c, IntentNames
  <2>3. /\ n <= commits[s]
        /\ \A m \in Sequence : m < n => intents[ReplyOf(s, m)].status \notin Live
        /\ \A m \in Sequence : ReplyOf(s, m) \in Claimed => m = n
        /\ \A m \in thread[s] : m <= n
        /\ Published(s) /\ channel[s][coord[s]] >= n
    BY <2>1, <2>2 DEF Inv, ClaimedReplies
  <2>4. Published(s)' /\ coord'[s] = coord[s]
    BY <2>3, <1>x DEF Published
  <2> QED BY <2>2, <2>3, <2>4, <1>m, <1>w
<1>7. PostsAreCounted'
  <2>1. SUFFICES ASSUME NEW s \in Situations
                 PROVE  /\ Len(channel[s]) <= 1 + faults
                        /\ coord'[s] = 0 => Len(channel[s]) <= faults
    BY <1>w DEF PostsAreCounted
  <2>2. /\ Len(channel[s]) <= 1 + faults
        /\ coord[s] = 0 /\ ~Answering(s) => Len(channel[s]) <= faults
    BY DEF Inv, PostsAreCounted
  <2> QED BY <2>2, <1>x
<1> QED BY <1>1, <1>2, <1>3, <1>4, <1>5, <1>6, <1>7 DEF Shown

\* A commit adds its root and its entry behind everything there is, and retires
\* only what its root replaces.
LEMMA CommitShows ==
  ASSUME Inv, NEW s \in Situations,
         NEW poke \in BOOLEAN, NEW authority \in BOOLEAN, NEW meetsFloor \in BOOLEAN,
         NEW reply \in BOOLEAN, NEW overtakes \in BOOLEAN, NEW class \in {"thread", "transient"},
         Commit(s, poke, authority, meetsFloor, reply, class, overtakes)
  PROVE  Shown'
<1> USE DEF planVars, gapVars, workVars, slackVars, budgets
<1>w. /\ UNCHANGED <<coord, channel, thread, faults, pc, cur, todo, seen, answer>> /\ plan[s].read
      /\ commits' = [commits EXCEPT ![s] = commits[s] + 1]
      /\ plan' = [plan EXCEPT ![s] = NoPlan]
  BY DEF Commit
<1>v. Claimed' = Claimed /\ \A t \in Situations : Published(t)' <=> Published(t)
  BY <1>w DEF Claimed, Published
<1>0. PICK n \in Sequence : n = commits[s] + 1
  BY CommitRows DEF Inv
<1>n. /\ n \in Nat /\ commits[s] \in Nat /\ commits'[s] = n
      /\ \A t \in Situations : commits[t] \in Nat
      /\ \A t \in Situations \ {s} : commits'[t] = commits[t] /\ plan'[t] = plan[t]
      /\ ~plan'[s].read
  BY <1>0, <1>w, NotificationsAssumption DEF Inv, TypeOK, Sequence, NoPlan
<1>c. \A t \in Situations : commits[t] <= commits'[t]
  BY <1>0, <1>n
<1>1. \/ intents' = intents /\ ~plan[s].published /\ ~plan[s].owed
      \/ /\ intents'[RootOf(s, n)].status = RootStatus(plan[s], meetsFloor)
         /\ intents'[ReplyOf(s, n)].status \in {"absent", "pending"}
         /\ \A m \in Sequence : m # n => intents'[RootOf(s, m)].status \notin Live
         /\ \A i \in Intents \ {RootOf(s, n), ReplyOf(s, n)} :
              \/ intents'[i] = intents[i]
              \/ /\ i.of = s /\ i \notin NoticeIntents
                 /\ intents[i].status \in Live /\ intents'[i].status = "superseded"
  BY <1>0, CommitRows DEF Inv
<1>p. ~plan[s].published /\ ~plan[s].owed => ~Published(s) /\ ~Owed(s)
  BY <1>w DEF Inv, PlansHold
<1>f. intents[RootOf(s, n)].status = "absent" /\ intents[ReplyOf(s, n)].status = "absent"
  BY <1>0, <1>n DEF Inv, IntentsAreCommitted
\* Rows of other Situations stay, and older rows stay or are superseded.
<1>a. ASSUME NEW t \in Situations, NEW m \in Sequence, t # s \/ m # n
      PROVE  /\ \/ intents'[RootOf(t, m)] = intents[RootOf(t, m)]
                \/ t = s /\ intents[RootOf(t, m)].status \in Live /\ intents'[RootOf(t, m)].status = "superseded"
             /\ \/ intents'[ReplyOf(t, m)] = intents[ReplyOf(t, m)]
                \/ t = s /\ intents[ReplyOf(t, m)].status \in Live /\ intents'[ReplyOf(t, m)].status = "superseded"
  <2>1. /\ RootOf(t, m) \in Intents \ {RootOf(s, n), ReplyOf(s, n)}
        /\ ReplyOf(t, m) \in Intents \ {RootOf(s, n), ReplyOf(s, n)}
        /\ RootOf(t, m).of = t /\ ReplyOf(t, m).of = t
    BY <1>a, IntentNames
  <2> QED BY <2>1, <1>1
<1>b. \A t \in Situations \ {s} : Owed(t)' <=> Owed(t)
  BY <1>a, OwedMeans
\* A published or owed root is replaced by one that is owed.
<1>o. Published(s) \/ Owed(s) => Owed(s)' /\ intents'[RootOf(s, n)].status = "pending"
  <2>1. SUFFICES ASSUME Published(s) \/ Owed(s)
                 PROVE  Owed(s)' /\ intents'[RootOf(s, n)].status = "pending"
    OBVIOUS
  <2>2. intents'[RootOf(s, n)].status = "pending"
    BY <2>1, <1>1, <1>p DEF RootStatus
  <2> QED BY <2>2, OwedMeans DEF Live
<1>2. PlansHold'
  <2>1. SUFFICES ASSUME NEW t \in Situations, plan'[t].read
                 PROVE  /\ commits'[t] < MaxCommits
                        /\ ~plan'[t].published /\ ~plan'[t].owed => ~Published(t)' /\ ~Owed(t)'
    BY DEF PlansHold
  <2>2. t # s
    BY <2>1, <1>n
  <2> QED BY <2>1, <2>2, <1>n, <1>b, <1>v DEF Inv, PlansHold
<1>3. IntentsAreCommitted'
  <2>1. SUFFICES ASSUME NEW t \in Situations, NEW m \in Sequence
                 PROVE  /\ m > commits'[t] => intents'[RootOf(t, m)].status = "absent"
                        /\ intents'[RootOf(t, m)].status = "absent" => intents'[ReplyOf(t, m)].status = "absent"
    BY DEF IntentsAreCommitted
  <2>2. /\ m > commits[t] => intents[RootOf(t, m)].status = "absent"
        /\ intents[RootOf(t, m)].status = "absent" => intents[ReplyOf(t, m)].status = "absent"
    BY DEF Inv, IntentsAreCommitted
  <2>3. CASE t # s \/ m # n
    <3>1. m > commits'[t] => m > commits[t]
      BY <1>c, <1>n, TypesNext DEF Sequence
    <3> QED BY <2>2, <2>3, <3>1, <1>a DEF Live
  <2>4. CASE t = s /\ m = n
    <3>1. ~(m > commits'[t])
      BY <2>4, <1>n
    <3>2. intents' = intents \/ intents'[RootOf(s, n)].status # "absent"
      BY <1>1 DEF RootStatus
    <3> QED BY <2>2, <2>4, <3>1, <3>2
  <2> QED BY <2>3, <2>4
<1>4. LiveRootIsNewest'
  <2>1. SUFFICES ASSUME NEW t \in Situations, NEW l \in Sequence, NEW m \in Sequence,
                        intents'[RootOf(t, l)].status \in Live, intents'[RootOf(t, m)].status # "absent"
                 PROVE  m <= l
    BY DEF LiveRootIsNewest
  <2>2. CASE t # s
    <3>1. intents'[RootOf(t, l)] = intents[RootOf(t, l)] /\ intents'[RootOf(t, m)] = intents[RootOf(t, m)]
      BY <2>2, <1>a
    <3> QED BY <2>1, <3>1 DEF Inv, LiveRootIsNewest
  <2>3. CASE t = s /\ intents' = intents
    BY <2>1, <2>3 DEF Inv, LiveRootIsNewest
  <2>4. CASE t = s /\ intents' # intents
    <3>1. l = n
      BY <2>1, <2>4, <1>1
    <3>2. m = n \/ intents[RootOf(s, m)].status # "absent"
      BY <2>1, <2>4, <1>a DEF Live
    <3>3. m = n \/ ~(m > commits[s])
      BY <3>2 DEF Inv, IntentsAreCommitted
    <3> QED BY <3>1, <3>3, <1>0, <1>n DEF Sequence
  <2> QED BY <2>2, <2>3, <2>4
<1>5. RootIsShown'
  <2>1. SUFFICES ASSUME NEW t \in Situations, NEW m \in Sequence,
                        Published(t)', ~Owed(t)', intents'[RootOf(t, m)].status # "absent"
                 PROVE  m <= channel[t][coord[t]]
    BY <1>w DEF RootIsShown
  <2>2. t # s
    BY <2>1, <1>o, <1>v
  <2>3. intents'[RootOf(t, m)] = intents[RootOf(t, m)] /\ Published(t) /\ ~Owed(t)
    BY <2>1, <2>2, <1>a, <1>b, <1>v
  <2> QED BY <2>1, <2>3 DEF Inv, RootIsShown
<1>6. ChannelIsCommitted'
  <2>1. SUFFICES ASSUME NEW t \in Situations, NEW k \in 1..Len(channel[t])
                 PROVE  channel[t][k] <= commits'[t]
    BY <1>w DEF ChannelIsCommitted
  <2>2. channel[t][k] <= commits[t] /\ channel[t][k] \in Int
    BY <2>1, ChannelEntries DEF Inv, ChannelIsCommitted, TypeOK
  <2>3. commits'[t] \in Int
    BY <1>n
  <2> QED BY <2>2, <2>3, <1>c, <1>n
<1>7. PostedIsSettled'
  <2>1. SUFFICES ASSUME NEW t \in Situations, NEW m \in thread[t]
                 PROVE  /\ m <= commits'[t]
                        /\ \A k \in Sequence : k < m => intents'[ReplyOf(t, k)].status \notin Live
    BY <1>w DEF PostedIsSettled
  <2>2. /\ m <= commits[t] /\ m \in Nat
        /\ \A k \in Sequence : k < m => intents[ReplyOf(t, k)].status \notin Live
    BY <2>1 DEF Inv, PostedIsSettled, TypeOK, Sequence
  <2>3. m <= commits'[t]
    BY <2>2, <1>c, <1>n
  <2>4. ASSUME NEW k \in Sequence, k < m
        PROVE  intents'[ReplyOf(t, k)].status \notin Live
    <3>1. t # s \/ k # n
      BY <2>2, <2>4, <1>0, <1>n
    <3> QED BY <3>1, <2>2, <2>4, <1>a DEF Live
  <2> QED BY <2>3, <2>4
<1>8. ClaimedRoots'
  <2>1. SUFFICES ASSUME NEW t \in Situations, NEW m \in Sequence, RootOf(t, m) \in Claimed'
                 PROVE  /\ m <= commits'[t]
                        /\ \/ intents'[RootOf(t, m)].status = "pending" /\ intents'[RootOf(t, m)].claim = "held"
                           \/ intents'[RootOf(t, m)].status = "superseded"
                        /\ Published(t)' \/ Owed(t)'
    BY DEF ClaimedRoots
  <2>2. /\ m <= commits[t] /\ m \in Nat
        /\ \/ intents[RootOf(t, m)].status = "pending" /\ intents[RootOf(t, m)].claim = "held"
           \/ intents[RootOf(t, m)].status = "superseded"
        /\ Published(t) \/ Owed(t)
    BY <2>1, <1>v DEF Inv, ClaimedRoots, Sequence
  <2>3. m <= commits'[t]
    BY <2>2, <1>c, <1>n
  <2>4. t # s \/ m # n
    BY <2>2, <1>0, <1>n
  <2>5. Published(t)' \/ Owed(t)'
    BY <2>2, <1>b, <1>o, <1>v
  <2> QED BY <2>2, <2>3, <2>4, <2>5, <1>a
<1>9. ClaimedReplies'
  <2>1. SUFFICES ASSUME NEW t \in Situations, NEW m \in Sequence, ReplyOf(t, m) \in Claimed'
                 PROVE  /\ m <= commits'[t]
                        /\ \A k \in Sequence : k < m => intents'[ReplyOf(t, k)].status \notin Live
                        /\ \A k \in Sequence : ReplyOf(t, k) \in Claimed' => k = m
                        /\ \A k \in thread'[t] : k <= m
                        /\ Published(t)' /\ channel'[t][coord'[t]] >= m
    BY DEF ClaimedReplies
  <2>2. /\ m <= commits[t] /\ m \in Nat
        /\ \A k \in Sequence : k < m => intents[ReplyOf(t, k)].status \notin Live
        /\ \A k \in Sequence : ReplyOf(t, k) \in Claimed => k = m
        /\ \A k \in thread[t] : k <= m
        /\ Published(t) /\ channel[t][coord[t]] >= m
    BY <2>1, <1>v DEF Inv, ClaimedReplies, Sequence
  <2>3. m <= commits'[t]
    BY <2>2, <1>c, <1>n
  <2>4. ASSUME NEW k \in Sequence, k < m
        PROVE  intents'[ReplyOf(t, k)].status \notin Live
    <3>1. t # s \/ k # n
      BY <2>2, <2>4, <1>0, <1>n
    <3> QED BY <3>1, <2>2, <2>4, <1>a DEF Live
  <2> QED BY <2>2, <2>3, <2>4, <1>v, <1>w
<1>10. RootIsRead'
  BY <1>w, ReadingKept
<1>11. PostsAreCounted'
  <2>1. \A t \in Situations : ~Answering(t) \/ Answering(t)'
    BY <1>w DEF Answering
  <2> QED BY <2>1, <1>w, PostsKept
<1> QED BY <1>2, <1>3, <1>4, <1>5, <1>6, <1>7, <1>8, <1>9, <1>10, <1>11 DEF Shown

-----------------------------------------------------------------------------
(* The theorems.                                                           *)

LEMMA InvInit == Init => Inv
<1> SUFFICES ASSUME Init PROVE Inv
  OBVIOUS
<1>1. TypeOK
  <2>1. \A i \in Intents : Absent(i) \in Row
    BY DEF Absent, Row, Live
  <2>2. NoGap \in Gap
    BY NotificationsAssumption DEF NoGap, Gap
  <2>3. <<>> \in Seq(Sequence) /\ Len(<<>>) = 0
    OBVIOUS
  <2>4. intents \in [Intents -> Row] /\ gaps \in [Gaps -> Gap]
    BY <2>1, <2>2 DEF Init
  <2>5. channel \in [Situations -> Seq(Sequence)] /\ thread \in [Situations -> SUBSET Sequence]
    BY <2>3 DEF Init
  <2>6. coord \in [Situations -> Nat] /\ \A s \in Situations : coord[s] <= Len(channel[s])
    BY <2>3 DEF Init
  <2>7. /\ commits \in [Situations -> 0..MaxCommits]
        /\ plan \in [Situations -> [read : BOOLEAN, published : BOOLEAN, owed : BOOLEAN]]
    BY NotificationsAssumption DEF Init, NoPlan
  <2>8. /\ openGap \in 0..MaxGaps /\ window \in NoWindow..Threshold /\ outageGaps \in Nat
        /\ faults \in 0..MaxFaults /\ outages \in 0..MaxOutages /\ rejects \in 0..MaxRejects /\ seen \in Nat
    BY NotificationsAssumption DEF Init, NoWindow
  <2> QED BY <2>4, <2>5, <2>6, <2>7, <2>8 DEF Init, TypeOK
<1>2. \A s \in Situations, n \in Sequence : /\ intents[RootOf(s, n)].status = "absent"
                                            /\ intents[ReplyOf(s, n)].status = "absent"
  BY IntentNames DEF Init, Absent
<1>3. PlansHold /\ IntentsAreCommitted /\ LiveRootIsNewest
  BY <1>2 DEF Init, NoPlan, PlansHold, IntentsAreCommitted, LiveRootIsNewest, Live
<1>4. \A s \in Situations : channel[s] = <<>> /\ Len(channel[s]) = 0 /\ thread[s] = {} /\ coord[s] = 0
  BY DEF Init
<1>5. RootIsShown /\ ChannelIsCommitted /\ PostedIsSettled
  BY <1>2, <1>4 DEF RootIsShown, ChannelIsCommitted, PostedIsSettled
<1>6. WorkerIsIdle
  BY DEF Init, WorkerIsIdle
<1>7. ClaimedRoots /\ ClaimedReplies /\ RootIsRead
  BY IntentNames DEF Init, ClaimedRoots, ClaimedReplies, RootIsRead, Claimed
<1>8. PostsAreCounted /\ OutageHasGap
  BY <1>4 DEF Init, PostsAreCounted, OutageHasGap
<1> QED BY <1>1, <1>3, <1>5, <1>6, <1>7, <1>8 DEF Inv

\* The invariant is inductive.
LEMMA InvNext == Inv /\ [Next]_vars => Inv'
<1> SUFFICES ASSUME Inv, [Next]_vars PROVE Inv'
  OBVIOUS
<1>1. TypeOK' /\ WorkerIsIdle' /\ OutageHasGap'
  BY TypesNext, WorkerNext, OutageNext
<1>2. Shown'
  <2>1. ASSUME NEW s \in Situations, Controller(s)
        PROVE  Shown'
    <3>1. CASE Load(s)
      BY <3>1, LoadShows
    <3>2. CASE ~Load(s)
      <4>1. PICK poke, authority, meetsFloor, reply, overtakes \in BOOLEAN, class \in {"thread", "transient"} :
              Commit(s, poke, authority, meetsFloor, reply, class, overtakes)
        BY <2>1, <3>2 DEF Controller
      <4> QED BY <4>1, CommitShows
    <3> QED BY <3>1, <3>2
  <2>2. CASE Worker
    BY <2>2, BetweenRounds, ClaimShows, PrepareShows, SendShows, SendFailsShows, AcknowledgeShows,
       EndsWithoutSuccess DEF Worker
  <2>3. CASE SendUnanswered \/ SendRefused \/ Abandon \/ Crash
    BY <2>3, SendShows, SendFailsShows, EndsWithoutSuccess
  <2>4. CASE (\E i \in Intents : LeaseExpires(i) \/ Redrive(i)) \/ SlackFails \/ SlackReturns \/ Tick
             \/ UNCHANGED vars
    BY <2>4, BesideTheWorker
  <2> QED BY <2>1, <2>2, <2>3, <2>4 DEF Next
<1> QED BY <1>1, <1>2 DEF Inv, Shown

LEMMA Invariance == Spec => []Inv
BY InvInit, InvNext, PTL DEF Spec

\* Every variable of the delivery model keeps its type: in particular the root
\* coordinates of a Situation always name a message that is in the channel.
THEOREM DeliveryTypes == Spec => []TypeOK
<1>1. Inv => TypeOK
  BY DEF Inv
<1> QED BY <1>1, Invariance, PTL

\* The journal of a Situation is posted in Transition order, under a root that
\* shows at least the state of the entry, whatever the worker, the controller,
\* Slack, crashes and redrives do in between (ClaimNotificationIntents).
THEOREM JournalInOrder == Spec => []ThreadInOrder
<1>1. Inv => ThreadInOrder
  <2>1. SUFFICES ASSUME Inv, NEW i \in ReplyIntents, Sending(i)
                 PROVE  /\ \A m \in thread[i.of] : m <= i.n
                        /\ Published(i.of) /\ channel[i.of][coord[i.of]] >= i.n
    BY DEF ThreadInOrder
  <2>2. PICK s \in Situations, n \in Sequence : i = ReplyOf(s, n) /\ i.of = s /\ i.n = n
    BY IntentNames
  <2>3. ReplyOf(s, n) \in Claimed
    BY <2>1, <2>2 DEF Sending, Claimed
  <2>4. /\ \A m \in thread[s] : m <= n
        /\ Published(s) /\ channel[s][coord[s]] >= n
    BY <2>1, <2>3 DEF Inv, ClaimedReplies
  <2> QED BY <2>2, <2>4
<1> QED BY <1>1, Invariance, PTL

\* A Situation has one root message more than there were faults, at most, and an
\* outage opens one Delivery gap (MarkNotificationDelivered, OpenDueDeliveryGap).
THEOREM SaidOnce == Spec => []NothingTwice
<1>1. Inv => NothingTwice
  BY DEF Inv, PostsAreCounted, OutageHasGap, NothingTwice
<1> QED BY <1>1, Invariance, PTL
=============================================================================
