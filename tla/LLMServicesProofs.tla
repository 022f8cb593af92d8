-------------------------- MODULE LLMServicesProofs --------------------------
(***************************************************************************)
(* The components around the LLM, for every value of their constants.      *)
(*                                                                         *)
(* LLMGateway: the limiter and the budget, for every number of callers,    *)
(* every capacity, every limit of tokens and calls, and every bill.  Sums  *)
(* over callers are cardinalities: a caller with w tokens still reserved   *)
(* stands for w pairs.                                                     *)
(*                                                                         *)
(* SemanticProfiles: what the provider is asked for one job.  A request    *)
(* that is out is paid for by an attempt of the job it is about.           *)
(*                                                                         *)
(* LLMHealth: the messages of the outages.  The row in memory and the row  *)
(* as saved each know the messages of their own outage; the call that is   *)
(* out relates them to what Slack shows.                                   *)
(***************************************************************************)
EXTENDS LLMServices, FiniteSetTheorems, SequenceTheorems, TLAPS

Busy == {"granted", "holding", "sent", "answered"}
Answers == [kind : {"none", "declined", "reported", "unreported"}, used : Nat]

\* A sequence with one element taken out.
LEMMA Removed ==
  ASSUME NEW S, NEW q \in Seq(S), NEW i \in DOMAIN q
  PROVE  /\ RemoveAt(q, i) \in Seq(S)
         /\ DOMAIN RemoveAt(q, i) = 1..(Len(q) - 1)
         /\ \A j \in 1..(Len(q) - 1) : RemoveAt(q, i)[j] = IF j < i THEN q[j] ELSE q[j + 1]
<1> DEFINE a == SubSeq(q, 1, i - 1)
           b == SubSeq(q, i + 1, Len(q))
<1>1. /\ Len(q) \in Nat /\ i \in 1..Len(q) /\ DOMAIN q = 1..Len(q)
      /\ \A j \in 1..Len(q) : q[j] \in S
  BY LenProperties, ElementOfSeq
<1>2. /\ a \in Seq(S) /\ Len(a) = i - 1
      /\ \A j \in 1..(i - 1) : a[j] = q[j]
  <2>1. \A j \in 1..(i - 1) : q[j] \in S
    BY <1>1
  <2>2. i - 1 \in Int /\ 1 \in Int
    BY <1>1
  <2>3. /\ a \in Seq(S) /\ Len(a) = IF 1 <= i - 1 THEN (i - 1) - 1 + 1 ELSE 0
        /\ \A j \in 1..((i - 1) - 1 + 1) : a[j] = q[1 + j - 1]
    BY <2>1, <2>2, SubSeqProperties
  <2> HIDE DEF a
  <2>4. \A j \in 1..(i - 1) : 1 + j - 1 = j /\ j \in 1..((i - 1) - 1 + 1)
    BY <1>1
  <2>5. Len(a) = i - 1
    BY <2>3, <1>1
  <2> QED
    BY <2>3, <2>4, <2>5
<1>3. /\ b \in Seq(S) /\ Len(b) = Len(q) - i
      /\ \A j \in 1..(Len(q) - i) : b[j] = q[i + j]
  <2>1. \A j \in (i + 1)..Len(q) : q[j] \in S
    BY <1>1
  <2>2. i + 1 \in Int /\ Len(q) \in Int
    BY <1>1
  <2>3. /\ b \in Seq(S) /\ Len(b) = IF i + 1 <= Len(q) THEN Len(q) - (i + 1) + 1 ELSE 0
        /\ \A j \in 1..(Len(q) - (i + 1) + 1) : b[j] = q[(i + 1) + j - 1]
    BY <2>1, <2>2, SubSeqProperties
  <2> HIDE DEF b
  <2>4. ASSUME NEW j \in 1..(Len(q) - i)
        PROVE  b[j] = q[i + j]
    <3>1. (i + 1) + j - 1 = i + j /\ j \in 1..(Len(q) - (i + 1) + 1)
      BY <1>1
    <3>2. b[j] = q[(i + 1) + j - 1]
      BY <2>3, <3>1
    <3> QED
      BY <3>1, <3>2
  <2>5. Len(b) = Len(q) - i
    <3>1. Len(b) = IF i + 1 <= Len(q) THEN Len(q) - (i + 1) + 1 ELSE 0
      BY <2>3
    <3> QED
      BY <3>1, <1>1
  <2>6. b \in Seq(S)
    BY <2>3
  <2> QED
    BY <2>4, <2>5, <2>6
<1> HIDE DEF a, b
<1>4. /\ a \o b \in Seq(S) /\ Len(a \o b) = Len(a) + Len(b)
      /\ \A j \in 1..(Len(a) + Len(b)) : (a \o b)[j] = IF j <= Len(a) THEN a[j] ELSE b[j - Len(a)]
  BY <1>2, <1>3, ConcatProperties
<1>5. RemoveAt(q, i) = a \o b
  BY DEF RemoveAt, a, b
<1>6. Len(a) + Len(b) = Len(q) - 1
  BY <1>1, <1>2, <1>3
<1>7. ASSUME NEW j \in 1..(Len(q) - 1)
      PROVE  (a \o b)[j] = IF j < i THEN q[j] ELSE q[j + 1]
  <2>1. CASE j < i
    BY <2>1, <1>1, <1>2, <1>4, <1>6
  <2>2. CASE ~(j < i)
    <3>1. j - (i - 1) \in 1..(Len(q) - i) /\ i + (j - (i - 1)) = j + 1 /\ ~(j <= Len(a))
      BY <2>2, <1>1, <1>2
    <3>2. b[j - (i - 1)] = q[j + 1]
      BY <3>1, <1>3
    <3>3. (a \o b)[j] = b[j - Len(a)]
      BY <3>1, <1>4, <1>6
    <3> QED
      BY <2>2, <3>2, <3>3, <1>2
  <2> QED
    BY <2>1, <2>2
<1> QED
  BY <1>4, <1>5, <1>6, <1>7, LenProperties

\* The last caller goes to the end of its queue.
LEMMA Enqueued ==
  ASSUME NEW S, NEW q \in Seq(S), NEW c \in S
  PROVE  /\ Append(q, c) \in Seq(S) /\ Append(q, c) # <<>>
         /\ DOMAIN Append(q, c) = 1..(Len(q) + 1) /\ Len(q) \in Nat /\ DOMAIN q = 1..Len(q)
         /\ \A j \in 1..Len(q) : Append(q, c)[j] = q[j]
         /\ Append(q, c)[Len(q) + 1] = c
BY AppendProperties, LenProperties

\* q lists the callers of W, each once.
Lists(q, W) ==
  /\ \A i, j \in DOMAIN q : q[i] = q[j] => i = j
  /\ \A c : c \in W <=> \E i \in DOMAIN q : q[i] = c

\* A queue that gains, loses or hands on a caller.
LEMMA ListsAppend ==
  ASSUME NEW S, NEW q \in Seq(S), NEW c \in S, NEW W, Lists(q, W), c \notin W
  PROVE  Append(q, c) \in Seq(S) /\ Lists(Append(q, c), W \cup {c})
<1> DEFINE z == Append(q, c)
<1>1. /\ z \in Seq(S)
      /\ DOMAIN z = 1..(Len(q) + 1) /\ Len(q) \in Nat /\ DOMAIN q = 1..Len(q)
      /\ \A j \in 1..Len(q) : z[j] = q[j]
      /\ z[Len(q) + 1] = c
  BY Enqueued
<1> HIDE DEF z
<1>2. \A i \in DOMAIN q : q[i] # c
  BY DEF Lists
<1>3. ASSUME NEW i \in DOMAIN z, NEW j \in DOMAIN z, z[i] = z[j]
      PROVE  i = j
  BY <1>1, <1>2, <1>3 DEF Lists
<1>4. ASSUME NEW x, x \in W \cup {c}
      PROVE  \E i \in DOMAIN z : z[i] = x
  <2>1. CASE x = c
    BY <2>1, <1>1
  <2>2. CASE x \in W
    <3>1. PICK i \in DOMAIN q : q[i] = x
      BY <2>2 DEF Lists
    <3> QED
      BY <3>1, <1>1
  <2> QED
    BY <1>4, <2>1, <2>2
<1>5. ASSUME NEW i \in DOMAIN z
      PROVE  z[i] \in W \cup {c}
  <2>1. CASE i = Len(q) + 1
    BY <2>1, <1>1
  <2>2. CASE i \in DOMAIN q
    BY <2>2, <1>1 DEF Lists
  <2> QED
    BY <1>1, <2>1, <2>2
<1>6. Lists(z, W \cup {c})
  BY <1>3, <1>4, <1>5 DEF Lists
<1> QED
  BY <1>1, <1>6 DEF z

LEMMA ListsRemove ==
  ASSUME NEW S, NEW q \in Seq(S), NEW W, Lists(q, W), NEW k \in DOMAIN q
  PROVE  /\ RemoveAt(q, k) \in Seq(S) /\ Lists(RemoveAt(q, k), W \ {q[k]})
         /\ RemoveAt(q, k) # <<>> => q # <<>>
<1> DEFINE z == RemoveAt(q, k)
<1>1. /\ z \in Seq(S) /\ DOMAIN z = 1..(Len(q) - 1)
      /\ \A j \in 1..(Len(q) - 1) : z[j] = IF j < k THEN q[j] ELSE q[j + 1]
  BY Removed
<1>2. Len(q) \in Nat /\ DOMAIN q = 1..Len(q) /\ k \in 1..Len(q)
  BY LenProperties
<1> HIDE DEF z
<1>3. ASSUME NEW i \in DOMAIN z
      PROVE  \E a \in DOMAIN q : /\ a # k /\ z[i] = q[a]
                                 /\ a = IF i < k THEN i ELSE i + 1
  <2>1. CASE i < k
    BY <2>1, <1>1, <1>2
  <2>2. CASE ~(i < k)
    <3>1. i + 1 \in DOMAIN q /\ i + 1 # k
      BY <2>2, <1>1, <1>2
    <3> QED
      BY <2>2, <3>1, <1>1
  <2> QED
    BY <2>1, <2>2
<1>4. ASSUME NEW i \in DOMAIN z, NEW j \in DOMAIN z, z[i] = z[j]
      PROVE  i = j
  <2>1. PICK a \in DOMAIN q : z[i] = q[a] /\ a = IF i < k THEN i ELSE i + 1
    BY <1>3
  <2>2. PICK b \in DOMAIN q : z[j] = q[b] /\ b = IF j < k THEN j ELSE j + 1
    BY <1>3
  <2>3. a = b
    BY <1>4, <2>1, <2>2 DEF Lists
  <2> QED
    BY <2>1, <2>2, <2>3, <1>1, <1>2
<1>5. ASSUME NEW x \in W \ {q[k]}
      PROVE  \E i \in DOMAIN z : z[i] = x
  <2>1. PICK a \in DOMAIN q : q[a] = x
    BY DEF Lists
  <2>2. a # k
    BY <2>1
  <2>3. CASE a < k
    BY <2>1, <2>3, <1>1, <1>2
  <2>4. CASE a > k
    <3>1. a - 1 \in 1..(Len(q) - 1) /\ ~(a - 1 < k) /\ (a - 1) + 1 = a
      BY <2>4, <1>2
    <3>2. z[a - 1] = q[a]
      BY <3>1, <1>1
    <3> QED
      BY <3>1, <3>2, <2>1, <1>1
  <2> QED
    BY <2>2, <2>3, <2>4, <1>2
<1>6. ASSUME NEW i \in DOMAIN z
      PROVE  z[i] \in W \ {q[k]}
  <2>1. PICK a \in DOMAIN q : a # k /\ z[i] = q[a]
    BY <1>3
  <2> QED
    BY <2>1 DEF Lists
<1>7. Lists(z, W \ {q[k]})
  BY <1>4, <1>5, <1>6 DEF Lists
<1>8. q # <<>>
  BY <1>2, EmptySeq
<1> QED
  BY <1>1, <1>7, <1>8 DEF z

LEMMA ListsTail ==
  ASSUME NEW S, NEW q \in Seq(S), NEW W, Lists(q, W), q # <<>>
  PROVE  /\ Head(q) \in S /\ Head(q) \in W
         /\ Tail(q) \in Seq(S) /\ Lists(Tail(q), W \ {Head(q)})
<1> DEFINE z == Tail(q)
           h == Head(q)
<1>1. /\ z \in Seq(S) /\ Len(z) = Len(q) - 1 /\ h \in S
      /\ \A j \in 1..Len(z) : z[j] = q[j + 1]
  BY HeadTailProperties
<1>2. Len(q) \in Nat \ {0} /\ DOMAIN q = 1..Len(q) /\ DOMAIN z = 1..Len(z)
  BY <1>1, LenProperties, EmptySeq
<1>3. h = q[1] /\ 1 \in DOMAIN q
  BY <1>2
<1> HIDE DEF z, h
<1>4. ASSUME NEW i \in DOMAIN z
      PROVE  i + 1 \in DOMAIN q /\ z[i] = q[i + 1] /\ i + 1 # 1
  BY <1>1, <1>2
<1>5. ASSUME NEW i \in DOMAIN z, NEW j \in DOMAIN z, z[i] = z[j]
      PROVE  i = j
  <2>1. i + 1 = j + 1
    BY <1>4, <1>5 DEF Lists
  <2> QED
    BY <2>1, <1>2
<1>6. ASSUME NEW x \in W \ {h}
      PROVE  \E i \in DOMAIN z : z[i] = x
  <2>1. PICK a \in DOMAIN q : q[a] = x
    BY DEF Lists
  <2>2. a # 1
    BY <2>1, <1>3
  <2>3. a - 1 \in 1..Len(z) /\ (a - 1) + 1 = a
    BY <2>2, <1>1, <1>2
  <2>4. z[a - 1] = q[a]
    BY <2>3, <1>1
  <2> QED
    BY <2>1, <2>3, <2>4, <1>2
<1>7. ASSUME NEW i \in DOMAIN z
      PROVE  z[i] \in W \ {h}
  <2>1. z[i] # h
    BY <1>3, <1>4 DEF Lists
  <2>2. z[i] \in W
    BY <1>4 DEF Lists
  <2> QED
    BY <2>1, <2>2
<1>8. Lists(z, W \ {h}) /\ h \in W
  BY <1>3, <1>5, <1>6, <1>7 DEF Lists
<1> QED
  BY <1>1, <1>8 DEF z, h

-----------------------------------------------------------------------------
\* Tokens as pairs: a caller c with f[c] tokens is in f[c] of them.
Units(f) == {x \in Callers \X (1..Allowance) : x[2] <= f[x[1]]}

\* The tokens of a caller's reservation that its request has not used yet, as far as
\* its settlement will know.
Due ==
  [c \in Callers |->
    IF pc[c] = "sent" THEN Allowance
    ELSE IF pc[c] = "answered" /\ answer[c].kind # "unreported" /\ answer[c].used < Allowance
         THEN Allowance - answer[c].used
         ELSE 0]

\* What was billed and what is still reserved is charged, and was affordable when it was
\* reserved.  A settlement may push tokens beyond the total, so neither follows from the other.
SpendIsCovered ==
  /\ billed \in Nat /\ excess \in Nat /\ excess <= billed
  /\ billed + Cardinality(Units(Due)) <= tokens + excess
  /\ billed + Cardinality(Units(Due)) <= TotalTokens + excess

\* The limiter's half of the inductive invariant.
LimiterHolds ==
  /\ pc \in [Callers -> {"idle"} \cup {"waiting"} \cup Busy]
  /\ in_use \in 0..Capacity /\ profile_held \in BOOLEAN
  /\ IsQueueOf(assessment_waiters, Assessments) /\ IsQueueOf(profile_waiters, Profiles)
  /\ SlotsAreHeld /\ NoIdleSlot

\* The ledger's half.
LedgerHolds ==
  /\ answer \in [Callers -> Answers]
  /\ tokens \in Nat /\ unknown \in BOOLEAN
  /\ calls_per_hour \in CallLimits /\ \E n \in CallLimits : Len(recent) <= n
  /\ recent \in Seq(0..(Hour - 1))
  /\ \A i, j \in DOMAIN recent : i <= j => recent[i] >= recent[j]
  /\ SpendIsCovered

\* The inductive invariant.
Inv == LimiterHolds /\ LedgerHolds

\* There are finitely many callers, of two kinds.
LEMMA CallersAreFinite == IsFiniteSet(Callers)
BY GatewayAssumption, FS_Union DEF Callers

LEMMA HoldersAreFinite ==
  ASSUME NEW H, H \subseteq Callers
  PROVE  IsFiniteSet(H) /\ Cardinality(H) \in Nat
BY CallersAreFinite, FS_Subset, FS_CardinalityType

-----------------------------------------------------------------------------
\* Units.

LEMMA UnitsOfOne ==
  ASSUME NEW c, NEW w \in Nat
  PROVE  IsFiniteSet({c} \X (1..w)) /\ Cardinality({c} \X (1..w)) = w
<1>1. IsFiniteSet({c}) /\ Cardinality({c}) = 1
  BY FS_Singleton
<1>2. IsFiniteSet(1..w) /\ Cardinality(1..w) = w
  BY FS_Interval
<1>3. IsFiniteSet({c} \X (1..w)) /\ Cardinality({c} \X (1..w)) = Cardinality({c}) * Cardinality(1..w)
  BY <1>1, <1>2, FS_Product
<1> QED
  BY <1>1, <1>2, <1>3

LEMMA UnitsSplit ==
  ASSUME NEW f \in [Callers -> 0..Allowance], NEW c \in Callers
  PROVE  LET rest == {x \in Callers \X (1..Allowance) : x[1] # c /\ x[2] <= f[x[1]]}
         IN  /\ Cardinality(rest) \in Nat
             /\ Cardinality(Units(f)) = Cardinality(rest) + f[c]
<1> DEFINE rest == {x \in Callers \X (1..Allowance) : x[1] # c /\ x[2] <= f[x[1]]}
           mine == {c} \X (1..f[c])
<1>1. IsFiniteSet(Callers \X (1..Allowance))
  <2>1. IsFiniteSet(1..Allowance)
    BY FS_Interval, GatewayAssumption
  <2> QED
    BY <2>1, CallersAreFinite, FS_Product
<1>2. IsFiniteSet(rest) /\ Cardinality(rest) \in Nat
  <2>1. rest \subseteq Callers \X (1..Allowance)
    OBVIOUS
  <2> HIDE DEF rest
  <2> QED
    BY <1>1, <2>1, FS_Subset, FS_CardinalityType
<1>3. IsFiniteSet(mine) /\ Cardinality(mine) = f[c] /\ f[c] \in Nat
  <2>1. f[c] \in Nat
    BY GatewayAssumption
  <2> QED
    BY <2>1, UnitsOfOne
<1>4. Units(f) = rest \cup mine
  <2>1. f[c] \in 0..Allowance /\ Allowance \in Nat
    BY GatewayAssumption
  <2>2. ASSUME NEW x, x \in Units(f)
        PROVE  x \in rest \cup mine
    <3>1. x \in Callers \X (1..Allowance) /\ x[2] <= f[x[1]]
      BY <2>2 DEF Units
    <3>2. PICK d \in Callers, k \in 1..Allowance : x = <<d, k>>
      BY <3>1
    <3>3. k <= f[d]
      BY <3>1, <3>2
    <3> QED
      BY <3>1, <3>2, <3>3, <2>1
  <2>3. ASSUME NEW x, x \in mine
        PROVE  x \in Units(f)
    <3>1. PICK k \in 1..f[c] : x = <<c, k>>
      BY <2>3
    <3>2. k \in 1..Allowance /\ k <= f[c]
      BY <3>1, <2>1
    <3> QED
      BY <3>1, <3>2 DEF Units
  <2>4. rest \subseteq Units(f)
    BY DEF Units
  <2> QED
    BY <2>2, <2>3, <2>4
<1>5. rest \cap mine = {}
  OBVIOUS
<1> HIDE DEF rest, mine
<1>6. Cardinality(rest \cup mine) = Cardinality(rest) + Cardinality(mine) - Cardinality(rest \cap mine)
  BY <1>2, <1>3, FS_Union
<1>7. Cardinality(rest \cap mine) = 0
  BY <1>5, FS_EmptySet
<1>8. Cardinality(Units(f)) = Cardinality(rest) + f[c]
  BY <1>2, <1>3, <1>4, <1>6, <1>7
<1> QED
  BY <1>2, <1>8 DEF rest

\* One caller's tokens change.
LEMMA UnitsChange ==
  ASSUME NEW f \in [Callers -> 0..Allowance], NEW g \in [Callers -> 0..Allowance],
         NEW c \in Callers, \A d \in Callers \ {c} : g[d] = f[d]
  PROVE  /\ Cardinality(Units(f)) \in Nat /\ Cardinality(Units(g)) \in Nat
         /\ Cardinality(Units(g)) = Cardinality(Units(f)) - f[c] + g[c]
         /\ f[c] <= Cardinality(Units(f))
<1> DEFINE F == {x \in Callers \X (1..Allowance) : x[1] # c /\ x[2] <= f[x[1]]}
           G == {x \in Callers \X (1..Allowance) : x[1] # c /\ x[2] <= g[x[1]]}
<1>1. F = G
  OBVIOUS
<1>2. Cardinality(F) \in Nat /\ Cardinality(Units(f)) = Cardinality(F) + f[c]
  BY UnitsSplit
<1>3. Cardinality(Units(g)) = Cardinality(G) + g[c]
  BY UnitsSplit
<1> HIDE DEF F, G
<1>4. f[c] \in Nat /\ g[c] \in Nat
  BY GatewayAssumption
<1> QED
  BY <1>1, <1>2, <1>3, <1>4

LEMMA NoUnits ==
  ASSUME NEW f, \A c \in Callers : f[c] = 0
  PROVE  Cardinality(Units(f)) = 0
<1>1. Units(f) = {}
  <2> SUFFICES ASSUME NEW x \in Units(f) PROVE FALSE
    OBVIOUS
  <2>1. PICK d \in Callers, k \in 1..Allowance : x = <<d, k>> /\ x[2] <= f[x[1]]
    BY DEF Units
  <2> QED
    BY <2>1, GatewayAssumption
<1> QED
  BY <1>1, FS_EmptySet

LEMMA DueType ==
  ASSUME answer \in [Callers -> Answers]
  PROVE  Due \in [Callers -> 0..Allowance]
<1> SUFFICES ASSUME NEW c \in Callers
             PROVE  Due[c] \in 0..Allowance
  BY DEF Due
<1>1. answer[c].used \in Nat
  BY DEF Answers
<1> QED
  BY <1>1, GatewayAssumption DEF Due

-----------------------------------------------------------------------------
\* The limiter.

WaitingIn(S) == {c \in S : pc[c] = "waiting"}

LEMMA QueueLists ==
  ASSUME NEW STATE q, NEW S
  PROVE  IsQueueOf(q, S) <=> q \in Seq(S) /\ Lists(q, WaitingIn(S))
<1>1. ASSUME IsQueueOf(q, S)
      PROVE  q \in Seq(S) /\ Lists(q, WaitingIn(S))
  <2>1. q \in Seq(S) /\ \A i \in DOMAIN q : q[i] \in S
    BY <1>1, ElementOfSeq, LenProperties DEF IsQueueOf
  <2> QED
    BY <1>1, <2>1 DEF IsQueueOf, Lists, WaitingIn, Waiting
<1>2. ASSUME q \in Seq(S), Lists(q, WaitingIn(S))
      PROVE  IsQueueOf(q, S)
  BY <1>2 DEF IsQueueOf, Lists, WaitingIn, Waiting
<1> QED
  BY <1>1, <1>2

\* Whoever is in the limiter and stays, moves on without it.
LEMMA Moved ==
  ASSUME LimiterHolds, UNCHANGED limiter,
         NEW c \in Callers, NEW to \in Busy, pc[c] \in Busy, pc' = [pc EXCEPT ![c] = to]
  PROVE  LimiterHolds'
<1>1. pc' \in [Callers -> {"idle"} \cup {"waiting"} \cup Busy]
  BY DEF LimiterHolds
<1>2. Holders' = Holders /\ \A d \in Callers : pc'[d] = "waiting" <=> pc[d] = "waiting"
  BY <1>1 DEF LimiterHolds, Holders, Busy
<1>3. IsQueueOf(assessment_waiters, Assessments)' /\ IsQueueOf(profile_waiters, Profiles)'
  BY <1>2 DEF LimiterHolds, IsQueueOf, Waiting, Callers, limiter
<1> QED
  BY <1>1, <1>2, <1>3 DEF LimiterHolds, SlotsAreHeld, NoIdleSlot, limiter

\* A caller enters, or joins its queue.
LEMMA Entered ==
  ASSUME LimiterHolds, NEW c \in Callers, Acquire(c)
  PROVE  LimiterHolds'
<1>1. CASE MayEnter(c)
  <2>1. /\ pc' = [pc EXCEPT ![c] = "holding"] /\ in_use' = in_use + 1
        /\ profile_held' = (profile_held \/ c \in Profiles)
        /\ UNCHANGED <<assessment_waiters, profile_waiters>> /\ pc[c] = "idle"
    BY <1>1 DEF Acquire
  <2>2. pc' \in [Callers -> {"idle"} \cup {"waiting"} \cup Busy]
    BY <2>1 DEF LimiterHolds, Busy
  <2>3. \A d \in Callers : pc'[d] = "waiting" <=> pc[d] = "waiting"
    BY <2>1 DEF LimiterHolds
  <2>4. IsQueueOf(assessment_waiters, Assessments)' /\ IsQueueOf(profile_waiters, Profiles)'
    BY <2>1, <2>3 DEF LimiterHolds, IsQueueOf, Waiting, Callers
  <2>5. Holders' = Holders \cup {c} /\ c \notin Holders
    BY <2>1 DEF LimiterHolds, Holders
  <2>6. in_use' = Cardinality(Holders')
    <3>1. IsFiniteSet(Holders) /\ Cardinality(Holders) \in Nat
      BY HoldersAreFinite DEF Holders
    <3>2. Cardinality(Holders \cup {c}) = Cardinality(Holders) + 1
      BY <3>1, <2>5, FS_AddElement
    <3> QED
      BY <3>2, <2>1, <2>5 DEF LimiterHolds, SlotsAreHeld
  <2>7. Cardinality(Holders' \cap Profiles) = IF profile_held' THEN 1 ELSE 0
    <3>1. CASE c \in Profiles
      <4>1. ~profile_held /\ Cardinality(Holders \cap Profiles) = 0
        BY <1>1, <3>1 DEF MayEnter, LimiterHolds, SlotsAreHeld
      <4>2. IsFiniteSet(Holders \cap Profiles)
        BY HoldersAreFinite DEF Holders
      <4>3. Holders' \cap Profiles = (Holders \cap Profiles) \cup {c} /\ c \notin Holders \cap Profiles
        BY <2>5, <3>1
      <4>4. Cardinality((Holders \cap Profiles) \cup {c}) = 1
        BY <4>1, <4>2, <4>3, FS_AddElement
      <4> QED
        BY <4>3, <4>4, <2>1, <3>1
    <3>2. CASE c \notin Profiles
      <4>1. Holders' \cap Profiles = Holders \cap Profiles
        BY <2>5, <3>2
      <4>2. profile_held' = profile_held
        BY <2>1, <3>2 DEF LimiterHolds
      <4> QED
        BY <4>1, <4>2 DEF LimiterHolds, SlotsAreHeld
    <3> QED
      BY <3>1, <3>2
  <2>8. in_use' \in 0..Capacity /\ profile_held' \in BOOLEAN
    BY <1>1, <2>1, GatewayAssumption DEF LimiterHolds, MayEnter
  <2>9. NoIdleSlot'
    BY <2>1, <2>8, GatewayAssumption DEF LimiterHolds, NoIdleSlot
  <2> QED
    BY <2>2, <2>4, <2>6, <2>7, <2>8, <2>9 DEF LimiterHolds, SlotsAreHeld
<1>2. CASE ~MayEnter(c)
  <2>1. /\ pc' = [pc EXCEPT ![c] = "waiting"] /\ pc[c] = "idle"
        /\ UNCHANGED <<in_use, profile_held>>
        /\ IF c \in Assessments
           THEN assessment_waiters' = Append(assessment_waiters, c) /\ UNCHANGED profile_waiters
           ELSE profile_waiters' = Append(profile_waiters, c) /\ UNCHANGED assessment_waiters
    BY <1>2 DEF Acquire
  <2>2. pc' \in [Callers -> {"idle"} \cup {"waiting"} \cup Busy]
    BY <2>1 DEF LimiterHolds, Busy
  <2>3. Holders' = Holders
    BY <2>1 DEF LimiterHolds, Holders
  <2>4. \A d \in Callers : pc'[d] = "waiting" <=> (pc[d] = "waiting" \/ d = c)
    BY <2>1 DEF LimiterHolds
  <2>5. SlotsAreHeld' /\ in_use' \in 0..Capacity /\ profile_held' \in BOOLEAN
    BY <2>1, <2>3 DEF LimiterHolds, SlotsAreHeld
  <2>6. CASE c \in Assessments
    <3>1. c \notin Profiles
      BY <2>6, GatewayAssumption
    <3>2. assessment_waiters \in Seq(Assessments) /\ Lists(assessment_waiters, WaitingIn(Assessments))
      BY QueueLists DEF LimiterHolds
    <3>3. c \notin WaitingIn(Assessments)
      BY <2>1 DEF WaitingIn
    <3>4. /\ Append(assessment_waiters, c) \in Seq(Assessments)
          /\ Lists(Append(assessment_waiters, c), WaitingIn(Assessments) \cup {c})
      BY <2>6, <3>2, <3>3, ListsAppend
    <3>5. WaitingIn(Assessments)' = WaitingIn(Assessments) \cup {c}
      BY <2>4, <2>6 DEF WaitingIn, Callers
    <3>6. assessment_waiters' \in Seq(Assessments) /\ Lists(assessment_waiters', WaitingIn(Assessments)')
      BY <2>1, <2>6, <3>4, <3>5
    <3>7. IsQueueOf(assessment_waiters, Assessments)'
      BY <3>6 DEF IsQueueOf, Lists, WaitingIn, Waiting
    <3>8. IsQueueOf(profile_waiters, Profiles)'
      BY <2>1, <2>4, <2>6, <3>1 DEF LimiterHolds, IsQueueOf, Waiting, Callers
    <3>9. ~(in_use < Capacity)
      BY <1>2, <3>1 DEF MayEnter
    <3>10. NoIdleSlot'
      BY <2>1, <3>9 DEF NoIdleSlot
    <3> QED
      BY <2>2, <2>5, <3>7, <3>8, <3>10 DEF LimiterHolds
  <2>7. CASE c \in Profiles
    <3>1. c \notin Assessments
      BY <2>7, GatewayAssumption
    <3>2. profile_waiters \in Seq(Profiles) /\ Lists(profile_waiters, WaitingIn(Profiles))
      BY QueueLists DEF LimiterHolds
    <3>3. c \notin WaitingIn(Profiles)
      BY <2>1 DEF WaitingIn
    <3>4. /\ Append(profile_waiters, c) \in Seq(Profiles)
          /\ Lists(Append(profile_waiters, c), WaitingIn(Profiles) \cup {c})
      BY <2>7, <3>2, <3>3, ListsAppend
    <3>5. WaitingIn(Profiles)' = WaitingIn(Profiles) \cup {c}
      BY <2>4, <2>7 DEF WaitingIn, Callers
    <3>6. profile_waiters' \in Seq(Profiles) /\ Lists(profile_waiters', WaitingIn(Profiles)')
      BY <2>1, <3>1, <3>4, <3>5
    <3>7. IsQueueOf(profile_waiters, Profiles)'
      BY <3>6 DEF IsQueueOf, Lists, WaitingIn, Waiting
    <3>8. IsQueueOf(assessment_waiters, Assessments)'
      BY <2>1, <2>4, <3>1 DEF LimiterHolds, IsQueueOf, Waiting, Callers
    <3>9. in_use < Capacity => profile_held
      BY <1>2, <2>7 DEF MayEnter
    <3>10. NoIdleSlot'
      BY <2>1, <3>1, <3>9 DEF LimiterHolds, NoIdleSlot
    <3> QED
      BY <2>2, <2>5, <3>7, <3>8, <3>10 DEF LimiterHolds
  <2> QED
    BY <2>6, <2>7 DEF Callers
<1> QED
  BY <1>1, <1>2

\* A caller leaves its queue.
LEMMA Cancelled ==
  ASSUME LimiterHolds, NEW c \in Callers, Cancel(c)
  PROVE  LimiterHolds'
<1>1. pc[c] = "waiting" /\ pc' = [pc EXCEPT ![c] = "idle"] /\ UNCHANGED <<in_use, profile_held>>
  BY DEF Cancel
<1>2. pc' \in [Callers -> {"idle"} \cup {"waiting"} \cup Busy]
  BY <1>1 DEF LimiterHolds
<1>3. Holders' = Holders
  BY <1>1 DEF LimiterHolds, Holders
<1>4. \A d \in Callers : pc'[d] = "waiting" <=> (pc[d] = "waiting" /\ d # c)
  BY <1>1 DEF LimiterHolds
<1>5. SlotsAreHeld' /\ in_use' \in 0..Capacity /\ profile_held' \in BOOLEAN
  BY <1>1, <1>3 DEF LimiterHolds, SlotsAreHeld
<1>6. ASSUME NEW k \in DOMAIN assessment_waiters, assessment_waiters[k] = c,
             assessment_waiters' = RemoveAt(assessment_waiters, k), UNCHANGED profile_waiters
      PROVE  LimiterHolds'
  <2>1. assessment_waiters \in Seq(Assessments) /\ Lists(assessment_waiters, WaitingIn(Assessments))
    BY QueueLists DEF LimiterHolds
  <2>2. c \in Assessments /\ c \notin Profiles
    <3>1. c \in WaitingIn(Assessments)
      BY <1>6, <2>1 DEF Lists
    <3> QED
      BY <3>1, GatewayAssumption DEF WaitingIn
  <2>3. /\ assessment_waiters' \in Seq(Assessments)
        /\ Lists(assessment_waiters', WaitingIn(Assessments) \ {c})
        /\ assessment_waiters' # <<>> => assessment_waiters # <<>>
    BY <1>6, <2>1, ListsRemove
  <2>4. WaitingIn(Assessments)' = WaitingIn(Assessments) \ {c}
    BY <1>4 DEF WaitingIn, Callers
  <2>5. Lists(assessment_waiters', WaitingIn(Assessments)')
    BY <2>3, <2>4
  <2>6. IsQueueOf(assessment_waiters, Assessments)'
    BY <2>3, <2>5 DEF IsQueueOf, Lists, WaitingIn, Waiting
  <2>7. IsQueueOf(profile_waiters, Profiles)'
    BY <1>4, <1>6, <2>2 DEF LimiterHolds, IsQueueOf, Waiting, Callers
  <2>8. NoIdleSlot'
    BY <1>1, <1>6, <2>3 DEF LimiterHolds, NoIdleSlot
  <2> QED
    BY <1>2, <1>5, <2>6, <2>7, <2>8 DEF LimiterHolds
<1>7. ASSUME NEW k \in DOMAIN profile_waiters, profile_waiters[k] = c,
             profile_waiters' = RemoveAt(profile_waiters, k), UNCHANGED assessment_waiters
      PROVE  LimiterHolds'
  <2>1. profile_waiters \in Seq(Profiles) /\ Lists(profile_waiters, WaitingIn(Profiles))
    BY QueueLists DEF LimiterHolds
  <2>2. c \in Profiles /\ c \notin Assessments
    <3>1. c \in WaitingIn(Profiles)
      BY <1>7, <2>1 DEF Lists
    <3> QED
      BY <3>1, GatewayAssumption DEF WaitingIn
  <2>3. /\ profile_waiters' \in Seq(Profiles)
        /\ Lists(profile_waiters', WaitingIn(Profiles) \ {c})
        /\ profile_waiters' # <<>> => profile_waiters # <<>>
    BY <1>7, <2>1, ListsRemove
  <2>4. WaitingIn(Profiles)' = WaitingIn(Profiles) \ {c}
    BY <1>4 DEF WaitingIn, Callers
  <2>5. Lists(profile_waiters', WaitingIn(Profiles)')
    BY <2>3, <2>4
  <2>6. IsQueueOf(profile_waiters, Profiles)'
    BY <2>3, <2>5 DEF IsQueueOf, Lists, WaitingIn, Waiting
  <2>7. IsQueueOf(assessment_waiters, Assessments)'
    BY <1>4, <1>7, <2>2 DEF LimiterHolds, IsQueueOf, Waiting, Callers
  <2>8. NoIdleSlot'
    BY <1>1, <1>7, <2>3 DEF LimiterHolds, NoIdleSlot
  <2> QED
    BY <1>2, <1>5, <2>6, <2>7, <2>8 DEF LimiterHolds
<1> QED
  BY <1>6, <1>7 DEF Cancel

\* A slot is handed on, or free.
LEMMA Released ==
  ASSUME LimiterHolds, NEW c \in Callers, pc[c] \in Busy, Release(c, "idle")
  PROVE  /\ LimiterHolds'
         /\ pc' \in [Callers -> {"idle"} \cup {"waiting"} \cup Busy] /\ pc'[c] = "idle"
         /\ \A d \in Callers \ {c} : pc'[d] = pc[d] \/ (pc[d] = "waiting" /\ pc'[d] = "granted")
<1> DEFINE held == profile_held /\ c \notin Profiles
           rest == (Holders \cap Profiles) \ {c}
<1>1. pc \in [Callers -> {"idle"} \cup {"waiting"} \cup Busy] /\ in_use \in 0..Capacity /\ profile_held \in BOOLEAN
  BY DEF LimiterHolds
<1>2. /\ IsFiniteSet(Holders) /\ Cardinality(Holders) \in Nat
      /\ IsFiniteSet(Holders \ {c}) /\ IsFiniteSet(Holders \cap Profiles) /\ IsFiniteSet(rest)
  BY HoldersAreFinite DEF Holders
<1>3. c \in Holders
  BY DEF Holders, Busy
<1>4. Cardinality(rest) = IF held THEN 1 ELSE 0
  <2>1. Cardinality(Holders \cap Profiles) = IF profile_held THEN 1 ELSE 0
    BY DEF LimiterHolds, SlotsAreHeld
  <2>2. CASE c \in Profiles
    <3>1. Cardinality(rest) = Cardinality(Holders \cap Profiles) - 1
      BY <1>2, <1>3, <2>2, FS_RemoveElement
    <3>2. Cardinality(rest) \in Nat
      BY <1>2, FS_CardinalityType
    <3> QED
      BY <2>1, <2>2, <3>1, <3>2
  <2>3. CASE c \notin Profiles
    <3>1. rest = Holders \cap Profiles
      BY <2>3
    <3> QED
      BY <2>1, <2>3, <3>1
  <2> QED
    BY <2>2, <2>3
<1>5. Cardinality(Holders \ {c}) = in_use - 1
  BY <1>2, <1>3, FS_RemoveElement DEF LimiterHolds, SlotsAreHeld
<1>6. pc[c] # "waiting" /\ pc[c] # "idle"
  BY DEF Busy
<1> HIDE DEF rest
<1>7. CASE /\ assessment_waiters # <<>>
           /\ pc' = [pc EXCEPT ![c] = "idle", ![Head(assessment_waiters)] = "granted"]
           /\ assessment_waiters' = Tail(assessment_waiters)
           /\ profile_held' = held
           /\ UNCHANGED <<in_use, profile_waiters>>
  <2>1. assessment_waiters \in Seq(Assessments) /\ Lists(assessment_waiters, WaitingIn(Assessments))
    BY QueueLists DEF LimiterHolds
  <2>2. PICK h : h = Head(assessment_waiters)
    OBVIOUS
  <2>3. /\ h \in Assessments /\ h \in WaitingIn(Assessments)
        /\ assessment_waiters' \in Seq(Assessments) /\ Lists(assessment_waiters', WaitingIn(Assessments) \ {h})
    BY <1>7, <2>1, <2>2, ListsTail
  <2>4. h \in Callers /\ h # c /\ pc[h] = "waiting" /\ h \notin Profiles
    BY <2>3, <1>6, GatewayAssumption DEF WaitingIn, Callers
  <2>5. pc' = [pc EXCEPT ![c] = "idle", ![h] = "granted"]
    BY <1>7, <2>2
  <2>6. pc' \in [Callers -> {"idle"} \cup {"waiting"} \cup Busy]
    BY <1>1, <2>4, <2>5 DEF Busy
  <2>7. pc'[c] = "idle" /\ pc'[h] = "granted" /\ \A d \in Callers \ {c, h} : pc'[d] = pc[d]
    BY <1>1, <2>4, <2>5
  <2>8. \A d \in Callers : pc'[d] = "waiting" <=> (pc[d] = "waiting" /\ d # h)
    BY <2>4, <2>7, <1>6
  <2>9. WaitingIn(Assessments)' = WaitingIn(Assessments) \ {h}
    BY <2>8 DEF WaitingIn, Callers
  <2>10. Lists(assessment_waiters', WaitingIn(Assessments)')
    BY <2>3, <2>9
  <2>11. IsQueueOf(assessment_waiters, Assessments)'
    BY <2>3, <2>10 DEF IsQueueOf, Lists, WaitingIn, Waiting
  <2>12. IsQueueOf(profile_waiters, Profiles)'
    BY <1>7, <2>4, <2>8 DEF LimiterHolds, IsQueueOf, Waiting, Callers
  <2>13. Holders' = (Holders \ {c}) \cup {h} /\ h \notin Holders \ {c}
    BY <2>4, <2>7 DEF Holders
  <2>14. in_use' = Cardinality(Holders')
    <3>1. Cardinality((Holders \ {c}) \cup {h}) = Cardinality(Holders \ {c}) + 1
      BY <1>2, <2>13, FS_AddElement
    <3> QED
      BY <3>1, <1>1, <1>5, <1>7, <2>13, GatewayAssumption
  <2>15. Cardinality(Holders' \cap Profiles) = IF profile_held' THEN 1 ELSE 0
    <3>1. Holders' \cap Profiles = rest
      BY <2>4, <2>13 DEF rest
    <3> QED
      BY <3>1, <1>4, <1>7
  <2>16. NoIdleSlot'
    BY <1>7 DEF LimiterHolds, NoIdleSlot
  <2>17. in_use' \in 0..Capacity /\ profile_held' \in BOOLEAN
    BY <1>1, <1>7
  <2>18. LimiterHolds'
    BY <2>6, <2>11, <2>12, <2>14, <2>15, <2>16, <2>17 DEF LimiterHolds, SlotsAreHeld
  <2> QED
    BY <2>4, <2>6, <2>7, <2>18
<1>8. CASE /\ assessment_waiters = <<>> /\ ~held /\ profile_waiters # <<>>
           /\ pc' = [pc EXCEPT ![c] = "idle", ![Head(profile_waiters)] = "granted"]
           /\ profile_waiters' = Tail(profile_waiters)
           /\ profile_held' = TRUE
           /\ UNCHANGED <<in_use, assessment_waiters>>
  <2>1. profile_waiters \in Seq(Profiles) /\ Lists(profile_waiters, WaitingIn(Profiles))
    BY QueueLists DEF LimiterHolds
  <2>2. PICK h : h = Head(profile_waiters)
    OBVIOUS
  <2>3. /\ h \in Profiles /\ h \in WaitingIn(Profiles)
        /\ profile_waiters' \in Seq(Profiles) /\ Lists(profile_waiters', WaitingIn(Profiles) \ {h})
    BY <1>8, <2>1, <2>2, ListsTail
  <2>4. h \in Callers /\ h # c /\ pc[h] = "waiting" /\ h \notin Assessments
    BY <2>3, <1>6, GatewayAssumption DEF WaitingIn, Callers
  <2>5. pc' = [pc EXCEPT ![c] = "idle", ![h] = "granted"]
    BY <1>8, <2>2
  <2>6. pc' \in [Callers -> {"idle"} \cup {"waiting"} \cup Busy]
    BY <1>1, <2>4, <2>5 DEF Busy
  <2>7. pc'[c] = "idle" /\ pc'[h] = "granted" /\ \A d \in Callers \ {c, h} : pc'[d] = pc[d]
    BY <1>1, <2>4, <2>5
  <2>8. \A d \in Callers : pc'[d] = "waiting" <=> (pc[d] = "waiting" /\ d # h)
    BY <2>4, <2>7, <1>6
  <2>9. WaitingIn(Profiles)' = WaitingIn(Profiles) \ {h}
    BY <2>8 DEF WaitingIn, Callers
  <2>10. Lists(profile_waiters', WaitingIn(Profiles)')
    BY <2>3, <2>9
  <2>11. IsQueueOf(profile_waiters, Profiles)'
    BY <2>3, <2>10 DEF IsQueueOf, Lists, WaitingIn, Waiting
  <2>12. IsQueueOf(assessment_waiters, Assessments)'
    BY <1>8, <2>4, <2>8 DEF LimiterHolds, IsQueueOf, Waiting, Callers
  <2>13. Holders' = (Holders \ {c}) \cup {h} /\ h \notin Holders \ {c}
    BY <2>4, <2>7 DEF Holders
  <2>14. in_use' = Cardinality(Holders')
    <3>1. Cardinality((Holders \ {c}) \cup {h}) = Cardinality(Holders \ {c}) + 1
      BY <1>2, <2>13, FS_AddElement
    <3> QED
      BY <3>1, <1>1, <1>5, <1>8, <2>13, GatewayAssumption
  <2>15. Cardinality(Holders' \cap Profiles) = IF profile_held' THEN 1 ELSE 0
    <3>1. Holders' \cap Profiles = rest \cup {h} /\ h \notin rest
      BY <2>3, <2>13 DEF rest
    <3>2. Cardinality(rest \cup {h}) = Cardinality(rest) + 1
      BY <1>2, <3>1, FS_AddElement
    <3>3. Cardinality(rest) = 0
      BY <1>4, <1>8
    <3>4. Cardinality(rest \cup {h}) = 1
      BY <3>2, <3>3
    <3>5. profile_held'
      BY <1>8
    <3> QED
      BY <3>1, <3>4, <3>5
  <2>16. NoIdleSlot'
    BY <1>8 DEF NoIdleSlot
  <2>17. in_use' \in 0..Capacity /\ profile_held' \in BOOLEAN
    BY <1>1, <1>8
  <2>18. LimiterHolds'
    BY <2>6, <2>11, <2>12, <2>14, <2>15, <2>16, <2>17 DEF LimiterHolds, SlotsAreHeld
  <2> QED
    BY <2>4, <2>6, <2>7, <2>18
<1>9. CASE /\ assessment_waiters = <<>> /\ (held \/ profile_waiters = <<>>)
           /\ pc' = [pc EXCEPT ![c] = "idle"]
           /\ in_use' = in_use - 1
           /\ profile_held' = held
           /\ UNCHANGED <<assessment_waiters, profile_waiters>>
  <2>1. /\ pc' \in [Callers -> {"idle"} \cup {"waiting"} \cup Busy]
        /\ pc'[c] = "idle" /\ \A d \in Callers \ {c} : pc'[d] = pc[d]
    BY <1>1, <1>9
  <2>2. \A d \in Callers : pc'[d] = "waiting" <=> pc[d] = "waiting"
    BY <2>1, <1>6
  <2>3. IsQueueOf(assessment_waiters, Assessments)' /\ IsQueueOf(profile_waiters, Profiles)'
    BY <1>9, <2>2 DEF LimiterHolds, IsQueueOf, Waiting, Callers
  <2>4. Holders' = Holders \ {c}
    BY <2>1 DEF Holders
  <2>5. Holders' \cap Profiles = rest
    BY <2>4 DEF rest
  <2>6. SlotsAreHeld'
    BY <1>4, <1>5, <1>9, <2>4, <2>5 DEF SlotsAreHeld
  <2>7. NoIdleSlot'
    BY <1>9 DEF NoIdleSlot
  <2>8. in_use' \in 0..Capacity /\ profile_held' \in BOOLEAN
    <3>1. Cardinality(Holders \ {c}) \in Nat
      BY <1>2, FS_CardinalityType
    <3>2. in_use' \in 0..Capacity
      BY <3>1, <1>1, <1>5, <1>9, GatewayAssumption
    <3>3. profile_held' \in BOOLEAN
      BY <1>9
    <3> QED
      BY <3>2, <3>3
  <2>9. LimiterHolds'
    BY <2>1, <2>3, <2>6, <2>7, <2>8 DEF LimiterHolds
  <2> QED
    BY <2>1, <2>9
<1> QED
  BY <1>7, <1>8, <1>9 DEF Release

-----------------------------------------------------------------------------
\* The ledger.

\* Nothing is sent, answered or settled: what is due stays due.
LEMMA LedgerFrame ==
  ASSUME LedgerHolds, UNCHANGED <<answer, ledger, provider>>, Due' = Due
  PROVE  LedgerHolds'
BY DEF LedgerHolds, SpendIsCovered, ledger, provider

\* A caller that has nothing reserved before or after.
LEMMA DueFrame ==
  ASSUME UNCHANGED answer,
         \A d \in Callers : \/ pc'[d] = pc[d]
                            \/ pc[d] \notin {"sent", "answered"} /\ pc'[d] \notin {"sent", "answered"}
  PROVE  Due' = Due
BY DEF Due

LEMMA UnitsType ==
  ASSUME LedgerHolds
  PROVE  Due \in [Callers -> 0..Allowance] /\ Cardinality(Units(Due)) \in Nat
<1>1. Due \in [Callers -> 0..Allowance]
  BY DueType DEF LedgerHolds
<1>2. CASE Callers = {}
  <2>1. Units(Due) = {}
    BY <1>2 DEF Units
  <2> QED
    BY <1>1, <2>1, FS_EmptySet
<1>3. CASE Callers # {}
  <2>1. PICK c \in Callers : TRUE
    BY <1>3
  <2> HIDE DEF Due
  <2> QED
    BY <1>1, <2>1, UnitsChange
<1> QED
  BY <1>2, <1>3

LEMMA ReserveLedger ==
  ASSUME LedgerHolds, LimiterHolds, NEW c \in Callers, Reserve(c)
  PROVE  LedgerHolds'
<1>1. /\ pc[c] = "holding" /\ pc' = [pc EXCEPT ![c] = "sent"]
      /\ Len(recent) < calls_per_hour /\ TotalTokens - tokens >= Allowance
      /\ tokens' = tokens + Allowance /\ recent' = Append(recent, 0)
      /\ UNCHANGED <<answer, unknown, calls_per_hour, billed, excess>>
  <2>1. ~(Len(recent) >= calls_per_hour) /\ Len(recent) \in Nat /\ calls_per_hour \in Nat
    BY GatewayAssumption, LenProperties DEF Reserve, RateExceeded, LedgerHolds
  <2> QED
    BY <2>1 DEF Reserve, Affordable, provider
<1>2. pc \in [Callers -> {"idle"} \cup {"waiting"} \cup Busy]
  BY DEF LimiterHolds
<1>3. /\ Due \in [Callers -> 0..Allowance] /\ Due' \in [Callers -> 0..Allowance]
      /\ Due[c] = 0 /\ Due'[c] = Allowance /\ \A d \in Callers \ {c} : Due'[d] = Due[d]
  <2>1. Due \in [Callers -> 0..Allowance]
    BY DueType DEF LedgerHolds
  <2>2. answer' \in [Callers -> Answers]
    BY <1>1 DEF LedgerHolds
  <2>3. Due[c] = 0 /\ Due'[c] = Allowance /\ \A d \in Callers \ {c} : Due'[d] = Due[d]
    BY <1>1, <1>2 DEF Due
  <2>4. ASSUME NEW d \in Callers
        PROVE  Due'[d] \in 0..Allowance
    BY <2>1, <2>3, GatewayAssumption
  <2>5. Due' = [d \in Callers |-> Due'[d]]
    BY DEF Due
  <2> HIDE DEF Due
  <2> QED
    BY <2>1, <2>3, <2>4, <2>5
<1>4. /\ Cardinality(Units(Due)) \in Nat
      /\ Cardinality(Units(Due')) = Cardinality(Units(Due)) + Allowance
  <2> DEFINE f == Due
             g == Due'
  <2>1. f \in [Callers -> 0..Allowance] /\ g \in [Callers -> 0..Allowance]
        /\ \A d \in Callers \ {c} : g[d] = f[d]
    BY <1>3
  <2> HIDE DEF f, g
  <2>2. /\ Cardinality(Units(f)) \in Nat
        /\ Cardinality(Units(g)) = Cardinality(Units(f)) - f[c] + g[c]
    BY <2>1, UnitsChange
  <2> QED
    BY <2>2, <1>3, GatewayAssumption DEF f, g
<1>5. Units(Due)' = Units(Due')
  BY DEF Units
<1>6. SpendIsCovered'
  <2>1. /\ billed \in Nat /\ excess \in Nat /\ tokens \in Nat
        /\ excess <= billed
        /\ billed + Cardinality(Units(Due)) <= tokens + excess
        /\ TotalTokens \in Nat /\ Allowance \in Nat
    BY GatewayAssumption DEF LedgerHolds, SpendIsCovered
  <2>2. PICK k \in Nat : k = Cardinality(Units(Due))
    BY <1>4
  <2>3. Cardinality(Units(Due)') = k + Allowance
    BY <1>4, <1>5, <2>2
  <2>4. billed' = billed /\ excess' = excess /\ tokens' = tokens + Allowance
    BY <1>1
  <2>5. billed + (k + Allowance) <= (tokens + Allowance) + excess
    BY <2>1, <2>2
  <2>6. billed + (k + Allowance) <= TotalTokens + excess
    BY <2>1, <2>2, <1>1
  <2> QED
    BY <2>1, <2>3, <2>4, <2>5, <2>6 DEF SpendIsCovered
<1>7. /\ recent' \in Seq(0..(Hour - 1)) /\ Len(recent') = Len(recent) + 1
      /\ \A i, j \in DOMAIN recent' : i <= j => recent'[i] >= recent'[j]
  <2>1. recent \in Seq(0..(Hour - 1)) /\ 0 \in 0..(Hour - 1)
    BY GatewayAssumption DEF LedgerHolds
  <2>2. /\ recent' \in Seq(0..(Hour - 1))
        /\ DOMAIN recent' = 1..(Len(recent) + 1) /\ Len(recent) \in Nat /\ DOMAIN recent = 1..Len(recent)
        /\ \A j \in 1..Len(recent) : recent'[j] = recent[j]
        /\ recent'[Len(recent) + 1] = 0
    BY <1>1, <2>1, Enqueued
  <2>3. \A j \in DOMAIN recent : recent[j] \in 0..(Hour - 1)
    BY <2>1, <2>2, ElementOfSeq
  <2>4. ASSUME NEW i \in DOMAIN recent', NEW j \in DOMAIN recent', i <= j
        PROVE  recent'[i] >= recent'[j]
    <3>1. CASE j = Len(recent) + 1
      <4>1. recent'[i] \in 0..(Hour - 1)
        BY <2>2, ElementOfSeq, LenProperties
      <4> QED
        BY <3>1, <4>1, <2>2
    <3>2. CASE j \in DOMAIN recent
      <4>1. i \in DOMAIN recent
        BY <3>2, <2>2, <2>4
      <4>2. recent[i] >= recent[j]
        BY <3>2, <4>1, <2>4 DEF LedgerHolds
      <4> QED
        BY <3>2, <4>1, <4>2, <2>2
    <3> QED
      BY <3>1, <3>2, <2>2
  <2>5. Len(recent') = Len(recent) + 1
    BY <1>1, <2>1, AppendProperties
  <2> QED
    BY <2>2, <2>4, <2>5
<1>8. \E n \in CallLimits : Len(recent') <= n
  BY <1>1, <1>7, GatewayAssumption, LenProperties DEF LedgerHolds
<1>9. tokens' \in Nat
  BY <1>1, GatewayAssumption DEF LedgerHolds
<1> QED
  BY <1>1, <1>6, <1>7, <1>8, <1>9 DEF LedgerHolds

\* A caller's tokens change from one amount to another, and with them the sum.
LEMMA DueChange ==
  ASSUME answer \in [Callers -> Answers], answer' \in [Callers -> Answers], NEW c \in Callers,
         \A d \in Callers \ {c} : Due'[d] = Due[d]
  PROVE  /\ Cardinality(Units(Due)) \in Nat /\ Cardinality(Units(Due)') \in Nat
         /\ Due[c] \in 0..Allowance /\ Due'[c] \in 0..Allowance
         /\ Cardinality(Units(Due)') = Cardinality(Units(Due)) - Due[c] + Due'[c]
<1>1. Due \in [Callers -> 0..Allowance]
  BY DueType
<1>2. Due' \in [Callers -> 0..Allowance]
  <2>1. ASSUME NEW d \in Callers
        PROVE  Due'[d] \in 0..Allowance
    <3>1. answer'[d].used \in Nat
      BY DEF Answers
    <3> QED
      BY <3>1, GatewayAssumption DEF Due
  <2>2. Due' = [d \in Callers |-> Due'[d]]
    BY DEF Due
  <2> HIDE DEF Due
  <2> QED
    BY <2>1, <2>2
<1>3. Units(Due)' = Units(Due')
  BY DEF Units
<1> DEFINE f == Due
           g == Due'
<1>4. f \in [Callers -> 0..Allowance] /\ g \in [Callers -> 0..Allowance]
      /\ \A d \in Callers \ {c} : g[d] = f[d]
  BY <1>1, <1>2
<1> HIDE DEF f, g
<1>5. /\ Cardinality(Units(f)) \in Nat /\ Cardinality(Units(g)) \in Nat
      /\ Cardinality(Units(g)) = Cardinality(Units(f)) - f[c] + g[c]
  BY <1>4, UnitsChange
<1> QED
  BY <1>1, <1>2, <1>3, <1>5 DEF f, g

\* The provider bills and answers.
LEMMA AnswerLedger ==
  ASSUME LedgerHolds, LimiterHolds, NEW c \in Callers, Answer(c)
  PROVE  LedgerHolds'
<1>1. pc[c] = "sent" /\ pc' = [pc EXCEPT ![c] = "answered"] /\ UNCHANGED <<limiter, ledger>>
  BY DEF Answer
<1>2. PICK kind \in {"declined", "reported", "unreported"}, u \in Usages :
       /\ kind = "declined" => u = 0
       /\ answer' = [answer EXCEPT ![c] = [kind |-> kind, used |-> IF kind = "reported" THEN u ELSE 0]]
       /\ billed' = billed + u
       /\ excess' = excess + (IF u > Allowance THEN u - Allowance ELSE 0)
  BY DEF Answer
<1>3. PICK v : v = IF kind = "reported" THEN u ELSE 0
  OBVIOUS
<1>4. u \in Nat /\ v \in Nat /\ Allowance \in Nat
  BY <1>3, GatewayAssumption
<1>5. answer \in [Callers -> Answers] /\ answer' = [answer EXCEPT ![c] = [kind |-> kind, used |-> v]]
  BY <1>2, <1>3 DEF LedgerHolds
<1>6. [kind |-> kind, used |-> v] \in Answers
  BY <1>4 DEF Answers
<1>7. answer' \in [Callers -> Answers]
  BY <1>5, <1>6
<1>8. answer'[c].kind = kind /\ answer'[c].used = v /\ \A d \in Callers \ {c} : answer'[d] = answer[d]
  BY <1>5
<1>9. pc'[c] = "answered" /\ \A d \in Callers \ {c} : pc'[d] = pc[d]
  BY <1>1 DEF LimiterHolds
<1>10. /\ Due[c] = Allowance /\ \A d \in Callers \ {c} : Due'[d] = Due[d]
       /\ Due'[c] = IF kind # "unreported" /\ v < Allowance THEN Allowance - v ELSE 0
  BY <1>1, <1>8, <1>9 DEF Due
<1>11. /\ Cardinality(Units(Due)) \in Nat /\ Cardinality(Units(Due)') \in Nat
       /\ Cardinality(Units(Due)') = Cardinality(Units(Due)) - Due[c] + Due'[c]
  BY <1>5, <1>7, <1>10, DueChange
<1>12. PICK x \in Nat : x = IF u > Allowance THEN u - Allowance ELSE 0
  <2>1. CASE u > Allowance
    <3>1. u - Allowance \in Nat
      BY <1>4, <2>1
    <3> QED
      BY <2>1, <3>1
  <2>2. CASE ~(u > Allowance)
    BY <2>2
  <2> QED
    BY <2>1, <2>2
<1>13. x <= u /\ u - x - Due[c] + Due'[c] <= 0
  BY <1>2, <1>3, <1>4, <1>10, <1>12
<1>14. PICK k \in Nat, l \in Nat : k = Cardinality(Units(Due)) /\ l = Cardinality(Units(Due)')
  BY <1>11
<1>15. l - k <= x - u
  <2>1. Due[c] \in Int /\ Due'[c] \in Int
    BY <1>4, <1>10
  <2>2. l = k - Due[c] + Due'[c]
    BY <1>11, <1>14
  <2> QED
    BY <1>4, <1>13, <1>14, <2>1, <2>2
<1>16. SpendIsCovered'
  <2>1. /\ billed \in Nat /\ excess \in Nat /\ tokens \in Nat /\ TotalTokens \in Nat /\ excess <= billed
        /\ billed + k <= tokens + excess /\ billed + k <= TotalTokens + excess
    BY <1>14, GatewayAssumption DEF LedgerHolds, SpendIsCovered
  <2>2. billed' = billed + u /\ excess' = excess + x /\ tokens' = tokens
    BY <1>1, <1>2, <1>12 DEF ledger
  <2>3. /\ billed' \in Nat /\ excess' \in Nat /\ excess' <= billed'
        /\ billed' + l <= tokens' + excess' /\ billed' + l <= TotalTokens + excess'
    BY <2>1, <2>2, <1>4, <1>13, <1>15
  <2> QED
    BY <2>3, <1>14 DEF SpendIsCovered
<1> QED
  BY <1>1, <1>7, <1>16 DEF LedgerHolds, ledger

\* A settlement, saved or not, and the slot it frees.
LEMMA SettleLedger ==
  ASSUME LedgerHolds, LimiterHolds, NEW c \in Callers, Settle(c)
  PROVE  LedgerHolds'
<1>1. /\ pc[c] = "answered" /\ answer' = [answer EXCEPT ![c] = NoAnswer] /\ Release(c, "idle")
      /\ UNCHANGED <<recent, calls_per_hour, billed, excess>>
  BY DEF Settle, provider
<1>2. /\ pc'[c] = "idle"
      /\ \A d \in Callers \ {c} : pc'[d] = pc[d] \/ (pc[d] = "waiting" /\ pc'[d] = "granted")
  BY <1>1, Released DEF Busy
<1>3. answer \in [Callers -> Answers] /\ answer' \in [Callers -> Answers]
      /\ \A d \in Callers \ {c} : answer'[d] = answer[d]
  BY <1>1 DEF LedgerHolds, Answers, NoAnswer
<1>4. PICK u \in Nat : u = answer[c].used
  BY <1>3 DEF Answers
<1>5. Due'[c] = 0 /\ \A d \in Callers \ {c} : Due'[d] = Due[d]
  BY <1>2, <1>3 DEF Due
<1>6. Due[c] = IF answer[c].kind # "unreported" /\ u < Allowance THEN Allowance - u ELSE 0
  BY <1>1, <1>4 DEF Due
<1>7. /\ Cardinality(Units(Due)) \in Nat /\ Cardinality(Units(Due)') \in Nat
      /\ Due[c] \in 0..Allowance
      /\ Cardinality(Units(Due)') = Cardinality(Units(Due)) - Due[c] + Due'[c]
  BY <1>3, <1>5, DueChange
<1>8. PICK k \in Nat, l \in Nat, w \in Nat : /\ k = Cardinality(Units(Due)) /\ l = Cardinality(Units(Due)')
                                             /\ w = Due[c] /\ l = k - w
  <2>1. Due[c] \in Nat
    BY <1>7, GatewayAssumption
  <2> QED
    BY <2>1, <1>5, <1>7
<1>9. /\ billed \in Nat /\ excess \in Nat /\ tokens \in Nat /\ TotalTokens \in Nat /\ Allowance \in Nat
      /\ excess <= billed /\ billed + k <= tokens + excess /\ billed + k <= TotalTokens + excess
  BY <1>8, GatewayAssumption DEF LedgerHolds, SpendIsCovered
<1>10. CASE UNCHANGED <<tokens, unknown>> \/ (unknown' = TRUE /\ UNCHANGED tokens)
  <2>1. /\ billed' + l <= tokens' + excess' /\ billed' + l <= TotalTokens + excess'
    BY <1>1, <1>8, <1>9, <1>10
  <2>2. SpendIsCovered'
    BY <2>1, <1>1, <1>8, <1>9 DEF SpendIsCovered
  <2>3. unknown' \in BOOLEAN /\ tokens' \in Nat
    BY <1>9, <1>10 DEF LedgerHolds
  <2> QED
    BY <1>1, <1>3, <2>2, <2>3 DEF LedgerHolds
<1>11. CASE answer[c].kind # "unreported" /\ tokens' = tokens - Allowance + answer[c].used /\ UNCHANGED unknown
  <2>1. w >= Allowance - u
    BY <1>4, <1>6, <1>8, <1>9, <1>11
  <2>2. tokens' = tokens - Allowance + u
    BY <1>4, <1>11
  <2>3. /\ billed' + l <= tokens' + excess' /\ billed' + l <= TotalTokens + excess' /\ tokens' \in Nat
    BY <1>1, <1>8, <1>9, <2>1, <2>2
  <2>4. SpendIsCovered'
    BY <2>3, <1>1, <1>8, <1>9 DEF SpendIsCovered
  <2> QED
    BY <1>1, <1>3, <1>11, <2>3, <2>4 DEF LedgerHolds
<1> QED
  BY <1>10, <1>11 DEF Settle, Settled

\* The oldest calls leave the hour.
LEMMA TickLedger ==
  ASSUME LedgerHolds, Tick
  PROVE  LedgerHolds'
<1>1. PICK n \in 0..Len(recent) :
        /\ \A i \in DOMAIN recent : i <= n <=> recent[i] + 1 >= Hour
        /\ recent' = [i \in 1..(Len(recent) - n) |-> recent[n + i] + 1]
  BY DEF Tick
<1>2. /\ recent \in Seq(0..(Hour - 1)) /\ Len(recent) \in Nat /\ DOMAIN recent = 1..Len(recent)
      /\ n \in Nat /\ Hour \in Nat
  BY GatewayAssumption, LenProperties DEF LedgerHolds
<1>3. PICK m \in Nat : m = Len(recent) - n
  <2>1. Len(recent) - n \in Nat
    BY <1>2
  <2> QED
    BY <2>1
<1>4. ASSUME NEW i \in 1..m
      PROVE  /\ n + i \in DOMAIN recent /\ recent[n + i] + 1 \in 0..(Hour - 1)
             /\ recent[n + i] \in 0..(Hour - 1)
  <2>1. n + i \in DOMAIN recent /\ ~(n + i <= n)
    BY <1>2, <1>3
  <2>2. recent[n + i] \in 0..(Hour - 1)
    BY <1>2, <2>1, ElementOfSeq
  <2>3. ~(recent[n + i] + 1 >= Hour)
    BY <1>1, <2>1
  <2> QED
    BY <1>2, <2>1, <2>2, <2>3
<1>5. recent' = [i \in 1..m |-> recent[n + i] + 1]
  BY <1>1, <1>3
<1>6. recent' \in [1..m -> 0..(Hour - 1)] /\ DOMAIN recent' = 1..m
  BY <1>4, <1>5
<1>7. recent' \in Seq(0..(Hour - 1))
  BY <1>3, <1>6, SeqDef
<1>8. Len(recent') = m /\ m <= Len(recent)
  <2>1. DOMAIN recent' = 1..Len(recent') /\ Len(recent') \in Nat
    BY <1>7, LenProperties
  <2>2. Len(recent') = m
    BY <1>6, <2>1
  <2> QED
    BY <1>2, <1>3, <2>2
<1>9. ASSUME NEW i \in DOMAIN recent', NEW j \in DOMAIN recent', i <= j
      PROVE  recent'[i] >= recent'[j]
  <2>1. i \in 1..m /\ j \in 1..m
    BY <1>6
  <2>2. /\ n + i \in DOMAIN recent /\ n + j \in DOMAIN recent
        /\ recent[n + i] \in 0..(Hour - 1) /\ recent[n + j] \in 0..(Hour - 1)
    BY <1>4, <2>1
  <2>3. n + i <= n + j
    BY <1>2, <1>9, <2>1
  <2>4. recent[n + i] >= recent[n + j]
    BY <2>2, <2>3 DEF LedgerHolds
  <2>5. recent'[i] = recent[n + i] + 1 /\ recent'[j] = recent[n + j] + 1
    BY <1>5, <2>1
  <2> QED
    BY <2>2, <2>4, <2>5
<1>10. \E l \in CallLimits : Len(recent') <= l
  <2>1. PICK l \in CallLimits : Len(recent) <= l
    BY DEF LedgerHolds
  <2>2. l \in Nat
    BY GatewayAssumption
  <2> QED
    BY <1>2, <1>3, <1>8, <2>1, <2>2
<1>11. Due' = Due
  BY DEF Tick, Due
<1>12. SpendIsCovered'
  BY <1>11 DEF Tick, LedgerHolds, SpendIsCovered, provider
<1> QED
  BY <1>7, <1>9, <1>10, <1>12 DEF Tick, LedgerHolds

-----------------------------------------------------------------------------
\* The first state, every step and every state.

LEMMA InitHolds ==
  ASSUME Init
  PROVE  Inv
<1>1. pc \in [Callers -> {"idle"} \cup {"waiting"} \cup Busy] /\ answer \in [Callers -> Answers]
  BY DEF Init, NoAnswer, Answers
<1>2. Holders = {} /\ Holders \cap Profiles = {}
  BY DEF Init, Holders
<1>3. SlotsAreHeld /\ NoIdleSlot
  BY <1>2, FS_EmptySet DEF Init, SlotsAreHeld, NoIdleSlot
<1>4. IsQueueOf(assessment_waiters, Assessments) /\ IsQueueOf(profile_waiters, Profiles)
  BY EmptySeq DEF Init, IsQueueOf, Waiting, Callers
<1>5. LimiterHolds
  <2>1. in_use \in 0..Capacity
    BY GatewayAssumption DEF Init
  <2>2. profile_held \in BOOLEAN
    BY DEF Init
  <2> QED
    BY <1>1, <1>3, <1>4, <2>1, <2>2 DEF LimiterHolds
<1>6. \A c \in Callers : Due[c] = 0
  BY DEF Init, Due
<1>7. SpendIsCovered
  <2>1. Cardinality(Units(Due)) = 0
    BY <1>6, NoUnits
  <2> QED
    BY <2>1, GatewayAssumption DEF Init, SpendIsCovered
<1>8. calls_per_hour \in CallLimits /\ \E n \in CallLimits : Len(recent) <= n
  BY GatewayAssumption, EmptySeq DEF Init
<1>9. LedgerHolds
  <2>1. tokens \in Nat /\ recent = <<>> /\ recent \in Seq(0..(Hour - 1)) /\ DOMAIN recent = {}
    BY EmptySeq DEF Init
  <2>2. unknown \in BOOLEAN
    BY DEF Init
  <2> QED
    BY <1>1, <1>7, <1>8, <2>1, <2>2 DEF LedgerHolds
<1> QED
  BY <1>5, <1>9 DEF Inv

LEMMA RestartHolds ==
  ASSUME Inv, Restart
  PROVE  Inv'
<1>1. (pc \in [Callers -> {"idle"} \cup {"waiting"} \cup Busy] /\ answer \in [Callers -> Answers])'
  BY DEF Restart, NoAnswer, Answers
<1>2. Holders' = {} /\ Holders' \cap Profiles = {}
  BY DEF Restart, Holders
<1>3. SlotsAreHeld' /\ NoIdleSlot'
  BY <1>2, FS_EmptySet DEF Restart, SlotsAreHeld, NoIdleSlot
<1>4. IsQueueOf(assessment_waiters, Assessments)' /\ IsQueueOf(profile_waiters, Profiles)'
  BY EmptySeq DEF Restart, IsQueueOf, Waiting, Callers
<1>5. LimiterHolds'
  <2>1. in_use' \in 0..Capacity
    BY GatewayAssumption DEF Restart
  <2>2. profile_held' \in BOOLEAN
    BY DEF Restart
  <2> QED
    BY <1>1, <1>3, <1>4, <2>1, <2>2 DEF LimiterHolds
<1>6. \A c \in Callers : Due'[c] = 0
  BY DEF Restart, Due
<1>7. SpendIsCovered'
  <2>1. Cardinality(Units(Due)') = 0
    <3>1. Cardinality(Units(Due')) = 0
      BY <1>6, NoUnits
    <3> QED
      BY <3>1 DEF Units
  <2>2. Cardinality(Units(Due)) \in Nat
    BY UnitsType DEF Inv
  <2>3. /\ billed \in Nat /\ excess \in Nat /\ tokens \in Nat /\ TotalTokens \in Nat
        /\ billed <= tokens + excess /\ billed <= TotalTokens + excess
    BY <2>2, GatewayAssumption DEF Inv, LedgerHolds, SpendIsCovered
  <2>4. UNCHANGED <<tokens, billed, excess>>
    BY DEF Restart, provider
  <2> QED
    BY <2>1, <2>3, <2>4 DEF Inv, LedgerHolds, SpendIsCovered
<1>8. LedgerHolds'
  BY <1>1, <1>7 DEF Restart, Inv, LedgerHolds
<1> QED
  BY <1>5, <1>8 DEF Inv

LEMMA StepHolds ==
  ASSUME Inv, [Next]_vars
  PROVE  Inv'
<1>1. CASE UNCHANGED vars
  <2>1. LimiterHolds'
    BY <1>1 DEF Inv, vars, limiter, LimiterHolds, IsQueueOf, Waiting, SlotsAreHeld, Holders, NoIdleSlot
  <2>2. LedgerHolds'
    BY <1>1, LedgerFrame DEF Inv, vars, ledger, provider, Due
  <2> QED
    BY <2>1, <2>2 DEF Inv
<1>2. ASSUME NEW c \in Callers, Acquire(c)
      PROVE  Inv'
  <2>1. Due' = Due
    BY <1>2, DueFrame DEF Acquire, Inv, LimiterHolds
  <2> QED
    BY <1>2, <2>1, Entered, LedgerFrame DEF Inv, Acquire
<1>3. ASSUME NEW c \in Callers, Cancel(c)
      PROVE  Inv'
  <2>1. Due' = Due
    BY <1>3, DueFrame DEF Cancel, Inv, LimiterHolds
  <2> QED
    BY <1>3, <2>1, Cancelled, LedgerFrame DEF Inv, Cancel
<1>4. ASSUME NEW c \in Callers, pc[c] \in {"granted", "holding"}, Release(c, "idle"),
             UNCHANGED <<answer, ledger, provider>>
      PROVE  Inv'
  <2>1. /\ LimiterHolds' /\ pc'[c] = "idle"
        /\ \A d \in Callers \ {c} : pc'[d] = pc[d] \/ (pc[d] = "waiting" /\ pc'[d] = "granted")
    BY <1>4, Released DEF Inv, Busy
  <2>2. Due' = Due
    BY <1>4, <2>1, DueFrame
  <2> QED
    BY <1>4, <2>1, <2>2, LedgerFrame DEF Inv
<1>5. ASSUME NEW c \in Callers, Resume(c)
      PROVE  Inv'
  <2>1. Due' = Due
    BY <1>5, DueFrame DEF Resume, Inv, LimiterHolds
  <2>2. LimiterHolds'
    BY <1>5, Moved DEF Inv, Resume, Busy
  <2> QED
    BY <1>5, <2>1, <2>2, LedgerFrame DEF Inv, Resume
<1>6. ASSUME NEW c \in Callers, Reserve(c)
      PROVE  Inv'
  <2>1. LimiterHolds'
    BY <1>6, Moved DEF Inv, Reserve, Busy
  <2> QED
    BY <1>6, <2>1, ReserveLedger DEF Inv
<1>7. ASSUME NEW c \in Callers, Answer(c)
      PROVE  Inv'
  <2>1. LimiterHolds'
    BY <1>7, Moved DEF Inv, Answer, Busy
  <2> QED
    BY <1>7, <2>1, AnswerLedger DEF Inv
<1>8. ASSUME NEW c \in Callers, Settle(c)
      PROVE  Inv'
  <2>1. LimiterHolds'
    BY <1>8, Released DEF Inv, Settle, Busy
  <2> QED
    BY <1>8, <2>1, SettleLedger DEF Inv
<1>9. CASE Tick
  <2>1. LimiterHolds'
    BY <1>9 DEF Tick, limiter, Inv, LimiterHolds, IsQueueOf, Waiting, SlotsAreHeld, Holders, NoIdleSlot
  <2> QED
    BY <1>9, <2>1, TickLedger DEF Inv
<1>10. CASE Restart
  BY <1>10, RestartHolds
<1> QED
  BY <1>1, <1>2, <1>3, <1>4, <1>5, <1>6, <1>7, <1>8, <1>9, <1>10
     DEF Next, Step, Proceed, CancelGranted, Deferred

LEMMA InvHolds == Spec => []Inv
<1>1. Init => Inv
  BY InitHolds
<1>2. Inv /\ [Next]_vars => Inv'
  BY StepHolds
<1> QED
  BY <1>1, <1>2, PTL DEF Spec

\* The limiter, the ledger and the callers keep their shapes: both queues list exactly
\* the callers that wait, each once, whatever is cancelled, granted or lost in a restart.
THEOREM GatewayTypes == Spec => []TypeOK
<1>1. Inv => TypeOK
  BY DEF Inv, LimiterHolds, LedgerHolds, TypeOK, Busy, Answers
<1> QED
  BY <1>1, InvHolds, PTL

\* For every number of callers and every capacity, the slots in use are the callers
\* that hold one, at most one of them a profile, and no wake-up is lost (releaseFunc,
\* wakeNextLocked, dequeueLocked).
THEOREM LimiterExact == Spec => []LimiterIsExact
<1>1. Inv => LimiterIsExact
  BY DEF Inv, LimiterHolds, LimiterIsExact
<1> QED
  BY <1>1, InvHolds, PTL

\* The retry time of a deferral is the first with room, for every limit and every
\* sequence of calls the hour can hold.
LEMMA RetryExact ==
  ASSUME LedgerHolds
  PROVE  RetryAtIsExact
<1> DEFINE Left(w) == Cardinality({i \in DOMAIN recent : recent[i] + w < Hour})
<1> SUFFICES ASSUME RateExceeded
             PROVE  Left(RetryAfter) < calls_per_hour /\ Left(RetryAfter - 1) >= calls_per_hour
  BY DEF RetryAtIsExact
<1> USE DEF LedgerHolds
<1>1. /\ recent \in Seq(0..(Hour - 1)) /\ Len(recent) \in Nat /\ DOMAIN recent = 1..Len(recent)
      /\ \A i \in DOMAIN recent : recent[i] \in 0..(Hour - 1)
  BY LenProperties, ElementOfSeq
<1>2. calls_per_hour \in Nat \ {0} /\ Hour \in Nat /\ calls_per_hour <= Len(recent)
  BY <1>1, GatewayAssumption DEF RateExceeded
<1>3. PICK k \in DOMAIN recent : k = Len(recent) - calls_per_hour + 1
  BY <1>1, <1>2
<1>4. RetryAfter = Hour - recent[k] /\ recent[k] \in 0..(Hour - 1)
  BY <1>1, <1>3 DEF RetryAfter
<1>5. Left(RetryAfter) < calls_per_hour
  <2> DEFINE young == {i \in DOMAIN recent : recent[i] + RetryAfter < Hour}
  <2>1. young \subseteq (k + 1)..Len(recent)
    <3> SUFFICES ASSUME NEW i \in young PROVE i \in (k + 1)..Len(recent)
      OBVIOUS
    <3>1. i \in DOMAIN recent /\ recent[i] < recent[k] /\ recent[i] \in Int
      BY <1>1, <1>2, <1>4
    <3>2. ~(i <= k)
      BY <1>3, <3>1, <1>4
    <3> QED
      BY <1>1, <1>3, <3>1, <3>2
  <2>2. IsFiniteSet((k + 1)..Len(recent)) /\ Cardinality((k + 1)..Len(recent)) = calls_per_hour - 1
    <3>1. k + 1 \in Int /\ Len(recent) \in Int /\ Len(recent) - (k + 1) + 1 = calls_per_hour - 1
      BY <1>1, <1>2, <1>3
    <3>2. k + 1 > Len(recent) => calls_per_hour - 1 = 0
      BY <1>1, <1>2, <1>3
    <3> QED
      BY <3>1, <3>2, FS_Interval
  <2> HIDE DEF young
  <2>3. Cardinality(young) <= calls_per_hour - 1 /\ Cardinality(young) \in Nat
    BY <2>1, <2>2, FS_Subset, FS_CardinalityType
  <2>4. Cardinality(young) < calls_per_hour
    BY <2>3, <1>2
  <2> QED
    BY <2>4 DEF young
<1>6. Left(RetryAfter - 1) >= calls_per_hour
  <2> DEFINE young == {i \in DOMAIN recent : recent[i] + (RetryAfter - 1) < Hour}
  <2>1. k..Len(recent) \subseteq young
    <3> SUFFICES ASSUME NEW i \in k..Len(recent) PROVE i \in young
      OBVIOUS
    <3>1. i \in DOMAIN recent /\ k <= i
      BY <1>1, <1>3
    <3>2. recent[k] >= recent[i] /\ recent[i] \in 0..(Hour - 1)
      BY <1>1, <1>3, <3>1
    <3> QED
      BY <1>2, <1>4, <3>1, <3>2
  <2>2. IsFiniteSet(young)
    <3>1. IsFiniteSet(1..Len(recent)) /\ young \subseteq 1..Len(recent)
      BY <1>1, FS_Interval
    <3> HIDE DEF young
    <3> QED
      BY <3>1, FS_Subset
  <2>3. Cardinality(k..Len(recent)) = calls_per_hour
    BY <1>1, <1>2, <1>3, FS_Interval
  <2> HIDE DEF young
  <2>4. Cardinality(k..Len(recent)) <= Cardinality(young) /\ Cardinality(young) \in Nat
    BY <2>1, <2>2, FS_Subset, FS_CardinalityType
  <2>5. Cardinality(young) >= calls_per_hour
    BY <2>3, <2>4, <1>2
  <2> QED
    BY <2>5 DEF young
<1> QED
  BY <1>5, <1>6

\* For every limit, allowance and bill, through crashes and failed settlements, the provider
\* never bills more than total_tokens and what it billed beyond allowances, and a deferral
\* names the first moment with room (reserve, RoundTrip, settlementUsage).
THEOREM BudgetExact == Spec => []BudgetIsExact
<1>1. Inv => SpendIsBounded
  <2> SUFFICES ASSUME Inv PROVE SpendIsBounded
    OBVIOUS
  <2>1. Cardinality(Units(Due)) \in Nat
    BY UnitsType DEF Inv
  <2>2. /\ billed \in Nat /\ excess \in Nat /\ TotalTokens \in Nat
        /\ billed + Cardinality(Units(Due)) <= TotalTokens + excess
    BY GatewayAssumption DEF Inv, LedgerHolds, SpendIsCovered
  <2> QED
    BY <2>1, <2>2 DEF SpendIsBounded
<1>2. Inv => RetryAtIsExact
  BY RetryExact DEF Inv
<1>3. Inv => BudgetIsExact
  BY <1>1, <1>2 DEF BudgetIsExact
<1> QED
  BY <1>3, InvHolds, PTL

-----------------------------------------------------------------------------
\* SemanticProfiles

SemanticStatuses == {"absent", "pending", "running", "complete", "exhausted"}
SemanticClasses == {"none", "budget_deferred", "dependency", "content"}
SemanticOutcomes == {"none", "accepted", "malformed", "deferred", "held", "failed"}
SemanticJobs ==
  [status : SemanticStatuses, attempt : Nat, budget : Nat, class : SemanticClasses, rearmed : Nat,
   owner : Workers \cup {"none"}, retry : BOOLEAN]
SemanticRounds ==
  [at : {"idle", "claimed", "calling", "answered"}, input : Inputs \cup {"none"}, outcome : SemanticOutcomes]

\* A request that was charged to the job of i, of which the provider has seen nothing yet.
SemanticCharged(r, i) ==
  r.input = i /\ (r.at = "calling" \/ (r.at = "answered" /\ r.outcome \in {"deferred", "held"}))
SemanticOut(i) == {w \in Workers : SemanticCharged(worker[w], i)}

SemanticType ==
  /\ job \in [Inputs -> SemanticJobs] /\ worker \in [Workers -> SemanticRounds]
  /\ sent \in [Inputs -> Nat] /\ health.generation \in Nat
  /\ \A w \in Workers : worker[w].at # "idle" => worker[w].input \in Inputs

\* What was sent and what is charged were paid for; what may be charged was granted with
\* the job, or by one recovery each.
SemanticPaid == \A i \in Inputs : sent[i] + Cardinality(SemanticOut(i)) <= job[i].attempt
SemanticGranted ==
  \A i \in Inputs :
    /\ job[i].attempt <= job[i].budget /\ job[i].budget <= MaxAttempts * (1 + job[i].rearmed)
    /\ job[i].rearmed <= health.generation
    /\ job[i].status = "absent" => job[i].attempt = 0

SemanticInv == SemanticType /\ SemanticPaid /\ SemanticGranted

LEMMA SemanticNone ==
  /\ Semantic!NoJob \in SemanticJobs /\ Semantic!NoJob.attempt = 0 /\ Semantic!NoJob.budget = 0
  /\ Semantic!NoJob.rearmed = 0
  /\ Semantic!Idle \in SemanticRounds /\ Semantic!Idle.at = "idle"
BY DEF Semantic!NoJob, Semantic!Idle, Semantic!NoOwner, SemanticJobs, SemanticRounds, SemanticStatuses,
       SemanticClasses, SemanticOutcomes

LEMMA SemanticInit == Semantic!Init => SemanticInv
<1> SUFFICES ASSUME Semantic!Init PROVE SemanticInv
  OBVIOUS
<1>1. /\ job = [i \in Inputs |-> Semantic!NoJob] /\ worker = [w \in Workers |-> Semantic!Idle]
      /\ sent = [i \in Inputs |-> 0] /\ health.generation = 0
  BY DEF Semantic!Init
<1>2. SemanticType
  BY <1>1, SemanticNone DEF SemanticType
<1>3. \A i \in Inputs : SemanticOut(i) = {}
  BY <1>1, SemanticNone DEF SemanticOut, SemanticCharged
<1>4. SemanticPaid
  <2>1. ASSUME NEW i \in Inputs PROVE sent[i] + Cardinality(SemanticOut(i)) <= job[i].attempt
    <3>1. Cardinality(SemanticOut(i)) = 0
      BY <1>3, FS_EmptySet
    <3> QED BY <1>1, <3>1, SemanticNone
  <2> QED BY <2>1 DEF SemanticPaid
<1>5. SemanticGranted
  <2>1. MaxAttempts * (1 + 0) \in Nat
    BY SemanticAssumption
  <2> QED BY <1>1, <2>1, SemanticNone DEF SemanticGranted
<1> QED BY <1>2, <1>4, <1>5 DEF SemanticInv

\* Steps of Situations, operators and the provider pay nothing and grant nothing.
LEMMA SemanticAside ==
  ASSUME SemanticInv, UNCHANGED <<job, worker, sent>>, health'.generation \in Nat,
         health'.generation >= health.generation
  PROVE  SemanticInv'
<1>1. SemanticType'
  BY DEF SemanticInv, SemanticType
<1>2. SemanticPaid'
  BY DEF SemanticInv, SemanticPaid, SemanticOut, SemanticCharged
<1>3. SemanticGranted'
  BY DEF SemanticInv, SemanticType, SemanticJobs, SemanticGranted
<1> QED BY <1>1, <1>2, <1>3 DEF SemanticInv

\* A step that only writes rows and charges nothing.
LEMMA SemanticRows ==
  ASSUME SemanticInv, UNCHANGED <<worker, sent, health>>, job' \in [Inputs -> SemanticJobs],
         \A i \in Inputs : job'[i].attempt = job[i].attempt, SemanticGranted'
  PROVE  SemanticInv'
<1>1. SemanticType'
  BY DEF SemanticInv, SemanticType
<1>2. SemanticPaid'
  BY DEF SemanticInv, SemanticPaid, SemanticOut, SemanticCharged
<1> QED BY <1>1, <1>2 DEF SemanticInv

\* What a worker's step does to the requests that are out.
LEMMA SemanticMoves ==
  ASSUME SemanticInv, NEW w \in Workers, NEW r \in SemanticRounds, worker' = [worker EXCEPT ![w] = r], NEW i
  PROVE  /\ Cardinality(SemanticOut(i)) \in Nat /\ Cardinality(SemanticOut(i))' \in Nat
         /\ w \in SemanticOut(i) => Cardinality(SemanticOut(i)) >= 1
         /\ Cardinality(SemanticOut(i))' =
              IF SemanticCharged(r, i)
              THEN Cardinality(SemanticOut(i)) + (IF w \in SemanticOut(i) THEN 0 ELSE 1)
              ELSE Cardinality(SemanticOut(i)) - (IF w \in SemanticOut(i) THEN 1 ELSE 0)
<1> DEFINE O == SemanticOut(i)
<1>1. IsFiniteSet(O)
  BY FS_Subset, SemanticAssumption DEF SemanticOut
<1>2. O' = IF SemanticCharged(r, i) THEN O \cup {w} ELSE O \ {w}
  BY DEF SemanticOut, SemanticInv, SemanticType
<1>3. Cardinality(O) \in Nat
  BY <1>1, FS_CardinalityType
<1>4. IsFiniteSet(O \cup {w}) /\ Cardinality(O \cup {w}) = IF w \in O THEN Cardinality(O) ELSE Cardinality(O) + 1
  BY <1>1, FS_AddElement
<1>5. IsFiniteSet(O \ {w}) /\ Cardinality(O \ {w}) = IF w \in O THEN Cardinality(O) - 1 ELSE Cardinality(O)
  BY <1>1, FS_RemoveElement
<1>6. Cardinality(O \ {w}) \in Nat /\ Cardinality(O \cup {w}) \in Nat
  BY <1>4, <1>5, FS_CardinalityType
<1>7. Cardinality(O)' = Cardinality(O')
  OBVIOUS
<1> HIDE DEF O
<1>8. /\ Cardinality(O) \in Nat /\ Cardinality(O)' \in Nat
      /\ w \in O => Cardinality(O) >= 1
      /\ Cardinality(O)' = IF SemanticCharged(r, i) THEN Cardinality(O) + (IF w \in O THEN 0 ELSE 1)
                           ELSE Cardinality(O) - (IF w \in O THEN 1 ELSE 0)
  <2>1. CASE SemanticCharged(r, i)
    BY <1>2, <1>3, <1>4, <1>5, <1>6, <1>7, <2>1
  <2>2. CASE ~SemanticCharged(r, i)
    BY <1>2, <1>3, <1>4, <1>5, <1>6, <1>7, <2>2
  <2> QED BY <2>1, <2>2
<1> QED BY <1>8 DEF O

\* Row i as it is given back.
LEMMA SemanticFreed ==
  ASSUME SemanticInv, NEW i \in Inputs, NEW s \in SemanticStatuses, NEW c \in SemanticClasses, NEW b \in BOOLEAN
  PROVE  LET n == Semantic!Freed(i, s, c, b) IN
         n \in SemanticJobs /\ n.status = s /\ n.attempt = job[i].attempt /\ n.budget = job[i].budget
         /\ n.rearmed = job[i].rearmed
<1>1. ASSUME NEW r \in SemanticJobs
      PROVE  LET n == [r EXCEPT !.status = s, !.class = c, !.retry = b, !.owner = "none"] IN
             n \in SemanticJobs /\ n.status = s /\ n.attempt = r.attempt /\ n.budget = r.budget /\ n.rearmed = r.rearmed
  <2> DEFINE h == [r EXCEPT !.status = s, !.class = c]
             n == [r EXCEPT !.status = s, !.class = c, !.retry = b, !.owner = "none"]
  <2>1. h \in SemanticJobs /\ h.status = s /\ h.attempt = r.attempt /\ h.budget = r.budget /\ h.rearmed = r.rearmed
    BY DEF SemanticJobs
  <2>2. n = [h EXCEPT !.retry = b, !.owner = "none"]
    BY Zenon
  <2> HIDE DEF h, n
  <2>3. n \in SemanticJobs /\ n.status = h.status /\ n.attempt = h.attempt /\ n.budget = h.budget /\ n.rearmed = h.rearmed
    BY <2>1, <2>2 DEF SemanticJobs
  <2>4. n \in SemanticJobs /\ n.status = s /\ n.attempt = r.attempt /\ n.budget = r.budget /\ n.rearmed = r.rearmed
    BY <2>1, <2>3
  <2> QED BY <2>4 DEF n
<1>2. job[i] \in SemanticJobs
  BY DEF SemanticInv, SemanticType
<1> QED BY <1>1, <1>2 DEF Semantic!Freed, Semantic!NoOwner

LEMMA SemanticAttaches ==
  ASSUME SemanticInv, NEW n \in Situations, NEW i \in Inputs, Semantic!Attach(n, i)
  PROVE  SemanticInv'
<1>1. /\ UNCHANGED <<worker, sent, health>>
      /\ \/ job' = job
         \/ /\ job[i].status = "absent"
            /\ job' = [job EXCEPT ![i] = [Semantic!NoJob EXCEPT !.status = "pending", !.budget = MaxAttempts]]
  BY DEF Semantic!Attach, Semantic!Admissible
<1>2. CASE job' = job
  BY <1>1, <1>2, SemanticAside DEF SemanticInv, SemanticType
<1>3. CASE /\ job[i].status = "absent"
           /\ job' = [job EXCEPT ![i] = [Semantic!NoJob EXCEPT !.status = "pending", !.budget = MaxAttempts]]
  <2> DEFINE fresh(r) == [r EXCEPT !.status = "pending", !.budget = MaxAttempts]
             Fresh(q) == q \in SemanticJobs /\ q.status = "pending" /\ q.attempt = 0 /\ q.budget = MaxAttempts /\ q.rearmed = 0
  <2>1. ASSUME NEW r \in SemanticJobs, r.attempt = 0, r.rearmed = 0 PROVE Fresh(fresh(r))
    BY <2>1, SemanticAssumption DEF SemanticJobs, SemanticStatuses
  <2>2. job' = [job EXCEPT ![i] = fresh(Semantic!NoJob)]
    BY <1>3
  <2> HIDE DEF fresh, Fresh
  <2>3. Fresh(fresh(Semantic!NoJob))
    BY <2>1, SemanticNone
  <2>4. PICK q : q = fresh(Semantic!NoJob)
    OBVIOUS
  <2>5. job' = [job EXCEPT ![i] = q] /\ Fresh(q)
    BY <2>2, <2>3, <2>4
  <2>6. q \in SemanticJobs /\ q.status = "pending" /\ q.attempt = 0 /\ q.budget = MaxAttempts /\ q.rearmed = 0
    BY <2>5 DEF Fresh
  <2>7. job' \in [Inputs -> SemanticJobs] /\ job'[i] = q /\ \A j \in Inputs \ {i} : job'[j] = job[j]
    BY <2>5, <2>6 DEF SemanticInv, SemanticType
  <2>8. \A j \in Inputs : job'[j].attempt = job[j].attempt
    BY <1>3, <2>6, <2>7 DEF SemanticInv, SemanticGranted
  <2>9. MaxAttempts * (1 + 0) = MaxAttempts /\ MaxAttempts \in Nat /\ health.generation \in Nat
    BY SemanticAssumption DEF SemanticInv, SemanticType
  <2>10. SemanticGranted'
    <3>1. ASSUME NEW j \in Inputs
          PROVE  /\ job'[j].attempt <= job'[j].budget /\ job'[j].budget <= MaxAttempts * (1 + job'[j].rearmed)
                 /\ job'[j].rearmed <= health'.generation
                 /\ job'[j].status = "absent" => job'[j].attempt = 0
      <4>1. CASE j = i
        BY <1>1, <2>6, <2>7, <2>9, <4>1
      <4>2. CASE j # i
        BY <1>1, <2>7, <4>2 DEF SemanticInv, SemanticGranted
      <4> QED BY <4>1, <4>2
    <3> QED BY <3>1 DEF SemanticGranted
  <2> QED BY <1>1, <2>7, <2>8, <2>10, SemanticRows
<1> QED BY <1>1, <1>2, <1>3

\* A row that is given back, or marked, keeps what it was granted.
LEMMA SemanticFrees ==
  ASSUME SemanticInv, NEW i \in Inputs, NEW q \in SemanticJobs, q.status # "absent",
         q.attempt = job[i].attempt, q.budget = job[i].budget, q.rearmed = job[i].rearmed,
         job' = [job EXCEPT ![i] = q], UNCHANGED health
  PROVE  /\ job' \in [Inputs -> SemanticJobs] /\ SemanticGranted'
         /\ \A j \in Inputs : job'[j].attempt = job[j].attempt
<1>1. job' \in [Inputs -> SemanticJobs] /\ job'[i] = q /\ \A j \in Inputs \ {i} : job'[j] = job[j]
  BY DEF SemanticInv, SemanticType
<1>2. SemanticGranted'
  BY <1>1 DEF SemanticInv, SemanticGranted
<1> QED BY <1>1, <1>2

LEMMA SemanticExpires ==
  ASSUME SemanticInv, NEW i \in Inputs, Semantic!LeaseExpires(i)
  PROVE  SemanticInv'
<1> DEFINE s == IF Semantic!Spent(i) THEN "exhausted" ELSE "pending"
           q == Semantic!Freed(i, s, job[i].class, FALSE)
<1>1. UNCHANGED <<worker, sent, health>> /\ job' = [job EXCEPT ![i] = q]
  BY DEF Semantic!LeaseExpires
<1>2. s \in SemanticStatuses /\ s # "absent"
  BY DEF SemanticStatuses
<1>3. job[i].class \in SemanticClasses
  BY DEF SemanticInv, SemanticType, SemanticJobs
<1> HIDE DEF s
<1>4. /\ q \in SemanticJobs /\ q.status = s /\ q.attempt = job[i].attempt /\ q.budget = job[i].budget
      /\ q.rearmed = job[i].rearmed
  BY <1>2, <1>3, SemanticFreed
<1> HIDE DEF q
<1>5. /\ job' \in [Inputs -> SemanticJobs] /\ SemanticGranted'
      /\ \A j \in Inputs : job'[j].attempt = job[j].attempt
  BY <1>1, <1>2, <1>4, SemanticFrees
<1> QED BY <1>1, <1>5, SemanticRows

LEMMA SemanticMultiple ==
  ASSUME NEW m \in Nat, NEW a \in Nat, NEW b \in Nat
  PROVE  /\ a < b => m * (1 + a) + m <= m * (1 + b)
         /\ a <= b => m * (1 + a) <= m * (1 + b)
OBVIOUS

LEMMA SemanticRearms ==
  ASSUME SemanticInv, Semantic!Rearm
  PROVE  SemanticInv'
<1> DEFINE Revived == {i \in Semantic!Candidates : ~Semantic!Unrearmable(i)}
<1>1. /\ UNCHANGED <<worker, sent, health>>
      /\ job' = [i \in Inputs |->
           CASE i \in Revived -> Semantic!Rearmed(i)
             [] i \in Semantic!Candidates \ Revived -> [job[i] EXCEPT !.rearmed = health.generation]
             [] OTHER -> job[i]]
  BY DEF Semantic!Rearm
<1>2. \A i \in Inputs : job[i] \in SemanticJobs
  BY DEF SemanticInv, SemanticType
<1>3. health.generation \in Nat /\ MaxAttempts \in Nat
  BY SemanticAssumption DEF SemanticInv, SemanticType
<1>4. ASSUME NEW i \in Inputs
      PROVE  /\ job'[i] \in SemanticJobs /\ job'[i].attempt = job[i].attempt
             /\ \/ job'[i] = job[i]
                \/ /\ job[i].rearmed < health.generation /\ job'[i].rearmed = health.generation
                   /\ job'[i].budget \in {job[i].budget, job[i].budget + MaxAttempts}
                   /\ job'[i].status # "absent"
  <2>1. CASE i \in Revived
    <3>1. job'[i] = [job[i] EXCEPT !.status = "pending", !.budget = @ + MaxAttempts, !.retry = FALSE,
                                   !.rearmed = health.generation]
      BY <1>1, <2>1 DEF Semantic!Rearmed
    <3>2. job[i].rearmed < health.generation
      BY <2>1 DEF Semantic!Candidates
    <3> DEFINE Again(r, b, g) == [r EXCEPT !.status = "pending", !.budget = b, !.retry = FALSE, !.rearmed = g]
               Armed(n, a, b, g) == n \in SemanticJobs /\ n.attempt = a /\ n.rearmed = g /\ n.budget = b /\ n.status = "pending"
    <3>3. ASSUME NEW r \in SemanticJobs, NEW b \in Nat, NEW g \in Nat
          PROVE  Armed(Again(r, b, g), r.attempt, b, g)
      <4> DEFINE h == [r EXCEPT !.status = "pending", !.budget = b]
      <4>1. h \in SemanticJobs /\ h.attempt = r.attempt /\ h.budget = b /\ h.status = "pending"
        BY DEF SemanticJobs, SemanticStatuses
      <4>2. Again(r, b, g) = [h EXCEPT !.retry = FALSE, !.rearmed = g]
        BY Zenon
      <4> HIDE DEF h
      <4>3. Armed([h EXCEPT !.retry = FALSE, !.rearmed = g], r.attempt, b, g)
        BY <4>1 DEF SemanticJobs
      <4> QED BY <4>2, <4>3, Zenon
    <3>4. PICK b : b = job[i].budget + MaxAttempts
      OBVIOUS
    <3>5. b \in Nat
      BY <1>2, <1>3, <3>4 DEF SemanticJobs
    <3>6. job'[i] = Again(job[i], b, health.generation)
      BY <3>1, <3>4
    <3>7. job[i] \in SemanticJobs
      BY <1>2
    <3> HIDE DEF Again, Armed
    <3>8. Armed(job'[i], job[i].attempt, b, health.generation)
      BY <1>3, <3>3, <3>5, <3>6, <3>7
    <3> USE DEF Armed
    <3> QED BY <3>2, <3>4, <3>8
  <2>2. CASE i \in Semantic!Candidates \ Revived
    <3>1. job'[i] = [job[i] EXCEPT !.rearmed = health.generation]
      BY <1>1, <2>2
    <3>2. job[i].rearmed < health.generation /\ job[i].status = "exhausted"
      BY <2>2 DEF Semantic!Candidates
    <3>3. ASSUME NEW r \in SemanticJobs, NEW g \in Nat
          PROVE  LET n == [r EXCEPT !.rearmed = g] IN
                 n \in SemanticJobs /\ n.attempt = r.attempt /\ n.rearmed = g /\ n.budget = r.budget /\ n.status = r.status
      BY DEF SemanticJobs
    <3> QED BY <1>2, <1>3, <3>1, <3>2, <3>3
  <2>3. CASE i \notin Revived /\ i \notin Semantic!Candidates \ Revived
    BY <1>1, <1>2, <2>3
  <2> QED BY <2>1, <2>2, <2>3
<1>5. job' \in [Inputs -> SemanticJobs]
  BY <1>1, <1>4
<1>6. SemanticGranted'
  <2>1. ASSUME NEW i \in Inputs
        PROVE  /\ job'[i].attempt <= job'[i].budget /\ job'[i].budget <= MaxAttempts * (1 + job'[i].rearmed)
               /\ job'[i].rearmed <= health'.generation
               /\ job'[i].status = "absent" => job'[i].attempt = 0
    <3>1. CASE job'[i] = job[i]
      BY <1>1, <3>1 DEF SemanticInv, SemanticGranted
    <3>2. CASE /\ job[i].rearmed < health.generation /\ job'[i].rearmed = health.generation
               /\ job'[i].budget \in {job[i].budget, job[i].budget + MaxAttempts}
               /\ job'[i].status # "absent"
      <4>1. /\ job[i].attempt \in Nat /\ job[i].budget \in Nat /\ job[i].rearmed \in Nat
            /\ MaxAttempts * (1 + job[i].rearmed) \in Nat /\ MaxAttempts * (1 + health.generation) \in Nat
        BY <1>2, <1>3 DEF SemanticJobs
      <4>2. MaxAttempts * (1 + job[i].rearmed) + MaxAttempts <= MaxAttempts * (1 + health.generation)
        BY <1>3, <3>2, <4>1, SemanticMultiple
      <4>3. job[i].attempt <= job[i].budget /\ job[i].budget <= MaxAttempts * (1 + job[i].rearmed)
        BY DEF SemanticInv, SemanticGranted
      <4>4. /\ job'[i].attempt = job[i].attempt /\ job'[i].rearmed = health.generation /\ job'[i].status # "absent"
            /\ health'.generation = health.generation
        BY <1>1, <1>4, <3>2
      <4>5. job'[i].budget = job[i].budget \/ job'[i].budget = job[i].budget + MaxAttempts
        BY <3>2
      <4>6. /\ job[i].attempt <= job'[i].budget
            /\ job'[i].budget <= MaxAttempts * (1 + job[i].rearmed) + MaxAttempts
        BY <1>3, <4>1, <4>3, <4>5
      <4>7. job'[i].budget \in Nat
        BY <1>3, <4>1, <4>5
      <4>8. job'[i].budget <= MaxAttempts * (1 + health.generation)
        BY <1>3, <4>1, <4>2, <4>6, <4>7
      <4> QED BY <1>3, <4>4, <4>6, <4>8
    <3> QED BY <1>4, <3>1, <3>2
  <2> QED BY <2>1 DEF SemanticGranted
<1> QED BY <1>1, <1>4, <1>5, <1>6, SemanticRows

\* What a round owes the books of job i.
SemanticDebt(r, i) == IF SemanticCharged(r, i) THEN 1 ELSE 0

\* A step that takes worker w to r spends no more than it charges.
SemanticBalanced(w, r) ==
  \A i \in Inputs : sent'[i] + SemanticDebt(r, i) + job[i].attempt <= job'[i].attempt + sent[i] + SemanticDebt(worker[w], i)

LEMMA SemanticDebts ==
  ASSUME NEW r, NEW i
  PROVE  SemanticDebt(r, i) \in {0, 1} /\ (SemanticDebt(r, i) = 1 <=> SemanticCharged(r, i))
BY DEF SemanticDebt

\* A worker's step keeps the books when it spends no more than it charges.
LEMMA SemanticWorks ==
  ASSUME SemanticInv, NEW w \in Workers, NEW r \in SemanticRounds, worker' = [worker EXCEPT ![w] = r],
         r.at # "idle" => r.input \in Inputs, job' \in [Inputs -> SemanticJobs], sent' \in [Inputs -> Nat],
         UNCHANGED health, SemanticGranted', SemanticBalanced(w, r)
  PROVE  SemanticInv'
<1>1. worker' \in [Workers -> SemanticRounds] /\ worker'[w] = r /\ \A v \in Workers \ {w} : worker'[v] = worker[v]
  BY DEF SemanticInv, SemanticType
<1>2. SemanticType'
  BY <1>1 DEF SemanticInv, SemanticType
<1>3. ASSUME NEW i \in Inputs PROVE sent'[i] + Cardinality(SemanticOut(i))' <= job'[i].attempt
  <2>1. PICK k, kk : k = Cardinality(SemanticOut(i)) /\ kk = Cardinality(SemanticOut(i))'
    OBVIOUS
  <2>2. PICK d, dd : d = SemanticDebt(worker[w], i) /\ dd = SemanticDebt(r, i)
    OBVIOUS
  <2>3. w \in SemanticOut(i) <=> SemanticCharged(worker[w], i)
    BY DEF SemanticOut
  <2>4. /\ k \in Nat /\ kk \in Nat
        /\ kk = IF SemanticCharged(r, i) THEN k + (IF w \in SemanticOut(i) THEN 0 ELSE 1)
                ELSE k - (IF w \in SemanticOut(i) THEN 1 ELSE 0)
    BY <2>1, SemanticMoves
  <2>5. d \in {0, 1} /\ dd \in {0, 1} /\ (d = 1 <=> w \in SemanticOut(i)) /\ (dd = 1 <=> SemanticCharged(r, i))
    BY <2>2, <2>3, SemanticDebts
  <2>6. kk = k + dd - d
    BY <2>4, <2>5
  <2>7. /\ sent[i] \in Nat /\ sent'[i] \in Nat /\ job[i].attempt \in Nat /\ job'[i].attempt \in Nat
        /\ sent[i] + k <= job[i].attempt
    BY <2>1 DEF SemanticInv, SemanticType, SemanticJobs, SemanticPaid
  <2>8. sent'[i] + dd + job[i].attempt <= job'[i].attempt + sent[i] + d
    BY <2>2 DEF SemanticBalanced
  <2>9. sent'[i] + kk <= job'[i].attempt
    BY <2>4, <2>5, <2>6, <2>7, <2>8
  <2> QED BY <2>1, <2>9
<1>4. SemanticPaid'
  BY <1>3 DEF SemanticPaid
<1> QED BY <1>2, <1>4 DEF SemanticInv

\* A round that ends leaves nothing charged.
LEMMA SemanticIdle ==
  /\ Semantic!Idle \in SemanticRounds /\ Semantic!Idle.at = "idle"
  /\ \A i : ~SemanticCharged(Semantic!Idle, i)
BY SemanticNone DEF SemanticCharged

\* A round that neither charges nor sends, on a row that keeps its attempts, is balanced.
LEMMA SemanticFree ==
  ASSUME SemanticInv, NEW w \in Workers, NEW r, sent' = sent,
         \A i \in Inputs : job'[i].attempt = job[i].attempt,
         \A i \in Inputs : SemanticCharged(r, i) => SemanticCharged(worker[w], i)
  PROVE  SemanticBalanced(w, r)
<1>1. ASSUME NEW i \in Inputs
      PROVE  sent'[i] + SemanticDebt(r, i) + job[i].attempt <= job'[i].attempt + sent[i] + SemanticDebt(worker[w], i)
  <2>1. sent'[i] = sent[i] /\ sent[i] \in Nat /\ job[i].attempt \in Nat /\ job'[i].attempt = job[i].attempt
    BY DEF SemanticInv, SemanticType, SemanticJobs
  <2>2. PICK d, dd : d = SemanticDebt(worker[w], i) /\ dd = SemanticDebt(r, i)
    OBVIOUS
  <2>3. d \in {0, 1} /\ dd \in {0, 1} /\ (dd = 1 => d = 1)
    BY <2>2, SemanticDebts
  <2>4. sent[i] + dd + job[i].attempt <= job[i].attempt + sent[i] + d
    BY <2>1, <2>3
  <2> QED BY <2>1, <2>2, <2>4
<1> QED BY <1>1 DEF SemanticBalanced

LEMMA SemanticClaims ==
  ASSUME SemanticInv, NEW w \in Workers, NEW i \in Inputs, Semantic!Claim(w, i)
  PROVE  SemanticInv'
<1> DEFINE c == IF job[i].class = "budget_deferred" THEN "none" ELSE job[i].class
           Take(r, x) == [r EXCEPT !.status = "running", !.owner = w, !.retry = FALSE, !.class = x]
           Taken(n, r) == /\ n \in SemanticJobs /\ n.status = "running" /\ n.attempt = r.attempt
                          /\ n.budget = r.budget /\ n.rearmed = r.rearmed
           Begin(s) == [s EXCEPT !.at = "claimed", !.input = i]
<1>1. /\ worker[w].at = "idle" /\ UNCHANGED <<sent, health>>
      /\ job' = [job EXCEPT ![i] = Take(job[i], c)] /\ worker' = [worker EXCEPT ![w] = Begin(Semantic!Idle)]
  BY DEF Semantic!Claim
<1>2. ASSUME NEW r \in SemanticJobs, NEW x \in SemanticClasses PROVE Taken(Take(r, x), r)
  <2> DEFINE h == [r EXCEPT !.status = "running", !.owner = w]
  <2>1. /\ h \in SemanticJobs /\ h.status = "running" /\ h.attempt = r.attempt
        /\ h.budget = r.budget /\ h.rearmed = r.rearmed
    BY DEF SemanticJobs, SemanticStatuses
  <2>2. Take(r, x) = [h EXCEPT !.retry = FALSE, !.class = x]
    BY Zenon
  <2> HIDE DEF h
  <2>3. Taken([h EXCEPT !.retry = FALSE, !.class = x], r)
    BY <2>1 DEF SemanticJobs
  <2> QED BY <2>2, <2>3, Zenon
<1>3. job[i] \in SemanticJobs
  BY DEF SemanticInv, SemanticType
<1>4. c \in SemanticClasses
  BY <1>3 DEF SemanticJobs, SemanticClasses
<1> HIDE DEF c, Take, Taken
<1>5. PICK q : q = Take(job[i], c)
  OBVIOUS
<1>6. Taken(q, job[i])
  BY <1>2, <1>3, <1>4, <1>5
<1>7. /\ q \in SemanticJobs /\ q.status = "running" /\ q.attempt = job[i].attempt /\ q.budget = job[i].budget
      /\ q.rearmed = job[i].rearmed
  BY <1>6 DEF Taken
<1>8. /\ job' \in [Inputs -> SemanticJobs] /\ SemanticGranted'
      /\ \A j \in Inputs : job'[j].attempt = job[j].attempt
  BY <1>1, <1>5, <1>7, SemanticFrees
<1>9. ASSUME NEW s \in SemanticRounds
      PROVE  Begin(s) \in SemanticRounds /\ Begin(s).input = i /\ Begin(s).at = "claimed"
  BY DEF SemanticRounds
<1>10. PICK r : r = Begin(Semantic!Idle)
  OBVIOUS
<1> HIDE DEF Begin
<1>11. r \in SemanticRounds /\ r.input = i /\ r.at = "claimed"
  BY <1>9, <1>10, SemanticIdle
<1>12. \A j : ~SemanticCharged(r, j)
  BY <1>11 DEF SemanticCharged
<1>13. sent' = sent /\ sent' \in [Inputs -> Nat]
  BY <1>1 DEF SemanticInv, SemanticType
<1>14. SemanticBalanced(w, r)
  BY <1>8, <1>12, <1>13, SemanticFree
<1> QED BY <1>1, <1>8, <1>10, <1>11, <1>13, <1>14, SemanticWorks

LEMMA SemanticReserves ==
  ASSUME SemanticInv, NEW w \in Workers, Semantic!Reserve(w)
  PROVE  SemanticInv'
<1> DEFINE i == worker[w].input
<1>1. worker[w].at = "claimed" /\ UNCHANGED <<sent, health>> /\ i \in Inputs /\ worker[w] \in SemanticRounds
  BY DEF Semantic!Reserve, SemanticInv, SemanticType
<1>2. \A j : ~SemanticCharged(worker[w], j)
  BY <1>1 DEF SemanticCharged
<1>3. /\ sent' \in [Inputs -> Nat] /\ sent' = sent /\ job[i] \in SemanticJobs
      /\ \A j \in Inputs : sent'[j] = sent[j] /\ sent[j] \in Nat /\ job[j].attempt \in Nat
  BY <1>1 DEF SemanticInv, SemanticType, SemanticJobs
<1>4. CASE Semantic!Spent(i)
  <2> DEFINE q == Semantic!Freed(i, "exhausted", job[i].class, job[i].retry)
  <2>1. job' = [job EXCEPT ![i] = q] /\ worker' = [worker EXCEPT ![w] = Semantic!Idle]
    BY <1>1, <1>4 DEF Semantic!Reserve, SemanticInv, SemanticType
  <2>2. /\ q \in SemanticJobs /\ q.status = "exhausted" /\ q.attempt = job[i].attempt /\ q.budget = job[i].budget
        /\ q.rearmed = job[i].rearmed
    <3>1. job[i].class \in SemanticClasses /\ job[i].retry \in BOOLEAN /\ "exhausted" \in SemanticStatuses
      BY <1>3 DEF SemanticJobs, SemanticStatuses
    <3> QED BY <1>1, <3>1, SemanticFreed
  <2> HIDE DEF q, i
  <2>3. /\ job' \in [Inputs -> SemanticJobs] /\ SemanticGranted'
        /\ \A j \in Inputs : job'[j].attempt = job[j].attempt
    BY <1>1, <2>1, <2>2, SemanticFrees
  <2>4. PICK r : r = Semantic!Idle
    OBVIOUS
  <2>5. r \in SemanticRounds /\ r.at = "idle" /\ \A j : ~SemanticCharged(r, j)
    BY <2>4, SemanticIdle
  <2>6. SemanticBalanced(w, r)
    BY <1>3, <2>3, <2>5, SemanticFree
  <2> QED BY <1>1, <1>3, <2>1, <2>3, <2>4, <2>5, <2>6, SemanticWorks
<1>5. CASE ~Semantic!Spent(i)
  <2> DEFINE q == [job[i] EXCEPT !.attempt = @ + 1]
             r == [worker[w] EXCEPT !.at = "calling"]
  <2>1. job' = [job EXCEPT ![i] = q] /\ worker' = [worker EXCEPT ![w] = r]
    BY <1>1, <1>5 DEF Semantic!Reserve, SemanticInv, SemanticType
  <2>2. /\ q \in SemanticJobs /\ q.attempt = job[i].attempt + 1 /\ q.budget = job[i].budget
        /\ q.rearmed = job[i].rearmed /\ q.status = job[i].status
    BY <1>3 DEF SemanticJobs
  <2>3. job[i].attempt < job[i].budget /\ job[i].status = "running" /\ job[i].budget \in Nat /\ job[i].attempt \in Nat
    BY <1>1, <1>3, <1>5 DEF Semantic!Spent, Semantic!Reserve, Semantic!Holds, SemanticJobs
  <2>4. r \in SemanticRounds /\ r.input = i /\ r.at = "calling"
    BY <1>1 DEF SemanticRounds
  <2> HIDE DEF q, r, i
  <2>5. job' \in [Inputs -> SemanticJobs] /\ job'[i] = q /\ \A j \in Inputs \ {i} : job'[j] = job[j]
    BY <1>1, <2>1, <2>2 DEF SemanticInv, SemanticType
  <2>6. SemanticGranted'
    <3>1. ASSUME NEW j \in Inputs
          PROVE  /\ job'[j].attempt <= job'[j].budget /\ job'[j].budget <= MaxAttempts * (1 + job'[j].rearmed)
                 /\ job'[j].rearmed <= health'.generation
                 /\ job'[j].status = "absent" => job'[j].attempt = 0
      <4>1. CASE j = i
        BY <1>1, <2>2, <2>3, <2>5, <4>1 DEF SemanticInv, SemanticGranted
      <4>2. CASE j # i
        BY <1>1, <2>5, <4>2 DEF SemanticInv, SemanticGranted
      <4> QED BY <4>1, <4>2
    <3> QED BY <3>1 DEF SemanticGranted
  <2>7. \A j : SemanticCharged(r, j) => j = i
    BY <2>4 DEF SemanticCharged
  <2>8. ASSUME NEW j \in Inputs
        PROVE  sent'[j] + SemanticDebt(r, j) + job[j].attempt <= job'[j].attempt + sent[j] + SemanticDebt(worker[w], j)
    <3>1. PICK d, dd : d = SemanticDebt(worker[w], j) /\ dd = SemanticDebt(r, j)
      OBVIOUS
    <3>2. d \in {0, 1} /\ dd \in {0, 1} /\ (dd = 1 => j = i)
      BY <2>7, <3>1, SemanticDebts
    <3>3. job'[j].attempt = IF j = i THEN job[j].attempt + 1 ELSE job[j].attempt
      BY <2>2, <2>5
    <3>4. sent[j] + dd + job[j].attempt <= job'[j].attempt + sent[j] + d
      BY <1>3, <3>2, <3>3
    <3> QED BY <1>3, <3>1, <3>4
  <2>9. SemanticBalanced(w, r)
    BY <2>8 DEF SemanticBalanced
  <2> QED BY <1>1, <1>3, <2>1, <2>4, <2>5, <2>6, <2>9, SemanticWorks
<1> QED BY <1>4, <1>5

\* A round that sends what was charged is balanced.
LEMMA SemanticSends ==
  ASSUME SemanticInv, NEW w \in Workers, NEW r, worker[w].at = "calling", worker[w].input \in Inputs,
         sent' = [sent EXCEPT ![worker[w].input] = @ + 1], job' = job, \A i \in Inputs : ~SemanticCharged(r, i)
  PROVE  SemanticBalanced(w, r)
<1>1. ASSUME NEW i \in Inputs
      PROVE  sent'[i] + SemanticDebt(r, i) + job[i].attempt <= job'[i].attempt + sent[i] + SemanticDebt(worker[w], i)
  <2>1. /\ sent[i] \in Nat /\ job[i].attempt \in Nat /\ job'[i].attempt = job[i].attempt
        /\ sent'[i] = IF i = worker[w].input THEN sent[i] + 1 ELSE sent[i]
    BY DEF SemanticInv, SemanticType, SemanticJobs
  <2>2. PICK d, dd : d = SemanticDebt(worker[w], i) /\ dd = SemanticDebt(r, i)
    OBVIOUS
  <2>3. SemanticCharged(worker[w], i) <=> i = worker[w].input
    BY DEF SemanticCharged
  <2>4. d \in {0, 1} /\ dd = 0 /\ (i = worker[w].input => d = 1)
    BY <2>2, <2>3, SemanticDebts
  <2>5. sent'[i] + dd + job[i].attempt <= job[i].attempt + sent[i] + d
    BY <2>1, <2>4
  <2> QED BY <2>1, <2>2, <2>5
<1> QED BY <1>1 DEF SemanticBalanced

\* Steps that leave the rows of the jobs alone.
LEMMA SemanticSame ==
  ASSUME SemanticInv, job' = job, UNCHANGED health
  PROVE  job' \in [Inputs -> SemanticJobs] /\ SemanticGranted' /\ \A j \in Inputs : job'[j].attempt = job[j].attempt
BY DEF SemanticInv, SemanticType, SemanticGranted

LEMMA SemanticAnswers ==
  ASSUME SemanticInv, NEW w \in Workers, Semantic!Answer(w)
  PROVE  SemanticInv'
<1>1. worker[w].at = "calling" /\ UNCHANGED <<job, health>> /\ worker[w].input \in Inputs /\ worker[w] \in SemanticRounds
  BY DEF Semantic!Answer, SemanticInv, SemanticType
<1>2. PICK o \in Semantic!Parsed \cup Semantic!Unsent \cup {"failed"} :
        /\ worker' = [worker EXCEPT ![w] = [@ EXCEPT !.at = "answered", !.outcome = o]]
        /\ IF o \in Semantic!Unsent
           THEN deferrals < MaxDeferrals /\ deferrals' = deferrals + 1 /\ UNCHANGED sent
           ELSE sent' = [sent EXCEPT ![worker[w].input] = @ + 1] /\ UNCHANGED deferrals
  BY Zenon DEF Semantic!Answer
<1> DEFINE r == [worker[w] EXCEPT !.at = "answered", !.outcome = o]
<1>3. o \in SemanticOutcomes /\ (o \in Semantic!Unsent <=> o \in {"deferred", "held"})
  BY DEF Semantic!Parsed, Semantic!Unsent, SemanticOutcomes
<1>4. r \in SemanticRounds /\ r.at = "answered" /\ r.outcome = o /\ r.input = worker[w].input
  BY <1>1, <1>3 DEF SemanticRounds
<1>5. worker' = [worker EXCEPT ![w] = r]
  BY <1>2 DEF SemanticInv, SemanticType
<1> HIDE DEF r
<1>6. job' \in [Inputs -> SemanticJobs] /\ SemanticGranted' /\ \A j \in Inputs : job'[j].attempt = job[j].attempt
  BY <1>1, SemanticSame
<1>7. CASE o \in Semantic!Unsent
  <2>1. sent' = sent /\ sent' \in [Inputs -> Nat]
    BY <1>2, <1>7 DEF SemanticInv, SemanticType
  <2>2. \A i \in Inputs : SemanticCharged(r, i) => SemanticCharged(worker[w], i)
    BY <1>1, <1>4 DEF SemanticCharged
  <2>3. SemanticBalanced(w, r)
    BY <1>6, <2>1, <2>2, SemanticFree
  <2> QED BY <1>1, <1>4, <1>5, <1>6, <2>1, <2>3, SemanticWorks
<1>8. CASE o \notin Semantic!Unsent
  <2>1. sent' = [sent EXCEPT ![worker[w].input] = @ + 1]
    BY <1>2, <1>8
  <2>2. sent' \in [Inputs -> Nat]
    BY <1>1, <2>1 DEF SemanticInv, SemanticType
  <2>3. \A i \in Inputs : ~SemanticCharged(r, i)
    BY <1>3, <1>4, <1>8 DEF SemanticCharged
  <2>4. SemanticBalanced(w, r)
    BY <1>1, <2>1, <2>3, SemanticSends
  <2> QED BY <1>1, <1>4, <1>5, <1>6, <2>2, <2>4, SemanticWorks
<1> QED BY <1>7, <1>8

\* A round that ends with its row as it was charged.
LEMMA SemanticEnds ==
  ASSUME SemanticInv, NEW w \in Workers, worker' = [worker EXCEPT ![w] = Semantic!Idle], UNCHANGED <<sent, health>>,
         job' \in [Inputs -> SemanticJobs], SemanticGranted', \A j \in Inputs : job'[j].attempt = job[j].attempt
  PROVE  SemanticInv'
<1>1. PICK r : r = Semantic!Idle
  OBVIOUS
<1>2. r \in SemanticRounds /\ r.at = "idle" /\ \A j : ~SemanticCharged(r, j)
  BY <1>1, SemanticIdle
<1>3. sent' = sent /\ sent' \in [Inputs -> Nat]
  BY DEF SemanticInv, SemanticType
<1>4. SemanticBalanced(w, r)
  BY <1>2, <1>3, SemanticFree
<1> QED BY <1>1, <1>2, <1>3, <1>4, SemanticWorks

LEMMA SemanticLoses ==
  ASSUME SemanticInv, NEW w \in Workers, Semantic!LeaseLost(w)
  PROVE  SemanticInv'
<1>1. worker' = [worker EXCEPT ![w] = Semantic!Idle] /\ job' = job /\ UNCHANGED <<sent, health>>
  BY DEF Semantic!LeaseLost, Semantic!jobs
<1>2. job' \in [Inputs -> SemanticJobs] /\ SemanticGranted' /\ \A j \in Inputs : job'[j].attempt = job[j].attempt
  BY <1>1, SemanticSame
<1> QED BY <1>1, <1>2, SemanticEnds

LEMMA SemanticAbandons ==
  ASSUME SemanticInv, NEW w \in Workers, Semantic!Abandon(w)
  PROVE  SemanticInv'
<1>1. worker' = [worker EXCEPT ![w] = Semantic!Idle] /\ job' = job /\ UNCHANGED health /\ worker[w].at # "idle"
  BY DEF Semantic!Abandon
<1>2. job' \in [Inputs -> SemanticJobs] /\ SemanticGranted' /\ \A j \in Inputs : job'[j].attempt = job[j].attempt
  BY <1>1, SemanticSame
<1>3. worker[w].input \in Inputs
  BY <1>1 DEF SemanticInv, SemanticType
<1>4. CASE worker[w].at = "calling"
  <2>1. sent' = [sent EXCEPT ![worker[w].input] = @ + 1]
    BY <1>4 DEF Semantic!Abandon
  <2>2. sent' \in [Inputs -> Nat]
    BY <1>3, <2>1 DEF SemanticInv, SemanticType
  <2>3. PICK r : r = Semantic!Idle
    OBVIOUS
  <2>4. r \in SemanticRounds /\ r.at = "idle" /\ \A j : ~SemanticCharged(r, j)
    BY <2>3, SemanticIdle
  <2>5. SemanticBalanced(w, r)
    BY <1>1, <1>3, <1>4, <2>1, <2>4, SemanticSends
  <2> QED BY <1>1, <1>2, <2>2, <2>3, <2>4, <2>5, SemanticWorks
<1>5. CASE worker[w].at # "calling"
  <2>1. sent' = sent
    BY <1>5 DEF Semantic!Abandon
  <2> QED BY <1>1, <1>2, <2>1, SemanticEnds
<1> QED BY <1>4, <1>5

\* A deferral refunds the attempt it was charged, and was charged one.
LEMMA SemanticRefunds ==
  ASSUME SemanticInv, NEW w \in Workers, worker[w].at = "answered", Semantic!Refund(w),
         worker[w].outcome \in {"deferred", "held"}, worker[w].input \in Inputs,
         worker' = [worker EXCEPT ![w] = Semantic!Idle], UNCHANGED <<sent, health>>
  PROVE  SemanticInv'
<1>1. PICK i : i = worker[w].input
  OBVIOUS
<1>2. PICK b : b = (worker[w].outcome = "deferred")
  OBVIOUS
<1>3. b \in BOOLEAN
  BY <1>2, Zenon
<1>4. PICK f : f = Semantic!Freed(i, "pending", "budget_deferred", b)
  OBVIOUS
<1>5. job' = [job EXCEPT ![i] = [f EXCEPT !.attempt = job[i].attempt - 1]]
  BY <1>1, <1>2, <1>4 DEF Semantic!Refund
<1>6. "pending" \in SemanticStatuses /\ "budget_deferred" \in SemanticClasses
  BY DEF SemanticStatuses, SemanticClasses
<1>7. /\ f \in SemanticJobs /\ f.status = "pending" /\ f.attempt = job[i].attempt /\ f.budget = job[i].budget
      /\ f.rearmed = job[i].rearmed
  BY <1>1, <1>3, <1>4, <1>6, SemanticFreed
<1>8. SemanticCharged(worker[w], i)
  BY <1>1 DEF SemanticCharged
<1>9. job[i].attempt \in Nat /\ job[i].attempt >= 1
  <2>1. PICK r : r = Semantic!Idle
    OBVIOUS
  <2>2. r \in SemanticRounds /\ worker' = [worker EXCEPT ![w] = r]
    BY <2>1, SemanticIdle
  <2>3. w \in SemanticOut(i)
    BY <1>8 DEF SemanticOut
  <2>4. PICK k : k = Cardinality(SemanticOut(i))
    OBVIOUS
  <2>5. k \in Nat /\ k >= 1
    BY <2>2, <2>3, <2>4, SemanticMoves
  <2>6. sent[i] \in Nat /\ job[i].attempt \in Nat /\ sent[i] + k <= job[i].attempt
    BY <1>1, <2>4 DEF SemanticInv, SemanticType, SemanticJobs, SemanticPaid
  <2> QED BY <2>5, <2>6
<1>10. PICK a : a = job[i].attempt - 1
  OBVIOUS
<1>11. a \in Nat /\ a < job[i].attempt /\ job[i].attempt = a + 1
  BY <1>9, <1>10
<1>12. PICK q : q = [f EXCEPT !.attempt = a]
  OBVIOUS
<1>13. q \in SemanticJobs /\ q.status = "pending" /\ q.attempt = a /\ q.budget = job[i].budget /\ q.rearmed = job[i].rearmed
  BY <1>7, <1>11, <1>12 DEF SemanticJobs
<1>14. job' = [job EXCEPT ![i] = q]
  BY <1>5, <1>10, <1>12
<1>15. job' \in [Inputs -> SemanticJobs] /\ job'[i] = q /\ \A j \in Inputs \ {i} : job'[j] = job[j]
  BY <1>1, <1>13, <1>14 DEF SemanticInv, SemanticType
<1>16. SemanticGranted'
  <2>1. ASSUME NEW j \in Inputs
        PROVE  /\ job'[j].attempt <= job'[j].budget /\ job'[j].budget <= MaxAttempts * (1 + job'[j].rearmed)
               /\ job'[j].rearmed <= health'.generation
               /\ job'[j].status = "absent" => job'[j].attempt = 0
    <3>1. CASE j = i
      <4>1. job[i].budget \in Nat
        BY <1>1 DEF SemanticInv, SemanticType, SemanticJobs
      <4>2. /\ job[i].attempt <= job[i].budget /\ job[i].budget <= MaxAttempts * (1 + job[i].rearmed)
            /\ job[i].rearmed <= health.generation
        BY <1>1 DEF SemanticInv, SemanticGranted
      <4>3. a <= job[i].budget
        BY <1>9, <1>11, <4>1, <4>2
      <4> QED BY <1>13, <1>15, <3>1, <4>2, <4>3
    <3>2. CASE j # i
      BY <1>15, <3>2 DEF SemanticInv, SemanticGranted
    <3> QED BY <3>1, <3>2
  <2> QED BY <2>1 DEF SemanticGranted
<1>17. PICK r : r = Semantic!Idle
  OBVIOUS
<1>18. r \in SemanticRounds /\ r.at = "idle" /\ \A j : ~SemanticCharged(r, j)
  BY <1>17, SemanticIdle
<1>19. sent' = sent /\ sent' \in [Inputs -> Nat]
  BY DEF SemanticInv, SemanticType
<1>20. ASSUME NEW j \in Inputs
       PROVE  sent'[j] + SemanticDebt(r, j) + job[j].attempt <= job'[j].attempt + sent[j] + SemanticDebt(worker[w], j)
  <2>1. PICK d, dd : d = SemanticDebt(worker[w], j) /\ dd = SemanticDebt(r, j)
    OBVIOUS
  <2>2. d \in {0, 1} /\ dd = 0 /\ (j = i => d = 1)
    BY <1>8, <1>18, <2>1, SemanticDebts
  <2>3. /\ sent[j] \in Nat /\ job[j].attempt \in Nat /\ sent'[j] = sent[j]
        /\ job'[j].attempt \in Nat /\ job[j].attempt = IF j = i THEN job'[j].attempt + 1 ELSE job'[j].attempt
    BY <1>11, <1>13, <1>15, <1>19 DEF SemanticInv, SemanticType, SemanticJobs
  <2>4. sent[j] + dd + job[j].attempt <= job'[j].attempt + sent[j] + d
    BY <2>2, <2>3
  <2> QED BY <2>1, <2>3, <2>4
<1>21. SemanticBalanced(w, r)
  BY <1>20 DEF SemanticBalanced
<1> QED BY <1>15, <1>16, <1>17, <1>18, <1>19, <1>21, SemanticWorks

LEMMA SemanticCompletes ==
  ASSUME SemanticInv, NEW w \in Workers, Semantic!Complete(w)
  PROVE  SemanticInv'
<1>1. /\ worker[w].at = "answered" /\ worker' = [worker EXCEPT ![w] = Semantic!Idle] /\ UNCHANGED <<sent, health>>
      /\ worker[w].input \in Inputs
  BY DEF Semantic!Complete, SemanticInv, SemanticType
<1>2. \/ Semantic!Accept(w)
      \/ worker[w].outcome \in {"deferred", "held"} /\ Semantic!Refund(w)
      \/ Semantic!Retry(w)
  BY DEF Semantic!Complete, Semantic!Unsent
<1>3. PICK i : i = worker[w].input
  OBVIOUS
<1>4. i \in Inputs /\ job[i] \in SemanticJobs
  BY <1>1, <1>3 DEF SemanticInv, SemanticType
<1>5. ASSUME NEW s \in SemanticStatuses \ {"absent"}, NEW c \in SemanticClasses, NEW b \in BOOLEAN,
             job' = [job EXCEPT ![i] = Semantic!Freed(i, s, c, b)]
      PROVE  SemanticInv'
  <2>1. PICK q : q = Semantic!Freed(i, s, c, b)
    OBVIOUS
  <2>2. /\ q \in SemanticJobs /\ q.status = s /\ q.attempt = job[i].attempt /\ q.budget = job[i].budget
        /\ q.rearmed = job[i].rearmed
    BY <1>4, <2>1, SemanticFreed
  <2>3. job' = [job EXCEPT ![i] = q]
    BY <1>5, <2>1
  <2>4. /\ job' \in [Inputs -> SemanticJobs] /\ SemanticGranted'
        /\ \A j \in Inputs : job'[j].attempt = job[j].attempt
    BY <1>1, <1>4, <2>2, <2>3, SemanticFrees
  <2> QED BY <1>1, <2>4, SemanticEnds
<1>6. CASE Semantic!Accept(w)
  <2>1. job' = [job EXCEPT ![i] = Semantic!Freed(i, "complete", "none", job[i].retry)]
    BY <1>3, <1>4, <1>6 DEF Semantic!Accept, SemanticInv, SemanticType
  <2>2. "complete" \in SemanticStatuses \ {"absent"} /\ "none" \in SemanticClasses /\ job[i].retry \in BOOLEAN
    BY <1>4 DEF SemanticStatuses, SemanticClasses, SemanticJobs
  <2> QED BY <1>5, <2>1, <2>2
<1>7. CASE worker[w].outcome \in {"deferred", "held"} /\ Semantic!Refund(w)
  BY <1>1, <1>7, SemanticRefunds
<1>8. CASE Semantic!Retry(w)
  <2> DEFINE s == IF Semantic!Spent(i) THEN "exhausted" ELSE "pending"
             c == IF worker[w].outcome = "failed" THEN "dependency" ELSE "content"
             b == IF Semantic!Spent(i) THEN job[i].retry ELSE TRUE
  <2>1. job' = [job EXCEPT ![i] = Semantic!Freed(i, s, c, b)]
    BY <1>3, <1>4, <1>8 DEF Semantic!Retry, SemanticInv, SemanticType
  <2>2. s \in SemanticStatuses \ {"absent"} /\ c \in SemanticClasses /\ b \in BOOLEAN
    BY <1>4 DEF SemanticStatuses, SemanticClasses, SemanticJobs
  <2> HIDE DEF s, c, b
  <2> QED BY <1>5, <2>1, <2>2
<1> QED BY <1>2, <1>6, <1>7, <1>8

LEMMA SemanticStep == SemanticInv /\ [Semantic!Next]_(Semantic!vars) => SemanticInv'
<1> SUFFICES ASSUME SemanticInv, [Semantic!Next]_(Semantic!vars) PROVE SemanticInv'
  OBVIOUS
<1>1. health.generation \in Nat
  BY DEF SemanticInv, SemanticType
<1>2. CASE UNCHANGED Semantic!vars
  BY <1>1, <1>2, SemanticAside DEF Semantic!vars, Semantic!jobs
<1>3. ASSUME NEW n \in Situations, \/ \E i \in Inputs : Semantic!Attach(n, i)
                                   \/ Semantic!Reconcile(n) \/ Semantic!Close(n)
      PROVE  SemanticInv'
  <2>1. CASE \E i \in Inputs : Semantic!Attach(n, i)
    BY <2>1, SemanticAttaches
  <2>2. CASE Semantic!Reconcile(n) \/ Semantic!Close(n)
    BY <1>1, <2>2, SemanticAside
       DEF Semantic!Reconcile, Semantic!Load, Semantic!Guide, Semantic!Commit, Semantic!Close, Semantic!jobs
  <2> QED BY <1>3, <2>1, <2>2
<1>4. ASSUME NEW s \in Semantic!Signatures, Semantic!Correct(s) PROVE SemanticInv'
  BY <1>1, <1>4, SemanticAside DEF Semantic!Correct, Semantic!jobs
<1>5. ASSUME NEW c \in changes, Semantic!Deliver(c) PROVE SemanticInv'
  BY <1>1, <1>5, SemanticAside DEF Semantic!Deliver, Semantic!jobs
<1>6. ASSUME NEW w \in Workers, \/ \E i \in Inputs : Semantic!Claim(w, i)
                                \/ Semantic!Proceed(w) \/ Semantic!Abandon(w)
      PROVE  SemanticInv'
  BY <1>6, SemanticClaims, SemanticReserves, SemanticAnswers, SemanticCompletes, SemanticLoses, SemanticAbandons
     DEF Semantic!Proceed
<1>7. ASSUME NEW i \in Inputs, Semantic!LeaseExpires(i) PROVE SemanticInv'
  BY <1>7, SemanticExpires
<1>8. CASE Semantic!Outage \/ Semantic!Recovery
  <2>1. UNCHANGED <<job, worker, sent>> /\ health'.generation \in {health.generation, health.generation + 1}
    <3>1. CASE Semantic!Outage
      BY <3>1 DEF Semantic!Outage, Semantic!jobs
    <3>2. CASE Semantic!Recovery
      <4>1. health' = [health EXCEPT !.healthy = TRUE] /\ UNCHANGED <<job, worker, sent>>
        BY <3>2 DEF Semantic!Recovery, Semantic!jobs
      <4> QED BY <4>1
    <3> QED BY <1>8, <3>1, <3>2
  <2>2. health'.generation \in Nat /\ health'.generation >= health.generation
    BY <1>1, <2>1
  <2> QED BY <2>1, <2>2, SemanticAside
<1>9. CASE Semantic!Rearm
  BY <1>9, SemanticRearms
<1> QED BY <1>2, <1>3, <1>4, <1>5, <1>6, <1>7, <1>8, <1>9 DEF Semantic!Next

\* For every number of workers and jobs, every budget of attempts and any order of crashes,
\* lost leases, refunds and outages, the provider sees no more requests of a job than its
\* attempts, once more for each recovery (ReserveSemanticInferenceCall).
THEOREM SemanticSpend == Semantic!Spec => []SpendPerRecovery
<1>1. SemanticInv => SpendPerRecovery
  <2> SUFFICES ASSUME SemanticInv, NEW i \in Inputs PROVE sent[i] <= MaxAttempts * (1 + health.generation)
    BY DEF SpendPerRecovery, Semantic!SpendPerRecovery
  <2>1. PICK k : k = Cardinality(SemanticOut(i))
    OBVIOUS
  <2>2. k \in Nat
    <3>1. IsFiniteSet(SemanticOut(i))
      BY FS_Subset, SemanticAssumption DEF SemanticOut
    <3> QED BY <2>1, <3>1, FS_CardinalityType
  <2>3. /\ sent[i] \in Nat /\ job[i].attempt \in Nat /\ job[i].budget \in Nat /\ job[i].rearmed \in Nat
        /\ health.generation \in Nat /\ MaxAttempts \in Nat
    BY SemanticAssumption DEF SemanticInv, SemanticType, SemanticJobs
  <2>4. sent[i] + k <= job[i].attempt
    BY <2>1 DEF SemanticInv, SemanticPaid
  <2>5. /\ job[i].attempt <= job[i].budget /\ job[i].budget <= MaxAttempts * (1 + job[i].rearmed)
        /\ job[i].rearmed <= health.generation
    BY DEF SemanticInv, SemanticGranted
  <2>6. MaxAttempts * (1 + job[i].rearmed) <= MaxAttempts * (1 + health.generation)
    BY <2>3, <2>5, SemanticMultiple
  <2>7. sent[i] <= job[i].budget
    BY <2>2, <2>3, <2>4, <2>5
  <2>8. MaxAttempts * (1 + job[i].rearmed) \in Nat /\ MaxAttempts * (1 + health.generation) \in Nat
    BY <2>3
  <2> QED BY <2>3, <2>5, <2>6, <2>7, <2>8
<1> QED BY <1>1, SemanticInit, SemanticStep, PTL DEF Semantic!Spec

-----------------------------------------------------------------------------
\* LLMHealth

HealthStates == {"healthy", "degraded", "unavailable"}
HealthMarks == {"none", "pending", "delivered", "recovery_pending", "recovered", "suppressed", "indeterminate"}
HealthQueues == Seq(Nat)
HealthRows ==
  [state : HealthStates, outage : Nat, fence : Nat, delivery : HealthMarks, root : Nat, shown : HealthStates,
   late : HealthQueues]
HealthMessages == [outage : Nat, shows : HealthStates \cup {"recovered"}]
HealthPlans ==
  [op : {"none", "post", "edit", "recover"}, outage : Nat, gen : Nat, state : HealthStates, root : Nat,
   closed : BOOLEAN, answer : {"none", "ok", "unknown", "refused"}]

\* What row r, in memory or saved, knows of the messages s: no outage is later than its own, its
\* root is the message of its outage, an outage it has not posted has no message, and a root that
\* was edited shows that its outage ended, unless it is among those given up (g).
HealthBook(r, s, g) ==
  /\ r \in HealthRows
  /\ \A m \in DOMAIN s : s[m].outage <= r.outage
  /\ r.root # 0 => /\ r.root \in DOMAIN s /\ s[r.root].outage = r.outage
                   /\ r.delivery \in {"delivered", "recovery_pending", "recovered"}
  /\ r.delivery \in {"none", "pending"} => \A m \in DOMAIN s : s[m].outage # r.outage
  /\ r.state = "healthy" => r.delivery # "delivered"
  /\ r.delivery = "recovered" /\ r.root # 0 => s[r.root].shows = "recovered" \/ r.root \in g

\* The post p that is out: it is of the outage it was planned for, which is marked in memory (r)
\* and as saved (q), and it has no message yet unless Slack took it.
HealthPost(p, r, q, s) ==
  p.op = "post" =>
    /\ p.answer \in {"none", "refused"} => \A m \in DOMAIN s : s[m].outage # p.outage
    /\ p.answer = "ok" => p.root \in DOMAIN s /\ s[p.root].outage = p.outage /\ p.root # r.root /\ p.root # q.root
    /\ p.outage <= q.outage
    /\ q.outage = p.outage => q.delivery \notin {"none", "pending"}
    /\ r.outage = p.outage => r.delivery \notin {"none", "pending"}
    /\ p.gen = r.fence => p.outage = r.outage /\ r.delivery = "indeterminate" /\ r.state # "healthy"
    /\ p.gen # r.fence => p.closed = TRUE
    /\ r.fence = p.gen + 1 => r.outage = p.outage

\* The edit p that is out: its message is on record, or given up.
HealthEdit(p, r, q, s, g) ==
  p.op \in {"edit", "recover"} =>
    /\ p.root \in DOMAIN s => (p.root = r.root /\ r.delivery \in {"delivered", "recovery_pending"}) \/ p.root \in g
    /\ p.root # 0 /\ p.root = q.root => q.delivery # "recovered"
    /\ p.root # 0 /\ p.root = r.root => r.delivery # "recovered"
    /\ p.gen = r.fence => p.root = r.root
    /\ p.op = "recover" /\ p.answer = "ok" /\ p.root \in DOMAIN s => s[p.root].shows = "recovered"

\* A message that still shows an outage is on record, in the queue, in the answer, or given up.
HealthTracked(m, p, r, s, g) ==
  \/ s[m].shows = "recovered"
  \/ m = r.root /\ r.delivery \in {"delivered", "recovery_pending"}
  \/ \E k \in DOMAIN r.late : r.late[k] = m
  \/ p.op = "post" /\ p.answer = "ok" /\ p.root = m
  \/ m \in g

HealthKnown(p, r, q, s, g) ==
  /\ s \in Seq(HealthMessages) /\ p \in HealthPlans
  /\ p.op # "none" => p.gen <= r.fence
  /\ q.outage <= r.outage
  /\ q.root = r.root /\ r.root # 0 /\ q.delivery = "recovered" => r.delivery = "recovered"
  /\ HealthBook(r, s, g) /\ HealthBook(q, s, g)
  /\ HealthPost(p, r, q, s) /\ HealthEdit(p, r, q, s, g)
  /\ \A m, n \in DOMAIN s : s[m].outage = s[n].outage => m = n
  /\ \A m \in DOMAIN s : HealthTracked(m, p, r, s, g)

HealthInv ==
  /\ HealthKnown(plan, rec, saved.rec, slack, lost \cup overtaken)
  /\ runner # "out" <=> plan.op = "none"

LEMMA HealthFields ==
  /\ \A r \in HealthRows : /\ r.state \in HealthStates /\ r.outage \in Nat /\ r.fence \in Nat
                            /\ r.delivery \in HealthMarks /\ r.root \in Nat /\ r.late \in HealthQueues
  /\ \A p \in HealthPlans : p.outage \in Nat /\ p.gen \in Nat /\ p.root \in Nat /\ p.state \in HealthStates
  /\ \A s \in Seq(HealthMessages) : \A m \in DOMAIN s : s[m].outage \in Nat /\ s[m] \in HealthMessages /\ m \in Nat \ {0}
<1>1. ASSUME NEW r \in HealthRows
      PROVE  /\ r.state \in HealthStates /\ r.outage \in Nat /\ r.fence \in Nat
             /\ r.delivery \in HealthMarks /\ r.root \in Nat /\ r.late \in HealthQueues
  BY DEF HealthRows
<1>2. ASSUME NEW p \in HealthPlans
      PROVE  p.outage \in Nat /\ p.gen \in Nat /\ p.root \in Nat /\ p.state \in HealthStates
  BY DEF HealthPlans
<1>3. ASSUME NEW s \in Seq(HealthMessages), NEW m \in DOMAIN s
      PROVE  s[m].outage \in Nat /\ s[m] \in HealthMessages /\ m \in Nat \ {0}
  <2>1. s[m] \in HealthMessages /\ m \in Nat \ {0}
    OBVIOUS
  <2> QED BY <2>1 DEF HealthMessages
<1> QED BY <1>1, <1>2, <1>3

\* The plan that stands for none.
LEMMA HealthNone ==
  /\ Health!NoPlan \in HealthPlans /\ Health!NoPlan.op = "none"
BY DEF Health!NoPlan, Health!NoRoot, HealthPlans, HealthStates

LEMMA HealthInit == Health!Init => HealthInv
<1> SUFFICES ASSUME Health!Init PROVE HealthInv
  OBVIOUS
<1>1. /\ rec = [state |-> "healthy", outage |-> 0, fence |-> 0, delivery |-> "none",
                root |-> 0, shown |-> "healthy", late |-> <<>>]
      /\ saved.rec = rec /\ plan = Health!NoPlan /\ slack = <<>>
  BY DEF Health!Init, Health!NoRoot
<1>2. rec \in HealthRows /\ rec.root = 0 /\ rec.delivery = "none" /\ rec.outage = 0
  BY <1>1 DEF HealthRows, HealthStates, HealthMarks, HealthQueues
<1>3. slack \in Seq(HealthMessages) /\ DOMAIN slack = {}
  BY <1>1
<1>4. HealthBook(rec, slack, lost \cup overtaken) /\ HealthBook(saved.rec, slack, lost \cup overtaken)
  BY <1>1, <1>2, <1>3 DEF HealthBook
<1>5. plan \in HealthPlans /\ plan.op = "none"
  BY <1>1, HealthNone
<1>6. runner # "out"
  BY DEF Health!Init
<1> QED BY <1>1, <1>2, <1>3, <1>4, <1>5, <1>6 DEF HealthInv, HealthKnown, HealthPost, HealthEdit

\* A save makes the row in memory the saved one.
LEMMA HealthSaves ==
  ASSUME NEW p, NEW r, NEW q, NEW s, NEW g, HealthKnown(p, r, q, s, g)
  PROVE  HealthKnown(p, r, r, s, g)
<1>1. r \in HealthRows /\ q \in HealthRows /\ p \in HealthPlans
  BY DEF HealthKnown, HealthBook
<1>2. r.outage \in Nat /\ q.outage \in Nat /\ p.outage \in Nat
  BY <1>1, HealthFields
<1>3. HealthPost(p, r, r, s)
  BY <1>2 DEF HealthKnown, HealthPost
<1>4. HealthEdit(p, r, r, s, g)
  BY DEF HealthKnown, HealthEdit
<1> QED BY <1>2, <1>3, <1>4 DEF HealthKnown

\* What persist leaves behind.
LEMMA HealthPersists ==
  ASSUME NEW r, NEW c, Health!Persist(r, c), NEW p, NEW s, NEW g, HealthKnown(p, r, saved.rec, s, g)
  PROVE  HealthKnown(p, rec', saved'.rec, s, g)
<1>1. rec' = r /\ (saved'.rec = r \/ saved' = saved)
  BY DEF Health!Persist
<1>2. HealthKnown(p, r, r, s, g)
  BY HealthSaves
<1> QED BY <1>1, <1>2

\* What recompute does to the row.
HealthMoved(r, n) ==
  /\ n \in HealthRows /\ n.late = r.late
  /\ \/ n = r
     \/ /\ r.state = "healthy" /\ n.state # "healthy" /\ n.outage = r.outage + 1 /\ n.fence = r.fence + 1
        /\ n.delivery = "none" /\ n.root = 0
     \/ /\ r.state # "healthy" /\ n.state = "healthy" /\ n.outage = r.outage /\ n.fence = r.fence + 1 /\ n.root = r.root
        /\ n.delivery = IF r.delivery = "delivered" THEN "recovery_pending"
                        ELSE IF r.delivery \in {"none", "pending", "indeterminate"} THEN "suppressed" ELSE r.delivery
     \/ /\ r.state # "healthy" /\ n.state # "healthy" /\ n.outage = r.outage /\ n.fence = r.fence /\ n.root = r.root
        /\ n.delivery = r.delivery

LEMMA HealthRecomputes ==
  ASSUME NEW r \in HealthRows, NEW c
  PROVE  HealthMoved(r, Health!Recompute(r, c))
<1>1. PICK state : state = Health!Aggregate(c)
  OBVIOUS
<1>2. state \in HealthStates
  BY <1>1 DEF Health!Aggregate, HealthStates
<1>3. CASE state = r.state
  BY <1>1, <1>3 DEF Health!Recompute, HealthMoved
<1>4. CASE state # r.state /\ r.state = "healthy"
  <2> DEFINE n == Health!OutageBegins(r, state)
             a == r.outage + 1
             b == r.fence + 1
             h == [r EXCEPT !.state = state, !.outage = a, !.fence = b]
  <2>1. Health!Recompute(r, c) = n
    BY <1>1, <1>4 DEF Health!Recompute
  <2>2. h \in HealthRows /\ h.state = state /\ h.outage = a /\ h.fence = b /\ h.late = r.late
    <3>1. a \in Nat /\ b \in Nat
      BY HealthFields
    <3> HIDE DEF a, b
    <3> QED BY <1>2, <3>1 DEF HealthRows
  <2>3. n = [h EXCEPT !.delivery = "none", !.root = 0, !.shown = "healthy"]
    BY Zenon DEF Health!OutageBegins, Health!NoRoot
  <2> HIDE DEF n, h
  <2>4. /\ n \in HealthRows /\ n.state = h.state /\ n.outage = h.outage /\ n.fence = h.fence /\ n.late = h.late
        /\ n.delivery = "none" /\ n.root = 0
    BY <2>2, <2>3 DEF HealthRows, HealthMarks, HealthStates
  <2>5. HealthMoved(r, n)
    BY <1>4, <2>2, <2>4 DEF HealthMoved
  <2> QED BY <2>1, <2>5
<1>5. CASE state # r.state /\ r.state # "healthy" /\ state = "healthy"
  <2> DEFINE n == Health!OutageEnds(r)
             d == IF r.delivery = "delivered" THEN "recovery_pending"
                  ELSE IF r.delivery \in {"none", "pending", "indeterminate"} THEN "suppressed" ELSE r.delivery
  <2>1. Health!Recompute(r, c) = n
    BY <1>1, <1>5 DEF Health!Recompute
  <2>2. d \in HealthMarks
    BY DEF HealthRows, HealthMarks
  <2>3. n = [r EXCEPT !.state = "healthy", !.fence = r.fence + 1, !.delivery = d]
    BY DEF Health!OutageEnds, HealthRows
  <2> HIDE DEF n
  <2>4. /\ n \in HealthRows /\ n.state = "healthy" /\ n.outage = r.outage /\ n.fence = r.fence + 1 /\ n.late = r.late
        /\ n.delivery = d /\ n.root = r.root
    <3>1. PICK f : f = r.fence + 1
      OBVIOUS
    <3>2. f \in Nat
      BY <3>1, HealthFields
    <3>3. n = [r EXCEPT !.state = "healthy", !.fence = f, !.delivery = d]
      BY <2>3, <3>1
    <3> HIDE DEF d
    <3>4. "healthy" \in HealthStates
      BY DEF HealthStates
    <3> QED BY <2>2, <3>1, <3>2, <3>3, <3>4 DEF HealthRows
  <2>5. HealthMoved(r, n)
    BY <1>5, <2>4 DEF HealthMoved
  <2> QED BY <2>1, <2>5
<1>6. CASE state # r.state /\ r.state # "healthy" /\ state # "healthy"
  <2>1. Health!Recompute(r, c) = [r EXCEPT !.state = state]
    BY <1>1, <1>6 DEF Health!Recompute
  <2>2. HealthMoved(r, [r EXCEPT !.state = state])
    BY <1>2, <1>6 DEF HealthMoved, HealthRows
  <2> QED BY <2>1, <2>2
<1> QED BY <1>3, <1>4, <1>5, <1>6

\* The call that is out, as an observation leaves it: a post whose outage ends is closed.
HealthClosed(p, r, n, p2) ==
  p2 = IF p.op = "post" /\ p.gen = r.fence /\ n.state = "healthy" THEN [p EXCEPT !.closed = TRUE] ELSE p

LEMMA HealthCloses ==
  ASSUME NEW p \in HealthPlans, NEW r, NEW n, NEW p2, HealthClosed(p, r, n, p2)
  PROVE  /\ p2 \in HealthPlans /\ p2.op = p.op /\ p2.outage = p.outage /\ p2.gen = p.gen /\ p2.root = p.root
         /\ p2.answer = p.answer
         /\ p2.closed = IF p.op = "post" /\ p.gen = r.fence /\ n.state = "healthy" THEN TRUE ELSE p.closed
BY DEF HealthClosed, HealthPlans

\* An observation moves the row; a root whose recovery edit it overtakes is given up.
LEMMA HealthMoves ==
  ASSUME NEW p, NEW r, NEW q, NEW s, NEW g, HealthKnown(p, r, q, s, g),
         NEW n, HealthMoved(r, n), NEW p2, HealthClosed(p, r, n, p2), NEW g2, g \subseteq g2,
         n.outage > r.outage /\ r.delivery = "recovery_pending" /\ r.root # 0 => r.root \in g2
  PROVE  HealthKnown(p2, n, q, s, g2)
<1>1. /\ r \in HealthRows /\ q \in HealthRows /\ p \in HealthPlans /\ n \in HealthRows /\ s \in Seq(HealthMessages)
      /\ HealthBook(r, s, g) /\ HealthBook(q, s, g)
  BY DEF HealthKnown, HealthBook, HealthMoved
<1>2. /\ r.outage \in Nat /\ n.outage \in Nat /\ q.outage \in Nat /\ p.outage \in Nat /\ r.fence \in Nat /\ n.fence \in Nat
      /\ p.gen \in Nat /\ r.root \in Nat /\ \A m \in DOMAIN s : s[m].outage \in Nat
  BY <1>1, HealthFields
<1>3. /\ p2 \in HealthPlans /\ p2.op = p.op /\ p2.outage = p.outage /\ p2.gen = p.gen /\ p2.root = p.root
      /\ p2.answer = p.answer
      /\ p2.closed = IF p.op = "post" /\ p.gen = r.fence /\ n.state = "healthy" THEN TRUE ELSE p.closed
  BY <1>1, HealthCloses
<1>4. HealthBook(n, s, g2)
  BY <1>1, <1>2 DEF HealthBook, HealthMoved
<1>5. HealthBook(q, s, g2)
  BY <1>1 DEF HealthBook
<1>6. /\ q.outage <= n.outage /\ (p2.op # "none" => p2.gen <= n.fence)
  BY <1>2, <1>3 DEF HealthKnown, HealthMoved
<1>7. q.root = n.root /\ n.root # 0 /\ q.delivery = "recovered" => n.delivery = "recovered"
  BY DEF HealthKnown, HealthMoved
<1>8. HealthPost(p2, n, q, s)
  <2> SUFFICES ASSUME p2.op = "post" PROVE HealthPost(p2, n, q, s)
    BY DEF HealthPost
  <2>1. HealthPost(p, r, q, s) /\ p.op = "post" /\ p.gen <= r.fence
    BY <1>3 DEF HealthKnown
  <2>2. /\ p2.answer \in {"none", "refused"} => \A m \in DOMAIN s : s[m].outage # p2.outage
        /\ p2.outage <= q.outage
        /\ q.outage = p2.outage => q.delivery \notin {"none", "pending"}
    BY <1>3, <2>1 DEF HealthPost
  <2>3. p2.answer = "ok" => /\ p2.root \in DOMAIN s /\ s[p2.root].outage = p2.outage /\ p2.root # n.root
                            /\ p2.root # q.root
    <3>1. DOMAIN s = 1 .. Len(s)
      BY <1>1
    <3>2. n.root = r.root \/ n.root = 0
      BY DEF HealthMoved
    <3> QED BY <1>3, <2>1, <3>1, <3>2 DEF HealthPost
  <2>4. n.outage = p2.outage => n.delivery \notin {"none", "pending"}
    <3>1. q.outage <= r.outage
      BY DEF HealthKnown
    <3> QED BY <1>2, <1>3, <2>1, <2>2, <3>1 DEF HealthPost, HealthMoved
  <2>5. p2.gen = n.fence => p2.outage = n.outage /\ n.delivery = "indeterminate" /\ n.state # "healthy"
    BY <1>2, <1>3, <2>1 DEF HealthPost, HealthMoved
  <2>6. p2.gen # n.fence => p2.closed = TRUE
    BY <1>2, <1>3, <2>1 DEF HealthPost, HealthMoved
  <2>7. n.fence = p2.gen + 1 => n.outage = p2.outage
    BY <1>2, <1>3, <2>1 DEF HealthPost, HealthMoved
  <2> QED BY <2>2, <2>3, <2>4, <2>5, <2>6, <2>7 DEF HealthPost
<1>9. HealthEdit(p2, n, q, s, g2)
  <2> SUFFICES ASSUME p2.op \in {"edit", "recover"} PROVE HealthEdit(p2, n, q, s, g2)
    BY DEF HealthEdit
  <2>1. HealthEdit(p, r, q, s, g) /\ p.op \in {"edit", "recover"} /\ p.gen <= r.fence
    BY <1>3 DEF HealthKnown
  <2>2. p2.root \in DOMAIN s => (p2.root = n.root /\ n.delivery \in {"delivered", "recovery_pending"}) \/ p2.root \in g2
    <3> SUFFICES ASSUME p2.root \in DOMAIN s, p2.root \notin g2
                 PROVE  p2.root = n.root /\ n.delivery \in {"delivered", "recovery_pending"}
      OBVIOUS
    <3>1. p2.root = r.root /\ r.delivery \in {"delivered", "recovery_pending"}
      BY <1>3, <2>1 DEF HealthEdit
    <3>2. r.root # 0
      BY <1>1, <3>1
    <3>3. r.state = "healthy" => r.delivery # "delivered"
      BY <1>1 DEF HealthBook
    <3> QED BY <1>2, <3>1, <3>2, <3>3 DEF HealthMoved
  <2>3. /\ p2.root # 0 /\ p2.root = q.root => q.delivery # "recovered"
        /\ p2.root # 0 /\ p2.root = n.root => n.delivery # "recovered"
        /\ p2.gen = n.fence => p2.root = n.root
    BY <1>2, <1>3, <2>1 DEF HealthEdit, HealthMoved
  <2>4. p2.op = "recover" /\ p2.answer = "ok" /\ p2.root \in DOMAIN s => s[p2.root].shows = "recovered"
    BY <1>3, <2>1 DEF HealthEdit
  <2> QED BY <2>2, <2>3, <2>4 DEF HealthEdit
<1>10. ASSUME NEW m \in DOMAIN s PROVE HealthTracked(m, p2, n, s, g2)
  <2>1. HealthTracked(m, p, r, s, g) /\ m # 0
    BY <1>1 DEF HealthKnown
  <2>2. CASE m = r.root /\ r.delivery \in {"delivered", "recovery_pending"}
    <3>1. r.state = "healthy" => r.delivery # "delivered"
      BY <1>1 DEF HealthBook
    <3> QED BY <1>2, <2>1, <2>2, <3>1 DEF HealthMoved, HealthTracked
  <2>3. CASE \E k \in DOMAIN r.late : r.late[k] = m
    BY <2>3 DEF HealthMoved, HealthTracked
  <2> QED BY <1>3, <2>1, <2>2, <2>3 DEF HealthTracked
<1> QED BY <1>1, <1>3, <1>4, <1>5, <1>6, <1>7, <1>8, <1>9, <1>10 DEF HealthKnown

\* planDelivery marks the row, saves it, and sends a new message.
LEMMA HealthPosts ==
  ASSUME NEW p, NEW r, NEW q, NEW s, NEW g, HealthKnown(p, r, q, s, g), p.op = "none",
         r.state # "healthy", r.delivery \in {"none", "pending"},
         NEW n, n = [r EXCEPT !.delivery = "indeterminate"],
         NEW p2, p2 = [op |-> "post", outage |-> r.outage, gen |-> r.fence, state |-> r.state, root |-> r.root,
                       closed |-> FALSE, answer |-> "none"]
  PROVE  HealthKnown(p2, n, n, s, g)
<1>1. r \in HealthRows /\ s \in Seq(HealthMessages) /\ HealthBook(r, s, g)
  BY DEF HealthKnown, HealthBook
<1>2. /\ r.state \in HealthStates /\ r.outage \in Nat /\ r.fence \in Nat /\ r.root \in Nat
      /\ \A m \in DOMAIN s : s[m].outage \in Nat /\ m \in Nat \ {0}
  BY <1>1, HealthFields
<1>3. p2 \in HealthPlans /\ p2.op = "post" /\ p2.outage = r.outage /\ p2.gen = r.fence /\ p2.answer = "none"
  BY <1>2 DEF HealthPlans
<1>4. /\ n \in HealthRows /\ n.state = r.state /\ n.outage = r.outage /\ n.fence = r.fence /\ n.root = r.root
      /\ n.late = r.late /\ n.delivery = "indeterminate"
  BY <1>1 DEF HealthRows, HealthMarks
<1>5. r.root = 0 /\ \A m \in DOMAIN s : s[m].outage # r.outage
  BY <1>1 DEF HealthBook
<1>6. HealthBook(n, s, g)
  BY <1>1, <1>4, <1>5 DEF HealthBook
<1>7. HealthPost(p2, n, n, s) /\ HealthEdit(p2, n, n, s, g)
  BY <1>2, <1>3, <1>4, <1>5 DEF HealthPost, HealthEdit
<1>8. ASSUME NEW m \in DOMAIN s PROVE HealthTracked(m, p2, n, s, g)
  <2>1. HealthTracked(m, p, r, s, g)
    BY DEF HealthKnown
  <2> QED BY <1>2, <1>4, <1>5, <2>1 DEF HealthTracked
<1>9. \A m, k \in DOMAIN s : s[m].outage = s[k].outage => m = k
  BY DEF HealthKnown
<1>10. n.outage <= n.outage /\ p2.gen <= n.fence
  BY <1>2, <1>3, <1>4
<1> QED BY <1>1, <1>3, <1>6, <1>7, <1>8, <1>9, <1>10, Zenon DEF HealthKnown

\* planDelivery sends an edit of the message on record.
LEMMA HealthSends ==
  ASSUME NEW p, NEW r, NEW q, NEW s, NEW g, HealthKnown(p, r, q, s, g), p.op = "none",
         r.delivery \in {"delivered", "recovery_pending"}, NEW o \in {"edit", "recover"},
         NEW p2, p2 = [op |-> o, outage |-> r.outage, gen |-> r.fence, state |-> r.state, root |-> r.root,
                       closed |-> FALSE, answer |-> "none"]
  PROVE  HealthKnown(p2, r, q, s, g)
<1>1. r \in HealthRows /\ s \in Seq(HealthMessages)
  BY DEF HealthKnown, HealthBook
<1>2. r.state \in HealthStates /\ r.outage \in Nat /\ r.fence \in Nat /\ r.root \in Nat
  BY <1>1, HealthFields
<1>3. p2 \in HealthPlans /\ p2.op = o /\ p2.gen = r.fence /\ p2.answer = "none" /\ p2.root = r.root
  BY <1>2 DEF HealthPlans
<1>4. HealthPost(p2, r, q, s) /\ HealthEdit(p2, r, q, s, g)
  BY <1>3 DEF HealthPost, HealthEdit, HealthKnown
<1>5. ASSUME NEW m \in DOMAIN s PROVE HealthTracked(m, p2, r, s, g)
  BY DEF HealthTracked, HealthKnown
<1>6. p2.gen <= r.fence
  BY <1>2, <1>3
<1> QED BY <1>3, <1>4, <1>5, <1>6, Zenon DEF HealthKnown

\* Slack refuses, or is not heard and did nothing: only the answer changes.
LEMMA HealthRefused ==
  ASSUME NEW p, NEW r, NEW q, NEW s, NEW g, HealthKnown(p, r, q, s, g), p.answer = "none",
         NEW a \in {"refused", "unknown"}, NEW p2, p2 = [p EXCEPT !.answer = a]
  PROVE  HealthKnown(p2, r, q, s, g)
<1>1. p \in HealthPlans
  BY DEF HealthKnown
<1>2. /\ p2 \in HealthPlans /\ p2.op = p.op /\ p2.outage = p.outage /\ p2.gen = p.gen /\ p2.root = p.root
      /\ p2.closed = p.closed /\ p2.answer = a
  BY <1>1 DEF HealthPlans
<1>3. HealthPost(p2, r, q, s) /\ HealthEdit(p2, r, q, s, g)
  BY <1>2 DEF HealthPost, HealthEdit, HealthKnown
<1>4. ASSUME NEW m \in DOMAIN s PROVE HealthTracked(m, p2, r, s, g)
  BY DEF HealthTracked, HealthKnown
<1> QED BY <1>2, <1>3, <1>4 DEF HealthKnown

\* The messages after a post.
LEMMA HealthAppends ==
  ASSUME NEW s \in Seq(HealthMessages), NEW x \in HealthMessages, NEW t, t = Append(s, x)
  PROVE  /\ t \in Seq(HealthMessages) /\ DOMAIN t = DOMAIN s \cup {Len(s) + 1} /\ t[Len(s) + 1] = x
         /\ Len(s) + 1 \in Nat \ {0} /\ Len(s) + 1 \notin DOMAIN s /\ \A m \in DOMAIN s : t[m] = s[m]
OBVIOUS

\* Slack takes the post, and is heard or not.
LEMMA HealthLands ==
  ASSUME NEW p, NEW r, NEW q, NEW s, NEW g, HealthKnown(p, r, q, s, g), p.op = "post", p.answer = "none",
         NEW t, t = Append(s, [outage |-> p.outage, shows |-> p.state]), NEW p2, NEW g2,
         \/ p2 = [p EXCEPT !.answer = "ok", !.root = Len(s) + 1] /\ g2 = g
         \/ p2 = [p EXCEPT !.answer = "unknown"] /\ g2 = g \cup {Len(s) + 1}
  PROVE  HealthKnown(p2, r, q, t, g2)
<1>1. /\ p \in HealthPlans /\ s \in Seq(HealthMessages) /\ r \in HealthRows /\ q \in HealthRows
      /\ HealthBook(r, s, g) /\ HealthBook(q, s, g) /\ HealthPost(p, r, q, s)
  BY DEF HealthKnown, HealthBook
<1>2. PICK k : k = Len(s) + 1
  OBVIOUS
<1>3. PICK x : x = [outage |-> p.outage, shows |-> p.state]
  OBVIOUS
<1>4. x \in HealthMessages /\ x.outage = p.outage
  BY <1>1, <1>3, HealthFields DEF HealthMessages
<1>5. /\ t \in Seq(HealthMessages) /\ DOMAIN t = DOMAIN s \cup {k} /\ t[k] = x
      /\ k \in Nat \ {0} /\ k \notin DOMAIN s /\ \A m \in DOMAIN s : t[m] = s[m]
  BY <1>1, <1>2, <1>3, <1>4, HealthAppends
<1>6. /\ p2 \in HealthPlans /\ p2.op = "post" /\ p2.outage = p.outage /\ p2.gen = p.gen /\ p2.closed = p.closed
      /\ \/ p2.answer = "ok" /\ p2.root = k /\ g2 = g
         \/ p2.answer = "unknown" /\ g2 = g \cup {k}
  BY <1>1, <1>2, <1>5 DEF HealthPlans
<1>7. /\ r.outage \in Nat /\ q.outage \in Nat /\ p.outage \in Nat /\ \A m \in DOMAIN s : s[m].outage \in Nat
  BY <1>1, HealthFields
<1>8. p.outage <= q.outage /\ q.outage <= r.outage
  BY <1>1 DEF HealthPost, HealthKnown
<1>9. HealthBook(r, t, g2)
  <2>1. r.outage = p.outage => r.delivery \notin {"none", "pending"}
    BY <1>1 DEF HealthPost
  <2>2. \A m \in DOMAIN t : t[m].outage <= r.outage
    BY <1>1, <1>4, <1>5, <1>7, <1>8 DEF HealthBook
  <2>3. r.delivery \in {"none", "pending"} => \A m \in DOMAIN t : t[m].outage # r.outage
    BY <1>1, <1>4, <1>5, <1>7, <2>1 DEF HealthBook
  <2> QED BY <1>1, <1>5, <1>6, <2>2, <2>3 DEF HealthBook
<1>10. HealthBook(q, t, g2)
  <2>1. q.outage = p.outage => q.delivery \notin {"none", "pending"}
    BY <1>1 DEF HealthPost
  <2>2. \A m \in DOMAIN t : t[m].outage <= q.outage
    BY <1>1, <1>4, <1>5, <1>7, <1>8 DEF HealthBook
  <2>3. q.delivery \in {"none", "pending"} => \A m \in DOMAIN t : t[m].outage # q.outage
    BY <1>1, <1>4, <1>5, <1>7, <2>1 DEF HealthBook
  <2> QED BY <1>1, <1>5, <1>6, <2>2, <2>3 DEF HealthBook
<1>11. HealthPost(p2, r, q, t) /\ HealthEdit(p2, r, q, t, g2)
  <2>1. k # r.root /\ k # q.root
    BY <1>1, <1>5 DEF HealthBook
  <2> QED BY <1>1, <1>4, <1>5, <1>6, <2>1 DEF HealthPost, HealthEdit
<1>12. ASSUME NEW m \in DOMAIN t, NEW n \in DOMAIN t, t[m].outage = t[n].outage PROVE m = n
  <2>1. \A i \in DOMAIN s : s[i].outage # p.outage
    BY <1>1 DEF HealthPost
  <2>2. \A i, j \in DOMAIN s : s[i].outage = s[j].outage => i = j
    BY DEF HealthKnown
  <2> QED BY <1>4, <1>5, <1>12, <2>1, <2>2
<1>13. ASSUME NEW m \in DOMAIN t PROVE HealthTracked(m, p2, r, t, g2)
  <2>1. CASE m = k
    BY <1>6, <2>1 DEF HealthTracked
  <2>2. CASE m \in DOMAIN s
    <3>1. HealthTracked(m, p, r, s, g)
      BY <2>2 DEF HealthKnown
    <3> QED BY <1>5, <1>6, <2>2, <3>1 DEF HealthTracked
  <2> QED BY <1>5, <2>1, <2>2
<1>14. p2.gen <= r.fence
  BY <1>6 DEF HealthKnown
<1>15. q.root = r.root /\ r.root # 0 /\ q.delivery = "recovered" => r.delivery = "recovered"
  BY DEF HealthKnown
<1> QED BY <1>5, <1>6, <1>8, <1>9, <1>10, <1>11, <1>12, <1>13, <1>14, <1>15 DEF HealthKnown

\* The messages s after message k was edited.
HealthRead(s, k, x, t) ==
  /\ t \in Seq(HealthMessages) /\ DOMAIN t = DOMAIN s
  /\ \A m \in DOMAIN s : t[m].outage = s[m].outage /\ t[m].shows = IF m = k THEN x ELSE s[m].shows

LEMMA HealthRewrites ==
  ASSUME NEW s \in Seq(HealthMessages), NEW k \in Nat, NEW x \in HealthStates \cup {"recovered"}
  PROVE  HealthRead(s, k, x, [s EXCEPT ![k].shows = x])
<1> DEFINE t == [s EXCEPT ![k].shows = x]
<1>1. DOMAIN s = 1 .. Len(s) /\ Len(s) \in Nat /\ DOMAIN t = DOMAIN s
  OBVIOUS
<1>2. ASSUME NEW m \in DOMAIN s
      PROVE  /\ t[m] \in HealthMessages /\ t[m].outage = s[m].outage
             /\ t[m].shows = IF m = k THEN x ELSE s[m].shows
  <2>1. s[m] \in HealthMessages
    OBVIOUS
  <2>2. t[m] = IF m = k THEN [s[m] EXCEPT !.shows = x] ELSE s[m]
    OBVIOUS
  <2> QED BY <2>1, <2>2 DEF HealthMessages
<1>3. t \in [1 .. Len(s) -> HealthMessages]
  <2>1. t = [m \in DOMAIN s |-> t[m]]
    OBVIOUS
  <2> QED BY <1>1, <1>2, <2>1
<1>4. t \in Seq(HealthMessages)
  BY <1>1, <1>3
<1> QED BY <1>1, <1>2, <1>4 DEF HealthRead

\* Slack shows x in the message of the edit p, and t is what it then shows.
HealthShows(p, s, x, t) ==
  x = (IF p.op = "recover" THEN "recovered" ELSE p.state) /\ t = [s EXCEPT ![p.root].shows = x]

\* The call is answered, or given up as unanswered.
HealthHeard(p, a, p2) == p2 = [p EXCEPT !.answer = a] \/ p2 = [p EXCEPT !.answer = a, !.root = p.root]

\* Slack takes the edit, and is heard or not.
LEMMA HealthRewritten ==
  ASSUME NEW p, NEW r, NEW q, NEW s, NEW g, HealthKnown(p, r, q, s, g), p.op \in {"edit", "recover"},
         NEW x, NEW t, HealthShows(p, s, x, t), NEW a \in {"ok", "unknown"}, NEW p2, HealthHeard(p, a, p2)
  PROVE  HealthKnown(p2, r, q, t, g)
<1>1. /\ p \in HealthPlans /\ s \in Seq(HealthMessages) /\ r \in HealthRows /\ q \in HealthRows
      /\ HealthBook(r, s, g) /\ HealthBook(q, s, g) /\ HealthEdit(p, r, q, s, g)
  BY DEF HealthKnown, HealthBook
<1>2. p.root \in Nat /\ x \in HealthStates \cup {"recovered"} /\ (p.op = "recover" => x = "recovered")
  BY <1>1, HealthFields DEF HealthShows
<1>3. /\ t \in Seq(HealthMessages) /\ DOMAIN t = DOMAIN s
      /\ \A m \in DOMAIN s : t[m].outage = s[m].outage /\ t[m].shows = IF m = p.root THEN x ELSE s[m].shows
  <2>1. HealthRead(s, p.root, x, t)
    BY <1>1, <1>2, HealthRewrites, Zenon DEF HealthShows
  <2> QED BY <2>1 DEF HealthRead
<1>4. /\ p2 \in HealthPlans /\ p2.op = p.op /\ p2.outage = p.outage /\ p2.gen = p.gen /\ p2.closed = p.closed
      /\ p2.root = p.root /\ p2.answer = a
  BY <1>1 DEF HealthPlans, HealthHeard
<1>5. HealthBook(r, t, g)
  <2>1. r.delivery = "recovered" /\ r.root # 0 => r.root # p.root
    BY <1>1 DEF HealthEdit
  <2> QED BY <1>1, <1>3, <2>1 DEF HealthBook
<1>6. HealthBook(q, t, g)
  <2>1. q.delivery = "recovered" /\ q.root # 0 => q.root # p.root
    BY <1>1 DEF HealthEdit
  <2> QED BY <1>1, <1>3, <2>1 DEF HealthBook
<1>7. HealthPost(p2, r, q, t) /\ HealthEdit(p2, r, q, t, g)
  BY <1>1, <1>2, <1>3, <1>4 DEF HealthPost, HealthEdit
<1>8. ASSUME NEW m \in DOMAIN t PROVE HealthTracked(m, p2, r, t, g)
  <2>1. HealthTracked(m, p, r, s, g) /\ m \in DOMAIN s
    BY <1>3 DEF HealthKnown
  <2>2. CASE m = p.root
    BY <1>1, <2>1, <2>2 DEF HealthEdit, HealthTracked
  <2>3. CASE m # p.root
    BY <1>3, <1>4, <2>1, <2>3 DEF HealthTracked
  <2> QED BY <2>2, <2>3
<1>9. \A m, n \in DOMAIN t : t[m].outage = t[n].outage => m = n
  BY <1>3 DEF HealthKnown
<1>10. (p2.op # "none" => p2.gen <= r.fence) /\ q.outage <= r.outage
  BY <1>4 DEF HealthKnown
<1>11. q.root = r.root /\ r.root # 0 /\ q.delivery = "recovered" => r.delivery = "recovered"
  BY DEF HealthKnown
<1> QED BY <1>3, <1>4, <1>5, <1>6, <1>7, <1>8, <1>9, <1>10, <1>11 DEF HealthKnown

\* The call is over: what is left to show of the row it leaves.
LEMMA HealthSettles ==
  ASSUME NEW p, NEW r, NEW q, NEW s, NEW g, HealthKnown(p, r, q, s, g), NEW p2 \in HealthPlans, p2.op = "none",
         NEW n, HealthBook(n, s, g), q.outage <= n.outage,
         q.root = n.root /\ n.root # 0 /\ q.delivery = "recovered" => n.delivery = "recovered",
         \A m \in DOMAIN s : HealthTracked(m, p2, n, s, g)
  PROVE  HealthKnown(p2, n, q, s, g)
<1>1. HealthPost(p2, n, q, s) /\ HealthEdit(p2, n, q, s, g)
  BY DEF HealthPost, HealthEdit
<1>2. s \in Seq(HealthMessages) /\ HealthBook(q, s, g) /\ \A m, k \in DOMAIN s : s[m].outage = s[k].outage => m = k
  BY DEF HealthKnown
<1> QED BY <1>1, <1>2, Zenon DEF HealthKnown

\* n is the row r with the mark d, the root x and the queue l.
HealthWritten(r, n, d, x, l) ==
  /\ n \in HealthRows /\ n.state = r.state /\ n.outage = r.outage
  /\ n.delivery = d /\ n.root = x /\ n.late = l

LEMMA HealthRooted ==
  ASSUME NEW r \in HealthRows, NEW d \in HealthMarks, NEW x \in Nat, NEW y \in HealthStates, NEW n,
         n = [r EXCEPT !.delivery = d, !.root = x, !.shown = y]
  PROVE  HealthWritten(r, n, d, x, r.late)
BY DEF HealthRows, HealthWritten

LEMMA HealthAdopted ==
  ASSUME NEW r \in HealthRows, NEW d \in HealthMarks, NEW x \in Nat, NEW y \in HealthStates, NEW n,
         n = [r EXCEPT !.root = x, !.shown = y, !.delivery = d]
  PROVE  HealthWritten(r, n, d, x, r.late)
BY DEF HealthRows, HealthWritten

LEMMA HealthMarked ==
  ASSUME NEW r \in HealthRows, NEW d \in HealthMarks, NEW n, n = [r EXCEPT !.delivery = d]
  PROVE  HealthWritten(r, n, d, r.root, r.late)
BY DEF HealthRows, HealthWritten

LEMMA HealthShown ==
  ASSUME NEW r \in HealthRows, NEW y \in HealthStates, NEW n, n = [r EXCEPT !.shown = y]
  PROVE  HealthWritten(r, n, r.delivery, r.root, r.late)
BY DEF HealthRows, HealthWritten

LEMMA HealthQueued ==
  ASSUME NEW r \in HealthRows, NEW l \in HealthQueues, NEW n, n = [r EXCEPT !.late = l]
  PROVE  HealthWritten(r, n, r.delivery, r.root, l)
BY DEF HealthRows, HealthWritten

\* k is the queue l with x behind it.
HealthJoined(l, x, k) ==
  /\ k \in HealthQueues
  /\ \E i \in DOMAIN k : k[i] = x
  /\ \A i \in DOMAIN l : \E j \in DOMAIN k : k[j] = l[i]

LEMMA HealthLonger ==
  ASSUME NEW l \in HealthQueues, NEW x \in Nat, NEW k, k = Append(l, x)
  PROVE  HealthJoined(l, x, k)
<1>1. l \in Seq(Nat)
  BY DEF HealthQueues
<1>2. k \in Seq(Nat) /\ Len(k) = Len(l) + 1 /\ Len(l) \in Nat /\ DOMAIN l = 1 .. Len(l) /\ DOMAIN k = 1 .. Len(k)
  BY <1>1
<1>3. k[Len(l) + 1] = x /\ Len(l) + 1 \in DOMAIN k
  BY <1>1, <1>2
<1>4. ASSUME NEW i \in DOMAIN l PROVE i \in DOMAIN k /\ k[i] = l[i]
  BY <1>1, <1>2
<1> QED BY <1>2, <1>3, <1>4 DEF HealthQueues, HealthJoined

\* What the answer of the call does to the row, apart from what it shows.
HealthAnswered(p, r, n) ==
  /\ n \in HealthRows /\ n.state = r.state /\ n.outage = r.outage
  /\ \/ /\ p.op = "post" /\ p.answer = "ok" /\ n.root = p.root /\ n.late = r.late
        /\ \/ p.gen = r.fence /\ n.delivery = "delivered"
           \/ p.gen # r.fence /\ r.fence = p.gen + 1 /\ r.state = "healthy" /\ r.delivery = "suppressed" /\ n.delivery = "recovery_pending"
     \/ /\ p.op = "post" /\ p.answer = "ok" /\ n.root = r.root /\ n.delivery = r.delivery
        /\ (\E k \in DOMAIN n.late : n.late[k] = p.root) /\ \A k \in DOMAIN r.late : \E j \in DOMAIN n.late : n.late[j] = r.late[k]
     \/ /\ p.op = "post" /\ p.answer = "refused" /\ p.gen = r.fence
        /\ n.root = r.root /\ n.delivery = "pending" /\ n.late = r.late
     \/ /\ p.op = "recover" /\ p.answer = "ok" /\ p.gen = r.fence
        /\ n.root = r.root /\ n.delivery = "recovered" /\ n.late = r.late
     \/ /\ ~(p.op = "post" /\ p.answer = "ok")
        /\ n.root = r.root /\ n.delivery = r.delivery /\ n.late = r.late

LEMMA HealthApplied ==
  ASSUME NEW p, NEW r, NEW q, NEW s, NEW g, HealthKnown(p, r, q, s, g)
  PROVE  HealthAnswered(p, r, Health!Applied(r, p))
<1>1. p \in HealthPlans /\ r \in HealthRows /\ HealthPost(p, r, q, s)
  BY DEF HealthKnown, HealthBook
<1>2. p.root \in Nat /\ p.state \in HealthStates /\ r.late \in HealthQueues
  BY <1>1, HealthFields
<1>3. {"delivered", "recovery_pending", "pending", "recovered"} \subseteq HealthMarks
  BY DEF HealthMarks
<1>4. PICK n : n = Health!Applied(r, p)
  OBVIOUS
<1>5. CASE p.gen # r.fence /\ p.op = "post" /\ p.answer = "ok"
  <2>1. p.closed = TRUE
    BY <1>1, <1>5 DEF HealthPost
  <2>2. n = Health!AdoptStaleRoot(r, p)
    BY <1>4, <1>5, <2>1 DEF Health!Applied
  <2>3. CASE r.fence = p.gen + 1 /\ r.state = "healthy" /\ r.delivery = "suppressed"
    <3>1. n = [r EXCEPT !.root = p.root, !.shown = p.state, !.delivery = "recovery_pending"]
      BY <2>2, <2>3 DEF Health!AdoptStaleRoot
    <3>2. HealthWritten(r, n, "recovery_pending", p.root, r.late)
      BY <1>1, <1>2, <1>3, <3>1, HealthAdopted, Zenon
    <3> QED BY <1>4, <1>5, <2>3, <3>2 DEF HealthAnswered, HealthWritten
  <2>4. CASE ~(r.fence = p.gen + 1 /\ r.state = "healthy" /\ r.delivery = "suppressed")
    <3>1. PICK l : l = Append(r.late, p.root)
      OBVIOUS
    <3>2. HealthJoined(r.late, p.root, l) /\ l \in HealthQueues
      <4>1. HealthJoined(r.late, p.root, l)
        BY <1>2, <3>1, HealthLonger, Zenon
      <4> QED BY <4>1 DEF HealthJoined
    <3>3. n = [r EXCEPT !.late = l]
      BY <2>2, <2>4, <3>1 DEF Health!AdoptStaleRoot
    <3>4. HealthWritten(r, n, r.delivery, r.root, l)
      BY <1>1, <3>2, <3>3, HealthQueued, Zenon
    <3> QED BY <1>4, <1>5, <3>2, <3>4 DEF HealthAnswered, HealthWritten, HealthJoined
  <2> QED BY <2>3, <2>4
<1>6. CASE p.gen = r.fence /\ p.op = "post" /\ p.answer = "ok"
  <2>1. n = [r EXCEPT !.delivery = "delivered", !.root = p.root, !.shown = p.state]
    BY <1>4, <1>6 DEF Health!Applied
  <2>2. HealthWritten(r, n, "delivered", p.root, r.late)
    BY <1>1, <1>2, <1>3, <2>1, HealthRooted, Zenon
  <2> QED BY <1>4, <1>6, <2>2 DEF HealthAnswered, HealthWritten
<1>7. CASE p.gen = r.fence /\ p.op = "post" /\ p.answer = "refused"
  <2>1. n = [r EXCEPT !.delivery = "pending"]
    BY <1>4, <1>7 DEF Health!Applied
  <2>2. HealthWritten(r, n, "pending", r.root, r.late)
    BY <1>1, <1>3, <2>1, HealthMarked, Zenon
  <2> QED BY <1>4, <1>7, <2>2 DEF HealthAnswered, HealthWritten
<1>8. CASE p.gen = r.fence /\ p.op = "edit" /\ p.answer = "ok"
  <2>1. n = [r EXCEPT !.shown = p.state]
    BY <1>4, <1>8 DEF Health!Applied
  <2>2. HealthWritten(r, n, r.delivery, r.root, r.late)
    BY <1>1, <1>2, <2>1, HealthShown, Zenon
  <2> QED BY <1>4, <1>8, <2>2 DEF HealthAnswered, HealthWritten
<1>9. CASE p.gen = r.fence /\ p.op = "recover" /\ p.answer = "ok"
  <2>1. n = [r EXCEPT !.delivery = "recovered"]
    BY <1>4, <1>9 DEF Health!Applied
  <2>2. HealthWritten(r, n, "recovered", r.root, r.late)
    BY <1>1, <1>3, <2>1, HealthMarked, Zenon
  <2> QED BY <1>4, <1>9, <2>2 DEF HealthAnswered, HealthWritten
<1>10. CASE \/ p.gen # r.fence /\ ~(p.op = "post" /\ p.answer = "ok")
            \/ /\ p.gen = r.fence /\ ~(p.op = "post" /\ p.answer \in {"ok", "refused"})
               /\ ~(p.op \in {"edit", "recover"} /\ p.answer = "ok")
  <2>1. n = r
    BY <1>4, <1>10 DEF Health!Applied
  <2> QED BY <1>1, <1>4, <1>10, <2>1 DEF HealthAnswered
<1> QED BY <1>5, <1>6, <1>7, <1>8, <1>9, <1>10

LEMMA HealthApplies ==
  ASSUME NEW p, NEW r, NEW q, NEW s, NEW g, HealthKnown(p, r, q, s, g), NEW n, HealthAnswered(p, r, n),
         NEW p2 \in HealthPlans, p2.op = "none"
  PROVE  HealthKnown(p2, n, q, s, g)
<1>1. /\ p \in HealthPlans /\ r \in HealthRows /\ n \in HealthRows /\ s \in Seq(HealthMessages)
      /\ HealthBook(r, s, g) /\ HealthPost(p, r, q, s) /\ HealthEdit(p, r, q, s, g)
      /\ n.state = r.state /\ n.outage = r.outage
  BY DEF HealthKnown, HealthBook, HealthAnswered
<1>2. q.outage <= n.outage
  BY <1>1 DEF HealthKnown
<1>3. \A m \in DOMAIN s : m # 0
  BY <1>1
<1>4. /\ \A m \in DOMAIN s : HealthTracked(m, p, r, s, g)
      /\ q.root = r.root /\ r.root # 0 /\ q.delivery = "recovered" => r.delivery = "recovered"
  BY DEF HealthKnown
<1>5. CASE p.op = "post" /\ p.answer = "ok" /\ n.root = p.root
  <2>1. /\ p.root \in DOMAIN s /\ s[p.root].outage = p.outage /\ p.root # r.root /\ p.root # q.root
    BY <1>1, <1>5 DEF HealthPost
  <2>2. /\ n.late = r.late /\ n.delivery \in {"delivered", "recovery_pending"} /\ p.outage = r.outage
        /\ (n.delivery = "delivered" => r.state # "healthy") /\ r.delivery \in {"indeterminate", "suppressed"}
    BY <1>1, <1>5, <2>1 DEF HealthAnswered, HealthPost
  <2>3. r.root = 0
    BY <1>1, <2>2 DEF HealthBook
  <2>4. HealthBook(n, s, g)
    BY <1>1, <1>5, <2>1, <2>2 DEF HealthBook
  <2>5. \A m \in DOMAIN s : HealthTracked(m, p2, n, s, g)
    BY <1>3, <1>4, <1>5, <2>2, <2>3 DEF HealthTracked
  <2>6. q.root = n.root => FALSE
    BY <1>5, <2>1
  <2> QED BY <1>2, <2>4, <2>5, <2>6, HealthSettles
<1>6. CASE p.op = "post" /\ p.answer = "ok" /\ n.root # p.root
  <2>1. /\ n.root = r.root /\ n.delivery = r.delivery /\ (\E k \in DOMAIN n.late : n.late[k] = p.root)
        /\ \A k \in DOMAIN r.late : \E j \in DOMAIN n.late : n.late[j] = r.late[k]
    BY <1>6 DEF HealthAnswered
  <2>2. HealthBook(n, s, g)
    BY <1>1, <2>1 DEF HealthBook
  <2>3. \A m \in DOMAIN s : HealthTracked(m, p2, n, s, g)
    BY <1>4, <2>1 DEF HealthTracked
  <2> QED BY <1>2, <1>4, <2>1, <2>2, <2>3, HealthSettles
<1>7. CASE p.op = "post" /\ p.answer = "refused" /\ n.delivery = "pending"
  <2>1. n.root = r.root /\ n.late = r.late
    BY <1>7 DEF HealthAnswered
  <2>2. CASE p.gen = r.fence
    <3>1. /\ p.outage = r.outage /\ r.delivery = "indeterminate" /\ r.state # "healthy"
          /\ \A m \in DOMAIN s : s[m].outage # p.outage
      BY <1>1, <1>7, <2>2 DEF HealthPost
    <3>2. r.root = 0
      BY <1>1, <3>1 DEF HealthBook
    <3>3. HealthBook(n, s, g)
      BY <1>1, <1>7, <2>1, <3>1, <3>2 DEF HealthBook
    <3>4. \A m \in DOMAIN s : HealthTracked(m, p2, n, s, g)
      BY <1>3, <1>4, <1>7, <2>1, <3>2 DEF HealthTracked
    <3> QED BY <1>2, <2>1, <3>2, <3>3, <3>4, HealthSettles
  <2>3. CASE p.gen # r.fence
    <3>1. n.delivery = r.delivery
      BY <1>7, <2>3 DEF HealthAnswered
    <3>2. HealthBook(n, s, g)
      BY <1>1, <2>1, <3>1 DEF HealthBook
    <3>3. \A m \in DOMAIN s : HealthTracked(m, p2, n, s, g)
      BY <1>4, <1>7, <2>1, <3>1 DEF HealthTracked
    <3> QED BY <1>2, <1>4, <2>1, <3>1, <3>2, <3>3, HealthSettles
  <2> QED BY <2>2, <2>3
<1>8. CASE p.op = "recover" /\ p.answer = "ok" /\ p.gen = r.fence /\ n.delivery = "recovered"
  <2>1. n.root = r.root /\ n.late = r.late /\ p.root = r.root
    BY <1>1, <1>8 DEF HealthAnswered, HealthEdit
  <2>2. r.root # 0 => /\ r.root \in DOMAIN s /\ s[r.root].outage = r.outage /\ s[r.root].shows = "recovered"
    BY <1>1, <1>8, <2>1 DEF HealthBook, HealthEdit
  <2>3. HealthBook(n, s, g)
    BY <1>1, <1>8, <2>1, <2>2 DEF HealthBook
  <2>4. \A m \in DOMAIN s : HealthTracked(m, p2, n, s, g)
    BY <1>3, <1>4, <1>8, <2>1, <2>2 DEF HealthTracked
  <2> QED BY <1>2, <1>8, <2>3, <2>4, HealthSettles
<1>9. CASE ~(p.op = "post" /\ p.answer = "ok") /\ n.root = r.root /\ n.delivery = r.delivery /\ n.late = r.late
  <2>1. HealthBook(n, s, g)
    BY <1>1, <1>9 DEF HealthBook
  <2>2. \A m \in DOMAIN s : HealthTracked(m, p2, n, s, g)
    BY <1>4, <1>9 DEF HealthTracked
  <2> QED BY <1>2, <1>4, <1>9, <2>1, <2>2, HealthSettles
<1> QED BY <1>5, <1>6, <1>7, <1>8, <1>9 DEF HealthAnswered

\* The messages that landed show that their outages ended.
HealthClosing(s, landed, t) ==
  t = [m \in DOMAIN s |-> IF m \in landed THEN [s[m] EXCEPT !.shows = "recovered"] ELSE s[m]]

\* k holds what the queue l held and did not land.
HealthKept(l, landed, k) ==
  /\ k \in HealthQueues
  /\ \A a \in DOMAIN l : l[a] \in landed \/ \E b \in DOMAIN k : k[b] = l[a]

\* editLateRoots: what landed shows that its outage ended, the rest stays in the queue.
LEMMA HealthLate ==
  ASSUME NEW p, NEW r, NEW q, NEW s, NEW g, HealthKnown(p, r, q, s, g), p.op = "none",
         NEW landed, NEW l, HealthKept(r.late, landed, l), NEW n, n = [r EXCEPT !.late = l],
         NEW t, HealthClosing(s, landed, t)
  PROVE  HealthKnown(p, n, q, t, g)
<1>1. /\ p \in HealthPlans /\ r \in HealthRows /\ q \in HealthRows /\ s \in Seq(HealthMessages)
      /\ HealthBook(r, s, g) /\ HealthBook(q, s, g)
  BY DEF HealthKnown, HealthBook
<1>2. /\ n \in HealthRows /\ n.state = r.state /\ n.outage = r.outage /\ n.late = l
      /\ n.delivery = r.delivery /\ n.root = r.root
  <2>1. HealthWritten(r, n, r.delivery, r.root, l)
    BY <1>1, HealthQueued, Zenon DEF HealthKept
  <2> QED BY <2>1 DEF HealthWritten
<1>3. /\ t \in Seq(HealthMessages) /\ DOMAIN t = DOMAIN s
      /\ \A m \in DOMAIN s : t[m].outage = s[m].outage /\ t[m].shows = IF m \in landed THEN "recovered" ELSE s[m].shows
  <2>1. DOMAIN s = 1 .. Len(s) /\ Len(s) \in Nat /\ DOMAIN t = DOMAIN s
    BY <1>1 DEF HealthClosing
  <2>2. ASSUME NEW m \in DOMAIN s
        PROVE  /\ t[m] \in HealthMessages /\ t[m].outage = s[m].outage
               /\ t[m].shows = IF m \in landed THEN "recovered" ELSE s[m].shows
    <3>1. s[m] \in HealthMessages
      BY <1>1
    <3>2. t[m] = IF m \in landed THEN [s[m] EXCEPT !.shows = "recovered"] ELSE s[m]
      BY DEF HealthClosing
    <3> QED BY <3>1, <3>2 DEF HealthMessages
  <2>3. t \in [1 .. Len(s) -> HealthMessages]
    <3>1. t = [m \in DOMAIN s |-> t[m]]
      BY DEF HealthClosing
    <3> QED BY <2>1, <2>2, <3>1
  <2>4. t \in Seq(HealthMessages)
    BY <2>1, <2>3
  <2> QED BY <2>1, <2>2, <2>4
<1>4. HealthBook(n, t, g)
  BY <1>1, <1>2, <1>3 DEF HealthBook
<1>5. HealthBook(q, t, g)
  BY <1>1, <1>3 DEF HealthBook
<1>6. HealthPost(p, n, q, t) /\ HealthEdit(p, n, q, t, g)
  BY DEF HealthPost, HealthEdit
<1>7. ASSUME NEW m \in DOMAIN t PROVE HealthTracked(m, p, n, t, g)
  <2>1. HealthTracked(m, p, r, s, g) /\ m \in DOMAIN s
    BY <1>3 DEF HealthKnown
  <2> QED BY <1>2, <1>3, <2>1 DEF HealthTracked, HealthKept
<1>8. \A m, k \in DOMAIN t : t[m].outage = t[k].outage => m = k
  BY <1>3 DEF HealthKnown
<1>9. /\ q.outage <= n.outage
      /\ q.root = n.root /\ n.root # 0 /\ q.delivery = "recovered" => n.delivery = "recovered"
  BY <1>2 DEF HealthKnown
<1> QED BY <1>1, <1>3, <1>4, <1>5, <1>6, <1>7, <1>8, <1>9, Zenon DEF HealthKnown

\* New, in the next process: the saved row; what it does not know is given up.
LEMMA HealthRestarts ==
  ASSUME NEW p, NEW r, NEW q, NEW s, NEW g, HealthKnown(p, r, q, s, g), NEW p2 \in HealthPlans, p2.op = "none",
         NEW g2, g \subseteq g2,
         \A m \in DOMAIN s : s[m].shows # "recovered" /\ m # q.root /\ (~ \E k \in DOMAIN q.late : q.late[k] = m) => m \in g2
  PROVE  HealthKnown(p2, q, q, s, g2)
<1>1. s \in Seq(HealthMessages) /\ HealthBook(q, s, g) /\ q \in HealthRows
  BY DEF HealthKnown, HealthBook
<1>2. HealthBook(q, s, g2)
  BY <1>1 DEF HealthBook
<1>3. HealthPost(p2, q, q, s) /\ HealthEdit(p2, q, q, s, g2)
  BY DEF HealthPost, HealthEdit
<1>4. ASSUME NEW m \in DOMAIN s PROVE HealthTracked(m, p2, q, s, g2)
  <2>1. m = q.root => HealthTracked(m, p2, q, s, g2)
    <3> SUFFICES ASSUME m = q.root PROVE HealthTracked(m, p2, q, s, g2)
      OBVIOUS
    <3>1. q.root # 0
      BY <1>1
    <3> QED BY <1>1, <3>1 DEF HealthBook, HealthTracked
  <2> QED BY <2>1 DEF HealthTracked
<1>5. q.outage <= q.outage
  BY <1>1, HealthFields
<1>6. \A m, k \in DOMAIN s : s[m].outage = s[k].outage => m = k
  BY DEF HealthKnown
<1> QED BY <1>1, <1>2, <1>3, <1>4, <1>5, <1>6, Zenon DEF HealthKnown

\* recomputeAndPersist.
LEMMA HealthObserves ==
  ASSUME HealthKnown(plan, rec, saved.rec, slack, lost \cup overtaken), NEW c, Health!Observe(c),
         slack' = slack, lost' = lost
  PROVE  HealthKnown(plan', rec', saved'.rec, slack', lost' \cup overtaken') /\ plan'.op = plan.op
<1>1. PICK r : r = Health!Recompute(rec, c)
  OBVIOUS
<1>2. /\ Health!Persist(r, c)
      /\ plan' = IF plan.op = "post" /\ plan.gen = rec.fence /\ r.state = "healthy"
                 THEN [plan EXCEPT !.closed = TRUE] ELSE plan
      /\ overtaken' = overtaken \cup
           {m \in {rec.root} \ {0} : r.outage > rec.outage /\ rec.delivery = "recovery_pending"}
  BY <1>1 DEF Health!Observe, Health!NoRoot
<1>3. rec \in HealthRows /\ plan \in HealthPlans
  BY DEF HealthKnown, HealthBook
<1>4. HealthMoved(rec, r)
  BY <1>1, <1>3, HealthRecomputes
<1>5. HealthClosed(plan, rec, r, plan')
  BY <1>2 DEF HealthClosed
<1>6. PICK g : g = lost' \cup overtaken'
  OBVIOUS
<1>7. /\ lost \cup overtaken \subseteq g
      /\ r.outage > rec.outage /\ rec.delivery = "recovery_pending" /\ rec.root # 0 => rec.root \in g
  BY <1>2, <1>6
<1>8. HealthKnown(plan', r, saved.rec, slack, g)
  BY <1>4, <1>5, <1>7, HealthMoves, Zenon
<1>9. HealthKnown(plan', rec', saved'.rec, slack, g)
  BY <1>2, <1>8, HealthPersists, Zenon
<1>10. plan'.op = plan.op
  BY <1>3, <1>5, HealthCloses, Zenon
<1> QED BY <1>6, <1>9, <1>10

\* Nothing the invariant reads moves.
LEMMA HealthKeeps ==
  ASSUME HealthInv, UNCHANGED <<rec, saved, plan, slack, lost, overtaken>>, runner' = "out" => runner = "out",
         runner = "out" => runner' = "out"
  PROVE  HealthInv'
BY DEF HealthInv

LEMMA HealthProducer == ASSUME HealthInv, Health!Producer PROVE HealthInv'
<1>1. PICK c \in Health!Shared, s \in Subjects : Health!Begin(c, s) \/ Health!FinishIgnored(c, s) \/ Health!Finish(c, s)
  BY Zenon DEF Health!Producer
<1>2. CASE Health!Begin(c, s)
  BY <1>2, HealthKeeps DEF Health!Begin
<1>3. CASE Health!FinishIgnored(c, s)
  BY <1>3, HealthKeeps DEF Health!FinishIgnored
<1>4. CASE Health!Finish(c, s)
  <2>1. PICK o : Health!Observe(o)
    BY <1>4 DEF Health!Finish
  <2>2. slack' = slack /\ lost' = lost /\ runner' = runner
    BY <1>4 DEF Health!Finish
  <2>3. HealthKnown(plan', rec', saved'.rec, slack', lost' \cup overtaken') /\ plan'.op = plan.op
    BY <2>1, <2>2, HealthObserves DEF HealthInv
  <2> QED BY <2>2, <2>3 DEF HealthInv
<1> QED BY <1>1, <1>2, <1>3, <1>4

LEMMA HealthProbes == ASSUME HealthInv, Health!ObserveProbe PROVE HealthInv'
<1>1. PICK o : Health!Observe(o)
  BY DEF Health!ObserveProbe
<1>2. slack' = slack /\ lost' = lost /\ runner = "probing" /\ runner' = "idle"
  BY DEF Health!ObserveProbe
<1>3. HealthKnown(plan', rec', saved'.rec, slack', lost' \cup overtaken') /\ plan'.op = plan.op
  BY <1>1, <1>2, HealthObserves DEF HealthInv
<1> QED BY <1>2, <1>3 DEF HealthInv

LEMMA HealthDelivers == ASSUME HealthInv, Health!Deliver PROVE HealthInv'
<1>1. /\ runner = "idle" /\ slack' = slack /\ lost' = lost /\ overtaken' = overtaken
      /\ runner' = IF plan'.op = "none" THEN Health!AfterCall ELSE "out"
  BY DEF Health!Deliver
<1>2. plan.op = "none" /\ HealthKnown(plan, rec, saved.rec, slack, lost \cup overtaken)
  BY <1>1 DEF HealthInv
<1>3. PICK g : g = lost \cup overtaken
  OBVIOUS
<1>4. Health!AfterCall # "out"
  BY DEF Health!AfterCall, Health!AfterEdits
<1>5. runner' # "out" <=> plan'.op = "none"
  BY <1>1, <1>4
<1>6. CASE Health!PlanPost
  <2>1. /\ rec.state # "healthy" /\ rec.delivery \in {"none", "pending"}
        /\ rec' = [rec EXCEPT !.delivery = "indeterminate"] /\ saved'.rec = rec'
        /\ plan' = [op |-> "post", outage |-> rec.outage, gen |-> rec.fence, state |-> rec.state, root |-> rec.root,
                    closed |-> FALSE, answer |-> "none"]
    BY <1>6 DEF Health!PlanPost, Health!PostDue, Health!Send
  <2>2. HealthKnown(plan', rec', rec', slack, g)
    BY <1>2, <1>3, <2>1, HealthPosts, Zenon
  <2> QED BY <1>1, <1>3, <1>5, <2>1, <2>2 DEF HealthInv
<1>7. CASE Health!PlanPostFails \/ Health!PlanNothing
  <2>1. UNCHANGED <<rec, saved, plan>>
    BY <1>7 DEF Health!PlanPostFails, Health!PlanNothing
  <2> QED BY <1>1, <1>2, <1>5, <2>1 DEF HealthInv
<1>8. CASE Health!PlanEdit
  <2>1. PICK o \in {"edit", "recover"} : Health!Send(o)
    BY <1>8 DEF Health!PlanEdit
  <2>2. rec.delivery \in {"delivered", "recovery_pending"} /\ rec' = rec /\ saved' = saved
    BY <1>8 DEF Health!PlanEdit, Health!EditDue, Health!RecoveryDue
  <2>3. plan' = [op |-> o, outage |-> rec.outage, gen |-> rec.fence, state |-> rec.state, root |-> rec.root,
                 closed |-> FALSE, answer |-> "none"]
    BY <2>1, Zenon DEF Health!Send
  <2>4. HealthKnown(plan', rec, saved.rec, slack, g)
    BY <1>2, <1>3, <2>1, <2>2, <2>3, HealthSends, Zenon
  <2> QED BY <1>1, <1>3, <1>5, <2>2, <2>4 DEF HealthInv
<1> QED BY <1>6, <1>7, <1>8 DEF Health!Deliver

LEMMA HealthSlack == ASSUME HealthInv, Health!SlackAnswers PROVE HealthInv'
<1>1. /\ runner = "out" /\ runner' = runner /\ rec' = rec /\ saved' = saved /\ overtaken' = overtaken
      /\ plan.answer = "none"
  BY DEF Health!SlackAnswers, Health!SlackLands, Health!SlackUnheard, Health!SlackRefuses
<1>2. PICK g : g = lost \cup overtaken
  OBVIOUS
<1>3. HealthKnown(plan, rec, saved.rec, slack, g) /\ plan \in HealthPlans
  BY <1>2 DEF HealthInv, HealthKnown
<1> SUFFICES HealthKnown(plan', rec, saved.rec, slack', lost' \cup overtaken)
  <2>1. plan'.op = plan.op
    BY <1>3 DEF Health!SlackAnswers, Health!SlackLands, Health!SlackUnheard, Health!SlackRefuses, HealthPlans
  <2> QED BY <1>1, <2>1 DEF HealthInv
<1>4. ASSUME plan' = [plan EXCEPT !.answer = "refused"] \/ plan' = [plan EXCEPT !.answer = "unknown"], slack' = slack, lost' = lost
      PROVE  HealthKnown(plan', rec, saved.rec, slack', lost' \cup overtaken)
  <2>1. PICK a \in {"refused", "unknown"} : plan' = [plan EXCEPT !.answer = a]
    BY <1>4
  <2>2. HealthKnown(plan', rec, saved.rec, slack, g)
    BY <1>1, <1>3, <2>1, HealthRefused, Zenon
  <2> QED BY <1>2, <1>4, <2>2
<1>5. ASSUME slack' = Health!Accepted(plan), plan.op = "post",
             \/ plan' = [plan EXCEPT !.answer = "ok", !.root = Len(slack) + 1] /\ lost' = lost
             \/ plan' = [plan EXCEPT !.answer = "unknown"] /\ lost' = lost \cup {Len(slack) + 1}
      PROVE  HealthKnown(plan', rec, saved.rec, slack', lost' \cup overtaken)
  <2>1. slack' = Append(slack, [outage |-> plan.outage, shows |-> plan.state])
    BY <1>5 DEF Health!Accepted
  <2>2. PICK h : h = lost' \cup overtaken
    OBVIOUS
  <2>3. \/ plan' = [plan EXCEPT !.answer = "ok", !.root = Len(slack) + 1] /\ h = g
        \/ plan' = [plan EXCEPT !.answer = "unknown"] /\ h = g \cup {Len(slack) + 1}
    <3>1. lost' = lost => h = g
      BY <1>2, <2>2
    <3>2. lost' = lost \cup {Len(slack) + 1} => h = g \cup {Len(slack) + 1}
      BY <1>2, <2>2
    <3> QED BY <1>5, <3>1, <3>2, Zenon
  <2>4. HealthKnown(plan', rec, saved.rec, slack', h)
    BY <1>1, <1>3, <1>5, <2>1, <2>3, HealthLands, Zenon
  <2> QED BY <2>2, <2>4
<1>6. ASSUME slack' = Health!Accepted(plan), plan.op # "post", lost' = lost, NEW a \in {"ok", "unknown"},
             plan' = [plan EXCEPT !.answer = a] \/ plan' = [plan EXCEPT !.answer = a, !.root = plan.root]
      PROVE  HealthKnown(plan', rec, saved.rec, slack', lost' \cup overtaken)
  <2>1. slack' = [slack EXCEPT ![plan.root].shows = Health!Shows(plan)]
    BY <1>6 DEF Health!Accepted
  <2>2. PICK x : x = (IF plan.op = "recover" THEN "recovered" ELSE plan.state)
    OBVIOUS
  <2>3. slack' = [slack EXCEPT ![plan.root].shows = x]
    BY <2>1, <2>2 DEF Health!Shows
  <2>4. plan.op \in {"edit", "recover"}
    BY <1>1, <1>3, <1>6 DEF HealthInv, HealthPlans
  <2>5. HealthShows(plan, slack, x, slack') /\ HealthHeard(plan, a, plan')
    BY <1>6, <2>2, <2>3, Zenon DEF HealthShows, HealthHeard
  <2>6. HealthKnown(plan', rec, saved.rec, slack', g)
    BY <1>3, <1>6, <2>4, <2>5, HealthRewritten, Zenon
  <2> QED BY <1>2, <1>6, <2>6
<1>7. CASE Health!SlackLands
  <2>1. slack' = Health!Accepted(plan) /\ lost' = lost /\ plan' = [plan EXCEPT !.answer = "ok", !.root = Health!Posted(plan)]
    BY <1>7 DEF Health!SlackLands
  <2>2. CASE plan.op = "post"
    BY <1>5, <2>1, <2>2 DEF Health!Posted
  <2>3. CASE plan.op # "post"
    BY <1>6, <2>1, <2>3 DEF Health!Posted
  <2> QED BY <2>2, <2>3
<1>8. CASE Health!SlackUnheard
  <2>1. plan' = [plan EXCEPT !.answer = "unknown"]
    BY <1>8 DEF Health!SlackUnheard
  <2>2. CASE slack' = slack /\ lost' = lost
    BY <1>4, <2>1, <2>2
  <2>3. CASE slack' = Health!Accepted(plan) /\ lost' = IF plan.op = "post" THEN lost \cup {Health!Posted(plan)} ELSE lost
    <3>1. CASE plan.op = "post"
      BY <1>5, <2>1, <2>3, <3>1 DEF Health!Posted
    <3>2. CASE plan.op # "post"
      BY <1>6, <2>1, <2>3, <3>2
    <3> QED BY <3>1, <3>2
  <2> QED BY <1>8, <2>2, <2>3 DEF Health!SlackUnheard
<1>9. CASE Health!SlackRefuses
  BY <1>4, <1>9 DEF Health!SlackRefuses
<1> QED BY <1>7, <1>8, <1>9 DEF Health!SlackAnswers

LEMMA HealthAppliesResult == ASSUME HealthInv, Health!ApplyDeliveryResult PROVE HealthInv'
<1>1. /\ runner = "out" /\ plan' = Health!NoPlan /\ slack' = slack /\ lost' = lost /\ overtaken' = overtaken
      /\ runner' = Health!AfterCall
  BY DEF Health!ApplyDeliveryResult
<1>2. PICK g : g = lost \cup overtaken
  OBVIOUS
<1>3. PICK n : n = Health!Applied(rec, plan)
  OBVIOUS
<1>4. Health!Persist(n, caps)
  BY <1>3 DEF Health!ApplyDeliveryResult
<1>5. HealthKnown(plan, rec, saved.rec, slack, g)
  BY <1>2 DEF HealthInv
<1>6. HealthAnswered(plan, rec, n)
  BY <1>3, <1>5, HealthApplied, Zenon
<1>7. plan' \in HealthPlans /\ plan'.op = "none"
  BY <1>1, HealthNone
<1>8. HealthKnown(plan', n, saved.rec, slack, g)
  BY <1>5, <1>6, <1>7, HealthApplies, Zenon
<1>9. HealthKnown(plan', rec', saved'.rec, slack, g)
  BY <1>4, <1>8, HealthPersists, Zenon
<1>10. runner' # "out"
  BY <1>1 DEF Health!AfterCall, Health!AfterEdits
<1> QED BY <1>1, <1>2, <1>7, <1>9, <1>10 DEF HealthInv

\* The instance counts and lists as the library does.
LEMMA HealthCounts ==
  ASSUME NEW S
  PROVE  Health!Cardinality(S) = Cardinality(S) /\ Health!ToSet(S) = {S[a] : a \in DOMAIN S}
<1>1. Health!Cardinality(S) = Cardinality(S)
  BY Zenon DEF Health!Cardinality, Cardinality
<1>2. Health!ToSet(S) = {S[a] : a \in DOMAIN S}
  BY Zenon DEF Health!ToSet
<1> QED BY <1>1, <1>2

\* The entries of a queue are finitely many.
LEMMA HealthFinite ==
  ASSUME NEW s \in Seq(Nat), NEW S, S \subseteq {s[a] : a \in DOMAIN s}
  PROVE  IsFiniteSet(S) /\ S \subseteq Nat /\ Cardinality(S) \in Nat
<1> DEFINE T == {s[a] : a \in DOMAIN s}
<1>1. Len(s) \in Nat /\ DOMAIN s = 1 .. Len(s) /\ s \in [1 .. Len(s) -> Nat]
  OBVIOUS
<1>2. T \subseteq Nat
  BY <1>1
<1>3. s \in [DOMAIN s -> T]
  BY <1>1
<1>4. s \in Surjection(DOMAIN s, T)
  BY <1>3 DEF Surjection
<1>5. IsFiniteSet(DOMAIN s)
  BY <1>1, FS_Interval
<1>6. IsFiniteSet(T)
  BY <1>4, <1>5, FS_Surjection
<1>7. IsFiniteSet(S)
  BY <1>6, FS_Subset
<1> QED BY <1>2, <1>7, FS_CardinalityType

\* The queue l cut behind its first i entries.
HealthCut(l, i, first, rest) ==
  /\ first \in Seq(Nat) /\ Len(first) = i /\ \A a \in 1 .. i : first[a] = l[a]
  /\ rest \in Seq(Nat) /\ Len(rest) = Len(l) - i /\ \A a \in 1 .. Len(l) - i : rest[a] = l[i + a]

LEMMA HealthCuts ==
  ASSUME NEW l \in HealthQueues, NEW i \in 1 .. Len(l)
  PROVE  HealthCut(l, i, SubSeq(l, 1, i), SubSeq(l, i + 1, Len(l)))
<1>1. PICK n : n = Len(l)
  OBVIOUS
<1>2. PICK m : m = i + 1
  OBVIOUS
<1>3. n \in Nat /\ i \in Nat /\ 1 <= i /\ i <= n /\ m \in Nat /\ \A a \in 1 .. n : l[a] \in Nat
  BY <1>1, <1>2 DEF HealthQueues
<1>4. SubSeq(l, 1, i) \in Seq(Nat) /\ Len(SubSeq(l, 1, i)) = i /\ \A a \in 1 .. i : SubSeq(l, 1, i)[a] = l[a]
  <2>1. 1 \in Int /\ i \in Int /\ \A a \in 1 .. i : l[a] \in Nat
    BY <1>3
  <2>2. /\ SubSeq(l, 1, i) \in Seq(Nat) /\ Len(SubSeq(l, 1, i)) = (IF 1 <= i THEN i - 1 + 1 ELSE 0)
        /\ \A a \in 1 .. i - 1 + 1 : SubSeq(l, 1, i)[a] = l[1 + a - 1]
    BY <2>1, SubSeqProperties
  <2>3. i - 1 + 1 = i /\ \A a \in 1 .. i : 1 + a - 1 = a
    BY <1>3
  <2> QED BY <1>3, <2>2, <2>3
<1>5. /\ SubSeq(l, m, n) \in Seq(Nat) /\ Len(SubSeq(l, m, n)) = n - i
      /\ \A a \in 1 .. n - i : SubSeq(l, m, n)[a] = l[i + a]
  <2>1. m \in Int /\ n \in Int /\ \A a \in m .. n : l[a] \in Nat
    BY <1>2, <1>3
  <2>2. /\ SubSeq(l, m, n) \in Seq(Nat) /\ Len(SubSeq(l, m, n)) = (IF m <= n THEN n - m + 1 ELSE 0)
        /\ \A a \in 1 .. n - m + 1 : SubSeq(l, m, n)[a] = l[m + a - 1]
    BY <2>1, SubSeqProperties
  <2>3. /\ n - m + 1 = n - i /\ (IF m <= n THEN n - m + 1 ELSE 0) = n - i
        /\ \A a \in 1 .. n - i : m + a - 1 = i + a
    BY <1>2, <1>3
  <2> QED BY <2>2, <2>3
<1> QED BY <1>1, <1>2, <1>4, <1>5 DEF HealthCut

\* The queue as a pass over its first entries leaves it: the rest, then what was tried and failed.
LEMMA HealthRejoins ==
  ASSUME NEW l \in HealthQueues, NEW i \in 1 .. Len(l), NEW landed, NEW first, NEW rest, HealthCut(l, i, first, rest),
         NEW f \in Health!InOrder(Health!ToSet(first) \ landed, first), NEW k, k = rest \o f
  PROVE  HealthKept(l, landed, k)
<1>1. PICK n : n = Len(l)
  OBVIOUS
<1>2. PICK e : e = n - i
  OBVIOUS
<1>3. n \in Nat /\ DOMAIN l = 1 .. n /\ i \in Nat /\ i <= n /\ e \in Nat
  BY <1>1, <1>2 DEF HealthQueues
<1>4. first \in Seq(Nat) /\ Len(first) = i /\ (\A a \in 1 .. i : first[a] = l[a])
  BY DEF HealthCut
<1>5. rest \in Seq(Nat) /\ Len(rest) = e /\ \A a \in 1 .. e : rest[a] = l[i + a]
  BY <1>1, <1>2 DEF HealthCut
<1>6. DOMAIN first = 1 .. i
  BY <1>4
<1>7. Health!ToSet(first) = {first[a] : a \in DOMAIN first}
  BY HealthCounts, Zenon
<1>8. PICK S : S = Health!ToSet(first) \ landed
  OBVIOUS
<1>9. S \subseteq Nat /\ Cardinality(S) \in Nat
  BY <1>4, <1>7, <1>8, HealthFinite
<1>10. PICK d : d = Cardinality(S)
  OBVIOUS
<1>11. f \in [1 .. d -> S] /\ Health!ToSet(f) = S
  <2>1. f \in Health!InOrder(S, first)
    BY <1>8
  <2>2. f \in [1 .. Health!Cardinality(S) -> S] /\ Health!ToSet(f) = S
    BY <2>1, Zenon DEF Health!InOrder
  <2> QED BY <1>10, <2>2, HealthCounts, Zenon
<1>12. f \in Seq(Nat) /\ Len(f) = d /\ DOMAIN f = 1 .. d /\ d \in Nat
  <2>1. d \in Nat /\ f \in [1 .. d -> Nat]
    BY <1>9, <1>10, <1>11
  <2> QED BY <2>1
<1>13. Health!ToSet(f) = {f[a] : a \in DOMAIN f}
  BY HealthCounts, Zenon
<1>14. /\ k \in Seq(Nat) /\ Len(k) = e + d
       /\ \A a \in 1 .. e + d : k[a] = IF a <= e THEN rest[a] ELSE f[a - e]
  <2>1. /\ rest \o f \in Seq(Nat) /\ Len(rest \o f) = Len(rest) + Len(f)
        /\ \A a \in 1 .. Len(rest) + Len(f) : (rest \o f)[a] = IF a <= Len(rest) THEN rest[a] ELSE f[a - Len(rest)]
    BY <1>5, <1>12, ConcatProperties, Zenon
  <2>2. Len(rest) = e /\ Len(f) = d
    BY <1>5, <1>12
  <2> QED BY <2>1, <2>2, Zenon
<1>15. DOMAIN k = 1 .. e + d
  BY <1>14
<1>16. ASSUME NEW a \in DOMAIN l, l[a] \notin landed PROVE \E b \in DOMAIN k : k[b] = l[a]
  <2>1. CASE a \in 1 .. i
    <3>1. l[a] \in S
      BY <1>4, <1>6, <1>7, <1>8, <1>16, <2>1
    <3>2. PICK b \in 1 .. d : f[b] = l[a]
      BY <1>11, <1>12, <1>13, <3>1
    <3>3. PICK c : c = e + b
      OBVIOUS
    <3>4. c \in 1 .. e + d /\ ~(c <= e) /\ c - e = b
      BY <1>3, <1>12, <3>3
    <3>5. k[c] = f[b]
      BY <1>14, <3>4
    <3> QED BY <1>15, <3>2, <3>4, <3>5, Zenon
  <2>2. CASE a \notin 1 .. i
    <3>1. PICK b \in 1 .. e : a = i + b
      <4>1. a - i \in 1 .. e /\ a = i + (a - i)
        BY <1>2, <1>3, <2>2
      <4> QED BY <4>1
    <3>2. b \in 1 .. e + d /\ b <= e
      BY <1>3, <1>12
    <3>3. k[b] = rest[b]
      BY <1>14, <3>2
    <3>4. rest[b] = l[a]
      BY <1>5, <3>1
    <3> QED BY <1>15, <3>2, <3>3, <3>4, Zenon
  <2> QED BY <2>1, <2>2
<1>17. k \in HealthQueues
  BY <1>14 DEF HealthQueues
<1> QED BY <1>16, <1>17 DEF HealthKept

LEMMA HealthEditsLate == ASSUME HealthInv, Health!EditLateRoots PROVE HealthInv'
<1>1. /\ runner = "late" /\ runner' = Health!AfterEdits /\ plan' = plan /\ lost' = lost /\ overtaken' = overtaken
  BY DEF Health!EditLateRoots
<1>2. PICK tried \in 1 .. Len(rec.late) : \E landed \in SUBSET Health!ToSet(SubSeq(rec.late, 1, tried)) :
        LET first == SubSeq(rec.late, 1, tried)
        IN  /\ \E failed \in Health!InOrder(Health!ToSet(first) \ landed, first) :
                 Health!Persist([rec EXCEPT !.late = SubSeq(rec.late, tried + 1, Len(rec.late)) \o failed], caps)
            /\ slack' = [m \in DOMAIN slack |-> IF m \in landed THEN [slack[m] EXCEPT !.shows = "recovered"]
                                                ELSE slack[m]]
  BY Zenon DEF Health!EditLateRoots
<1>3. PICK landed \in SUBSET Health!ToSet(SubSeq(rec.late, 1, tried)) :
        /\ \E failed \in Health!InOrder(Health!ToSet(SubSeq(rec.late, 1, tried)) \ landed, SubSeq(rec.late, 1, tried)) :
             Health!Persist([rec EXCEPT !.late = SubSeq(rec.late, tried + 1, Len(rec.late)) \o failed], caps)
        /\ slack' = [m \in DOMAIN slack |-> IF m \in landed THEN [slack[m] EXCEPT !.shows = "recovered"]
                                            ELSE slack[m]]
  BY <1>2, Zenon
<1>4. PICK failed \in Health!InOrder(Health!ToSet(SubSeq(rec.late, 1, tried)) \ landed, SubSeq(rec.late, 1, tried)) :
        Health!Persist([rec EXCEPT !.late = SubSeq(rec.late, tried + 1, Len(rec.late)) \o failed], caps)
  BY <1>3, Zenon
<1>5. PICK k : k = SubSeq(rec.late, tried + 1, Len(rec.late)) \o failed
  OBVIOUS
<1>6. PICK n : n = [rec EXCEPT !.late = k]
  OBVIOUS
<1>7. PICK g : g = lost \cup overtaken
  OBVIOUS
<1>8. HealthKnown(plan, rec, saved.rec, slack, g) /\ plan.op = "none"
  BY <1>1, <1>7 DEF HealthInv
<1>9. rec.late \in HealthQueues
  <2>1. rec \in HealthRows
    BY <1>8 DEF HealthKnown, HealthBook
  <2> QED BY <2>1, HealthFields
<1>10. HealthKept(rec.late, landed, k)
  <2>1. HealthCut(rec.late, tried, SubSeq(rec.late, 1, tried), SubSeq(rec.late, tried + 1, Len(rec.late)))
    BY <1>9, HealthCuts, Zenon
  <2> QED BY <1>5, <1>9, <2>1, HealthRejoins, Zenon
<1>11. HealthKnown(plan, n, saved.rec, slack', g)
  <2>1. HealthClosing(slack, landed, slack')
    BY <1>3, Zenon DEF HealthClosing
  <2> QED BY <1>6, <1>8, <1>10, <2>1, HealthLate, Zenon
<1>12. Health!Persist(n, caps)
  BY <1>4, <1>5, <1>6
<1>13. HealthKnown(plan, rec', saved'.rec, slack', g)
  BY <1>11, <1>12, HealthPersists, Zenon
<1>14. runner' # "out"
  BY <1>1 DEF Health!AfterEdits
<1> QED BY <1>1, <1>7, <1>8, <1>13, <1>14 DEF HealthInv

LEMMA HealthRestartsAnew == ASSUME HealthInv, Health!Restart PROVE HealthInv'
<1>1. /\ rec' = saved.rec /\ saved' = saved /\ plan' = Health!NoPlan /\ slack' = slack /\ overtaken' = overtaken
      /\ runner' = "idle"
      /\ lost' = lost \cup {m \in DOMAIN slack : slack[m].shows # "recovered" /\ m # saved.rec.root /\ m \notin Health!ToSet(saved.rec.late)}
  BY DEF Health!Restart
<1>2. PICK g : g = lost \cup overtaken
  OBVIOUS
<1>3. PICK h : h = lost' \cup overtaken'
  OBVIOUS
<1>4. HealthKnown(plan, rec, saved.rec, slack, g)
  BY <1>2 DEF HealthInv
<1>5. plan' \in HealthPlans /\ plan'.op = "none"
  BY <1>1, HealthNone
<1>6. g \subseteq h
  BY <1>1, <1>2, <1>3
<1>7. ASSUME NEW m \in DOMAIN slack, slack[m].shows # "recovered", m # saved.rec.root,
             ~ \E k \in DOMAIN saved.rec.late : saved.rec.late[k] = m
      PROVE  m \in h
  <2>1. m \notin Health!ToSet(saved.rec.late)
    BY <1>7, HealthCounts
  <2> QED BY <1>1, <1>3, <1>7, <2>1
<1>8. HealthKnown(plan', saved.rec, saved.rec, slack, h)
  BY <1>4, <1>5, <1>6, <1>7, HealthRestarts
<1> QED BY <1>1, <1>3, <1>5, <1>8 DEF HealthInv

LEMMA HealthStep == HealthInv /\ [Health!Next]_(Health!vars) => HealthInv'
<1> SUFFICES ASSUME HealthInv, [Health!Next]_(Health!vars) PROVE HealthInv'
  OBVIOUS
<1>1. CASE Health!Producer
  BY <1>1, HealthProducer
<1>2. CASE Health!Sustain \/ Health!Seal
  BY <1>2, HealthKeeps DEF Health!Sustain, Health!Seal
<1>3. CASE Health!Deliver
  BY <1>3, HealthDelivers
<1>4. CASE Health!ApplyDeliveryResult
  BY <1>4, HealthAppliesResult
<1>5. CASE Health!EditLateRoots
  BY <1>5, HealthEditsLate
<1>6. CASE Health!ProbeDue
  BY <1>6, HealthKeeps DEF Health!ProbeDue
<1>7. CASE Health!ObserveProbe
  BY <1>7, HealthProbes
<1>8. CASE Health!SlackAnswers
  BY <1>8, HealthSlack
<1>9. CASE Health!Restart
  BY <1>9, HealthRestartsAnew
<1>10. CASE UNCHANGED Health!vars
  BY <1>10, HealthKeeps DEF Health!vars
<1> QED
  BY <1>1, <1>2, <1>3, <1>4, <1>5, <1>6, <1>7, <1>8, <1>9, <1>10 DEF Health!Next, Health!Runner

\* The invariant says what is to be reported.
LEMMA HealthTold == HealthInv => OutagesAreReported
<1> SUFFICES ASSUME HealthInv PROVE OutagesAreReported
  OBVIOUS
<1>1. HealthKnown(plan, rec, saved.rec, slack, lost \cup overtaken)
  BY DEF HealthInv
<1>2. Health!OneMessagePerOutage
  BY <1>1 DEF HealthKnown, Health!OneMessagePerOutage
<1>3. Health!MessageIsItsOutages
  BY <1>1 DEF HealthKnown, HealthBook, Health!MessageIsItsOutages, Health!NoRoot
<1>4. ASSUME NEW m \in DOMAIN slack
      PROVE  Health!Recovered(m) \/ Health!Tracked(m) \/ m \in lost \/ m \in overtaken
  <2>1. HealthTracked(m, plan, rec, slack, lost \cup overtaken)
    BY <1>1 DEF HealthKnown
  <2>2. (\E k \in DOMAIN rec.late : rec.late[k] = m) => m \in Health!ToSet(rec.late)
    BY HealthCounts
  <2> QED BY <2>1, <2>2 DEF HealthTracked, Health!Recovered, Health!Tracked
<1> QED BY <1>2, <1>3, <1>4 DEF OutagesAreReported, Health!OutagesAreReported, Health!OutagesAreTracked

\* The outage on Slack is the outage on record: one message for each outage, the message on
\* record the current outage's own, and no message that still shows an outage forgotten, over
\* lost answers, failed saves, late answers and restarts (planDelivery, applyDeliveryResult,
\* adoptStaleRoot, editLateRoots).
THEOREM HealthReports == Health!Spec => []OutagesAreReported
<1>1. Health!Init => HealthInv
  BY HealthInit
<1>2. HealthInv /\ [Health!Next]_(Health!vars) => HealthInv'
  BY HealthStep
<1>3. HealthInv => OutagesAreReported
  BY HealthTold
<1> QED BY <1>1, <1>2, <1>3, PTL DEF Health!Spec
=============================================================================
