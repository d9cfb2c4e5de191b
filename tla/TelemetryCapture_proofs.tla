------------------------ MODULE TelemetryCapture_proofs ------------------------
(***************************************************************************)
(* Theorems about TelemetryCapture and the WeightFilter and WifiMonitor in *)
(* it, for any intervals, window, deadband and readings.                   *)
(***************************************************************************)
EXTENDS TelemetryCapture, FiniteSetTheorems, WellFoundedInduction, TLAPS

(* Something lies between two members of S.                                *)
Between(S, x) == \E lo, hi \in S : lo <= x /\ x <= hi
Spread(V) == V \cup (IF \E v \in V : NearZero(v) THEN {0} ELSE {})

(* The last capture is at most this long ago.                              *)
Since == IF pc = "work" THEN Longer(Interval, Work) + loopFor ELSE loopFor

Loop == pc = "work" => loopFor <= Work

(* A packet was sent within the interval in force when it was last decided.*)
SentInTime == sentFor <= Current + Since

(* Standing, no capture confirms a movement, and the next one sees it.     *)
StillUnconfirmed ==
  SleepEnabled /\ ~moving => confirmedFor >= changeFor \/ confirmedFor >= IdleAfter
AwakeForAReason ==
  SleepEnabled /\ ~asleep => /\ ~moving => changeFor < IdleAfter + Since
                             /\ pc # "work" => IdleAfter > 0

(* Moving, the first capture takes up the candidate, and the one after the *)
(* time of confirmation confirms it.                                       *)
CandidateTaken ==
  SleepEnabled /\ moving =>
    \/ candidateFor = None /\ changeFor <= Since
    \/ candidateFor # None /\ (candidateFor >= Confirm \/ candidateFor + Gap >= changeFor)
MovementConfirmed ==
  SleepEnabled /\ moving /\ changeFor >= Confirm + Gap + Since =>
    confirmedFor <= Since /\ (asleep => IdleAfter = 0)
ConfirmedSoon == SleepEnabled => confirmedFor <= drivenFor + Gap
Unslept       == ~SleepEnabled => ~asleep

ListFollowsStamp == stampAge <= WifiMaxAge => listAge <= stampAge + CmdTimeout

(* What the filter has settled on lies between readings, too.              *)
FilterIsOfNow ==
  filtered # NoWeight => \E lo, hi \in Shown : lo <= filtered /\ filtered <= hi

IInv == /\ TypeOK /\ Loop /\ SentInTime /\ StillUnconfirmed /\ AwakeForAReason
        /\ CandidateTaken /\ MovementConfirmed /\ ConfirmedSoon /\ Unslept /\ DrivenIsAwake
        /\ ListFollowsStamp /\ FilterIsOfNow
-----------------------------------------------------------------------------
(* Order statistics: the largest and the smallest of some places of a      *)
(* sequence, and the value of each rank, exist.                            *)
LEMMA LargestExists ==
  ASSUME NEW n \in Nat, NEW s \in [1..n -> Int], NEW T \in SUBSET (1..n), T # {}
  PROVE  \E m \in T : \A i \in T : s[i] <= s[m]
<1> DEFINE Above(j) == {i \in T : s[j] < s[i]}
           All      == {Above(j) : j \in T}
<1>1. IsFiniteSet(1..n) /\ IsFiniteSet(T)
  BY FS_Interval, FS_Subset, 1 \in Int, n \in Int
<1>2. All \subseteq FiniteSubsetsOf(T) /\ All # {}
  <2>1. ASSUME NEW j \in T
        PROVE  Above(j) \in SUBSET T /\ IsFiniteSet(Above(j))
    BY <1>1, FS_Subset
  <2> QED
    BY <2>1 DEF FiniteSubsetsOf
<1>3. PICK A \in All : \A B \in All : ~ (<<B, A>> \in StrictSubsetOrdering(T))
  <2> HIDE DEF All
  <2>1. IsWellFoundedOn(StrictSubsetOrdering(T), FiniteSubsetsOf(T))
    BY FS_StrictSubsetOrderingWellFounded
  <2> QED
    BY <1>2, <2>1, WFMin
<1>4. PICK m \in T : A = Above(m)
  BY <1>3
<1>5. ASSUME NEW i \in T, ~ (s[i] <= s[m])
      PROVE  FALSE
  <2>1. s[m] < s[i] /\ s[i] \in Int /\ s[m] \in Int
    BY <1>5
  <2>2. \A j \in T : s[i] < s[j] => s[m] < s[j]
    BY <2>1
  <2>3. ~ (s[i] < s[i])
    BY <2>1
  <2>4. Above(i) \subseteq Above(m) /\ i \in Above(m) /\ i \notin Above(i)
    BY <2>1, <2>2, <2>3
  <2>5. <<Above(i), A>> \in StrictSubsetOrdering(T)
    BY <1>4, <2>4 DEF StrictSubsetOrdering
  <2> QED
    BY <1>3, <2>5
<1> QED
  BY <1>4, <1>5

LEMMA LeastExists ==
  ASSUME NEW n \in Nat, NEW s \in [1..n -> Int], NEW T \in SUBSET (1..n), T # {}
  PROVE  \E m \in T : \A i \in T : s[m] <= s[i]
<1> DEFINE r == [i \in 1..n |-> -s[i]]
<1>1. r \in [1..n -> Int]
  OBVIOUS
<1>2. PICK m \in T : \A i \in T : r[i] <= r[m]
  <2> HIDE DEF r
  <2> QED
    BY <1>1, LargestExists
<1>3. ASSUME NEW i \in T
      PROVE  s[m] <= s[i]
  <2>1. s[i] \in Int /\ s[m] \in Int /\ -s[i] <= -s[m]
    BY <1>2
  <2> QED
    BY <2>1
<1> QED
  BY <1>3

LEMMA RankExists ==
  ASSUME NEW n \in Nat, NEW s \in [1..n -> Int], NEW k \in 1..n
  PROVE  \E j \in 1..n : /\ Cardinality({i \in 1..n : s[i] < s[j]}) < k
                         /\ Cardinality({i \in 1..n : s[i] <= s[j]}) >= k
<1> DEFINE Below(j) == {i \in 1..n : s[i] < s[j]}
           UpTo(j)  == {i \in 1..n : s[i] <= s[j]}
           Enough   == {j \in 1..n : Cardinality(UpTo(j)) >= k}
<1>1. IsFiniteSet(1..n) /\ Cardinality(1..n) = n
  <2>1. 1 \in Int /\ n \in Int /\ (1 > n => n = 0) /\ n - 1 + 1 = n
    OBVIOUS
  <2> QED
    BY <2>1, FS_Interval
<1>2. \A j \in 1..n : /\ IsFiniteSet(Below(j)) /\ Cardinality(Below(j)) \in Nat
                      /\ IsFiniteSet(UpTo(j)) /\ Cardinality(UpTo(j)) \in Nat
  BY <1>1, FS_Subset, FS_CardinalityType
<1>3. Enough # {}
  <2>1. PICK m \in 1..n : \A i \in 1..n : s[i] <= s[m]
    BY LargestExists
  <2>2. UpTo(m) = 1..n
    BY <2>1
  <2>3. Cardinality(UpTo(m)) = n
    BY <1>1, <2>2
  <2>4. n >= k
    OBVIOUS
  <2>5. m \in Enough
    BY <2>3, <2>4
  <2> QED
    BY <2>5
<1>4. PICK j \in Enough : \A i \in Enough : s[j] <= s[i]
  <2> HIDE DEF Enough
  <2>1. Enough \in SUBSET (1..n)
    BY DEF Enough
  <2> QED
    BY <1>3, <2>1, LeastExists
<1>5. ASSUME Cardinality(Below(j)) >= k
      PROVE  FALSE
  <2>1. Below(j) # {}
    <3>1. Cardinality(Below(j)) # 0
      BY <1>5
    <3> QED
      BY <3>1, FS_EmptySet
  <2>2. PICK q \in Below(j) : \A i \in Below(j) : s[i] <= s[q]
    <3> HIDE DEF Below
    <3>1. Below(j) \in SUBSET (1..n)
      BY DEF Below
    <3> QED
      BY <2>1, <3>1, LargestExists
  <2>3. UpTo(q) = Below(j)
    <3>1. q \in 1..n /\ s[q] < s[j] /\ s[q] \in Int /\ s[j] \in Int
      OBVIOUS
    <3>2. ASSUME NEW i \in 1..n, s[i] <= s[q]
          PROVE  s[i] < s[j]
      BY <3>1, <3>2
    <3> QED
      BY <2>2, <3>1, <3>2
  <2>4. q \in Enough /\ s[q] < s[j] /\ s[q] \in Int /\ s[j] \in Int
    BY <1>5, <2>3
  <2>5. s[j] <= s[q]
    BY <1>4, <2>4
  <2> QED
    BY <2>4, <2>5
<1>6. Cardinality(Below(j)) < k
  <2>1. j \in 1..n /\ k \in Nat
    OBVIOUS
  <2>2. Cardinality(Below(j)) \in Nat
    BY <1>2, <2>1
  <2> HIDE DEF Below
  <2> QED
    BY <1>5, <2>1, <2>2
<1> QED
  BY <1>4, <1>6

LEMMA SmallestType ==
  ASSUME NEW V \in SUBSET Int, NEW s \in Seq(V), NEW k \in 1..Len(s)
  PROVE  Smallest(s, k) \in V
<1>1. s \in [1..Len(s) -> Int] /\ Len(s) \in Nat /\ DOMAIN s = 1..Len(s)
  <2>1. s \in [1..Len(s) -> V] /\ Len(s) \in Nat
    OBVIOUS
  <2> QED
    BY <2>1
<1>2. \A i \in 1..Len(s) : s[i] \in V
  OBVIOUS
<1>3. PICK j \in 1..Len(s) : /\ Cardinality({i \in 1..Len(s) : s[i] < s[j]}) < k
                             /\ Cardinality({i \in 1..Len(s) : s[i] <= s[j]}) >= k
  BY <1>1, RankExists
<1>4. \E v \in {s[i] : i \in DOMAIN s} :
        /\ Cardinality({i \in DOMAIN s : s[i] < v}) < k
        /\ Cardinality({i \in DOMAIN s : s[i] <= v}) >= k
  BY <1>1, <1>3
<1>5. Smallest(s, k) \in {s[i] : i \in DOMAIN s}
  BY <1>4 DEF Smallest
<1> QED
  BY <1>1, <1>2, <1>5

(* The median lies between readings of the window.                         *)
LEMMA MeanBetween ==
  ASSUME NEW a \in Int, NEW b \in Int
  PROVE  /\ (a + b) \div 2 \in Int
         /\ (a <= b => a <= (a + b) \div 2 /\ (a + b) \div 2 <= b)
         /\ (b <= a => b <= (a + b) \div 2 /\ (a + b) \div 2 <= a)
         /\ a <= b \/ b <= a
  OBVIOUS

LEMMA MiddleRanks ==
  ASSUME NEW n \in Nat \ {0}
  PROVE  (n + 1) \div 2 \in 1..n /\ (n + 2) \div 2 \in 1..n
  OBVIOUS

LEMMA MedianBetween ==
  ASSUME NEW V \in SUBSET Int, NEW s \in Seq(V), s # <<>>
  PROVE  Median(s) \in Int /\ Between(V, Median(s))
<1> DEFINE a == Smallest(s, (Len(s) + 1) \div 2)
           b == Smallest(s, (Len(s) + 2) \div 2)
<1>1. Len(s) \in Nat \ {0}
  OBVIOUS
<1>2. a \in V /\ b \in V
  BY <1>1, MiddleRanks, SmallestType
<1>3. Median(s) = (a + b) \div 2
  BY DEF Median
<1> HIDE DEF a, b
<1> QED
  BY <1>2, <1>3, MeanBetween DEF Between
-----------------------------------------------------------------------------
(* The filter between readings.                                            *)
LEMMA PushType ==
  ASSUME NEW V, NEW s \in Seq(V), NEW v \in V, Len(s) <= Window
  PROVE  Push(s, v) \in Seq(V) /\ Push(s, v) # <<>> /\ Len(Push(s, v)) <= Window
<1>1. Window \in Nat \ {0}
  BY WeightAssumption
<1>2. CASE Len(s) < Window
  BY <1>1, <1>2 DEF Push
<1>3. CASE ~ (Len(s) < Window)
  <2>1. s # <<>> /\ Len(s) = Window
    BY <1>1, <1>3
  <2>2. Tail(s) \in Seq(V) /\ Len(Tail(s)) = Window - 1
    BY <2>1
  <2> QED
    BY <1>1, <1>3, <2>2 DEF Push
<1> QED
  BY <1>2, <1>3

LEMMA SpreadType == ASSUME NEW V \in SUBSET Int
                    PROVE  Spread(V) \in SUBSET Int /\ V \subseteq Spread(V)
  BY DEF Spread

LEMMA SpreadGrows == ASSUME NEW V, NEW v
                     PROVE  Spread(V) \subseteq Spread(V \cup {v})
  BY DEF Spread

LEMMA ZeroBetween ==
  ASSUME NEW V \in SUBSET Int, NEW m \in Int, Between(V, m), NearZero(m)
  PROVE  Between(Spread(V), 0)
<1>1. PICK lo \in V, hi \in V : lo <= m /\ m <= hi
  BY DEF Between
<1>2. Deadband \in Nat /\ lo \in Int /\ hi \in Int /\ V \subseteq Spread(V)
  BY WeightAssumption, SpreadType
<1>3. CASE NearZero(lo) \/ NearZero(hi)
  <2>1. 0 \in Spread(V)
    BY <1>1, <1>3 DEF Spread
  <2> QED
    BY <2>1 DEF Between
<1>4. CASE ~ NearZero(lo) /\ ~ NearZero(hi)
  <2>1. lo <= 0 /\ 0 <= hi
    BY <1>1, <1>2, <1>4 DEF NearZero
  <2> QED
    BY <1>1, <1>2, <2>1 DEF Between
<1> QED
  BY <1>3, <1>4

LEMMA SmoothedBetween ==
  ASSUME NEW S \in SUBSET Int, NEW f \in Int \cup {NoWeight}, NEW m \in Int, Between(S, m),
         f # NoWeight => Between(S, f), NEW g \in Smoothed(f, m)
  PROVE  g \in Int /\ Between(S, g)
<1>1. CASE f = NoWeight
  BY <1>1 DEF Smoothed
<1>2. CASE f # NoWeight
  <2>1. PICK lo \in S, hi \in S : lo <= m /\ m <= hi
    BY DEF Between
  <2>2. PICK lo2 \in S, hi2 \in S : lo2 <= f /\ f <= hi2
    BY <1>2 DEF Between
  <2>3. f \in Int /\ lo \in Int /\ hi \in Int /\ lo2 \in Int /\ hi2 \in Int
    BY <1>2
  <2>4. CASE f <= m
    <3>1. g \in f..m
      BY <1>2, <2>4 DEF Smoothed
    <3>2. g \in Int /\ lo2 <= g /\ g <= hi
      BY <2>1, <2>2, <2>3, <3>1
    <3> QED
      BY <3>2 DEF Between
  <2>5. CASE ~ (f <= m)
    <3>1. g \in m..f
      BY <1>2, <2>5 DEF Smoothed
    <3>2. g \in Int /\ lo <= g /\ g <= hi2
      BY <2>1, <2>2, <2>3, <3>1
    <3> QED
      BY <3>2 DEF Between
  <2> QED
    BY <2>4, <2>5
<1> QED
  BY <1>1, <1>2

LEMMA WeightInitInv == WeightInit => WeightTypeOK /\ FilterIsOfNow
  BY WeightAssumption DEF WeightInit, WeightTypeOK, FilterIsOfNow

LEMMA WeightStep == WeightTypeOK /\ FilterIsOfNow /\ ReadWeight => WeightTypeOK' /\ FilterIsOfNow'
<1> SUFFICES ASSUME WeightTypeOK, FilterIsOfNow, ReadWeight
             PROVE  WeightTypeOK' /\ FilterIsOfNow'
  OBVIOUS
<1>0. /\ Readings \subseteq Int /\ NoWeight \notin Int /\ Window \in Nat \ {0}
      /\ valid \in SUBSET Int /\ recent \in Seq(valid) /\ Len(recent) <= Window
      /\ filtered \in Int \cup {NoWeight}
  BY WeightAssumption DEF WeightTypeOK
<1>1. CASE ReadInvalid
  BY <1>0, <1>1 DEF ReadInvalid, AfterInvalid, WeightTypeOK, FilterIsOfNow
<1>2. CASE ReadFails
  BY <1>2 DEF ReadFails, WeightTypeOK, FilterIsOfNow, Shown
<1>3. ASSUME NEW v \in Readings, valid' = valid \cup {v}, recent' = Push(recent, v)
      PROVE  /\ recent' \in Seq(valid') /\ Len(recent') <= Window
             /\ valid' \subseteq Readings /\ valid' \in SUBSET Int /\ v \in valid'
             /\ Median(recent') \in Int /\ Between(valid', Median(recent'))
             /\ Shown' = Spread(valid') /\ Spread(valid') \in SUBSET Int
             /\ valid' \subseteq Spread(valid')
  <2>1. valid' \subseteq Readings /\ valid' \in SUBSET Int /\ v \in valid'
    BY <1>0, <1>3 DEF WeightTypeOK
  <2>2. recent \in Seq(valid')
    BY <1>0, <1>3
  <2>3. recent' \in Seq(valid') /\ recent' # <<>> /\ Len(recent') <= Window
    BY <1>0, <1>3, <2>1, <2>2, PushType
  <2>4. Median(recent') \in Int /\ Between(valid', Median(recent'))
    BY <2>1, <2>3, MedianBetween
  <2>5. Shown' = Spread(valid')
    BY DEF Shown, Spread
  <2> QED
    BY <2>1, <2>3, <2>4, <2>5, SpreadType
<1>4. ASSUME NEW v \in Readings, Reseed(v)
      PROVE  WeightTypeOK' /\ FilterIsOfNow'
  <2>1. /\ valid' = valid \cup {v} /\ recent' = Push(recent, v) /\ weight' = filtered'
        /\ filtered' = v \/ filtered' = Median(recent')
        /\ reseed < 2 /\ reseed' = reseed + 1
    BY <1>4 DEF Reseed
  <2>2. filtered' \in Int /\ Between(Spread(valid'), filtered')
    <3>0. v \in Int /\ v <= v
      BY <1>0
    <3>1. v \in Spread(valid')
      BY <1>3, <2>1
    <3>2. Between(Spread(valid'), v)
      BY <3>0, <3>1 DEF Between
    <3>3. Between(Spread(valid'), Median(recent')) /\ Median(recent') \in Int
      BY <1>3, <2>1 DEF Between
    <3> QED
      BY <2>1, <3>0, <3>2, <3>3
  <2>3. reseed' \in 0..2
    BY <2>1 DEF WeightTypeOK
  <2> QED
    BY <1>3, <2>1, <2>2, <2>3 DEF WeightTypeOK, FilterIsOfNow, Between
<1>5. ASSUME NEW v \in Readings, Filter(v)
      PROVE  WeightTypeOK' /\ FilterIsOfNow'
  <2>1. /\ valid' = valid \cup {v} /\ recent' = Push(recent, v) /\ weight' = filtered'
        /\ reseed' = reseed
    BY <1>5 DEF Filter
  <2>2. PICK f \in Smoothed(filtered, Median(recent')) :
          filtered' = IF NearZero(f) /\ NearZero(Median(recent')) THEN 0 ELSE f
    BY <1>5 DEF Filter
  <2>3. filtered # NoWeight => Between(Spread(valid'), filtered)
    <3>1. filtered # NoWeight => Between(Spread(valid), filtered)
      BY DEF FilterIsOfNow, Shown, Spread, Between
    <3>2. Spread(valid) \subseteq Spread(valid')
      BY <2>1, SpreadGrows
    <3> QED
      BY <3>1, <3>2 DEF Between
  <2>4. Between(Spread(valid'), Median(recent'))
    BY <1>3, <2>1 DEF Between
  <2>5. f \in Int /\ Between(Spread(valid'), f)
    BY <1>0, <1>3, <2>1, <2>2, <2>3, <2>4, SmoothedBetween
  <2>6. NearZero(Median(recent')) => Between(Spread(valid'), 0)
    BY <1>3, <2>1, ZeroBetween
  <2>7. filtered' \in Int /\ Between(Spread(valid'), filtered')
    BY <2>2, <2>5, <2>6
  <2> QED
    BY <1>3, <2>1, <2>7 DEF WeightTypeOK, FilterIsOfNow, Between
<1> QED
  BY <1>1, <1>2, <1>4, <1>5 DEF ReadWeight
-----------------------------------------------------------------------------
(* Ages, as each thread's clock moves them.                                *)
LEMMA AgedType ==
  ASSUME NEW cap \in Int, NEW a \in Int
  PROVE  /\ Aged(a, cap) \in Int /\ Aged(a, cap) >= a /\ Aged(a, cap) <= a + 1
         /\ a # None /\ a <= cap => Aged(a, cap) = a + 1
         /\ a = None \/ a > cap => Aged(a, cap) = a
  BY DEF Aged, None

LEMMA AgedPast ==
  ASSUME NEW n \in Nat, NEW a \in Nat
  PROVE  /\ Aged(a, n - 1) \in Nat /\ Aged(a, n - 1) >= a /\ Aged(a, n - 1) <= a + 1
         /\ (a < n => Aged(a, n - 1) = a + 1) /\ (a <= n => Aged(a, n - 1) <= n)
  BY DEF Aged, None

LEMMA GapType ==
  /\ Longer(Interval, Work) \in Nat \ {0} /\ Gap \in Nat \ {0}
  /\ Interval <= Longer(Interval, Work) /\ Work <= Longer(Interval, Work)
  /\ Gap = Longer(Interval, Work) + Work
  BY CaptureAssumption DEF Gap, Longer

LEMMA WifiInitInv == WifiInit => WifiTypeOK /\ ListFollowsStamp
  BY WifiAssumption DEF WifiInit, WifiTypeOK, ListFollowsStamp, None

LEMMA WifiTickStep == WifiTypeOK /\ ListFollowsStamp /\ WifiTick => WifiTypeOK' /\ ListFollowsStamp'
  BY WifiAssumption DEF WifiTypeOK, ListFollowsStamp, WifiTick, Aged, None

LEMMA ScanStep == WifiTypeOK /\ ListFollowsStamp /\ ScanWifi => WifiTypeOK' /\ ListFollowsStamp'
  BY WifiAssumption DEF WifiTypeOK, ListFollowsStamp, ScanWifi, ScanAnswers, ScanFails, ListAfterFailure,
                        None

-----------------------------------------------------------------------------
(* The scheduler: its own types and times.                                 *)
LoopTypeOK ==
  /\ pc \in {"work", "rest", "sleep"} /\ loopFor \in 0..Longer(Interval, Work)
  /\ sentFor \in None..(IdleInterval + Gap + 1)
  /\ candidateFor \in None..Confirm /\ confirmedFor \in 0..IdleAfter
  /\ asleep \in BOOLEAN /\ moving \in BOOLEAN
  /\ changeFor \in 0..Longer(LongDrive, LongStay) /\ drivenFor \in 0..IdleAfter

Timely == /\ SentInTime /\ StillUnconfirmed /\ AwakeForAReason /\ CandidateTaken
          /\ MovementConfirmed /\ ConfirmedSoon /\ Unslept /\ DrivenIsAwake

LEMMA InvParts ==
  IInv <=> /\ WeightTypeOK /\ FilterIsOfNow /\ WifiTypeOK /\ ListFollowsStamp
           /\ LoopTypeOK /\ Loop /\ Timely
  BY DEF IInv, TypeOK, LoopTypeOK, Timely

LEMMA LoopStep == LoopTypeOK /\ Loop /\ [Next]_vars => Loop' /\ loopFor' \in 0..Longer(Interval, Work)
<1> SUFFICES ASSUME LoopTypeOK, Loop, [Next]_vars
             PROVE  Loop' /\ loopFor' \in 0..Longer(Interval, Work)
  OBVIOUS
<1>0. /\ loopFor \in Nat /\ loopFor <= Longer(Interval, Work) /\ pc \in {"work", "rest", "sleep"}
      /\ Interval \in Nat /\ Work \in Nat
  BY GapType, CaptureAssumption DEF LoopTypeOK
<1> USE DEF Loop, schedule
<1>1. CASE Tick
  BY <1>0, <1>1, GapType DEF Tick
<1>2. CASE MovementChanges \/ ReadScale \/ PollWifi
  BY <1>0, <1>2, GapType DEF MovementChanges, ReadScale, PollWifi
<1>3. CASE MainLoop
  BY <1>0, <1>3, GapType DEF MainLoop, Capture, Sleep, Wake
<1>4. CASE UNCHANGED vars
  BY <1>0, <1>4, GapType DEF vars
<1> QED
  BY <1>1, <1>2, <1>3, <1>4 DEF Next

LEMMA SinceType == LoopTypeOK /\ Loop => Since \in Nat /\ Since <= Gap
<1> SUFFICES ASSUME LoopTypeOK, Loop PROVE Since \in Nat /\ Since <= Gap
  OBVIOUS
<1>1. /\ loopFor \in Nat /\ loopFor <= Longer(Interval, Work) /\ (pc = "work" => loopFor <= Work)
      /\ Work \in Nat
  BY GapType, CaptureAssumption DEF LoopTypeOK, Loop
<1> QED
  BY <1>1, GapType DEF Since

LEMMA AgedRange ==
  ASSUME NEW n \in Nat, NEW a \in None..n
  PROVE  Aged(a, n - 1) \in None..n /\ (a # None => Aged(a, n - 1) \in 0..n)
  BY DEF Aged, None

LEMMA Caps ==
  /\ IdleAfter \in Nat /\ Confirm \in Nat /\ IdleInterval \in Nat /\ Interval \in Nat /\ Work \in Nat
  /\ LongDrive \in Nat /\ LongStay \in Nat /\ Longer(LongDrive, LongStay) \in Nat
  /\ LongDrive = Confirm + 2 * Gap /\ LongStay = IdleAfter + Gap
  /\ LongStay <= Longer(LongDrive, LongStay)
<1>1. /\ IdleAfter \in Nat /\ Confirm \in Nat /\ IdleInterval \in Nat /\ Interval \in Nat /\ Work \in Nat
      /\ Gap \in Nat
  BY CaptureAssumption, GapType
<1>2. LongDrive \in Nat /\ LongStay \in Nat
  BY <1>1 DEF LongDrive, LongStay
<1>3. \A a, b \in Nat : Longer(a, b) \in Nat /\ b <= Longer(a, b)
  BY DEF Longer
<1> QED
  BY <1>1, <1>2, <1>3 DEF LongDrive, LongStay

LEMMA LoopTypeStep == LoopTypeOK /\ Loop /\ [Next]_vars => LoopTypeOK'
<1> SUFFICES ASSUME LoopTypeOK, Loop, [Next]_vars PROVE LoopTypeOK'
  OBVIOUS
<1>0. loopFor' \in 0..Longer(Interval, Work)
  BY LoopStep
<1> USE Caps, GapType DEF LoopTypeOK, schedule, drive
<1>1. CASE Tick
  <2>1. Aged(sentFor, IdleInterval + Gap) \in None..(IdleInterval + Gap + 1)
    <3>1. \A n \in Nat : (n + 1) - 1 = n /\ n + 1 \in Nat
      OBVIOUS
    <3>2. IdleInterval + Gap \in Nat
      OBVIOUS
    <3> QED
      BY <3>1, <3>2, AgedRange
  <2>2. Aged(candidateFor, Confirm - 1) \in None..Confirm
    BY AgedRange
  <2>3. ASSUME NEW n \in Nat, NEW a \in 0..n
        PROVE  Aged(a, n - 1) \in 0..n
    <3>1. a \in Nat /\ a <= n
      OBVIOUS
    <3>2. Aged(a, n - 1) \in Nat /\ Aged(a, n - 1) <= n
      BY <3>1, AgedPast
    <3> QED
      BY <3>2
  <2>4. 0 \in 0..IdleAfter
    OBVIOUS
  <2> QED
    BY <1>0, <1>1, <2>1, <2>2, <2>3, <2>4 DEF Tick
<1>2. CASE MovementChanges
  BY <1>0, <1>2 DEF MovementChanges
<1>3. CASE ReadScale \/ PollWifi
  BY <1>0, <1>3 DEF ReadScale, PollWifi
<1>4. CASE Capture
  <2>1. CandidateNow \in None..Confirm /\ ConfirmedNow \in 0..IdleAfter
    BY DEF CandidateNow, ConfirmedNow, None
  <2>2. 0 \in None..(IdleInterval + Gap + 1) /\ None \in None..Confirm /\ 0 \in 0..IdleAfter
    BY DEF None
  <2>3. AsleepNow \in BOOLEAN
    BY DEF AsleepNow
  <2>4. candidateFor' \in None..Confirm /\ confirmedFor' \in 0..IdleAfter
    BY <1>4, <2>1, <2>2 DEF Capture
  <2>5. sentFor' \in None..(IdleInterval + Gap + 1)
    BY <1>4, <2>2 DEF Capture
  <2>6. asleep' \in BOOLEAN
    BY <1>4, <2>3 DEF Capture
  <2> QED
    BY <1>0, <1>4, <2>4, <2>5, <2>6 DEF Capture
<1>5. CASE Sleep \/ Wake
  BY <1>0, <1>5 DEF Sleep, Wake
<1>6. CASE UNCHANGED vars
  BY <1>6 DEF vars
<1> QED
  BY <1>1, <1>2, <1>3, <1>4, <1>5, <1>6 DEF Next, MainLoop

-----------------------------------------------------------------------------
(* The relations between these times, by what moves them.                  *)
LEMMA TickStep == LoopTypeOK /\ Loop /\ Timely /\ Tick => Timely'
<1> SUFFICES ASSUME LoopTypeOK, Loop, Timely, Tick PROVE Timely'
  OBVIOUS
<1>1. /\ Since \in Nat /\ Since <= Gap /\ Since' \in Nat /\ Since' <= Gap /\ Since' = Since + 1
  <2>1. LoopTypeOK' /\ Loop' /\ pc' = pc /\ loopFor' = loopFor + 1 /\ loopFor \in Nat
    BY LoopTypeStep, LoopStep DEF Next, Tick, LoopTypeOK
  <2>2. Since' \in Nat /\ Since' <= Gap /\ Since \in Nat /\ Since <= Gap
    <3>1. (LoopTypeOK /\ Loop)' => (Since \in Nat /\ Since <= Gap)'
      BY SinceType, PTL
    <3> QED
      BY <2>1, <3>1, SinceType, GapType
  <2>3. Since' = Since + 1
    BY <2>1, GapType DEF Since
  <2> QED
    BY <2>2, <2>3
<1>2. /\ sentFor \in Int /\ candidateFor \in Int /\ candidateFor >= None /\ candidateFor <= Confirm
      /\ confirmedFor \in Nat /\ confirmedFor <= IdleAfter
      /\ changeFor \in Nat /\ drivenFor \in Nat /\ drivenFor <= IdleAfter
  BY Caps, GapType DEF LoopTypeOK, None
<1>3. /\ sentFor' \in Int /\ sentFor' <= sentFor + 1
      /\ changeFor' \in Nat /\ changeFor' <= changeFor + 1
      /\ confirmedFor' \in Nat /\ confirmedFor' <= confirmedFor + 1
      /\ confirmedFor' >= confirmedFor /\ (confirmedFor < IdleAfter => confirmedFor' = confirmedFor + 1)
  <2>1. /\ sentFor' = Aged(sentFor, IdleInterval + Gap)
        /\ changeFor' = Aged(changeFor, Longer(LongDrive, LongStay) - 1)
        /\ confirmedFor' = Aged(confirmedFor, IdleAfter - 1)
    BY DEF Tick
  <2>2. sentFor' \in Int /\ sentFor' <= sentFor + 1
    <3>1. IdleInterval + Gap \in Int
      BY Caps, GapType
    <3> QED
      BY <1>2, <2>1, <3>1, AgedType
  <2>3. changeFor' \in Nat /\ changeFor' <= changeFor + 1
    BY <1>2, <2>1, Caps, AgedPast
  <2> QED
    BY <1>2, <2>1, <2>2, <2>3, Caps, AgedPast
<1>4. /\ asleep' = asleep /\ moving' = moving /\ Current' = Current /\ Current \in Nat
  BY Caps DEF Tick, Current
<1>5. SentInTime'
  BY <1>1, <1>2, <1>3, <1>4 DEF Timely, SentInTime
<1>6. StillUnconfirmed'
  BY <1>2, <1>3, <1>4, Caps DEF Timely, StillUnconfirmed
<1>7. AwakeForAReason'
  BY <1>1, <1>2, <1>3, <1>4, Caps DEF Timely, AwakeForAReason, Tick
<1>8. CandidateTaken'
  <2>1. candidateFor' = Aged(candidateFor, Confirm - 1) /\ Confirm - 1 \in Int
    BY Caps DEF Tick
  <2>2. candidateFor = None => candidateFor' = None
    BY <2>1 DEF Aged
  <2>3. candidateFor # None => /\ candidateFor' # None /\ candidateFor' \in Int
                               /\ candidateFor' >= candidateFor
                               /\ (candidateFor < Confirm => candidateFor' = candidateFor + 1)
    <3>1. ASSUME candidateFor # None
          PROVE  candidateFor \in Nat /\ None \notin Nat
      BY <1>2, <3>1 DEF None
    <3>2. ASSUME candidateFor \in Nat
          PROVE  /\ candidateFor' \in Nat /\ candidateFor' >= candidateFor
                 /\ (candidateFor < Confirm => candidateFor' = candidateFor + 1)
      BY <2>1, <3>2, Caps, AgedPast
    <3>3. candidateFor' \in Nat => candidateFor' # None
      BY DEF None
    <3> QED
      BY <3>1, <3>2, <3>3
  <2> QED
    BY <1>1, <1>2, <1>3, <1>4, <2>2, <2>3, Caps, GapType DEF Timely, CandidateTaken
<1>9. MovementConfirmed'
  BY <1>1, <1>2, <1>3, <1>4, Caps, GapType DEF Timely, MovementConfirmed
<1>10. CASE moving /\ changeFor' >= LongDrive
  <2>1. drivenFor' = 0
    BY <1>10 DEF Tick
  <2>2. SleepEnabled => changeFor' >= Confirm + Gap + Since'
    BY <1>1, <1>3, <1>10, Caps, GapType
  <2>3. SleepEnabled => confirmedFor' <= Gap /\ (asleep' => IdleAfter = 0)
    BY <1>1, <1>3, <1>4, <1>9, <1>10, <2>2, GapType DEF MovementConfirmed
  <2>4. ConfirmedSoon'
    BY <1>3, <2>1, <2>3, GapType DEF ConfirmedSoon
  <2>5. DrivenIsAwake'
    BY <1>4, <2>1, <2>3, Caps, GapType DEF DrivenIsAwake, Timely, Unslept
  <2> QED
    BY <1>4, <1>5, <1>6, <1>7, <1>8, <1>9, <2>4, <2>5 DEF Timely, Unslept
<1>11. CASE ~ (moving /\ changeFor' >= LongDrive)
  <2>1. drivenFor' = Aged(drivenFor, IdleAfter - 1)
    BY <1>11 DEF Tick
  <2>2. /\ drivenFor' \in Nat /\ drivenFor' >= drivenFor /\ drivenFor' <= drivenFor + 1
        /\ (drivenFor < IdleAfter => drivenFor' = drivenFor + 1)
    BY <1>2, <2>1, Caps, AgedPast
  <2>3. confirmedFor' <= IdleAfter
    BY <1>2, <1>3, Caps DEF Tick, Aged
  <2>4. ConfirmedSoon'
    BY <1>2, <1>3, <2>2, <2>3, Caps, GapType DEF ConfirmedSoon, Timely
  <2>5. DrivenIsAwake'
    BY <1>2, <1>4, <2>2, Caps, GapType DEF DrivenIsAwake, Timely
  <2> QED
    BY <1>4, <1>5, <1>6, <1>7, <1>8, <1>9, <2>4, <2>5 DEF Timely, Unslept
<1> QED
  BY <1>10, <1>11

LEMMA CaptureStep == LoopTypeOK /\ Loop /\ Timely /\ Capture => Timely'
<1> SUFFICES ASSUME LoopTypeOK, Loop, Timely, Capture PROVE Timely'
  OBVIOUS
<1>1. /\ Since \in Nat /\ Since <= Gap /\ Since' = loopFor /\ loopFor \in Nat
  BY SinceType DEF Capture, Since, LoopTypeOK
<1>2. /\ sentFor \in Int /\ candidateFor \in Int /\ candidateFor >= None /\ candidateFor <= Confirm
      /\ confirmedFor \in Nat /\ confirmedFor <= IdleAfter
      /\ changeFor \in Nat /\ drivenFor \in Nat /\ drivenFor <= IdleAfter
  BY Caps, GapType DEF LoopTypeOK, None
<1>3. /\ moving' = moving /\ changeFor' = changeFor /\ drivenFor' = drivenFor /\ pc' = "rest"
  BY DEF Capture, drive
<1>4. Current' = CurrentNow
  BY DEF Capture, Current, CurrentNow
<1>5. CurrentNow \in Nat /\ CurrentNow > 0
  BY CaptureAssumption DEF CurrentNow
<1>6. SentInTime'
  <2>1. CASE ShouldSend
    <3>1. sentFor' = 0
      BY <2>1 DEF Capture
    <3> QED
      BY <1>1, <1>4, <1>5, <3>1 DEF SentInTime
  <2>2. CASE ~ShouldSend
    <3>1. sentFor' = sentFor
      BY <2>2 DEF Capture
    <3>2. \A a \in Int, n \in Nat : ~ (20 * a >= 19 * n) => a <= n
      OBVIOUS
    <3>3. sentFor <= CurrentNow
      BY <1>2, <1>5, <2>2, <3>2 DEF ShouldSend
    <3> QED
      BY <1>1, <1>2, <1>4, <1>5, <3>1, <3>3 DEF SentInTime
  <2> QED
    BY <2>1, <2>2
<1>7. CASE ~SleepEnabled
  <2>1. ~asleep'
    BY <1>7 DEF Capture
  <2> QED
    BY <1>6, <1>7, <2>1 DEF Timely, StillUnconfirmed, AwakeForAReason, CandidateTaken, MovementConfirmed,
                            ConfirmedSoon, Unslept, DrivenIsAwake
<1>8. CASE SleepEnabled
  <2>1. candidateFor' = CandidateNow /\ confirmedFor' = ConfirmedNow /\ (asleep' <=> ConfirmedNow >= IdleAfter)
    BY <1>8 DEF Capture, AsleepNow
  <2>2. ConfirmedNow \in Nat /\ ConfirmedNow <= confirmedFor /\ (~moving => ConfirmedNow = confirmedFor)
    BY <1>2 DEF ConfirmedNow
  <2>3. StillUnconfirmed'
    BY <1>3, <1>8, <2>1, <2>2 DEF StillUnconfirmed, Timely
  <2>4. AwakeForAReason'
    <3>1. ~moving => confirmedFor >= changeFor \/ confirmedFor >= IdleAfter
      BY <1>8 DEF StillUnconfirmed, Timely
    <3>2. ASSUME ~asleep'
          PROVE  IdleAfter > 0 /\ (~moving => changeFor < IdleAfter + loopFor)
      BY <1>1, <1>2, <2>1, <2>2, <3>1, <3>2, Caps
    <3> QED
      BY <1>1, <1>3, <3>2 DEF AwakeForAReason
  <2>5. ASSUME moving
        PROVE  /\ CandidateNow \in Nat
               /\ CandidateNow >= Confirm \/ CandidateNow + Gap >= changeFor
    <3>1. CASE candidateFor = None
      <4>1. CandidateNow = 0 /\ changeFor <= Since
        BY <1>8, <2>5, <3>1 DEF CandidateNow, Timely, CandidateTaken
      <4> QED
        BY <1>1, <1>2, <4>1, GapType
    <3>2. CASE candidateFor # None
      <4>1. CandidateNow = candidateFor /\ (candidateFor >= Confirm \/ candidateFor + Gap >= changeFor)
        BY <1>8, <2>5, <3>2 DEF CandidateNow, Timely, CandidateTaken
      <4> QED
        BY <1>2, <3>2, <4>1 DEF None
    <3> QED
      BY <3>1, <3>2
  <2>6. CandidateTaken'
    BY <1>3, <2>1, <2>5 DEF CandidateTaken, None
  <2>7. MovementConfirmed'
    <3>1. ASSUME moving, changeFor >= Confirm + Gap + loopFor
          PROVE  ConfirmedNow = 0
      <4>1. CandidateNow >= Confirm
        BY <1>1, <1>2, <2>5, <3>1, Caps, GapType
      <4> QED
        BY <3>1, <4>1 DEF ConfirmedNow
    <3>2. ASSUME ConfirmedNow = 0
          PROVE  ConfirmedNow <= loopFor /\ (asleep' => IdleAfter = 0)
      BY <1>1, <2>1, <3>2, Caps
    <3> QED
      BY <1>1, <1>3, <2>1, <3>1, <3>2 DEF MovementConfirmed
  <2>8. ConfirmedSoon'
    BY <1>2, <1>3, <1>8, <2>1, <2>2, Caps, GapType DEF ConfirmedSoon, Timely
  <2>9. DrivenIsAwake'
    BY <1>2, <1>3, <1>8, <2>1, <2>2, Caps, GapType DEF DrivenIsAwake, ConfirmedSoon, Timely
  <2> QED
    BY <1>6, <1>8, <2>3, <2>4, <2>6, <2>7, <2>8, <2>9 DEF Timely, Unslept
<1> QED
  BY <1>7, <1>8

LEMMA Further ==
  ASSUME NEW a \in Int, NEW b \in Nat, NEW c \in Nat, NEW d \in Nat, c <= d
  PROVE  (a <= b + c => a <= b + d) /\ (a < b + c => a < b + d)
  OBVIOUS

LEMMA OtherStep ==
  LoopTypeOK /\ Loop /\ Timely /\ (MovementChanges \/ ReadScale \/ PollWifi \/ Sleep \/ Wake \/ UNCHANGED vars)
    => Timely'
<1> SUFFICES ASSUME LoopTypeOK, Loop, Timely,
                    MovementChanges \/ ReadScale \/ PollWifi \/ Sleep \/ Wake \/ UNCHANGED vars
             PROVE  Timely'
  OBVIOUS
<1>1. Since \in Nat /\ Since <= Gap
  BY SinceType
<1>2. /\ sentFor \in Int /\ confirmedFor \in Nat /\ confirmedFor <= IdleAfter
      /\ changeFor \in Nat /\ candidateFor \in Int
  BY Caps, GapType DEF LoopTypeOK, None
<1>3. CASE ReadScale \/ PollWifi \/ Sleep \/ UNCHANGED vars
  <2>1. /\ Since' = Since /\ (pc' # "work" <=> pc # "work") /\ UNCHANGED <<schedule, drive>>
    BY <1>3 DEF ReadScale, PollWifi, Sleep, vars, Since
  <2> QED
    BY <2>1 DEF schedule, drive, Current, Timely, SentInTime, StillUnconfirmed, AwakeForAReason,
                CandidateTaken, MovementConfirmed, ConfirmedSoon, Unslept, DrivenIsAwake
<1>4. CASE Wake
  <2>1. /\ Since' \in Nat /\ Since <= Since' /\ pc' = "work" /\ UNCHANGED <<schedule, drive>>
    <3>1. loopFor' = 0 /\ pc' = "work" /\ pc = "sleep" /\ UNCHANGED <<schedule, drive>>
      BY <1>4 DEF Wake
    <3>2. Since = loopFor /\ Since' = Longer(Interval, Work)
      BY <3>1, GapType DEF Since
    <3>3. loopFor <= Longer(Interval, Work)
      BY GapType DEF LoopTypeOK
    <3> QED
      BY <3>1, <3>2, <3>3, GapType
  <2>2. /\ sentFor' = sentFor /\ candidateFor' = candidateFor /\ confirmedFor' = confirmedFor
        /\ (asleep' <=> asleep) /\ (moving' <=> moving) /\ changeFor' = changeFor /\ drivenFor' = drivenFor
        /\ Current' = Current /\ Current \in Nat
    BY <2>1, Caps DEF schedule, drive, Current
  <2>3. SentInTime'
    <3>1. sentFor <= Current + Since
      BY DEF Timely, SentInTime
    <3>2. sentFor <= Current + Since'
      BY <1>1, <1>2, <2>1, <2>2, <3>1, Further
    <3> QED
      BY <2>2, <3>2 DEF SentInTime
  <2>4. AwakeForAReason'
    <3>1. changeFor < IdleAfter + Since => changeFor < IdleAfter + Since'
      <4>1. changeFor \in Int /\ IdleAfter \in Nat
        BY <1>2, Caps
      <4> QED
        BY <1>1, <2>1, <4>1, Further
    <3> QED
      BY <2>1, <2>2, <3>1 DEF Timely, AwakeForAReason
  <2>5. CandidateTaken'
    BY <1>1, <1>2, <2>1, <2>2 DEF Timely, CandidateTaken
  <2>6. MovementConfirmed'
    BY <1>1, <1>2, <2>1, <2>2, Caps, GapType DEF Timely, MovementConfirmed
  <2>7. StillUnconfirmed' /\ ConfirmedSoon' /\ Unslept' /\ DrivenIsAwake'
    BY <2>2 DEF Timely, StillUnconfirmed, ConfirmedSoon, Unslept, DrivenIsAwake
  <2> QED
    BY <2>3, <2>4, <2>5, <2>6, <2>7 DEF Timely
<1>5. CASE MovementChanges
  <2>1. /\ Since' = Since /\ pc' = pc /\ changeFor' = 0 /\ (moving' <=> ~moving) /\ drivenFor' = drivenFor
        /\ sentFor' = sentFor /\ candidateFor' = candidateFor /\ confirmedFor' = confirmedFor
        /\ (asleep' <=> asleep) /\ Current' = Current
    BY <1>5 DEF MovementChanges, schedule, Since, Current
  <2>2. SentInTime' /\ ConfirmedSoon' /\ Unslept' /\ DrivenIsAwake'
    BY <2>1 DEF Timely, SentInTime, ConfirmedSoon, Unslept, DrivenIsAwake
  <2>3. StillUnconfirmed'
    BY <1>2, <2>1 DEF StillUnconfirmed
  <2>4. AwakeForAReason'
    <3>1. pc = "work" => Since > 0
      BY GapType DEF Since, LoopTypeOK
    <3>2. SleepEnabled /\ ~asleep => (pc # "work" => IdleAfter > 0)
      BY DEF Timely, AwakeForAReason
    <3>3. SleepEnabled /\ ~asleep => 0 < IdleAfter + Since
      BY <1>1, <3>1, <3>2, Caps
    <3> QED
      BY <2>1, <3>2, <3>3 DEF AwakeForAReason
  <2>5. CandidateTaken'
    BY <1>1, <1>2, <2>1, GapType DEF CandidateTaken, None, LoopTypeOK
  <2>6. MovementConfirmed'
    <3>1. ~ (0 >= Confirm + Gap + Since)
      BY <1>1, Caps, GapType
    <3> QED
      BY <2>1, <3>1 DEF MovementConfirmed
  <2> QED
    BY <2>2, <2>3, <2>4, <2>5, <2>6 DEF Timely
<1> QED
  BY <1>3, <1>4, <1>5

-----------------------------------------------------------------------------
LEMMA InitInv == Init => IInv
<1> SUFFICES ASSUME Init PROVE IInv
  OBVIOUS
<1>1. WeightTypeOK /\ FilterIsOfNow /\ WifiTypeOK /\ ListFollowsStamp
  BY WeightInitInv, WifiInitInv DEF Init
<1>2. LoopTypeOK /\ Loop
  <2>1. /\ None \in None..(IdleInterval + Gap + 1) /\ None \in None..Confirm /\ 0 \in 0..IdleAfter
        /\ 0 \in 0..Longer(LongDrive, LongStay) /\ 0 \in 0..Longer(Interval, Work) /\ 0 <= Work
    BY Caps, GapType DEF None
  <2> QED
    BY <2>1 DEF Init, LoopTypeOK, Loop
<1>3. Since = Longer(Interval, Work) /\ Current \in Nat
  BY Caps, GapType DEF Init, Since, Current
<1>4. Timely
  BY <1>3, Caps, GapType DEF Init, Timely, SentInTime, StillUnconfirmed, AwakeForAReason, CandidateTaken,
        MovementConfirmed, ConfirmedSoon, Unslept, DrivenIsAwake, None
<1> QED
  BY <1>1, <1>2, <1>4, InvParts

LEMMA NextInv == IInv /\ [Next]_vars => IInv'
<1> SUFFICES ASSUME IInv, [Next]_vars PROVE IInv'
  OBVIOUS
<1>0. WeightTypeOK /\ FilterIsOfNow /\ WifiTypeOK /\ ListFollowsStamp /\ LoopTypeOK /\ Loop /\ Timely
  BY InvParts
<1>1. WeightTypeOK' /\ FilterIsOfNow'
  <2>1. CASE ReadScale
    BY <1>0, <2>1, WeightStep DEF ReadScale
  <2>2. CASE ~ReadScale
    <3>1. UNCHANGED filter
      BY <2>2 DEF Next, vars, Tick, MovementChanges, PollWifi, MainLoop, Capture, Sleep, Wake
    <3> QED
      BY <1>0, <3>1 DEF filter, WeightTypeOK, FilterIsOfNow, Shown
  <2> QED
    BY <2>1, <2>2
<1>2. WifiTypeOK' /\ ListFollowsStamp'
  <2>1. CASE Tick \/ PollWifi
    BY <1>0, <2>1, WifiTickStep, ScanStep DEF Tick, PollWifi
  <2>2. CASE ~ (Tick \/ PollWifi)
    <3>1. UNCHANGED wifi
      BY <2>2 DEF Next, vars, ReadScale, MovementChanges, MainLoop, Capture, Sleep, Wake
    <3> QED
      BY <1>0, <3>1 DEF wifi, WifiTypeOK, ListFollowsStamp
  <2> QED
    BY <2>1, <2>2
<1>3. LoopTypeOK' /\ Loop'
  BY <1>0, LoopTypeStep, LoopStep
<1>4. Timely'
  BY <1>0, TickStep, CaptureStep, OtherStep DEF Next, MainLoop
<1>5. (WeightTypeOK /\ FilterIsOfNow /\ WifiTypeOK /\ ListFollowsStamp /\ LoopTypeOK /\ Loop /\ Timely)' => IInv'
  BY InvParts, PTL
<1> QED
  BY <1>1, <1>2, <1>3, <1>4, <1>5

(* The inductive invariant: every age of the scheduler against the time    *)
(* since the last capture, and what the filter and the list rest on.       *)
THEOREM AlwaysInTime == Spec => []IInv
  BY InitInv, NextInv, PTL DEF Spec

(* Every variable has its type, for any intervals and any window.          *)
THEOREM TypeCorrect == Spec => []TypeOK
<1>1. IInv => TypeOK
  BY DEF IInv
<1> QED
  BY <1>1, AlwaysInTime, PTL

(* A packet within the interval in force and one iteration.                *)
THEOREM PacketsComeInTime == Spec => []PacketsKeepComing
<1>1. IInv => PacketsKeepComing
  <2> SUFFICES ASSUME IInv PROVE PacketsKeepComing
    OBVIOUS
  <2>1. Since \in Nat /\ Since <= Gap /\ sentFor \in Int /\ sentFor <= Current + Since
    BY SinceType, InvParts, GapType DEF LoopTypeOK, Timely, SentInTime, None
  <2>2. Current \in Nat
    BY Caps DEF Current
  <2> QED
    BY <2>1, <2>2, GapType DEF PacketsKeepComing
<1> QED
  BY <1>1, AlwaysInTime, PTL

(* Sleep follows movement, in both directions.                             *)
THEOREM SleepIsRight == Spec => []SleepFollowsMovement
<1>1. IInv => SleepFollowsMovement
  <2> SUFFICES ASSUME IInv PROVE SleepFollowsMovement
    OBVIOUS
  <2>1. Since \in Nat /\ Since <= Gap /\ changeFor \in Int
    BY SinceType, InvParts, Caps DEF LoopTypeOK
  <2>2. SleepEnabled /\ ~asleep /\ ~moving => changeFor < IdleAfter + Since
    BY DEF IInv, AwakeForAReason
  <2>3. SleepEnabled /\ ~asleep /\ ~moving => ~ (changeFor >= LongStay)
    BY <2>1, <2>2, Caps, GapType
  <2>4. StandingSleeps
    BY <2>3 DEF StandingSleeps
  <2> QED
    BY <2>4 DEF IInv, SleepFollowsMovement
<1> QED
  BY <1>1, AlwaysInTime, PTL

(* The clients of a packet are recent.                                     *)
THEOREM ClientsAreRecent == Spec => []WifiIsRecent
<1>1. IInv => WifiIsRecent
  BY WifiAssumption DEF IInv, TypeOK, WifiTypeOK, ListFollowsStamp, WifiIsRecent, WifiClients, None
<1> QED
  BY <1>1, AlwaysInTime, PTL

(* The weight of a packet lies between readings since the last invalid one.*)
THEOREM WeightsAreOfNow == Spec => []WeightIsOfNow
<1>1. IInv => WeightIsOfNow
  BY DEF IInv, TypeOK, WeightTypeOK, FilterIsOfNow, WeightIsOfNow
<1> QED
  BY <1>1, AlwaysInTime, PTL
================================================================================
