------------------------ MODULE ModemSimRecovery_proofs ------------------------
(***************************************************************************)
(* Theorems about ModemSimRecovery, for any times of confirmation, cooldown*)
(* and window and any number of resets permitted in one.                   *)
(***************************************************************************)
EXTENDS ModemSimRecovery, FiniteSetTheorems, TLAPS

(* As long as SIM failure is noted, nothing else has been answered.        *)
FailureIsUnbroken == failFor # NotSince => failFor <= otherFor

(* What the program remembers covers the resets whose answer it has read.  *)
AnsweredOnRecord ==
  /\ answered \subseteq resets
  /\ \A b \in answered : b <= Window /\ lastReset # NotSince /\ lastReset <= b

IInv == TypeOK /\ FailureIsUnbroken /\ AnsweredOnRecord

(* The types, apart by what proves them.                                   *)
Times == /\ rest \in 0..Settle /\ pollAge \in 0..PollEvery
         /\ failFor \in NotSince..Confirm /\ lastReset \in NotSince..Cooldown
         /\ otherFor \in 0..Confirm
Moments == /\ resets \subseteq 0..(Window + 1) /\ executed \subseteq 0..Window
           /\ answered \subseteq executed
Limited == Cardinality(resets) <= MaxResets
States  == sim \in Sims /\ port \in {"open", "closed", "off"}

LEMMA TypeParts == TypeOK <=> Times /\ Moments /\ Limited /\ States
  BY DEF TypeOK, Times, Moments, Limited, States

-----------------------------------------------------------------------------
(* Ages as a tick leaves them.                                             *)
LEMMA Caps ==
  /\ Confirm \in Nat /\ Cooldown \in Nat /\ MaxResets \in Nat
  /\ Window \in Nat \ {0} /\ PollEvery \in Nat \ {0} /\ Settle \in Nat \ {0}
  /\ \A cap \in Nat : 0 \in 0..cap /\ cap \in 0..cap /\ 0 \in NotSince..cap /\ NotSince \in NotSince..cap
  /\ 1 \in 0..Settle
  BY SimRecoveryAssumption DEF NotSince

LEMMA CappedType ==
  ASSUME NEW cap \in Nat, NEW a \in Nat
  PROVE  Capped(a + 1, cap) \in 0..cap /\ (a < cap => Capped(a + 1, cap) = a + 1)
  BY DEF Capped

LEMMA OlderType ==
  ASSUME NEW cap \in Nat, NEW a \in NotSince..cap
  PROVE  Older(a, cap) \in NotSince..cap /\ (Older(a, cap) = NotSince <=> a = NotSince)
  BY DEF Older, Capped, NotSince

LEMMA OlderKeepsOrder ==
  ASSUME NEW cap \in Nat, NEW a \in NotSince..cap, NEW b \in Nat, a # NotSince, a <= b
  PROVE  Older(a, cap) <= b + 1 /\ Older(a, cap) <= Capped(b + 1, cap)
  BY DEF Older, Capped, NotSince

(* Resets are finitely many; as time passes they become no more.           *)
LEMMA MomentsFinite ==
  ASSUME NEW n \in Nat, NEW S \in SUBSET (0..n)
  PROVE  IsFiniteSet(S) /\ Cardinality(S) \in Nat
<1>1. IsFiniteSet(0..n)
  BY FS_Interval, 0 \in Int, n \in Int
<1> QED
  BY <1>1, FS_Subset, FS_CardinalityType

LEMMA AgedAreNoMore ==
  ASSUME NEW S, IsFiniteSet(S), NEW n \in Nat
  PROVE  Cardinality({Capped(a + 1, n) : a \in S}) <= Cardinality(S)
<1> DEFINE T == {Capped(a + 1, n) : a \in S}
           f == [a \in S |-> Capped(a + 1, n)]
<1>1. f \in Surjection(S, T)
  BY DEF Surjection
<1> HIDE DEF f, T
<1>2. Cardinality(T) <= Cardinality(S)
  BY <1>1, FS_Surjection
<1> QED
  BY <1>2 DEF T

LEMMA RecentAreNoMore ==
  ASSUME Moments
  PROVE  /\ RecentResets \subseteq resets /\ IsFiniteSet(RecentResets)
         /\ Cardinality(RecentResets) <= Cardinality(resets)
         /\ Cardinality(RecentResets) \in Nat /\ Cardinality(resets) \in Nat
<1>1. Window + 1 \in Nat /\ resets \in SUBSET (0..(Window + 1))
  BY Caps DEF Moments
<1>2. IsFiniteSet(resets) /\ Cardinality(resets) \in Nat
  BY <1>1, MomentsFinite
<1>3. RecentResets \in SUBSET resets
  BY DEF RecentResets
<1> QED
  BY <1>2, <1>3, FS_Subset, FS_CardinalityType

-----------------------------------------------------------------------------
LEMMA InitInv == Init => IInv
<1> SUFFICES ASSUME Init PROVE IInv
  OBVIOUS
<1>1. Times /\ Moments /\ States
  BY Caps DEF Init, Times, Moments, States, Sims
<1>2. Limited
  BY Caps, FS_EmptySet DEF Init, Limited
<1>3. FailureIsUnbroken /\ AnsweredOnRecord
  BY DEF Init, FailureIsUnbroken, AnsweredOnRecord
<1> QED
  BY <1>1, <1>2, <1>3, TypeParts DEF IInv

(* A probe that finds a failure, and the step of any other.                *)
LEMMA ProbeOrNot ==
  ASSUME [Next]_vars
  PROVE  \/ Tick \/ OtherAnswer \/ FailureSuppressed \/ ResetRejected \/ ResetDone \/ ResetUnanswered
         \/ Crash
         \/ /\ UNCHANGED <<memory, history>>
            /\ \/ \E s \in Sims : SimChanges(s)
               \/ OpenPort \/ PortVanishes \/ Restart \/ UNCHANGED vars
  BY DEF Next, Probe, SimChanges, OpenPort, PortVanishes, Restart, vars

LEMMA TimesStep == Times /\ [Next]_vars => Times'
<1> SUFFICES ASSUME Times, [Next]_vars PROVE Times'
  OBVIOUS
<1> USE Caps DEF Times, reader, memory, history
<1>1. CASE Tick
  <2>1. rest' \in 0..Settle
    BY <1>1 DEF Tick
  <2>2. pollAge' \in 0..PollEvery /\ otherFor' \in 0..Confirm
    <3>1. pollAge \in Nat /\ otherFor \in Nat
      OBVIOUS
    <3> QED
      BY <1>1, <3>1, CappedType DEF Tick
  <2> QED
    BY <1>1, <2>1, <2>2, OlderType DEF Tick
<1>2. CASE OtherAnswer
  BY <1>2 DEF OtherAnswer, SinceAfterOther
<1>3. FailForNow \in NotSince..Confirm
  BY DEF FailForNow
<1>4. CASE FailureSuppressed \/ ResetRejected \/ ResetDone \/ ResetUnanswered
  BY <1>3, <1>4 DEF FailureSuppressed, ResetRejected, ResetDone, ResetUnanswered, FailureNoted
<1>5. CASE Crash
  BY <1>5 DEF Crash
<1>6. CASE \/ \E s \in Sims : SimChanges(s)
           \/ OpenPort \/ PortVanishes \/ Restart \/ UNCHANGED vars
  BY <1>6 DEF SimChanges, OpenPort, PortVanishes, Restart, vars
<1> QED
  BY <1>1, <1>2, <1>4, <1>5, <1>6, ProbeOrNot

LEMMA StatesStep == States /\ [Next]_vars => States'
  BY DEF States, Next, Probe, Tick, SimChanges, OpenPort, PortVanishes, OtherAnswer, FailureSuppressed,
         ResetRejected, ResetDone, ResetUnanswered, FailureNoted, Crash, Restart, reader, memory, history,
         vars, Sims

LEMMA MomentsStep == Moments /\ Limited /\ [Next]_vars => Moments' /\ Limited'
<1> SUFFICES ASSUME Moments, Limited, [Next]_vars PROVE Moments' /\ Limited'
  OBVIOUS
<1> USE Caps DEF Moments, Limited, memory, history
<1>0. /\ RecentResets \subseteq resets /\ IsFiniteSet(RecentResets)
      /\ Cardinality(RecentResets) <= Cardinality(resets)
      /\ Cardinality(RecentResets) \in Nat /\ Cardinality(resets) \in Nat
  BY RecentAreNoMore
<1>1. ASSUME resets' = RecentResets
      PROVE  Limited' /\ resets' \subseteq 0..(Window + 1)
  <2>1. Cardinality(resets') <= MaxResets
    BY <1>0, <1>1
  <2> QED
    BY <1>0, <1>1, <2>1
<1>2. CASE Tick
  <2>1. Window + 1 \in Nat /\ \A a \in resets : a \in Nat
    OBVIOUS
  <2>2. resets' \subseteq 0..(Window + 1)
    <3>1. \A a \in resets : Capped(a + 1, Window + 1) \in 0..(Window + 1)
      BY <2>1, CappedType
    <3> QED
      BY <1>2, <3>1 DEF Tick
  <2>3. executed' \subseteq 0..Window /\ answered' \subseteq executed'
    BY <1>2 DEF Tick
  <2>4. Cardinality(resets') <= Cardinality(resets) /\ Cardinality(resets') \in Nat
    <3>1. IsFiniteSet(resets)
      BY <2>1, MomentsFinite
    <3>2. Cardinality(resets') <= Cardinality(resets)
      BY <1>2, <2>1, <3>1, AgedAreNoMore DEF Tick
    <3> QED
      BY <2>1, <2>2, <3>2, MomentsFinite
  <2> QED
    BY <1>0, <2>2, <2>3, <2>4
<1>3. CASE OtherAnswer
  <2>1. resets' = RecentResets /\ executed' = executed /\ answered' = answered
    BY <1>3 DEF OtherAnswer, RecentResets
  <2> QED
    BY <1>1, <2>1
<1>4. CASE FailureSuppressed \/ ResetRejected
  <2>1. resets' = RecentResets /\ executed' = executed /\ answered' = answered
    BY <1>4 DEF FailureSuppressed, ResetRejected, FailureNoted
  <2> QED
    BY <1>1, <2>1
<1>5. CASE ResetUnanswered
  <2>1. resets' = RecentResets /\ executed' = executed \cup {0} /\ answered' = answered
    BY <1>5 DEF ResetUnanswered, FailureNoted
  <2> QED
    BY <1>1, <2>1
<1>6. CASE ResetDone
  <2>1. resets' = RecentResets \cup {0} /\ Cardinality(RecentResets) < MaxResets
    BY <1>6 DEF ResetDone, ResetWorthy, WithinLimit
  <2>2. Cardinality(resets') <= Cardinality(RecentResets) + 1 /\ Cardinality(resets') \in Nat
    <3> DEFINE c == Cardinality(RecentResets)
    <3>1. Cardinality(resets') = IF 0 \in RecentResets THEN c ELSE c + 1
      BY <1>0, <2>1, FS_AddElement
    <3>2. c \in Nat
      BY <1>0
    <3> QED
      BY <3>1, <3>2
  <2>3. Limited'
    BY <1>0, <2>1, <2>2
  <2>4. Moments'
    BY <1>0, <1>6, <2>1 DEF ResetDone
  <2> QED
    BY <2>3, <2>4
<1>7. CASE Crash
  BY <1>7, FS_EmptySet DEF Crash
<1>8. CASE UNCHANGED <<memory, history>>
  BY <1>8
<1> QED
  BY <1>2, <1>3, <1>4, <1>5, <1>6, <1>7, <1>8, ProbeOrNot

LEMMA RecordStep ==
  Times /\ Moments /\ FailureIsUnbroken /\ AnsweredOnRecord /\ [Next]_vars
    => FailureIsUnbroken' /\ AnsweredOnRecord'
<1> SUFFICES ASSUME Times, Moments, FailureIsUnbroken, AnsweredOnRecord, [Next]_vars
             PROVE  FailureIsUnbroken' /\ AnsweredOnRecord'
  OBVIOUS
<1> USE DEF FailureIsUnbroken, AnsweredOnRecord, memory, history
<1>0. /\ failFor \in NotSince..Confirm /\ otherFor \in Nat /\ lastReset \in NotSince..Cooldown
      /\ \A b \in answered : b \in Nat
  BY Caps DEF Times, Moments
<1>1. CASE Tick
  <2>1. FailureIsUnbroken'
    BY <1>0, <1>1, Caps, OlderType, OlderKeepsOrder DEF Tick
  <2>2. ASSUME NEW b \in answered'
        PROVE  b \in resets' /\ b <= Window /\ lastReset' # NotSince /\ lastReset' <= b
    <3>1. PICK a \in answered \cap 0..(Window - 1) : b = a + 1
      BY <1>1, <2>2 DEF Tick
    <3>2. a \in Nat /\ a < Window + 1 /\ a + 1 <= Window
      BY <3>1, Caps
    <3>3. b \in resets'
      <4>1. Capped(a + 1, Window + 1) = a + 1
        BY <3>2, Caps, CappedType
      <4> QED
        BY <1>1, <3>1, <4>1 DEF Tick
    <3>4. lastReset # NotSince /\ lastReset <= a
      BY <3>1
    <3>5. lastReset' = Older(lastReset, Cooldown)
      BY <1>1 DEF Tick
    <3> QED
      BY <1>0, <3>1, <3>2, <3>3, <3>4, <3>5, Caps, OlderType, OlderKeepsOrder
  <2> QED
    BY <2>1, <2>2
<1>2. CASE OtherAnswer
  BY <1>2 DEF OtherAnswer, SinceAfterOther
<1>3. FailForNow <= otherFor
  BY <1>0 DEF FailForNow
<1>4. answered \subseteq RecentResets
  BY DEF RecentResets
<1>5. CASE FailureSuppressed \/ ResetRejected \/ ResetUnanswered
  BY <1>3, <1>4, <1>5 DEF FailureSuppressed, ResetRejected, ResetUnanswered, FailureNoted
<1>6. CASE ResetDone
  <2>1. /\ failFor' = NotSince /\ lastReset' = 0 /\ resets' = RecentResets \cup {0}
        /\ answered' = answered \cup {0}
    BY <1>6 DEF ResetDone
  <2>2. \A b \in answered' : b <= Window /\ 0 <= b
    BY <1>0, <2>1, Caps
  <2> QED
    BY <1>4, <2>1, <2>2 DEF NotSince
<1>7. CASE Crash
  BY <1>7 DEF Crash
<1>8. CASE UNCHANGED <<memory, history>>
  BY <1>8
<1> QED
  BY <1>1, <1>2, <1>5, <1>6, <1>7, <1>8, ProbeOrNot

LEMMA NextInv == IInv /\ [Next]_vars => IInv'
<1> SUFFICES ASSUME IInv, [Next]_vars PROVE IInv'
  OBVIOUS
<1>1. Times /\ Moments /\ Limited /\ States /\ FailureIsUnbroken /\ AnsweredOnRecord
  BY TypeParts DEF IInv
<1>2. (Times /\ Moments /\ Limited /\ States)' /\ (FailureIsUnbroken /\ AnsweredOnRecord)'
  BY <1>1, TimesStep, StatesStep, MomentsStep, RecordStep
<1>3. (Times /\ Moments /\ Limited /\ States)' => TypeOK'
  BY TypeParts, PTL
<1> QED
  BY <1>2, <1>3 DEF IInv

(* The inductive invariant: the memory covers the resets it knows of, and  *)
(* a noted failure has not been interrupted.                               *)
THEOREM AlwaysOnRecord == Spec => []IInv
  BY InitInv, NextInv, PTL DEF Spec

(* Every variable has its type, and the deque of resets its limit.         *)
THEOREM TypeCorrect == Spec => []TypeOK
<1>1. IInv => TypeOK
  BY DEF IInv
<1> QED
  BY <1>1, AlwaysOnRecord, PTL

-----------------------------------------------------------------------------
(* A reset is worth it: what makes a new one.                              *)
LEMMA NewResetIsWorthy ==
  ASSUME IInv, [Next]_vars, NewReset
  PROVE  ResetWorthy
<1>1. 0 \in executed' /\ 0 \notin executed
  BY DEF NewReset
<1>2. ~Tick
  <2>1. ASSUME Tick
        PROVE  FALSE
    <3>1. PICK a \in executed \cap 0..(Window - 1) : 0 = a + 1
      BY <1>1, <2>1 DEF Tick
    <3> QED
      BY <3>1, Caps
  <2> QED
    BY <2>1
<1>3. executed' # executed
  BY <1>1
<1> QED
  BY <1>1, <1>2, <1>3, ProbeOrNot DEF OtherAnswer, FailureSuppressed, ResetRejected, ResetDone, ResetUnanswered,
       FailureNoted, Crash, history

(* No reset before the whole confirmation time of nothing but SIM failure. *)
THEOREM OnlyFailuresReset == Spec => OnlyExplicitFailureResets
<1>1. ASSUME IInv, [Next]_vars, NewReset
      PROVE  otherFor >= Confirm
  <2>1. FailForNow >= Confirm
    BY <1>1, NewResetIsWorthy DEF ResetWorthy
  <2>2. failFor \in NotSince..Confirm /\ otherFor \in Nat /\ Confirm \in Nat
    BY <1>1, Caps DEF IInv, TypeOK
  <2>3. failFor # NotSince => failFor <= otherFor
    BY <1>1 DEF IInv, FailureIsUnbroken
  <2> QED
    BY <2>1, <2>2, <2>3 DEF FailForNow, NotSince
<1> QED
  BY <1>1, AlwaysOnRecord, PTL DEF Spec, OnlyExplicitFailureResets

(* No reset before the cooldown of one that was answered, nor beyond the   *)
(* number of them permitted in a window.                                   *)
THEOREM AnsweredResetsLimit == Spec => ResetsAreLimited
<1>1. ASSUME IInv, [Next]_vars, NewReset
      PROVE  /\ \A b \in answered : b >= Cooldown
             /\ Cardinality(answered) < MaxResets
  <2>1. (lastReset = NotSince \/ lastReset >= Cooldown) /\ Cardinality(RecentResets) < MaxResets
    BY <1>1, NewResetIsWorthy DEF ResetWorthy, CooledDown, WithinLimit
  <2>2. AnsweredOnRecord /\ Moments /\ Times
    BY <1>1, TypeParts DEF IInv
  <2>3. ASSUME NEW b \in answered
        PROVE  b >= Cooldown
    <3>1. lastReset <= b /\ lastReset >= Cooldown
      BY <2>1, <2>2, <2>3 DEF AnsweredOnRecord
    <3>2. b \in Nat /\ lastReset \in Int /\ Cooldown \in Nat
      BY <2>2, <2>3, Caps DEF Moments, Times, NotSince
    <3> QED
      BY <3>1, <3>2
  <2>4. answered \in SUBSET RecentResets
    BY <2>2 DEF AnsweredOnRecord, RecentResets
  <2>5. /\ IsFiniteSet(RecentResets) /\ Cardinality(RecentResets) \in Nat
        /\ Cardinality(answered) <= Cardinality(RecentResets) /\ Cardinality(answered) \in Nat
    BY <2>2, <2>4, RecentAreNoMore, FS_Subset, FS_CardinalityType
  <2>6. Cardinality(answered) < MaxResets
    BY <2>1, <2>5, Caps
  <2> QED
    BY <2>3, <2>6
<1> QED
  BY <1>1, AlwaysOnRecord, PTL DEF Spec, ResetsAreLimited
================================================================================
