-------------------------- MODULE PppWatchdog_proofs --------------------------
(***************************************************************************)
(* Theorems about PppWatchdog, for any periods of confirmation and         *)
(* cooldown.                                                               *)
(***************************************************************************)
EXTENDS PppWatchdog, TLAPS

ToCut == {"stop lte", "stop hm", "cycle"}

(* Since the host came up, a cut within the cooldown has an epoch in its   *)
(* file that is older than the cut by no more than a run may take.         *)
CutOnRecord ==
  ~booted /\ powerCut < CycleCooldown => lastCycle # None /\ lastCycle <= powerCut + RunLimit

(* A run on its way to the cut was permitted to go there when it read the  *)
(* clock, and what it has stamped is that reading.                         *)
CutPermitted ==
  /\ pc \in ToCut \cup {"stamp"} => booted \/ powerCut >= CycleCooldown - RunLimit
  /\ pc \in ToCut => lastCycle # None /\ lastCycle <= runAge

(* Which step of which run has stopped a service that nobody else stopped. *)
LteAccounted ==
  ~killed /\ ~lte /\ "lte" \notin maint => pc \in {"stop hm", "cycle", "wait", "start lte"}
HmAccounted ==
  ~killed /\ ~hm /\ "hm" \notin maint =>
    hmWas /\ pc \in {"cycle", "wait", "start lte", "start hm"}

(* The types, apart by what proves them.                                   *)
Flags    == /\ ppp \in BOOLEAN /\ device \in BOOLEAN /\ foreign \in BOOLEAN
            /\ lte \in BOOLEAN /\ hm \in BOOLEAN /\ hmWas \in BOOLEAN
            /\ booted \in BOOLEAN /\ killed \in BOOLEAN
LinkOver == ppp => lte /\ device
Ages     == /\ firstMissing \in None..MissingCap /\ lastRestart \in None..RestartCooldown
            /\ lastCycle \in None..CycleCooldown /\ powerCut \in 0..CycleCooldown
            /\ runAge \in 0..RunLimit
Steps    == /\ maint \subseteq {"lte", "hm"}
            /\ pc \in {"idle", "restart", "stamp", "stop lte", "stop hm", "cycle", "wait",
                       "start lte", "start hm"}
            /\ pc \in ToCut \cup {"wait"} => lastCycle # None

LEMMA TypeParts == TypeOK <=> Flags /\ LinkOver /\ Ages /\ Steps
  BY DEF TypeOK, Flags, LinkOver, Ages, Steps, ToCut

IInv == Flags /\ LinkOver /\ Ages /\ Steps /\ CutOnRecord /\ CutPermitted /\ LteAccounted /\ HmAccounted

-----------------------------------------------------------------------------
(* Ages as a tick leaves them.                                             *)
LEMMA OlderType ==
  ASSUME NEW cap \in Nat, NEW a \in None..cap
  PROVE  Older(a, cap) \in None..cap /\ (Older(a, cap) = None <=> a = None)
  BY DEF Older, Capped, None

LEMMA OlderKeepsOrder ==
  ASSUME NEW cap \in Nat, NEW a \in 0..cap, NEW b \in 0..cap, NEW r \in Nat,
         a <= b + r, Capped(b + 1, cap) < cap
  PROVE  Older(a, cap) <= Capped(b + 1, cap) + r
  BY DEF Older, Capped, None

LEMMA OlderAtMostOne ==
  ASSUME NEW cap \in Nat, NEW a \in 0..cap, NEW r \in Nat, a <= r
  PROVE  Older(a, cap) <= r + 1
  BY DEF Older, Capped, None

LEMMA StampType ==
  ASSUME NEW cap \in Nat, NEW r \in Nat
  PROVE  Capped(r, cap) \in 0..cap /\ Capped(r, cap) <= r
  BY DEF Capped

LEMMA CappedGrows ==
  ASSUME NEW cap \in Nat, NEW b \in 0..cap, NEW r \in Nat, b >= cap - r
  PROVE  Capped(b + 1, cap) >= cap - r
  BY DEF Capped

LEMMA CappedType ==
  ASSUME NEW cap \in Nat, NEW b \in 0..cap
  PROVE  Capped(b + 1, cap) \in 0..cap /\ (Capped(b + 1, cap) < cap => b < cap)
  BY DEF Capped

LEMMA Recorded ==
  ASSUME NEW cap \in Nat, NEW a \in None..cap, a # None
  PROVE  a \in 0..cap
  BY DEF None

LEMMA OnRecord ==
  ASSUME NEW cap \in Nat, NEW a \in 0..cap
  PROVE  a # None
  BY DEF None

LEMMA PassedCut ==
  ASSUME NEW cap \in Nat, NEW a \in None..cap, NEW b \in 0..cap, NEW r \in Nat, Passed(a, cap),
         b < cap => a # None /\ a <= b + r
  PROVE  b >= cap - r
  BY DEF Passed, None

LEMMA AgeOfRun ==
  ASSUME NEW n \in Nat, NEW a \in 0..n, NEW b \in Nat
  PROVE  a \in Nat /\ a <= b + n /\ (a < n => a + 1 \in 0..n)
  OBVIOUS

LEMMA Caps ==
  /\ MissingCap \in Nat /\ RestartCooldown \in Nat /\ CycleCooldown \in Nat
  /\ RunLimit \in Nat
  /\ \A cap \in Nat : 0 \in 0..cap /\ 0 \in None..cap /\ None \in None..cap
  /\ 0 # None
  BY PppAssumption DEF MissingCap, None

-----------------------------------------------------------------------------
LEMMA InitInv == Init => IInv
<1> SUFFICES ASSUME Init PROVE IInv
  OBVIOUS
<1>1. Ages
  BY Caps DEF Init, Ages
<1>2. Flags /\ LinkOver /\ Steps
  BY DEF Init, Flags, LinkOver, Steps, ToCut
<1>3. CutOnRecord
  <2>1. ~ (CycleCooldown < CycleCooldown)
    BY Caps
  <2> QED
    BY <2>1 DEF Init, CutOnRecord
<1>4. CutPermitted /\ LteAccounted /\ HmAccounted
  BY DEF Init, CutPermitted, ToCut, LteAccounted, HmAccounted
<1> QED
  BY <1>1, <1>2, <1>3, <1>4 DEF IInv

LEMMA AgesStep == Ages /\ [Next]_vars => Ages'
<1> SUFFICES ASSUME Ages, [Next]_vars PROVE Ages'
  OBVIOUS
<1> USE Caps DEF Ages, world, units, files, history
<1>1. CASE Tick
  <2>1. runAge' \in 0..RunLimit
    BY <1>1, AgeOfRun DEF Tick
  <2> QED
    BY <1>1, <2>1, OlderType, CappedType DEF Tick
<1>2. CASE LinkChanges \/ DeviceChanges \/ ForeignChanges \/ Operator
  BY <1>2 DEF LinkChanges, DeviceChanges, ForeignChanges, Operator, OperatorStops, OperatorStarts
<1>3. CASE Decide
  BY <1>3 DEF Decide, LinkSeen, MaintenanceSeen, FirstMissing, RestartDue, CycleDue
<1>4. CASE Stamp
  <2>1. lastCycle' \in 0..CycleCooldown
    BY <1>4, StampType, AgeOfRun DEF Stamp, CycleStamp
  <2>2. lastCycle' \in None..CycleCooldown
    BY <2>1 DEF None
  <2> QED
    BY <1>4, <2>2 DEF Stamp
<1>5. CASE Continue /\ ~Stamp
  BY <1>5 DEF Continue, IssueRestart, StopLte, StopHostMonitor, CycleFails, PowerCycle, WaitEnds,
              StartLte, StartHostMonitor
<1>6. CASE Killed \/ HostReboots
  BY <1>6 DEF Killed, HostReboots
<1>7. CASE UNCHANGED vars
  BY <1>7 DEF vars
<1> QED
  BY <1>1, <1>2, <1>3, <1>4, <1>5, <1>6, <1>7 DEF Next, Continue

LEMMA FlagsStep == Flags /\ LinkOver /\ [Next]_vars => Flags' /\ LinkOver'
<1> SUFFICES ASSUME Flags, LinkOver, [Next]_vars PROVE Flags' /\ LinkOver'
  OBVIOUS
<1> USE DEF Flags, LinkOver, world, units, files, history
<1>1. CASE Tick
  BY <1>1 DEF Tick
<1>2. CASE LinkChanges
  BY <1>2 DEF LinkChanges
<1>3. CASE DeviceChanges
  BY <1>3 DEF DeviceChanges
<1>4. CASE ForeignChanges
  BY <1>4 DEF ForeignChanges
<1>5. ASSUME NEW u \in {"lte", "hm"}, OperatorStops(u)
      PROVE  Flags' /\ LinkOver'
  BY <1>5 DEF OperatorStops
<1>6. ASSUME NEW u \in {"lte", "hm"}, OperatorStarts(u)
      PROVE  Flags' /\ LinkOver'
  BY <1>6 DEF OperatorStarts
<1>7. CASE LinkSeen \/ MaintenanceSeen \/ FirstMissing \/ RestartDue
  BY <1>7 DEF LinkSeen, MaintenanceSeen, FirstMissing, RestartDue
<1>8. CASE CycleDue
  BY <1>8 DEF CycleDue
<1>9. CASE IssueRestart
  BY <1>9 DEF IssueRestart
<1>10. CASE StopLte
  BY <1>10 DEF StopLte
<1>11. CASE StopHostMonitor
  BY <1>11 DEF StopHostMonitor
<1>12. CASE CycleFails
  BY <1>12 DEF CycleFails
<1>13. CASE PowerCycle
  BY <1>13 DEF PowerCycle
<1>14. CASE WaitEnds
  BY <1>14 DEF WaitEnds
<1>15. CASE StartLte
  BY <1>15 DEF StartLte
<1>16. CASE StartHostMonitor
  BY <1>16 DEF StartHostMonitor
<1>17. CASE Killed
  BY <1>17 DEF Killed
<1>18. CASE HostReboots
  BY <1>18 DEF HostReboots
<1>19. CASE Stamp
  BY <1>19 DEF Stamp
<1>20. CASE UNCHANGED vars
  BY <1>20 DEF vars
<1> QED
  BY <1>1, <1>2, <1>3, <1>4, <1>5, <1>6, <1>7, <1>8, <1>9, <1>10, <1>11, <1>12, <1>13,
     <1>14, <1>15, <1>16, <1>17, <1>18, <1>19, <1>20 DEF Next, Operator, Decide, Continue

LEMMA StepsStep == Steps /\ Ages /\ [Next]_vars => Steps'
<1> SUFFICES ASSUME Steps, Ages, [Next]_vars PROVE Steps'
  OBVIOUS
<1> USE Caps DEF Steps, ToCut, world, units, files, history
<1>1. CASE Tick
  BY <1>1, OlderType DEF Tick, Ages
<1>2. CASE LinkChanges \/ DeviceChanges \/ ForeignChanges \/ Operator
  BY <1>2 DEF LinkChanges, DeviceChanges, ForeignChanges, Operator, OperatorStops, OperatorStarts
<1>3. CASE Decide
  BY <1>3 DEF Decide, LinkSeen, MaintenanceSeen, FirstMissing, RestartDue, CycleDue, CyclePermitted,
              Confirmed, Unrepaired
<1>4. CASE Stamp
  <2>1. lastCycle' \in 0..CycleCooldown
    BY <1>4, StampType, AgeOfRun DEF Stamp, CycleStamp, Ages
  <2>2. lastCycle' # None
    BY <2>1, OnRecord
  <2> QED
    BY <1>4, <2>2 DEF Stamp
<1>5. CASE Continue /\ ~Stamp
  BY <1>5 DEF Continue, IssueRestart, StopLte, StopHostMonitor, CycleFails, PowerCycle, WaitEnds,
              StartLte, StartHostMonitor, CycleFailed
<1>6. CASE Killed \/ HostReboots
  BY <1>6 DEF Killed, HostReboots
<1>7. CASE UNCHANGED vars
  BY <1>7 DEF vars
<1> QED
  BY <1>1, <1>2, <1>3, <1>4, <1>5, <1>6, <1>7 DEF Next, Continue

LEMMA CutTick == Ages /\ CutOnRecord /\ CutPermitted /\ Tick => CutOnRecord' /\ CutPermitted'
<1> SUFFICES ASSUME Ages, CutOnRecord, CutPermitted, Tick PROVE CutOnRecord' /\ CutPermitted'
  OBVIOUS
<1>1. /\ lastCycle \in None..CycleCooldown /\ powerCut \in 0..CycleCooldown
      /\ runAge \in 0..RunLimit /\ CycleCooldown \in Nat /\ RunLimit \in Nat
  BY PppAssumption DEF Ages
<1>2. /\ lastCycle' = Older(lastCycle, CycleCooldown)
      /\ powerCut' = Capped(powerCut + 1, CycleCooldown)
      /\ booted' = booted /\ pc' = pc
      /\ pc # "idle" => runAge' = runAge + 1
  BY DEF Tick
<1>3. ASSUME ~booted', powerCut' < CycleCooldown
      PROVE  lastCycle' # None /\ lastCycle' <= powerCut' + RunLimit
  <2>1. powerCut < CycleCooldown
    BY <1>1, <1>2, <1>3, CappedType
  <2>2. lastCycle # None /\ lastCycle <= powerCut + RunLimit
    BY <1>2, <1>3, <2>1 DEF CutOnRecord
  <2>3. lastCycle \in 0..CycleCooldown
    BY <1>1, <2>2, Recorded
  <2>4. Older(lastCycle, CycleCooldown) <= Capped(powerCut + 1, CycleCooldown) + RunLimit
    BY <1>1, <1>2, <1>3, <2>2, <2>3, OlderKeepsOrder
  <2> QED
    BY <1>1, <1>2, <2>2, <2>4, OlderType
<1>4. ASSUME pc' \in ToCut \cup {"stamp"}, ~booted'
      PROVE  powerCut' >= CycleCooldown - RunLimit
  <2>1. powerCut >= CycleCooldown - RunLimit
    BY <1>2, <1>4 DEF CutPermitted
  <2> QED
    BY <1>1, <1>2, <2>1, CappedGrows
<1>5. ASSUME pc' \in ToCut
      PROVE  lastCycle' # None /\ lastCycle' <= runAge'
  <2>1. lastCycle # None /\ lastCycle <= runAge /\ runAge' = runAge + 1
    BY <1>2, <1>5 DEF CutPermitted, ToCut
  <2>2. lastCycle \in 0..CycleCooldown /\ runAge \in Nat
    BY <1>1, <2>1, Recorded
  <2> QED
    BY <1>1, <1>2, <2>1, <2>2, OlderAtMostOne, OlderType
<1> QED
  BY <1>3, <1>4, <1>5 DEF CutOnRecord, CutPermitted

LEMMA CutDue == Ages /\ CutOnRecord /\ CycleDue => CutOnRecord' /\ CutPermitted'
<1> SUFFICES ASSUME Ages, CutOnRecord, CycleDue PROVE CutOnRecord' /\ CutPermitted'
  OBVIOUS
<1>1. /\ lastCycle \in None..CycleCooldown /\ powerCut \in 0..CycleCooldown
      /\ CycleCooldown \in Nat /\ RunLimit \in Nat
  BY PppAssumption DEF Ages
<1>2. /\ Passed(lastCycle, CycleCooldown) /\ pc' = "stamp"
      /\ lastCycle' = lastCycle /\ powerCut' = powerCut /\ booted' = booted
  BY DEF CycleDue, CyclePermitted, files, history
<1>3. ASSUME ~booted
      PROVE  powerCut >= CycleCooldown - RunLimit
  <2>1. powerCut < CycleCooldown => lastCycle # None /\ lastCycle <= powerCut + RunLimit
    BY <1>3 DEF CutOnRecord
  <2> QED
    BY <1>1, <1>2, <2>1, PassedCut
<1> QED
  BY <1>2, <1>3 DEF CutOnRecord, CutPermitted, ToCut

(* The stamp replaces an epoch that is on record by the younger reading.   *)
LEMMA CutStamp ==
  Ages /\ CutOnRecord /\ CutPermitted /\ Stamp => CutOnRecord' /\ CutPermitted'
<1> SUFFICES ASSUME Ages, CutOnRecord, CutPermitted, Stamp PROVE CutOnRecord' /\ CutPermitted'
  OBVIOUS
<1>1. /\ powerCut \in 0..CycleCooldown /\ runAge \in 0..RunLimit
      /\ CycleCooldown \in Nat /\ RunLimit \in Nat
  BY PppAssumption DEF Ages
<1>2. /\ pc = "stamp" /\ pc' = "stop lte" /\ runAge' = runAge
      /\ lastCycle' = Capped(runAge, CycleCooldown) /\ powerCut' = powerCut /\ booted' = booted
  BY DEF Stamp, CycleStamp, history
<1>3. /\ runAge \in Nat /\ powerCut \in Nat /\ runAge <= powerCut + RunLimit
  BY <1>1, AgeOfRun
<1>4. /\ lastCycle' \in 0..CycleCooldown /\ lastCycle' <= runAge
  BY <1>1, <1>2, <1>3, StampType
<1>5. lastCycle' # None
  BY <1>1, <1>4, OnRecord
<1>6. lastCycle' <= powerCut + RunLimit
  BY <1>1, <1>3, <1>4
<1>7. booted \/ powerCut >= CycleCooldown - RunLimit
  BY <1>2 DEF CutPermitted
<1> QED
  BY <1>2, <1>4, <1>5, <1>6, <1>7 DEF CutOnRecord, CutPermitted

LEMMA CutNow ==
  Ages /\ CutPermitted /\ PowerCycle => CutOnRecord' /\ CutPermitted'
<1> SUFFICES ASSUME Ages, CutPermitted, PowerCycle PROVE CutOnRecord' /\ CutPermitted'
  OBVIOUS
<1>1. /\ lastCycle \in None..CycleCooldown /\ runAge \in 0..RunLimit
      /\ CycleCooldown \in Nat /\ RunLimit \in Nat
  BY PppAssumption DEF Ages
<1>2. /\ pc = "cycle" /\ pc' = "wait" /\ powerCut' = 0 /\ lastCycle' = lastCycle
  BY DEF PowerCycle, files
<1>3. lastCycle # None /\ lastCycle <= runAge
  BY <1>2 DEF CutPermitted, ToCut
<1>4. lastCycle <= 0 + RunLimit
  BY <1>1, <1>3 DEF None
<1> QED
  BY <1>2, <1>3, <1>4 DEF CutOnRecord, CutPermitted, ToCut

LEMMA CutStep ==
  Ages /\ CutOnRecord /\ CutPermitted /\ [Next]_vars => CutOnRecord' /\ CutPermitted'
<1> SUFFICES ASSUME Ages, CutOnRecord, CutPermitted, [Next]_vars PROVE CutOnRecord' /\ CutPermitted'
  OBVIOUS
<1>1. CASE Tick \/ CycleDue \/ Stamp \/ PowerCycle
  BY <1>1, CutTick, CutDue, CutStamp, CutNow
<1> USE DEF CutOnRecord, CutPermitted, ToCut, world, units, files, history
<1>2. CASE LinkChanges \/ DeviceChanges \/ ForeignChanges \/ Operator
  BY <1>2 DEF LinkChanges, DeviceChanges, ForeignChanges, Operator, OperatorStops, OperatorStarts
<1>3. CASE LinkSeen \/ MaintenanceSeen \/ FirstMissing \/ RestartDue
  BY <1>3 DEF LinkSeen, MaintenanceSeen, FirstMissing, RestartDue, Confirmed, Unrepaired
<1>4. CASE IssueRestart \/ StopLte \/ StopHostMonitor \/ CycleFails \/ WaitEnds \/ StartLte
           \/ StartHostMonitor
  BY <1>4 DEF IssueRestart, StopLte, StopHostMonitor, CycleFails, WaitEnds, StartLte, StartHostMonitor,
              CycleFailed
<1>5. CASE Killed \/ HostReboots
  BY <1>5 DEF Killed, HostReboots
<1>6. CASE UNCHANGED vars
  BY <1>6 DEF vars
<1> QED
  BY <1>1, <1>2, <1>3, <1>4, <1>5, <1>6 DEF Next, Decide, Continue

LEMMA ServicesStep ==
  Flags /\ Steps /\ LteAccounted /\ HmAccounted /\ [Next]_vars => LteAccounted' /\ HmAccounted'
<1> SUFFICES ASSUME Flags, Steps, LteAccounted, HmAccounted, [Next]_vars PROVE LteAccounted' /\ HmAccounted'
  OBVIOUS
<1> USE DEF LteAccounted, HmAccounted, world, units, files, history
<1>0. /\ lte \in BOOLEAN /\ hm \in BOOLEAN /\ hmWas \in BOOLEAN /\ killed \in BOOLEAN
      /\ maint \subseteq {"lte", "hm"}
  BY DEF Flags, Steps
<1>1. CASE Tick \/ LinkChanges \/ DeviceChanges \/ ForeignChanges
  BY <1>1 DEF Tick, LinkChanges, DeviceChanges, ForeignChanges
<1>2. ASSUME NEW u \in {"lte", "hm"}, OperatorStops(u) \/ OperatorStarts(u)
      PROVE  LteAccounted' /\ HmAccounted'
  BY <1>0, <1>2 DEF OperatorStops, OperatorStarts
<1>3. CASE Decide
  BY <1>3 DEF Decide, LinkSeen, MaintenanceSeen, FirstMissing, RestartDue, CycleDue, CyclePermitted,
              Confirmed, Unrepaired
<1>4. CASE Continue
  BY <1>0, <1>4 DEF Continue, IssueRestart, Stamp, StopLte, StopHostMonitor, CycleFails, PowerCycle, WaitEnds,
                    StartLte, StartHostMonitor, CycleFailed
<1>5. CASE Killed \/ HostReboots
  BY <1>5 DEF Killed, HostReboots
<1>6. CASE UNCHANGED vars
  BY <1>6 DEF vars
<1> QED
  BY <1>1, <1>2, <1>3, <1>4, <1>5, <1>6 DEF Next, Operator

LEMMA NextInv == IInv /\ [Next]_vars => IInv'
  BY AgesStep, FlagsStep, StepsStep, CutStep, ServicesStep DEF IInv

(* The inductive invariant: each cut is on record, each stop is accounted  *)
(* for by the step of a run.                                               *)
THEOREM AlwaysOnRecord == Spec => []IInv
  BY InitInv, NextInv, PTL DEF Spec

(* Every variable has its type, and a cycle is on record before it begins. *)
THEOREM TypeCorrect == Spec => []TypeOK
<1>1. IInv => TypeOK
  BY TypeParts DEF IInv
<1> QED
  BY <1>1, AlwaysOnRecord, PTL

(* Whatever a run stops it starts again, unless it is killed.              *)
THEOREM ServicesComeBack == Spec => []ServicesRestored
<1>1. IInv => ServicesRestored
  BY DEF IInv, LteAccounted, HmAccounted, ServicesRestored
<1> QED
  BY <1>1, AlwaysOnRecord, PTL

(* Two cuts are never closer than the cooldown less the time of one run,   *)
(* as long as the host stays up, whatever the periods.                     *)
THEOREM CutsAreLimited == Spec => CycleLimitBetweenBoots
<1>1. IInv /\ [Next]_vars =>
        [pc = "cycle" /\ pc' = "wait" => powerCut >= CycleCooldown - RunLimit \/ booted]_vars
  BY DEF IInv, CutPermitted, ToCut
<1> QED
  BY <1>1, AlwaysOnRecord, PTL DEF Spec, CycleLimitBetweenBoots
================================================================================
