------------------------ MODULE RecoveryWatchdog_proofs ------------------------
(***************************************************************************)
(* Theorems about RecoveryWatchdog, for all windows, ages and gaps.        *)
(***************************************************************************)
EXTENDS RecoveryWatchdog, TLAPS

-----------------------------------------------------------------------------
(* Capped and Older stay within their cap.                                 *)
LEMMA CappedType == ASSUME NEW n \in Nat, NEW cap \in Nat
                    PROVE  Capped(n, cap) \in 0..cap /\ Capped(n, cap) <= n
  BY DEF Capped

LEMMA CappedGrows == ASSUME NEW a \in Nat, NEW b \in Nat, NEW cap \in Nat, a <= b
                     PROVE  Capped(a, cap) <= Capped(b, cap)
  BY DEF Capped

LEMMA OlderType == ASSUME NEW cap \in Nat, NEW age \in NotSince..cap
                   PROVE  /\ Older(age, cap) \in NotSince..cap
                          /\ Older(age, cap) = NotSince <=> age = NotSince
                          /\ age # NotSince => Older(age, cap) = Capped(age + 1, cap)
  BY DEF Older, Capped, NotSince

LEMMA Caps == SilenceCap \in Nat /\ StaleCap \in Nat /\ OffConfirm \in Nat /\ HealthyConfirm \in Nat
              /\ StaleCap = WeightMaxAge + LoopGap + 1 /\ WeightMaxAge \in Nat /\ LoopGap \in Nat
              /\ SilenceCap > HealthyAge + LoopGap /\ HealthyAge \in Nat
  BY WatchdogAssumption DEF SilenceCap, StaleCap

-----------------------------------------------------------------------------
LEMMA NotSinceType == ASSUME NEW cap \in Nat
                      PROVE  NotSince \in NotSince..cap /\ 0 \in 0..cap /\ cap \in 0..cap
  BY DEF NotSince

LEMMA TypeInit == Init => TypeOK
  BY Caps, NotSinceType DEF Init, TypeOK

LEMMA TypeTick == TypeOK /\ Tick => TypeOK'
<1> SUFFICES ASSUME TypeOK, Tick PROVE TypeOK'
  OBVIOUS
<1>1. weightAge' \in 0..StaleCap /\ rawAge' \in 0..StaleCap /\ silence' \in 0..SilenceCap
  BY Caps, CappedType DEF TypeOK, Tick
<1>2. offFor' \in NotSince..OffConfirm /\ healthyFor' \in NotSince..HealthyConfirm
  BY Caps, OlderType DEF TypeOK, Tick
<1>3. gap' \in 0..LoopGap
  BY Caps DEF TypeOK, Tick, Running
<1>4. calmFor' \in 0..HealthyConfirm
  <2>1. calmFor + 1 \in Nat /\ 0 \in 0..HealthyConfirm
    BY Caps DEF TypeOK
  <2> QED
    BY <2>1, Caps, CappedType DEF Tick
<1>5. recovered' \in BOOLEAN
  BY DEF TypeOK, Tick
<1> QED
  BY <1>1, <1>2, <1>3, <1>4, <1>5 DEF TypeOK, Tick

(* What an observation makes of its two confirmations.                     *)
LEMMA ObserveTypes ==
  ASSUME TypeOK
  PROVE  /\ OffForNow \in NotSince..OffConfirm
         /\ HealthyForNow \in NotSince..HealthyConfirm
         /\ NotSince \in NotSince..HealthyConfirm
         /\ LatchedNow \in BOOLEAN /\ MayReboot \in BOOLEAN
  BY Caps, WatchdogAssumption DEF TypeOK, OffForNow, HealthyForNow, LatchedNow, MayReboot, NotSince,
     ClearsLatch, OffConfirmed, TelemetryInactive

LEMMA TypeNext == TypeOK /\ [Next]_vars => TypeOK'
<1> SUFFICES ASSUME TypeOK, [Next]_vars PROVE TypeOK'
  OBVIOUS
<1>1. CASE Weights
  BY <1>1, Caps DEF Weights, PublishWeight, TimeOf, TypeOK, acks, watchdog, history
<1>2. CASE Acknowledge
  BY <1>2, Caps DEF Acknowledge, TypeOK, inputs, watchdog, history
<1>3. CASE TakeSnapshot
  BY <1>3 DEF TakeSnapshot, TypeOK, inputs, acks, watchdog
<1>4. CASE Observe
  <2>1. offFor' \in NotSince..OffConfirm /\ healthyFor' \in NotSince..HealthyConfirm
    BY <1>4, ObserveTypes DEF Observe
  <2>2. latched' \in BOOLEAN /\ file' \in {"absent", "clear", "set", "damaged"}
    BY <1>4, ObserveTypes DEF Observe, FileNow, FileUnsaved, TypeOK
  <2>3. gap' \in 0..LoopGap
    BY <1>4, Caps DEF Observe
  <2> QED
    BY <1>4, <2>1, <2>2, <2>3 DEF Observe, TypeOK, inputs, acks, history
<1>5. CASE RequestReboot
  BY <1>5, Caps, NotSinceType DEF RequestReboot, TypeOK, inputs, acks, watchdog
<1>6. CASE Crash
  BY <1>6, Caps, NotSinceType DEF Crash, TypeOK
<1>7. CASE Restart
  BY <1>7, Caps DEF Restart, TypeOK, inputs, history
<1>8. CASE RotFile
  BY <1>8 DEF RotFile, TypeOK, inputs, acks, watchdog, history
<1>9. CASE UNCHANGED vars
  BY <1>9 DEF vars, TypeOK
<1> QED
  BY TypeTick, <1>1, <1>2, <1>3, <1>4, <1>5, <1>6, <1>7, <1>8, <1>9 DEF Next, MainLoop

(* Every variable has its type, ages and windows stay within their caps.   *)
THEOREM TypeCorrect == Spec => []TypeOK
  BY TypeInit, TypeNext, PTL DEF Spec

-----------------------------------------------------------------------------
(* The latch.  Nobody forgets an outage that has had its reboot: a running *)
(* watchdog is latched until the recovery is complete, and its time of     *)
(* health never exceeds the time for which acknowledgements kept coming.   *)
LatchFollowsFile == latched => file \in {"set", "damaged"}
LatchUntilRecovered ==
  /\ ~recovered => file \in {"set", "damaged"}
  /\ Running /\ ~recovered => latched
  /\ pc = "request" => recovered /\ latched /\ healthyFor = NotSince
HealthIsCalm ==
  /\ calmFor >= HealthyConfirm => recovered
  /\ healthyFor # NotSince =>
       /\ Running /\ everAcked /\ silence <= HealthyAge + gap
       /\ recovered \/ calmFor >= healthyFor

LatchInv == TypeOK /\ LatchFollowsFile /\ LatchUntilRecovered /\ HealthIsCalm

LEMMA LatchInit == Init => LatchInv
<1>1. ASSUME Init PROVE LatchFollowsFile /\ LatchUntilRecovered /\ HealthIsCalm
  BY <1>1 DEF Init, LatchFollowsFile, LatchUntilRecovered, HealthIsCalm
<1> QED
  BY <1>1, TypeInit DEF LatchInv

LEMMA LatchTick == LatchInv /\ Tick => LatchInv'
<1> SUFFICES ASSUME LatchInv, Tick PROVE LatchInv'
  OBVIOUS
<1>1. TypeOK'
  BY TypeTick DEF LatchInv
<1>2. recovered => recovered'
  BY DEF Tick
<1>3. LatchFollowsFile' /\ LatchUntilRecovered'
  <2>1. pc = "request" => healthyFor' = NotSince
    BY OlderType, Caps DEF LatchInv, TypeOK, LatchUntilRecovered, Tick
  <2> QED
    BY <1>2, <2>1 DEF LatchInv, LatchFollowsFile, LatchUntilRecovered, Running, Tick
<1>4. ASSUME healthyFor' # NotSince
      PROVE  /\ Running' /\ everAcked' /\ silence' <= HealthyAge + gap'
             /\ recovered' \/ calmFor' >= healthyFor'
  <2>1. healthyFor # NotSince /\ healthyFor' = Capped(healthyFor + 1, HealthyConfirm)
        /\ healthyFor \in Nat
    BY <1>4, OlderType, Caps DEF LatchInv, TypeOK, Tick, NotSince
  <2>2. Running /\ everAcked /\ silence <= HealthyAge + gap /\ (recovered \/ calmFor >= healthyFor)
    BY <2>1 DEF LatchInv, HealthIsCalm
  <2>3. gap \in Nat /\ gap' = gap + 1 /\ gap' <= LoopGap /\ silence \in Nat /\ calmFor \in Nat
    BY <2>2, Caps DEF LatchInv, TypeOK, Tick
  <2>4. silence' <= silence + 1 /\ silence' \in Nat
    BY <2>3, CappedType, Caps DEF Tick
  <2>5. silence' <= HealthyAge + gap' /\ Calm(silence')
    BY <2>2, <2>3, <2>4, Caps DEF Calm
  <2>6. calmFor' = Capped(calmFor + 1, HealthyConfirm)
    BY <2>2, <2>5 DEF Tick
  <2>7. calmFor >= healthyFor => calmFor' >= healthyFor'
    BY <2>1, <2>3, <2>6, CappedGrows, CappedType, Caps
  <2> QED
    BY <1>2, <2>2, <2>5, <2>7 DEF Tick, Running
<1>5. calmFor' >= HealthyConfirm => recovered'
  BY DEF Tick
<1> QED
  BY <1>1, <1>3, <1>4, <1>5 DEF LatchInv, HealthIsCalm

(* An observation clears the latch only after a complete recovery.         *)
LEMMA ClearedIsRecovered ==
  ASSUME LatchInv, HealthyConfirm > 0, ClearsLatch
  PROVE  recovered
<1>1. HealthyForNow # NotSince /\ HealthyForNow >= HealthyConfirm
  BY DEF ClearsLatch
<1>2. healthyFor # NotSince /\ healthyFor >= HealthyConfirm
  BY <1>1, Caps DEF HealthyForNow
<1>3. calmFor \in Nat /\ healthyFor \in Int
  BY Caps DEF LatchInv, TypeOK, NotSince
<1> QED
  BY <1>2, <1>3, Caps DEF LatchInv, HealthIsCalm

LEMMA LatchObserve == ASSUME LatchInv, HealthyConfirm > 0, Observe PROVE LatchInv'
<1>1. TypeOK'
  BY TypeNext DEF LatchInv, Next, MainLoop
<1>2. /\ recovered' = recovered /\ calmFor' = calmFor /\ silence' = silence
      /\ everAcked' = everAcked /\ gap' = 0
      /\ file' = IF MayReboot THEN "set" ELSE IF ClearsLatch THEN "clear" ELSE file
      /\ latched' = (LatchedNow \/ MayReboot)
      /\ healthyFor' = IF ClearsLatch THEN NotSince ELSE HealthyForNow
      /\ pc' = IF MayReboot THEN "request" ELSE "snapshot"
  BY DEF Observe, FileNow, FileUnsaved, acks, history
<1>3. LatchFollowsFile'
  BY <1>2 DEF LatchInv, LatchFollowsFile, LatchedNow
<1>4. ~recovered => latched /\ ~ClearsLatch
  BY ClearedIsRecovered DEF LatchInv, LatchUntilRecovered, Running, Observe
<1>5. MayReboot => recovered /\ (HealthyForNow = NotSince \/ ClearsLatch)
  BY <1>4 DEF MayReboot, LatchedNow, HealthyForNow
<1>6. LatchUntilRecovered'
  BY <1>2, <1>4, <1>5, ClearedIsRecovered DEF LatchInv, LatchUntilRecovered, LatchedNow, MayReboot, Running
<1>7. healthyFor' # NotSince =>
        /\ Running' /\ everAcked' /\ silence' <= HealthyAge + gap'
        /\ recovered' \/ calmFor' >= healthyFor'
  <2> SUFFICES ASSUME healthyFor' # NotSince
               PROVE  Running' /\ everAcked' /\ silence' <= HealthyAge + gap'
                      /\ (recovered' \/ calmFor' >= healthyFor')
    OBVIOUS
  <2>1. HealthyRecent /\ healthyFor' = IF healthyFor = NotSince THEN 0 ELSE healthyFor
    BY <1>2 DEF HealthyForNow
  <2>2. calmFor \in Nat /\ silence \in Nat
    BY Caps DEF LatchInv, TypeOK
  <2> QED
    BY <1>2, <2>1, <2>2, Caps DEF LatchInv, HealthIsCalm, HealthyRecent, Running
<1> QED
  BY <1>1, <1>2, <1>3, <1>6, <1>7 DEF LatchInv, HealthIsCalm

LEMMA LatchNext == ASSUME HealthyConfirm > 0, LatchInv, [Next]_vars PROVE LatchInv'
<1>1. TypeOK'
  BY TypeNext DEF LatchInv
<1> USE DEF LatchInv, LatchFollowsFile, LatchUntilRecovered, HealthIsCalm, Running
<1>2. CASE Weights
  BY <1>1, <1>2 DEF Weights, PublishWeight, acks, watchdog, history
<1>3. CASE Acknowledge
  <2>1. 0 <= HealthyAge + gap
    BY Caps DEF TypeOK
  <2> QED
    BY <1>1, <1>3, <2>1 DEF Acknowledge, inputs, watchdog, history
<1>4. CASE TakeSnapshot
  BY <1>1, <1>4 DEF TakeSnapshot, inputs, acks, watchdog
<1>5. CASE RequestReboot
  BY <1>1, <1>5, Caps DEF RequestReboot, inputs, acks, watchdog
<1>6. CASE Crash
  BY <1>1, <1>6, Caps DEF Crash
<1>7. CASE Restart
  BY <1>1, <1>7 DEF Restart, inputs, history
<1>8. CASE RotFile
  BY <1>1, <1>8 DEF RotFile, inputs, acks, watchdog, history
<1>9. CASE UNCHANGED vars
  BY <1>1, <1>9 DEF vars
<1> QED
  BY LatchTick, LatchObserve, <1>2, <1>3, <1>4, <1>5, <1>6, <1>7, <1>8, <1>9 DEF Next, MainLoop

(* "Request at most one reboot per confirmed telemetry outage"             *)
(* (recovery_watchdog.py), for any windows and any order of crashes,       *)
(* restarts and damage to the file.  With a confirmation time of 0 a       *)
(* recovery is never waited for.                                           *)
THEOREM OneRebootOnly == ASSUME HealthyConfirm > 0 PROVE Spec => []OneRebootPerOutage
<1>1. LatchInv => OneRebootPerOutage
  BY DEF LatchInv, LatchUntilRecovered, OneRebootPerOutage
<1> QED
  BY <1>1, LatchInit, LatchNext, PTL DEF Spec

(* No crash forgets a reboot: what memory knows the file knows.            *)
THEOREM LatchSurvives == ASSUME HealthyConfirm > 0 PROVE Spec => []LatchIsDurable
<1>1. LatchInv => LatchIsDurable
  BY DEF LatchInv, LatchFollowsFile, LatchUntilRecovered, LatchIsDurable
<1> QED
  BY <1>1, LatchInit, LatchNext, PTL DEF Spec

-----------------------------------------------------------------------------
(* The weight behind a reboot.  While the terminal counts as off, the      *)
(* latest sample is at most as old as allowed and the time since the last  *)
(* observation, and so is the one that the loop has copied; a program that *)
(* is not running has no confirmation under way.                           *)
OffIsRecent ==
  offFor # NotSince =>
    /\ Running
    /\ weightAge <= WeightMaxAge + gap
    /\ pc = "observe" => rawAge <= WeightMaxAge + gap

WeightInv == TypeOK /\ OffIsRecent

LEMMA WeightNext == ASSUME WeightInv, [Next]_vars PROVE WeightInv'
<1>1. TypeOK'
  BY TypeNext DEF WeightInv
<1> USE DEF WeightInv, OffIsRecent
<1>2. CASE Tick
  <2>1. weightAge \in Nat /\ rawAge \in Nat /\ gap \in Nat
    BY Caps DEF TypeOK
  <2>2. weightAge' <= weightAge + 1 /\ rawAge' <= rawAge + 1 /\ weightAge' \in Nat /\ rawAge' \in Nat
    BY <1>2, <2>1, CappedType, Caps DEF Tick
  <2>3. offFor' # NotSince => offFor # NotSince
    BY <1>2, Caps DEF Tick, TypeOK, Older
  <2>4. pc' = pc /\ gap' = (IF Running THEN gap + 1 ELSE 0)
    BY <1>2 DEF Tick
  <2> QED
    BY <1>1, <2>1, <2>2, <2>3, <2>4, Caps DEF Running
<1>3. CASE Weights
  <2>1. 0 <= WeightMaxAge + gap
    BY Caps DEF TypeOK
  <2> QED
    BY <1>1, <1>3, <2>1 DEF Weights, PublishWeight, TimeOf, Running, acks, watchdog, history
<1>4. CASE Observe
  <2>1. offFor' # NotSince => weightAge <= WeightMaxAge
    BY <1>4 DEF Observe, OffForNow, TerminalOffNow, WeightFresh
  <2>2. weightAge' = weightAge /\ gap' = 0 /\ pc' # "observe" /\ Running'
    BY <1>4 DEF Observe, inputs, Running
  <2> QED
    BY <1>1, <2>1, <2>2, Caps
<1>5. CASE Acknowledge \/ TakeSnapshot \/ RequestReboot \/ Crash \/ Restart \/ RotFile \/ UNCHANGED vars
  BY <1>1, <1>5 DEF Acknowledge, TakeSnapshot, RequestReboot, Crash, Restart, RotFile, vars,
                    Running, inputs, watchdog, acks, history
<1> QED
  BY <1>2, <1>3, <1>4, <1>5 DEF Next, MainLoop

(* "A stale or missing weight can never authorize reboot"                  *)
(* (INCIDENT_2026-07-19_20.md), up to one iteration of the main loop.      *)
THEOREM RebootsAreOnRecentWeight == Spec => RebootWeightIsRecent
<1>1. Init => WeightInv
  BY TypeInit DEF WeightInv, OffIsRecent, Init
<1>2. ASSUME WeightInv, [Next]_vars
      PROVE  [pc' = "request" /\ pc # "request" /\ OffConfirm > 0
                => raw = "off" /\ rawAge <= WeightMaxAge + LoopGap]_vars
  <2> SUFFICES ASSUME Next, pc' = "request", pc # "request", OffConfirm > 0
               PROVE  raw = "off" /\ rawAge <= WeightMaxAge + LoopGap
    BY <1>2
  <2>1. Observe
    BY DEF Next, Tick, Weights, PublishWeight, Acknowledge, MainLoop, TakeSnapshot, RequestReboot,
           Crash, Restart, RotFile
  <2>2. MayReboot /\ pc = "observe"
    BY <2>1 DEF Observe
  <2>3. TerminalOffNow /\ offFor # NotSince
    BY <2>2, Caps DEF MayReboot, OffConfirmed, OffForNow
  <2>4. rawAge <= WeightMaxAge + gap /\ raw = "off"
    BY <1>2, <2>2, <2>3 DEF WeightInv, OffIsRecent, TerminalOffNow
  <2> QED
    BY <1>2, <2>4, Caps DEF WeightInv, TypeOK
<1> QED
  BY <1>1, <1>2, WeightNext, PTL DEF Spec, RebootWeightIsRecent
=============================================================================
