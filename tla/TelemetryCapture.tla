--------------------------- MODULE TelemetryCapture ---------------------------
(***************************************************************************)
(* The main loop as the scheduler of telemetry packets: one iteration does *)
(* work of varying length, takes what GPS, scale and Wi-Fi say, confirms   *)
(* movement, goes into or leaves stationary sleep, decides whether this    *)
(* moment's packet is sent, and sleeps for the rest of the interval.       *)
(*                                                                         *)
(* The threads it reads from are WeightFilter and WifiMonitor; a position  *)
(* is only whether it is a movement sample (GpsReader has the rest).       *)
(***************************************************************************)
EXTENDS WeightFilter, WifiMonitor

CONSTANTS
  SleepEnabled,  \* send.idle_sleep_enabled
  Interval,      \* send.interval_s
  IdleInterval,  \* send.idle_interval_s, not below Interval
  IdleAfter,     \* send.idle_after_s
  Confirm,       \* send.movement_confirm_s
  Work           \* longest work of an iteration (a bound of the model)

ASSUME CaptureAssumption ==
  /\ SleepEnabled \in BOOLEAN
  /\ Interval \in Nat \ {0} /\ IdleInterval \in Nat /\ IdleInterval >= Interval
  /\ IdleAfter \in Nat /\ Confirm \in Nat /\ Work \in Nat

VARIABLES
  pc,          \* main loop: "work", "rest" (the work behind the packet), "sleep"
  loopFor,     \* time since loop_started
  sentFor,     \* age of last_telemetry_send
  candidateFor,\* age of movement_candidate_since
  confirmedFor,\* age of last_confirmed_movement
  asleep,      \* sleep_active
  moving,      \* whether a valid position says that the machine moves
  changeFor,   \* history: how long it has moved, or has not moved
  drivenFor    \* history: time since it had moved long enough, or since the start

schedule == <<sentFor, candidateFor, confirmedFor, asleep>>
drive    == <<moving, changeFor, drivenFor>>
vars     == <<filter, wifi, pc, loopFor, schedule, drive>>

(* Two captures are at most Gap apart; movement of LongDrive is confirmed, *)
(* and after LongStay without any the machine sleeps.                      *)
Longer(a, b) == IF a >= b THEN a ELSE b
Gap       == Longer(Interval, Work) + Work
LongDrive == Confirm + 2 * Gap
LongStay  == IdleAfter + Gap

Init ==
  /\ WeightInit /\ WifiInit
  /\ pc = "work" /\ loopFor = 0
  /\ sentFor = None /\ candidateFor = None /\ confirmedFor = 0
  /\ asleep = FALSE
  /\ moving = FALSE /\ changeFor = 0 /\ drivenFor = 0

-----------------------------------------------------------------------------
Current == IF asleep THEN IdleInterval ELSE Interval

Tick ==
  /\ IF pc = "sleep" THEN loopFor < Interval ELSE loopFor < Work
  /\ loopFor' = loopFor + 1
  /\ WifiTick
  /\ sentFor' = Aged(sentFor, IdleInterval + Gap)
  /\ candidateFor' = Aged(candidateFor, Confirm - 1)
  /\ confirmedFor' = Aged(confirmedFor, IdleAfter - 1)
  /\ changeFor' = Aged(changeFor, Longer(LongDrive, LongStay) - 1)
  /\ drivenFor' = IF moving /\ changeFor' >= LongDrive THEN 0 ELSE Aged(drivenFor, IdleAfter - 1)
  /\ UNCHANGED <<filter, pc, asleep, moving>>

MovementChanges ==
  /\ moving' = ~moving /\ changeFor' = 0
  /\ UNCHANGED <<filter, wifi, pc, loopFor, schedule, drivenFor>>

ReadScale == ReadWeight /\ UNCHANGED <<wifi, pc, loopFor, schedule, drive>>
PollWifi  == ScanWifi /\ UNCHANGED <<filter, pc, loopFor, schedule, drive>>

-----------------------------------------------------------------------------
(* Mutants: each sample restarts the confirmation; the interval is that of *)
(* the iteration before.                                                   *)
CandidateAnew == IF moving THEN 0 ELSE None
CurrentWas    == Current

CandidateNow == IF ~moving THEN None
                ELSE IF candidateFor = None THEN 0 ELSE candidateFor
ConfirmedNow == IF moving /\ CandidateNow >= Confirm THEN 0 ELSE confirmedFor
AsleepNow    == ConfirmedNow >= IdleAfter
CurrentNow   == IF SleepEnabled /\ AsleepNow THEN IdleInterval ELSE Interval
(* now - last_telemetry_send >= current_send_interval_s * 0.95             *)
ShouldSend   == sentFor = None \/ 20 * sentFor >= 19 * CurrentNow

Capture ==
  /\ pc = "work"
  /\ IF SleepEnabled
     THEN candidateFor' = CandidateNow /\ confirmedFor' = ConfirmedNow /\ asleep' = AsleepNow
     ELSE candidateFor' = None /\ confirmedFor' = 0 /\ asleep' = FALSE
  /\ sentFor' = IF ShouldSend THEN 0 ELSE sentFor
  /\ pc' = "rest"
  /\ UNCHANGED <<filter, wifi, loopFor, drive>>

(* time.sleep for what is left of min(current_send_interval_s, interval_s).*)
Sleep ==
  /\ pc = "rest"
  /\ pc' = "sleep"
  /\ UNCHANGED <<filter, wifi, loopFor, schedule, drive>>

Wake ==
  /\ pc = "sleep" /\ loopFor >= Interval
  /\ pc' = "work" /\ loopFor' = 0
  /\ UNCHANGED <<filter, wifi, schedule, drive>>

-----------------------------------------------------------------------------
MainLoop == Capture \/ Sleep \/ Wake
Next == Tick \/ MovementChanges \/ ReadScale \/ PollWifi \/ MainLoop

Spec == Init /\ [][Next]_vars

-----------------------------------------------------------------------------
TypeOK ==
  /\ WeightTypeOK /\ WifiTypeOK
  /\ pc \in {"work", "rest", "sleep"} /\ loopFor \in 0..Longer(Interval, Work)
  /\ sentFor \in None..(IdleInterval + Gap + 1)
  /\ candidateFor \in None..Confirm /\ confirmedFor \in 0..IdleAfter
  /\ asleep \in BOOLEAN /\ moving \in BOOLEAN
  /\ changeFor \in 0..Longer(LongDrive, LongStay) /\ drivenFor \in 0..IdleAfter

(* Whatever the work of the iterations took, and however the machine went  *)
(* to sleep or woke up, the next packet comes within the interval that is  *)
(* in force and one iteration: the tolerance of 5 % lets an iteration pass *)
(* without a packet, but never two.                                        *)
PacketsKeepComing == sentFor <= Current + Gap

(* A machine that has been driving, or a program that has been started, is *)
(* not asleep before idle_after_s without movement is over, less the time  *)
(* between two captures, at which alone the movement is looked at.         *)
DrivenIsAwake == asleep => drivenFor >= IdleAfter - Gap

(* "Never report an old non-empty client list after polling stalls"        *)
(* (config.yaml): the clients of a packet were seen within the time that a *)
(* snapshot may have and its last command could take.                      *)
WifiIsRecent == WifiClients <= WifiMaxAge + CmdTimeout

(* "slow down telemetry sending when the machine is stationary": a machine *)
(* that has stood for idle_after_s sleeps at the next capture.             *)
StandingSleeps == SleepEnabled /\ ~moving /\ changeFor >= LongStay => asleep

(* Sleep follows the movement of the machine, in both directions.          *)
SleepFollowsMovement == DrivenIsAwake /\ StandingSleeps
=============================================================================
