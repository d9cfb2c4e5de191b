-------------------------- MODULE RecoveryWatchdog --------------------------
(***************************************************************************)
(* The guarded automatic reboot: the weight sampler thread, the telemetry  *)
(* acknowledgements, the main loop that reads both at different moments of *)
(* one iteration, RecoveryWatchdog.observe, and the latch file that must   *)
(* outlive the reboot it allows.                                           *)
(*                                                                         *)
(* Time is a Tick that makes every age grow.  An age is kept only up to    *)
(* the first value above the threshold it is compared with, so that time   *)
(* may go on for ever.  A "since" of the code is the age of that moment,   *)
(* NotSince for None.                                                      *)
(***************************************************************************)
EXTENDS Integers

CONSTANTS
  Enabled,          \* auto_reboot.enabled
  Inactive,         \* telemetry_inactive_s
  OffConfirm,       \* terminal_off_confirm_s
  WeightMaxAge,     \* max_weight_age_s
  HealthyAge,       \* healthy_success_max_age_s
  HealthyConfirm,   \* healthy_reset_confirm_s
  LoopGap,          \* ticks between two observations of a running main loop
  FileMayRot        \* whether the latch file may be damaged from outside

ASSUME WatchdogAssumption ==
  /\ Enabled \in BOOLEAN /\ FileMayRot \in BOOLEAN
  /\ Inactive \in Nat \ {0} /\ LoopGap \in Nat \ {0}
  /\ OffConfirm \in Nat /\ WeightMaxAge \in Nat
  /\ HealthyAge \in Nat /\ HealthyConfirm \in Nat

VARIABLES
  sample,      \* raw value of the sampler's latest weight: "none", "on", "off"
  weightAge,   \* age of that sample; above WeightMaxAge before the first one
  silence,     \* time since the last acknowledgement, or since the start
  everAcked,   \* whether there was an acknowledgement since the start
  pc,          \* main loop: "off", "snapshot", "observe", "request"
  raw,         \* weight.raw, taken at the beginning of the iteration
  offFor,      \* age of _terminal_off_since
  healthyFor,  \* age of _healthy_since
  latched,     \* _latched
  file,        \* the latch file: "absent", "clear", "set", "damaged"
  gap,         \* ticks since the main loop's last observation
  rawAge,      \* history: the true age of the sample behind raw
  calmFor,     \* history: how long acknowledgements have kept coming
  recovered    \* history: they kept coming long enough since the last reboot

inputs   == <<sample, weightAge>>
acks     == <<silence, everAcked>>
watchdog == <<offFor, healthyFor, latched>>
history  == <<rawAge, calmFor, recovered>>
vars     == <<sample, weightAge, silence, everAcked, pc, raw, offFor,
              healthyFor, latched, file, gap, rawAge, calmFor, recovered>>

NotSince == -1
Running  == pc # "off"
Capped(n, cap) == IF n <= cap THEN n ELSE cap
Older(age, cap) == IF age = NotSince THEN age ELSE Capped(age + 1, cap)

SilenceCap == Inactive + HealthyAge + LoopGap + 1
StaleCap   == WeightMaxAge + LoopGap + 1

Init ==
  /\ sample = "none" /\ weightAge = StaleCap
  /\ silence = 0 /\ everAcked = FALSE
  /\ pc = "snapshot" /\ raw = "none"
  /\ offFor = NotSince /\ healthyFor = NotSince
  /\ latched = FALSE /\ file = "absent"
  /\ gap = 0
  /\ rawAge = StaleCap /\ calmFor = 0 /\ recovered = TRUE

-----------------------------------------------------------------------------
(* Acknowledgements count as coming while none is later than the healthy   *)
(* age by more than the time between two observations.                     *)
Calm(s) == everAcked /\ s <= HealthyAge + LoopGap

Tick ==
  /\ Running => gap < LoopGap
  /\ weightAge' = Capped(weightAge + 1, StaleCap)
  /\ silence' = Capped(silence + 1, SilenceCap)
  /\ offFor' = Older(offFor, OffConfirm)
  /\ healthyFor' = Older(healthyFor, HealthyConfirm)
  /\ gap' = IF Running THEN gap + 1 ELSE 0
  /\ rawAge' = Capped(rawAge + 1, StaleCap)
  /\ calmFor' = IF Running /\ Calm(silence') THEN Capped(calmFor + 1, HealthyConfirm) ELSE 0
  /\ recovered' = (recovered \/ calmFor' >= HealthyConfirm)
  /\ UNCHANGED <<sample, everAcked, pc, raw, latched, file>>

(* A mutant of TimeOf: a failed read forgets when it was made.             *)
UntimedNone(v) == IF v = "none" THEN NotSince ELSE 0
TimeOf(v)      == 0

(* WeightSampler._run publishes a value and its time together; a failed    *)
(* read publishes a weight without a raw value, and is as recent.          *)
PublishWeight(v) ==
  /\ Running
  /\ sample' = v /\ weightAge' = TimeOf(v)
  /\ UNCHANGED <<acks, pc, raw, watchdog, file, gap, history>>

(* The telemetry worker records the time of a batch with an acknowledged   *)
(* row (TelemetryOutbox, DeleteAcked).                                     *)
Acknowledge ==
  /\ Running
  /\ silence' = 0 /\ everAcked' = TRUE
  /\ UNCHANGED <<inputs, pc, raw, watchdog, file, gap, history>>

-----------------------------------------------------------------------------
(* weight = weight_sampler.latest(), early in the iteration.               *)
TakeSnapshot ==
  /\ pc = "snapshot"
  /\ raw' = sample
  /\ rawAge' = weightAge
  /\ pc' = "observe"
  /\ UNCHANGED <<inputs, acks, watchdog, file, gap, calmFor, recovered>>

TelemetryInactive == silence >= Inactive
HealthyRecent     == everAcked /\ silence <= HealthyAge
WeightFresh       == weightAge <= WeightMaxAge
TerminalOffNow    == WeightFresh /\ raw = "off"

(* Mutants: each observation restarts the confirmation of the terminal, or *)
(* of the recovery; a doubtful weight leaves the confirmation running; the *)
(* first acknowledgement clears the latch.                                 *)
OffForKept     == IF offFor = NotSince /\ TerminalOffNow THEN 0 ELSE offFor
OffForAnew     == IF ~TerminalOffNow THEN NotSince ELSE 0
HealthyForAnew == IF ~(latched /\ HealthyRecent) THEN NotSince ELSE 0
ClearsAtOnce   == latched /\ HealthyRecent

OffForNow     == IF ~TerminalOffNow THEN NotSince
                 ELSE IF offFor = NotSince THEN 0 ELSE offFor
OffConfirmed  == OffForNow # NotSince /\ OffForNow >= OffConfirm
HealthyForNow == IF ~(latched /\ HealthyRecent) THEN NotSince
                 ELSE IF healthyFor = NotSince THEN 0 ELSE healthyFor
ClearsLatch   == HealthyForNow # NotSince /\ HealthyForNow >= HealthyConfirm
LatchedNow    == latched /\ ~ClearsLatch
MayReboot     == Enabled /\ ~LatchedNow /\ TelemetryInactive /\ OffConfirmed

(* _persist_latch, called for a reboot or for a cleared latch.             *)
(* FileUnsaved alone is a mutant of FileNow.                               *)
FileUnsaved == IF ClearsLatch THEN "clear" ELSE file
FileNow     == IF MayReboot THEN "set" ELSE FileUnsaved

(* observe, with the age of the weight and of the last acknowledgement     *)
(* read just before the call.  The file is replaced before the memory is   *)
(* changed and before the reboot is requested.                             *)
Observe ==
  /\ pc = "observe"
  /\ offFor' = OffForNow
  /\ healthyFor' = IF ClearsLatch THEN NotSince ELSE HealthyForNow
  /\ latched' = (LatchedNow \/ MayReboot)
  /\ file' = FileNow
  /\ pc' = IF MayReboot THEN "request" ELSE "snapshot"
  /\ gap' = 0
  /\ UNCHANGED <<inputs, acks, raw, history>>

(* reboot_action starts "systemctl reboot" and returns, or raises and is   *)
(* logged: the loop goes on either way until systemd ends the process,     *)
(* which is a Crash here.                                                  *)
RequestReboot ==
  /\ pc = "request"
  /\ pc' = "snapshot"
  /\ recovered' = FALSE /\ calmFor' = 0
  /\ UNCHANGED <<inputs, acks, raw, watchdog, file, gap, rawAge>>

-----------------------------------------------------------------------------
(* The process ends: killed, rebooted with the host, or by an exception of *)
(* _persist_latch, which observe lets through.  The file stays.            *)
Crash ==
  /\ Running
  /\ pc' = "off"
  /\ sample' = "none" /\ weightAge' = StaleCap
  /\ silence' = 0 /\ everAcked' = FALSE
  /\ raw' = "none" /\ rawAge' = StaleCap
  /\ offFor' = NotSince /\ healthyFor' = NotSince
  /\ latched' = FALSE
  /\ gap' = 0 /\ calmFor' = 0
  /\ UNCHANGED <<file, recovered>>

(* A missing file is no latch, a damaged one is a latch.                   *)
Restart ==
  /\ pc = "off"
  /\ pc' = "snapshot"
  /\ latched' = (file \in {"set", "damaged"})
  /\ silence' = 0
  /\ UNCHANGED <<inputs, everAcked, raw, offFor, healthyFor, file, gap, history>>

RotFile ==
  /\ FileMayRot /\ file \in {"clear", "set"}
  /\ file' = "damaged"
  /\ UNCHANGED <<inputs, acks, pc, raw, watchdog, gap, history>>

-----------------------------------------------------------------------------
MainLoop == TakeSnapshot \/ Observe \/ RequestReboot
Weights  == \E v \in {"none", "on", "off"} : PublishWeight(v)

Next == Tick \/ Weights \/ Acknowledge \/ MainLoop \/ Crash \/ Restart \/ RotFile

Spec == Init /\ [][Next]_vars

(* The main loop is one running thread; time passes; systemd restarts the  *)
(* program.                                                                *)
FairSpec == Spec /\ WF_vars(Tick) /\ WF_vars(MainLoop) /\ WF_vars(Restart)

-----------------------------------------------------------------------------
(* Every variable has its type. *)
TypeOK ==
  /\ sample \in {"none", "on", "off"} /\ raw \in {"none", "on", "off"}
  /\ weightAge \in 0..StaleCap /\ rawAge \in 0..StaleCap
  /\ silence \in 0..SilenceCap /\ everAcked \in BOOLEAN
  /\ pc \in {"off", "snapshot", "observe", "request"}
  /\ offFor \in NotSince..OffConfirm /\ healthyFor \in NotSince..HealthyConfirm
  /\ latched \in BOOLEAN /\ file \in {"absent", "clear", "set", "damaged"}
  /\ gap \in 0..LoopGap
  /\ calmFor \in 0..HealthyConfirm /\ recovered \in BOOLEAN

(* "Request at most one reboot per confirmed telemetry outage": between    *)
(* two requests acknowledgements have kept coming for the whole            *)
(* confirmation time, whatever crashed, restarted or rotted in between.    *)
OneRebootPerOutage == pc = "request" => recovered

(* A latch in memory is always in the file first, so no crash, not even    *)
(* the reboot itself, can forget that this outage has had its reboot.      *)
LatchIsDurable == latched \/ ~recovered => file \in {"set", "damaged"}

(* "A stale or missing weight can never authorize reboot"                  *)
(* (INCIDENT_2026-07-19_20.md): the loop reads the weight early and its    *)
(* age late, so that the two may belong to different samples; as the off   *)
(* state takes time to confirm, the weight behind a request is at most one *)
(* iteration older than allowed.                                           *)
RebootWeightIsRecent ==
  [][pc' = "request" /\ pc # "request" /\ OffConfirm > 0
       => raw = "off" /\ rawAge <= WeightMaxAge + LoopGap]_vars

(* A terminal that stays off through an outage that does not end gets its  *)
(* reboot request, or had it: the latch ends up set.                       *)
Outage == Running /\ sample = "off" /\ weightAge <= WeightMaxAge /\ silence >= Inactive
OutageGetsItsReboot == <>[]Outage => <>[]latched

(* Acknowledgements that keep coming re-arm the watchdog. *)
LastingRecoveryUnlatches == <>[](Running /\ HealthyRecent) => <>[]~latched
=============================================================================
