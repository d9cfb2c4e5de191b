---------------------------- MODULE PppWatchdog ----------------------------
(***************************************************************************)
(* systemd/simcom-ppp-watchdog: a oneshot script that a timer starts every *)
(* 30 seconds.  When lte.service claims to be active and ppp0 stays away,  *)
(* it restarts the unit; when the modem has left the USB bus, it may cut   *)
(* the power of the bus, with lte.service and host-monitor.service stopped *)
(* meanwhile.  The operator, the modem and the link change at any moment;  *)
(* systemd kills a run that exceeds TimeoutStartSec.                       *)
(*                                                                         *)
(* What a run remembers for the next one are epochs in files under /run,   *)
(* kept here as ages.  Time passes between runs and in every step of one:  *)
(* a run reads the clock once, and what it writes and does later still     *)
(* goes by that reading, until systemd kills it.                           *)
(***************************************************************************)
EXTENDS Integers

CONSTANTS
  Grace,            \* MISSING_GRACE_S
  RestartCooldown,  \* RESTART_COOLDOWN_S
  UsbGrace,         \* USB_MISSING_GRACE_S
  CycleCooldown,    \* USB_CYCLE_COOLDOWN_S
  RunLimit,         \* TimeoutStartSec of the unit
  CycleEnabled      \* USB_POWER_CYCLE_ENABLED, on a supported board with uhubctl

ASSUME PppAssumption ==
  /\ Grace \in Nat /\ RestartCooldown \in Nat /\ UsbGrace \in Nat /\ CycleCooldown \in Nat
  /\ RunLimit \in Nat
  /\ CycleEnabled \in BOOLEAN

VARIABLES
  ppp,           \* whether ppp0 exists
  device,        \* whether /dev/simcom-ppp exists
  foreign,       \* whether lsusb lists a device that is not in the known set
  lte,           \* whether lte.service is active
  hm,            \* whether host-monitor.service is active
  maint,         \* units the operator has stopped
  pc,            \* the script: "idle" between runs, or its next step
  runAge,        \* age of now, the clock reading of a run that goes on
  hmWas,         \* host_monitor_was_active
  firstMissing,  \* age of first-missing-epoch
  lastRestart,   \* age of last-restart-epoch
  lastCycle,     \* age of last-usb-cycle-epoch
  powerCut,      \* history: time since the power was really cut
  booted,        \* history: the host has booted since then
  killed         \* history: a run has been killed since the host booted

world  == <<ppp, device, foreign>>
units  == <<lte, hm>>
files  == <<firstMissing, lastRestart, lastCycle>>
history == <<powerCut, booted, killed>>
vars   == <<world, units, maint, pc, runAge, hmWas, files, history>>

None == -1
Capped(n, cap) == IF n <= cap THEN n ELSE cap
Older(age, cap) == IF age = None THEN None ELSE Capped(age + 1, cap)
Passed(age, limit) == age = None \/ age >= limit
MissingCap == IF Grace <= UsbGrace THEN UsbGrace ELSE Grace

Init ==
  /\ ppp = FALSE /\ device = TRUE /\ foreign = FALSE
  /\ lte = TRUE /\ hm = TRUE /\ maint = {}
  /\ pc = "idle" /\ runAge = 0 /\ hmWas = FALSE
  /\ firstMissing = None /\ lastRestart = None /\ lastCycle = None
  /\ powerCut = CycleCooldown /\ booted = FALSE /\ killed = FALSE

-----------------------------------------------------------------------------
(* A capture, the stop of a unit, the cut and the wait all take time; a    *)
(* run at its limit ends before more of it passes.                         *)
Tick ==
  /\ pc = "idle" \/ runAge < RunLimit
  /\ runAge' = IF pc = "idle" THEN 0 ELSE runAge + 1
  /\ firstMissing' = Older(firstMissing, MissingCap)
  /\ lastRestart' = Older(lastRestart, RestartCooldown)
  /\ lastCycle' = Older(lastCycle, CycleCooldown)
  /\ powerCut' = Capped(powerCut + 1, CycleCooldown)
  /\ UNCHANGED <<world, units, maint, pc, hmWas, booted, killed>>

LinkChanges ==
  /\ ppp' = ~ppp
  /\ ppp' => lte /\ device
  /\ UNCHANGED <<device, foreign, units, maint, pc, runAge, hmWas, files, history>>

(* The tty goes with its modem, and ppp0 with the tty; pppd persists and   *)
(* its unit stays active.                                                  *)
DeviceChanges ==
  /\ device' = ~device
  /\ ppp' = FALSE
  /\ UNCHANGED <<foreign, units, maint, pc, runAge, hmWas, files, history>>

ForeignChanges ==
  /\ foreign' = ~foreign
  /\ UNCHANGED <<ppp, device, units, maint, pc, runAge, hmWas, files, history>>

OperatorStops(u) ==
  /\ maint' = maint \cup {u}
  /\ lte' = (lte /\ u # "lte") /\ hm' = (hm /\ u # "hm")
  /\ ppp' = (ppp /\ lte')
  /\ UNCHANGED <<device, foreign, pc, runAge, hmWas, files, history>>

OperatorStarts(u) ==
  /\ maint' = maint \ {u}
  /\ lte' = (lte \/ u = "lte") /\ hm' = (hm \/ u = "hm")
  /\ UNCHANGED <<world, pc, runAge, hmWas, files, history>>

-----------------------------------------------------------------------------
(* One run of the script, by what it finds.                                *)
Unrepaired == pc = "idle" /\ ~ppp /\ lte

LinkSeen ==
  /\ pc = "idle" /\ ppp
  /\ firstMissing' = None
  /\ UNCHANGED <<world, units, maint, pc, runAge, hmWas, lastRestart, lastCycle, history>>

MaintenanceSeen ==
  /\ pc = "idle" /\ ~ppp /\ ~lte
  /\ firstMissing' = None
  /\ UNCHANGED <<world, units, maint, pc, runAge, hmWas, lastRestart, lastCycle, history>>

(* Mutants: every run starts the confirmation again, the epoch of a cycle  *)
(* is not written, a cycle that fails leaves the services stopped.         *)
Unconfirmed == firstMissing < Grace
NoStamp     == lastCycle
GiveUp      == "idle"

NotNoted    == firstMissing = None
CycleStamp  == Capped(runAge, CycleCooldown)
CycleFailed == "start lte"

FirstMissing ==
  /\ Unrepaired /\ NotNoted
  /\ firstMissing' = 0
  /\ UNCHANGED <<world, units, maint, pc, runAge, hmWas, lastRestart, lastCycle, history>>

Confirmed == Unrepaired /\ firstMissing # None /\ firstMissing >= Grace

(* The time is stamped, evidence is captured, then the unit is restarted.  *)
RestartDue ==
  /\ Confirmed /\ device /\ Passed(lastRestart, RestartCooldown)
  /\ lastRestart' = 0 /\ firstMissing' = None
  /\ pc' = "restart" /\ runAge' = 0
  /\ UNCHANGED <<world, units, maint, hmWas, lastCycle, history>>

(* restart starts an inactive unit as well.                                *)
IssueRestart ==
  /\ pc = "restart"
  /\ lte' = TRUE /\ ppp' = FALSE
  /\ pc' = "idle" /\ runAge' = 0
  /\ UNCHANGED <<device, foreign, hm, maint, hmWas, files, history>>

CyclePermitted ==
  /\ Confirmed /\ ~device /\ firstMissing >= UsbGrace
  /\ Passed(lastCycle, CycleCooldown)
  /\ CycleEnabled /\ ~foreign

CycleDue ==
  /\ CyclePermitted
  /\ pc' = "stamp" /\ runAge' = 0
  /\ UNCHANGED <<world, units, maint, hmWas, files, history>>

(* What is stamped is the time the run has read, not the time it is now;   *)
(* the evidence is captured before the units are stopped.                  *)
Stamp ==
  /\ pc = "stamp"
  /\ hmWas' = hm
  /\ lastCycle' = CycleStamp
  /\ pc' = "stop lte"
  /\ UNCHANGED <<world, units, maint, runAge, firstMissing, lastRestart, history>>

StopLte ==
  /\ pc = "stop lte"
  /\ lte' = FALSE /\ ppp' = FALSE
  /\ pc' = "stop hm"
  /\ UNCHANGED <<device, foreign, hm, maint, runAge, hmWas, files, history>>

StopHostMonitor ==
  /\ pc = "stop hm"
  /\ hm' = (hm /\ ~hmWas)
  /\ pc' = "cycle"
  /\ UNCHANGED <<world, lte, maint, runAge, hmWas, files, history>>

CycleFails ==
  /\ pc = "cycle"
  /\ pc' = CycleFailed
  /\ UNCHANGED <<world, units, maint, runAge, hmWas, files, history>>

PowerCycle ==
  /\ pc = "cycle"
  /\ device' = FALSE /\ ppp' = FALSE
  /\ powerCut' = 0 /\ booted' = FALSE
  /\ pc' = "wait"
  /\ UNCHANGED <<foreign, units, maint, runAge, hmWas, files, killed>>

(* The modem is back, or the wait is over without it.                      *)
WaitEnds ==
  /\ pc = "wait"
  /\ firstMissing' = IF device THEN None ELSE firstMissing
  /\ pc' = "start lte"
  /\ UNCHANGED <<world, units, maint, runAge, hmWas, lastRestart, lastCycle, history>>

StartLte ==
  /\ pc = "start lte"
  /\ lte' = TRUE
  /\ pc' = "start hm"
  /\ UNCHANGED <<world, hm, maint, runAge, hmWas, files, history>>

StartHostMonitor ==
  /\ pc = "start hm"
  /\ hm' = (hm \/ hmWas)
  /\ pc' = "idle" /\ runAge' = 0
  /\ UNCHANGED <<world, lte, maint, hmWas, files, history>>

-----------------------------------------------------------------------------
(* The run exceeds TimeoutStartSec=150: nothing of it is undone.           *)
Killed ==
  /\ pc # "idle"
  /\ pc' = "idle" /\ runAge' = 0
  /\ killed' = TRUE
  /\ UNCHANGED <<world, units, maint, hmWas, files, powerCut, booted>>

(* /run is empty after a boot, and the enabled units are started.          *)
HostReboots ==
  /\ pc' = "idle" /\ runAge' = 0 /\ hmWas' = FALSE
  /\ lte' = TRUE /\ hm' = TRUE /\ ppp' = FALSE /\ maint' = {}
  /\ firstMissing' = None /\ lastRestart' = None /\ lastCycle' = None
  /\ booted' = TRUE /\ killed' = FALSE
  /\ UNCHANGED <<device, foreign, powerCut>>

-----------------------------------------------------------------------------
Decide   == LinkSeen \/ MaintenanceSeen \/ FirstMissing \/ RestartDue \/ CycleDue
Continue == IssueRestart \/ Stamp \/ StopLte \/ StopHostMonitor \/ CycleFails \/ PowerCycle
            \/ WaitEnds \/ StartLte \/ StartHostMonitor
Operator == \E u \in {"lte", "hm"} : OperatorStops(u) \/ OperatorStarts(u)

Next == Tick \/ LinkChanges \/ DeviceChanges \/ ForeignChanges \/ Operator
        \/ Decide \/ Continue \/ Killed \/ HostReboots

Spec == Init /\ [][Next]_vars

(* The timer starts run after run, a run goes on, and time passes.  An     *)
(* attempt to cut the power made again and again succeeds sometimes, and   *)
(* from some moment on no run is killed and the host does not reboot.      *)
FairSpec ==
  /\ Spec
  /\ WF_vars(Tick) /\ WF_vars(Decide) /\ WF_vars(Continue) /\ SF_vars(PowerCycle)
  /\ <>[][~(Killed \/ HostReboots)]_vars

-----------------------------------------------------------------------------
(* Every variable has its type, ppp0 exists only over an active unit, and  *)
(* a power cycle is on record before the first unit is stopped for it.     *)
TypeOK ==
  /\ pc \in {"stop lte", "stop hm", "cycle", "wait"} => lastCycle # None
  /\ \A b \in {ppp, device, foreign, lte, hm, hmWas} : b \in BOOLEAN
  /\ ppp => lte /\ device
  /\ maint \subseteq {"lte", "hm"}
  /\ runAge \in 0..RunLimit
  /\ pc \in {"idle", "restart", "stamp", "stop lte", "stop hm", "cycle", "wait", "start lte", "start hm"}
  /\ firstMissing \in None..MissingCap /\ lastRestart \in None..RestartCooldown
  /\ lastCycle \in None..CycleCooldown /\ powerCut \in 0..CycleCooldown
  /\ booted \in BOOLEAN /\ killed \in BOOLEAN

(* "Cycles are limited to one per 30 minutes" (README.md), as far as the   *)
(* code keeps it.  The cooldown runs from the clock reading of the first   *)
(* run to that of the second, and a cut comes later than the reading of    *)
(* its run: two cuts may be closer than the cooldown by what the first run *)
(* needs to reach its cut, at most its limit.  Runs that are killed at any *)
(* step, services that the operator moves and a modem that comes and goes  *)
(* bring them no closer, as long as the host stays up.                     *)
CycleLimitBetweenBoots ==
  [][pc = "cycle" /\ pc' = "wait" => powerCut >= CycleCooldown - RunLimit \/ booted]_vars

(* Whatever a run has stopped it starts again: between runs a service is   *)
(* inactive only when the operator has stopped it, or a run was killed.    *)
ServicesRestored == pc = "idle" /\ ~killed => (lte \/ "lte" \in maint) /\ (hm \/ "hm" \in maint)

(* A link that stays away although the modem is there is restarted, again  *)
(* and again.                                                              *)
MissingLinkIsRestarted ==
  <>[](~ppp /\ device /\ maint = {}) /\ []<>lte => []<>(pc = "restart")

(* A modem that has left the bus for good has its power cut, again and     *)
(* again, while nothing else is connected.                                 *)
AbsentModemIsCycled ==
  <>[](~device /\ ~foreign /\ maint = {}) /\ []<>lte => []<>(pc = "wait")

(* Both ways out of an outage stay open, whatever was tried before.        *)
RecoveriesGoOn == MissingLinkIsRestarted /\ AbsentModemIsCycled
=============================================================================
