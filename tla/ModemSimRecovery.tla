-------------------------- MODULE ModemSimRecovery --------------------------
(***************************************************************************)
(* The SIM recovery of ModemEventsReader, with the recovery enabled: the   *)
(* reader thread asks AT+CPIN? while its port is open and, for a confirmed *)
(* "SIM failure", resets the modem with AT+CFUN=1,1, limited by a cooldown *)
(* and by a number of resets in a rolling window.  The port may vanish and *)
(* the SIM may change its state between any two steps.                     *)
(*                                                                         *)
(* Time is a Tick; a moment is kept as its age, up to the first value that *)
(* the code can tell from no other, NotSince for None.                     *)
(***************************************************************************)
EXTENDS Integers, FiniteSets

CONSTANTS
  Confirm,             \* sim_failure_confirm_s
  Cooldown,            \* sim_failure_reset_cooldown_s
  Window,              \* sim_failure_reset_window_s, at least 1
  MaxResets,           \* sim_failure_max_resets
  PollEvery,           \* sim_failure_poll_interval_s, at least 1
  Settle               \* sim_failure_reset_settle_s, at least 1

ASSUME SimRecoveryAssumption ==
  /\ Confirm \in Nat /\ Cooldown \in Nat /\ MaxResets \in Nat
  /\ Window \in Nat \ {0} /\ PollEvery \in Nat \ {0} /\ Settle \in Nat \ {0}

VARIABLES
  sim,        \* what the SIM would answer: "ready", "failure", "busy", "silent"
  port,       \* the reader: "open", "closed", or "off" without a process
  rest,       \* how long the reader still waits before it opens the port
  pollAge,    \* age of last_sim_health_poll
  failFor,    \* age of _sim_failure_since
  lastReset,  \* age of _last_modem_reset_monotonic
  resets,     \* ages of _modem_reset_times
  executed,   \* history: ages, within the window, of the resets the modem did for this process
  answered,   \* history: those of them whose answer the program has read
  otherFor    \* history: age of the last answer that was no SIM failure

reader  == <<port, rest, pollAge>>
memory  == <<failFor, lastReset, resets>>
history == <<executed, answered, otherFor>>
vars    == <<sim, reader, memory, history>>

NotSince == -1
Capped(n, cap) == IF n <= cap THEN n ELSE cap
Older(age, cap) == IF age = NotSince THEN age ELSE Capped(age + 1, cap)

Init ==
  /\ sim = "ready"
  /\ port = "closed" /\ rest = 0 /\ pollAge = PollEvery
  /\ failFor = NotSince /\ lastReset = NotSince /\ resets = {}
  /\ executed = {} /\ answered = {} /\ otherFor = 0

-----------------------------------------------------------------------------
Tick ==
  /\ rest' = IF rest > 0 THEN rest - 1 ELSE 0
  /\ pollAge' = Capped(pollAge + 1, PollEvery)
  /\ failFor' = Older(failFor, Confirm)
  /\ lastReset' = Older(lastReset, Cooldown)
  /\ resets' = {Capped(a + 1, Window + 1) : a \in resets}
  /\ executed' = {a + 1 : a \in executed \cap 0..(Window - 1)}
  /\ answered' = {a + 1 : a \in answered \cap 0..(Window - 1)}
  /\ otherFor' = Capped(otherFor + 1, Confirm)
  /\ UNCHANGED <<sim, port>>

SimChanges(s) ==
  /\ sim' = s
  /\ UNCHANGED <<reader, memory, history>>

(* A probe is due at once after the port was opened.                       *)
OpenPort ==
  /\ port = "closed" /\ rest = 0
  /\ port' = "open" /\ pollAge' = PollEvery
  /\ UNCHANGED <<sim, rest, memory, history>>

(* The generic except of _run: whatever the reader was doing, it sleeps at *)
(* least a second and opens the port again.  The recovery keeps its        *)
(* memory.                                                                 *)
PortVanishes ==
  /\ port = "open"
  /\ port' = "closed" /\ rest' = 1
  /\ UNCHANGED <<sim, pollAge, memory, history>>

-----------------------------------------------------------------------------
ProbeDue == port = "open" /\ pollAge >= PollEvery

(* Mutants: a busy SIM does not end the failure; each probe restarts the   *)
(* confirmation; the cooldown is off by one.                               *)
BusyKeepsSince == IF sim = "busy" THEN failFor ELSE NotSince
FailAnew       == 0
CooledEarly    == lastReset = NotSince \/ lastReset + 1 >= Cooldown

SinceAfterOther == NotSince

(* Only an explicit failure is reset-worthy: any other answer, or none,    *)
(* ends the failure.                                                       *)
OtherAnswer ==
  /\ ProbeDue /\ sim # "failure"
  /\ failFor' = SinceAfterOther
  /\ resets' = {a \in resets : a <= Window}
  /\ pollAge' = 0
  /\ otherFor' = 0
  /\ UNCHANGED <<sim, port, rest, lastReset, executed, answered>>

FailForNow   == IF failFor = NotSince THEN 0 ELSE failFor
RecentResets == {a \in resets : a <= Window}
CooledDown   == lastReset = NotSince \/ lastReset >= Cooldown
WithinLimit  == Cardinality(RecentResets) < MaxResets
ResetWorthy  == FailForNow >= Confirm /\ CooledDown /\ WithinLimit

FailureNoted ==
  /\ failFor' = FailForNow
  /\ resets' = RecentResets
  /\ UNCHANGED <<sim, lastReset, otherFor>>

FailureSuppressed ==
  /\ ProbeDue /\ sim = "failure" /\ ~ResetWorthy
  /\ FailureNoted
  /\ pollAge' = 0
  /\ UNCHANGED <<port, rest, executed, answered>>

ResetRejected ==
  /\ ProbeDue /\ sim = "failure" /\ ResetWorthy
  /\ FailureNoted
  /\ pollAge' = 0
  /\ UNCHANGED <<port, rest, executed, answered>>

(* The modem answers (OK, or nothing in time) and restarts; the reset is   *)
(* recorded and ModemResetRequested closes the port for the settle time.   *)
ResetDone ==
  /\ ProbeDue /\ sim = "failure" /\ ResetWorthy
  /\ failFor' = NotSince
  /\ lastReset' = 0
  /\ resets' = RecentResets \cup {0}
  /\ port' = "closed" /\ rest' = Settle
  /\ executed' = executed \cup {0} /\ answered' = answered \cup {0}
  /\ UNCHANGED <<sim, pollAge, otherFor>>

(* The modem restarts and takes its USB port away while the answer is      *)
(* read: the exception leaves the method before the reset is recorded.     *)
ResetUnanswered ==
  /\ ProbeDue /\ sim = "failure" /\ ResetWorthy
  /\ FailureNoted
  /\ port' = "closed" /\ rest' = 1
  /\ executed' = executed \cup {0}
  /\ UNCHANGED <<pollAge, answered>>

-----------------------------------------------------------------------------
(* The memory of resets ends with the process.                             *)
Crash ==
  /\ port # "off"
  /\ port' = "off" /\ rest' = 0 /\ pollAge' = PollEvery
  /\ failFor' = NotSince /\ lastReset' = NotSince /\ resets' = {}
  /\ executed' = {} /\ answered' = {}
  /\ UNCHANGED <<sim, otherFor>>

Restart ==
  /\ port = "off"
  /\ port' = "closed"
  /\ UNCHANGED <<sim, rest, pollAge, memory, history>>

-----------------------------------------------------------------------------
Sims  == {"ready", "failure", "busy", "silent"}
Probe == OtherAnswer \/ FailureSuppressed \/ ResetRejected \/ ResetDone \/ ResetUnanswered

Next == Tick \/ (\E s \in Sims \ {sim} : SimChanges(s)) \/ OpenPort \/ PortVanishes
        \/ Probe \/ Crash \/ Restart

Spec == Init /\ [][Next]_vars

(* The reader is one running thread, time passes and systemd restarts the  *)
(* program.  From some moment on the port stays, the modem takes the reset *)
(* and the process does not crash.                                         *)
FairSpec ==
  /\ Spec
  /\ WF_vars(Tick) /\ WF_vars(OpenPort) /\ WF_vars(Probe) /\ WF_vars(Restart)
  /\ <>[][~(PortVanishes \/ Crash)]_vars
  /\ <>[][~ResetRejected]_vars

-----------------------------------------------------------------------------
(* Every variable has its type, and the deque of resets stays within the   *)
(* limit.                                                                  *)
TypeOK ==
  /\ Cardinality(resets) <= MaxResets
  /\ sim \in Sims /\ port \in {"open", "closed", "off"}
  /\ rest \in 0..Settle /\ pollAge \in 0..PollEvery
  /\ failFor \in NotSince..Confirm /\ lastReset \in NotSince..Cooldown
  /\ resets \subseteq 0..(Window + 1) /\ executed \subseteq 0..Window
  /\ answered \subseteq executed /\ otherFor \in 0..Confirm

NewReset == 0 \in executed' \ executed

(* "Operator loss, DNS/server failures, SIM busy, an absent SIM and        *)
(* missing AT responses are deliberately not recovery triggers"            *)
(* (INCIDENT_2026-07-19_20.md): for the whole confirmation time before a   *)
(* reset no probe had any answer but SIM failure.                          *)
OnlyExplicitFailureResets == [][NewReset => otherFor >= Confirm]_vars

(* After a reset whose answer was read, lost ports, rejected resets and    *)
(* changes of the SIM do not lead to another one before the cooldown       *)
(* is over, nor to more of them in a window than permitted.                *)
ResetsAreLimited ==
  [][NewReset => /\ \A b \in answered : b >= Cooldown
                 /\ Cardinality(answered) < MaxResets]_vars

(* "A cooldown and rolling reset limit prevent a reset loop"               *)
(* (INCIDENT_2026-07-19_20.md): no window of the configured length has     *)
(* more than the permitted number of resets.                               *)
ResetLimitKept == Cardinality(executed) <= MaxResets

(* A SIM that stays in failure is reset again and again, as the limits     *)
(* allow, and is never given up.                                           *)
PersistentFailureIsReset == <>[](sim = "failure") => []<>(0 \in executed)
=============================================================================
