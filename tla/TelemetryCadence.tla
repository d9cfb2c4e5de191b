-------------------------- MODULE TelemetryCadence --------------------------
(***************************************************************************)
(* TelemetryOutbox with a history counter that says what each HTTP request *)
(* is owed to.  It changes nothing the threads do.                         *)
(***************************************************************************)
EXTENDS TelemetryOutbox, Integers

CONSTANT CreditCap   \* earned requests beyond this many are not remembered

(* At least the two requests the device can be about to make at a time:    *)
(* one that the worker is awake for, and one the event is set for.         *)
ASSUME CadenceAssumption == CreditCap \in Nat /\ CreditCap >= 2

VARIABLE credit   \* notifications, retries and starts of this process, minus requests

cadenceVars == <<vars, credit>>

Notified  == mainPc = "announced" /\ mainPc' = "idle"
Retried   == pc = "backoff" /\ pc' = "wait"
Started   == pc = "off" /\ pc' = "wait"
Requested == pc = "peek" /\ pc' = "send"
Ended     == pc # "off" /\ pc' = "off"

CadenceInit == Init /\ credit = 1

CadenceNext ==
  /\ Next
  /\ credit' = IF Notified \/ Retried \/ Started THEN Lower(CreditCap, credit + 1)
               ELSE IF Requested THEN credit - 1
               ELSE IF Ended THEN 0 ELSE credit

CadenceSpec == CadenceInit /\ [][CadenceNext]_cadenceVars

(* "... prevents a large backlog from turning into an unbounded request    *)
(* flood" (TelemetryOutboxWorker): each request is owed to a notification  *)
(* of its own, to a backoff that has passed, or to a start; a backlog      *)
(* never makes one by itself.                                              *)
NoRequestFlood == credit >= 0
=============================================================================
