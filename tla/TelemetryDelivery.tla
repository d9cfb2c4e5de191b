------------------------- MODULE TelemetryDelivery -------------------------
(***************************************************************************)
(* What the telemetry path promises: every packet created on the device is *)
(* numbered once, is held on the device until the receiver has it, and is  *)
(* given up only after that.  Delivery is at least once: a packet may be   *)
(* delivered again while it is held.  Threads, HTTP, retries and crashes   *)
(* do not appear here; TelemetryOutbox implements this specification.      *)
(***************************************************************************)
EXTENDS Naturals

VARIABLES
  created,    \* how many packets the device has created; packet n is the n-th
  held,       \* the packets the device still keeps
  delivered   \* the packets the receiver has

vars == <<created, held, delivered>>

Init == created = 0 /\ held = {} /\ delivered = {}

(* A new packet takes the next number, which no packet had before. *)
Create ==
  /\ created' = created + 1
  /\ held' = held \cup {created + 1}
  /\ UNCHANGED delivered

(* The receiver gets packets the device holds, perhaps not for the first time. *)
Deliver ==
  /\ \E S \in SUBSET held : delivered' = delivered \cup S
  /\ UNCHANGED <<created, held>>

(* The device gives up packets the receiver has. *)
Release ==
  /\ \E S \in SUBSET (held \cap delivered) : held' = held \ S
  /\ UNCHANGED <<created, delivered>>

Next == Create \/ Deliver \/ Release

Spec == Init /\ [][Next]_vars
=============================================================================
