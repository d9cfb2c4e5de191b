----------------------------- MODULE WeightFilter -----------------------------
(***************************************************************************)
(* WeightReader.read_weight in the thread of the WeightSampler: what the   *)
(* median window, the smoothing, the deadband around zero and the reseeding*)
(* after an invalid value make of the readings of the scale.               *)
(***************************************************************************)
EXTENDS Integers, Sequences, FiniteSets

CONSTANTS
  Readings,  \* valid readings of the scale
  Window,    \* median_window
  Deadband,  \* zero_deadband_kg
  NoWeight   \* None

ASSUME WeightAssumption ==
  /\ Readings \subseteq Int /\ Window \in Nat \ {0} /\ Deadband \in Nat
  /\ NoWeight \notin Int

VARIABLES
  recent,    \* _recent_weights
  filtered,  \* _filtered_weight
  reseed,    \* valid reads since an invalid one, 2 when the reseeding is over
  weight,    \* the sampler's latest weight
  valid      \* history: the valid readings since the last invalid one

filter == <<recent, filtered, reseed, weight, valid>>

WeightInit ==
  /\ recent = <<>> /\ filtered = NoWeight /\ reseed = 2
  /\ weight = NoWeight /\ valid = {}

-----------------------------------------------------------------------------
Push(s, v) == IF Len(s) < Window THEN Append(s, v) ELSE Append(Tail(s), v)

(* statistics.median; a mean is rounded down.                              *)
Smallest(s, k) == CHOOSE v \in {s[i] : i \in DOMAIN s} :
  /\ Cardinality({i \in DOMAIN s : s[i] < v}) < k
  /\ Cardinality({i \in DOMAIN s : s[i] <= v}) >= k
Median(s) ==
  (Smallest(s, (Len(s) + 1) \div 2) + Smallest(s, (Len(s) + 2) \div 2)) \div 2

(* selected_alpha * median + (1 - selected_alpha) * filtered, of which only*)
(* that it is no further than the median is kept.                          *)
Smoothed(f, m) == IF f = NoWeight THEN {m}
                  ELSE IF f <= m THEN f..m ELSE m..f
NearZero(v) == v \in (-Deadband)..Deadband

(* A mutant of AfterInvalid: the window survives an invalid value. *)
WindowKept   == recent
AfterInvalid == <<>>

ReadInvalid ==
  /\ recent' = AfterInvalid /\ filtered' = NoWeight
  /\ reseed' = 0 /\ weight' = NoWeight /\ valid' = {}

(* The first two readings after an invalid one are shown as they are.      *)
Reseed(v) ==
  /\ reseed < 2
  /\ recent' = Push(recent, v)
  /\ filtered' = IF reseed = 0 THEN v ELSE Median(recent')
  /\ weight' = filtered' /\ reseed' = reseed + 1
  /\ valid' = valid \cup {v}

Filter(v) ==
  /\ reseed = 2
  /\ recent' = Push(recent, v)
  /\ \E f \in Smoothed(filtered, Median(recent')) :
       filtered' = IF NearZero(f) /\ NearZero(Median(recent')) THEN 0 ELSE f
  /\ weight' = filtered' /\ valid' = valid \cup {v}
  /\ UNCHANGED reseed

(* The converter could not be read: the filter keeps its state.            *)
ReadFails ==
  /\ weight' = NoWeight
  /\ UNCHANGED <<recent, filtered, reseed, valid>>

ReadWeight == ReadInvalid \/ ReadFails \/ \E v \in Readings : Reseed(v) \/ Filter(v)

-----------------------------------------------------------------------------
WeightTypeOK ==
  /\ recent \in Seq(valid) /\ Len(recent) <= Window /\ valid \subseteq Readings
  /\ filtered \in Int \cup {NoWeight} /\ weight \in {NoWeight, filtered}
  /\ reseed \in 0..2

(* "out-of-range values send weight_valid: false and do not update the     *)
(* filter" (README.md), nor does what was on the scale before one: a weight*)
(* lies between valid readings since the last invalid one, of which those  *)
(* in the deadband count as 0, too.                                        *)
Shown == valid \cup (IF \E v \in valid : NearZero(v) THEN {0} ELSE {})
WeightIsOfNow ==
  weight # NoWeight => \E lo, hi \in Shown : lo <= weight /\ weight <= hi
=============================================================================
