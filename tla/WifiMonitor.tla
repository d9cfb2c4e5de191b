------------------------------ MODULE WifiMonitor ------------------------------
(***************************************************************************)
(* The Wi-Fi client list: a thread asks hostapd, or else the neighbour     *)
(* table, and stamps the answer when it has it; latest() forgets a list    *)
(* whose stamp is old.  A command is given up after a timeout.  A scan is  *)
(* one step, at its end, and the next may come at any time or never.       *)
(***************************************************************************)
EXTENDS Integers

CONSTANTS
  WifiMaxAge,  \* wifi.max_snapshot_age_s
  CmdTimeout   \* timeout_s of _run

ASSUME WifiAssumption == WifiMaxAge \in Nat /\ CmdTimeout \in Nat

VARIABLES
  stampAge,  \* age of _updated_monotonic
  listAge    \* how long ago the clients listed were seen; None for an empty list

wifi == <<stampAge, listAge>>

None == -1
Aged(age, cap) == IF age = None \/ age > cap THEN age ELSE age + 1

WifiInit == stampAge = WifiMaxAge + 1 /\ listAge = None

-----------------------------------------------------------------------------
WifiTick ==
  /\ stampAge' = Aged(stampAge, WifiMaxAge)
  /\ listAge' = Aged(listAge, WifiMaxAge + CmdTimeout)

(* A command that answers in time saw the clients while it ran.            *)
ScanAnswers ==
  /\ stampAge' = 0
  /\ listAge' \in {None} \cup 0..CmdTimeout

(* A mutant of ListAfterFailure: the list outlives the failed scan. *)
ListKept         == listAge
ListAfterFailure == None

(* Neither command has answered, or the scan raised.                       *)
ScanFails ==
  /\ stampAge' = 0
  /\ listAge' = ListAfterFailure

ScanWifi == ScanAnswers \/ ScanFails

(* latest() *)
WifiClients == IF stampAge > WifiMaxAge THEN None ELSE listAge

-----------------------------------------------------------------------------
WifiTypeOK ==
  /\ stampAge \in 0..(WifiMaxAge + 1)
  /\ listAge \in None..(WifiMaxAge + CmdTimeout + 1)
=============================================================================
