------------------------- MODULE MCTelemetryOutbox -------------------------
(***************************************************************************)
(* TelemetryOutbox for the liveness runs: they need a device that goes on  *)
(* producing packets for ever, within finitely many ids.                   *)
(***************************************************************************)
EXTENDS TelemetryOutbox

(* At the bound the id MaxPackets stands for that packet and all later     *)
(* ones together.  Later packets never overtake an older row in            *)
(* ORDER BY id ASC and take only the live row's place, so for the ids      *)
(* below the bound nothing is lost by counting them as one.                *)
PutLater ==
  /\ mainPc = "idle" /\ lastId = MaxPackets
  /\ rows' = rows \cup {lastId}
  /\ mainPc' = "stored"
  /\ UNCHANGED <<lastId, accepted, wake, latestLive, attempted, workerVars>>

NextForever == Next \/ PutLater

WholeBatchTaken   == ServerTakes(batch)
WholeBatchReplied == acked = batch /\ ReplyArrives
WholeBatchDeleted == acked = batch /\ DeleteAcked

(* The main loop and the worker are threads of a running process and       *)
(* systemd restarts the program (Restart=always): weak fairness.  The      *)
(* network works again and again: a request posted time after time is at   *)
(* some time taken in full, and of the full acknowledgements some arrive   *)
(* and are committed.  The process crashes only finitely often.            *)
Fairness ==
  /\ WF_vars(Main \/ PutLater)
  /\ WF_vars(Worker)
  /\ WF_vars(Restart)
  /\ WF_vars(Network)
  /\ SF_vars(WholeBatchTaken)
  /\ SF_vars(WholeBatchReplied)
  /\ SF_vars(WholeBatchDeleted)
  /\ <>[][~Crash]_vars

FairSpec == Init /\ [][NextForever]_vars /\ Fairness

Tracked == 1..(MaxPackets - 1)

(* The backlog drains: every packet committed to the outbox reaches the    *)
(* server, even while fresh packets keep taking the first place of every   *)
(* batch and requests fail, are taken in part, or lose their reply, unless *)
(* a fault of the storage ends the worker's thread.                        *)
BacklogDrains ==
  \A i \in Tracked : i \in rows ~> i \in accepted \/ pc = "dead"

(* "... are moved to a separate SQLite table so one malformed packet       *)
(* cannot block the FIFO queue" (README.md, Rejected packets): every other *)
(* packet still reaches the server.                                        *)
MalformedPacketDoesNotBlock ==
  \A i \in Tracked \ Poison : i \in rows ~> i \in accepted
=============================================================================
