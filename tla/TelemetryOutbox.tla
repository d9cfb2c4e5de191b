-------------------------- MODULE TelemetryOutbox --------------------------
(***************************************************************************)
(* The telemetry path of host_monitor: the main loop commits every packet  *)
(* to the SQLite table "telemetry" and announces it (SqliteQueue.put, then *)
(* TelemetryOutboxWorker.notify); one worker thread wakes, posts the       *)
(* announced row with the oldest others as one batch, and deletes the rows *)
(* the server acknowledged.  The request or its reply may be lost, the     *)
(* server may take only part of a batch, and the process may crash and be  *)
(* restarted at any point.                                                 *)
(*                                                                         *)
(* A packet is its row id: the payload never changes after the insert.     *)
(* Time is left out; the length of a backoff is kept, its passing is the   *)
(* action RetryDue.                                                        *)
(***************************************************************************)
EXTENDS Naturals, FiniteSets

CONSTANTS
  MaxPackets,     \* bound of the model: packets created
  MaxBatch,       \* send.max_batch after the clamp to 1..50
  MaxBackoff,     \* the longest retry delay (60 s)
  Poison,         \* rows for which the server refuses the whole request (4xx)
  StorageFaults   \* whether reading the outbox may raise

ASSUME OutboxAssumption ==
  /\ MaxPackets \in Nat \ {0}
  /\ MaxBatch \in 1..50
  /\ MaxBackoff \in Nat \ {0}
  /\ Poison \subseteq Nat
  /\ StorageFaults \in BOOLEAN

VARIABLES
  rows,        \* ids in the table telemetry (durable)
  lastId,      \* AUTOINCREMENT's sqlite_sequence: the last id given (durable)
  accepted,    \* ids the server has stored
  mainPc,      \* the main loop: "idle", "stored", "announced", or "off"
  wake,        \* the event _wake
  latestLive,  \* _latest_live_id
  pc,          \* the worker thread
  liveSeen,    \* live_id, the worker's copy of latestLive
  head,        \* actual_live_id, the row the request names as live
  batch,       \* ids of the rows in the request
  acked,       \* acked_packet_ids of the reply
  backoff,     \* _backoff_s
  attempted    \* history: ids some request has carried

disk       == <<rows, lastId>>
mainVars   == <<mainPc, latestLive>>
workerVars == <<pc, liveSeen, head, batch, acked, backoff>>
vars       == <<rows, lastId, accepted, mainPc, wake, latestLive,
                pc, liveSeen, head, batch, acked, backoff, attempted>>

NoId == 0     \* SQLite ids start at 1: stands for Python's None
Ids  == 1..MaxPackets

Init ==
  /\ rows = {} /\ lastId = 0 /\ accepted = {} /\ attempted = {}
  /\ mainPc = "idle" /\ latestLive = NoId
  /\ pc = "wait" /\ wake = TRUE
  /\ liveSeen = NoId /\ head = NoId /\ batch = {} /\ acked = {}
  /\ backoff = 1

-----------------------------------------------------------------------------
(* The main loop: put, then the two assignments of notify.                 *)

(* A mutant of NewId: INTEGER PRIMARY KEY alone, one above the highest row. *)
ReusedId == IF rows = {} THEN 1 ELSE 1 + (CHOOSE r \in rows : \A q \in rows : q <= r)
NewId    == lastId + 1

(* put inserts and commits; the trim that follows never drops telemetry,   *)
(* whatever the size of the table.                                         *)
Put ==
  /\ mainPc = "idle" /\ lastId < MaxPackets
  /\ lastId' = NewId
  /\ rows' = rows \cup {lastId'}
  /\ mainPc' = "stored"
  /\ UNCHANGED <<accepted, wake, latestLive, attempted, workerVars>>

NotifyLive ==
  /\ mainPc = "stored"
  /\ latestLive' = lastId
  /\ mainPc' = "announced"
  /\ UNCHANGED <<disk, accepted, wake, attempted, workerVars>>

NotifyWake ==
  /\ mainPc = "announced"
  /\ wake' = TRUE
  /\ mainPc' = "idle"
  /\ UNCHANGED <<disk, accepted, latestLive, attempted, workerVars>>

-----------------------------------------------------------------------------
(* The worker thread, one action between two points where it can be        *)
(* interleaved: the event, the lock, the database, the network.            *)

TakeWake ==
  /\ pc = "wait" /\ wake
  /\ wake' = FALSE
  /\ pc' = "read"
  /\ UNCHANGED <<disk, accepted, mainVars, liveSeen, head, batch, acked, backoff, attempted>>

ReadLive ==
  /\ pc = "read"
  /\ liveSeen' = latestLive
  /\ pc' = "peek"
  /\ UNCHANGED <<disk, accepted, mainVars, wake, head, batch, acked, backoff, attempted>>

(* The n lowest ids of S: ORDER BY id ASC LIMIT n. *)
Oldest(S, n) == {r \in S : Cardinality({q \in S : q < r}) < n}

(* A mutant of FreshRow: ORDER BY id ASC for the replacement.              *)
OldestIfGone(h) ==
  IF liveSeen \in rows THEN h = liveSeen ELSE \A r \in rows : h <= r

(* peek_fresh_first: the announced row if it is still there, else the      *)
(* newest one.                                                             *)
FreshRow(h) ==
  IF liveSeen \in rows THEN h = liveSeen ELSE \A r \in rows : r <= h

PeekEmpty ==
  /\ pc = "peek" /\ rows = {}
  /\ backoff' = 1
  /\ pc' = "wait"
  /\ UNCHANGED <<disk, accepted, mainVars, wake, liveSeen, head, batch, acked, attempted>>

LiveOnly(h) == {h}     \* a mutant of BatchOf: a request without the backlog
BatchOf(h)  == {h} \cup Oldest(rows \ {h}, MaxBatch - 1)

(* A mutant of PeekBatch: the event is cleared after the outbox is read.   *)
PeekThenClear ==
  /\ pc = "peek"
  /\ \E h \in rows : FreshRow(h) /\ head' = h /\ batch' = BatchOf(h)
  /\ attempted' = attempted \cup batch'
  /\ wake' = FALSE
  /\ pc' = "send"
  /\ UNCHANGED <<disk, accepted, mainVars, liveSeen, acked, backoff>>

PeekBatch ==
  /\ pc = "peek"
  /\ \E h \in rows : FreshRow(h) /\ head' = h /\ batch' = BatchOf(h)
  /\ attempted' = attempted \cup batch'
  /\ pc' = "send"
  /\ UNCHANGED <<disk, accepted, mainVars, wake, liveSeen, acked, backoff>>

(* peek_fresh_first is called outside the try block: an error of SQLite    *)
(* ends the thread while the process goes on.                              *)
PeekRaises ==
  /\ pc = "peek" /\ StorageFaults
  /\ pc' = "dead"
  /\ UNCHANGED <<disk, accepted, mainVars, wake, liveSeen, head, batch, acked, backoff, attempted>>

(* The server (external) stores some of the rows and acknowledges those;   *)
(* it refuses a request with a row it can never take.                      *)
ServerTakes(S) ==
  /\ pc = "send" /\ batch \cap Poison = {} /\ S \subseteq batch
  /\ accepted' = accepted \cup S
  /\ acked' = S
  /\ pc' = "reply"
  /\ UNCHANGED <<disk, mainVars, wake, liveSeen, head, batch, backoff, attempted>>

ReplyArrives ==
  /\ pc = "reply"
  /\ pc' = "delete"
  /\ UNCHANGED <<disk, accepted, mainVars, wake, liveSeen, head, batch, acked, backoff, attempted>>

Submitted == batch     \* a mutant of Deletable: all of the request
Deletable == acked

(* A mutant of DeleteAcked: the next request starts while rows remain.     *)
DeleteAndGoOn ==
  /\ pc = "delete"
  /\ rows' = rows \ Deletable
  /\ wake' = (wake \/ rows' # {})
  /\ backoff' = 1
  /\ pc' = "wait"
  /\ UNCHANGED <<lastId, accepted, mainVars, liveSeen, head, batch, acked, attempted>>

DeleteAcked ==
  /\ pc = "delete"
  /\ rows' = rows \ Deletable
  /\ backoff' = 1
  /\ pc' = "wait"
  /\ UNCHANGED <<lastId, accepted, mainVars, wake, liveSeen, head, batch, acked, attempted>>

Lower(a, b) == IF a <= b THEN a ELSE b

Uncapped  == 2 * backoff   \* a mutant of NextDelay
NextDelay == Lower(MaxBackoff, 2 * backoff)

(* The except block: the request was refused or did not arrive, the reply  *)
(* was lost, late or unusable (it names an unknown id), or the delete      *)
(* failed.                                                                 *)
RequestFails ==
  /\ pc \in {"send", "reply", "delete"}
  /\ backoff' = NextDelay
  /\ pc' = "backoff"
  /\ UNCHANGED <<disk, accepted, mainVars, wake, liveSeen, head, batch, acked, attempted>>

(* A mutant of RetryDue: the backoff ends without _wake.set().             *)
RetryAsleep ==
  /\ pc = "backoff"
  /\ pc' = "wait"
  /\ UNCHANGED <<disk, accepted, mainVars, wake, liveSeen, head, batch, acked, backoff, attempted>>

RetryDue ==
  /\ pc = "backoff"
  /\ wake' = TRUE
  /\ pc' = "wait"
  /\ UNCHANGED <<disk, accepted, mainVars, liveSeen, head, batch, acked, backoff, attempted>>

-----------------------------------------------------------------------------
(* Everything in memory is lost; the table and its sequence are durable    *)
(* (synchronous=FULL).  An exception in the main loop, which stops and     *)
(* joins the threads, ends in the same state.                              *)
Crash ==
  /\ mainPc # "off"
  /\ mainPc' = "off" /\ pc' = "off"
  /\ wake' = FALSE /\ latestLive' = NoId
  /\ liveSeen' = NoId /\ head' = NoId /\ batch' = {} /\ acked' = {}
  /\ backoff' = 1
  /\ UNCHANGED <<disk, accepted, attempted>>

(* systemd starts the program again; start() sets the event once so that   *)
(* an outbox left by the previous run is sent without waiting for a packet. *)
Restart ==
  /\ mainPc = "off"
  /\ mainPc' = "idle" /\ pc' = "wait"
  /\ wake' = TRUE
  /\ UNCHANGED <<disk, accepted, latestLive, liveSeen, head, batch, acked, backoff, attempted>>

-----------------------------------------------------------------------------
Main   == Put \/ NotifyLive \/ NotifyWake
Worker == TakeWake \/ ReadLive \/ PeekEmpty \/ PeekBatch \/ PeekRaises
          \/ ReplyArrives \/ DeleteAcked \/ RetryDue
Network == RequestFails \/ \E S \in SUBSET batch : ServerTakes(S)

Next == Main \/ Worker \/ Network \/ Crash \/ Restart

Spec == Init /\ [][Next]_vars

-----------------------------------------------------------------------------
WorkerPcs == {"wait", "read", "peek", "send", "reply", "delete", "backoff", "dead", "off"}

(* Every variable has its type; the retry delay never exceeds its cap. *)
TypeOK ==
  /\ rows \subseteq Ids /\ accepted \subseteq Ids /\ attempted \subseteq Ids
  /\ lastId \in 0..MaxPackets
  /\ mainPc \in {"idle", "stored", "announced", "off"}
  /\ wake \in BOOLEAN
  /\ latestLive \in 0..MaxPackets /\ liveSeen \in 0..MaxPackets /\ head \in 0..MaxPackets
  /\ pc \in WorkerPcs
  /\ batch \subseteq Ids /\ acked \subseteq Ids
  /\ backoff \in 1..MaxBackoff

(* Store and forward loses nothing: a packet the main loop has committed   *)
(* is in the outbox or on the server, whatever is lost, acknowledged in    *)
(* part, or interrupted by a crash.                                        *)
NoLoss == \A i \in 1..lastId : i \in rows \cup accepted

(* No wake-up is lost between notify and the worker's clear: when both     *)
(* threads are at rest, the newest packet has been in a request.           *)
AtRest == mainPc = "idle" /\ pc = "wait" /\ ~wake
NoMissedWakeup == AtRest /\ lastId > 0 => lastId \in attempted

(* A failed request is never forgotten: a worker waiting with no wake-up   *)
(* pending has had its last request answered.                              *)
NoForgottenFailure == pc = "wait" /\ ~wake => backoff = 1

(* When a request names an old row as live, that is because every packet   *)
(* announced after it is already on the server: fresh data is never held   *)
(* back in favour of the backlog.                                          *)
LiveLabelHonest ==
  pc \in {"send", "reply"} => \A i \in (head + 1)..liveSeen : i \in accepted

(* What the outbox promises to the rest of the system. *)
Delivery == INSTANCE TelemetryDelivery
              WITH created <- lastId, held <- rows, delivered <- accepted

(* Every step of the outbox, the crash included, creates a packet with a   *)
(* new number, delivers packets it holds, gives up delivered ones, or      *)
(* changes nothing a receiver can see.                                     *)
ImplementsDelivery == Delivery!Spec
=============================================================================
