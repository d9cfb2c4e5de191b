----------------------- MODULE TelemetryOutbox_proofs -----------------------
(***************************************************************************)
(* Proofs about TelemetryOutbox, and about its history in TelemetryCadence,*)
(* for every value of the constants.                                       *)
(***************************************************************************)
EXTENDS TelemetryCadence, TLAPS

(* Every variable keeps its type; in particular the retry delay of the     *)
(* worker stays within its cap whatever fails (workers.py, backoff).       *)
LEMMA TypeStep == TypeOK /\ [Next]_vars => TypeOK'
<1> SUFFICES ASSUME TypeOK, [Next]_vars PROVE TypeOK'
  OBVIOUS
<1> USE OutboxAssumption DEF TypeOK, Ids, NoId, WorkerPcs
<1>1. CASE Put
  BY <1>1 DEF Put, NewId, workerVars
<1>2. CASE NotifyLive
  BY <1>2 DEF NotifyLive, disk, workerVars
<1>3. CASE NotifyWake
  BY <1>3 DEF NotifyWake, disk, workerVars
<1>4. CASE TakeWake
  BY <1>4 DEF TakeWake, disk, mainVars
<1>5. CASE ReadLive
  BY <1>5 DEF ReadLive, disk, mainVars
<1>6. CASE PeekEmpty
  BY <1>6 DEF PeekEmpty, disk, mainVars
<1>7. CASE PeekBatch
  <2>1. PICK h \in rows : /\ head' = h
                          /\ batch' = {h} \cup Oldest(rows \ {h}, MaxBatch - 1)
    BY <1>7 DEF PeekBatch, BatchOf
  <2>2. batch' \subseteq rows
    BY <2>1 DEF Oldest
  <2>3. head' \in 0..MaxPackets
    BY <2>1
  <2>5. batch' \subseteq Ids
    BY <2>2
  <2>4. attempted' = attempted \cup batch'
    BY <1>7 DEF PeekBatch, BatchOf
  <2> QED
    BY <1>7, <2>3, <2>4, <2>5 DEF PeekBatch, BatchOf, disk, mainVars
<1>8. CASE PeekRaises
  BY <1>8 DEF PeekRaises, disk, mainVars
<1>9. CASE ReplyArrives
  BY <1>9 DEF ReplyArrives, disk, mainVars
<1>10. CASE DeleteAcked
  BY <1>10 DEF DeleteAcked, Deletable, mainVars
<1>11. CASE RetryDue
  BY <1>11 DEF RetryDue, disk, mainVars
<1>12. CASE RequestFails
  <2>1. backoff' \in 1..MaxBackoff
    BY <1>12 DEF RequestFails, NextDelay, Lower
  <2> QED
    BY <1>12, <2>1 DEF RequestFails, NextDelay, disk, mainVars
<1>13. ASSUME NEW S \in SUBSET batch, ServerTakes(S) PROVE TypeOK'
  BY <1>13 DEF ServerTakes, disk, mainVars
<1>14. CASE Crash
  <2>1. batch' \subseteq Ids /\ acked' \subseteq Ids
    BY <1>14 DEF Crash
  <2>2. backoff' \in 1..MaxBackoff /\ latestLive' = 0 /\ liveSeen' = 0 /\ head' = 0
    BY <1>14 DEF Crash
  <2>3. mainPc' = "off" /\ pc' = "off" /\ wake' = FALSE
    BY <1>14 DEF Crash
  <2>4. UNCHANGED <<rows, lastId, accepted, attempted>>
    BY <1>14 DEF Crash, disk
  <2>5. rows' \subseteq Ids /\ accepted' \subseteq Ids /\ attempted' \subseteq Ids
    BY <2>4
  <2>6. lastId' \in 0..MaxPackets
    BY <2>4
  <2>7. latestLive' \in 0..MaxPackets /\ liveSeen' \in 0..MaxPackets /\ head' \in 0..MaxPackets
    BY <2>2
  <2>8. mainPc' \in {"idle", "stored", "announced", "off"} /\ pc' \in WorkerPcs /\ wake' \in BOOLEAN
    BY <2>3
  <2> QED
    BY <2>1, <2>2, <2>5, <2>6, <2>7, <2>8, Zenon
<1>15. CASE Restart
  BY <1>15 DEF Restart, disk
<1>16. CASE UNCHANGED vars
  BY <1>16 DEF vars
<1> QED
  BY <1>1, <1>2, <1>3, <1>4, <1>5, <1>6, <1>7, <1>8, <1>9, <1>10, <1>11,
     <1>12, <1>13, <1>14, <1>15, <1>16 DEF Next, Main, Worker, Network

(* The type invariant of the outbox.                                       *)
THEOREM TypeCorrect == Spec => []TypeOK
<1>1. Init => TypeOK
  BY OutboxAssumption DEF Init, TypeOK, Ids, NoId, WorkerPcs
<1> QED
  BY <1>1, TypeStep, PTL DEF Spec

-----------------------------------------------------------------------------
(* What the worker knows about the rows in its hands, and what ties the    *)
(* two ends together: a request in flight names rows still in the outbox,  *)
(* an acknowledgement names ids the server has.                            *)
Consistent ==
  /\ rows \subseteq 1..lastId /\ accepted \subseteq 1..lastId
  /\ accepted \subseteq attempted
  /\ latestLive <= lastId /\ liveSeen <= lastId
  /\ pc = "send" => batch \subseteq rows \cap attempted
  /\ pc \in {"reply", "delete"} => acked \subseteq accepted

(* Consistent is inductive given the types. *)
LEMMA ConsistentStep == TypeOK /\ Consistent /\ [Next]_vars => Consistent'
<1> SUFFICES ASSUME TypeOK, Consistent, [Next]_vars PROVE Consistent'
  OBVIOUS
<1>0. lastId \in Nat /\ latestLive \in Nat /\ liveSeen \in Nat
  BY OutboxAssumption DEF TypeOK
<1> USE DEF Consistent
<1>1. CASE Put
  <2>1. lastId' = lastId + 1 /\ rows' = rows \cup {lastId + 1}
    BY <1>1 DEF Put, NewId
  <2>2. rows' \subseteq 1..lastId' /\ accepted \subseteq 1..lastId' /\ rows \subseteq rows'
    BY <2>1, <1>0
  <2>3. latestLive <= lastId' /\ liveSeen <= lastId'
    BY <2>1, <1>0
  <2> QED
    BY <1>1, <2>2, <2>3 DEF Put, NewId, workerVars
<1>2. CASE NotifyLive
  BY <1>0, <1>2 DEF NotifyLive, disk, workerVars
<1>3. CASE NotifyWake
  BY <1>3 DEF NotifyWake, disk, workerVars
<1>4. CASE TakeWake
  BY <1>4 DEF TakeWake, disk, mainVars
<1>5. CASE ReadLive
  BY <1>5 DEF ReadLive, disk, mainVars
<1>6. CASE PeekEmpty
  BY <1>6 DEF PeekEmpty, disk, mainVars
<1>7. CASE PeekBatch
  <2>1. PICK h \in rows : batch' = {h} \cup Oldest(rows \ {h}, MaxBatch - 1)
    BY <1>7 DEF PeekBatch, BatchOf
  <2>2. batch' \subseteq rows
    BY <2>1 DEF Oldest
  <2>3. attempted' = attempted \cup batch' /\ pc' = "send"
    BY <1>7 DEF PeekBatch, BatchOf
  <2>4. UNCHANGED <<rows, lastId, accepted, latestLive, liveSeen>>
    BY <1>7 DEF PeekBatch, BatchOf, disk, mainVars
  <2> QED
    BY <2>2, <2>3, <2>4
<1>8. CASE PeekRaises
  BY <1>8 DEF PeekRaises, disk, mainVars
<1>9. CASE ReplyArrives
  BY <1>9 DEF ReplyArrives, disk, mainVars
<1>10. CASE DeleteAcked
  BY <1>10 DEF DeleteAcked, Deletable, mainVars
<1>11. CASE RetryDue
  BY <1>11 DEF RetryDue, disk, mainVars
<1>12. CASE RequestFails
  BY <1>12 DEF RequestFails, NextDelay, disk, mainVars
<1>13. ASSUME NEW S \in SUBSET batch, ServerTakes(S) PROVE Consistent'
  <2>1. pc = "send" /\ pc' = "reply" /\ accepted' = accepted \cup S /\ acked' = S
    BY <1>13 DEF ServerTakes
  <2>2. UNCHANGED <<rows, lastId, latestLive, liveSeen, attempted>>
    BY <1>13 DEF ServerTakes, disk, mainVars
  <2>3. S \subseteq rows \cap attempted
    BY <2>1
  <2> QED
    BY <2>1, <2>2, <2>3
<1>14. CASE Crash
  <2>1. pc' = "off" /\ latestLive' = 0 /\ liveSeen' = 0
    BY <1>14 DEF Crash, NoId
  <2>2. UNCHANGED <<rows, lastId, accepted, attempted>>
    BY <1>14 DEF Crash, disk
  <2> QED
    BY <1>0, <2>1, <2>2
<1>15. CASE Restart
  BY <1>15 DEF Restart, disk
<1>16. CASE UNCHANGED vars
  BY <1>16 DEF vars
<1> QED
  BY <1>1, <1>2, <1>3, <1>4, <1>5, <1>6, <1>7, <1>8, <1>9, <1>10, <1>11,
     <1>12, <1>13, <1>14, <1>15, <1>16 DEF Next, Main, Worker, Network

(* The state of the outbox is consistent in every run.                     *)
THEOREM AlwaysConsistent == Spec => [](TypeOK /\ Consistent)
<1>1. Init => Consistent
  BY DEF Init, Consistent, NoId
<1>2. TypeOK /\ Consistent /\ [Next]_vars => Consistent'
  BY ConsistentStep
<1> QED
  BY <1>1, <1>2, TypeCorrect, PTL DEF Spec

-----------------------------------------------------------------------------
(* The three ways in which a step may touch what the abstract              *)
(* specification sees: everything below is about this alone.               *)
LEMMA DeliveryStep ==
  ASSUME TypeOK, Consistent, [Next]_vars
  PROVE  \/ Delivery!Create
         \/ Delivery!Deliver
         \/ Delivery!Release
         \/ UNCHANGED Delivery!vars
<1> USE DEF Delivery!vars
<1>1. CASE Put
  BY <1>1 DEF Put, NewId, Delivery!Create
<1>2. ASSUME NEW S \in SUBSET batch, ServerTakes(S) PROVE Delivery!Deliver
  <2>1. S \subseteq rows /\ accepted' = accepted \cup S
    BY <1>2 DEF ServerTakes, Consistent
  <2>2. UNCHANGED <<lastId, rows>>
    BY <1>2 DEF ServerTakes, disk
  <2> QED
    BY <2>1, <2>2 DEF Delivery!Deliver
<1>3. CASE DeleteAcked
  <2>1. acked \subseteq accepted /\ rows' = rows \ acked
    BY <1>3 DEF DeleteAcked, Deletable, Consistent
  <2>2. UNCHANGED <<lastId, accepted>>
    BY <1>3 DEF DeleteAcked, Deletable
  <2>3. rows' = rows \ (acked \cap rows) /\ acked \cap rows \in SUBSET (rows \cap accepted)
    BY <2>1
  <2> QED
    BY <2>2, <2>3 DEF Delivery!Release
<1>4. CASE NotifyLive \/ NotifyWake \/ TakeWake \/ ReadLive \/ PeekEmpty \/ PeekBatch
  BY <1>4 DEF NotifyLive, NotifyWake, TakeWake, ReadLive, PeekEmpty, PeekBatch, BatchOf, disk
<1>5. CASE PeekRaises \/ ReplyArrives \/ RequestFails \/ RetryDue \/ Crash \/ Restart
  BY <1>5 DEF PeekRaises, ReplyArrives, RequestFails, NextDelay, RetryDue, Crash, Restart, disk
<1>6. CASE UNCHANGED vars
  BY <1>6 DEF vars
<1> QED
  BY <1>1, <1>2, <1>3, <1>4, <1>5, <1>6 DEF Next, Main, Worker, Network

(* Store and forward loses nothing: a committed packet is in the outbox or *)
(* on the server, for any number of packets, any batch size, and any       *)
(* sequence of failures and crashes.                                       *)
THEOREM NothingLost == Spec => []NoLoss
<1>1. Init => NoLoss
  BY DEF Init, NoLoss
<1>2. TypeOK /\ Consistent /\ NoLoss /\ [Next]_vars => NoLoss'
  <2> SUFFICES ASSUME TypeOK, Consistent, NoLoss, [Next]_vars PROVE NoLoss'
    OBVIOUS
  <2>0. lastId \in Nat
    BY OutboxAssumption DEF TypeOK
  <2>1. CASE Delivery!Create
    BY <2>0, <2>1 DEF NoLoss, Delivery!Create
  <2>2. CASE Delivery!Deliver
    BY <2>2 DEF NoLoss, Delivery!Deliver
  <2>3. CASE Delivery!Release
    BY <2>3 DEF NoLoss, Delivery!Release
  <2>4. CASE UNCHANGED Delivery!vars
    BY <2>4 DEF NoLoss, Delivery!vars
  <2> QED
    BY <2>1, <2>2, <2>3, <2>4, DeliveryStep
<1> QED
  BY <1>1, <1>2, AlwaysConsistent, PTL DEF Spec

(* The outbox implements TelemetryDelivery: new numbers only, delivery of  *)
(* held packets only, release of delivered packets only.                   *)
THEOREM OutboxImplementsDelivery == Spec => ImplementsDelivery
<1>1. Init => Delivery!Init
  BY DEF Init, Delivery!Init
<1>2. TypeOK /\ Consistent /\ [Next]_vars => [Delivery!Next]_(Delivery!vars)
  BY DeliveryStep DEF Delivery!Next
<1> QED
  BY <1>1, <1>2, AlwaysConsistent, PTL DEF Spec, ImplementsDelivery, Delivery!Spec

-----------------------------------------------------------------------------
(* A worker that waits with no wake-up pending has had its last request    *)
(* answered: the except block's sleep always ends in _wake.set().          *)
THEOREM FailuresAreRetried == Spec => []NoForgottenFailure
<1>1. Init => NoForgottenFailure
  BY DEF Init, NoForgottenFailure
<1>2. NoForgottenFailure /\ [Next]_vars => NoForgottenFailure'
  <2> SUFFICES ASSUME NoForgottenFailure, [Next]_vars PROVE NoForgottenFailure'
    OBVIOUS
  <2> USE DEF NoForgottenFailure
  <2>1. CASE Main
    BY <2>1 DEF Main, Put, NewId, NotifyLive, NotifyWake, workerVars
  <2>2. CASE Worker
    BY <2>2 DEF Worker, TakeWake, ReadLive, PeekEmpty, PeekBatch, BatchOf, PeekRaises,
                ReplyArrives, DeleteAcked, Deletable, RetryDue
  <2>3. CASE RequestFails
    BY <2>3 DEF RequestFails, NextDelay
  <2>4. ASSUME NEW S \in SUBSET batch, ServerTakes(S) PROVE NoForgottenFailure'
    BY <2>4 DEF ServerTakes
  <2>5. CASE Crash \/ Restart \/ UNCHANGED vars
    BY <2>5 DEF Crash, Restart, vars
  <2> QED
    BY <2>1, <2>2, <2>3, <2>4, <2>5 DEF Next, Network
<1> QED
  BY <1>1, <1>2, PTL DEF Spec

-----------------------------------------------------------------------------
(* The row peek_fresh_first puts first, seen from the packets announced so *)
(* far: every announced packet above it has left the outbox.               *)
LEMMA FreshRowIsNewest ==
  ASSUME TypeOK, Consistent, NoLoss, NEW h \in rows, FreshRow(h)
  PROVE  \A i \in (h + 1)..liveSeen : i \in accepted
<1> SUFFICES ASSUME NEW i \in (h + 1)..liveSeen PROVE i \in accepted
  OBVIOUS
<1>1. h \in Nat /\ liveSeen \in Nat /\ lastId \in Nat
  BY OutboxAssumption DEF TypeOK, Ids
<1>2. i \in 1..lastId
  BY <1>1 DEF Consistent
<1>3. i \notin rows
  <2>1. h # liveSeen
    BY <1>1
  <2>2. \A r \in rows : r <= h
    BY <2>1 DEF FreshRow
  <2> QED
    BY <1>1, <2>2
<1> QED
  BY <1>2, <1>3 DEF NoLoss

(* Fresh data is never held back for the backlog: a request that names an  *)
(* old row as live does so because every packet announced after it has     *)
(* been accepted.                                                          *)
THEOREM LiveLabelsAreHonest == Spec => []LiveLabelHonest
<1>1. Init => LiveLabelHonest
  BY DEF Init, LiveLabelHonest
<1>2. TypeOK /\ Consistent /\ NoLoss /\ LiveLabelHonest /\ [Next]_vars => LiveLabelHonest'
  <2> SUFFICES ASSUME TypeOK, Consistent, NoLoss, LiveLabelHonest, [Next]_vars
               PROVE  LiveLabelHonest'
    OBVIOUS
  <2> USE DEF LiveLabelHonest
  <2>1. CASE Main
    BY <2>1 DEF Main, Put, NewId, NotifyLive, NotifyWake, disk, workerVars
  <2>2. CASE PeekBatch
    <3>1. PICK h \in rows : FreshRow(h) /\ head' = h
      BY <2>2 DEF PeekBatch, BatchOf
    <3>2. UNCHANGED <<liveSeen, accepted>>
      BY <2>2 DEF PeekBatch, BatchOf
    <3> QED
      BY <3>1, <3>2, FreshRowIsNewest
  <2>3. CASE ReplyArrives
    BY <2>3 DEF ReplyArrives
  <2>4. CASE TakeWake \/ ReadLive \/ PeekEmpty \/ PeekRaises \/ DeleteAcked \/ RetryDue
    BY <2>4 DEF TakeWake, ReadLive, PeekEmpty, PeekRaises, DeleteAcked, Deletable, RetryDue
  <2>5. CASE RequestFails
    BY <2>5 DEF RequestFails, NextDelay
  <2>6. ASSUME NEW S \in SUBSET batch, ServerTakes(S) PROVE LiveLabelHonest'
    BY <2>6 DEF ServerTakes
  <2>7. CASE Crash \/ Restart \/ UNCHANGED vars
    BY <2>7 DEF Crash, Restart, vars
  <2> QED
    BY <2>1, <2>2, <2>3, <2>4, <2>5, <2>6, <2>7 DEF Next, Worker, Network
<1> QED
  BY <1>1, <1>2, AlwaysConsistent, NothingLost, PTL DEF Spec

-----------------------------------------------------------------------------
(* Why no wake-up is lost: notify publishes the id before it sets the      *)
(* event, the worker clears the event before it reads the id.  So a worker *)
(* that reads with no new wake-up pending reads the newest announcement,   *)
(* and an unattempted newest packet always has a wake-up, an announcement  *)
(* or a read of the outbox ahead of it.                                    *)
Announcing ==
  /\ mainPc = "off" => latestLive = NoId
  /\ mainPc = "announced" => latestLive = lastId
  /\ mainPc = "idle" => latestLive \in {NoId, lastId}
  /\ mainPc = "idle" /\ ~wake /\ pc = "peek" => liveSeen = latestLive
  /\ mainPc = "idle" /\ ~wake /\ lastId > 0 /\ lastId \notin attempted
       => pc \in {"read", "peek", "dead", "off"}

(* Reading the outbox with no new announcement under way puts the newest   *)
(* packet in the request.                                                  *)
LEMMA NewestIsCarried ==
  ASSUME TypeOK, Consistent, NoLoss, Announcing, PeekBatch,
         mainPc = "idle", ~wake, lastId > 0
  PROVE  lastId \in attempted'
<1>1. lastId \in Nat /\ lastId \in 1..lastId
  BY OutboxAssumption DEF TypeOK
<1>2. PICK h \in rows : /\ FreshRow(h)
                        /\ batch' = {h} \cup Oldest(rows \ {h}, MaxBatch - 1)
  BY DEF PeekBatch, BatchOf
<1>3. attempted' = attempted \cup batch' /\ pc = "peek"
  BY DEF PeekBatch, BatchOf
<1>4. CASE lastId \notin rows
  BY <1>1, <1>3, <1>4 DEF NoLoss, Consistent
<1>5. CASE lastId \in rows
  <2>1. liveSeen \in {NoId, lastId}
    BY <1>3 DEF Announcing
  <2>2. NoId \notin rows
    BY DEF Consistent, NoId
  <2>3. h = lastId
    <3>1. CASE liveSeen \in rows
      BY <2>1, <2>2, <3>1, <1>2 DEF FreshRow
    <3>2. CASE liveSeen \notin rows
      <4>1. lastId <= h
        BY <3>2, <1>2, <1>5 DEF FreshRow
      <4> QED
        BY <4>1, <1>1 DEF Consistent
    <3> QED
      BY <3>1, <3>2
  <2> QED
    BY <1>2, <1>3, <2>3
<1> QED
  BY <1>4, <1>5

LEMMA AnnouncingStep ==
  TypeOK /\ Consistent /\ NoLoss /\ Announcing /\ [Next]_vars => Announcing'
<1> SUFFICES ASSUME TypeOK, Consistent, NoLoss, Announcing, [Next]_vars PROVE Announcing'
  OBVIOUS
<1> USE DEF Announcing
<1>1. CASE Put \/ NotifyLive \/ NotifyWake
  BY <1>1 DEF Put, NewId, NotifyLive, NotifyWake, disk, workerVars
<1>2. CASE TakeWake \/ ReadLive
  BY <1>2 DEF TakeWake, ReadLive, disk, mainVars
<1>3. CASE PeekEmpty
  <2>1. lastId > 0 => lastId \in attempted
    <3>1. lastId \in Nat /\ (lastId > 0 => lastId \in 1..lastId)
      BY OutboxAssumption DEF TypeOK
    <3> QED
      BY <3>1, <1>3 DEF PeekEmpty, NoLoss, Consistent
  <2> QED
    BY <1>3, <2>1 DEF PeekEmpty, disk, mainVars
<1>4. CASE PeekBatch
  <2>1. UNCHANGED <<mainPc, latestLive, lastId, wake>> /\ pc' = "send"
    BY <1>4 DEF PeekBatch, BatchOf, disk, mainVars
  <2>2. mainPc = "idle" /\ ~wake /\ lastId > 0 => lastId \in attempted'
    BY <1>4, NewestIsCarried
  <2> QED
    BY <2>1, <2>2
<1>5. CASE PeekRaises \/ ReplyArrives \/ DeleteAcked \/ RetryDue \/ RequestFails
  BY <1>5 DEF PeekRaises, ReplyArrives, DeleteAcked, Deletable, RetryDue, RequestFails, NextDelay, disk, mainVars
<1>6. ASSUME NEW S \in SUBSET batch, ServerTakes(S) PROVE Announcing'
  BY <1>6 DEF ServerTakes, disk, mainVars
<1>7. CASE Crash
  BY <1>7 DEF Crash, disk
<1>8. CASE Restart
  BY <1>8 DEF Restart, disk
<1>9. CASE UNCHANGED vars
  BY <1>9 DEF vars
<1> QED
  BY <1>1, <1>2, <1>3, <1>4, <1>5, <1>6, <1>7, <1>8, <1>9 DEF Next, Main, Worker, Network

(* No wake-up is lost: when both threads are at rest, the newest packet    *)
(* has been in a request.                                                  *)
THEOREM NoWakeupMissed == Spec => []NoMissedWakeup
<1>1. Init => Announcing
  BY DEF Init, Announcing, NoId
<1>2. Announcing => NoMissedWakeup
  BY DEF Announcing, NoMissedWakeup, AtRest
<1> QED
  BY <1>1, <1>2, AnnouncingStep, AlwaysConsistent, NothingLost, PTL DEF Spec

-----------------------------------------------------------------------------
(* The requests the worker may still make without anything new happening,  *)
(* the one it is awake for and the one the event is set for, are earned.   *)
(* Without it "credit >= 0" is not inductive: with the event set and       *)
(* nothing earned a request would be made.                                 *)
Awake == pc \in {"read", "peek"}
Earned ==
  /\ credit \in Int /\ wake \in BOOLEAN /\ pc \in WorkerPcs
  /\ (pc = "off" <=> mainPc = "off") /\ (pc = "off" => ~ wake)
  /\ credit >= 0
  /\ (wake \/ Awake) => credit >= 1
  /\ (wake /\ Awake) => credit >= 2

LEMMA EarnedStep == Earned /\ [CadenceNext]_cadenceVars => Earned'
<1> SUFFICES ASSUME Earned, [CadenceNext]_cadenceVars PROVE Earned'
  OBVIOUS
<1> USE CadenceAssumption DEF Earned, Awake, WorkerPcs, disk, mainVars, workerVars
<1>u. CASE UNCHANGED cadenceVars
  BY <1>u DEF cadenceVars, vars
<1>n. CASE CadenceNext
  <2>c. credit' = IF Notified \/ Retried \/ Started THEN Lower(CreditCap, credit + 1)
                  ELSE IF Requested THEN credit - 1
                  ELSE IF Ended THEN 0 ELSE credit
    BY <1>n DEF CadenceNext
  <2>l. /\ Lower(CreditCap, credit + 1) \in Int /\ Lower(CreditCap, credit + 1) >= 1
        /\ credit >= 1 => Lower(CreditCap, credit + 1) >= 2
    BY DEF Lower
  <2> USE DEF Notified, Retried, Started, Requested, Ended
  <2>1. CASE Put \/ NotifyLive
    BY <2>1, <2>c DEF Put, NotifyLive
  <2>2. CASE NotifyWake
    <3>1. mainPc = "announced" /\ mainPc' = "idle" /\ wake' \in BOOLEAN /\ pc' = pc
      BY <2>2 DEF NotifyWake
    <3>2. credit' = Lower(CreditCap, credit + 1)
      BY <2>c, <3>1
    <3> QED
      BY <2>l, <3>1, <3>2
  <2>3. CASE TakeWake
    BY <2>3, <2>c DEF TakeWake
  <2>4. CASE ReadLive
    BY <2>4, <2>c DEF ReadLive
  <2>5. CASE PeekEmpty \/ PeekRaises
    BY <2>5, <2>c DEF PeekEmpty, PeekRaises
  <2>6. CASE PeekBatch
    <3>1. pc = "peek" /\ pc' = "send" /\ mainPc' = mainPc /\ wake' = wake
      BY <2>6 DEF PeekBatch
    <3> QED
      BY <3>1, <2>c
  <2>7. CASE ReplyArrives \/ DeleteAcked \/ RequestFails \/ (\E S \in SUBSET batch : ServerTakes(S))
    BY <2>7, <2>c DEF ReplyArrives, DeleteAcked, RequestFails, ServerTakes
  <2>8. CASE RetryDue
    <3>1. pc = "backoff" /\ pc' = "wait" /\ wake' \in BOOLEAN /\ mainPc' = mainPc
      BY <2>8 DEF RetryDue
    <3>2. credit' = Lower(CreditCap, credit + 1)
      BY <2>c, <3>1
    <3> QED
      BY <2>l, <3>1, <3>2
  <2>9. CASE Crash
    <3>1. mainPc' = "off" /\ pc # "off" /\ pc' = "off" /\ ~ wake' /\ wake' \in BOOLEAN
      BY <2>9 DEF Crash
    <3>2. credit' = 0
      BY <2>c, <3>1
    <3> QED
      BY <3>1, <3>2
  <2>10. CASE Restart
    <3>1. mainPc' = "idle" /\ pc = "off" /\ pc' = "wait" /\ wake' \in BOOLEAN
      BY <2>10 DEF Restart
    <3>2. credit' = Lower(CreditCap, credit + 1)
      BY <2>c, <3>1
    <3> QED
      BY <2>l, <3>1, <3>2
  <2> QED
    BY <1>n, <2>1, <2>2, <2>3, <2>4, <2>5, <2>6, <2>7, <2>8, <2>9, <2>10
    DEF CadenceNext, Next, Main, Worker, Network
<1> QED
  BY <1>u, <1>n

(* A backlog never makes a request by itself: each is owed to a            *)
(* notification, to a backoff that has passed, or to a start.              *)
THEOREM RequestsAreOwed == CadenceSpec => []NoRequestFlood
<1>1. CadenceInit => Earned
  BY DEF CadenceInit, Init, Earned, Awake, WorkerPcs
<1>2. Earned => NoRequestFlood
  BY DEF Earned, Awake, NoRequestFlood
<1> QED
  BY <1>1, <1>2, EarnedStep, PTL DEF CadenceSpec

(* The history changes nothing the threads do, so that what is proved of   *)
(* Spec holds with it.                                                     *)
THEOREM HistoryOnly == CadenceSpec => Spec
<1>1. CadenceInit => Init
  BY DEF CadenceInit
<1>2. [CadenceNext]_cadenceVars => [Next]_vars
  BY DEF CadenceNext, cadenceVars
<1> QED
  BY <1>1, <1>2, PTL DEF CadenceSpec, Spec
=============================================================================
