---------------------------- MODULE SmsInbox_proofs ----------------------------
(***************************************************************************)
(* Theorems about SmsInbox, for any messages and any size of the storage.  *)
(***************************************************************************)
EXTENDS SmsInbox, TLAPS

(* Parts in events that wait for dispatch, and in events that were queued  *)
(* or obeyed.                                                              *)
Waiting  == UNION ready
Reported == UNION (queued \cup obeyed)

(* While there are events, the poll is at its deletions or dispatches; what*)
(* it may delete is in an event or kept for one; no message in memory is   *)
(* complete.                                                               *)
AtStage ==
  /\ ready # {} => pc \in {"delete", "dispatch"}
  /\ pc = "delete" => processed \subseteq pending \cup Waiting
  /\ \A m \in Long : ~ (PartsOf(m) \subseteq pending)

(* A part is at one place: unread, or kept, or in an event that waits, or  *)
(* in one that is done.  It gets nowhere without its arrival.              *)
OnePlace ==
  /\ unread \cap (pending \cup Waiting \cup Reported) = {}
  /\ pending \cap (Waiting \cup Reported) = {}
  /\ Waiting \cap Reported = {}
  /\ pending \cup Waiting \cup Reported \subseteq arrived
  /\ {} \notin ready
  /\ \A e, f \in ready : e # f => e \cap f = {}

IsWhole(e)  == \E m \in Long \cup Plain \cup Commands : e = PartsOf(m)
AllWhole    == \A e \in ready \cup queued : e \subseteq direct \/ IsWhole(e)

(* What has arrived is somewhere.                                          *)
Accounted ==
  arrived \subseteq Stored \cup pending \cup Waiting \cup Reported \cup wiped \cup gone
                    \cup dropped

IInv == TypeOK /\ AtStage /\ OnePlace /\ AllWhole /\ Accounted /\ NothingTwice

-----------------------------------------------------------------------------
(* Parts and messages.                                                     *)
LEMMA PartsOfMessages ==
  /\ LongParts \subseteq Parts
  /\ \A m : PartsOf(m) \subseteq Parts /\ \A p \in PartsOf(m) : p[1] = m
  /\ \A m \in Long : PartsOf(m) \subseteq LongParts /\ PartsOf(m) # {}
<1>1. LongParts \subseteq Parts
  BY DEF Parts
<1>2. ASSUME NEW m \in Long, NEW p \in Parts, p[1] = m PROVE p \in LongParts
  BY <1>2 DEF Parts, LongParts
<1>3. ASSUME NEW m \in Long PROVE <<m, 1>> \in PartsOf(m)
  BY DEF Parts, LongParts, PartsOf
<1> QED
  BY <1>1, <1>2, <1>3 DEF PartsOf

LEMMA SinglesAreWhole ==
  ASSUME NEW p \in Decodable, p \notin LongParts
  PROVE  IsWhole({p})
<1>1. p \in Parts /\ p[1] \notin Garbled
  BY DEF Decodable
<1>2. p[1] \in Plain \cup Commands /\ p = <<p[1], 1>>
  BY <1>1 DEF Parts, LongParts
<1>3. p[1] \notin Long
  BY <1>2 DEF LongParts
<1>4. ASSUME NEW q \in Parts, q[1] = p[1] PROVE q = p
  BY <1>2, <1>3, <1>4 DEF Parts, LongParts
<1>5. {p} = PartsOf(p[1])
  BY <1>1, <1>4 DEF PartsOf
<1> QED
  BY <1>2, <1>5 DEF IsWhole

(* What becomes of the parts that a listing brings and of those in memory. *)
LEMMA AssembleEffect ==
  ASSUME TypeOK, AtStage, NEW S \in SUBSET (unread \cap Decodable), NEW stale,
         pending \cap S = {}, Assemble(S, stale)
  PROVE  /\ pending' \subseteq LongParts /\ \A m \in Long : ~ (PartsOf(m) \subseteq pending')
         /\ pending' \cup Waiting' \subseteq pending \cup S
         /\ S \subseteq pending' \cup Waiting'
         /\ pending \subseteq pending' \cup Waiting' \cup gone'
         /\ gone \subseteq gone' /\ gone' \subseteq gone \cup pending
         /\ pending' \cap Waiting' = {}
         /\ {} \notin ready' /\ ready' \subseteq SUBSET Parts
         /\ \A e, f \in ready' : e # f => e \cap f = {}
         /\ \A e \in ready' : IsWhole(e)
         /\ S = {} => ready' = {}
<1> DEFINE kept  == {p \in pending : p[1] \notin stale}
           parts == kept \cup PartOnly(S)
           done  == Complete(parts)
<1>1. /\ ready' = {{p} : p \in S \ LongParts} \cup {parts \cap PartsOf(m) : m \in done}
      /\ pending' = {p \in parts : p[1] \notin done}
      /\ gone' = gone \cup (pending \ kept)
  BY DEF Assemble
<1>2. /\ pending \subseteq LongParts /\ S \subseteq Parts /\ S \subseteq Decodable
      /\ kept \subseteq pending /\ parts \subseteq LongParts
      /\ parts \subseteq pending \cup S /\ S \cap LongParts \subseteq parts
      /\ PartOnly(S) = S \cap LongParts
  BY DEF TypeOK, PartOnly, Decodable
<1>3. done \subseteq Long /\ \A m \in Long : m \in done <=> PartsOf(m) \subseteq parts
  BY DEF Complete
<1>p. parts = kept \cup PartOnly(S)
  OBVIOUS
<1> HIDE DEF kept, parts, done
<1>4. \A m \in done : parts \cap PartsOf(m) = PartsOf(m)
  BY <1>3
<1>5. ready' = {{p} : p \in S \ LongParts} \cup {PartsOf(m) : m \in done}
  BY <1>1, <1>4
<1>6. \A p \in parts : p[1] \in done => p \in PartsOf(p[1])
  BY <1>2, PartsOfMessages DEF PartsOf
<1>7. Waiting' = (S \ LongParts) \cup {p \in parts : p[1] \in done}
  <2>1. ASSUME NEW p \in Waiting' PROVE p \in (S \ LongParts) \cup {q \in parts : q[1] \in done}
    <3>1. PICK e \in ready' : p \in e
      BY <2>1 DEF Waiting
    <3>2. CASE \E q \in S \ LongParts : e = {q}
      BY <3>1, <3>2
    <3>3. CASE \E m \in done : e = PartsOf(m)
      BY <1>4, <3>1, <3>3, PartsOfMessages
    <3> QED
      BY <1>5, <3>1, <3>2, <3>3
  <2>2. ASSUME NEW p \in S \ LongParts PROVE p \in Waiting'
    <3>1. {p} \in ready' /\ p \in {p}
      BY <1>5
    <3> QED
      BY <3>1 DEF Waiting
  <2>3. ASSUME NEW p \in parts, p[1] \in done PROVE p \in Waiting'
    <3>1. PartsOf(p[1]) \in ready' /\ p \in PartsOf(p[1])
      BY <1>5, <1>6, <2>3
    <3> QED
      BY <3>1 DEF Waiting
  <2> QED
    BY <2>1, <2>2, <2>3
<1>8. pending' \subseteq LongParts /\ pending' \cap Waiting' = {}
      /\ pending' \cup Waiting' \subseteq pending \cup S
      /\ pending' \cup Waiting' = parts \cup (S \ LongParts)
  BY <1>1, <1>2, <1>7
<1>9. ASSUME NEW m \in Long PROVE ~ (PartsOf(m) \subseteq pending')
  <2>1. CASE m \in done
    <3>1. PICK p : p \in PartsOf(m)
      BY PartsOfMessages
    <3> QED
      BY <1>1, <2>1, <3>1, PartsOfMessages
  <2>2. CASE m \notin done
    BY <1>1, <1>3, <2>2
  <2> QED
    BY <2>1, <2>2
<1>10. /\ S \subseteq pending' \cup Waiting'
       /\ pending \subseteq pending' \cup Waiting' \cup gone'
       /\ gone \subseteq gone' /\ gone' \subseteq gone \cup pending
  BY <1>1, <1>2, <1>8, <1>p
<1>11. {} \notin ready' /\ ready' \subseteq SUBSET Parts
  <2>1. \A p \in S \ LongParts : {p} # {} /\ {p} \in SUBSET Parts
    BY <1>2
  <2>2. \A m \in done : PartsOf(m) # {} /\ PartsOf(m) \in SUBSET Parts
    BY <1>3, PartsOfMessages
  <2> QED
    BY <1>5, <2>1, <2>2
<1>12. ASSUME NEW e \in ready', NEW f \in ready', NEW x \in e, x \in f PROVE e = f
  <2>1. CASE x \in LongParts
    <3>1. \A p \in S \ LongParts : x \notin {p}
      BY <2>1
    <3>2. PICK m \in done, n \in done : e = PartsOf(m) /\ f = PartsOf(n)
      BY <1>5, <1>12, <3>1
    <3> QED
      BY <1>12, <3>2, PartsOfMessages
  <2>2. CASE x \notin LongParts
    <3>1. \A m \in done : x \notin PartsOf(m)
      BY <1>3, <2>2, PartsOfMessages
    <3>2. PICK p \in S, q \in S : e = {p} /\ f = {q}
      BY <1>5, <1>12, <3>1
    <3> QED
      BY <1>12, <3>2
  <2> QED
    BY <2>1, <2>2
<1>13. \A e, f \in ready' : e # f => e \cap f = {}
  BY <1>12
<1>14. ASSUME NEW e \in ready' PROVE IsWhole(e)
  <2>1. CASE \E p \in S \ LongParts : e = {p}
    BY <1>2, <2>1, SinglesAreWhole
  <2>2. CASE \E m \in done : e = PartsOf(m)
    BY <1>3, <2>2 DEF IsWhole
  <2> QED
    BY <1>5, <2>1, <2>2
<1>15. ASSUME S = {} PROVE ready' = {}
  <2>1. done = {}
    BY <1>2, <1>3, <1>15, <1>p DEF AtStage
  <2> QED
    BY <1>5, <1>15, <2>1
<1> QED
  BY <1>8, <1>9, <1>10, <1>11, <1>13, <1>14, <1>15

(* What a dispatch takes from the events that wait: all the parts of one,  *)
(* and it is none that was dispatched before.                              *)
LEMMA DispatchedEffect ==
  ASSUME OnePlace, NEW e, Dispatched(e)
  PROVE  /\ e \subseteq Waiting /\ Waiting = Waiting' \cup e /\ Waiting' \cap e = {}
         /\ e \notin queued \cup obeyed
         /\ ready' # {} => pc' = "dispatch"
         /\ ready' \subseteq ready /\ e \in ready
         /\ UNCHANGED <<faulty, storage, processed, clearDue, pending, wiped, direct, dropped>>
<1>1. e \in ready /\ ready' = ready \ {e} /\ (ready' # {} => pc' = "dispatch")
      /\ UNCHANGED <<faulty, storage, processed, clearDue, pending, wiped, direct, dropped>>
  BY DEF Dispatched
<1>2. e \subseteq Waiting /\ Waiting = Waiting' \cup e
  BY <1>1 DEF Waiting
<1>3. Waiting' \cap e = {}
  BY <1>1 DEF Waiting, OnePlace
<1>4. e \notin queued \cup obeyed
  <2>1. PICK p : p \in e
    <3>1. e # {}
      BY <1>1 DEF OnePlace
    <3> QED
      BY <3>1
  <2>2. p \notin Reported
    BY <1>2, <2>1 DEF OnePlace
  <2> QED
    BY <2>1, <2>2 DEF Reported
<1> QED
  BY <1>1, <1>2, <1>3, <1>4

-----------------------------------------------------------------------------
LEMMA TypeStep ==
  ASSUME TypeOK, AtStage, OnePlace, Next
  PROVE  TypeOK'
<1> USE DEF storage, poll, results, history
<1>1. ASSUME NEW p \in Parts, Arrive(p) PROVE TypeOK'
  BY <1>1 DEF Arrive, TypeOK
<1>2. ASSUME NEW S \in SUBSET (Listable \cap Decodable), NEW full \in BOOLEAN, NEW stale,
             List(S, full, stale)
      PROVE  TypeOK'
  <2>1. pending \cap S = {} /\ S \in SUBSET (unread \cap Decodable) /\ Assemble(S, stale)
    BY <1>2 DEF List, Listable, OnePlace
  <2>2. pending' \subseteq LongParts /\ ready' \subseteq SUBSET Parts /\ gone' \subseteq Parts
    BY <2>1, AssembleEffect, PartsOfMessages DEF TypeOK
  <2>3. processed' \subseteq Parts /\ clearDue' \in BOOLEAN
        /\ pc' \in {"idle", "list", "delete", "clear", "dispatch", "off"}
    BY <1>2, <2>1 DEF List, Decodable
  <2>4. /\ unread' = {} /\ read' = unread \cup read /\ UNCHANGED <<faulty, arrived, results, wiped, direct, dropped>>
    BY <1>2 DEF List, Listable
  <2> QED
    BY <2>2, <2>3, <2>4 DEF TypeOK
<1>3. ASSUME NEW full \in BOOLEAN, NEW stale, ListRefused(full, stale) PROVE TypeOK'
  <2>1. Assemble({}, stale) /\ {} \in SUBSET (unread \cap Decodable) /\ pending \cap {} = {}
    BY <1>3 DEF ListRefused
  <2>2. pending' \subseteq LongParts /\ ready' \subseteq SUBSET Parts /\ gone' \subseteq Parts
    BY <2>1, AssembleEffect, PartsOfMessages DEF TypeOK
  <2>3. clearDue' \in BOOLEAN /\ pc' \in {"idle", "list", "delete", "clear", "dispatch", "off"}
        /\ UNCHANGED <<faulty, storage, processed, results, wiped, direct, dropped>>
    BY <1>3 DEF ListRefused
  <2> QED
    BY <2>2, <2>3 DEF TypeOK
<1>4. CASE ListRaises
  BY <1>4 DEF ListRaises, Stored, TypeOK
<1>5. ASSUME NEW D \in SUBSET processed, DeleteProcessed(D) PROVE TypeOK'
  <2>1. /\ pc' \in {"dispatch", "clear", "idle"} /\ processed' = {}
        /\ read' \subseteq read
        /\ UNCHANGED <<faulty, arrived, unread, clearDue, pending, ready, results, history>>
    BY <1>5 DEF DeleteProcessed, Decoded
  <2> QED
    BY <2>1 DEF TypeOK
<1>6. CASE ClearStorage \/ FullUrc
  <2>1. /\ pc' \in {pc, "list"} /\ clearDue' \in BOOLEAN /\ wiped' \subseteq Parts
        /\ unread' \in {{}, unread} /\ read' \in {{}, read}
        /\ UNCHANGED <<faulty, arrived, processed, pending, ready, results, gone, direct, dropped>>
    BY <1>6 DEF ClearStorage, FullUrc, Wipe, Stored, TypeOK
  <2> QED
    BY <2>1 DEF TypeOK
<1>7. ASSUME NEW p \in unread, ReadByIndex(p) \/ ReadFails(p) \/ DeleteRaises(p) PROVE TypeOK'
  <2>1. CASE ReadByIndex(p)
    BY <2>1 DEF ReadByIndex, TypeOK
  <2>2. CASE ReadFails(p)
    BY <2>2 DEF ReadFails, TypeOK
  <2>3. CASE DeleteRaises(p)
    BY <2>3 DEF DeleteRaises, TypeOK
  <2> QED
    BY <1>7, <2>1, <2>2, <2>3
<1>8. ASSUME NEW e \in ready, DispatchEvent(e) \/ RequestReboot(e) \/ RebootFails(e) \/ IgnoreCommand(e)
      PROVE  TypeOK'
  <2>1. Dispatched(e) /\ e \in SUBSET Parts
    BY <1>8 DEF DispatchEvent, RequestReboot, RebootFails, IgnoreCommand, TypeOK
  <2>2. /\ requested' \in BOOLEAN /\ gone' \subseteq Parts
        /\ queued' \subseteq SUBSET Parts /\ obeyed' \subseteq SUBSET Parts
        /\ again' \subseteq SUBSET Parts
    BY <1>8, <2>1 DEF DispatchEvent, RequestReboot, RebootFails, IgnoreCommand, Queue, TypeOK
  <2>3. pc' \in {"idle", "list", "delete", "clear", "dispatch", "off"} /\ ready' \subseteq ready
        /\ UNCHANGED <<faulty, storage, processed, clearDue, pending, wiped, direct, dropped>>
    BY <2>1 DEF Dispatched
  <2> QED
    BY <2>2, <2>3 DEF TypeOK
<1>9. CASE Crash
  <2>1. UNION ready \subseteq Parts /\ pending \subseteq Parts
    BY PartsOfMessages DEF TypeOK
  <2>2. gone' \subseteq Parts
    BY <1>9, <2>1 DEF Crash, TypeOK
  <2>3. /\ pc' = "off" /\ processed' = {} /\ clearDue' = FALSE /\ pending' = {} /\ ready' = {}
        /\ requested' = FALSE
        /\ UNCHANGED <<faulty, storage, queued, obeyed, again, wiped, direct, dropped>>
    BY <1>9 DEF Crash
  <2>4. /\ pc' \in {"idle", "list", "delete", "clear", "dispatch", "off"}
        /\ processed' \subseteq Parts /\ pending' \subseteq LongParts
        /\ ready' \subseteq SUBSET Parts /\ clearDue' \in BOOLEAN /\ requested' \in BOOLEAN
    BY <2>3
  <2> QED
    BY <2>2, <2>3, <2>4 DEF TypeOK
<1>10. CASE Restart \/ FaultsEnd
  <2>1. /\ pc' \in {pc, "idle"} /\ faulty' \in BOOLEAN
        /\ UNCHANGED <<storage, processed, clearDue, pending, ready, results, history>>
    BY <1>10 DEF Restart, FaultsEnd, TypeOK
  <2> QED
    BY <2>1 DEF TypeOK
<1> QED
  BY <1>1, <1>2, <1>3, <1>4, <1>5, <1>6, <1>7, <1>8, <1>9, <1>10
  DEF Next, Listings, Deletions, Dispatches

-----------------------------------------------------------------------------
(* A listing takes the unread parts into memory, each once.                *)
LEMMA ListStep ==
  ASSUME IInv, NEW S \in SUBSET (Listable \cap Decodable), NEW full, NEW stale,
         List(S, full, stale) \/ (S = {} /\ ListRefused(full, stale))
  PROVE  (AtStage /\ OnePlace /\ AllWhole /\ Accounted /\ NothingTwice)'
<1> USE DEF storage, poll, results, history
<1>1. /\ pc \in {"idle", "list"} /\ ready = {} /\ Assemble(S, stale)
      /\ S \subseteq unread /\ pending \cap S = {} /\ S \in SUBSET (unread \cap Decodable)
  BY DEF IInv, AtStage, OnePlace, List, ListRefused, Listable
<1>2. /\ unread' \subseteq unread /\ Stored' = Stored
      /\ unread' \cap S = {} /\ UNCHANGED <<arrived, queued, obeyed, again, wiped, direct, dropped>>
      /\ pc' = "delete" => processed' = S
      /\ S # {} => pc' = "delete"
  BY <1>1 DEF List, ListRefused, Listable, Stored
<1>3. TypeOK /\ AtStage /\ OnePlace /\ AllWhole
  BY DEF IInv
<1>4. /\ pending' \subseteq LongParts /\ \A m \in Long : ~ (PartsOf(m) \subseteq pending')
      /\ pending' \cup Waiting' \subseteq pending \cup S
      /\ S \subseteq pending' \cup Waiting'
      /\ pending \subseteq pending' \cup Waiting' \cup gone'
      /\ gone \subseteq gone' /\ gone' \subseteq gone \cup pending
      /\ pending' \cap Waiting' = {}
      /\ {} \notin ready' /\ ready' \subseteq SUBSET Parts
      /\ \A e, f \in ready' : e # f => e \cap f = {}
      /\ \A e \in ready' : IsWhole(e)
      /\ S = {} => ready' = {}
  BY <1>1, <1>3, AssembleEffect
<1>5. AtStage'
  BY <1>2, <1>4 DEF AtStage
<1>6. OnePlace'
  <2>1. Reported' = Reported
    BY <1>2 DEF Reported
  <2>2. unread' \cap (pending' \cup Waiting' \cup Reported') = {}
    BY <1>1, <1>2, <1>3, <1>4, <2>1 DEF OnePlace
  <2>3. (pending' \cup Waiting') \cap Reported' = {}
    BY <1>1, <1>3, <1>4, <2>1 DEF OnePlace
  <2>4. pending' \cup Waiting' \cup Reported' \subseteq arrived'
    BY <1>1, <1>2, <1>3, <1>4, <2>1 DEF OnePlace, TypeOK
  <2> QED
    BY <1>4, <2>2, <2>3, <2>4 DEF OnePlace
<1>7. AllWhole'
  BY <1>2, <1>3, <1>4 DEF AllWhole, IsWhole
<1>8. Accounted'
  <2>1. Reported' = Reported
    BY <1>2 DEF Reported
  <2>2. Waiting = {}
    BY <1>1 DEF Waiting
  <2> QED
    BY <1>2, <1>4, <2>1, <2>2 DEF IInv, Accounted
<1>9. NothingTwice'
  BY <1>2 DEF IInv, NothingTwice
<1> QED
  BY <1>5, <1>6, <1>7, <1>8, <1>9

(* A dispatch moves one event from those that wait to those that are done, *)
(* and an ignored command to what is gone.                                 *)
LEMMA DispatchStep ==
  ASSUME IInv, NEW e,
         DispatchEvent(e) \/ RequestReboot(e) \/ RebootFails(e) \/ IgnoreCommand(e)
  PROVE  (AtStage /\ OnePlace /\ AllWhole /\ Accounted /\ NothingTwice)'
<1> USE DEF storage, poll, results, history
<1>1. Dispatched(e) /\ OnePlace /\ AtStage /\ AllWhole
  BY DEF IInv, DispatchEvent, RequestReboot, RebootFails, IgnoreCommand
<1>2. /\ e \subseteq Waiting /\ Waiting = Waiting' \cup e /\ Waiting' \cap e = {}
      /\ e \notin queued \cup obeyed /\ e \in ready
      /\ ready' # {} => pc' = "dispatch"
      /\ ready' \subseteq ready
      /\ UNCHANGED <<faulty, arrived, unread, read, processed, clearDue, pending, wiped, direct, dropped>>
  BY <1>1, DispatchedEffect
<1>3. pc' \in {"idle", "dispatch"}
  BY <1>1 DEF Dispatched
<1>4. \/ /\ queued' \cup obeyed' = (queued \cup obeyed) \cup {e} /\ gone' = gone
         /\ queued' \subseteq queued \cup {e}
      \/ UNCHANGED <<queued, obeyed>> /\ gone' = gone \cup e
  BY DEF DispatchEvent, RequestReboot, RebootFails, IgnoreCommand, Queue
<1>5. NothingTwice'
  BY <1>2 DEF IInv, NothingTwice, DispatchEvent, RequestReboot, RebootFails, IgnoreCommand, Queue
<1>6. AtStage'
  BY <1>1, <1>2, <1>3 DEF AtStage
<1>7. \/ Reported' = Reported \cup e /\ gone' = gone
      \/ Reported' = Reported /\ gone' = gone \cup e
  BY <1>4 DEF Reported
<1>8. OnePlace'
  BY <1>1, <1>2, <1>7 DEF OnePlace
<1>9. AllWhole'
  BY <1>1, <1>2, <1>4 DEF AllWhole, IsWhole
<1>10. Accounted'
  <2>1. Stored' = Stored
    BY <1>2 DEF Stored
  <2> QED
    BY <1>2, <1>7, <2>1 DEF IInv, Accounted
<1> QED
  BY <1>5, <1>6, <1>8, <1>9, <1>10

(* Reading by index makes an event of one unread part.                     *)
LEMMA ReadStep ==
  ASSUME IInv, NEW p \in unread, ReadByIndex(p)
  PROVE  (AtStage /\ OnePlace /\ AllWhole /\ Accounted /\ NothingTwice)'
<1> USE DEF storage, poll, results, history
<1>1. /\ pc' = "dispatch" /\ ready' = {{p}} /\ direct' = direct \cup {p}
      /\ unread' = unread \ {p} /\ read \subseteq read'
      /\ UNCHANGED <<arrived, pending, queued, obeyed, again, wiped, gone, dropped>>
  BY DEF ReadByIndex
<1>2. ready = {} /\ Waiting = {} /\ Waiting' = {p} /\ Reported' = Reported
  BY <1>1 DEF ReadByIndex, IInv, AtStage, Waiting, Reported
<1>3. p \in arrived /\ p \notin pending \cup Reported
  BY DEF IInv, TypeOK, OnePlace
<1>4. AtStage'
  BY <1>1 DEF IInv, AtStage
<1>5. OnePlace'
  BY <1>1, <1>2, <1>3 DEF IInv, OnePlace
<1>6. AllWhole'
  BY <1>1, <1>2 DEF IInv, AllWhole, IsWhole
<1>7. Accounted' /\ NothingTwice'
  BY <1>1, <1>2 DEF IInv, Accounted, NothingTwice, Stored
<1> QED
  BY <1>4, <1>5, <1>6, <1>7

LEMMA NextInv == IInv /\ [Next]_vars => IInv'
<1> SUFFICES ASSUME IInv, [Next]_vars PROVE IInv'
  OBVIOUS
<1> USE DEF storage, poll, results, history
<1>0. TypeOK /\ AtStage /\ OnePlace /\ AllWhole /\ Accounted /\ NothingTwice
  BY DEF IInv
<1>u. CASE UNCHANGED vars
  BY <1>0, <1>u DEF vars, IInv, TypeOK, AtStage, OnePlace, AllWhole, IsWhole, Accounted, NothingTwice,
                    Stored, Waiting, Reported
<1>n. CASE Next
  <2>t. TypeOK'
    BY <1>0, <1>n, TypeStep
  <2> SUFFICES (AtStage /\ OnePlace /\ AllWhole /\ Accounted /\ NothingTwice)'
    BY <2>t DEF IInv
  <2>1. ASSUME NEW p \in Parts, Arrive(p)
        PROVE  (AtStage /\ OnePlace /\ AllWhole /\ Accounted /\ NothingTwice)'
    BY <1>0, <2>1 DEF Arrive, AtStage, OnePlace, AllWhole, IsWhole, Accounted, NothingTwice, Stored,
                      Waiting, Reported
  <2>2. CASE Listings
    BY <2>2, ListStep DEF Listings
  <2>3. CASE ListRaises
    <3>1. /\ pc' = "idle" /\ pc # "delete" /\ ready = {} /\ unread' \subseteq unread
          /\ Stored' = Stored
          /\ UNCHANGED <<arrived, pending, ready, queued, obeyed, again, wiped, gone, direct, dropped>>
      BY <1>0, <2>3 DEF ListRaises, AtStage, Stored
    <3> QED
      BY <1>0, <3>1 DEF AtStage, OnePlace, AllWhole, IsWhole, Accounted, NothingTwice, Waiting, Reported
  <2>4. ASSUME NEW D \in SUBSET processed, DeleteProcessed(D)
        PROVE  (AtStage /\ OnePlace /\ AllWhole /\ Accounted /\ NothingTwice)'
    <3>1. /\ pc = "delete" /\ D \subseteq pending \cup Waiting
          /\ pc' # "delete" /\ (ready # {} => pc' = "dispatch")
          /\ unread' = unread /\ read' = read \ D
          /\ UNCHANGED <<arrived, pending, ready, queued, obeyed, again, wiped, gone, direct, dropped>>
      BY <1>0, <2>4 DEF DeleteProcessed, Decoded, AtStage
    <3>2. Waiting' = Waiting /\ Reported' = Reported
      BY <3>1 DEF Waiting, Reported
    <3>3. AtStage' /\ NothingTwice'
      BY <1>0, <3>1 DEF AtStage, NothingTwice
    <3>4. OnePlace' /\ AllWhole'
      BY <1>0, <3>1, <3>2 DEF OnePlace, AllWhole, IsWhole
    <3>5. Accounted'
      BY <1>0, <3>1, <3>2 DEF Accounted, Stored
    <3> QED
      BY <3>3, <3>4, <3>5
  <2>5. CASE ClearStorage \/ FullUrc
    <3>1. /\ pc' \in {"idle", "list"} /\ ready = {}
          /\ unread' \subseteq unread /\ Stored \cup wiped \subseteq Stored' \cup wiped'
          /\ UNCHANGED <<arrived, pending, ready, queued, obeyed, again, gone, direct, dropped>>
      BY <1>0, <2>5 DEF ClearStorage, FullUrc, Wipe, AtStage, Stored
    <3>2. Waiting' = Waiting /\ Reported' = Reported
      BY <3>1 DEF Waiting, Reported
    <3>3. AtStage' /\ NothingTwice' /\ OnePlace' /\ AllWhole'
      BY <1>0, <3>1, <3>2 DEF AtStage, NothingTwice, OnePlace, AllWhole, IsWhole
    <3>4. Accounted'
      BY <1>0, <3>1, <3>2 DEF Accounted
    <3> QED
      BY <3>3, <3>4
  <2>6. ASSUME NEW p \in unread, ReadFails(p)
        PROVE  (AtStage /\ OnePlace /\ AllWhole /\ Accounted /\ NothingTwice)'
    <3>1. /\ unread' \subseteq unread /\ Stored' = Stored
          /\ UNCHANGED <<arrived, pc, processed, pending, ready, queued, obeyed, again, wiped, gone,
                         direct, dropped>>
      BY <2>6 DEF ReadFails, Stored
    <3> QED
      BY <1>0, <3>1 DEF AtStage, OnePlace, AllWhole, IsWhole, Accounted, NothingTwice, Waiting, Reported
  <2>7. ASSUME NEW p \in unread, ReadByIndex(p)
        PROVE  (AtStage /\ OnePlace /\ AllWhole /\ Accounted /\ NothingTwice)'
    BY <2>7, ReadStep
  <2>8. CASE Dispatches
    BY <2>8, DispatchStep DEF Dispatches
  <2>9. CASE Crash
    <3>1. /\ pc' = "off" /\ ready' = {} /\ pending' = {} /\ gone' = gone \cup pending \cup Waiting
          /\ UNCHANGED <<arrived, unread, read, queued, obeyed, again, wiped, direct, dropped>>
      BY <2>9 DEF Crash, Waiting
    <3>2. Waiting' = {} /\ Reported' = Reported /\ Stored' = Stored
      BY <3>1 DEF Waiting, Reported, Stored
    <3>3. \A m \in Long : ~ (PartsOf(m) \subseteq pending')
      BY <3>1, PartsOfMessages
    <3>4. AtStage' /\ OnePlace' /\ AllWhole' /\ NothingTwice'
      BY <1>0, <3>1, <3>2, <3>3 DEF AtStage, OnePlace, AllWhole, IsWhole, NothingTwice
    <3>5. Accounted'
      BY <1>0, <3>1, <3>2 DEF Accounted
    <3> QED
      BY <3>4, <3>5
  <2>10. CASE Restart \/ FaultsEnd
    <3>1. /\ pc' = pc \/ (pc = "off" /\ pc' = "idle")
          /\ UNCHANGED <<storage, processed, pending, ready, queued, obeyed, again, wiped, gone, direct, dropped>>
      BY <2>10 DEF Restart, FaultsEnd
    <3> QED
      BY <1>0, <3>1 DEF AtStage, OnePlace, AllWhole, IsWhole, Accounted, NothingTwice, Stored, Waiting,
                        Reported
  <2>11. ASSUME NEW p \in unread, DeleteRaises(p)
         PROVE  (AtStage /\ OnePlace /\ AllWhole /\ Accounted /\ NothingTwice)'
    <3>1. /\ unread' = unread \ {p} /\ read' = read /\ dropped' = dropped \cup {p}
          /\ UNCHANGED <<arrived, pc, processed, pending, ready, queued, obeyed, again, wiped, gone,
                         direct>>
      BY <2>11 DEF DeleteRaises
    <3>2. Waiting' = Waiting /\ Reported' = Reported
      BY <3>1 DEF Waiting, Reported
    <3>3. AtStage' /\ NothingTwice' /\ OnePlace' /\ AllWhole'
      BY <1>0, <3>1, <3>2 DEF AtStage, NothingTwice, OnePlace, AllWhole, IsWhole
    <3>4. Accounted'
      BY <1>0, <3>1, <3>2 DEF Accounted, Stored
    <3> QED
      BY <3>3, <3>4
  <2> QED
    BY <1>n, <2>1, <2>2, <2>3, <2>4, <2>5, <2>6, <2>7, <2>8, <2>9, <2>10, <2>11 DEF Next, Deletions
<1> QED
  BY <1>n, <1>u

LEMMA InitInv == Init => IInv
<1> SUFFICES ASSUME Init PROVE IInv
  OBVIOUS
<1>1. TypeOK /\ Accounted /\ NothingTwice
  BY DEF Init, TypeOK, Accounted, NothingTwice
<1>2. Waiting = {} /\ Reported = {}
  BY DEF Init, Waiting, Reported
<1>3. OnePlace /\ AllWhole
  BY <1>2 DEF Init, OnePlace, AllWhole
<1>4. AtStage
  BY PartsOfMessages DEF Init, AtStage
<1> QED
  BY <1>1, <1>3, <1>4 DEF IInv

-----------------------------------------------------------------------------
(* The inductive invariant: each part has one place or is one of the known *)
(* losses, and an event is made of parts no other event has.               *)
THEOREM AlwaysInPlace == Spec => []IInv
  BY InitInv, NextInv, PTL DEF Spec

(* Every variable has its type; no part is in the SIM twice.               *)
THEOREM TypeCorrect == Spec => []TypeOK
  BY AlwaysInPlace, PTL DEF IInv

(* No part of a message disappears between the SIM, memory and the events, *)
(* except in the ways that NoPartVanishes names.                           *)
THEOREM NoPartIsLost == Spec => []NoPartVanishes
<1>1. IInv => NoPartVanishes
  <2>1. UNION (ready \cup queued \cup obeyed) = Waiting \cup Reported
    BY DEF Waiting, Reported
  <2> QED
    BY <2>1 DEF IInv, Accounted, NoPartVanishes
<1> QED
  BY <1>1, AlwaysInPlace, PTL

(* No message is reported twice, no reboot command is obeyed twice.        *)
THEOREM NothingIsRepeated == Spec => []NothingTwice
  BY AlwaysInPlace, PTL DEF IInv

(* Only a part read by its index can be reported without its message.      *)
THEOREM MessagesStayWhole == Spec => []EventsAreWhole
<1>1. IInv => EventsAreWhole
  BY DEF IInv, AllWhole, IsWhole, EventsAreWhole
<1> QED
  BY <1>1, AlwaysInPlace, PTL
================================================================================
