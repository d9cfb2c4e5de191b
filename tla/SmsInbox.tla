------------------------------ MODULE SmsInbox ------------------------------
(***************************************************************************)
(* SMS in ModemEventsReader: the network fills the SIM's message storage,  *)
(* the reader thread lists the unread messages, assembles long ones over   *)
(* several polls, deletes what it has decoded, clears a full storage, and  *)
(* dispatches events, or obeys an authorised reboot command.  Messages     *)
(* arrive, and the process may end, between any two AT commands.           *)
(*                                                                         *)
(* A message is a number, a part of it the pair <<message, seq>>; parts    *)
(* of different messages have different concatenation keys.  An event is   *)
(* the set of the parts its text is made of.                               *)
(***************************************************************************)
EXTENDS Naturals, FiniteSets

CONSTANTS
  Long,        \* messages of two parts
  Plain,       \* messages of one part
  Commands,    \* authorised reboot commands, of one part
  Garbled,     \* messages whose PDU the reader cannot decode
  Capacity,    \* messages the SIM can store
  DirectReads  \* whether sms_poll_interval_s is 0, so that +CMTI is read at once

ASSUME InboxAssumption ==
  /\ \A S \in {Long, Plain, Commands, Garbled} : S \subseteq Nat
  /\ Capacity \in Nat \ {0}
  /\ DirectReads \in BOOLEAN

LongParts  == Long \X {1, 2}
Parts      == LongParts \cup ((Plain \cup Commands \cup Garbled) \X {1})
PartsOf(m) == {p \in Parts : p[1] = m}
Decodable  == {p \in Parts : p[1] \notin Garbled}
IsCommand(e) == \E m \in Commands : e = PartsOf(m)

VARIABLES
  arrived,    \* parts the network has delivered
  unread,     \* parts in the SIM with status REC UNREAD
  read,       \* parts in the SIM with status REC READ
  pc,         \* the reader: "idle", "delete", "clear", "list", "dispatch", or "off"
  processed,  \* processed_indices of this listing
  clearDue,   \* the listing said that the storage is full, and was the first one
  pending,    \* _pending_sms_parts
  ready,      \* events of this poll that are not dispatched yet
  requested,  \* _reboot_requested
  queued,     \* events put into the reader's queue (EventsPipeline, Report)
  obeyed,     \* commands for which a reboot was requested
  faulty,     \* whether listings may still fail or be cut short, and the process crash
  again,      \* history: events that were queued or obeyed a second time
  wiped,      \* history: parts deleted by a clear
  direct,     \* history: parts read by their index
  gone,       \* history: parts lost from memory: crash, expiry, second command
  dropped     \* history: parts whose AT+CMGD raised once the modem had done it

storage == <<arrived, unread, read>>
poll    == <<pc, processed, clearDue>>
results == <<requested, queued, obeyed, again>>
history == <<wiped, direct, gone, dropped>>
vars    == <<faulty, storage, poll, pending, ready, results, history>>

Stored == unread \cup read
Full   == Cardinality(Stored) >= Capacity

Init ==
  /\ arrived = {} /\ unread = {} /\ read = {}
  /\ pc = "idle" /\ processed = {} /\ clearDue = FALSE
  /\ pending = {} /\ ready = {}
  /\ requested = FALSE /\ queued = {} /\ obeyed = {} /\ again = {}
  /\ wiped = {} /\ direct = {} /\ gone = {} /\ dropped = {}
  /\ faulty = TRUE

-----------------------------------------------------------------------------
(* The network keeps a message until the SIM has room for it.              *)
Arrive(p) ==
  /\ p \notin arrived /\ ~Full
  /\ arrived' = arrived \cup {p} /\ unread' = unread \cup {p}
  /\ UNCHANGED <<faulty, read, poll, pending, ready, results, history>>

-----------------------------------------------------------------------------
Everything == Stored   \* a mutant of Listable: AT+CMGL=4

(* What the modem lists for AT+CMGL=0 it marks as read.                    *)
Listable == unread

(* Mutants of Complete: the last part ends the message; the parts are      *)
(* counted one too far.                                                    *)
LastSeen(parts) == {m \in Long : <<m, 2>> \in parts}
OneTooMany(parts) == {m \in Long : PartsOf(m) \cup {<<m, 3>>} \subseteq parts}
Complete(parts) == {m \in Long : PartsOf(m) \subseteq parts}

PartOnly(S) == S \cap LongParts

(* _assemble_sms_events: parts of keys that have been incomplete for half  *)
(* an hour (here: any of them) are dropped, single messages become events, *)
(* parts are kept until their message is complete.                         *)
Assemble(S, stale) ==
  LET kept  == {p \in pending : p[1] \notin stale}
      parts == kept \cup PartOnly(S)
  IN  /\ ready' = {{p} : p \in S \ LongParts}
                  \cup {parts \cap PartsOf(m) : m \in Complete(parts)}
      /\ pending' = {p \in parts : p[1] \notin Complete(parts)}
      /\ gone' = gone \cup (pending \ kept)

StaleKeys == IF faulty THEN SUBSET {p[1] : p \in pending} ELSE {{}}

(* The first or second listing of _poll_unread_sms.  The program sees S,   *)
(* less than all when the lines do not come in time; "full" is an explicit *)
(* storage-full line among them.                                           *)
List(S, full, stale) ==
  /\ pc \in {"idle", "list"}
  /\ full => Full
  /\ faulty \/ S = Listable \cap Decodable
  /\ Assemble(S, stale)
  /\ unread' = unread \ Listable
  /\ read' = read \cup Listable
  /\ processed' = S
  /\ clearDue' = (full /\ pc = "idle")
  /\ pc' = IF S # {} THEN "delete" ELSE IF clearDue' THEN "clear" ELSE "idle"
  /\ UNCHANGED <<faulty, arrived, results, wiped, direct, dropped>>

(* The modem answers with an error and lists nothing: +CMS ERROR: 322 when *)
(* it is full, any other error is no reason to clear.                      *)
ListRefused(full, stale) ==
  /\ pc \in {"idle", "list"} /\ faulty
  /\ full => Full
  /\ Assemble({}, stale)
  /\ clearDue' = (full /\ pc = "idle")
  /\ pc' = IF clearDue' THEN "clear" ELSE "idle"
  /\ UNCHANGED <<faulty, storage, processed, results, wiped, direct, dropped>>

(* The port raises: the modem may have marked the messages as read.        *)
ListRaises ==
  /\ pc \in {"idle", "list"} /\ faulty
  /\ \/ unread' = {} /\ read' = Stored
     \/ UNCHANGED <<unread, read>>
  /\ pc' = "idle"
  /\ UNCHANGED <<faulty, arrived, processed, clearDue, pending, ready, results, history>>

(* A mutant of Decoded: an exception of AT+CMGD ends the poll.             *)
LostWithPoll(D) == IF D = processed THEN ready ELSE {}
Decoded(D)      == ready

(* AT+CMGD for each decoded index; what it answers, or raises, is ignored, *)
(* so any of them may stay.  Events end the poll, a full storage or not.   *)
DeleteProcessed(D) ==
  /\ pc = "delete" /\ D \subseteq processed
  /\ faulty \/ D = processed
  /\ read' = read \ D
  /\ processed' = {}
  /\ ready' = Decoded(D)
  /\ pc' = IF ready' # {} THEN "dispatch" ELSE IF clearDue THEN "clear" ELSE "idle"
  /\ UNCHANGED <<faulty, arrived, unread, clearDue, pending, results, history>>

(* AT+CMGD=1,4 deletes every message, the unread ones included.            *)
Wipe ==
  /\ wiped' = wiped \cup Stored
  /\ unread' = {} /\ read' = {}

(* The destructive cleanup of the poll, then its second listing.  A clear  *)
(* that raises is ignored.                                                 *)
ClearStorage ==
  /\ pc = "clear"
  /\ \/ Wipe
     \/ faulty /\ UNCHANGED <<unread, read, wiped>>
  /\ clearDue' = FALSE
  /\ pc' = "list"
  /\ UNCHANGED <<faulty, arrived, processed, pending, ready, results, gone, direct, dropped>>

(* An unsolicited +CMS ERROR: 322 is answered by the cleanup at once.      *)
FullUrc ==
  /\ pc = "idle" /\ Full
  /\ Wipe
  /\ UNCHANGED <<faulty, arrived, poll, pending, ready, results, gone, direct, dropped>>

(* +CMTI with an interval of 0: one message is read, deleted (or not, when *)
(* the answer is an error or does not come in time) and dispatched as it is*)
ReadByIndex(p) ==
  /\ pc = "idle" /\ DirectReads /\ p \in unread /\ p \in Decodable
  /\ unread' = unread \ {p}
  /\ read' \in {read} \cup (IF faulty THEN {read \cup {p}} ELSE {})
  /\ ready' = {{p}}
  /\ direct' = direct \cup {p}
  /\ pc' = "dispatch"
  /\ UNCHANGED <<faulty, arrived, processed, clearDue, pending, results, wiped, gone, dropped>>

(* An undecodable message stays where it is, and so does one for which     *)
(* AT+CMGR raises, or AT+CMGD before the modem has deleted it.             *)
ReadFails(p) ==
  /\ pc = "idle" /\ DirectReads /\ p \in unread
  /\ faulty \/ p \notin Decodable
  /\ unread' = unread \ {p}
  /\ read' = read \cup {p}
  /\ UNCHANGED <<faulty, arrived, poll, pending, ready, results, history>>

(* AT+CMGD raises after the modem has deleted the message: the exception   *)
(* takes the decoded text with it, and the reader goes on.                 *)
DeleteRaises(p) ==
  /\ pc = "idle" /\ DirectReads /\ faulty
  /\ p \in unread /\ p \in Decodable
  /\ unread' = unread \ {p}
  /\ dropped' = dropped \cup {p}
  /\ UNCHANGED <<faulty, arrived, read, poll, pending, ready, results, wiped, direct, gone>>

-----------------------------------------------------------------------------
Dispatched(e) ==
  /\ pc = "dispatch" /\ e \in ready
  /\ ready' = ready \ {e}
  /\ pc' = IF ready' = {} THEN "idle" ELSE "dispatch"
  /\ UNCHANGED <<faulty, storage, processed, clearDue, pending, wiped, direct, dropped>>

Queue(e) ==
  /\ queued' = queued \cup {e}
  /\ again' = IF e \in queued \cup obeyed THEN again \cup {e} ELSE again

DispatchEvent(e) ==
  /\ Dispatched(e) /\ ~IsCommand(e)
  /\ Queue(e)
  /\ UNCHANGED <<requested, obeyed, gone>>

RequestReboot(e) ==
  /\ Dispatched(e) /\ IsCommand(e) /\ ~requested
  /\ requested' = TRUE
  /\ obeyed' = obeyed \cup {e}
  /\ again' = IF e \in queued \cup obeyed THEN again \cup {e} ELSE again
  /\ UNCHANGED <<queued, gone>>

(* reboot_action raises: the command becomes an ordinary event.            *)
RebootFails(e) ==
  /\ faulty
  /\ Dispatched(e) /\ IsCommand(e) /\ ~requested
  /\ Queue(e)
  /\ UNCHANGED <<requested, obeyed, gone>>

(* A second command before the reboot takes effect is ignored.             *)
IgnoreCommand(e) ==
  /\ Dispatched(e) /\ IsCommand(e) /\ requested
  /\ gone' = gone \cup e
  /\ UNCHANGED results

-----------------------------------------------------------------------------
(* The process ends, by the reboot or otherwise, with all its memory; the  *)
(* events it had queued are EventsPipeline's matter.                       *)
Crash ==
  /\ pc # "off" /\ (faulty \/ requested)
  /\ pc' = "off"
  /\ gone' = gone \cup pending \cup UNION ready
  /\ processed' = {} /\ clearDue' = FALSE
  /\ pending' = {} /\ ready' = {}
  /\ requested' = FALSE
  /\ UNCHANGED <<faulty, storage, queued, obeyed, again, wiped, direct, dropped>>

Restart ==
  /\ pc = "off"
  /\ pc' = "idle"
  /\ UNCHANGED <<faulty, storage, processed, clearDue, pending, ready, results, history>>

(* A bound of the model for its liveness: listings and deletions stop to   *)
(* fail at some moment.                                                    *)
FaultsEnd ==
  /\ faulty
  /\ faulty' = FALSE
  /\ UNCHANGED <<storage, poll, pending, ready, results, history>>

-----------------------------------------------------------------------------
Listings   == \E stale \in StaleKeys, full \in BOOLEAN :
                \/ \E S \in SUBSET (Listable \cap Decodable) : List(S, full, stale)
                \/ ListRefused(full, stale)
Deletions  == \E D \in SUBSET processed : DeleteProcessed(D)
Dispatches == \E e \in ready : DispatchEvent(e) \/ RequestReboot(e) \/ RebootFails(e)
                               \/ IgnoreCommand(e)

Next == (\E p \in Parts : Arrive(p)) \/ Listings \/ ListRaises \/ Deletions \/ ClearStorage
        \/ FullUrc \/ (\E p \in unread : ReadByIndex(p) \/ ReadFails(p) \/ DeleteRaises(p))
        \/ Dispatches \/ Crash \/ Restart \/ FaultsEnd

Spec == Init /\ [][Next]_vars

(* The reader is a running thread that polls and goes on with what it has  *)
(* listed; what a working modem lists it lists completely.                 *)
FairSpec ==
  /\ Spec
  /\ WF_vars(Listings) /\ WF_vars(Deletions) /\ WF_vars(ClearStorage)
  /\ WF_vars(Dispatches) /\ WF_vars(Restart)

-----------------------------------------------------------------------------
(* Every variable has its type; no part is in the SIM twice. *)
TypeOK ==
  /\ arrived \subseteq Parts /\ unread \subseteq arrived /\ read \subseteq arrived
  /\ unread \cap read = {}
  /\ pc \in {"idle", "list", "delete", "clear", "dispatch", "off"}
  /\ processed \subseteq Parts /\ clearDue \in BOOLEAN
  /\ pending \subseteq LongParts /\ requested \in BOOLEAN /\ faulty \in BOOLEAN
  /\ \A E \in {ready, queued, obeyed, again} : E \subseteq SUBSET Parts
  /\ \A H \in {wiped, direct, gone, dropped} : H \subseteq Parts

(* No part of a message disappears between the SIM, the parts in memory    *)
(* and the events, except by the losses the code has: the storage was      *)
(* wiped, the part was in a memory that is gone, or it was read by its     *)
(* index and its deletion raised once it was done.  The deletions of a     *)
(* poll lose nothing, whichever of them the modem carries out.             *)
NoPartVanishes ==
  arrived \subseteq Stored \cup pending \cup (UNION (ready \cup queued \cup obeyed))
                    \cup wiped \cup gone \cup dropped

(* A message is reported or obeyed once, although deletions fail, listings *)
(* are repeated, and the process ends after any step: above all, a reboot  *)
(* command never reboots the host again after the reboot.                  *)
NothingTwice == again = {}

(* "The modem reader uses SMS PDU mode and assembles multipart SMS before  *)
(* buffering or sending" (README.md): no event has only a part of one,     *)
(* unless the reader took that part by its index, which it does when it    *)
(* does not poll.                                                          *)
EventsAreWhole ==
  \A e \in queued :
    e \subseteq direct \/ \E m \in Long \cup Plain \cup Commands : e = PartsOf(m)

(* Once nothing fails any more, a message that is complete on the device   *)
(* and not listed yet, or only in part, is reported, obeyed, wiped or lost *)
(* with the process: it does not wait for ever.                            *)
MessageIsReported ==
  \A m \in Long \cup Plain \cup Commands :
    ~faulty /\ PartsOf(m) \subseteq unread \cup pending ~>
      \/ PartsOf(m) \in queued \cup obeyed
      \/ PartsOf(m) \cap (wiped \cup gone \cup (direct \cap LongParts)) # {}
=============================================================================
