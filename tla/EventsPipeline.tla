--------------------------- MODULE EventsPipeline ---------------------------
(***************************************************************************)
(* The path of SMS and call events: the modem reader's queue, the main     *)
(* loop that drains it, the OutboundDispatcher thread with its bounded     *)
(* queue, the SQLite table "events" that takes what could not be sent, and *)
(* the BufferFlusher thread that empties the table into the server or the  *)
(* dead-letter table.  Main loop, dispatcher and flusher have a SQLite     *)
(* connection each, so their transactions interleave.                      *)
(*                                                                         *)
(* An event is its number in the order of arrival.  It carries no id to    *)
(* the server, which therefore cannot recognise a second copy.             *)
(***************************************************************************)
EXTENDS Naturals, Sequences, FiniteSets

CONSTANTS
  MaxEvents,       \* bound of the model: events the modem reports
  QueueSize,       \* queue_size of the dispatcher
  DrainMax,        \* max_items of drain
  MaxRows,         \* max_rows_events
  FlushBatch,      \* events.max_batch, at least 1
  Bad,             \* events the server rejects with a permanent 4xx
  StorageFaults,   \* whether SQLite calls may raise in a worker thread
  MayCrash         \* whether the process may crash

ASSUME PipelineAssumption ==
  /\ MaxEvents \in Nat /\ MaxRows \in Nat
  /\ QueueSize \in Nat \ {0} /\ DrainMax \in Nat \ {0} /\ FlushBatch \in Nat \ {0}
  /\ Bad \subseteq Nat
  /\ StorageFaults \in BOOLEAN /\ MayCrash \in BOOLEAN

Writers == {"main", "dispatcher"}   \* the connections that put, and trim after it
Events  == 1..MaxEvents
NoEvent == 0

VARIABLES
  created,     \* events reported so far
  readerQ,     \* ModemEventsReader._q
  running,     \* whether the process runs
  drained,     \* what drain returned and the main loop has not passed on yet
  pending,     \* OutboundDispatcher._pending
  dispPc,      \* dispatcher thread: "get", "send", "put", "dead"
  hand,        \* the payload it holds
  table,       \* rows of the table events in the order of their ids (durable)
  deadLetters, \* events_dead_letter (durable)
  trimPc,      \* per writer: "none", or "count" and "trim" of _trim_if_needed
  excess,      \* per writer: delete_n
  flushPc,     \* flusher thread: "peek", "send", "delete", "reject", "move", "backoff", "dead"
  todo,        \* the rest of the batch it has peeked
  delivered,   \* events the server has
  again,       \* history: events the server got more than once
  unsure,      \* history: delivered, but the device could not know or record it
  trimmed,     \* history: rows dropped by a trim
  untrimmed,   \* history: puts whose trim a fault or a crash ended
  lost         \* history: events that were only in memory when it was lost

mem     == <<readerQ, drained, pending>>
disp    == <<dispPc, hand>>
db      == <<table, deadLetters>>
trim    == <<trimPc, excess, untrimmed>>
flusher == <<flushPc, todo>>
server  == <<delivered, again, unsure>>
vars    == <<created, readerQ, running, drained, pending, dispPc, hand, table, deadLetters,
             trimPc, excess, flushPc, todo, delivered, again, unsure, trimmed, untrimmed, lost>>

Elems(s)      == {s[i] : i \in 1..Len(s)}
Without(s, i) == SubSeq(s, 1, i - 1) \o SubSeq(s, i + 1, Len(s))
Smaller(a, b) == IF a <= b THEN a ELSE b
InMemory == Elems(readerQ) \cup Elems(drained) \cup Elems(pending)
            \cup (IF hand = NoEvent THEN {} ELSE {hand})
Kept     == Elems(table) \cup deadLetters

Init ==
  /\ created = 0 /\ readerQ = <<>> /\ running = TRUE /\ drained = <<>> /\ pending = <<>>
  /\ dispPc = "get" /\ hand = NoEvent
  /\ table = <<>> /\ deadLetters = {}
  /\ trimPc = [w \in Writers |-> "none"] /\ excess = [w \in Writers |-> 0]
  /\ flushPc = "peek" /\ todo = <<>>
  /\ delivered = {} /\ again = {} /\ unsure = {} /\ trimmed = {} /\ untrimmed = 0 /\ lost = {}

-----------------------------------------------------------------------------
(* Mutants: the insert is not committed, the limit is off by one, a queue  *)
(* has no maxsize, every error is retried, a delete is forgotten.          *)
Uncommitted(e)    == UNCHANGED table
OverLimitLate     == Len(table) > MaxRows + 1
Boundless         == TRUE
NeverPermanent(e) == FALSE
Undeleted(e)      == UNCHANGED table

Committed(e) == table' = Append(table, e)
OverLimit    == Len(table) > MaxRows
Room         == Len(pending) < QueueSize
Permanent(e) == e \in Bad
Deleted(e)   == IF e \in Elems(table)
                THEN \E i \in 1..Len(table) : table[i] = e /\ table' = Without(table, i)
                ELSE UNCHANGED table

(* put of one of the writers: insert, commit, then the trim is due.        *)
InsertBy(w, e) ==
  /\ trimPc[w] = "none"
  /\ Committed(e)
  /\ trimPc' = [trimPc EXCEPT ![w] = "count"]
  /\ UNCHANGED <<excess, untrimmed, deadLetters>>

(* _trim_if_needed counts and deletes in two transactions.                 *)
CountRows(w) ==
  /\ running /\ trimPc[w] = "count"
  /\ trimPc' = [trimPc EXCEPT ![w] = IF OverLimit THEN "trim" ELSE "none"]
  /\ excess' = [excess EXCEPT ![w] = IF OverLimit THEN Len(table) - MaxRows ELSE 0]
  /\ UNCHANGED <<created, mem, running, disp, db, untrimmed, flusher, server, trimmed, lost>>

DeleteOldest(w) ==
  /\ running /\ trimPc[w] = "trim"
  /\ LET n == Smaller(excess[w], Len(table)) IN
       /\ table' = SubSeq(table, n + 1, Len(table))
       /\ trimmed' = trimmed \cup Elems(SubSeq(table, 1, n))
  /\ trimPc' = [trimPc EXCEPT ![w] = "none"]
  /\ excess' = [excess EXCEPT ![w] = 0]
  /\ UNCHANGED <<created, mem, running, disp, deadLetters, untrimmed, flusher, server, lost>>

InterruptedTrims(W) ==
  /\ untrimmed' = untrimmed + Cardinality({w \in W : trimPc[w] # "none"})
  /\ trimPc' = [w \in Writers |-> IF w \in W THEN "none" ELSE trimPc[w]]
  /\ excess' = [w \in Writers |-> IF w \in W THEN 0 ELSE excess[w]]

(* An exception of the trim is logged, and the put has succeeded.          *)
TrimFails(w) ==
  /\ running /\ trimPc[w] # "none" /\ StorageFaults
  /\ InterruptedTrims({w})
  /\ UNCHANGED <<created, mem, running, disp, db, flusher, server, trimmed, lost>>

-----------------------------------------------------------------------------
(* The modem reader's thread reports an event; the SMS is already deleted  *)
(* from the SIM.                                                           *)
Report ==
  /\ running /\ created < MaxEvents
  /\ created' = created + 1
  /\ readerQ' = Append(readerQ, created')
  /\ UNCHANGED <<running, drained, pending, disp, db, trim, flusher, server, trimmed, lost>>

Drain ==
  /\ running /\ drained = <<>> /\ trimPc["main"] = "none" /\ readerQ # <<>>
  /\ LET n == Smaller(DrainMax, Len(readerQ)) IN
       /\ drained' = SubSeq(readerQ, 1, n)
       /\ readerQ' = SubSeq(readerQ, n + 1, Len(readerQ))
  /\ UNCHANGED <<created, running, pending, disp, db, trim, flusher, server, trimmed, lost>>

Submit ==
  /\ running /\ drained # <<>> /\ trimPc["main"] = "none"
  /\ Room
  /\ pending' = Append(pending, Head(drained))
  /\ drained' = Tail(drained)
  /\ UNCHANGED <<created, readerQ, running, disp, db, trim, flusher, server, trimmed, lost>>

(* submit returned False: the main loop buffers the event itself.          *)
Overflow ==
  /\ running /\ drained # <<>>
  /\ ~Room
  /\ InsertBy("main", Head(drained))
  /\ drained' = Tail(drained)
  /\ UNCHANGED <<created, readerQ, running, pending, disp, flusher, server, trimmed, lost>>

-----------------------------------------------------------------------------
(* What a POST of e can come to (the server is external).                  *)
Accepted(e) ==
  /\ e \notin Bad
  /\ delivered' = delivered \cup {e}
  /\ again' = IF e \in delivered THEN again \cup {e} ELSE again

Answered(e)    == Accepted(e) /\ UNCHANGED unsure
AnswerLost(e)  == Accepted(e) /\ unsure' = unsure \cup {e}
NotAccepted    == UNCHANGED server

TakePending ==
  /\ running /\ dispPc = "get" /\ trimPc["dispatcher"] = "none" /\ pending # <<>>
  /\ hand' = Head(pending)
  /\ pending' = Tail(pending)
  /\ dispPc' = "send"
  /\ UNCHANGED <<created, readerQ, running, drained, db, trim, flusher, server, trimmed, lost>>

DispatchSent ==
  /\ running /\ dispPc = "send"
  /\ Answered(hand)
  /\ hand' = NoEvent
  /\ dispPc' = "get"
  /\ UNCHANGED <<created, mem, running, db, trim, flusher, trimmed, lost>>

(* Any error, a permanent one as well, sends the event to the table.       *)
DispatchFails ==
  /\ running /\ dispPc = "send"
  /\ NotAccepted \/ AnswerLost(hand)
  /\ dispPc' = "put"
  /\ UNCHANGED <<created, mem, running, hand, db, trim, flusher, trimmed, lost>>

DispatchBuffers ==
  /\ running /\ dispPc = "put"
  /\ InsertBy("dispatcher", hand)
  /\ hand' = NoEvent
  /\ dispPc' = "get"
  /\ UNCHANGED <<created, mem, running, flusher, server, trimmed, lost>>

(* put raised inside the except block: the thread ends, with the event.    *)
DispatcherDies ==
  /\ running /\ dispPc = "put" /\ StorageFaults
  /\ lost' = lost \cup ({hand} \ delivered)
  /\ hand' = NoEvent
  /\ dispPc' = "dead"
  /\ UNCHANGED <<created, mem, running, db, trim, flusher, server, trimmed>>

-----------------------------------------------------------------------------
PeekRows ==
  /\ running /\ flushPc = "peek" /\ table # <<>>
  /\ todo' = SubSeq(table, 1, Smaller(FlushBatch, Len(table)))
  /\ flushPc' = "send"
  /\ UNCHANGED <<created, mem, running, disp, db, trim, server, trimmed, lost>>

FlushSent ==
  /\ running /\ flushPc = "send"
  /\ Answered(Head(todo))
  /\ flushPc' = "delete"
  /\ UNCHANGED <<created, mem, running, disp, db, trim, todo, trimmed, lost>>

(* A transient failure ends the batch: the rows after it wait with it.     *)
FlushFails ==
  /\ running /\ flushPc = "send"
  /\ NotAccepted \/ AnswerLost(Head(todo))
  /\ flushPc' = "backoff"
  /\ todo' = <<>>
  /\ UNCHANGED <<created, mem, running, disp, db, trim, trimmed, lost>>

FlushRejected ==
  /\ running /\ flushPc = "send" /\ Permanent(Head(todo))
  /\ flushPc' = "reject"
  /\ UNCHANGED <<created, mem, running, disp, db, trim, todo, server, trimmed, lost>>

NextRow == /\ todo' = Tail(todo)
           /\ flushPc' = IF Tail(todo) = <<>> THEN "peek" ELSE "send"

DeleteRow ==
  /\ running /\ flushPc = "delete"
  /\ Deleted(Head(todo))
  /\ NextRow
  /\ UNCHANGED <<created, mem, running, disp, deadLetters, trim, server, trimmed, lost>>

(* move_to_dead_letter looks the row up before its transaction begins; the *)
(* insert and the delete that follow are one transaction.                  *)
LookUpRejected ==
  /\ running /\ flushPc = "reject"
  /\ IF Head(todo) \in Elems(table)
     THEN flushPc' = "move" /\ UNCHANGED todo
     ELSE NextRow
  /\ UNCHANGED <<created, mem, running, disp, db, trim, server, trimmed, lost>>

MoveToDeadLetter ==
  /\ running /\ flushPc = "move"
  /\ deadLetters' = deadLetters \cup {Head(todo)}
  /\ Deleted(Head(todo))
  /\ NextRow
  /\ UNCHANGED <<created, mem, running, disp, trim, server, trimmed, lost>>

BackoffOver ==
  /\ running /\ flushPc = "backoff"
  /\ flushPc' = "peek"
  /\ UNCHANGED <<created, mem, running, disp, db, trim, todo, server, trimmed, lost>>

(* The SQLite calls of the flusher are outside the try block.        *)
FlusherDies ==
  /\ running /\ flushPc \in {"peek", "delete", "reject", "move"} /\ StorageFaults
  /\ flushPc' = "dead"
  /\ todo' = <<>>
  /\ UNCHANGED <<created, mem, running, disp, db, trim, server, trimmed, lost>>

-----------------------------------------------------------------------------
Crash ==
  /\ running /\ MayCrash
  /\ running' = FALSE
  /\ lost' = lost \cup (InMemory \ (delivered \cup Kept))
  /\ unsure' = unsure \cup (Elems(table) \cap delivered)
  /\ readerQ' = <<>> /\ drained' = <<>> /\ pending' = <<>>
  /\ dispPc' = "get" /\ hand' = NoEvent
  /\ InterruptedTrims(Writers)
  /\ flushPc' = "peek" /\ todo' = <<>>
  /\ UNCHANGED <<created, db, delivered, again, trimmed>>

Restart ==
  /\ ~running
  /\ running' = TRUE
  /\ UNCHANGED <<created, mem, disp, db, trim, flusher, server, trimmed, lost>>

-----------------------------------------------------------------------------
Trims      == \E w \in Writers : CountRows(w) \/ DeleteOldest(w) \/ TrimFails(w)
MainLoop   == Drain \/ Submit \/ Overflow
Dispatcher == TakePending \/ DispatchSent \/ DispatchFails \/ DispatchBuffers \/ DispatcherDies
Flusher    == PeekRows \/ FlushSent \/ FlushFails \/ FlushRejected \/ DeleteRow
              \/ LookUpRejected \/ MoveToDeadLetter \/ BackoffOver \/ FlusherDies

Next == Report \/ MainLoop \/ Trims \/ Dispatcher \/ Flusher \/ Crash \/ Restart

Spec == Init /\ [][Next]_vars

(* Threads of a running process are scheduled, systemd restarts it, and it *)
(* crashes finitely often.  The server answers a request that is made      *)
(* again and again: it takes a good event and rejects a bad one.           *)
FairSpec ==
  /\ Spec
  /\ WF_vars(MainLoop) /\ WF_vars(Dispatcher) /\ WF_vars(Flusher) /\ WF_vars(Restart)
  /\ \A w \in Writers : WF_vars(CountRows(w) \/ DeleteOldest(w))
  /\ \A e \in Events : SF_vars(todo # <<>> /\ Head(todo) = e /\ (FlushSent \/ FlushRejected))
  /\ <>[][~Crash]_vars

-----------------------------------------------------------------------------
(* Every variable has its type, and no queue exceeds its size. *)
TypeOK ==
  /\ created \in 0..MaxEvents /\ running \in BOOLEAN
  /\ {readerQ, drained, pending, table, todo} \subseteq Seq(Events)
  /\ Len(drained) <= DrainMax /\ Len(pending) <= QueueSize /\ Len(todo) <= FlushBatch
  /\ dispPc \in {"get", "send", "put", "dead"} /\ hand \in 0..MaxEvents
  /\ flushPc \in {"peek", "send", "delete", "reject", "move", "backoff", "dead"}
  /\ trimPc \in [Writers -> {"none", "count", "trim"}] /\ excess \in [Writers -> Nat]
  /\ untrimmed \in 0..MaxEvents
  /\ deadLetters \subseteq Events /\ delivered \subseteq Events /\ again \subseteq Events
  /\ unsure \subseteq Events /\ trimmed \subseteq Events /\ lost \subseteq Events

(* No event disappears on the way between five threads and two tables:     *)
(* each is on the server, on the disk, dropped by a trim or, while the     *)
(* process runs, in memory, unless memory itself was lost.                 *)
NoSilentLoss ==
  \A e \in 1..created :
    e \in delivered \cup Kept \cup trimmed \cup lost \cup InMemory

(* The same, step by step: the pipeline implements EventDelivery, for which*)
(* an event is held wherever it waits, in a queue, in a hand or in a row.  *)
(* Passing it on is no step there; it is given up only when the server has *)
(* it or has rejected it, or by what counts as a loss; and it never returns*)
(* to a queue it left.                                                     *)
Delivery == INSTANCE EventDelivery
            WITH reported <- created, held <- InMemory \cup Elems(table),
                 refused <- deadLetters, dropped <- trimmed \cup lost

ImplementsEventDelivery == Delivery!Spec

(* The server gets an event twice only if its answer was lost or the       *)
(* process ended between the answer and the delete: the two send paths     *)
(* never both hold an event.                                               *)
(* An event is in the table or in the dead letters, never in both, and only*)
(* one the server rejected is there.                                       *)
SettledOnce ==
  /\ again \subseteq unsure
  /\ deadLetters \cap Elems(table) = {} /\ deadLetters \subseteq Bad

(* Although two writers count and delete separately, the table exceeds its *)
(* limit only by rows whose writer has not trimmed yet, or could not: a    *)
(* fault or the end of the process came before.                            *)
TableBounded ==
  Len(table) <= MaxRows + untrimmed + Cardinality({w \in Writers : trimPc[w] # "none"})

(* "... so one malformed packet cannot block the FIFO queue" (README.md):  *)
(* every row leaves the table, for the server, for the dead letters, or by *)
(* a trim, unless a fault of the storage ends the flusher's thread.        *)
QueueIsNotBlocked ==
  \A e \in Events : e \in Elems(table) ~>
    e \in delivered \cup deadLetters \cup trimmed \/ flushPc = "dead"
=============================================================================
