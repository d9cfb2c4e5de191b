------------------------------ MODULE GpsReader ------------------------------
(***************************************************************************)
(* The position in a telemetry packet: navigation sentences wait in the    *)
(* serial buffer, the GPS thread reads a window of them, merges what they  *)
(* say field by field into its latest position, and throws the position    *)
(* away when the data is old; the main loop takes the position under one   *)
(* lock and the age of its speed under another, and decides gps_valid.     *)
(*                                                                         *)
(* A coordinate is the age of the measurement behind it, a speed the time  *)
(* since its sentence was read.  Ages stop at the first one above MaxAge.  *)
(* The clock of the device and that of the satellites agree.               *)
(***************************************************************************)
EXTENDS Integers, Sequences

CONSTANTS
  MaxAge,          \* gps.max_fix_age_s
  Backlog,         \* max_serial_backlog_bytes, in sentences; 0 is no limit
  UartSize,        \* sentences the kernel buffers (a bound of the model)
  ValidateSource   \* gps.validate_source_time

ASSUME GpsAssumption ==
  /\ MaxAge \in Nat /\ Backlog \in Nat /\ UartSize \in Nat
  /\ ValidateSource \in BOOLEAN

VARIABLES
  uart,      \* ages of the unread sentences, oldest first
  port,      \* the reader: "closed", "check" (before a window), "window"
  window,    \* latest_pos: what the sentences of the window say together
  found,     \* latest_fix_monotonic, latest_fix_source_utc_s: a fix and its age
  latest,    \* _latest: its coordinates, quality and speed
  fixAge,    \* age of _last_fix_monotonic
  fixSource, \* age of _last_fix_source_utc_s
  speedAge,  \* age of _last_speed_monotonic
  pc,        \* main loop: "idle", "between" (the two locks of latest()), "packet"
  seen,      \* latest()'s snapshot, then what the packet says
  faulty,    \* whether the receiver, the port and the reader still misbehave
  raced      \* history: a speed was published between the two locks

position == <<latest, fixAge, fixSource, speedAge>>
main     == <<pc, seen, raced>>
reader   == <<port, window, found, position>>
vars     == <<uart, port, window, found, latest, fixAge, fixSource, speedAge, pc, seen, faulty, raced>>

None == -1
Old  == MaxAge + 1
Ages == 0..Old
Older(a) == IF a \in {None, Old} THEN a ELSE a + 1
Recent(a) == a # None /\ a <= MaxAge

Position == [at : Ages \cup {None}, quality : {None, 0, 1}, speed : Ages \cup {None}]
NoPosition == [at |-> None, quality |-> None, speed |-> None]
NothingSeen == [valid |-> FALSE, at |-> None, speed |-> None, timed |-> FALSE]
NoFix       == [fix |-> FALSE, source |-> None]

Init ==
  /\ uart = <<>> /\ port = "closed" /\ window = NoPosition /\ found = NoFix
  /\ latest = NoPosition /\ fixAge = None /\ fixSource = None /\ speedAge = None
  /\ pc = "idle" /\ seen = NothingSeen /\ raced = FALSE
  /\ faulty = TRUE

-----------------------------------------------------------------------------
(* What the parsers make of a sentence.  "quality" is its status: 1 with a *)
(* fix, 0 without, None for a GGA whose number cannot be read; "located"   *)
(* says that coordinates can be read, "timed" that its UTC time can.       *)
Sentences == {s \in [type : {"GGA", "RMC", "PVT"}, quality : {None, 0, 1},
                     located : BOOLEAN, timed : BOOLEAN] :
                s.quality = None => s.type = "GGA"}
Fixes == {s \in Sentences : s.quality = 1 /\ s.located /\ s.timed}

(* GGA, GNS and RMC report coordinates with or without a fix, RMC its      *)
(* speed only with one; UBX-NAV-PVT reports both only with a fix.          *)
Parsed(s, age) ==
  LET ok  == s.quality = 1 /\ (s.type = "PVT" => s.located)
      fix == ok /\ s.located
  IN  [at      |-> IF s.located /\ (s.type = "PVT" => ok) THEN age ELSE None,
       quality |-> IF s.type = "PVT" /\ ~ok THEN 0 ELSE s.quality,
       speed   |-> IF ok /\ s.type # "GGA" THEN 0 ELSE None,
       fix     |-> fix,
       source  |-> IF fix /\ s.timed THEN age ELSE None]
Reports(ss, age) == {Parsed(s, age) : s \in ss}

OfBase(base, update) == IF base # None THEN base ELSE update  \* a mutant of OfUpdate
OfUpdate(base, update) == IF update # None THEN update ELSE base

(* _merge_position *)
Merge(base, update) ==
  [at      |-> OfUpdate(base.at, update.at),
   quality |-> OfUpdate(base.quality, update.quality),
   speed   |-> OfUpdate(base.speed, update.speed)]

-----------------------------------------------------------------------------
(* A healthy reader is not overrun between two of its windows.             *)
Emit ==
  /\ Len(uart) < UartSize
  /\ faulty \/ Backlog = 0 \/ Len(uart) < Backlog
  /\ uart' = Append(uart, 0)
  /\ UNCHANGED <<reader, main, faulty>>

(* latest() and a read window are shorter than a tick.  A healthy reader   *)
(* leaves nothing in the buffer for as long.                               *)
Tick ==
  /\ pc = "idle" /\ port # "window" /\ (faulty \/ uart = <<>>)
  /\ uart' = [i \in DOMAIN uart |-> Older(uart[i])]
  /\ latest' = [latest EXCEPT !.at = Older(@), !.speed = Older(@)]
  /\ fixAge' = Older(fixAge) /\ fixSource' = Older(fixSource)
  /\ speedAge' = Older(speedAge)
  /\ UNCHANGED <<port, window, found, main, faulty>>

(* _invalidate_fix; a mutant of it forgets the source time.                *)
InvalidateMost ==
  /\ latest' = NoPosition
  /\ fixAge' = None /\ speedAge' = None /\ UNCHANGED fixSource
InvalidateFix ==
  /\ latest' = NoPosition
  /\ fixAge' = None /\ fixSource' = None /\ speedAge' = None

(* _open_serial empties the buffer and drops what it parses to probe.      *)
OpenSerial ==
  /\ port = "closed"
  /\ port' = "check" /\ uart' = <<>>
  /\ UNCHANGED <<window, found, position, main, faulty>>

PortFails ==
  /\ port # "closed" /\ faulty
  /\ port' = "closed" /\ window' = NoPosition /\ found' = NoFix
  /\ InvalidateFix
  /\ UNCHANGED <<uart, main, faulty>>

TooMuch == Backlog # 0 /\ Len(uart) > Backlog

DiscardBacklog ==
  /\ port = "check" /\ TooMuch
  /\ uart' = <<>>
  /\ InvalidateFix
  /\ UNCHANGED <<port, window, found, main, faulty>>

BeginWindow ==
  /\ port = "check" /\ ~TooMuch
  /\ port' = "window"
  /\ UNCHANGED <<uart, window, found, position, main, faulty>>

-----------------------------------------------------------------------------
ReadSentence(p) ==
  /\ port = "window" /\ uart # <<>>
  /\ window' = Merge(window, p)
  /\ found' = IF p.fix THEN [fix |-> TRUE, source |-> p.source] ELSE found
  /\ uart' = Tail(uart)
  /\ UNCHANGED <<port, position, main, faulty>>

(* The deadline has come.  A healthy reader has read something by then.    *)
EndWindow ==
  /\ port = "window"
  /\ faulty \/ uart = <<>> \/ window # NoPosition
  /\ port' = "check" /\ window' = NoPosition /\ found' = NoFix
  /\ UNCHANGED <<pc, seen, faulty>>

StaleTime == ValidateSource /\ found.source > MaxAge

(* The tty line is arriving now, but its time is old.                      *)
DiscardStale ==
  /\ EndWindow /\ StaleTime
  /\ uart' = <<>>
  /\ InvalidateFix
  /\ UNCHANGED raced

(* A mutant of NewSpeedAge: any sentence renews the speed.                 *)
Renewed     == IF window # NoPosition THEN 0 ELSE speedAge
NewSpeedAge == IF window.speed # None THEN 0 ELSE speedAge

Publish ==
  /\ EndWindow /\ ~StaleTime
  /\ latest' = Merge(latest, window)
  /\ IF found.fix THEN fixAge' = 0 /\ fixSource' = found.source
                  ELSE UNCHANGED <<fixAge, fixSource>>
  /\ speedAge' = NewSpeedAge
  /\ raced' = (raced \/ (pc = "between" /\ window.speed # None))
  /\ UNCHANGED uart

Heard     == IF faulty THEN Sentences ELSE Fixes
ReadNext  == uart # <<>> /\ \E p \in Reports(Heard, Head(uart)) : ReadSentence(p)

-----------------------------------------------------------------------------
(* A mutant of SourceAge: only the arrival of the fix is looked at.        *)
Unchecked == None
SourceAge == IF ValidateSource THEN fixSource ELSE None

FixCurrent == Recent(fixAge) /\ (SourceAge # None => SourceAge <= MaxAge)
GpsValid   == FixCurrent /\ latest.quality = 1 /\ latest.at # None

(* The first lock of latest(), and what gps_valid and build_telemetry make *)
(* of it: of an invalid position a packet has neither place nor speed.     *)
TakePosition ==
  /\ pc = "idle"
  /\ seen' = IF GpsValid
             THEN [valid |-> TRUE, at |-> latest.at, speed |-> latest.speed,
                   timed |-> fixSource # None]
             ELSE NothingSeen
  /\ pc' = "between"
  /\ UNCHANGED <<uart, reader, faulty, raced>>

SpeedRecent == Recent(speedAge)

(* The second lock of latest().                                            *)
BuildPacket ==
  /\ pc = "between"
  /\ seen' = [seen EXCEPT !.speed = IF SpeedRecent THEN @ ELSE None]
  /\ pc' = "packet"
  /\ UNCHANGED <<uart, reader, faulty, raced>>

PacketDone ==
  /\ pc = "packet"
  /\ pc' = "idle" /\ seen' = NothingSeen /\ raced' = FALSE
  /\ UNCHANGED <<uart, reader, faulty>>

FaultsEnd ==
  /\ faulty /\ faulty' = FALSE
  /\ UNCHANGED <<uart, reader, main>>

-----------------------------------------------------------------------------
Reader == OpenSerial \/ DiscardBacklog \/ BeginWindow \/ ReadNext
          \/ Publish \/ DiscardStale
Main   == TakePosition \/ BuildPacket \/ PacketDone
Next   == Emit \/ Tick \/ PortFails \/ Reader \/ Main \/ FaultsEnd

Spec     == Init /\ [][Next]_vars
FairSpec == Spec /\ WF_vars(Emit) /\ WF_vars(Reader) /\ WF_vars(Publish \/ DiscardStale)

-----------------------------------------------------------------------------
(* Every variable has its type; a source time belongs to a fix. *)
TypeOK ==
  /\ uart \in Seq(Ages) /\ Len(uart) <= UartSize
  /\ port \in {"closed", "check", "window"}
  /\ latest \in Position
  /\ window \in Position /\ found \in [fix : BOOLEAN, source : Ages \cup {None}]
  /\ {fixAge, fixSource, speedAge} \subseteq Ages \cup {None}
  /\ fixSource # None => fixAge # None
  /\ pc \in {"idle", "between", "packet"}
  /\ seen \in [valid : BOOLEAN, at : Ages \cup {None}, speed : Ages \cup {None},
               timed : BOOLEAN]
  /\ faulty \in BOOLEAN /\ raced \in BOOLEAN

(* "maximum fix age; older coordinates are sent as invalid instead of      *)
(* being reused" (README.md): coordinates of a packet whose fix carried    *)
(* its time were measured at most MaxAge ago, although they may come from  *)
(* another sentence than the fix, and wait in the buffer before that.      *)
ValidPositionIsRecent ==
  ValidateSource /\ pc = "packet" /\ seen.valid /\ seen.timed => Recent(seen.at)

(* The latest speed and the time kept for it belong together, whatever was *)
(* merged, discarded or lost in between.                                   *)
SpeedHasItsTime == latest.speed = speedAge

(* "speed expires without a recent RMC sentence" (test_gps_reader.py): an  *)
(* older one is in a packet only when a new speed came between the two     *)
(* locks of latest(), which lends it the newer time.                       *)
SpeedIsRecent ==
  pc = "packet" /\ seen.speed # None /\ ~raced => seen.speed <= MaxAge

(* When receiver, port and reader are healthy again, whatever is in the    *)
(* buffer, the merged position or the state of the port, the position      *)
(* becomes valid.                                                          *)
PositionRecovers == ~faulty ~> GpsValid
=============================================================================
