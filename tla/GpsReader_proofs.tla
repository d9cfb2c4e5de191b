---------------------------- MODULE GpsReader_proofs ----------------------------
(***************************************************************************)
(* Theorems about GpsReader, for every fix age, backlog limit and size of  *)
(* the serial buffer, about GnssTime, for every pair of times, and about   *)
(* GnssFraming, for every stream of its items, cut anywhere.               *)
(***************************************************************************)
EXTENDS GpsReader, GnssFraming, GnssTime, FiniteSetTheorems, WellFoundedInduction, TLAPS

(* Nothing that waits in the buffer is older than a moment of age a.       *)
NotBehind(a) == a # None => \A i \in 1..Len(uart) : uart[i] <= a

(* The serial buffer is in order, so coordinates are never older than the  *)
(* source time they will be judged by.                                     *)
InOrder ==
  /\ \A i, j \in 1..Len(uart) : i < j => uart[j] <= uart[i]
  /\ NotBehind(fixSource) /\ NotBehind(found.source)
  /\ found.source # None => window.at # None /\ window.at <= found.source
  /\ fixSource # None /\ window.at # None => window.at <= fixSource
  /\ fixSource # None => latest.at # None /\ latest.at <= fixSource

(* A window holds nothing while no window is read; a speed in it is new.   *)
WindowIsNow ==
  /\ port # "window" => window = NoPosition /\ found = NoFix
  /\ window.speed \in {None, 0}
  /\ found.source # None => found.fix

SeenIsRecent ==
  ValidateSource /\ pc \in {"between", "packet"} /\ seen.valid /\ seen.timed => Recent(seen.at)

IInv == TypeOK /\ InOrder /\ WindowIsNow /\ SpeedHasItsTime /\ SeenIsRecent

-----------------------------------------------------------------------------
(* What a sentence of some age can say.                                    *)
LEMMA ParsedSays ==
  ASSUME NEW s \in Sentences, NEW age \in Ages
  PROVE  LET p == Parsed(s, age)
         IN  /\ p.at \in {None, age} /\ p.quality \in {None, 0, 1} /\ p.speed \in {None, 0}
             /\ p.fix \in BOOLEAN /\ p.source \in {None, age}
             /\ p.fix => p.at = age
             /\ p.source # None => p.fix
  BY DEF Parsed, Sentences, None

(* Merging takes each field from one of the two.                           *)
LEMMA MergeType ==
  ASSUME NEW base \in Position, NEW p,
         p.at \in Ages \cup {None}, p.quality \in {None, 0, 1}, p.speed \in Ages \cup {None}
  PROVE  /\ Merge(base, p) \in Position
         /\ Merge(base, p).at = OfUpdate(base.at, p.at)
         /\ Merge(base, p).speed = OfUpdate(base.speed, p.speed)
  BY DEF Merge, OfUpdate, Position

(* Time makes ages grow and keeps their order.                             *)
LEMMA OlderAge == ASSUME NEW a \in Ages PROVE Older(a) \in Ages /\ Older(a) # None
  BY GpsAssumption DEF Ages, Old, Older, None

LEMMA OlderKeepsOrder ==
  ASSUME NEW a \in Ages, NEW b \in Ages, a <= b PROVE Older(a) <= Older(b)
  BY GpsAssumption DEF Ages, Old, Older, None

LEMMA OlderType ==
  ASSUME NEW a \in Ages \cup {None}
  PROVE  Older(a) \in Ages \cup {None} /\ (Older(a) = None <=> a = None)
  BY GpsAssumption DEF Ages, Old, Older, None

-----------------------------------------------------------------------------
LEMMA InitInv == Init => IInv
<1> SUFFICES ASSUME Init PROVE IInv
  OBVIOUS
<1>2. TypeOK
  <2>1. NoPosition \in Position
    BY DEF NoPosition, Position
  <2>2. NoFix \in [fix : BOOLEAN, source : Ages \cup {None}]
    BY DEF NoFix
  <2>3. NothingSeen \in [valid : BOOLEAN, at : Ages \cup {None}, speed : Ages \cup {None},
                        timed : BOOLEAN]
    BY DEF NothingSeen
  <2>4. uart \in Seq(Ages) /\ Len(uart) = 0 /\ 0 <= UartSize
    BY GpsAssumption DEF Init
  <2> QED
    BY <2>1, <2>2, <2>3, <2>4 DEF Init, TypeOK
<1>3. InOrder /\ WindowIsNow /\ SpeedHasItsTime /\ SeenIsRecent
  BY DEF Init, InOrder, NotBehind, WindowIsNow, SpeedHasItsTime, SeenIsRecent, NoPosition, NoFix
<1> QED
  BY <1>2, <1>3 DEF IInv

LEMMA EmitInv == IInv /\ Emit => IInv'
<1> SUFFICES ASSUME IInv, Emit PROVE IInv'
  OBVIOUS
<1> USE DEF IInv, Emit, reader, position, main
<1>1. uart' = Append(uart, 0) /\ uart \in Seq(Ages) /\ Len(uart) < UartSize /\ 0 \in Ages
  BY GpsAssumption DEF TypeOK, Ages, Old
<1>2. Len(uart') = Len(uart) + 1
      /\ \A i \in 1..Len(uart') : uart'[i] = IF i = Len(uart) + 1 THEN 0 ELSE uart[i]
  BY <1>1
<1>3. TypeOK'
  BY <1>1, <1>2, GpsAssumption DEF TypeOK
<1>4. InOrder'
  <2>1. \A i \in 1..Len(uart) : uart[i] \in Nat
    BY <1>1, GpsAssumption DEF Ages, Old
  <2>2. fixSource \in Nat \cup {None} /\ found.source \in Nat \cup {None}
    BY GpsAssumption DEF TypeOK, Ages, Old
  <2>3. Len(uart) \in Nat
    BY <1>1
  <2> QED
    BY <1>2, <2>1, <2>2, <2>3 DEF InOrder, NotBehind
<1> QED
  BY <1>3, <1>4 DEF WindowIsNow, SpeedHasItsTime, SeenIsRecent

LEMMA TickInv == IInv /\ Tick => IInv'
<1> SUFFICES ASSUME IInv, Tick PROVE IInv'
  OBVIOUS
<1> USE DEF IInv, Tick, main
<1>1. Len(uart') = Len(uart) /\ Len(uart) \in Nat
      /\ \A i \in 1..Len(uart) : uart[i] \in Ages /\ uart'[i] = Older(uart[i])
  BY DEF TypeOK
<1>2. \A i \in 1..Len(uart) : Older(uart[i]) \in Ages
  BY <1>1, OlderAge
<1>3. latest' = [at |-> Older(latest.at), quality |-> latest.quality, speed |-> Older(latest.speed)]
  BY DEF TypeOK, Position
<1>4. TypeOK'
  <2>1. uart' \in Seq(Ages) /\ Len(uart') <= UartSize
    BY <1>1, <1>2 DEF TypeOK
  <2>2. latest' \in Position
    BY <1>3, OlderType DEF TypeOK, Position
  <2>3. /\ {fixAge', fixSource', speedAge'} \subseteq Ages \cup {None}
        /\ fixSource' # None => fixAge' # None
    BY OlderType DEF TypeOK
  <2> QED
    BY <2>1, <2>2, <2>3 DEF TypeOK
<1>5. InOrder'
  <2>1. window = NoPosition /\ found = NoFix
    BY DEF WindowIsNow
  <2>2. \A i, j \in 1..Len(uart') : i < j => uart'[j] <= uart'[i]
    <3> SUFFICES ASSUME NEW i \in 1..Len(uart), NEW j \in 1..Len(uart), i < j
                 PROVE  uart'[j] <= uart'[i]
      BY <1>1
    <3>1. uart[j] <= uart[i]
      BY DEF InOrder
    <3> QED
      BY <1>1, <3>1, OlderKeepsOrder
  <2>3. NotBehind(fixSource)'
    <3> SUFFICES ASSUME fixSource' # None, NEW i \in 1..Len(uart)
                 PROVE  uart'[i] <= fixSource'
      BY <1>1 DEF NotBehind
    <3>1. fixSource \in Ages /\ fixSource # None
      BY OlderType DEF TypeOK
    <3>2. uart[i] <= fixSource
      BY <3>1 DEF InOrder, NotBehind
    <3> QED
      BY <1>1, <3>1, <3>2, OlderKeepsOrder
  <2>4. fixSource' # None => latest'.at # None /\ latest'.at <= fixSource'
    <3> SUFFICES ASSUME fixSource' # None PROVE latest'.at # None /\ latest'.at <= fixSource'
      OBVIOUS
    <3>1. fixSource \in Ages /\ fixSource # None
      BY OlderType DEF TypeOK
    <3>2. latest.at \in Ages /\ latest.at <= fixSource
      BY <3>1 DEF InOrder, TypeOK, Position
    <3> QED
      BY <1>3, <3>1, <3>2, OlderAge, OlderKeepsOrder
  <2> QED
    BY <2>1, <2>2, <2>3, <2>4 DEF InOrder, NotBehind, NoPosition, NoFix
<1>6. SpeedHasItsTime'
  BY <1>3 DEF SpeedHasItsTime
<1> QED
  BY <1>4, <1>5, <1>6 DEF WindowIsNow, SeenIsRecent
-----------------------------------------------------------------------------
(* The position, its times and the speed are forgotten together.           *)
LEMMA InvalidateTypes ==
  ASSUME InvalidateFix
  PROVE  /\ latest' = NoPosition /\ latest' \in Position
         /\ fixAge' = None /\ fixSource' = None /\ speedAge' = None
         /\ latest'.speed = None /\ latest'.at = None
  BY DEF InvalidateFix, NoPosition, Position

LEMMA EmptyUart == ASSUME uart' = <<>>
                   PROVE  /\ uart' \in Seq(Ages) /\ Len(uart') <= UartSize
                          /\ \A i \in 1..Len(uart') : FALSE
<1>1. Len(<<>>) = 0
  OBVIOUS
<1> QED
  BY <1>1, GpsAssumption

LEMMA OpenSerialInv == IInv /\ OpenSerial => IInv'
<1> SUFFICES ASSUME IInv, OpenSerial PROVE IInv'
  OBVIOUS
<1> USE DEF IInv, OpenSerial, position, main
<1>1. TypeOK'
  BY EmptyUart DEF TypeOK
<1>2. InOrder'
  BY EmptyUart DEF InOrder, NotBehind
<1> QED
  BY <1>1, <1>2 DEF WindowIsNow, SpeedHasItsTime, SeenIsRecent

LEMMA NoWindow ==
  /\ NoPosition \in Position /\ NoPosition.at = None /\ NoPosition.speed = None
  /\ NoFix \in [fix : BOOLEAN, source : Ages \cup {None}] /\ NoFix.source = None
  BY DEF NoPosition, Position, NoFix

LEMMA PortFailsInv == IInv /\ PortFails => IInv'
<1> SUFFICES ASSUME IInv, PortFails PROVE IInv'
  OBVIOUS
<1> USE DEF IInv, PortFails, main
<1>1. TypeOK'
  BY InvalidateTypes, NoWindow DEF TypeOK
<1>2. InOrder'
  BY InvalidateTypes, NoWindow DEF InOrder, NotBehind
<1> QED
  BY <1>1, <1>2, InvalidateTypes, NoWindow DEF WindowIsNow, SpeedHasItsTime, SeenIsRecent

LEMMA DiscardBacklogInv == IInv /\ DiscardBacklog => IInv'
<1> SUFFICES ASSUME IInv, DiscardBacklog PROVE IInv'
  OBVIOUS
<1> USE DEF IInv, DiscardBacklog, main
<1>1. TypeOK'
  BY InvalidateTypes, EmptyUart DEF TypeOK
<1>2. InOrder'
  BY InvalidateTypes, EmptyUart, NoWindow DEF InOrder, NotBehind, WindowIsNow
<1> QED
  BY <1>1, <1>2, InvalidateTypes DEF WindowIsNow, SpeedHasItsTime, SeenIsRecent

LEMMA DiscardStaleInv == IInv /\ DiscardStale => IInv'
<1> SUFFICES ASSUME IInv, DiscardStale PROVE IInv'
  OBVIOUS
<1> USE DEF IInv, DiscardStale, EndWindow
<1>1. TypeOK'
  BY InvalidateTypes, EmptyUart, NoWindow DEF TypeOK
<1>2. InOrder'
  BY InvalidateTypes, EmptyUart, NoWindow DEF InOrder, NotBehind
<1> QED
  BY <1>1, <1>2, InvalidateTypes, NoWindow DEF WindowIsNow, SpeedHasItsTime, SeenIsRecent

LEMMA BeginWindowInv == IInv /\ BeginWindow => IInv'
<1> SUFFICES ASSUME IInv, BeginWindow PROVE IInv'
  OBVIOUS
<1> USE DEF IInv, BeginWindow, position, main
<1>1. TypeOK'
  BY DEF TypeOK
<1> QED
  BY <1>1 DEF InOrder, NotBehind, WindowIsNow, SpeedHasItsTime, SeenIsRecent

LEMMA ReadNextInv == IInv /\ ReadNext => IInv'
<1> SUFFICES ASSUME IInv, NEW s \in Sentences, ReadSentence(Parsed(s, Head(uart)))
             PROVE  IInv'
  BY DEF ReadNext, Reports, Heard, Fixes
<1> USE DEF IInv, ReadSentence, position, main
<1> DEFINE age == Head(uart)
           p == Parsed(s, age)
<1>1. /\ uart \in Seq(Ages) /\ Len(uart) \in Nat /\ Len(uart) # 0 /\ age \in Ages /\ age = uart[1]
      /\ uart' \in Seq(Ages) /\ Len(uart') = Len(uart) - 1
      /\ \A i \in 1..Len(uart') : uart'[i] = uart[i + 1] /\ i + 1 \in 1..Len(uart)
  BY DEF TypeOK
<1>2. /\ p.at \in {None, age} /\ p.quality \in {None, 0, 1} /\ p.speed \in {None, 0}
      /\ p.fix \in BOOLEAN /\ p.source \in {None, age}
      /\ p.fix => p.at = age
      /\ p.source # None => p.fix
  BY <1>1, ParsedSays
<1>3. 0 \in Ages /\ Ages \subseteq Nat /\ None \notin Ages
  BY GpsAssumption DEF Ages, Old, None
<1>4. window' = Merge(window, p) /\ uart' = Tail(uart)
      /\ found' = IF p.fix THEN [fix |-> TRUE, source |-> p.source] ELSE found
  OBVIOUS
<1> HIDE DEF p, age
<1>5. /\ window' \in Position
      /\ window'.at = OfUpdate(window.at, p.at)
      /\ window'.speed = OfUpdate(window.speed, p.speed)
  <2>1. p.at \in Ages \cup {None} /\ p.speed \in Ages \cup {None} /\ window \in Position
    BY <1>1, <1>2, <1>3 DEF TypeOK
  <2> QED
    BY <1>2, <1>4, <2>1, MergeType
<1>6. found' \in [fix : BOOLEAN, source : Ages \cup {None}]
  BY <1>1, <1>2, <1>4 DEF TypeOK
<1>7. TypeOK'
  BY <1>1, <1>5, <1>6, GpsAssumption DEF TypeOK
<1>8. \A i \in 1..Len(uart') : uart'[i] <= age
  BY <1>1, <1>3 DEF InOrder
<1>9. InOrder'
  <2>1. \A i, j \in 1..Len(uart') : i < j => uart'[j] <= uart'[i]
    BY <1>1 DEF InOrder
  <2>2. NotBehind(fixSource)'
    BY <1>1 DEF InOrder, NotBehind
  <2>3. NotBehind(found.source)'
    <3>1. CASE p.fix
      BY <1>2, <1>4, <1>8, <3>1 DEF NotBehind
    <3>2. CASE ~p.fix
      BY <1>1, <1>4, <3>2 DEF InOrder, NotBehind
    <3> QED
      BY <1>2, <3>1, <3>2
  <2>4. fixSource # None => age <= fixSource
    BY <1>1 DEF InOrder, NotBehind
  <2>5. found.source # None => age <= found.source
    BY <1>1 DEF InOrder, NotBehind
  <2>6. found'.source # None => window'.at # None /\ window'.at <= found'.source
    <3>1. CASE p.fix
      BY <1>1, <1>2, <1>3, <1>4, <1>5, <3>1 DEF OfUpdate
    <3>2. CASE ~p.fix
      BY <1>1, <1>2, <1>3, <1>4, <1>5, <2>5, <3>2 DEF OfUpdate, InOrder
    <3> QED
      BY <1>2, <3>1, <3>2
  <2>7. fixSource # None /\ window'.at # None => window'.at <= fixSource
    BY <1>2, <1>5, <2>4 DEF OfUpdate, InOrder
  <2> QED
    BY <2>1, <2>2, <2>3, <2>6, <2>7 DEF InOrder
<1>10. WindowIsNow'
  <2>1. window'.speed \in {None, 0}
    BY <1>2, <1>5 DEF OfUpdate, WindowIsNow
  <2>2. found'.source # None => found'.fix
    BY <1>4 DEF WindowIsNow
  <2> QED
    BY <2>1, <2>2 DEF WindowIsNow
<1> QED
  BY <1>7, <1>9, <1>10 DEF SpeedHasItsTime, SeenIsRecent

LEMMA PublishInv == IInv /\ Publish => IInv'
<1> SUFFICES ASSUME IInv, Publish PROVE IInv'
  OBVIOUS
<1> USE DEF IInv, Publish, EndWindow
<1>1. /\ window.at \in Ages \cup {None} /\ window.quality \in {None, 0, 1}
      /\ window.speed \in Ages \cup {None} /\ window.speed \in {None, 0}
      /\ latest \in Position /\ 0 \in Ages
  BY GpsAssumption DEF TypeOK, Position, WindowIsNow, Ages, Old
<1>2. /\ latest' \in Position
      /\ latest'.at = OfUpdate(latest.at, window.at)
      /\ latest'.speed = OfUpdate(latest.speed, window.speed)
  BY <1>1, MergeType
<1>3. TypeOK'
  <2>1. fixAge' \in Ages \cup {None} /\ fixSource' \in Ages \cup {None}
        /\ (fixSource' # None => fixAge' # None)
    BY <1>1 DEF TypeOK, None
  <2>2. speedAge' \in Ages \cup {None} /\ raced' \in BOOLEAN
    BY <1>1 DEF TypeOK, NewSpeedAge
  <2> QED
    BY <1>2, <2>1, <2>2, NoWindow DEF TypeOK
<1>4. InOrder'
  <2>1. fixSource' # None => latest'.at # None /\ latest'.at <= fixSource'
    <3>1. CASE found.fix
      BY <1>2, <3>1 DEF InOrder, OfUpdate
    <3>2. CASE ~found.fix
      BY <1>2, <3>2 DEF InOrder, OfUpdate
    <3> QED
      BY <3>1, <3>2
  <2>2. NotBehind(fixSource)'
    BY DEF InOrder, NotBehind
  <2> QED
    BY <2>1, <2>2, NoWindow DEF InOrder, NotBehind
<1>5. SpeedHasItsTime'
  BY <1>1, <1>2 DEF SpeedHasItsTime, NewSpeedAge, OfUpdate
<1> QED
  BY <1>3, <1>4, <1>5, NoWindow DEF WindowIsNow, SeenIsRecent

LEMMA TakePositionInv == IInv /\ TakePosition => IInv'
<1> SUFFICES ASSUME IInv, TakePosition PROVE IInv'
  OBVIOUS
<1> USE DEF IInv, TakePosition, reader, position
<1>1. latest.at \in Ages \cup {None} /\ latest.speed \in Ages \cup {None}
  BY DEF TypeOK, Position
<1>2. TypeOK'
  BY <1>1 DEF TypeOK, NothingSeen
<1>3. SeenIsRecent'
  <2> SUFFICES ASSUME ValidateSource, seen'.valid, seen'.timed PROVE Recent(seen'.at)
    BY DEF SeenIsRecent
  <2>1. GpsValid /\ seen'.at = latest.at /\ fixSource # None
    BY DEF NothingSeen
  <2>2. fixSource <= MaxAge
    BY <2>1 DEF GpsValid, FixCurrent, SourceAge
  <2>3. latest.at # None /\ latest.at <= fixSource
    BY <2>1 DEF InOrder
  <2>4. latest.at \in Int /\ fixSource \in Int /\ MaxAge \in Int
    BY GpsAssumption DEF TypeOK, Position, Ages, Old, None
  <2> QED
    BY <2>1, <2>2, <2>3, <2>4 DEF Recent
<1> QED
  BY <1>2, <1>3 DEF InOrder, NotBehind, WindowIsNow, SpeedHasItsTime

LEMMA BuildPacketInv == IInv /\ BuildPacket => IInv'
<1> SUFFICES ASSUME IInv, BuildPacket PROVE IInv'
  OBVIOUS
<1> USE DEF IInv, BuildPacket, reader, position
<1>1. seen' = [seen EXCEPT !.speed = IF SpeedRecent THEN seen.speed ELSE None]
  OBVIOUS
<1>2. TypeOK'
  BY <1>1 DEF TypeOK
<1>3. seen'.valid = seen.valid /\ seen'.timed = seen.timed /\ seen'.at = seen.at
  BY <1>1 DEF TypeOK
<1> QED
  BY <1>2, <1>3 DEF InOrder, NotBehind, WindowIsNow, SpeedHasItsTime, SeenIsRecent

LEMMA PacketDoneInv == IInv /\ PacketDone => IInv'
<1> SUFFICES ASSUME IInv, PacketDone PROVE IInv'
  OBVIOUS
<1> USE DEF IInv, PacketDone, reader, position
<1>1. TypeOK'
  BY DEF TypeOK, NothingSeen
<1> QED
  BY <1>1 DEF InOrder, NotBehind, WindowIsNow, SpeedHasItsTime, SeenIsRecent

-----------------------------------------------------------------------------
LEMMA NextInv == IInv /\ [Next]_vars => IInv'
<1> SUFFICES ASSUME IInv, [Next]_vars PROVE IInv'
  OBVIOUS
<1>1. CASE FaultsEnd
  <2>1. TypeOK'
    BY <1>1 DEF FaultsEnd, IInv, TypeOK, reader, position, main
  <2> QED
    BY <1>1, <2>1 DEF FaultsEnd, IInv, InOrder, NotBehind, WindowIsNow, SpeedHasItsTime,
                      SeenIsRecent, reader, position, main
<1>2. CASE UNCHANGED vars
  BY <1>2 DEF vars, IInv, TypeOK, InOrder, NotBehind, WindowIsNow, SpeedHasItsTime, SeenIsRecent
<1> QED
  BY <1>1, <1>2, EmitInv, TickInv, OpenSerialInv, PortFailsInv, DiscardBacklogInv,
     DiscardStaleInv, BeginWindowInv, ReadNextInv, PublishInv, TakePositionInv,
     BuildPacketInv, PacketDoneInv
  DEF Next, Reader, Main

(* The inductive invariant holds.                                          *)
THEOREM AlwaysInOrder == Spec => []IInv
  BY InitInv, NextInv, PTL DEF Spec

(* Types, and that a source time always belongs to a fix.                  *)
THEOREM TypeCorrect == Spec => []TypeOK
  BY AlwaysInOrder, PTL DEF IInv

(* The latest speed and the time kept for it belong together, whatever was *)
(* merged, discarded or lost in between.                                   *)
THEOREM SpeedKeepsItsTime == Spec => []SpeedHasItsTime
  BY AlwaysInOrder, PTL DEF IInv

(* Old coordinates are never sent as valid ones.                           *)
THEOREM PositionsAreRecent == Spec => []ValidPositionIsRecent
<1>1. IInv => ValidPositionIsRecent
  BY DEF IInv, SeenIsRecent, ValidPositionIsRecent
<1> QED
  BY <1>1, AlwaysInOrder, PTL

-----------------------------------------------------------------------------
(* The speed of the snapshot still has its time when the second lock is    *)
(* taken, unless the time is gone or a new speed came in between.          *)
SnapshotSpeed ==
  /\ pc = "between" /\ seen.speed # None /\ ~raced => speedAge \in {seen.speed, None}
  /\ SpeedIsRecent

LEMMA SnapshotSpeedStep == IInv /\ SnapshotSpeed /\ [Next]_vars => SnapshotSpeed'
<1> SUFFICES ASSUME IInv, SnapshotSpeed, [Next]_vars PROVE SnapshotSpeed'
  OBVIOUS
<1> USE DEF SnapshotSpeed, SpeedIsRecent
<1>1. CASE Emit \/ OpenSerial \/ BeginWindow \/ FaultsEnd
  BY <1>1 DEF Emit, OpenSerial, BeginWindow, FaultsEnd, reader, position, main
<1>2. CASE Tick \/ PacketDone
  <2>1. pc' = "idle"
    BY <1>2 DEF Tick, PacketDone, main
  <2> QED
    BY <2>1
<1>3. CASE PortFails \/ DiscardBacklog \/ DiscardStale
  <2>1. speedAge' = None /\ UNCHANGED main
    BY <1>3 DEF PortFails, DiscardBacklog, DiscardStale, EndWindow, InvalidateFix, main
  <2> QED
    BY <2>1 DEF main
<1>4. CASE ReadNext
  <2>1. UNCHANGED <<speedAge, pc, seen, raced>>
    BY <1>4 DEF ReadNext, ReadSentence, position, main
  <2> QED
    BY <2>1
<1>5. CASE Publish
  <2>1. /\ UNCHANGED <<pc, seen>> /\ raced \in BOOLEAN
        /\ speedAge' = NewSpeedAge /\ raced' = (raced \/ (pc = "between" /\ window.speed # None))
    BY <1>5 DEF Publish, EndWindow, IInv, TypeOK
  <2>2. CASE pc = "between" /\ window.speed # None
    BY <2>1, <2>2
  <2>3. CASE pc # "between"
    BY <2>1, <2>3
  <2>4. CASE window.speed = None
    BY <2>1, <2>4 DEF NewSpeedAge
  <2> QED
    BY <2>2, <2>3, <2>4
<1>6. CASE TakePosition
  <2>1. pc' = "between" /\ speedAge' = speedAge /\ seen'.speed \in {latest.speed, None}
    BY <1>6 DEF TakePosition, NothingSeen, reader, position
  <2> QED
    BY <2>1 DEF IInv, SpeedHasItsTime
<1>7. CASE BuildPacket
  <2>1. /\ pc = "between" /\ pc' = "packet" /\ raced' = raced
        /\ seen'.speed = IF SpeedRecent THEN seen.speed ELSE None
    BY <1>7 DEF BuildPacket, IInv, TypeOK
  <2>2. ASSUME seen'.speed # None, ~raced PROVE seen'.speed <= MaxAge
    BY <2>1, <2>2 DEF SpeedRecent, Recent
  <2> QED
    BY <2>1, <2>2
<1>8. CASE UNCHANGED vars
  BY <1>8 DEF vars
<1> QED
  BY <1>1, <1>2, <1>3, <1>4, <1>5, <1>6, <1>7, <1>8 DEF Next, Reader, Main

(* An old speed is in a packet only when a new one lent it its time.       *)
THEOREM SpeedsAreRecent == Spec => []SpeedIsRecent
<1>1. Init => SnapshotSpeed
  BY DEF Init, SnapshotSpeed, SpeedIsRecent
<1>2. SnapshotSpeed => SpeedIsRecent
  BY DEF SnapshotSpeed
<1> QED
  BY <1>1, <1>2, SnapshotSpeedStep, AlwaysInOrder, PTL DEF Spec

-----------------------------------------------------------------------------
(* A time is some day's midnight and the time of its day.                  *)
LEMMA DayAndTime == ASSUME NEW t \in Int
                    PROVE  /\ t % Day \in Int
                           /\ 0 <= t % Day /\ t % Day < Day
                           /\ t \div Day \in Int
                           /\ t = ((t \div Day) * Day) + (t % Day)
  BY DEF Day

(* The true time of the sentence is among the three days' candidates.      *)
LEMMA NearDay == ASSUME NEW t \in Int, NEW now \in Int, 2 * Distance(t, now) < Day
                 PROVE  t \in Candidates(Base(t % Day, now)) /\ Base(t % Day, now) \in Int
<1>1. PICK p \in Int, q \in Int, r \in Int, s \in Int :
        /\ t = p * Day + r /\ now = q * Day + s
        /\ r = t % Day /\ s = now % Day
        /\ 0 <= r /\ r < Day /\ 0 <= s /\ s < Day
  BY DayAndTime DEF Day
<1>2. p - q \in {-1, 0, 1}
  BY <1>1 DEF Distance, Day
<1>3. Base(t % Day, now) = q * Day + r
  BY <1>1 DEF Base, Day
<1> QED
  BY <1>1, <1>2, <1>3 DEF Candidates, Day

(* "Select the nearest UTC day so midnight rollover cannot turn a fresh    *)
(* fix into a 24-hour-old one" (gps_reader.py): the date of a sentence is  *)
(* found again whenever the clocks of satellites and device differ by less *)
(* than half a day, at whatever side of midnight either of them is.        *)
THEOREM RolloverIsHarmless ==
  ASSUME NEW t \in Int, NEW now \in Int, 2 * Distance(t, now) < Day
  PROVE  SourceUtc(t % Day, now) = t
<1> DEFINE base == Base(t % Day, now)
<1>1. base \in Int /\ t \in Candidates(base)
  BY NearDay
<1> HIDE DEF base
<1>2. \A d \in Candidates(base) : d # t => Distance(t, now) < Distance(d, now)
  BY <1>1 DEF Candidates, Distance, Day
<1>3. \A d \in Candidates(base) : Distance(d, now) \in Int
  BY <1>1 DEF Candidates, Distance, Day
<1>4. \A c \in Candidates(base) :
        (\A d \in Candidates(base) : Distance(c, now) <= Distance(d, now)) <=> c = t
  BY <1>1, <1>2, <1>3
<1> QED
  BY <1>1, <1>4 DEF SourceUtc, base

-----------------------------------------------------------------------------
(* A set of positions has a least one.                                     *)
LEMMA LeastPosition ==
  ASSUME NEW n \in Nat, NEW T \in SUBSET (0..n), T # {}
  PROVE  \E m \in T : \A i \in T : m <= i
<1> DEFINE Below(j) == {i \in T : i < j}
           All      == {Below(j) : j \in T}
<1>1. IsFiniteSet(0..n) /\ IsFiniteSet(T)
  BY FS_Interval, FS_Subset, 0 \in Int, n \in Int
<1>2. All \subseteq FiniteSubsetsOf(T) /\ All # {}
  <2>1. ASSUME NEW j \in T
        PROVE  Below(j) \in SUBSET T /\ IsFiniteSet(Below(j))
    BY <1>1, FS_Subset
  <2> QED
    BY <2>1 DEF FiniteSubsetsOf
<1>3. PICK A \in All : \A B \in All : ~ (<<B, A>> \in StrictSubsetOrdering(T))
  <2> HIDE DEF All
  <2>1. IsWellFoundedOn(StrictSubsetOrdering(T), FiniteSubsetsOf(T))
    BY FS_StrictSubsetOrderingWellFounded
  <2> QED
    BY <1>2, <2>1, WFMin
<1>4. PICK m \in T : A = Below(m)
  BY <1>3
<1>5. ASSUME NEW i \in T, ~ (m <= i)
      PROVE  FALSE
  <2>1. i < m /\ i \in Int /\ m \in Int
    BY <1>5
  <2>2. \A j \in T : j < i => j < m
    BY <2>1
  <2>3. ~ (i < i)
    BY <2>1
  <2>4. Below(i) \subseteq Below(m) /\ i \in Below(m) /\ i \notin Below(i)
    BY <2>1, <2>2, <2>3
  <2>5. <<Below(i), A>> \in StrictSubsetOrdering(T)
    BY <1>4, <2>4 DEF StrictSubsetOrdering
  <2> QED
    BY <1>3, <2>5
<1> QED
  BY <1>4, <1>5

(* Min of a set of positions is the least of them.                         *)
LEMMA MinIsLeast ==
  ASSUME NEW n \in Nat, NEW T \in SUBSET (0..n), T # {}
  PROVE  Min(T) \in T /\ \A i \in T : Min(T) <= i
  BY LeastPosition DEF Min

(* Counting up from 0, the first number a set lacks follows one it has.    *)
LEMMA CountingUp ==
  ASSUME NEW n \in Nat, NEW T, 0 \in T, \A i \in 0..n : i \in T /\ i < n => i + 1 \in T
  PROVE  \A i \in 0..n : i \in T
<1> SUFFICES ASSUME {i \in 0..n : i \notin T} # {} PROVE FALSE
  OBVIOUS
<1>1. PICK m \in 0..n : m \notin T /\ \A i \in 0..n : i \notin T => m <= i
  BY LeastPosition
<1>2. m # 0
  BY <1>1
<1>3. m - 1 \in 0..n /\ m - 1 < n /\ (m - 1) + 1 = m /\ ~ (m <= m - 1)
  BY <1>2
<1> QED
  BY <1>1, <1>3

-----------------------------------------------------------------------------
(* FlattenSeq is a recursive function: it has exactly one value.           *)
Flattens(f, s, n) == f = [i \in 1..n |-> IF i = 1 THEN s[i] ELSE f[i - 1] \o s[i]]

LEMMA FlattenUnique ==
  ASSUME NEW n \in Nat, NEW m \in Nat, n <= m, NEW s, NEW f, NEW g,
         Flattens(f, s, n), Flattens(g, s, m)
  PROVE  \A i \in 1..n : f[i] = g[i]
<1> USE DEF Flattens
<1> DEFINE T == {0} \cup {i \in 1..n : f[i] = g[i]}
<1>1. ASSUME NEW i \in 0..n, i \in T, i < n
      PROVE  i + 1 \in T
  <2>1. i + 1 \in 1..n /\ i + 1 \in 1..m /\ (i + 1) - 1 = i /\ (i + 1 = 1 <=> i = 0)
    BY <1>1
  <2>2. f[i + 1] = IF i = 0 THEN s[i + 1] ELSE f[i] \o s[i + 1]
    BY <2>1
  <2>3. g[i + 1] = IF i = 0 THEN s[i + 1] ELSE g[i] \o s[i + 1]
    BY <2>1
  <2>4. i # 0 => f[i] = g[i]
    BY <1>1
  <2> QED
    BY <2>1, <2>2, <2>3, <2>4
<1>2. \A i \in 0..n : i \in T
  <2> HIDE DEF T
  <2>1. 0 \in T
    BY DEF T
  <2> QED
    BY <1>1, <2>1, CountingUp
<1>3. ASSUME NEW i \in 1..n
      PROVE  i \in 0..n /\ i # 0
  OBVIOUS
<1> QED
  BY <1>2, <1>3

(* Such a function there is for every number of sequences.                 *)
LEMMA FlattenExists ==
  ASSUME NEW n \in Nat, NEW s
  PROVE  \E f : Flattens(f, s, n)
<1> USE DEF Flattens
<1> DEFINE Fits(m) == \E f : Flattens(f, s, m)
           T == {m \in 0..n : Fits(m)}
<1>1. Fits(0)
  <2>1. 1..0 = {}
    OBVIOUS
  <2> DEFINE f == [i \in {} |-> 0]
  <2>2. Flattens(f, s, 0)
    BY <2>1
  <2> QED
    BY <2>2
<1>2. ASSUME NEW m \in 0..n, m \in T, m < n
      PROVE  m + 1 \in T
  <2>1. PICK f : Flattens(f, s, m)
    BY <1>2
  <2> DEFINE g == [i \in 1..(m + 1) |-> IF i = m + 1
                                         THEN IF i = 1 THEN s[i] ELSE f[m] \o s[i]
                                         ELSE f[i]]
  <2>2. ASSUME NEW i \in 1..(m + 1)
        PROVE  g[i] = IF i = 1 THEN s[i] ELSE g[i - 1] \o s[i]
    <3>1. CASE i = m + 1
      <4>1. i # 1 => i - 1 = m /\ i - 1 \in 1..(m + 1) /\ i - 1 # m + 1
        BY <3>1
      <4>2. i # 1 => g[i - 1] = f[m]
        BY <4>1
      <4> QED
        BY <3>1, <4>2
    <3>2. CASE i # m + 1
      <4>1. i \in 1..m /\ (i # 1 => i - 1 \in 1..(m + 1) /\ i - 1 # m + 1)
        BY <3>2
      <4>2. g[i] = f[i] /\ (i # 1 => g[i - 1] = f[i - 1])
        BY <4>1, <3>2
      <4>3. f[i] = IF i = 1 THEN s[i] ELSE f[i - 1] \o s[i]
        BY <2>1, <4>1
      <4> QED
        BY <4>2, <4>3
    <3> QED
      BY <3>1, <3>2
  <2>3. Flattens(g, s, m + 1)
    <3>1. g = [i \in 1..(m + 1) |-> g[i]]
      OBVIOUS
    <3> HIDE DEF g
    <3> QED
      BY <3>1, <2>2
  <2>4. Fits(m + 1)
    <3> HIDE DEF g, Flattens
    <3> QED
      BY <2>3
  <2>5. m + 1 \in 0..n
    BY <1>2
  <2> HIDE DEF Fits
  <2> QED
    BY <2>4, <2>5
<1>3. \A m \in 0..n : m \in T
  <2> HIDE DEF T
  <2>1. 0 \in T
    <3> HIDE DEF Fits
    <3>1. 0 \in 0..n
      OBVIOUS
    <3> QED
      BY <1>1, <3>1 DEF T
  <2> QED
    BY <1>2, <2>1, CountingUp
<1>4. n \in 0..n
  OBVIOUS
<1>5. Fits(n)
  <2> HIDE DEF Fits
  <2> QED
    BY <1>3, <1>4
<1> QED
  BY <1>5

(* The last sequence goes to the end.                                      *)
LEMMA FlattenLast ==
  ASSUME NEW S, NEW n \in Nat, n # 0, NEW s \in [1..n -> Seq(S)]
  PROVE  FlattenSeq(s) = FlattenSeq([i \in 1..(n - 1) |-> s[i]]) \o s[n]
<1> DEFINE r == [i \in 1..(n - 1) |-> s[i]]
<1>1. s \in Seq(Seq(S)) /\ Len(s) = n /\ r \in Seq(Seq(S)) /\ Len(r) = n - 1 /\ n - 1 \in Nat
  OBVIOUS
<1>2. PICK f : Flattens(f, s, n) /\ FlattenSeq(s) = f[n]
  <2>1. \E f : Flattens(f, s, n)
    BY FlattenExists
  <2>2. Flattens(CHOOSE f : Flattens(f, s, n), s, n)
    BY <2>1
  <2>3. FlattenSeq(s) = (CHOOSE f : Flattens(f, s, n))[n]
    BY <1>1 DEF FlattenSeq, Flattens
  <2> QED
    BY <2>2, <2>3
<1>3. CASE n = 1
  <2>1. f[1] = s[1]
    BY <1>2, <1>3 DEF Flattens
  <2>2. FlattenSeq(r) = <<>>
    BY <1>1, <1>3 DEF FlattenSeq
  <2> QED
    BY <1>2, <1>3, <2>1, <2>2
<1>4. CASE n # 1
  <2>1. ASSUME NEW g
        PROVE  Flattens(g, r, n - 1) <=> Flattens(g, s, n - 1)
    <3>1. [i \in 1..(n - 1) |-> IF i = 1 THEN r[i] ELSE g[i - 1] \o r[i]]
          = [i \in 1..(n - 1) |-> IF i = 1 THEN s[i] ELSE g[i - 1] \o s[i]]
      OBVIOUS
    <3> QED
      BY <3>1 DEF Flattens
  <2>2. PICK g : Flattens(g, r, n - 1) /\ FlattenSeq(r) = g[n - 1]
    <3>1. \E g : Flattens(g, r, n - 1)
      BY FlattenExists, <1>1
    <3>2. Flattens(CHOOSE g : Flattens(g, r, n - 1), r, n - 1)
      BY <3>1
    <3>3. FlattenSeq(r) = (CHOOSE g : Flattens(g, r, n - 1))[n - 1]
      BY <1>1, <1>4 DEF FlattenSeq, Flattens
    <3> QED
      BY <3>2, <3>3
  <2>3. Flattens(g, s, n - 1)
    BY <2>1, <2>2
  <2>4. n - 1 \in 1..(n - 1) /\ n - 1 <= n /\ n \in 1..n
    BY <1>4
  <2>5. g[n - 1] = f[n - 1]
    <3> HIDE DEF r
    <3>1. \A i \in 1..(n - 1) : g[i] = f[i]
      BY <1>1, <1>2, <2>3, <2>4, FlattenUnique
    <3> QED
      BY <2>4, <3>1
  <2>6. f[n] = f[n - 1] \o s[n]
    BY <1>2, <1>4, <2>4 DEF Flattens
  <2> QED
    BY <1>2, <2>2, <2>5, <2>6
<1> QED
  BY <1>3, <1>4

-----------------------------------------------------------------------------
Byte == {"S", "B", "$", "n", "x", "k", "1", "2", "9"}

(* Every item has between one and six bytes.                               *)
LEMMA ShapeType ==
  ASSUME NEW k \in DOMAIN Shape
  PROVE  Shape[k] \in Seq(Byte) /\ Len(Shape[k]) \in 1..6
<1>1. k \in {"nmea", "ubx", "binary", "broken", "torn", "huge", "sync", "dollar", "long"}
  BY DEF Shape
<1>2. CASE k = "nmea"
  BY <1>2 DEF Shape, Byte
<1>3. CASE k = "ubx"
  BY <1>3 DEF Shape, Byte
<1>4. CASE k = "binary"
  BY <1>4 DEF Shape, Byte
<1>5. CASE k = "broken"
  BY <1>5 DEF Shape, Byte
<1>6. CASE k = "torn"
  BY <1>6 DEF Shape, Byte
<1>7. CASE k = "huge"
  BY <1>7 DEF Shape, Byte
<1>8. CASE k = "sync"
  BY <1>8 DEF Shape, Byte
<1>9. CASE k = "dollar"
  BY <1>9 DEF Shape, Byte
<1>10. CASE k = "long"
  BY <1>10 DEF Shape, Byte
<1> QED
  BY <1>1, <1>2, <1>3, <1>4, <1>5, <1>6, <1>7, <1>8, <1>9, <1>10

(* What is known of the first bytes of a frame.                            *)
LEMMA NmeaShape == Len(Shape["nmea"]) = 3 /\ Shape["nmea"][1] = "$" /\ Shape["nmea"][2] = "x" /\ Shape["nmea"][3] = "n"
  BY DEF Shape

LEMMA UbxShape ==
  ASSUME NEW k \in {"ubx", "binary"}
  PROVE  /\ Shape[k][1] = "S" /\ Shape[k][2] = "B" /\ Len(Shape[k]) = Packet(Shape[k][3]) /\ Len(Shape[k]) >= 3
         /\ Shape[k][3] \in {"1", "2"}
<1>1. CASE k = "ubx"
  BY <1>1 DEF Shape, Packet, Length
<1>2. CASE k = "binary"
  BY <1>2 DEF Shape, Packet, Length
<1> QED
  BY <1>1, <1>2

(* The second sync byte follows the first, and then the item's length.     *)
LEMMA SyncShape ==
  ASSUME NEW k \in DOMAIN Shape, NEW p \in 1..Len(Shape[k]), Shape[k][p] = "B"
  PROVE  /\ p = 2 /\ k \in {"ubx", "binary", "broken", "torn", "huge"}
         /\ Shape[k][1] = "S" /\ Len(Shape[k]) >= 3
         /\ k = "broken" => Shape[k][3] = "1" /\ Len(Shape[k]) = Packet("1")
         /\ k = "torn" => Shape[k][3] = "2"
         /\ k = "huge" => Shape[k][3] = "9"
<1>1. k \in {"nmea", "ubx", "binary", "broken", "torn", "huge", "sync", "dollar", "long"}
  BY DEF Shape
<1>2. CASE k = "nmea"
  BY <1>2 DEF Shape, Packet, Length
<1>3. CASE k = "ubx"
  BY <1>3 DEF Shape, Packet, Length
<1>4. CASE k = "binary"
  BY <1>4 DEF Shape, Packet, Length
<1>5. CASE k = "broken"
  BY <1>5 DEF Shape, Packet, Length
<1>6. CASE k = "torn"
  BY <1>6 DEF Shape, Packet, Length
<1>7. CASE k = "huge"
  BY <1>7 DEF Shape, Packet, Length
<1>8. CASE k = "sync"
  BY <1>8 DEF Shape, Packet, Length
<1>9. CASE k = "dollar"
  BY <1>9 DEF Shape, Packet, Length
<1>10. CASE k = "long"
  BY <1>10 DEF Shape, Packet, Length
<1> QED
  BY <1>1, <1>2, <1>3, <1>4, <1>5, <1>6, <1>7, <1>8, <1>9, <1>10

-----------------------------------------------------------------------------
(* The stream is its items, end to end.                                    *)
Laid == items \in Seq(Items) /\ bytes = FlattenSeq([i \in DOMAIN items |-> Shape[items[i]]])

Before(i) == FlattenSeq([j \in 1..i |-> Shape[items[j]]])

(* What comes before item i + 2 ends with item i + 1.                      *)
LEMMA BeforeStep ==
  ASSUME Laid, NEW i \in Nat, i < Len(items)
  PROVE  /\ Before(i + 1) = Before(i) \o Shape[items[i + 1]]
         /\ Shape[items[i + 1]] \in Seq(Byte) /\ Len(Shape[items[i + 1]]) \in 1..6
<1>1. \A j \in 1..Len(items) : items[j] \in DOMAIN Shape
  BY FramingAssumption DEF Laid
<1>2. \A j \in 1..Len(items) : Shape[items[j]] \in Seq(Byte) /\ Len(Shape[items[j]]) \in 1..6
  BY <1>1, ShapeType
<1> DEFINE s == [j \in 1..(i + 1) |-> Shape[items[j]]]
<1>3. s \in [1..(i + 1) -> Seq(Byte)] /\ i + 1 \in Nat /\ i + 1 # 0 /\ (i + 1) - 1 = i /\ i + 1 \in 1..(i + 1)
  <2>1. \A j \in 1..(i + 1) : j \in 1..Len(items)
    BY DEF Laid
  <2> QED
    BY <1>2, <2>1
<1>4. [j \in 1..i |-> s[j]] = [j \in 1..i |-> Shape[items[j]]] /\ s[i + 1] = Shape[items[i + 1]]
  BY <1>3
<1>5. FlattenSeq(s) = FlattenSeq([j \in 1..((i + 1) - 1) |-> s[j]]) \o s[i + 1]
  <2> HIDE DEF s
  <2> QED
    BY <1>3, FlattenLast
<1>6. i + 1 \in 1..Len(items)
  BY DEF Laid
<1> QED
  BY <1>2, <1>3, <1>4, <1>5, <1>6 DEF Before

(* What the first i items make of the stream.                              *)
LaidTo(i) ==
  /\ Before(i) \in Seq(Byte)
  /\ \A j \in 1..i : Len(Before(j - 1)) \in Nat /\ Len(Before(j - 1)) + Len(Shape[items[j]]) <= Len(Before(i))
  /\ \A j \in 1..i : \A k \in 1..Len(Shape[items[j]]) :
       Before(i)[Len(Before(j - 1)) + k] = Shape[items[j]][k]
  /\ \A p \in 1..Len(Before(i)) :
       \E j \in 1..i : \E k \in 1..Len(Shape[items[j]]) : p = Len(Before(j - 1)) + k

(* Sums of lengths.                                                        *)
LEMMA StillWithin ==
  ASSUME NEW a \in Nat, NEW b \in Nat, NEW c \in Nat, NEW d \in Nat, a + b <= c
  PROVE  a + b <= c + d
  OBVIOUS

LEMMA ByteWithin ==
  ASSUME NEW a \in Nat, NEW b \in Nat, NEW c \in Nat, NEW k \in 1..b, a + b <= c
  PROVE  a + k \in 1..c
  OBVIOUS

(* Where the elements of a concatenation are.                              *)
LEMMA ConcatFacts ==
  ASSUME NEW S, NEW s \in Seq(S), NEW t \in Seq(S)
  PROVE  /\ s \o t \in Seq(S) /\ Len(s \o t) = Len(s) + Len(t) /\ Len(s) \in Nat /\ Len(t) \in Nat
         /\ \A k \in 1..Len(s) : (s \o t)[k] = s[k]
         /\ \A k \in 1..Len(t) : (s \o t)[Len(s) + k] = t[k]
         /\ \A p \in 1..(Len(s) + Len(t)) : p \in 1..Len(s) \/ \E k \in 1..Len(t) : p = Len(s) + k
<1>1. s \o t \in Seq(S) /\ Len(s \o t) = Len(s) + Len(t) /\ Len(s) \in Nat /\ Len(t) \in Nat
  OBVIOUS
<1>2. \A k \in 1..Len(s) : (s \o t)[k] = s[k]
  OBVIOUS
<1>3. \A k \in 1..Len(t) : (s \o t)[Len(s) + k] = t[k]
  OBVIOUS
<1>4. ASSUME NEW p \in 1..(Len(s) + Len(t)), p \notin 1..Len(s)
      PROVE  p - Len(s) \in 1..Len(t) /\ p = Len(s) + (p - Len(s))
  BY <1>1, <1>4
<1> QED
  BY <1>1, <1>2, <1>3, <1>4

(* One more item is appended to the bytes of those before it.              *)
LEMMA LaidToStep ==
  ASSUME Laid, NEW i \in Nat, i < Len(items), LaidTo(i)
  PROVE  LaidTo(i + 1)
<1> DEFINE b == Before(i)
           t == Shape[items[i + 1]]
<1>1. b \in Seq(Byte) /\ t \in Seq(Byte) /\ Len(t) \in 1..6 /\ Before(i + 1) = b \o t
  BY BeforeStep DEF LaidTo
<1>2. /\ b \o t \in Seq(Byte) /\ Len(b \o t) = Len(b) + Len(t) /\ Len(b) \in Nat /\ Len(t) \in Nat
      /\ \A k \in 1..Len(b) : (b \o t)[k] = b[k]
      /\ \A k \in 1..Len(t) : (b \o t)[Len(b) + k] = t[k]
      /\ \A p \in 1..(Len(b) + Len(t)) : p \in 1..Len(b) \/ \E k \in 1..Len(t) : p = Len(b) + k
  <2> HIDE DEF b, t
  <2> QED
    BY <1>1, ConcatFacts
<1>3. /\ i + 1 \in 1..(i + 1) /\ (i + 1) - 1 = i
      /\ \A j \in 1..(i + 1) : j \in 1..i \/ j = i + 1
      /\ \A j \in 1..i : j \in 1..(i + 1)
  OBVIOUS
<1>4. \A j \in 1..(i + 1) : Len(Before(j - 1)) \in Nat /\ Len(Before(j - 1)) + Len(Shape[items[j]]) <= Len(Before(i + 1))
  <2>1. ASSUME NEW j \in 1..i
        PROVE  Len(Before(j - 1)) \in Nat /\ Len(Before(j - 1)) + Len(Shape[items[j]]) <= Len(Before(i + 1))
    <3>1. Len(Before(j - 1)) \in Nat /\ Len(Before(j - 1)) + Len(Shape[items[j]]) <= Len(b)
      BY DEF LaidTo
    <3>2. Len(Shape[items[j]]) \in Nat
      <4>1. (j - 1) \in Nat /\ j - 1 < Len(items) /\ (j - 1) + 1 = j
        BY DEF Laid
      <4>2. Len(Shape[items[(j - 1) + 1]]) \in 1..6
        BY <4>1, BeforeStep
      <4> QED
        BY <4>1, <4>2
    <3>3. Len(Before(i + 1)) = Len(b) + Len(t)
      BY <1>1, <1>2
    <3>4. Len(Before(j - 1)) + Len(Shape[items[j]]) <= Len(b) + Len(t)
      <4> HIDE DEF b, t
      <4>1. Len(b) \in Nat /\ Len(t) \in Nat
        BY <1>2
      <4> QED
        BY <3>1, <3>2, <4>1, StillWithin
    <3> QED
      BY <3>1, <3>3, <3>4
  <2>2. Len(Before((i + 1) - 1)) \in Nat /\ Len(Before((i + 1) - 1)) + Len(Shape[items[i + 1]]) <= Len(Before(i + 1))
    BY <1>1, <1>2, <1>3
  <2> QED
    BY <1>3, <2>1, <2>2
<1>5. \A j \in 1..(i + 1) : \A k \in 1..Len(Shape[items[j]]) :
        Before(i + 1)[Len(Before(j - 1)) + k] = Shape[items[j]][k]
  <2>1. ASSUME NEW j \in 1..i, NEW k \in 1..Len(Shape[items[j]])
        PROVE  Before(i + 1)[Len(Before(j - 1)) + k] = Shape[items[j]][k]
    <3>1. b[Len(Before(j - 1)) + k] = Shape[items[j]][k]
      BY DEF LaidTo
    <3>2. Len(Before(j - 1)) \in Nat /\ Len(Before(j - 1)) + Len(Shape[items[j]]) <= Len(b)
      BY DEF LaidTo
    <3>3. Len(Shape[items[j]]) \in Nat
      <4>1. (j - 1) \in Nat /\ j - 1 < Len(items) /\ (j - 1) + 1 = j
        BY DEF Laid
      <4>2. Len(Shape[items[(j - 1) + 1]]) \in 1..6
        BY <4>1, BeforeStep
      <4> QED
        BY <4>1, <4>2
    <3>4. Len(Before(j - 1)) + k \in 1..Len(b)
      <4> HIDE DEF b, t
      <4> QED
        BY <1>2, <3>2, <3>3, ByteWithin
    <3> HIDE DEF b, t
    <3> QED
      BY <1>1, <1>2, <3>1, <3>4
  <2>2. \A k \in 1..Len(t) : Before(i + 1)[Len(Before((i + 1) - 1)) + k] = t[k]
    BY <1>1, <1>2, <1>3
  <2> QED
    BY <1>3, <2>1, <2>2
<1>6. \A p \in 1..Len(Before(i + 1)) :
        \E j \in 1..(i + 1) : \E k \in 1..Len(Shape[items[j]]) : p = Len(Before(j - 1)) + k
  <2> SUFFICES ASSUME NEW p \in 1..Len(Before(i + 1))
               PROVE  \E j \in 1..(i + 1) : \E k \in 1..Len(Shape[items[j]]) : p = Len(Before(j - 1)) + k
    OBVIOUS
  <2>1. CASE p \in 1..Len(b)
    <3>1. PICK j \in 1..i : \E k \in 1..Len(Shape[items[j]]) : p = Len(Before(j - 1)) + k
      BY <2>1 DEF LaidTo
    <3> QED
      BY <1>3, <3>1
  <2>2. CASE \E k \in 1..Len(t) : p = Len(b) + k
    <3>1. \E k \in 1..Len(Shape[items[i + 1]]) : p = Len(Before((i + 1) - 1)) + k
      BY <1>3, <2>2
    <3> QED
      BY <1>3, <3>1
  <2>3. Len(Before(i + 1)) = Len(b) + Len(t)
    BY <1>1, <1>2
  <2> QED
    BY <1>2, <2>1, <2>2, <2>3
<1> QED
  BY <1>1, <1>2, <1>4, <1>5, <1>6 DEF LaidTo

(* So the layout is that of any number of the items.                       *)
LEMMA AllLaid ==
  ASSUME Laid
  PROVE  \A i \in 0..Len(items) : LaidTo(i)
<1> DEFINE T == {i \in 0..Len(items) : LaidTo(i)}
<1>1. Len(items) \in Nat
  BY DEF Laid
<1>2. LaidTo(0)
  <2>1. Before(0) = <<>>
    <3>1. [j \in 1..0 |-> Shape[items[j]]] = <<>>
      OBVIOUS
    <3> QED
      BY <3>1 DEF Before, FlattenSeq
  <2>2. Len(Before(0)) = 0 /\ 1..0 = {}
    BY <2>1
  <2>3. Before(0) \in Seq(Byte)
    <3>1. <<>> \in Seq(Byte)
      OBVIOUS
    <3> QED
      BY <2>1, <3>1
  <2> QED
    BY <2>2, <2>3 DEF LaidTo
<1>3. ASSUME NEW i \in 0..Len(items), i \in T, i < Len(items)
      PROVE  i + 1 \in T
  <2>1. i \in Nat /\ i + 1 \in 0..Len(items)
    BY <1>1, <1>3
  <2> QED
    BY <1>3, <2>1, LaidToStep
<1>4. \A i \in 0..Len(items) : i \in T
  <2> HIDE DEF T
  <2>1. 0 \in T
    BY <1>1, <1>2 DEF T
  <2> QED
    BY <1>1, <1>3, <2>1, CountingUp
<1> QED
  BY <1>4

-----------------------------------------------------------------------------
LEMMA BeforeNone == Offset(1) = 0
<1>1. [j \in 1..0 |-> Shape[items[j]]] = <<>>
  OBVIOUS
<1> QED
  BY <1>1 DEF Offset, FlattenSeq

(* Where the items of the stream are.                                      *)
LEMMA Layout ==
  ASSUME Laid
  PROVE  /\ bytes \in Seq(Byte) /\ Len(bytes) \in Nat
         /\ \A i \in DOMAIN items :
              /\ items[i] \in DOMAIN Shape /\ Len(Shape[items[i]]) \in 1..6
              /\ Offset(i) \in Nat /\ End(i) <= Len(bytes)
              /\ \A k \in 1..Len(Shape[items[i]]) : bytes[Offset(i) + k] = Shape[items[i]][k]
         /\ \A i, j \in DOMAIN items : j < i => End(j) <= Offset(i)
         /\ \A p \in 1..Len(bytes) :
              \E i \in DOMAIN items : \E k \in 1..Len(Shape[items[i]]) : p = Offset(i) + k
<1>1. Len(items) \in Nat /\ DOMAIN items = 1..Len(items)
  BY DEF Laid
<1>2. bytes = Before(Len(items))
  BY <1>1 DEF Laid, Before
<1>3. \A i \in DOMAIN items : Offset(i) = Len(Before(i - 1))
  BY DEF Offset, Before
<1>4. LaidTo(Len(items))
  BY <1>1, AllLaid
<1>5. bytes \in Seq(Byte) /\ Len(bytes) \in Nat
  BY <1>2, <1>4 DEF LaidTo
<1>6. \A i \in DOMAIN items : items[i] \in DOMAIN Shape /\ Len(Shape[items[i]]) \in 1..6
  BY FramingAssumption, ShapeType DEF Laid
<1>7. \A i \in DOMAIN items : Offset(i) \in Nat /\ End(i) <= Len(bytes)
  BY <1>1, <1>2, <1>3, <1>4 DEF LaidTo, End
<1>8. \A i \in DOMAIN items : \A k \in 1..Len(Shape[items[i]]) :
        bytes[Offset(i) + k] = Shape[items[i]][k]
  BY <1>1, <1>2, <1>3, <1>4 DEF LaidTo
<1>9. ASSUME NEW i \in DOMAIN items, NEW j \in DOMAIN items, j < i
      PROVE  End(j) <= Offset(i)
  <2>1. i - 1 \in 0..Len(items) /\ j \in 1..(i - 1)
    BY <1>1, <1>9
  <2>2. LaidTo(i - 1)
    BY <2>1, AllLaid
  <2> QED
    BY <1>3, <2>1, <2>2 DEF LaidTo, End
<1>10. ASSUME NEW p \in 1..Len(bytes)
       PROVE  \E i \in DOMAIN items : \E k \in 1..Len(Shape[items[i]]) : p = Offset(i) + k
  <2>1. PICK j \in 1..Len(items) : \E k \in 1..Len(Shape[items[j]]) : p = Len(Before(j - 1)) + k
    BY <1>2, <1>4 DEF LaidTo
  <2> QED
    BY <1>1, <1>3, <2>1
<1> QED
  BY <1>5, <1>6, <1>7, <1>8, <1>9, <1>10

(* A line in the stream.                                                   *)
LEMMA NmeaAt ==
  ASSUME Laid, NEW i \in DOMAIN items, items[i] = "nmea"
  PROVE  /\ Offset(i) \in Nat /\ End(i) = Offset(i) + 3 /\ End(i) <= Len(bytes)
         /\ bytes[Offset(i) + 1] = "$" /\ bytes[Offset(i) + 2] = "x" /\ bytes[Offset(i) + 3] = "n"
<1>1. /\ Offset(i) \in Nat /\ End(i) <= Len(bytes)
      /\ \A k \in 1..Len(Shape[items[i]]) : bytes[Offset(i) + k] = Shape[items[i]][k]
  BY Layout
<1>2. 1 \in 1..3 /\ 2 \in 1..3 /\ 3 \in 1..3
  OBVIOUS
<1> QED
  BY <1>1, <1>2, NmeaShape DEF End

(* A packet that is whole.                                                 *)
LEMMA UbxAt ==
  ASSUME Laid, NEW i \in DOMAIN items, items[i] \in {"ubx", "binary"}
  PROVE  /\ Offset(i) \in Nat /\ End(i) = Offset(i) + Packet(bytes[Offset(i) + 3]) /\ End(i) <= Len(bytes)
         /\ bytes[Offset(i) + 1] = "S" /\ bytes[Offset(i) + 2] = "B"
         /\ bytes[Offset(i) + 3] \in {"1", "2"}
<1> DEFINE k == items[i]
<1>1. /\ Offset(i) \in Nat /\ End(i) <= Len(bytes) /\ Len(Shape[k]) \in 1..6
      /\ \A n \in 1..Len(Shape[k]) : bytes[Offset(i) + n] = Shape[k][n]
  BY Layout
<1>2. /\ Shape[k][1] = "S" /\ Shape[k][2] = "B" /\ Len(Shape[k]) = Packet(Shape[k][3])
      /\ Len(Shape[k]) >= 3 /\ Shape[k][3] \in {"1", "2"}
  BY UbxShape
<1>3. 1 \in 1..Len(Shape[k]) /\ 2 \in 1..Len(Shape[k]) /\ 3 \in 1..Len(Shape[k])
  BY <1>1, <1>2
<1>4. /\ bytes[Offset(i) + 1] = Shape[k][1] /\ bytes[Offset(i) + 2] = Shape[k][2]
      /\ bytes[Offset(i) + 3] = Shape[k][3]
  BY <1>1, <1>3
<1>5. End(i) = Offset(i) + Len(Shape[k])
  BY DEF End
<1> QED
  BY <1>1, <1>2, <1>4, <1>5

(* Whatever looks like a packet's beginning is the beginning of an item.   *)
LEMMA SyncAt ==
  ASSUME Laid, NEW p \in Nat, p + 1 \in 1..Len(bytes), bytes[p + 1] = "B"
  PROVE  \E j \in DOMAIN items :
           /\ Offset(j) \in Nat /\ p = Offset(j) + 1
           /\ items[j] \in {"ubx", "binary", "broken", "torn", "huge"}
           /\ items[j] = "broken" => bytes[p + 2] = "1" /\ End(j) = Offset(j) + Packet(bytes[p + 2])
           /\ items[j] = "torn" => bytes[p + 2] = "2"
           /\ items[j] = "huge" => bytes[p + 2] = "9"
<1>1. PICK j \in DOMAIN items : \E n \in 1..Len(Shape[items[j]]) : p + 1 = Offset(j) + n
  BY Layout
<1>2. PICK n \in 1..Len(Shape[items[j]]) : p + 1 = Offset(j) + n
  BY <1>1
<1> DEFINE k == items[j]
<1>3. /\ k \in DOMAIN Shape /\ Offset(j) \in Nat /\ Len(Shape[k]) \in 1..6
      /\ \A m \in 1..Len(Shape[k]) : bytes[Offset(j) + m] = Shape[k][m]
  BY Layout
<1>4. Shape[k][n] = "B"
  BY <1>2, <1>3
<1>5. /\ n = 2 /\ k \in {"ubx", "binary", "broken", "torn", "huge"} /\ Len(Shape[k]) >= 3
      /\ k = "broken" => Shape[k][3] = "1" /\ Len(Shape[k]) = Packet("1")
      /\ k = "torn" => Shape[k][3] = "2"
      /\ k = "huge" => Shape[k][3] = "9"
  BY <1>3, <1>4, SyncShape
<1>6. p = Offset(j) + 1 /\ p + 2 = Offset(j) + 3 /\ 3 \in 1..Len(Shape[k])
  BY <1>2, <1>3, <1>5
<1>7. bytes[p + 2] = Shape[k][3]
  BY <1>3, <1>6
<1>8. End(j) = Offset(j) + Len(Shape[k])
  BY DEF End
<1> QED
  BY <1>3, <1>5, <1>6, <1>7, <1>8

-----------------------------------------------------------------------------
(* A frame that is neither reported nor lost to a torn packet is not yet   *)
(* out of the buffer.                                                      *)
Awaited(i) == items[i] \in Frames /\ ~Swallowed(i) /\ i \notin out
Unconsumed == \A i \in DOMAIN items : Awaited(i) => at <= Offset(i)

FramingInv == Laid /\ FramingTypeOK /\ Unconsumed /\ FrameIsFound

(* The places of the buffer.                                               *)
LEMMA BufferType ==
  ASSUME Laid, FramingTypeOK
  PROVE  /\ Len(bytes) \in Nat /\ fed \in Nat /\ at \in Nat /\ at <= fed /\ fed <= Len(bytes)
         /\ Starts \in SUBSET (0..fed)
         /\ \A p \in Starts : at + 1 <= p
<1>1. Len(bytes) \in Nat
  BY Layout
<1>2. fed \in Nat /\ at \in Nat /\ at <= fed /\ fed <= Len(bytes)
  BY <1>1 DEF FramingTypeOK
<1>3. Starts \in SUBSET (0..fed) /\ \A p \in Starts : at + 1 <= p
  BY <1>2 DEF Starts, Syncs, Dollars
<1> QED
  BY <1>1, <1>2, <1>3

(* What feed finds in it.                                                  *)
LEMMA Scanned ==
  ASSUME Laid, FramingTypeOK, Starts # {}
  PROVE  /\ Start \in Starts /\ Start \in Nat /\ at + 1 <= Start /\ Start <= fed
         /\ \A p \in Starts : Start <= p
         /\ Further # {} => /\ Min(Further) \in Further /\ Min(Further) \in Nat
                            /\ Start < Min(Further) /\ Min(Further) <= fed
                            /\ \A p \in Further : Min(Further) <= p
         /\ Lines # {} => /\ Min(Lines) \in Lines /\ Min(Lines) \in Nat
                          /\ Start <= Min(Lines) /\ Min(Lines) <= fed
                          /\ \A p \in Lines : Min(Lines) <= p
<1>1. fed \in Nat /\ Starts \in SUBSET (0..fed) /\ \A p \in Starts : at + 1 <= p
  BY BufferType
<1>2. Start \in Starts /\ \A p \in Starts : Start <= p
  BY <1>1, MinIsLeast DEF Start
<1>3. Start \in Nat /\ Start <= fed
  BY <1>1, <1>2
<1>4. Further \in SUBSET (0..fed) /\ \A p \in Further : Start < p
  <2>1. ASSUME NEW p \in Further
        PROVE  p \in 0..fed /\ Start < p
    <3>1. p \in Starts /\ p # Start
      BY DEF Further
    <3>2. p \in 0..fed /\ Start <= p
      BY <1>1, <1>2, <3>1
    <3> QED
      BY <1>3, <3>1, <3>2
  <2> QED
    BY <2>1
<1>5. Further # {} => Min(Further) \in Further /\ \A p \in Further : Min(Further) <= p
  BY <1>1, <1>4, MinIsLeast
<1>6. Lines \in SUBSET (0..fed) /\ \A p \in Lines : Start <= p
  BY <1>1, <1>3 DEF Lines
<1>7. Lines # {} => Min(Lines) \in Lines /\ \A p \in Lines : Min(Lines) <= p
  BY <1>1, <1>6, MinIsLeast
<1>8. ASSUME Further # {}
      PROVE  Min(Further) \in Nat /\ Start < Min(Further) /\ Min(Further) <= fed
  <2>1. Min(Further) \in 0..fed /\ Start < Min(Further)
    BY <1>4, <1>5, <1>8
  <2> QED
    BY <1>1, <2>1
<1>9. ASSUME Lines # {}
      PROVE  Min(Lines) \in Nat /\ Start <= Min(Lines) /\ Min(Lines) <= fed
  <2>1. Min(Lines) \in 0..fed /\ Start <= Min(Lines)
    BY <1>6, <1>7, <1>9
  <2> QED
    BY <1>1, <2>1
<1> QED
  BY <1>1, <1>2, <1>3, <1>5, <1>7, <1>8, <1>9

(* A frame in the buffer is seen as soon as its first two bytes are there. *)
LEMMA FrameSeen ==
  ASSUME Laid, FramingTypeOK, NEW i \in DOMAIN items, items[i] \in Frames, at <= Offset(i)
  PROVE  /\ Offset(i) \in Nat /\ Offset(i) + 3 <= End(i) /\ End(i) <= Len(bytes) /\ End(i) \in Nat
         /\ bytes[Offset(i) + 1] # "n"
         /\ Offset(i) + 2 <= fed => Offset(i) + 1 \in Starts
         /\ Offset(i) + 1 <= fed => Offset(i) + 1 \in Starts \/ bytes[Offset(i) + 1] = "S"
<1>1. Len(bytes) \in Nat /\ fed \in Nat /\ at \in Nat /\ at <= fed /\ fed <= Len(bytes)
  BY BufferType
<1>2. CASE items[i] = "nmea"
  <2>1. /\ Offset(i) \in Nat /\ End(i) = Offset(i) + 3 /\ End(i) <= Len(bytes)
        /\ bytes[Offset(i) + 1] = "$"
    BY <1>2, NmeaAt
  <2>2. Offset(i) + 1 <= fed => Offset(i) + 1 \in (at + 1)..fed
    BY <1>1, <2>1
  <2>3. Offset(i) + 1 <= fed => Offset(i) + 1 \in Starts
    BY <2>1, <2>2 DEF Starts, Dollars
  <2>4. Offset(i) + 2 <= fed => Offset(i) + 1 <= fed
    BY <1>1, <2>1
  <2>5. End(i) \in Nat /\ Offset(i) + 3 <= End(i)
    BY <2>1
  <2> QED
    BY <2>1, <2>3, <2>4, <2>5
<1>3. CASE items[i] \in {"ubx", "binary"}
  <2>1. /\ Offset(i) \in Nat /\ End(i) = Offset(i) + Packet(bytes[Offset(i) + 3]) /\ End(i) <= Len(bytes)
        /\ bytes[Offset(i) + 1] = "S" /\ bytes[Offset(i) + 2] = "B"
    BY <1>3, UbxAt
  <2>2. Packet(bytes[Offset(i) + 3]) \in {5, 6, 13}
    BY DEF Packet, Length
  <2>3. End(i) \in Nat /\ Offset(i) + 3 <= End(i)
    BY <2>1, <2>2
  <2>4. ASSUME Offset(i) + 2 <= fed
        PROVE  Offset(i) + 1 \in Starts
    <3>1. Offset(i) + 1 \in (at + 1)..(fed - 1) /\ (Offset(i) + 1) + 1 = Offset(i) + 2
      BY <1>1, <2>1, <2>4
    <3> QED
      BY <2>1, <3>1 DEF Starts, Syncs
  <2> QED
    BY <2>1, <2>3, <2>4
<1> QED
  BY <1>2, <1>3 DEF Frames

(* So nothing that feed turns to lies behind such a frame's beginning.     *)
LEMMA StartBefore ==
  ASSUME Laid, FramingTypeOK, NEW i \in DOMAIN items, items[i] \in Frames, at <= Offset(i),
         Starts # {}
  PROVE  /\ Start <= Offset(i) + 1
         /\ Start # Offset(i) + 1 /\ Offset(i) + 2 <= fed => Offset(i) + 1 \in Further
<1>1. /\ Offset(i) \in Nat
      /\ Offset(i) + 2 <= fed => Offset(i) + 1 \in Starts
  BY FrameSeen
<1>2. fed \in Nat /\ Start \in Nat /\ Start <= fed /\ \A p \in Starts : Start <= p
  BY Scanned, BufferType
<1>3. CASE Offset(i) + 2 <= fed
  BY <1>1, <1>2, <1>3 DEF Further
<1>4. CASE ~ (Offset(i) + 2 <= fed)
  <2>1. fed <= Offset(i) + 1
    BY <1>1, <1>2, <1>4
  <2> QED
    BY <1>1, <1>2, <1>4, <2>1
<1> QED
  BY <1>3, <1>4

-----------------------------------------------------------------------------
(* What a length byte announces, and which lengths are rejected.           *)
LEMMA PacketLength ==
  ASSUME NEW b
  PROVE  /\ Length(b) \in {1, 2, 9} /\ Packet(b) = Length(b) + 4
         /\ b \in {"1", "2"} => Length(b) <= MaxPayload
         /\ b = "9" => Length(b) > MaxPayload
  BY FramingAssumption DEF Length, Packet

(* A packet at the start of the buffer is the frame, or ends before it.    *)
LEMMA PacketAtStart ==
  ASSUME Laid, FramingTypeOK, NEW i \in DOMAIN items, Awaited(i), at <= Offset(i),
         AtSync, Have >= 3, ~TooLong
  PROVE  LET to == Start - 1 + Packet(bytes[Start + 2])
         IN  to <= Offset(i) \/ (Offset(i) = Start - 1 /\ End(i) = to)
<1>1. /\ Start \in Nat /\ Start <= fed /\ fed \in Nat /\ fed <= Len(bytes) /\ Len(bytes) \in Nat
      /\ at + 1 <= Start /\ at \in Nat
  BY Scanned, BufferType DEF AtSync
<1>2. Start <= Offset(i) + 1 /\ Offset(i) \in Nat /\ Offset(i) + 3 <= End(i) /\ End(i) \in Nat
  BY StartBefore, FrameSeen DEF Awaited, AtSync
<1>3. Start + 2 <= fed
  BY <1>1 DEF Have
<1>4. bytes[Start + 1] = "B" /\ Start + 1 \in 1..Len(bytes)
  <2>1. bytes[Start + 1] = "B"
    BY DEF AtSync, Syncs
  <2>2. Start + 1 \in 1..Len(bytes)
    BY <1>1, <1>3
  <2> QED
    BY <2>1, <2>2
<1>5. PICK j \in DOMAIN items :
        /\ Offset(j) \in Nat /\ Start = Offset(j) + 1
        /\ items[j] \in {"ubx", "binary", "broken", "torn", "huge"}
        /\ items[j] = "broken" => bytes[Start + 2] = "1" /\ End(j) = Offset(j) + Packet(bytes[Start + 2])
        /\ items[j] = "torn" => bytes[Start + 2] = "2"
        /\ items[j] = "huge" => bytes[Start + 2] = "9"
  BY <1>1, <1>4, SyncAt
<1>6. items[j] # "huge"
  BY <1>5, PacketLength DEF TooLong
<1>7. items[j] \in {"ubx", "binary", "broken"} => End(j) = Start - 1 + Packet(bytes[Start + 2])
  <2>1. Start - 1 = Offset(j) /\ Start + 2 = Offset(j) + 3
    BY <1>5
  <2>2. CASE items[j] \in {"ubx", "binary"}
    BY <2>1, <2>2, UbxAt
  <2>3. CASE items[j] = "broken"
    BY <1>5, <2>1, <2>3
  <2> QED
    BY <2>2, <2>3
<1>8. CASE i = j
  <2>1. items[j] \in {"ubx", "binary"}
    BY <1>5, <1>8 DEF Awaited, Frames
  <2>2. Offset(i) = Start - 1
    BY <1>5, <1>8
  <2> QED
    BY <1>7, <1>8, <2>1, <2>2
<1>9. CASE i # j
  <2>1. i \in Nat /\ j \in Nat
    BY DEF Laid
  <2>2. ~ (i < j)
    <3>1. i < j => End(i) <= Offset(j)
      BY Layout
    <3> QED
      BY <1>2, <1>5, <3>1
  <2>3. j < i
    BY <1>9, <2>1, <2>2
  <2>4. CASE items[j] = "torn"
    <3>1. j \in 1..(i - 1)
      <4>1. j \in 1..Len(items) /\ Len(items) \in Nat
        BY DEF Laid
      <4> QED
        BY <2>1, <2>3, <4>1
    <3>2. ~ (Offset(i) < Offset(j) + Packet("2"))
      BY <2>4, <3>1 DEF Awaited, Swallowed
    <3>3. bytes[Start + 2] = "2" /\ Packet("2") \in Nat
      BY <1>5, <2>4, PacketLength
    <3>4. Start - 1 + Packet(bytes[Start + 2]) <= Offset(i)
      BY <1>2, <1>5, <3>2, <3>3
    <3> QED
      BY <3>4
  <2>5. CASE items[j] # "torn"
    <3>1. End(j) <= Offset(i)
      BY <2>3, Layout
    <3> QED
      BY <1>5, <1>6, <1>7, <2>5, <3>1
  <2> QED
    BY <2>4, <2>5
<1> QED
  BY <1>8, <1>9

(* A line at the start of the buffer.                                      *)
LEMMA LineAtStart ==
  ASSUME Laid, FramingTypeOK, NEW i \in DOMAIN items, Awaited(i), at <= Offset(i),
         AtDollar, Start = Offset(i) + 1
  PROVE  /\ End(i) = Start + 2 /\ bytes[Start + 1] = "x" /\ bytes[Start] = "$"
         /\ Start + 2 <= fed => Start + 2 \in Lines
<1>1. /\ Start \in Nat /\ Start <= fed /\ fed \in Nat
  BY Scanned, BufferType DEF AtDollar
<1>2. bytes[Start] = "$"
  BY DEF AtDollar, Dollars
<1>3. items[i] = "nmea"
  <2>1. items[i] \in {"ubx", "binary"} => bytes[Offset(i) + 1] = "S"
    BY UbxAt
  <2> QED
    BY <1>2, <2>1 DEF Awaited, Frames
<1>4. /\ Offset(i) \in Nat /\ End(i) = Offset(i) + 3
      /\ bytes[Offset(i) + 2] = "x" /\ bytes[Offset(i) + 3] = "n"
  BY <1>3, NmeaAt
<1>5. Offset(i) + 2 = Start + 1 /\ Offset(i) + 3 = Start + 2
  BY <1>4
<1>6. Start + 2 <= fed => Start + 2 \in Start..fed
  BY <1>1
<1> QED
  BY <1>2, <1>4, <1>5, <1>6 DEF Lines

(* A line that is taken, or noise that is skipped up to the next start,    *)
(* ends before the frame begins when it is not the frame itself.           *)
LEMMA FurtherBefore ==
  ASSUME Laid, FramingTypeOK, NEW i \in DOMAIN items, Awaited(i), at <= Offset(i),
         Starts # {}, Start # Offset(i) + 1, Further # {}
  PROVE  Min(Further) - 1 <= Offset(i)
<1>1. Offset(i) \in Nat /\ (Offset(i) + 2 <= fed => Offset(i) + 1 \in Further)
  BY FrameSeen, StartBefore DEF Awaited
<1>2. Min(Further) \in Nat /\ Min(Further) <= fed /\ fed \in Nat /\ \A p \in Further : Min(Further) <= p
  BY Scanned, BufferType
<1>3. CASE Offset(i) + 2 <= fed
  BY <1>1, <1>2, <1>3
<1>4. CASE ~ (Offset(i) + 2 <= fed)
  BY <1>1, <1>2, <1>4
<1> QED
  BY <1>3, <1>4

-----------------------------------------------------------------------------
(* Returning leaves the frame in the buffer, half of its sync bytes, too.  *)
LEMMA ReturnKeeps ==
  ASSUME Laid, FramingTypeOK, NEW i \in DOMAIN items, Awaited(i), at <= Offset(i),
         BufferEmpty \/ NoStart \/ ShortHeader \/ ShortPacket \/ ShortLine
  PROVE  at' <= Offset(i)
<1>1. fed \in Nat /\ at \in Nat
  BY BufferType
<1>2. /\ Offset(i) \in Nat
      /\ Offset(i) + 1 <= fed => Offset(i) + 1 \in Starts \/ bytes[Offset(i) + 1] = "S"
      /\ Offset(i) + 2 <= fed => Offset(i) + 1 \in Starts
  BY FrameSeen DEF Awaited
<1>3. CASE BufferEmpty
  BY <1>3 DEF BufferEmpty, Break
<1>4. CASE NoStart
  <2>1. at' = TailLeft /\ Starts = {}
    BY <1>4 DEF NoStart, Break
  <2>2. fed <= Offset(i) + 1
    BY <1>1, <1>2, <2>1
  <2>3. CASE fed = Offset(i) + 1
    <3>1. bytes[fed] = "S"
      BY <1>2, <2>1, <2>3
    <3> QED
      BY <1>1, <1>2, <2>1, <2>3, <3>1 DEF TailLeft
  <2>4. CASE fed # Offset(i) + 1
    <3>1. fed <= Offset(i) /\ TailLeft \in {fed, fed - 1}
      BY <1>1, <1>2, <2>2, <2>4 DEF TailLeft
    <3> QED
      BY <1>1, <1>2, <2>1, <3>1
  <2> QED
    BY <2>3, <2>4
<1>5. CASE ShortHeader \/ ShortPacket \/ ShortLine
  <2>1. Starts # {} /\ at' = Start - 1
    BY <1>5 DEF ShortHeader, ShortPacket, ShortLine, AtSync, AtDollar, Break
  <2>2. Start <= Offset(i) + 1 /\ Start \in Nat
    BY <2>1, StartBefore, Scanned DEF Awaited
  <2> QED
    BY <1>2, <2>1, <2>2
<1> QED
  BY <1>3, <1>4, <1>5

(* The length of a frame is never too long, so what is rejected begins     *)
(* before it.                                                              *)
LEMMA RejectKeeps ==
  ASSUME Laid, FramingTypeOK, NEW i \in DOMAIN items, Awaited(i), at <= Offset(i), RejectLength
  PROVE  at' <= Offset(i)
<1>1. AtSync /\ TooLong /\ at' = Start
  BY DEF RejectLength, GoOn, AfterReject
<1>2. Start <= Offset(i) + 1 /\ Start \in Nat /\ Offset(i) \in Nat
  BY <1>1, StartBefore, Scanned, FrameSeen DEF Awaited, AtSync
<1>3. ASSUME Start = Offset(i) + 1
      PROVE  FALSE
  <2>1. bytes[Offset(i) + 1] = "S"
    BY <1>1, <1>3 DEF AtSync, Syncs
  <2>2. items[i] \in {"ubx", "binary"}
    BY <2>1, NmeaAt DEF Awaited, Frames
  <2>3. bytes[Start + 2] \in {"1", "2"}
    <3>1. Offset(i) + 3 = Start + 2
      BY <1>2, <1>3
    <3> QED
      BY <2>2, <3>1, UbxAt
  <2>4. Length(bytes[Start + 2]) <= MaxPayload /\ Length(bytes[Start + 2]) \in Nat
    BY <2>3, PacketLength
  <2> QED
    BY <1>1, <2>4, FramingAssumption DEF TooLong
<1> QED
  BY <1>1, <1>2, <1>3

(* A packet that is taken is the frame, or ends before the frame begins.   *)
LEMMA PacketKeeps ==
  ASSUME Laid, FramingTypeOK, NEW i \in DOMAIN items, Awaited(i), at <= Offset(i), TakePacket
  PROVE  i \in out' \/ at' <= Offset(i)
<1> DEFINE to == Start - 1 + Packet(bytes[Start + 2])
<1>1. AtSync /\ Have >= 3 /\ ~TooLong /\ at' = to /\ Report(Start - 1, to)
  BY DEF TakePacket, GoOn
<1>2. to <= Offset(i) \/ (Offset(i) = Start - 1 /\ End(i) = to)
  BY <1>1, PacketAtStart
<1>3. Offset(i) = Start - 1 /\ End(i) = to => i \in out'
  BY <1>1 DEF Report, Awaited
<1> QED
  BY <1>1, <1>2, <1>3

(* No start comes between the dollar of a frame and the end of its line.   *)
LEMMA NoiseKeeps ==
  ASSUME Laid, FramingTypeOK, NEW i \in DOMAIN items, Awaited(i), at <= Offset(i), NoiseDollar
  PROVE  at' <= Offset(i)
<1>1. /\ AtDollar /\ Starts # {} /\ Further # {} /\ at' = Min(Further) - 1
      /\ \A l \in Lines : Min(Further) < l
  BY DEF NoiseDollar, GoOn, FurtherFirst, AtDollar
<1>2. Start # Offset(i) + 1
  <2> SUFFICES ASSUME Start = Offset(i) + 1 PROVE FALSE
    OBVIOUS
  <2>1. /\ bytes[Start + 1] = "x"
        /\ Start + 2 <= fed => Start + 2 \in Lines
    BY <1>1, LineAtStart
  <2>2. /\ Min(Further) \in Further /\ Min(Further) \in Nat /\ Start \in Nat /\ fed \in Nat
        /\ Start < Min(Further) /\ Min(Further) <= fed
    BY <1>1, Scanned, BufferType
  <2>3. bytes[Min(Further)] \in {"S", "$"}
    BY <2>2 DEF Further, Starts, Syncs, Dollars
  <2>4. Min(Further) # Start + 1
    BY <2>1, <2>3
  <2>5. Start + 2 <= Min(Further) /\ Start + 2 <= fed
    BY <2>2, <2>4
  <2>6. Min(Further) < Start + 2
    BY <1>1, <2>1, <2>5
  <2> QED
    BY <2>2, <2>5, <2>6
<1> QED
  BY <1>1, <1>2, FurtherBefore

(* A frame's line ends before it is too long.                              *)
LEMMA LongLineKeeps ==
  ASSUME Laid, FramingTypeOK, NEW i \in DOMAIN items, Awaited(i), at <= Offset(i), LongLine
  PROVE  at' <= Offset(i)
<1>1. AtDollar /\ Starts # {} /\ Lines = {} /\ Have > MaxLine /\ at' = Start
  BY DEF LongLine, GoOn, AtDollar
<1>2. Start <= Offset(i) + 1 /\ Start \in Nat /\ Offset(i) \in Nat /\ fed \in Nat
  BY <1>1, StartBefore, Scanned, FrameSeen, BufferType DEF Awaited
<1>3. ASSUME Start = Offset(i) + 1
      PROVE  FALSE
  <2>1. ~ (Start + 2 <= fed)
    BY <1>1, <1>3, LineAtStart
  <2>2. Have <= 2 /\ Have \in Int
    BY <1>2, <2>1 DEF Have
  <2> QED
    BY <1>1, <2>2, FramingAssumption
<1> QED
  BY <1>1, <1>2, <1>3

(* A line that is taken is the frame, or ends before the frame begins: the *)
(* frame's own start would have come first.                                *)
LEMMA LineKeeps ==
  ASSUME Laid, FramingTypeOK, NEW i \in DOMAIN items, Awaited(i), at <= Offset(i), TakeLine
  PROVE  i \in out' \/ at' <= Offset(i)
<1>1. /\ AtDollar /\ Starts # {} /\ ~FurtherFirst /\ Lines # {}
      /\ at' = Min(Lines) /\ Report(Start - 1, Min(Lines))
  BY DEF TakeLine, GoOn, AtDollar
<1>2. /\ Start \in Nat /\ fed \in Nat
      /\ Min(Lines) \in Lines /\ Min(Lines) \in Nat /\ Start <= Min(Lines) /\ Min(Lines) <= fed
      /\ \A l \in Lines : Min(Lines) <= l
      /\ Further # {} => Min(Further) \in Nat /\ \A p \in Further : Min(Further) <= p
  BY <1>1, Scanned, BufferType
<1>3. bytes[Min(Lines)] = "n"
  BY <1>2 DEF Lines
<1>4. /\ Offset(i) \in Nat /\ bytes[Offset(i) + 1] # "n"
      /\ Start <= Offset(i) + 1
      /\ Start # Offset(i) + 1 /\ Offset(i) + 2 <= fed => Offset(i) + 1 \in Further
  BY <1>1, FrameSeen, StartBefore DEF Awaited
<1>5. CASE Start = Offset(i) + 1
  <2>1. /\ End(i) = Start + 2 /\ bytes[Start + 1] = "x" /\ bytes[Start] = "$"
        /\ Start + 2 <= fed => Start + 2 \in Lines
    BY <1>1, <1>5, LineAtStart
  <2>2. Min(Lines) # Start /\ Min(Lines) # Start + 1
    BY <1>3, <2>1
  <2>3. Start + 2 <= Min(Lines) /\ Start + 2 <= fed
    BY <1>2, <2>2
  <2>4. Min(Lines) <= Start + 2
    BY <1>2, <2>1, <2>3
  <2>5. Min(Lines) = Start + 2
    BY <1>2, <2>3, <2>4
  <2>6. Offset(i) = Start - 1 /\ End(i) = Min(Lines)
    BY <1>4, <1>5, <2>1, <2>5
  <2> QED
    BY <1>1, <2>6 DEF Report, Awaited
<1>6. CASE Start # Offset(i) + 1
  <2> SUFFICES ASSUME ~ (Min(Lines) <= Offset(i)) PROVE FALSE
    BY <1>1
  <2>1. Min(Lines) # Offset(i) + 1
    BY <1>3, <1>4
  <2>2. Offset(i) + 2 <= Min(Lines) /\ Offset(i) + 2 <= fed
    BY <1>2, <1>4, <2>1
  <2>3. Offset(i) + 1 \in Further /\ Further # {}
    BY <1>4, <1>6, <2>2
  <2>4. Min(Further) <= Offset(i) + 1 /\ Min(Further) \in Nat
    BY <1>2, <2>3
  <2>5. PICK l \in Lines : ~ (Min(Further) < l)
    BY <1>1, <2>3 DEF FurtherFirst
  <2>6. Min(Lines) <= l /\ l \in Nat
    <3>1. l \in Start..fed
      BY DEF Lines
    <3> QED
      BY <1>2, <2>5, <3>1
  <2> QED
    BY <1>2, <1>4, <2>2, <2>4, <2>5, <2>6
<1> QED
  BY <1>5, <1>6

-----------------------------------------------------------------------------
(* feed does not return while a whole frame waits.                         *)
LEMMA NoneWaits ==
  ASSUME Laid, FramingTypeOK, NEW i \in DOMAIN items, Awaited(i), at <= Offset(i), End(i) <= fed
  PROVE  ~ (BufferEmpty \/ NoStart \/ ShortHeader \/ ShortPacket \/ ShortLine)
<1>1. /\ Offset(i) \in Nat /\ Offset(i) + 3 <= End(i) /\ End(i) \in Nat /\ fed \in Nat /\ at \in Nat
      /\ Offset(i) + 2 <= fed => Offset(i) + 1 \in Starts
  BY FrameSeen, BufferType DEF Awaited
<1>2. Offset(i) + 3 <= fed /\ Offset(i) + 2 <= fed /\ at # fed
  BY <1>1
<1>3. Starts # {}
  BY <1>1, <1>2
<1>4. /\ Start \in Nat /\ Start <= Offset(i) + 1
      /\ Start # Offset(i) + 1 => Further # {}
  BY <1>2, <1>3, StartBefore, Scanned DEF Awaited
<1>5. ~BufferEmpty /\ ~NoStart
  BY <1>2, <1>3 DEF BufferEmpty, NoStart
<1>6. ~ShortHeader
  <2>1. ~ (Have < 3)
    BY <1>1, <1>2, <1>4 DEF Have
  <2> QED
    BY <2>1 DEF ShortHeader
<1>7. ASSUME ShortPacket
      PROVE  FALSE
  <2>1. AtSync /\ Have >= 3 /\ ~TooLong /\ Have < Packet(bytes[Start + 2])
    BY <1>7 DEF ShortPacket
  <2> DEFINE to == Start - 1 + Packet(bytes[Start + 2])
  <2>2. to <= Offset(i) \/ (Offset(i) = Start - 1 /\ End(i) = to)
    BY <2>1, PacketAtStart
  <2>3. Packet(bytes[Start + 2]) \in Nat
    BY PacketLength
  <2>4. fed < to
    BY <1>1, <1>4, <2>1, <2>3 DEF Have
  <2>5. to \in Int
    BY <1>4, <2>3
  <2> HIDE DEF to
  <2> QED
    BY <1>1, <1>2, <2>2, <2>4, <2>5
<1>8. ASSUME ShortLine
      PROVE  FALSE
  <2>1. AtDollar /\ ~FurtherFirst /\ Lines = {}
    BY <1>8 DEF ShortLine
  <2>2. Start = Offset(i) + 1
    BY <1>4, <2>1 DEF FurtherFirst
  <2>3. Start + 2 <= fed => Start + 2 \in Lines
    BY <2>1, <2>2, LineAtStart
  <2> QED
    BY <1>1, <1>2, <2>1, <2>2, <2>3
<1> QED
  BY <1>5, <1>6, <1>7, <1>8

-----------------------------------------------------------------------------
(* Nothing in the stream changes, nor where its items are.                 *)
LEMMA ItemsStay ==
  ASSUME items' = items, bytes' = bytes, Laid
  PROVE  /\ Laid'
         /\ \A i : (Offset(i))' = Offset(i) /\ (End(i))' = End(i) /\ (Swallowed(i) <=> (Swallowed(i))')
<1>1. Laid'
  BY DEF Laid
<1>2. \A i : (Offset(i))' = Offset(i)
  BY DEF Offset
<1>3. \A i : (End(i))' = End(i)
  BY <1>2 DEF End
<1>4. \A i : Swallowed(i) <=> (Swallowed(i))'
  BY <1>2 DEF Swallowed
<1> QED
  BY <1>1, <1>2, <1>3, <1>4

(* The bound of the buffer between two calls is the larger of two.         *)
LEMMA BoundType ==
  ASSUME NEW h
  PROVE  /\ h \in Nat /\ h <= MaxLine => h <= Max({MaxLine, MaxPayload + 3})
         /\ h \in Nat /\ h <= MaxPayload + 3 => h <= Max({MaxLine, MaxPayload + 3})
<1> DEFINE T == {MaxLine, MaxPayload + 3}
<1>1. MaxLine \in Nat /\ MaxPayload + 3 \in Nat
  BY FramingAssumption
<1>2. \E x \in T : \A y \in T : x >= y
  BY <1>1
<1>3. Max(T) \in T /\ \A y \in T : Max(T) >= y
  BY <1>2 DEF Max
<1>4. Max(T) \in Nat /\ Max(T) >= MaxLine /\ Max(T) >= MaxPayload + 3
  BY <1>1, <1>3
<1> HIDE DEF T
<1>5. /\ h \in Nat /\ h <= MaxLine => h <= Max(T)
      /\ h \in Nat /\ h <= MaxPayload + 3 => h <= Max(T)
  BY <1>1, <1>4
<1> QED
  BY <1>5 DEF T

LEMMA RestIsNat ==
  ASSUME NEW a \in Nat, NEW b \in Nat, b <= a
  PROVE  a - b \in Nat
  OBVIOUS

(* Every iteration keeps the type, and returns only with a short buffer.   *)
LEMMA IterationType ==
  ASSUME Laid, FramingTypeOK, Iteration
  PROVE  FramingTypeOK' /\ items' = items /\ bytes' = bytes /\ fed' = fed
<1>1. /\ Len(bytes) \in Nat /\ fed \in Nat /\ at \in Nat /\ at <= fed /\ fed <= Len(bytes)
  BY BufferType
<1>2. MaxLine \in Nat /\ MaxPayload \in Nat /\ 2 <= MaxPayload /\ MaxLine >= 3
  BY FramingAssumption
<1>3. Starts # {} => Start \in Nat /\ at + 1 <= Start /\ Start <= fed
  BY Scanned
<1>4. ASSUME items' = items, bytes' = bytes, fed' = fed, out' \subseteq DOMAIN items,
             at' \in Nat, at' <= fed, stage' \in {"idle", "parse"},
             stage' = "idle" => fed - at' <= MaxLine \/ fed - at' <= MaxPayload + 3
      PROVE  FramingTypeOK'
  <2>1. fed - at' \in Nat
    <3>1. fed \in Nat /\ at' \in Nat /\ at' <= fed
      BY <1>1, <1>4
    <3> QED
      BY <3>1, RestIsNat
  <2>2. stage' = "idle" => fed' - at' <= Max({MaxLine, MaxPayload + 3})
    BY <1>4, <2>1, BoundType
  <2>3. fed' \in 0..Len(bytes') /\ at' \in 0..fed'
    BY <1>1, <1>4
  <2>4. items' \in Seq(Items)
    BY <1>4 DEF FramingTypeOK
  <2> QED
    BY <1>4, <2>2, <2>3, <2>4 DEF FramingTypeOK
<1>5. out \subseteq DOMAIN items /\ stage \in {"idle", "parse"}
  BY DEF FramingTypeOK
<1>6. CASE BufferEmpty
  <2>1. at' = fed /\ stage' = "idle" /\ UNCHANGED <<items, bytes, fed, out>>
    BY <1>6 DEF BufferEmpty, Break
  <2>2. fed - at' <= MaxLine
    BY <1>1, <1>2, <2>1
  <2> QED
    BY <1>1, <1>4, <1>5, <2>1, <2>2
<1>7. CASE NoStart
  <2>1. at' = TailLeft /\ at < fed /\ stage' = "idle" /\ UNCHANGED <<items, bytes, fed, out>>
    BY <1>7 DEF NoStart, Break
  <2>2. TailLeft \in {fed, fed - 1}
    BY DEF TailLeft
  <2>3. at' \in Nat /\ at' <= fed /\ fed - at' <= MaxLine
    BY <1>1, <1>2, <2>1, <2>2
  <2> QED
    BY <1>4, <1>5, <2>1, <2>3
<1>8. CASE ShortHeader
  <2>1. Starts # {} /\ Have < 3 /\ at' = Start - 1 /\ stage' = "idle" /\ UNCHANGED <<items, bytes, fed, out>>
    BY <1>8 DEF ShortHeader, Break, AtSync
  <2>2. at' \in Nat /\ at' <= fed /\ fed - at' <= MaxLine
    BY <1>1, <1>2, <1>3, <2>1 DEF Have
  <2> QED
    BY <1>4, <1>5, <2>1, <2>2
<1>9. CASE RejectLength
  <2>1. Starts # {} /\ at' = Start /\ UNCHANGED <<items, bytes, fed, stage, out>>
    BY <1>9 DEF RejectLength, GoOn, AfterReject, AtSync
  <2>2. stage' = "parse"
    BY <2>1 DEF Iteration
  <2> QED
    BY <1>1, <1>3, <1>4, <1>5, <2>1, <2>2
<1>10. CASE ShortPacket
  <2>1. /\ Starts # {} /\ ~TooLong /\ Have < Packet(bytes[Start + 2]) /\ at' = Start - 1
        /\ stage' = "idle" /\ UNCHANGED <<items, bytes, fed, out>>
    BY <1>10 DEF ShortPacket, Break, AtSync
  <2>2. /\ Length(bytes[Start + 2]) \in Nat /\ Packet(bytes[Start + 2]) = Length(bytes[Start + 2]) + 4
        /\ ~ (Length(bytes[Start + 2]) > MaxPayload)
    BY <2>1, PacketLength DEF TooLong
  <2>3. at' \in Nat /\ at' <= fed /\ fed - at' = Have
    BY <1>1, <1>3, <2>1 DEF Have
  <2>4. Have <= MaxPayload + 3
    BY <1>1, <1>2, <1>3, <2>1, <2>2 DEF Have
  <2> QED
    BY <1>4, <1>5, <2>1, <2>3, <2>4
<1>11. CASE TakePacket
  <2> DEFINE to == Start - 1 + Packet(bytes[Start + 2])
  <2>1. /\ Starts # {} /\ Have >= Packet(bytes[Start + 2]) /\ at' = to
        /\ UNCHANGED <<items, bytes, fed, stage>> /\ Report(Start - 1, to)
    BY <1>11 DEF TakePacket, GoOn, AtSync
  <2>2. stage' = "parse"
    BY <2>1 DEF Iteration
  <2>3. out' \subseteq DOMAIN items
    BY <1>5, <2>1 DEF Report
  <2>4. Packet(bytes[Start + 2]) \in Nat
    BY PacketLength
  <2>5. to \in Nat /\ to <= fed
    BY <1>1, <1>3, <2>1, <2>4 DEF Have
  <2> HIDE DEF to
  <2> QED
    BY <1>4, <2>1, <2>2, <2>3, <2>5
<1>12. CASE NoiseDollar
  <2>1. /\ Starts # {} /\ Further # {} /\ at' = Min(Further) - 1
        /\ UNCHANGED <<items, bytes, fed, stage, out>>
    BY <1>12 DEF NoiseDollar, GoOn, AtDollar, FurtherFirst
  <2>2. stage' = "parse"
    BY <2>1 DEF Iteration
  <2>3. Min(Further) \in Nat /\ Start < Min(Further) /\ Min(Further) <= fed
    BY <2>1, Scanned
  <2>4. at' \in Nat /\ at' <= fed
    BY <1>1, <1>3, <2>1, <2>3
  <2> QED
    BY <1>4, <1>5, <2>1, <2>2, <2>4
<1>13. CASE LongLine
  <2>1. Starts # {} /\ at' = Start /\ UNCHANGED <<items, bytes, fed, stage, out>>
    BY <1>13 DEF LongLine, GoOn, AtDollar
  <2>2. stage' = "parse"
    BY <2>1 DEF Iteration
  <2> QED
    BY <1>1, <1>3, <1>4, <1>5, <2>1, <2>2
<1>14. CASE ShortLine
  <2>1. Starts # {} /\ Have <= MaxLine /\ at' = Start - 1 /\ stage' = "idle" /\ UNCHANGED <<items, bytes, fed, out>>
    BY <1>14 DEF ShortLine, Break, AtDollar
  <2>2. at' \in Nat /\ at' <= fed /\ fed - at' <= MaxLine
    BY <1>1, <1>2, <1>3, <2>1 DEF Have
  <2> QED
    BY <1>4, <1>5, <2>1, <2>2
<1>15. CASE TakeLine
  <2>1. /\ Starts # {} /\ Lines # {} /\ at' = Min(Lines)
        /\ UNCHANGED <<items, bytes, fed, stage>> /\ Report(Start - 1, Min(Lines))
    BY <1>15 DEF TakeLine, GoOn, AtDollar
  <2>2. stage' = "parse"
    BY <2>1 DEF Iteration
  <2>3. out' \subseteq DOMAIN items
    BY <1>5, <2>1 DEF Report
  <2>4. Min(Lines) \in Nat /\ Min(Lines) <= fed
    BY <2>1, Scanned
  <2> QED
    BY <1>4, <2>1, <2>2, <2>3, <2>4
<1> QED
  BY <1>6, <1>7, <1>8, <1>9, <1>10, <1>11, <1>12, <1>13, <1>14, <1>15 DEF Iteration

(* No iteration passes over a frame that is awaited.                       *)
LEMMA IterationKeeps ==
  ASSUME Laid, FramingTypeOK, Iteration, NEW i \in DOMAIN items, Awaited(i), at <= Offset(i)
  PROVE  i \in out' \/ at' <= Offset(i)
BY ReturnKeeps, RejectKeeps, PacketKeeps, NoiseKeeps, LongLineKeeps, LineKeeps DEF Iteration

(* Steps keep the invariant: an awaited frame that is whole would have     *)
(* been reported before feed returns.                                      *)
LEMMA FramingStep == FramingInv /\ [FramingNext]_framing => FramingInv'
<1> SUFFICES ASSUME FramingInv, [FramingNext]_framing PROVE FramingInv'
  OBVIOUS
<1>1. Laid /\ FramingTypeOK /\ Unconsumed /\ FrameIsFound
  BY DEF FramingInv
<1>2. CASE Iteration
  <2>1. FramingTypeOK' /\ items' = items /\ bytes' = bytes /\ fed' = fed
    BY <1>1, <1>2, IterationType
  <2>2. /\ Laid'
        /\ \A i : (Offset(i))' = Offset(i) /\ (End(i))' = End(i) /\ (Swallowed(i) <=> (Swallowed(i))')
    BY <1>1, <2>1, ItemsStay
  <2>3. out \subseteq out'
    BY <1>2 DEF Iteration, BufferEmpty, NoStart, ShortHeader, RejectLength, ShortPacket, TakePacket,
                NoiseDollar, LongLine, ShortLine, TakeLine, Break, Report
  <2>4. ASSUME NEW i \in DOMAIN items, items[i] \in Frames, ~Swallowed(i), i \notin out'
        PROVE  Awaited(i) /\ at <= Offset(i) /\ at' <= Offset(i)
    <3>1. Awaited(i)
      BY <2>3, <2>4 DEF Awaited
    <3>2. at <= Offset(i)
      BY <1>1, <3>1 DEF Unconsumed
    <3> QED
      BY <1>1, <1>2, <2>4, <3>1, <3>2, IterationKeeps
  <2>5. Unconsumed'
    BY <2>1, <2>2, <2>4 DEF Unconsumed, Awaited
  <2>6. FrameIsFound'
    <3> SUFFICES ASSUME stage' = "idle", NEW i \in DOMAIN items, items[i] \in Frames, End(i) <= fed,
                        ~Swallowed(i), i \notin out'
                 PROVE  FALSE
      BY <2>1, <2>2 DEF FrameIsFound
    <3>1. Awaited(i) /\ at <= Offset(i)
      BY <2>4
    <3>2. ~ (BufferEmpty \/ NoStart \/ ShortHeader \/ ShortPacket \/ ShortLine)
      BY <1>1, <3>1, NoneWaits
    <3>3. stage = "parse" /\ (RejectLength \/ TakePacket \/ NoiseDollar \/ LongLine \/ TakeLine)
      BY <1>2, <3>2 DEF Iteration
    <3>4. stage' = stage
      BY <3>3 DEF RejectLength, TakePacket, NoiseDollar, LongLine, TakeLine, GoOn
    <3> QED
      BY <3>3, <3>4
  <2> QED
    BY <2>1, <2>2, <2>5, <2>6 DEF FramingInv
<1>3. ASSUME NEW n \in 1..(Len(bytes) - fed), Feed(n)
      PROVE  FramingInv'
  <2>1. fed' = fed + n /\ stage' = "parse" /\ UNCHANGED <<items, bytes, at, out>>
    BY <1>3 DEF Feed
  <2>2. /\ Laid'
        /\ \A i : (Offset(i))' = Offset(i) /\ (End(i))' = End(i) /\ (Swallowed(i) <=> (Swallowed(i))')
    BY <1>1, <2>1, ItemsStay
  <2>3. FramingTypeOK'
    <3>1. Len(bytes) \in Nat /\ fed \in Nat /\ at \in Nat /\ at <= fed /\ fed <= Len(bytes)
      BY <1>1, BufferType
    <3>2. fed' \in 0..Len(bytes) /\ at \in 0..fed'
      BY <2>1, <3>1
    <3> QED
      BY <1>1, <2>1, <3>2 DEF FramingTypeOK
  <2>4. Unconsumed'
    BY <1>1, <2>1, <2>2 DEF Unconsumed, Awaited
  <2>5. FrameIsFound'
    BY <2>1 DEF FrameIsFound
  <2> QED
    BY <2>2, <2>3, <2>4, <2>5 DEF FramingInv
<1>4. CASE UNCHANGED framing
  <2>1. UNCHANGED <<items, bytes, fed, at, stage, out>>
    BY <1>4 DEF framing
  <2>2. /\ Laid'
        /\ \A i : (Offset(i))' = Offset(i) /\ (End(i))' = End(i) /\ (Swallowed(i) <=> (Swallowed(i))')
    BY <1>1, <2>1, ItemsStay
  <2>3. FramingTypeOK'
    BY <1>1, <2>1 DEF FramingTypeOK
  <2>4. Unconsumed'
    BY <1>1, <2>1, <2>2 DEF Unconsumed, Awaited
  <2>5. FrameIsFound'
    BY <1>1, <2>1, <2>2 DEF FrameIsFound
  <2> QED
    BY <2>2, <2>3, <2>4, <2>5 DEF FramingInv
<1> QED
  BY <1>2, <1>3, <1>4 DEF FramingNext

(* The invariant holds before the first chunk.                             *)
LEMMA FramingBegins == FramingInit => FramingInv
<1> SUFFICES ASSUME FramingInit PROVE FramingInv
  OBVIOUS
<1>1. PICK n \in 1..MaxItems : items \in [1..n -> Items]
  BY DEF FramingInit
<1>2. items \in Seq(Items)
  <2>1. n \in Nat
    BY <1>1, FramingAssumption
  <2> QED
    BY <1>1, <2>1
<1>3. fed = 0 /\ at = 0 /\ stage = "idle" /\ out = {}
  BY DEF FramingInit
<1>4. Laid
  BY <1>2 DEF FramingInit, Laid
<1>5. Len(bytes) \in Nat
  BY <1>4, Layout
<1>6. FramingTypeOK
  <2>1. 0 <= Max({MaxLine, MaxPayload + 3})
    BY FramingAssumption, BoundType
  <2>2. 0 - 0 = 0
    OBVIOUS
  <2> QED
    BY <1>2, <1>3, <1>5, <2>1, <2>2 DEF FramingTypeOK
<1>7. Unconsumed
  BY <1>3, <1>4, Layout DEF Unconsumed
<1>8. FrameIsFound
  <2> SUFFICES ASSUME NEW i \in DOMAIN items, items[i] \in Frames, End(i) <= 0, ~Swallowed(i) PROVE FALSE
    BY <1>3 DEF FrameIsFound
  <2>1. Offset(i) \in Nat /\ Offset(i) + 3 <= End(i) /\ End(i) \in Nat
    <3>1. at <= Offset(i)
      BY <1>3, <1>4, Layout
    <3> QED
      BY <1>4, <1>6, <3>1, FrameSeen
  <2> QED
    BY <2>1
<1> QED
  BY <1>4, <1>6, <1>7, <1>8 DEF FramingInv

(* Reachable states: no frame is out of the buffer that has not been       *)
(* reported, unless a torn packet covers it.                               *)
THEOREM AlwaysFramed == FramingSpec => []FramingInv
<1>1. FramingInit => FramingInv
  BY FramingBegins
<1>2. FramingInv /\ [FramingNext]_framing => FramingInv'
  BY FramingStep
<1> QED
  BY <1>1, <1>2, PTL DEF FramingSpec

(* Every variable of the parser keeps its type, and the buffer stays small *)
(* between two calls of feed.                                              *)
THEOREM FramingTypeCorrect == FramingSpec => []FramingTypeOK
<1>1. FramingInv => FramingTypeOK
  BY DEF FramingInv
<1> QED
  BY <1>1, AlwaysFramed, PTL

(* However the stream is cut into chunks and whatever noise is in it, a    *)
(* frame that has come in has been reported when feed returns.             *)
THEOREM FramesAreFound == FramingSpec => []FrameIsFound
<1>1. FramingInv => FrameIsFound
  BY DEF FramingInv
<1> QED
  BY <1>1, AlwaysFramed, PTL
=============================================================================
