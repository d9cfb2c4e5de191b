----------------------------- MODULE GnssFraming -----------------------------
(***************************************************************************)
(* _GnssStreamParser: UBX packets and NMEA lines framed from one serial    *)
(* stream that comes in chunks of any size and has noise between and       *)
(* inside of frames.  feed is a loop; each of its branches is an action.   *)
(*                                                                         *)
(* The buffer is always the part of the stream behind some point that has  *)
(* come in, bytes[at + 1] to bytes[fed]: feed deletes at its front only.   *)
(* A checksum tells a whole frame from anything else.                      *)
(***************************************************************************)
EXTENDS Naturals, Sequences, FiniteSets, FiniteSetsExt, SequencesExt

CONSTANTS
  Items,       \* the names of the items a stream is made of
  MaxItems,    \* items of a stream (a bound of the model)
  MaxPayload,  \* _MAX_UBX_PAYLOAD
  MaxLine      \* _MAX_NMEA_LINE

(* "S" and "B" are the two sync bytes, "n" the end of a line.  A packet is *)
(* the sync bytes, a length, that many bytes and a checksum; its class and *)
(* id are left out.  Frames are whole; the other items are what a bad line *)
(* makes of them.                                                          *)
Frames == {"nmea", "ubx", "binary"}
Shape == [nmea   |-> <<"$", "x", "n">>,
          ubx    |-> <<"S", "B", "1", "x", "k">>,
          binary |-> <<"S", "B", "2", "$", "n", "k">>,
          broken |-> <<"S", "B", "1", "x", "x">>,
          torn   |-> <<"S", "B", "2">>,
          huge   |-> <<"S", "B", "9">>,
          sync   |-> <<"S">>,
          dollar |-> <<"$">>,
          long   |-> <<"$", "x", "x", "x", "x">>]

ASSUME FramingAssumption ==
  /\ Items \subseteq DOMAIN Shape /\ MaxItems \in Nat
  /\ MaxPayload \in 2..8 /\ MaxLine \in Nat /\ MaxLine >= 3

VARIABLES
  items,  \* what the stream is made of
  bytes,  \* the stream
  fed,    \* how many of its bytes have been fed
  at,     \* how many of these are no longer in the buffer
  stage,     \* "idle" (feed has returned) or "parse"
  out     \* the items that have been reported as frames

framing == <<items, bytes, fed, at, stage, out>>

FramingInit ==
  /\ items \in UNION {[1..n -> Items] : n \in 1..MaxItems}
  /\ bytes = FlattenSeq([i \in DOMAIN items |-> Shape[items[i]]])
  /\ fed = 0 /\ at = 0
  /\ stage = "idle" /\ out = {}

(* The bytes before item i. *)
Offset(i) == Len(FlattenSeq([j \in 1..(i - 1) |-> Shape[items[j]]]))
End(i)    == Offset(i) + Len(Shape[items[i]])

-----------------------------------------------------------------------------
(* A length byte; any other byte in its place is some length, too.         *)
Length(b) == CASE b = "2" -> 2 [] b = "9" -> 9 [] OTHER -> 1
Packet(b) == Length(b) + 4

Syncs   == {i \in (at + 1)..(fed - 1) : bytes[i] = "S" /\ bytes[i + 1] = "B"}
Dollars == {i \in (at + 1)..fed : bytes[i] = "$"}
Starts  == Syncs \cup Dollars
Start   == Min(Starts)
Have    == fed - Start + 1
Further == Starts \ {Start}
Lines   == {i \in Start..fed : bytes[i] = "n"}

(* The present start is noise when the next one comes before the line ends.*)
(* A mutant: a line wins over any start in it.                             *)
LineFirst    == Further # {} /\ Lines = {}
FurtherFirst == Further # {} /\ \A l \in Lines : Min(Further) < l

(* What a chunk without a start leaves: half of the sync bytes, perhaps.   *)
TailLeft == IF bytes[fed] = "S" THEN fed - 1 ELSE fed

(* A packet or a line has been taken out of the buffer: it is a frame when *)
(* it is one of the items from end to end.                                 *)
Report(from, to) ==
  out' = out \cup {i \in DOMAIN items :
                      items[i] \in Frames /\ Offset(i) = from /\ End(i) = to}

Feed(n) ==
  /\ stage = "idle"
  /\ fed' = fed + n
  /\ stage' = "parse"
  /\ UNCHANGED <<items, bytes, at, out>>

(* The rest of an iteration: go on behind byte n, or return from feed.     *)
GoOn(n)  == at' = n /\ UNCHANGED <<items, bytes, fed, stage>>
Break(n) == at' = n /\ stage' = "idle" /\ UNCHANGED <<items, bytes, fed, out>>

BufferEmpty == at = fed /\ Break(at)
NoStart     == at < fed /\ Starts = {} /\ Break(TailLeft)

AtSync   == Starts # {} /\ Start \in Syncs
AtDollar == Starts # {} /\ Start \in Dollars

ShortHeader == AtSync /\ Have < 3 /\ Break(Start - 1)
(* A mutant of TooLong: any length is waited for. *)
AnyLength   == FALSE
TooLong     == Length(bytes[Start + 2]) > MaxPayload
(* A mutant of AfterReject: the iteration starts where it was. *)
Nowhere     == Start - 1
AfterReject == Start
RejectLength == AtSync /\ Have >= 3 /\ TooLong /\ GoOn(AfterReject) /\ UNCHANGED out
ShortPacket ==
  /\ AtSync /\ Have >= 3 /\ ~TooLong
  /\ Have < Packet(bytes[Start + 2])
  /\ Break(Start - 1)
TakePacket ==
  /\ AtSync /\ Have >= 3 /\ ~TooLong
  /\ Have >= Packet(bytes[Start + 2])
  /\ LET to == Start - 1 + Packet(bytes[Start + 2])
     IN  GoOn(to) /\ Report(Start - 1, to)

NoiseDollar == AtDollar /\ FurtherFirst /\ GoOn(Min(Further) - 1) /\ UNCHANGED out
LongLine ==
  /\ AtDollar /\ ~FurtherFirst /\ Lines = {} /\ Have > MaxLine
  /\ GoOn(Start) /\ UNCHANGED out
ShortLine ==
  /\ AtDollar /\ ~FurtherFirst /\ Lines = {} /\ Have <= MaxLine
  /\ Break(Start - 1)
TakeLine ==
  /\ AtDollar /\ ~FurtherFirst /\ Lines # {}
  /\ GoOn(Min(Lines)) /\ Report(Start - 1, Min(Lines))

-----------------------------------------------------------------------------
Iteration ==
  /\ stage = "parse"
  /\ \/ BufferEmpty \/ NoStart
     \/ ShortHeader \/ RejectLength \/ ShortPacket \/ TakePacket
     \/ NoiseDollar \/ LongLine \/ ShortLine \/ TakeLine

FramingNext == Iteration \/ \E n \in 1..(Len(bytes) - fed) : Feed(n)
FramingSpec == FramingInit /\ [][FramingNext]_framing
FairFramingSpec == FramingSpec /\ WF_framing(Iteration)

-----------------------------------------------------------------------------
(* Every variable has its type; between two calls the buffer holds less    *)
(* than a packet, or a line that is not too long.                          *)
FramingTypeOK ==
  /\ items \in Seq(Items) /\ fed \in 0..Len(bytes) /\ at \in 0..fed
  /\ stage \in {"idle", "parse"} /\ out \subseteq DOMAIN items
  /\ stage = "idle" => fed - at <= Max({MaxLine, MaxPayload + 3})

(* What a torn packet swallows at most: as many bytes as its header says.  *)
Swallowed(i) == \E j \in 1..(i - 1) :
  items[j] = "torn" /\ Offset(i) < Offset(j) + Packet("2")

(* "frame interleaved UBX packets and NMEA lines from one UART stream":    *)
(* however the stream is cut into chunks and whatever noise is in it, a    *)
(* frame that has come in is reported, unless it began within the length   *)
(* that a torn packet before it announced.                                 *)
FrameIsFound ==
  stage = "idle" => \A i \in DOMAIN items :
    items[i] \in Frames /\ End(i) <= fed /\ ~Swallowed(i) => i \in out

(* feed returns: each of its iterations gets something out of the buffer.  *)
FeedReturns == stage = "parse" ~> stage = "idle"
=============================================================================
