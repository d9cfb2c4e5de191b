--------------------------- MODULE EventDelivery ---------------------------
(***************************************************************************)
(* What the path of SMS and call events promises: an event is numbered     *)
(* once and held until the server has it or has refused it, unless it is   *)
(* knowingly dropped; and what is no longer held never comes back.  A      *)
(* dropped event may still reach the server: its row had been read before. *)
(* Threads, queues, tables, retries and crashes do not appear here;        *)
(* EventsPipeline implements this specification.                           *)
(***************************************************************************)
EXTENDS Naturals

CONSTANT Bad      \* the events the server refuses

VARIABLES
  reported,   \* how many events came; event n is the n-th
  held,       \* the events the device keeps in order to send them
  delivered,  \* the events the server has
  refused,    \* the events it rejected, put aside
  dropped     \* the events given up undelivered, as far as the device knows

vars == <<reported, held, delivered, refused, dropped>>

Init == reported = 0 /\ held = {} /\ delivered = {} /\ refused = {} /\ dropped = {}

(* A new event takes the next number, which no event had before. *)
Report ==
  /\ reported' = reported + 1
  /\ held' = held \cup {reported + 1}
  /\ UNCHANGED <<delivered, refused, dropped>>

(* The server takes a good event, perhaps not for the first time; the      *)
(* device may know at once, or later, or never.                            *)
Deliver ==
  /\ \E e \in (held \cup dropped) \ Bad :
       delivered' = delivered \cup {e} /\ held' \in {held, held \ {e}}
  /\ UNCHANGED <<reported, refused, dropped>>

(* A bad one is put aside, in the step that gives it up. *)
Refuse ==
  /\ \E e \in (held \cup dropped) \cap Bad :
       refused' = refused \cup {e} /\ held' = held \ {e}
  /\ UNCHANGED <<reported, delivered, dropped>>

(* Events are given up: the server has them, or they count as dropped. *)
LetGo ==
  /\ \E S \in SUBSET held : \E D \in SUBSET S :
       /\ S \ D \subseteq delivered
       /\ held' = held \ S /\ dropped' = dropped \cup D
  /\ UNCHANGED <<reported, delivered, refused>>

Next == Report \/ Deliver \/ Refuse \/ LetGo

Spec == Init /\ [][Next]_vars
=============================================================================
