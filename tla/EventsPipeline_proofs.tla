------------------------- MODULE EventsPipeline_proofs -------------------------
(***************************************************************************)
(* Theorems about EventsPipeline, for any number of events and any sizes   *)
(* of queues, batches and tables.                                          *)
(***************************************************************************)
EXTENDS EventsPipeline, SequenceTheorems, FiniteSetTheorems, TLAPS

(* Sequences by their elements, which the steps only move about.           *)
Distinct(s) == \A i, j \in 1..Len(s) : s[i] = s[j] => i = j

LEMMA ElemsAppend ==
  ASSUME NEW S, NEW s \in Seq(S), NEW e \in S
  PROVE  /\ Append(s, e) \in Seq(S) /\ Len(Append(s, e)) = Len(s) + 1
         /\ Elems(Append(s, e)) = Elems(s) \cup {e}
         /\ Distinct(s) /\ e \notin Elems(s) => Distinct(Append(s, e))
<1> DEFINE t == Append(s, e)
<1>1. /\ t \in Seq(S) /\ Len(t) = Len(s) + 1 /\ Len(s) \in Nat
      /\ \A i \in 1..Len(s) : t[i] = s[i]
      /\ t[Len(s) + 1] = e
  BY AppendProperties, LenProperties
<1> HIDE DEF t
<1>2. Elems(t) = Elems(s) \cup {e}
  BY <1>1 DEF Elems
<1>3. Distinct(s) /\ e \notin Elems(s) => Distinct(t)
  BY <1>1 DEF Elems, Distinct
<1> QED
  BY <1>1, <1>2, <1>3 DEF t

LEMMA ElemsTail ==
  ASSUME NEW S, NEW s \in Seq(S), s # <<>>
  PROVE  /\ Head(s) \in S /\ Tail(s) \in Seq(S)
         /\ Len(s) \in Nat \ {0} /\ Len(Tail(s)) = Len(s) - 1
         /\ Elems(s) = {Head(s)} \cup Elems(Tail(s))
         /\ Distinct(s) => Distinct(Tail(s)) /\ Head(s) \notin Elems(Tail(s))
<1> DEFINE t == Tail(s)
<1>1. /\ Head(s) \in S /\ t \in Seq(S) /\ Len(t) = Len(s) - 1
      /\ \A i \in 1..Len(t) : t[i] = s[i + 1]
  BY HeadTailProperties
<1>2. Len(s) \in Nat \ {0} /\ Head(s) = s[1]
  BY EmptySeq, LenProperties
<1> HIDE DEF t
<1>3. Elems(s) = {Head(s)} \cup Elems(t)
  <2>1. ASSUME NEW i \in 1..Len(s), i # 1 PROVE s[i] \in Elems(t)
    <3>1. i - 1 \in 1..Len(t) /\ (i - 1) + 1 = i
      BY <1>1, <1>2, <2>1
    <3> QED
      BY <1>1, <3>1 DEF Elems
  <2>2. ASSUME NEW i \in 1..Len(t) PROVE t[i] \in Elems(s)
    BY <1>1, <1>2 DEF Elems
  <2> QED
    BY <1>2, <2>1, <2>2 DEF Elems
<1>4. Distinct(s) => Distinct(t) /\ Head(s) \notin Elems(t)
  BY <1>1, <1>2 DEF Elems, Distinct
<1> QED
  BY <1>1, <1>2, <1>3, <1>4 DEF t

LEMMA ElemsSplit ==
  ASSUME NEW S, NEW s \in Seq(S), NEW n \in 0..Len(s)
  PROVE  LET a == SubSeq(s, 1, n)
             b == SubSeq(s, n + 1, Len(s))
         IN  /\ a \in Seq(S) /\ b \in Seq(S) /\ Len(a) = n /\ Len(b) = Len(s) - n
             /\ Elems(s) = Elems(a) \cup Elems(b)
             /\ Distinct(s) => Distinct(a) /\ Distinct(b) /\ Elems(a) \cap Elems(b) = {}
<1> DEFINE a == SubSeq(s, 1, n)
           b == SubSeq(s, n + 1, Len(s))
<1>0. Len(s) \in Nat /\ \A i \in 1..Len(s) : s[i] \in S
  BY LenProperties, ElementOfSeq
<1>1. a \in Seq(S) /\ Len(a) = n /\ \A i \in 1..n : a[i] = s[i]
  BY <1>0, SubSeqProperties
<1>2. b \in Seq(S) /\ Len(b) = Len(s) - n /\ \A i \in 1..Len(b) : b[i] = s[n + i]
  BY <1>0, SubSeqProperties
<1> HIDE DEF a, b
<1>3. Elems(s) = Elems(a) \cup Elems(b)
  <2>1. ASSUME NEW i \in 1..Len(s), i \notin 1..n PROVE s[i] \in Elems(b)
    <3>1. i - n \in 1..Len(b) /\ n + (i - n) = i
      BY <1>0, <1>2, <2>1
    <3> QED
      BY <1>2, <3>1 DEF Elems
  <2>2. ASSUME NEW i \in 1..n PROVE s[i] \in Elems(a) /\ a[i] \in Elems(s)
    BY <1>0, <1>1 DEF Elems
  <2>3. ASSUME NEW i \in 1..Len(b) PROVE b[i] \in Elems(s)
    BY <1>0, <1>2 DEF Elems
  <2> QED
    BY <1>1, <2>1, <2>2, <2>3 DEF Elems
<1>4. ASSUME Distinct(s) PROVE Distinct(a) /\ Distinct(b) /\ Elems(a) \cap Elems(b) = {}
  <2>1. Distinct(a)
    BY <1>0, <1>1, <1>4 DEF Distinct
  <2>2. ASSUME NEW i \in 1..Len(b), NEW j \in 1..Len(b), b[i] = b[j] PROVE i = j
    <3>1. n + i \in 1..Len(s) /\ n + j \in 1..Len(s) /\ s[n + i] = s[n + j]
      BY <1>0, <1>2, <2>2
    <3> QED
      BY <1>2, <1>4, <3>1 DEF Distinct
  <2>3. ASSUME NEW i \in 1..Len(a), NEW j \in 1..Len(b) PROVE a[i] # b[j]
    <3>1. i \in 1..Len(s) /\ n + j \in 1..Len(s) /\ i # n + j /\ a[i] = s[i] /\ b[j] = s[n + j]
      BY <1>0, <1>1, <1>2
    <3> QED
      BY <1>4, <3>1 DEF Distinct
  <2> QED
    BY <2>1, <2>2, <2>3 DEF Distinct, Elems
<1> QED
  BY <1>1, <1>2, <1>3, <1>4 DEF a, b

LEMMA ElemsWithout ==
  ASSUME NEW S, NEW s \in Seq(S), NEW i \in 1..Len(s)
  PROVE  /\ Without(s, i) \in Seq(S) /\ Len(Without(s, i)) = Len(s) - 1
         /\ Elems(s) = Elems(Without(s, i)) \cup {s[i]}
         /\ Distinct(s) => Distinct(Without(s, i)) /\ s[i] \notin Elems(Without(s, i))
<1> DEFINE t == Without(s, i)
<1>0. Len(s) \in Nat /\ \A j \in 1..Len(s) : s[j] \in S
  BY LenProperties, ElementOfSeq
<1>1. /\ t \in Seq(S) /\ Len(t) = Len(s) - 1
      /\ \A j \in 1..(Len(s) - 1) : t[j] = s[IF j < i THEN j ELSE j + 1]
  <2> DEFINE a == SubSeq(s, 1, i - 1)
             b == SubSeq(s, i + 1, Len(s))
  <2>1. a \in Seq(S) /\ Len(a) = i - 1 /\ \A j \in 1..(i - 1) : a[j] = s[j]
    BY <1>0, SubSeqProperties
  <2>2. b \in Seq(S) /\ Len(b) = Len(s) - i /\ \A j \in 1..(Len(s) - i) : b[j] = s[i + j]
    BY <1>0, SubSeqProperties
  <2>3. t = a \o b
    BY DEF Without
  <2> HIDE DEF a, b, t
  <2>4. /\ t \in Seq(S) /\ Len(t) = Len(s) - 1
        /\ \A j \in 1..(Len(s) - 1) : t[j] = IF j <= i - 1 THEN a[j] ELSE b[j - (i - 1)]
    <3>1. /\ t \in Seq(S) /\ Len(t) = Len(a) + Len(b)
          /\ \A j \in 1..(Len(a) + Len(b)) : t[j] = IF j <= Len(a) THEN a[j] ELSE b[j - Len(a)]
      BY <2>1, <2>2, <2>3, ConcatProperties
    <3>2. Len(a) + Len(b) = Len(s) - 1
      BY <1>0, <2>1, <2>2
    <3> QED
      BY <2>1, <3>1, <3>2
  <2>5. ASSUME NEW j \in 1..(Len(s) - 1) PROVE t[j] = s[IF j < i THEN j ELSE j + 1]
    <3>1. CASE j < i
      BY <1>0, <2>1, <2>4, <3>1
    <3>2. CASE ~(j < i)
      <4>1. j - (i - 1) \in 1..(Len(s) - i) /\ i + (j - (i - 1)) = j + 1
        BY <1>0, <3>2
      <4> QED
        BY <1>0, <2>2, <2>4, <3>2, <4>1
    <3> QED
      BY <3>1, <3>2
  <2> QED
    BY <2>4, <2>5
<1> HIDE DEF t
<1>2. ASSUME NEW j \in 1..Len(t) PROVE \E k \in 1..Len(s) : t[j] = s[k] /\ k # i
  <2> DEFINE k == IF j < i THEN j ELSE j + 1
  <2>1. k \in 1..Len(s) /\ k # i /\ t[j] = s[k]
    BY <1>0, <1>1
  <2> QED
    BY <2>1
<1>3. ASSUME NEW k \in 1..Len(s), k # i PROVE s[k] \in Elems(t)
  <2>1. CASE k < i
    BY <1>0, <1>1, <2>1 DEF Elems
  <2>2. CASE k > i
    <3>1. k - 1 \in 1..Len(t) /\ ~(k - 1 < i) /\ (k - 1) + 1 = k
      BY <1>0, <1>1, <2>2
    <3>2. t[k - 1] = s[k]
      BY <1>1, <3>1
    <3> QED
      BY <3>1, <3>2 DEF Elems
  <2> QED
    BY <1>0, <1>3, <2>1, <2>2
<1>4. Elems(s) = Elems(t) \cup {s[i]}
  BY <1>2, <1>3 DEF Elems
<1>5. Distinct(s) => s[i] \notin Elems(t)
  BY <1>2 DEF Elems, Distinct
<1>6. ASSUME Distinct(s), NEW j \in 1..Len(t), NEW k \in 1..Len(t), t[j] = t[k] PROVE j = k
  <2> DEFINE p(x) == IF x < i THEN x ELSE x + 1
  <2>1. p(j) \in 1..Len(s) /\ p(k) \in 1..Len(s) /\ s[p(j)] = s[p(k)]
    BY <1>0, <1>1, <1>6
  <2>2. p(j) = p(k)
    BY <1>6, <2>1 DEF Distinct
  <2> QED
    BY <1>0, <1>1, <2>2
<1> QED
  BY <1>1, <1>4, <1>5, <1>6 DEF t, Distinct

-----------------------------------------------------------------------------
(* The parts of the inductive invariant and the words it uses: whether a   *)
(* writer owes a trim, what the queues hold, what the dispatcher holds, and*)
(* the events that are rows, peeked rows or dead letters.                  *)
Due(w) == IF trimPc[w] = "none" THEN 0 ELSE 1
Waiting == Elems(readerQ) \cup Elems(drained) \cup Elems(pending)
Held    == IF hand = NoEvent THEN {} ELSE {hand}
OnDisk  == Elems(table) \cup Elems(todo) \cup deadLetters

(* Every put that a fault may have kept from its trim, and every event in  *)
(* memory, has an arrival of its own.                                      *)
Owed    == untrimmed + Due("main") + Due("dispatcher")
Carried == Len(readerQ) + Len(drained) + Len(pending) + (IF hand = NoEvent THEN 0 ELSE 1)
Counted == Owed + Carried <= created

(* An event is at one place: in one queue, once, or in the dispatcher's    *)
(* hand, or on the disk.  The flusher's batch may still name rows that a   *)
(* trim has dropped.                                                       *)
OneHolder ==
  /\ \A s \in {readerQ, drained, pending, table, todo} : Distinct(s)
  /\ Elems(readerQ) \cap Elems(drained) = {}
  /\ Elems(readerQ) \cap Elems(pending) = {}
  /\ Elems(drained) \cap Elems(pending) = {}
  /\ hand \notin Waiting
  /\ (Waiting \cup Held) \cap OnDisk = {}
  /\ Waiting \cup Held \cup OnDisk \subseteq 1..created

(* What the two sending threads hold at each step.                         *)
AtStage ==
  /\ hand # NoEvent <=> dispPc \in {"send", "put"}
  /\ todo # <<>> <=> flushPc \in {"send", "delete", "reject", "move"}
  /\ flushPc = "delete" => Head(todo) \in delivered
  /\ flushPc \in {"reject", "move"} => Head(todo) \in Bad

(* The server has only events that came, and a copy of a delivered event   *)
(* is kept only where the device could not know or record the delivery.    *)
Explained ==
  /\ delivered \subseteq 1..created /\ again \subseteq unsure
  /\ Waiting \cap delivered = {}
  /\ hand \in delivered => dispPc = "put" /\ hand \in unsure
  /\ \A e \in (Elems(table) \cup Elems(todo)) \cap delivered :
       e \in unsure \/ (flushPc = "delete" /\ e = Head(todo)) \/ flushPc = "dead"

(* A peeked row leaves the table by a trim, or by the flusher's own hand.   *)
BatchKnown == Elems(todo) \subseteq Elems(table) \cup trimmed

(* What a writer has counted is enough for the rows that were there.       *)
TrimsSuffice ==
  \A w \in Writers : trimPc[w] = "trim" =>
    /\ excess[w] >= 1
    /\ Len(table) <= MaxRows + excess[w] + untrimmed + Due("main") + Due("dispatcher") - 1

-----------------------------------------------------------------------------
(* What each action does to the sequences, said by their elements.         *)
LEMMA SeqTypes ==
  ASSUME TypeOK
  PROVE  /\ readerQ \in Seq(Events) /\ drained \in Seq(Events) /\ pending \in Seq(Events)
         /\ table \in Seq(Events) /\ todo \in Seq(Events)
         /\ Len(readerQ) \in Nat /\ Len(drained) \in Nat /\ Len(pending) \in Nat
         /\ Len(table) \in Nat /\ Len(todo) \in Nat
<1>1. /\ readerQ \in Seq(Events) /\ drained \in Seq(Events) /\ pending \in Seq(Events)
      /\ table \in Seq(Events) /\ todo \in Seq(Events)
  BY DEF TypeOK
<1> QED
  BY <1>1, LenProperties

LEMMA NoElems == Elems(<<>>) = {} /\ Distinct(<<>>) /\ Len(<<>>) = 0
  BY DEF Elems, Distinct

LEMMA ReportEffect ==
  ASSUME TypeOK, Report
  PROVE  /\ created' \in Events /\ created' = created + 1
         /\ readerQ' \in Seq(Events) /\ Len(readerQ') = Len(readerQ) + 1
         /\ Elems(readerQ') = Elems(readerQ) \cup {created'}
         /\ Distinct(readerQ) /\ created' \notin Elems(readerQ) => Distinct(readerQ')
<1>1. created' \in Events /\ created' = created + 1 /\ readerQ' = Append(readerQ, created')
  BY PipelineAssumption DEF TypeOK, Report, Events
<1> QED
  BY <1>1, SeqTypes, ElemsAppend

LEMMA DrainEffect ==
  ASSUME TypeOK, Drain
  PROVE  /\ drained = <<>>
         /\ readerQ' \in Seq(Events) /\ drained' \in Seq(Events)
         /\ Len(drained') <= DrainMax /\ Len(readerQ') + Len(drained') = Len(readerQ)
         /\ Elems(readerQ) = Elems(drained') \cup Elems(readerQ')
         /\ Distinct(readerQ) => /\ Distinct(drained') /\ Distinct(readerQ')
                                 /\ Elems(drained') \cap Elems(readerQ') = {}
<1> DEFINE n == Smaller(DrainMax, Len(readerQ))
<1>1. n \in 0..Len(readerQ) /\ n <= DrainMax
  BY PipelineAssumption, SeqTypes DEF Smaller
<1>2. /\ drained' = SubSeq(readerQ, 1, n) /\ drained = <<>>
      /\ readerQ' = SubSeq(readerQ, n + 1, Len(readerQ))
  BY DEF Drain
<1> HIDE DEF n
<1>3. /\ drained' \in Seq(Events) /\ readerQ' \in Seq(Events)
      /\ Len(drained') = n /\ Len(readerQ') = Len(readerQ) - n
      /\ Elems(readerQ) = Elems(drained') \cup Elems(readerQ')
      /\ Distinct(readerQ) => /\ Distinct(drained') /\ Distinct(readerQ')
                              /\ Elems(drained') \cap Elems(readerQ') = {}
  BY <1>1, <1>2, SeqTypes, ElemsSplit
<1>4. Len(drained') <= DrainMax /\ Len(readerQ') + Len(drained') = Len(readerQ)
  BY <1>1, <1>3, SeqTypes, PipelineAssumption
<1> QED
  BY <1>2, <1>3, <1>4

LEMMA SubmitEffect ==
  ASSUME TypeOK, Submit
  PROVE  LET e == Head(drained)
         IN  /\ drained # <<>> /\ e \in Events /\ e \in Elems(drained)
             /\ drained' \in Seq(Events) /\ Len(drained') = Len(drained) - 1
             /\ Elems(drained) = {e} \cup Elems(drained')
             /\ Distinct(drained) => Distinct(drained') /\ e \notin Elems(drained')
             /\ pending' \in Seq(Events) /\ Len(pending') = Len(pending) + 1
             /\ Len(pending') <= QueueSize
             /\ Elems(pending') = Elems(pending) \cup {e}
             /\ Distinct(pending) /\ e \notin Elems(pending) => Distinct(pending')
<1>1. /\ drained # <<>> /\ drained' = Tail(drained)
      /\ pending' = Append(pending, Head(drained)) /\ Len(pending) < QueueSize
  BY DEF Submit, Room
<1>2. /\ Head(drained) \in Events /\ drained' \in Seq(Events) /\ Len(drained') = Len(drained) - 1
      /\ Elems(drained) = {Head(drained)} \cup Elems(drained')
      /\ Distinct(drained) => Distinct(drained') /\ Head(drained) \notin Elems(drained')
  BY <1>1, SeqTypes, ElemsTail
<1>3. /\ pending' \in Seq(Events) /\ Len(pending') = Len(pending) + 1
      /\ Elems(pending') = Elems(pending) \cup {Head(drained)}
      /\ Distinct(pending) /\ Head(drained) \notin Elems(pending) => Distinct(pending')
  BY <1>1, <1>2, SeqTypes, ElemsAppend
<1> QED
  BY <1>1, <1>2, <1>3, SeqTypes, PipelineAssumption

LEMMA InsertEffect ==
  ASSUME TypeOK, NEW w \in Writers, NEW e \in Events, InsertBy(w, e)
  PROVE  /\ table' \in Seq(Events) /\ Len(table') = Len(table) + 1
         /\ Elems(table') = Elems(table) \cup {e}
         /\ Distinct(table) /\ e \notin Elems(table) => Distinct(table')
         /\ trimPc[w] = "none" /\ trimPc' = [trimPc EXCEPT ![w] = "count"]
         /\ UNCHANGED <<excess, untrimmed, deadLetters>>
<1>1. table' = Append(table, e)
  BY DEF InsertBy, Committed
<1> QED
  BY <1>1, SeqTypes, ElemsAppend DEF InsertBy

LEMMA OverflowEffect ==
  ASSUME TypeOK, Overflow
  PROVE  LET e == Head(drained)
         IN  /\ drained # <<>> /\ e \in Events /\ InsertBy("main", e)
             /\ drained' \in Seq(Events) /\ Len(drained') = Len(drained) - 1
             /\ Elems(drained) = {e} \cup Elems(drained')
             /\ Distinct(drained) => Distinct(drained') /\ e \notin Elems(drained')
<1>1. drained # <<>> /\ drained' = Tail(drained) /\ InsertBy("main", Head(drained))
  BY DEF Overflow
<1> QED
  BY <1>1, SeqTypes, ElemsTail

LEMMA TakeEffect ==
  ASSUME TypeOK, TakePending
  PROVE  /\ pending # <<>> /\ hand' \in Events
         /\ pending' \in Seq(Events) /\ Len(pending') = Len(pending) - 1
         /\ Elems(pending) = {hand'} \cup Elems(pending')
         /\ Distinct(pending) => Distinct(pending') /\ hand' \notin Elems(pending')
<1>1. pending # <<>> /\ pending' = Tail(pending) /\ hand' = Head(pending)
  BY DEF TakePending
<1> QED
  BY <1>1, SeqTypes, ElemsTail

LEMMA PeekEffect ==
  ASSUME TypeOK, PeekRows
  PROVE  /\ todo' \in Seq(Events) /\ todo' # <<>> /\ Len(todo') <= FlushBatch
         /\ Elems(todo') \subseteq Elems(table)
         /\ Distinct(table) => Distinct(todo')
<1> DEFINE n == Smaller(FlushBatch, Len(table))
<1>1. Len(table) # 0
  BY SeqTypes, EmptySeq DEF PeekRows
<1>2. n \in 0..Len(table) /\ n # 0 /\ n <= FlushBatch
  BY <1>1, PipelineAssumption, SeqTypes DEF Smaller
<1>3. todo' = SubSeq(table, 1, n)
  BY DEF PeekRows
<1> HIDE DEF n
<1>4. /\ todo' \in Seq(Events) /\ Len(todo') = n /\ Elems(todo') \subseteq Elems(table)
      /\ Distinct(table) => Distinct(todo')
  BY <1>2, <1>3, SeqTypes, ElemsSplit
<1> QED
  BY <1>2, <1>4, NoElems

LEMMA NextRowEffect ==
  ASSUME TypeOK, todo # <<>>, NextRow
  PROVE  /\ Head(todo) \in Events
         /\ todo' \in Seq(Events) /\ Len(todo') = Len(todo) - 1
         /\ Elems(todo) = {Head(todo)} \cup Elems(todo')
         /\ Distinct(todo) => Distinct(todo') /\ Head(todo) \notin Elems(todo')
         /\ flushPc' \in {"peek", "send"} /\ (todo' # <<>> <=> flushPc' = "send")
<1>1. todo' = Tail(todo) /\ flushPc' = IF todo' = <<>> THEN "peek" ELSE "send"
  BY DEF NextRow
<1> QED
  BY <1>1, SeqTypes, ElemsTail

LEMMA DeletedEffect ==
  ASSUME TypeOK, NEW e, Deleted(e)
  PROVE  /\ table' \in Seq(Events) /\ Len(table') <= Len(table)
         /\ Elems(table') \subseteq Elems(table) /\ Elems(table) \subseteq Elems(table') \cup {e}
         /\ Distinct(table) => Distinct(table') /\ e \notin Elems(table')
<1>1. CASE e \notin Elems(table)
  BY <1>1, SeqTypes DEF Deleted
<1>2. CASE e \in Elems(table)
  <2>1. PICK i \in 1..Len(table) : table[i] = e /\ table' = Without(table, i)
    BY <1>2 DEF Deleted
  <2> QED
    BY <2>1, SeqTypes, ElemsWithout
<1> QED
  BY <1>1, <1>2

LEMMA DeleteOldestEffect ==
  ASSUME TypeOK, NEW w \in Writers, DeleteOldest(w)
  PROVE  /\ table' \in Seq(Events)
         /\ Len(table') = IF excess[w] <= Len(table) THEN Len(table) - excess[w] ELSE 0
         /\ Elems(table') \subseteq Elems(table) /\ trimmed \subseteq trimmed'
         /\ Elems(table) \subseteq Elems(table') \cup trimmed'
         /\ trimmed' \subseteq trimmed \cup Elems(table)
         /\ Distinct(table) => /\ Distinct(table')
                               /\ trimmed' = trimmed \cup (Elems(table) \ Elems(table'))
<1> DEFINE n == Smaller(excess[w], Len(table))
<1>1. n \in 0..Len(table) /\ n = IF excess[w] <= Len(table) THEN excess[w] ELSE Len(table)
  BY SeqTypes DEF Smaller, TypeOK
<1>2. /\ table' = SubSeq(table, n + 1, Len(table))
      /\ trimmed' = trimmed \cup Elems(SubSeq(table, 1, n))
  BY DEF DeleteOldest
<1>3. excess[w] \in Nat
  BY DEF TypeOK
<1> HIDE DEF n
<1>4. /\ table' \in Seq(Events) /\ Len(table') = Len(table) - n
      /\ Elems(table) = Elems(SubSeq(table, 1, n)) \cup Elems(table')
      /\ Distinct(table) => /\ Distinct(table')
                            /\ Elems(SubSeq(table, 1, n)) \cap Elems(table') = {}
  <2>1. table \in Seq(Events) /\ n \in 0..Len(table)
    BY <1>1, SeqTypes
  <2> QED
    BY <1>2, <2>1, ElemsSplit
<1>5. Len(table') = IF excess[w] <= Len(table) THEN Len(table) - excess[w] ELSE 0
  BY <1>1, <1>3, <1>4, SeqTypes
<1> QED
  BY <1>2, <1>4, <1>5

-----------------------------------------------------------------------------
(* What the flusher leaves alone.                                          *)
LEMMA FlusherFrame ==
  Flusher => UNCHANGED <<created, readerQ, running, drained, pending, dispPc, hand,
                         trimPc, excess, untrimmed, trimmed, lost>>
  BY DEF Flusher, PeekRows, FlushSent, FlushFails, FlushRejected, DeleteRow, LookUpRejected,
         MoveToDeadLetter, BackoffOver, FlusherDies, mem, disp, db, trim, flusher, server

(* How many writers have a trim due.                                       *)
LEMMA DueCount ==
  /\ Cardinality({w \in Writers : trimPc[w] # "none"}) = Due("main") + Due("dispatcher")
  /\ Due("main") \in {0, 1} /\ Due("dispatcher") \in {0, 1}
<1> DEFINE D == {w \in Writers : trimPc[w] # "none"}
<1>1. Cardinality({}) = 0 /\ Cardinality({"main"}) = 1 /\ Cardinality({"dispatcher"}) = 1
  BY FS_EmptySet, FS_Singleton
<1>2. Cardinality({"main", "dispatcher"}) = 2
  <2>1. IsFiniteSet({"main"}) /\ "dispatcher" \notin {"main"}
    BY FS_Singleton
  <2>2. Cardinality({"main"} \cup {"dispatcher"}) = Cardinality({"main"}) + 1
    BY <2>1, FS_AddElement
  <2>3. {"main"} \cup {"dispatcher"} = {"main", "dispatcher"}
    OBVIOUS
  <2> QED
    BY <1>1, <2>2, <2>3
<1>3. CASE Due("main") = 0 /\ Due("dispatcher") = 0
  <2>1. D = {}
    BY <1>3 DEF Due, Writers
  <2> QED
    BY <1>1, <1>3, <2>1
<1>4. CASE Due("main") = 1 /\ Due("dispatcher") = 0
  <2>1. D = {"main"}
    BY <1>4 DEF Due, Writers
  <2> QED
    BY <1>1, <1>4, <2>1
<1>5. CASE Due("main") = 0 /\ Due("dispatcher") = 1
  <2>1. D = {"dispatcher"}
    BY <1>5 DEF Due, Writers
  <2> QED
    BY <1>1, <1>5, <2>1
<1>6. CASE Due("main") = 1 /\ Due("dispatcher") = 1
  <2>1. D = {"main", "dispatcher"}
    BY <1>6 DEF Due, Writers
  <2> QED
    BY <1>2, <1>6, <2>1
<1> QED
  BY <1>3, <1>4, <1>5, <1>6 DEF Due

LEMMA OneInterrupted ==
  ASSUME NEW w \in Writers, trimPc[w] # "none", InterruptedTrims({w})
  PROVE  /\ untrimmed' = untrimmed + 1
         /\ trimPc' = [v \in Writers |-> IF v = w THEN "none" ELSE trimPc[v]]
         /\ excess' = [v \in Writers |-> IF v = w THEN 0 ELSE excess[v]]
<1>1. {v \in {w} : trimPc[v] # "none"} = {w}
  OBVIOUS
<1>2. Cardinality({w}) = 1
  BY FS_Singleton
<1> QED
  BY <1>1, <1>2 DEF InterruptedTrims

LEMMA AllInterrupted ==
  ASSUME untrimmed \in Nat, InterruptedTrims(Writers)
  PROVE  /\ untrimmed' = untrimmed + Due("main") + Due("dispatcher")
         /\ trimPc' = [w \in Writers |-> "none"] /\ excess' = [w \in Writers |-> 0]
<1>1. untrimmed' = untrimmed + (Due("main") + Due("dispatcher"))
  BY DueCount DEF InterruptedTrims
<1>2. trimPc' = [w \in Writers |-> "none"] /\ excess' = [w \in Writers |-> 0]
  BY DEF InterruptedTrims
<1> QED
  BY <1>1, <1>2, DueCount

-----------------------------------------------------------------------------
(* Types.  That a fault can end no more trims than there were puts is a    *)
(* count of where each event is.                                           *)
ShapesOK ==
  /\ created \in 0..MaxEvents /\ running \in BOOLEAN
  /\ readerQ \in Seq(Events) /\ drained \in Seq(Events) /\ pending \in Seq(Events)
  /\ table \in Seq(Events) /\ todo \in Seq(Events)
  /\ Len(drained) <= DrainMax /\ Len(pending) <= QueueSize /\ Len(todo) <= FlushBatch
  /\ dispPc \in {"get", "send", "put", "dead"} /\ hand \in 0..MaxEvents
  /\ flushPc \in {"peek", "send", "delete", "reject", "move", "backoff", "dead"}
  /\ trimPc \in [Writers -> {"none", "count", "trim"}] /\ excess \in [Writers -> Nat]
  /\ untrimmed \in Nat
  /\ deadLetters \subseteq Events /\ delivered \subseteq Events /\ again \subseteq Events
  /\ unsure \subseteq Events /\ trimmed \subseteq Events /\ lost \subseteq Events

LEMMA TypeIsShape == TypeOK => ShapesOK
  BY PipelineAssumption DEF TypeOK, ShapesOK

LEMMA ElemsAreEvents == ASSUME NEW s \in Seq(Events) PROVE Elems(s) \subseteq Events
  BY ElementOfSeq, LenProperties DEF Elems

LEMMA HeadOfTodo ==
  ASSUME TypeOK, AtStage, flushPc \in {"send", "delete", "reject", "move"}
  PROVE  todo # <<>> /\ Head(todo) \in Events /\ Head(todo) \in Elems(todo)
  BY SeqTypes, ElemsTail DEF AtStage

LEMMA HandIsEvent ==
  ASSUME TypeOK, AtStage, dispPc \in {"send", "put"}
  PROVE  hand \in Events /\ hand # NoEvent
  BY DEF TypeOK, AtStage, Events, NoEvent

LEMMA ShapesStep ==
  ASSUME TypeOK, AtStage, Next
  PROVE  ShapesOK'
<1> USE DEF mem, disp, db, trim, flusher, server
<1>0. ShapesOK
  BY TypeIsShape
<1>1. CASE Report
  BY <1>0, <1>1, ReportEffect DEF Report, ShapesOK, Events
<1>2. CASE Drain
  BY <1>0, <1>2, DrainEffect DEF Drain, ShapesOK
<1>3. CASE Submit
  BY <1>0, <1>3, SubmitEffect, SeqTypes, PipelineAssumption DEF Submit, ShapesOK
<1>4. CASE Overflow
  <2>1. Head(drained) \in Events /\ InsertBy("main", Head(drained)) /\ "main" \in Writers
    BY <1>4, OverflowEffect DEF Writers
  <2>2. /\ table' \in Seq(Events) /\ trimPc' \in [Writers -> {"none", "count", "trim"}]
        /\ UNCHANGED <<excess, untrimmed, deadLetters>>
    BY <1>0, <2>1, InsertEffect DEF ShapesOK
  <2>3. drained' \in Seq(Events) /\ Len(drained') <= DrainMax
    BY <1>0, <1>4, OverflowEffect, SeqTypes, PipelineAssumption DEF ShapesOK
  <2> QED
    BY <1>0, <1>4, <2>2, <2>3 DEF Overflow, ShapesOK
<1>5. ASSUME NEW w \in Writers, CountRows(w) PROVE ShapesOK'
  <2>1. OverLimit => Len(table) - MaxRows \in Nat
    BY SeqTypes, PipelineAssumption DEF OverLimit
  <2> QED
    BY <1>0, <1>5, <2>1 DEF CountRows, ShapesOK
<1>6. ASSUME NEW w \in Writers, DeleteOldest(w) PROVE ShapesOK'
  <2>1. Elems(table) \subseteq Events
    BY SeqTypes, ElemsAreEvents
  <2>2. table' \in Seq(Events) /\ trimmed' \subseteq Events
    BY <1>0, <1>6, <2>1, DeleteOldestEffect DEF ShapesOK
  <2> QED
    BY <1>0, <1>6, <2>2 DEF DeleteOldest, ShapesOK
<1>7. ASSUME NEW w \in Writers, TrimFails(w) PROVE ShapesOK'
  <2>1. untrimmed' \in Nat /\ trimPc' \in [Writers -> {"none", "count", "trim"}]
        /\ excess' \in [Writers -> Nat]
    <3>1. /\ untrimmed' = untrimmed + 1
          /\ trimPc' = [v \in Writers |-> IF v = w THEN "none" ELSE trimPc[v]]
          /\ excess' = [v \in Writers |-> IF v = w THEN 0 ELSE excess[v]]
      BY <1>7, OneInterrupted DEF TrimFails
    <3> QED
      BY <1>0, <3>1 DEF ShapesOK
  <2> QED
    BY <1>0, <1>7, <2>1 DEF TrimFails, ShapesOK
<1>8. CASE TakePending
  <2>1. pending' \in Seq(Events) /\ hand' \in 0..MaxEvents
    BY <1>8, TakeEffect, PipelineAssumption DEF Events
  <2>2. Len(pending') <= QueueSize
    BY <1>0, <1>8, TakeEffect, SeqTypes, PipelineAssumption DEF ShapesOK
  <2> QED
    BY <1>0, <1>8, <2>1, <2>2 DEF TakePending, ShapesOK
<1>9. CASE DispatchSent
  BY <1>0, <1>9, HandIsEvent, PipelineAssumption DEF DispatchSent, Answered, Accepted, ShapesOK, NoEvent
<1>10. CASE DispatchFails
  BY <1>0, <1>10, HandIsEvent DEF DispatchFails, NotAccepted, AnswerLost, Accepted, ShapesOK
<1>11. CASE DispatchBuffers
  <2>1. hand \in Events /\ InsertBy("dispatcher", hand) /\ "dispatcher" \in Writers
    BY <1>11, HandIsEvent DEF DispatchBuffers, Writers
  <2>2. /\ table' \in Seq(Events) /\ trimPc' \in [Writers -> {"none", "count", "trim"}]
        /\ UNCHANGED <<excess, untrimmed, deadLetters>>
    BY <1>0, <2>1, InsertEffect DEF ShapesOK
  <2> QED
    BY <1>0, <1>11, <2>2, PipelineAssumption DEF DispatchBuffers, ShapesOK, NoEvent
<1>12. CASE DispatcherDies
  BY <1>0, <1>12, HandIsEvent, PipelineAssumption DEF DispatcherDies, ShapesOK, NoEvent
<1>13. CASE PeekRows
  BY <1>0, <1>13, PeekEffect DEF PeekRows, ShapesOK
<1>14. CASE FlushSent
  BY <1>0, <1>14, HeadOfTodo DEF FlushSent, Answered, Accepted, ShapesOK
<1>15. CASE FlushFails
  <2>1. todo' \in Seq(Events) /\ Len(todo') <= FlushBatch
    BY <1>15, NoElems, EmptySeq, PipelineAssumption DEF FlushFails
  <2> QED
    BY <1>0, <1>15, <2>1, HeadOfTodo DEF FlushFails, NotAccepted, AnswerLost, Accepted, ShapesOK
<1>16. CASE FlushRejected
  BY <1>0, <1>16 DEF FlushRejected, ShapesOK
<1>17. CASE DeleteRow
  <2>1. Deleted(Head(todo)) /\ NextRow /\ todo # <<>>
    BY <1>17, HeadOfTodo DEF DeleteRow
  <2> QED
    BY <1>0, <1>17, <2>1, DeletedEffect, NextRowEffect, SeqTypes, PipelineAssumption DEF DeleteRow, ShapesOK
<1>18. CASE LookUpRejected
  <2>1. todo # <<>>
    BY <1>18, HeadOfTodo DEF LookUpRejected
  <2>2. NextRow \/ (todo' = todo /\ flushPc' = "move")
    BY <1>18 DEF LookUpRejected
  <2>3. todo' \in Seq(Events) /\ Len(todo') <= FlushBatch /\ flushPc' \in {"peek", "send", "move"}
    BY <1>0, <2>1, <2>2, NextRowEffect, SeqTypes, PipelineAssumption DEF ShapesOK
  <2> QED
    BY <1>0, <1>18, <2>3 DEF LookUpRejected, ShapesOK
<1>19. CASE MoveToDeadLetter
  <2>1. Deleted(Head(todo)) /\ NextRow /\ todo # <<>> /\ Head(todo) \in Events
    BY <1>19, HeadOfTodo DEF MoveToDeadLetter
  <2> QED
    BY <1>0, <1>19, <2>1, DeletedEffect, NextRowEffect, SeqTypes, PipelineAssumption
    DEF MoveToDeadLetter, ShapesOK
<1>20. CASE BackoffOver
  BY <1>0, <1>20 DEF BackoffOver, ShapesOK
<1>21. CASE FlusherDies
  BY <1>0, <1>21, NoElems, EmptySeq, PipelineAssumption DEF FlusherDies, ShapesOK
<1>22. CASE Crash
  <2>1. InMemory \subseteq Events
    BY <1>0, ElemsAreEvents DEF InMemory, ShapesOK, Events, NoEvent
  <2>2. untrimmed' \in Nat /\ trimPc' \in [Writers -> {"none", "count", "trim"}]
        /\ excess' \in [Writers -> Nat]
    BY <1>0, <1>22, AllInterrupted, DueCount DEF Crash, ShapesOK
  <2>3. /\ <<>> \in Seq(Events)
        /\ Len(<<>>) <= DrainMax /\ Len(<<>>) <= QueueSize /\ Len(<<>>) <= FlushBatch
        /\ NoEvent \in 0..MaxEvents
    BY EmptySeq, PipelineAssumption DEF NoEvent
  <2>4. lost' \subseteq Events /\ unsure' \subseteq Events
    BY <1>0, <1>22, <2>1 DEF Crash, ShapesOK
  <2> QED
    BY <1>0, <1>22, <2>2, <2>3, <2>4 DEF Crash, ShapesOK
<1>23. CASE Restart
  BY <1>0, <1>23 DEF Restart, ShapesOK
<1> QED
  BY <1>1, <1>2, <1>3, <1>4, <1>5, <1>6, <1>7, <1>8, <1>9, <1>10, <1>11, <1>12, <1>13, <1>14, <1>15,
     <1>16, <1>17, <1>18, <1>19, <1>20, <1>21, <1>22, <1>23
  DEF Next, MainLoop, Trims, Dispatcher, Flusher

LEMMA NoMore ==
  \A owed, carried, owed1, carried1, n \in Nat :
    owed + carried <= n /\ owed1 <= owed /\ carried1 <= carried => owed1 + carried1 <= n
  OBVIOUS

(* Each event that was reported is in one place of memory, or was put: a   *)
(* put is followed by one trim, of which one fault makes one interrupted.  *)
LEMMA CountedStep ==
  ASSUME TypeOK, Counted, AtStage, ShapesOK', Next
  PROVE  Counted'
<1> USE DEF mem, disp, db, trim, flusher, server
<1>0. /\ untrimmed \in Nat /\ untrimmed' \in Nat
      /\ Len(readerQ) \in Nat /\ Len(drained) \in Nat /\ Len(pending) \in Nat
      /\ Len(readerQ') \in Nat /\ Len(drained') \in Nat /\ Len(pending') \in Nat
  BY SeqTypes, LenProperties, PipelineAssumption DEF ShapesOK, TypeOK
<1>d. /\ Due("main") \in {0, 1} /\ Due("dispatcher") \in {0, 1}
      /\ Due("main")' \in {0, 1} /\ Due("dispatcher")' \in {0, 1}
  BY DEF Due
<1>t. trimPc \in [Writers -> {"none", "count", "trim"}]
  BY DEF TypeOK
<1>c. created \in Nat /\ created' \in Nat /\ Owed + Carried <= created
  BY PipelineAssumption DEF ShapesOK, TypeOK, Counted
<1>n. Owed \in Nat /\ Owed' \in Nat /\ Carried \in Nat /\ Carried' \in Nat
  BY <1>0, <1>d DEF Owed, Carried
<1>1. CASE Report
  <2>1. created' = created + 1 /\ Carried' = Carried + 1
    BY <1>0, <1>1, ReportEffect DEF Report, Carried
  <2>2. Owed' = Owed
    BY <1>1 DEF Report, Owed, Due
  <2> QED
    BY <1>c, <1>n, <2>1, <2>2 DEF Counted
<1>2. CASE Drain
  <2>1. Len(drained) = 0 /\ Len(readerQ') + Len(drained') = Len(readerQ)
    BY <1>2, DrainEffect, NoElems
  <2>2. Carried' = Carried
    <3>1. Len(readerQ) + Len(drained) = Len(readerQ') + Len(drained')
      BY <1>0, <2>1
    <3>2. UNCHANGED <<pending, hand>>
      BY <1>2 DEF Drain
    <3> QED
      BY <1>0, <3>1, <3>2 DEF Carried
  <2>3. Owed' = Owed /\ created' = created
    BY <1>2 DEF Drain, Owed, Due
  <2> QED
    BY <1>c, <1>n, <2>2, <2>3 DEF Counted
<1>3. CASE Submit
  <2>1. Len(drained') = Len(drained) - 1 /\ Len(pending') = Len(pending) + 1
    BY <1>3, SubmitEffect
  <2>2. Carried' = Carried
    BY <1>0, <1>3, <2>1 DEF Submit, Carried
  <2>3. Owed' = Owed /\ created' = created
    BY <1>3 DEF Submit, Owed, Due
  <2> QED
    BY <1>c, <1>n, <2>2, <2>3 DEF Counted
<1>4. CASE Overflow
  <2>1. /\ Len(drained') = Len(drained) - 1 /\ Head(drained) \in Events
        /\ InsertBy("main", Head(drained)) /\ "main" \in Writers
    BY <1>4, OverflowEffect DEF Writers
  <2>2. trimPc["main"] = "none" /\ trimPc' = [trimPc EXCEPT !["main"] = "count"] /\ UNCHANGED untrimmed
    BY <2>1, InsertEffect
  <2>3. Due("main") = 0 /\ Due("main")' = 1 /\ Due("dispatcher")' = Due("dispatcher")
    BY <1>t, <2>2 DEF Due, Writers
  <2>4. Owed' = Owed + 1
    BY <1>0, <1>d, <2>2, <2>3 DEF Owed
  <2>5. Carried' = Carried - 1 /\ created' = created
    BY <1>0, <1>4, <2>1 DEF Overflow, Carried
  <2> QED
    BY <1>c, <1>n, <2>4, <2>5 DEF Counted
<1>5. ASSUME NEW w \in Writers, CountRows(w) \/ DeleteOldest(w) PROVE Counted'
  <2>1. trimPc[w] # "none" /\ trimPc' \in {[trimPc EXCEPT ![w] = v] : v \in {"none", "trim"}}
    BY <1>5 DEF CountRows, DeleteOldest
  <2>2. Due("main")' <= Due("main") /\ Due("dispatcher")' <= Due("dispatcher")
    BY <1>t, <2>1 DEF Due, Writers
  <2>3. UNCHANGED <<created, readerQ, drained, pending, hand, untrimmed>>
    BY <1>5 DEF CountRows, DeleteOldest
  <2>4. Owed' <= Owed
    BY <1>0, <1>d, <2>2, <2>3 DEF Owed
  <2>5. Carried' <= Carried
    BY <1>n, <2>3 DEF Carried
  <2> QED
    BY <1>c, <1>n, <2>3, <2>4, <2>5, NoMore DEF Counted
<1>6. ASSUME NEW w \in Writers, TrimFails(w) PROVE Counted'
  <2>1. /\ trimPc[w] # "none" /\ untrimmed' = untrimmed + 1
        /\ trimPc' = [v \in Writers |-> IF v = w THEN "none" ELSE trimPc[v]]
    BY <1>6, OneInterrupted DEF TrimFails
  <2>2. Due("main")' + Due("dispatcher")' + 1 = Due("main") + Due("dispatcher")
    BY <1>t, <2>1 DEF Due, Writers
  <2>3. Owed' = Owed
    BY <1>0, <1>d, <2>1, <2>2 DEF Owed
  <2>4. Carried' = Carried /\ created' = created
    BY <1>6 DEF TrimFails, Carried
  <2> QED
    BY <1>c, <1>n, <2>3, <2>4 DEF Counted
<1>7. CASE TakePending
  <2>1. Len(pending') = Len(pending) - 1 /\ hand = NoEvent
    BY <1>7, TakeEffect DEF TakePending, AtStage
  <2>2. Carried' <= Carried
    BY <1>0, <1>7, <2>1 DEF TakePending, Carried
  <2>3. Owed' <= Owed /\ created' = created
    BY <1>7, <1>n DEF TakePending, Owed, Due
  <2> QED
    BY <1>c, <1>n, <2>2, <2>3, NoMore DEF Counted
<1>8. CASE DispatchSent \/ DispatchFails \/ DispatcherDies
  <2>1. hand' = hand \/ hand' = NoEvent
    BY <1>8 DEF DispatchSent, DispatchFails, DispatcherDies
  <2>2. UNCHANGED <<created, readerQ, drained, pending, trimPc, untrimmed>>
    BY <1>8 DEF DispatchSent, DispatchFails, DispatcherDies
  <2>3. Carried' <= Carried
    BY <1>0, <2>1, <2>2 DEF Carried
  <2>4. Owed' <= Owed
    BY <1>n, <2>2 DEF Owed, Due
  <2> QED
    BY <1>c, <1>n, <2>2, <2>3, <2>4, NoMore DEF Counted
<1>9. CASE DispatchBuffers
  <2>1. /\ hand \in Events /\ hand # NoEvent /\ hand' = NoEvent
        /\ InsertBy("dispatcher", hand) /\ "dispatcher" \in Writers
    BY <1>9, HandIsEvent DEF DispatchBuffers, Writers
  <2>2. /\ trimPc["dispatcher"] = "none" /\ trimPc' = [trimPc EXCEPT !["dispatcher"] = "count"]
        /\ UNCHANGED untrimmed
    BY <2>1, InsertEffect
  <2>3. Due("dispatcher") = 0 /\ Due("dispatcher")' = 1 /\ Due("main")' = Due("main")
    BY <1>t, <2>2 DEF Due, Writers
  <2>4. Owed' = Owed + 1
    BY <1>0, <1>d, <2>2, <2>3 DEF Owed
  <2>5. Carried' = Carried - 1 /\ created' = created
    BY <1>0, <1>9, <2>1 DEF DispatchBuffers, Carried
  <2> QED
    BY <1>c, <1>n, <2>4, <2>5 DEF Counted
<1>10. CASE Flusher
  BY <1>10, FlusherFrame DEF Counted, Owed, Carried, Due
<1>11. CASE Crash
  <2>1. /\ untrimmed' = untrimmed + Due("main") + Due("dispatcher")
        /\ trimPc' = [w \in Writers |-> "none"]
    BY <1>0, <1>11, AllInterrupted DEF Crash
  <2>2. Due("main")' = 0 /\ Due("dispatcher")' = 0
    BY <2>1 DEF Due, Writers
  <2>3. Owed' = Owed
    BY <1>0, <1>d, <2>1, <2>2 DEF Owed
  <2>4. Carried' = 0 /\ created' = created
    BY <1>11, NoElems DEF Crash, Carried
  <2> QED
    BY <1>c, <1>n, <2>3, <2>4 DEF Counted
<1>12. CASE Restart
  BY <1>12 DEF Restart, Counted, Owed, Carried, Due
<1> QED
  BY <1>1, <1>2, <1>3, <1>4, <1>5, <1>6, <1>7, <1>8, <1>9, <1>10, <1>11, <1>12
  DEF Next, MainLoop, Trims, Dispatcher

LEMMA AtStageStep ==
  ASSUME TypeOK, AtStage, Next
  PROVE  AtStage'
<1> USE DEF mem, disp, db, trim, flusher, server
<1>1. CASE Report \/ MainLoop \/ Trims \/ Restart
  BY <1>1 DEF Report, MainLoop, Drain, Submit, Overflow, Trims, CountRows, DeleteOldest, TrimFails,
              Restart, AtStage
<1>2. CASE Dispatcher
  <2>1. UNCHANGED <<todo, flushPc>> /\ delivered \subseteq delivered'
    BY <1>2 DEF Dispatcher, TakePending, DispatchSent, DispatchFails, DispatchBuffers,
                DispatcherDies, Answered, AnswerLost, NotAccepted, Accepted
  <2>2. hand' # NoEvent <=> dispPc' \in {"send", "put"}
    <3>1. CASE TakePending
      <4>1. hand' # NoEvent
        BY <3>1, TakeEffect DEF Events, NoEvent
      <4> QED
        BY <3>1, <4>1 DEF TakePending
    <3> QED
      BY <1>2, <3>1 DEF Dispatcher, DispatchSent, DispatchFails, DispatchBuffers, DispatcherDies, AtStage
  <2> QED
    BY <2>1, <2>2 DEF AtStage
<1>3. CASE PeekRows
  BY <1>3, PeekEffect DEF PeekRows, AtStage
<1>4. CASE FlushSent
  BY <1>4 DEF FlushSent, Answered, Accepted, AtStage
<1>5. CASE FlushFails \/ BackoffOver \/ FlusherDies
  BY <1>5 DEF FlushFails, BackoffOver, FlusherDies, AtStage
<1>6. CASE FlushRejected
  BY <1>6 DEF FlushRejected, Permanent, AtStage
<1>7. CASE DeleteRow \/ MoveToDeadLetter
  <2>1. todo # <<>> /\ NextRow /\ UNCHANGED <<hand, dispPc>>
    BY <1>7, HeadOfTodo DEF DeleteRow, MoveToDeadLetter
  <2> QED
    BY <2>1, NextRowEffect DEF AtStage
<1>8. CASE LookUpRejected
  <2>1. todo # <<>> /\ UNCHANGED <<hand, dispPc, delivered>> /\ flushPc = "reject"
    BY <1>8, HeadOfTodo DEF LookUpRejected
  <2>2. NextRow \/ (todo' = todo /\ flushPc' = "move")
    BY <1>8 DEF LookUpRejected
  <2> QED
    BY <2>1, <2>2, NextRowEffect DEF AtStage
<1>9. CASE Crash
  BY <1>9 DEF Crash, AtStage
<1> QED
  BY <1>1, <1>2, <1>3, <1>4, <1>5, <1>6, <1>7, <1>8, <1>9 DEF Next, Flusher

-----------------------------------------------------------------------------
LEMMA CreatedGrows ==
  ASSUME TypeOK, Next
  PROVE  created \in Nat /\ created' \in Nat /\ 1..created \subseteq 1..created'
<1> USE DEF mem, disp, db, trim, flusher, server
<1>1. created \in Nat
  BY DEF TypeOK
<1>2. CASE Report
  BY <1>1, <1>2 DEF Report
<1>3. CASE MainLoop \/ Trims \/ Crash \/ Restart
  BY <1>1, <1>3 DEF MainLoop, Drain, Submit, Overflow, Trims, CountRows, DeleteOldest, TrimFails,
                    Crash, Restart
<1>4. CASE Dispatcher
  BY <1>1, <1>4 DEF Dispatcher, TakePending, DispatchSent, DispatchFails, DispatchBuffers, DispatcherDies
<1>5. CASE Flusher
  BY <1>1, <1>5, FlusherFrame
<1> QED
  BY <1>2, <1>3, <1>4, <1>5 DEF Next

(* An event is in one place at a time.                                     *)
LEMMA OneHolderStep ==
  ASSUME TypeOK, AtStage, OneHolder, Next
  PROVE  OneHolder'
<1> USE DEF mem, disp, db, trim, flusher, server, Waiting, Held, OnDisk
<1>0. created \in Nat /\ created' \in Nat /\ 1..created \subseteq 1..created'
  BY CreatedGrows
<1>1. CASE Report
  <2>1. created' \notin 1..created /\ created' \in 1..created'
    BY <1>0, <1>1 DEF Report
  <2>2. created' \notin Waiting \cup Held \cup OnDisk /\ created' # hand
    BY <1>0, <2>1, <1>1 DEF OneHolder, Report, NoEvent
  <2>3. UNCHANGED <<drained, pending, hand, table, todo, deadLetters>>
    BY <1>1 DEF Report
  <2> QED
    BY <1>0, <1>1, <2>1, <2>2, <2>3, ReportEffect DEF OneHolder
<1>2. CASE Drain
  <2>1. Elems(drained) = {}
    BY <1>2, DrainEffect, NoElems
  <2>2. UNCHANGED <<created, pending, hand, table, todo, deadLetters>>
    BY <1>2 DEF Drain
  <2> QED
    BY <1>2, <2>1, <2>2, DrainEffect DEF OneHolder
<1>3. CASE Submit
  <2>1. UNCHANGED <<created, readerQ, hand, table, todo, deadLetters>>
    BY <1>3 DEF Submit
  <2> QED
    BY <1>3, <2>1, SubmitEffect DEF OneHolder
<1>4. CASE Overflow
  <2>1. UNCHANGED <<created, readerQ, pending, hand, todo, deadLetters>>
    BY <1>4, OverflowEffect DEF Overflow, InsertBy
  <2>2. /\ Elems(table') = Elems(table) \cup {Head(drained)}
        /\ Head(drained) \notin Elems(table) /\ Distinct(table')
    BY <1>4, OverflowEffect, InsertEffect DEF OneHolder, Writers
  <2> QED
    BY <1>4, <2>1, <2>2, OverflowEffect DEF OneHolder
<1>5. ASSUME NEW w \in Writers, DeleteOldest(w) PROVE OneHolder'
  <2>1. UNCHANGED <<created, readerQ, drained, pending, hand, todo, deadLetters>>
    BY <1>5 DEF DeleteOldest
  <2> QED
    BY <1>5, <2>1, DeleteOldestEffect DEF OneHolder
<1>6. CASE TakePending
  <2>1. UNCHANGED <<created, readerQ, drained, table, todo, deadLetters>> /\ hand = NoEvent
    BY <1>6 DEF TakePending, AtStage
  <2>2. hand' # NoEvent
    BY <1>6, TakeEffect DEF Events, NoEvent
  <2> QED
    BY <1>6, <2>1, <2>2, TakeEffect DEF OneHolder
<1>7. CASE DispatchSent \/ DispatchFails \/ DispatcherDies
  <2>1. UNCHANGED <<created, readerQ, drained, pending, table, todo, deadLetters>>
    BY <1>7 DEF DispatchSent, DispatchFails, DispatcherDies
  <2>2. (hand' = hand \/ hand' = NoEvent) /\ NoEvent \notin Waiting
    BY <1>7, <1>0 DEF DispatchSent, DispatchFails, DispatcherDies, OneHolder, NoEvent
  <2> QED
    BY <2>1, <2>2 DEF OneHolder
<1>8. CASE DispatchBuffers
  <2>1. UNCHANGED <<created, readerQ, drained, pending, todo, deadLetters>> /\ hand' = NoEvent
    BY <1>8 DEF DispatchBuffers, InsertBy
  <2>2. hand \in Events /\ hand # NoEvent /\ NoEvent \notin Waiting
    BY <1>8, <1>0, HandIsEvent DEF DispatchBuffers, OneHolder, NoEvent
  <2>3. Elems(table') = Elems(table) \cup {hand} /\ hand \notin Elems(table) /\ Distinct(table')
    BY <1>8, <2>2, InsertEffect DEF DispatchBuffers, OneHolder, Writers
  <2> QED
    BY <2>1, <2>2, <2>3 DEF OneHolder
<1>9. CASE PeekRows
  <2>1. UNCHANGED <<created, readerQ, drained, pending, hand, table, deadLetters>>
    BY <1>9 DEF PeekRows
  <2> QED
    BY <1>9, <2>1, PeekEffect DEF OneHolder
<1>10. CASE DeleteRow
  <2>1. todo # <<>> /\ NextRow /\ Deleted(Head(todo))
    BY <1>10, HeadOfTodo DEF DeleteRow
  <2>2. UNCHANGED <<created, readerQ, drained, pending, hand, deadLetters>>
    BY <1>10 DEF DeleteRow
  <2> QED
    BY <2>1, <2>2, NextRowEffect, DeletedEffect DEF OneHolder
<1>11. CASE LookUpRejected
  <2>1. todo # <<>> /\ (NextRow \/ UNCHANGED todo)
    BY <1>11, HeadOfTodo DEF LookUpRejected
  <2>2. UNCHANGED <<created, readerQ, drained, pending, hand, table, deadLetters>>
    BY <1>11 DEF LookUpRejected
  <2>3. CASE NextRow
    BY <2>1, <2>2, <2>3, NextRowEffect DEF OneHolder
  <2>4. CASE UNCHANGED todo
    BY <2>2, <2>4 DEF OneHolder
  <2> QED
    BY <2>1, <2>3, <2>4
<1>12. CASE MoveToDeadLetter
  <2>1. /\ todo # <<>> /\ Head(todo) \in Elems(todo) /\ NextRow /\ Deleted(Head(todo))
        /\ deadLetters' = deadLetters \cup {Head(todo)}
    BY <1>12, HeadOfTodo DEF MoveToDeadLetter
  <2>2. UNCHANGED <<created, readerQ, drained, pending, hand>>
    BY <1>12 DEF MoveToDeadLetter
  <2> QED
    BY <2>1, <2>2, NextRowEffect, DeletedEffect DEF OneHolder
<1>13. CASE FlushFails \/ FlusherDies
  <2>1. UNCHANGED <<created, readerQ, drained, pending, hand, table, deadLetters>> /\ todo' = <<>>
    BY <1>13 DEF FlushFails, FlusherDies
  <2> QED
    BY <2>1, NoElems DEF OneHolder
<1>14. CASE Crash
  <2>1. /\ readerQ' = <<>> /\ drained' = <<>> /\ pending' = <<>> /\ todo' = <<>> /\ hand' = NoEvent
        /\ UNCHANGED <<created, table, deadLetters>>
    BY <1>14 DEF Crash
  <2> QED
    BY <2>1, NoElems DEF OneHolder
<1>15. CASE FlushSent \/ FlushRejected \/ BackoffOver \/ Restart
  BY <1>15 DEF FlushSent, FlushRejected, BackoffOver, Restart, OneHolder
<1>16. ASSUME NEW w \in Writers, CountRows(w) \/ TrimFails(w) PROVE OneHolder'
  BY <1>16 DEF CountRows, TrimFails, OneHolder
<1> QED
  BY <1>1, <1>2, <1>3, <1>4, <1>5, <1>6, <1>7, <1>8, <1>9, <1>10, <1>11, <1>12, <1>13, <1>14,
     <1>15, <1>16
  DEF Next, MainLoop, Trims, Dispatcher, Flusher

-----------------------------------------------------------------------------
(* What the server has got the device still holds only for a reason.       *)
LEMMA AcceptedOnce ==
  ASSUME NEW e, Accepted(e), again \subseteq unsure
  PROVE  /\ delivered' = delivered \cup {e} /\ e \notin Bad
         /\ e \notin delivered => again' \subseteq unsure
         /\ again' \subseteq unsure \cup {e}
  BY DEF Accepted

LEMMA ExplainedStep ==
  ASSUME TypeOK, AtStage, OneHolder, Explained, Next
  PROVE  Explained'
<1> USE DEF mem, disp, db, trim, flusher, server, Waiting
<1>0. 1..created \subseteq 1..created'
  BY CreatedGrows
<1>1. CASE Report
  <2>1. created' \notin delivered
    BY <1>1, CreatedGrows DEF Report, Explained
  <2>2. UNCHANGED <<drained, pending, hand, dispPc, table, todo, flushPc, delivered, again, unsure>>
    BY <1>1 DEF Report
  <2> QED
    BY <1>0, <1>1, <2>1, <2>2, ReportEffect DEF Explained
<1>2. CASE Drain
  <2>1. UNCHANGED <<created, pending, hand, dispPc, table, todo, flushPc, delivered, again, unsure>>
    BY <1>2 DEF Drain
  <2> QED
    BY <1>2, <2>1, DrainEffect DEF Explained
<1>3. CASE Submit
  <2>1. UNCHANGED <<created, readerQ, hand, dispPc, table, todo, flushPc, delivered, again, unsure>>
    BY <1>3 DEF Submit
  <2> QED
    BY <1>3, <2>1, SubmitEffect DEF Explained
<1>4. CASE Overflow
  <2>1. UNCHANGED <<created, readerQ, pending, hand, dispPc, todo, flushPc, delivered, again, unsure>>
    BY <1>4 DEF Overflow
  <2>2. Elems(table') = Elems(table) \cup {Head(drained)} /\ Head(drained) \notin delivered
    BY <1>4, OverflowEffect, InsertEffect DEF Explained, Writers
  <2> QED
    BY <1>4, <2>1, <2>2, OverflowEffect DEF Explained
<1>5. ASSUME NEW w \in Writers, DeleteOldest(w) PROVE Explained'
  <2>1. UNCHANGED <<created, readerQ, drained, pending, hand, dispPc, todo, flushPc, delivered, again, unsure>>
    BY <1>5 DEF DeleteOldest
  <2> QED
    BY <1>5, <2>1, DeleteOldestEffect DEF Explained
<1>6. CASE TakePending
  <2>1. UNCHANGED <<created, readerQ, drained, table, todo, flushPc, delivered, again, unsure>>
    BY <1>6 DEF TakePending
  <2>2. hand' \notin delivered
    BY <1>6, TakeEffect DEF Explained
  <2> QED
    BY <1>6, <2>1, <2>2, TakeEffect DEF Explained
<1>7. CASE DispatchSent
  <2>1. /\ hand \in Events /\ hand # NoEvent /\ hand \notin delivered /\ hand' = NoEvent
        /\ hand \notin Waiting /\ hand \notin Elems(table) \cup Elems(todo) /\ hand \in 1..created
    BY <1>7, HandIsEvent DEF DispatchSent, Explained, OneHolder, Held, OnDisk
  <2>2. UNCHANGED <<created, readerQ, drained, pending, table, todo, flushPc, unsure>>
    BY <1>7 DEF DispatchSent, Answered
  <2>3. delivered' = delivered \cup {hand} /\ again' \subseteq unsure
    BY <1>7, <2>1, AcceptedOnce DEF DispatchSent, Answered, Explained
  <2>4. NoEvent \notin 1..created
    BY DEF NoEvent
  <2> QED
    BY <2>1, <2>2, <2>3, <2>4 DEF Explained
<1>8. CASE DispatchFails
  <2>1. /\ hand \in Events /\ hand # NoEvent /\ hand \notin delivered /\ hand' = hand /\ dispPc' = "put"
        /\ hand \notin Waiting /\ hand \notin Elems(table) \cup Elems(todo) /\ hand \in 1..created
    BY <1>8, HandIsEvent DEF DispatchFails, Explained, OneHolder, Held, OnDisk
  <2>2. UNCHANGED <<created, readerQ, drained, pending, table, todo, flushPc>>
    BY <1>8 DEF DispatchFails
  <2>3. CASE NotAccepted
    BY <2>1, <2>2, <2>3 DEF NotAccepted, Explained
  <2>4. CASE AnswerLost(hand)
    <3>1. delivered' = delivered \cup {hand} /\ again' \subseteq unsure /\ unsure' = unsure \cup {hand}
      BY <2>1, <2>4, AcceptedOnce DEF AnswerLost, Explained
    <3> QED
      BY <2>1, <2>2, <3>1 DEF Explained
  <2> QED
    BY <1>8, <2>3, <2>4 DEF DispatchFails
<1>9. CASE DispatchBuffers
  <2>1. /\ hand \in Events /\ hand' = NoEvent /\ NoEvent \notin 1..created
        /\ Elems(table') = Elems(table) \cup {hand}
    BY <1>9, HandIsEvent, InsertEffect DEF DispatchBuffers, Writers, NoEvent
  <2>2. UNCHANGED <<created, readerQ, drained, pending, todo, flushPc, delivered, again, unsure>>
    BY <1>9 DEF DispatchBuffers
  <2> QED
    BY <2>1, <2>2 DEF Explained
<1>10. CASE DispatcherDies
  <2>1. hand' = NoEvent /\ NoEvent \notin 1..created
    BY <1>10 DEF DispatcherDies, NoEvent
  <2>2. UNCHANGED <<created, readerQ, drained, pending, table, todo, flushPc, delivered, again, unsure>>
    BY <1>10 DEF DispatcherDies
  <2> QED
    BY <2>1, <2>2 DEF Explained
<1>11. CASE PeekRows
  <2>1. UNCHANGED <<created, readerQ, drained, pending, hand, dispPc, table, delivered, again, unsure>>
    BY <1>11 DEF PeekRows
  <2>2. Elems(todo') \subseteq Elems(table) /\ flushPc = "peek"
    BY <1>11, PeekEffect DEF PeekRows
  <2> QED
    BY <2>1, <2>2 DEF Explained
<1>12. CASE FlushSent
  <2>1. /\ Head(todo) \in Elems(todo) /\ Head(todo) \notin Waiting /\ Head(todo) # hand
        /\ Head(todo) \in 1..created /\ (Head(todo) \in delivered => Head(todo) \in unsure)
    BY <1>12, HeadOfTodo DEF FlushSent, OneHolder, Explained, OnDisk, Held, Events, NoEvent
  <2>2. UNCHANGED <<created, readerQ, drained, pending, hand, dispPc, table, todo, unsure>> /\ flushPc' = "delete"
    BY <1>12 DEF FlushSent, Answered
  <2>3. delivered' = delivered \cup {Head(todo)} /\ again' \subseteq unsure
    BY <1>12, <2>1, AcceptedOnce DEF FlushSent, Answered, Explained
  <2>4. flushPc = "send"
    BY <1>12 DEF FlushSent
  <2> QED
    BY <2>1, <2>2, <2>3, <2>4 DEF Explained
<1>13. CASE FlushFails
  <2>1. /\ Head(todo) \in Elems(todo) /\ Head(todo) \notin Waiting /\ Head(todo) # hand
        /\ Head(todo) \in 1..created
    BY <1>13, HeadOfTodo DEF FlushFails, OneHolder, Explained, OnDisk, Held, Events, NoEvent
  <2>2. /\ UNCHANGED <<created, readerQ, drained, pending, hand, dispPc, table>>
        /\ Elems(todo') = {} /\ flushPc = "send"
    BY <1>13, NoElems DEF FlushFails
  <2>3. CASE NotAccepted
    BY <2>1, <2>2, <2>3 DEF NotAccepted, Explained
  <2>4. CASE AnswerLost(Head(todo))
    <3>1. /\ delivered' = delivered \cup {Head(todo)} /\ unsure' = unsure \cup {Head(todo)}
          /\ again' \subseteq unsure'
      BY <2>4, AcceptedOnce DEF AnswerLost, Explained
    <3> QED
      BY <2>1, <2>2, <3>1 DEF Explained
  <2> QED
    BY <1>13, <2>3, <2>4 DEF FlushFails
<1>14. CASE DeleteRow
  <2>1. todo # <<>> /\ NextRow /\ Deleted(Head(todo)) /\ Distinct(todo) /\ Distinct(table)
    BY <1>14, HeadOfTodo DEF DeleteRow, OneHolder
  <2>2. UNCHANGED <<created, readerQ, drained, pending, hand, dispPc, delivered, again, unsure>>
    BY <1>14 DEF DeleteRow
  <2>3. /\ Elems(todo') \subseteq Elems(todo) \ {Head(todo)} /\ Elems(table') \subseteq Elems(table) \ {Head(todo)}
        /\ flushPc = "delete"
    BY <1>14, <2>1, NextRowEffect, DeletedEffect DEF DeleteRow
  <2> QED
    BY <2>2, <2>3 DEF Explained
<1>15. CASE LookUpRejected \/ MoveToDeadLetter
  <2>1. todo # <<>> /\ flushPc \in {"reject", "move"}
    BY <1>15, HeadOfTodo DEF LookUpRejected, MoveToDeadLetter
  <2>2. UNCHANGED <<created, readerQ, drained, pending, hand, dispPc, delivered, again, unsure>>
    BY <1>15 DEF LookUpRejected, MoveToDeadLetter
  <2>3. NextRow \/ UNCHANGED todo
    BY <1>15 DEF LookUpRejected, MoveToDeadLetter
  <2>4. Elems(todo') \subseteq Elems(todo)
    BY <2>1, <2>3, NextRowEffect
  <2>5. UNCHANGED table \/ Deleted(Head(todo))
    BY <1>15 DEF LookUpRejected, MoveToDeadLetter
  <2>6. Elems(table') \subseteq Elems(table)
    BY <2>5, DeletedEffect
  <2> QED
    BY <2>1, <2>2, <2>4, <2>6 DEF Explained
<1>16. CASE FlusherDies
  <2>1. /\ UNCHANGED <<created, readerQ, drained, pending, hand, dispPc, table, delivered, again, unsure>>
        /\ flushPc' = "dead"
    BY <1>16 DEF FlusherDies
  <2> QED
    BY <2>1 DEF Explained
<1>17. CASE FlushRejected \/ BackoffOver \/ Restart
  <2>1. flushPc' = flushPc \/ flushPc \in {"send", "backoff"}
    BY <1>17 DEF FlushRejected, BackoffOver, Restart
  <2>2. UNCHANGED <<created, readerQ, drained, pending, hand, dispPc, table, todo, delivered, again, unsure>>
    BY <1>17 DEF FlushRejected, BackoffOver, Restart
  <2> QED
    BY <2>1, <2>2 DEF Explained
<1>18. CASE Crash
  <2>1. /\ readerQ' = <<>> /\ drained' = <<>> /\ pending' = <<>> /\ todo' = <<>> /\ hand' = NoEvent
        /\ unsure' = unsure \cup (Elems(table) \cap delivered)
        /\ UNCHANGED <<created, table, delivered, again>>
    BY <1>18 DEF Crash
  <2>2. NoEvent \notin 1..created
    BY DEF NoEvent
  <2> QED
    BY <2>1, <2>2, NoElems DEF Explained
<1>19. ASSUME NEW w \in Writers, CountRows(w) \/ TrimFails(w) PROVE Explained'
  BY <1>19 DEF CountRows, TrimFails, Explained
<1> QED
  BY <1>1, <1>2, <1>3, <1>4, <1>5, <1>6, <1>7, <1>8, <1>9, <1>10, <1>11, <1>12, <1>13, <1>14,
     <1>15, <1>16, <1>17, <1>18, <1>19
  DEF Next, MainLoop, Trims, Dispatcher, Flusher

-----------------------------------------------------------------------------
(* Only the flusher takes a row out of the table, and then out of its batch*)
(* as well; a trim records what it drops.                                  *)
LEMMA BatchKnownStep ==
  ASSUME TypeOK, AtStage, OneHolder, BatchKnown, Next
  PROVE  BatchKnown'
<1> USE DEF mem, disp, db, trim, flusher, server
<1>1. CASE Report \/ Drain \/ Submit \/ TakePending \/ DispatchSent \/ DispatchFails \/ DispatcherDies
           \/ Restart
  BY <1>1 DEF Report, Drain, Submit, TakePending, DispatchSent, DispatchFails, DispatcherDies,
              Restart, BatchKnown
<1>2. CASE Overflow
  <2>1. Elems(table) \subseteq Elems(table') /\ UNCHANGED <<todo, trimmed>>
    BY <1>2, OverflowEffect, InsertEffect DEF Overflow, Writers
  <2> QED
    BY <2>1 DEF BatchKnown
<1>3. CASE DispatchBuffers
  <2>1. Elems(table) \subseteq Elems(table') /\ UNCHANGED <<todo, trimmed>>
    BY <1>3, HandIsEvent, InsertEffect DEF DispatchBuffers, Writers
  <2> QED
    BY <2>1 DEF BatchKnown
<1>4. ASSUME NEW w \in Writers, DeleteOldest(w) PROVE BatchKnown'
  BY <1>4, DeleteOldestEffect DEF DeleteOldest, BatchKnown
<1>5. ASSUME NEW w \in Writers, CountRows(w) \/ TrimFails(w) PROVE BatchKnown'
  BY <1>5 DEF CountRows, TrimFails, BatchKnown
<1>6. CASE PeekRows
  BY <1>6, PeekEffect DEF PeekRows, BatchKnown
<1>7. CASE FlushSent \/ FlushRejected \/ BackoffOver
  BY <1>7 DEF FlushSent, FlushRejected, BackoffOver, BatchKnown
<1>8. CASE FlushFails \/ FlusherDies \/ Crash
  BY <1>8, NoElems DEF FlushFails, FlusherDies, Crash, BatchKnown
<1>9. CASE DeleteRow \/ MoveToDeadLetter
  <2>1. todo # <<>> /\ NextRow /\ Deleted(Head(todo)) /\ Distinct(todo) /\ UNCHANGED trimmed
    BY <1>9, HeadOfTodo DEF DeleteRow, MoveToDeadLetter, OneHolder
  <2>2. Elems(todo') \subseteq Elems(todo) \ {Head(todo)} /\ Elems(table) \subseteq Elems(table') \cup {Head(todo)}
    BY <2>1, NextRowEffect, DeletedEffect
  <2> QED
    BY <2>1, <2>2 DEF BatchKnown
<1>10. CASE LookUpRejected
  <2>1. todo # <<>> /\ (NextRow \/ UNCHANGED todo) /\ UNCHANGED <<table, trimmed>>
    BY <1>10, HeadOfTodo DEF LookUpRejected
  <2>2. Elems(todo') \subseteq Elems(todo)
    BY <2>1, NextRowEffect
  <2> QED
    BY <2>1, <2>2 DEF BatchKnown
<1> QED
  BY <1>1, <1>2, <1>3, <1>4, <1>5, <1>6, <1>7, <1>8, <1>9, <1>10
  DEF Next, MainLoop, Trims, Dispatcher, Flusher

(* Only what the server rejects becomes a dead letter, and it stays one.   *)
DeadApart == deadLetters \cap Elems(table) = {} /\ deadLetters \subseteq Bad

LEMMA DeadApartStep ==
  ASSUME TypeOK, AtStage, OneHolder, DeadApart, Next
  PROVE  DeadApart'
<1> USE DEF mem, disp, db, trim, flusher, server
<1>1. CASE Overflow
  <2>1. /\ Elems(table') = Elems(table) \cup {Head(drained)} /\ UNCHANGED deadLetters
        /\ Head(drained) \in Waiting
    BY <1>1, OverflowEffect, InsertEffect DEF Writers, Waiting
  <2> QED
    BY <2>1 DEF DeadApart, OneHolder, OnDisk
<1>2. CASE DispatchBuffers
  <2>1. /\ Elems(table') = Elems(table) \cup {hand} /\ UNCHANGED deadLetters /\ hand \in Held
    BY <1>2, HandIsEvent, InsertEffect DEF DispatchBuffers, Writers, Held
  <2> QED
    BY <2>1 DEF DeadApart, OneHolder, OnDisk
<1>3. ASSUME NEW w \in Writers, DeleteOldest(w) PROVE DeadApart'
  BY <1>3, DeleteOldestEffect DEF DeleteOldest, DeadApart
<1>4. CASE DeleteRow
  BY <1>4, DeletedEffect DEF DeleteRow, DeadApart
<1>5. CASE MoveToDeadLetter
  <2>1. /\ Deleted(Head(todo)) /\ deadLetters' = deadLetters \cup {Head(todo)}
        /\ Head(todo) \in Bad /\ Distinct(table)
    BY <1>5 DEF MoveToDeadLetter, AtStage, OneHolder
  <2> QED
    BY <2>1, DeletedEffect DEF DeadApart
<1>6. CASE Report \/ Drain \/ Submit \/ TakePending \/ DispatchSent \/ DispatchFails \/ DispatcherDies
           \/ Crash \/ Restart
  BY <1>6 DEF Report, Drain, Submit, TakePending, DispatchSent, DispatchFails, DispatcherDies,
              Crash, Restart, DeadApart
<1>7. CASE PeekRows \/ FlushSent \/ FlushFails \/ FlushRejected \/ LookUpRejected
           \/ BackoffOver \/ FlusherDies
  BY <1>7 DEF PeekRows, FlushSent, FlushFails, FlushRejected, LookUpRejected, BackoffOver,
              FlusherDies, DeadApart
<1>8. ASSUME NEW w \in Writers, CountRows(w) \/ TrimFails(w) PROVE DeadApart'
  BY <1>8 DEF CountRows, TrimFails, DeadApart
<1> QED
  BY <1>1, <1>2, <1>3, <1>4, <1>5, <1>6, <1>7, <1>8 DEF Next, MainLoop, Trims, Dispatcher, Flusher

-----------------------------------------------------------------------------
(* The table.  What a writer has counted is enough: with its own excess    *)
(* deleted, only rows whose trim is due or was interrupted are too many.   *)
Bounded == Len(table) <= MaxRows + untrimmed + Due("main") + Due("dispatcher")

LEMMA BoundedIsTableBounded == ASSUME TypeOK PROVE Bounded <=> TableBounded
<1>1. untrimmed \in Nat /\ MaxRows \in Nat /\ Len(table) \in Nat
  BY PipelineAssumption, SeqTypes DEF TypeOK
<1> QED
  BY <1>1, DueCount DEF Bounded, TableBounded

LEMMA BoundedStep ==
  ASSUME TypeOK, AtStage, Bounded, TrimsSuffice, ShapesOK', Next
  PROVE  Bounded' /\ TrimsSuffice'
<1> USE DEF mem, disp, db, trim, flusher, server
<1>0. /\ MaxRows \in Nat /\ untrimmed \in Nat /\ Len(table) \in Nat /\ Len(table') \in Nat
      /\ trimPc \in [Writers -> {"none", "count", "trim"}] /\ excess \in [Writers -> Nat]
      /\ Due("main") \in {0, 1} /\ Due("dispatcher") \in {0, 1}
  BY SeqTypes, LenProperties, DueCount, PipelineAssumption DEF ShapesOK, TypeOK
<1>1. ASSUME UNCHANGED <<trimPc, excess, untrimmed>>, Len(table') <= Len(table)
      PROVE  Bounded' /\ TrimsSuffice'
  BY <1>0, <1>1 DEF Bounded, TrimsSuffice, Due, Writers
<1>2. ASSUME NEW w \in Writers, NEW e \in Events, InsertBy(w, e) PROVE Bounded' /\ TrimsSuffice'
  <2>1. /\ Len(table') = Len(table) + 1 /\ trimPc[w] = "none"
        /\ trimPc' = [trimPc EXCEPT ![w] = "count"] /\ UNCHANGED <<excess, untrimmed>>
    BY <1>2, InsertEffect
  <2>2. Due("main")' + Due("dispatcher")' = Due("main") + Due("dispatcher") + 1
    BY <1>0, <2>1 DEF Due, Writers
  <2>3. Due("main")' \in {0, 1} /\ Due("dispatcher")' \in {0, 1}
    BY DEF Due
  <2>4. ASSUME NEW v \in Writers, trimPc'[v] = "trim"
        PROVE  trimPc[v] = "trim" /\ excess'[v] = excess[v] /\ excess[v] \in Nat
    BY <1>0, <2>1, <2>4
  <2> QED
    BY <1>0, <2>1, <2>2, <2>3, <2>4 DEF Bounded, TrimsSuffice
<1>3. ASSUME NEW w \in Writers, CountRows(w) PROVE Bounded' /\ TrimsSuffice'
  <2>1. UNCHANGED <<table, untrimmed>> /\ trimPc[w] = "count"
    BY <1>3 DEF CountRows
  <2>2. CASE OverLimit
    <3>1. /\ trimPc' = [trimPc EXCEPT ![w] = "trim"]
          /\ excess' = [excess EXCEPT ![w] = Len(table) - MaxRows] /\ Len(table) > MaxRows
      BY <1>3, <2>2 DEF CountRows, OverLimit
    <3>2. Due("main")' = Due("main") /\ Due("dispatcher")' = Due("dispatcher")
          /\ Due("main") + Due("dispatcher") >= 1
      BY <1>0, <2>1, <3>1 DEF Due, Writers
    <3>3. ASSUME NEW v \in Writers, trimPc'[v] = "trim"
          PROVE  \/ v = w /\ excess'[v] = Len(table) - MaxRows
                 \/ trimPc[v] = "trim" /\ excess'[v] = excess[v] /\ excess[v] \in Nat
      BY <1>0, <3>1, <3>3
    <3> QED
      BY <1>0, <2>1, <3>1, <3>2, <3>3 DEF Bounded, TrimsSuffice
  <2>3. CASE ~OverLimit
    <3>1. trimPc' = [trimPc EXCEPT ![w] = "none"] /\ excess' = [excess EXCEPT ![w] = 0]
          /\ Len(table) <= MaxRows
      BY <1>0, <1>3, <2>3 DEF CountRows, OverLimit
    <3>2. Due("main")' \in {0, 1} /\ Due("dispatcher")' \in {0, 1}
      BY DEF Due
    <3>3. ASSUME NEW v \in Writers, trimPc'[v] = "trim"
          PROVE  trimPc[v] = "trim" /\ excess'[v] = excess[v] /\ excess[v] \in Nat
      BY <1>0, <3>1, <3>3
    <3> QED
      BY <1>0, <2>1, <3>1, <3>2, <3>3 DEF Bounded, TrimsSuffice
  <2> QED
    BY <2>2, <2>3
<1>4. ASSUME NEW w \in Writers, DeleteOldest(w) PROVE Bounded' /\ TrimsSuffice'
  <2>1. /\ UNCHANGED untrimmed /\ trimPc[w] = "trim"
        /\ trimPc' = [trimPc EXCEPT ![w] = "none"] /\ excess' = [excess EXCEPT ![w] = 0]
    BY <1>4 DEF DeleteOldest
  <2>2. Due("main")' + Due("dispatcher")' = Due("main") + Due("dispatcher") - 1
    BY <1>0, <2>1 DEF Due, Writers
  <2>3. Due("main")' \in {0, 1} /\ Due("dispatcher")' \in {0, 1}
    BY DEF Due
  <2>4. /\ excess[w] \in Nat /\ Len(table') = IF excess[w] <= Len(table) THEN Len(table) - excess[w] ELSE 0
        /\ Len(table) <= MaxRows + excess[w] + untrimmed + Due("main") + Due("dispatcher") - 1
    BY <1>0, <1>4, <2>1, DeleteOldestEffect DEF TrimsSuffice
  <2>5. ASSUME NEW v \in Writers, trimPc'[v] = "trim"
        PROVE  trimPc[v] = "trim" /\ excess'[v] = excess[v] /\ excess[v] \in Nat /\ excess[v] >= 1
    BY <1>0, <2>1, <2>5 DEF TrimsSuffice
  <2>6. Len(table') <= MaxRows + untrimmed + Due("main")' + Due("dispatcher")'
    BY <1>0, <2>2, <2>3, <2>4
  <2> QED
    BY <1>0, <2>1, <2>3, <2>5, <2>6 DEF Bounded, TrimsSuffice
<1>5. ASSUME NEW w \in Writers, TrimFails(w) PROVE Bounded' /\ TrimsSuffice'
  <2>1. /\ UNCHANGED table /\ trimPc[w] # "none" /\ untrimmed' = untrimmed + 1
        /\ trimPc' = [v \in Writers |-> IF v = w THEN "none" ELSE trimPc[v]]
        /\ excess' = [v \in Writers |-> IF v = w THEN 0 ELSE excess[v]]
    BY <1>5, OneInterrupted DEF TrimFails
  <2>2. Due("main")' + Due("dispatcher")' = Due("main") + Due("dispatcher") - 1
    BY <1>0, <2>1 DEF Due, Writers
  <2>3. Due("main")' \in {0, 1} /\ Due("dispatcher")' \in {0, 1}
    BY DEF Due
  <2>4. ASSUME NEW v \in Writers, trimPc'[v] = "trim"
        PROVE  trimPc[v] = "trim" /\ excess'[v] = excess[v] /\ excess[v] \in Nat
    BY <1>0, <2>1, <2>4
  <2> QED
    BY <1>0, <2>1, <2>2, <2>3, <2>4 DEF Bounded, TrimsSuffice
<1>6. CASE Crash
  <2>1. /\ untrimmed' = untrimmed + Due("main") + Due("dispatcher")
        /\ trimPc' = [w \in Writers |-> "none"] /\ UNCHANGED table
    BY <1>0, <1>6, AllInterrupted DEF Crash
  <2>2. Due("main")' = 0 /\ Due("dispatcher")' = 0
    BY <2>1 DEF Due, Writers
  <2> QED
    BY <1>0, <2>1, <2>2 DEF Bounded, TrimsSuffice
<1>7. CASE Overflow
  BY <1>2, <1>7, OverflowEffect DEF Writers
<1>8. CASE DispatchBuffers
  BY <1>2, <1>8, HandIsEvent DEF DispatchBuffers, Writers
<1>9. CASE Flusher
  <2>1. UNCHANGED <<trimPc, excess, untrimmed>>
    BY <1>9, FlusherFrame
  <2>2. UNCHANGED table \/ Deleted(Head(todo))
    BY <1>9 DEF Flusher, PeekRows, FlushSent, FlushFails, FlushRejected, DeleteRow, LookUpRejected,
                MoveToDeadLetter, BackoffOver, FlusherDies
  <2> QED
    BY <1>0, <1>1, <2>1, <2>2, DeletedEffect
<1>10. CASE Report \/ Drain \/ Submit \/ TakePending \/ DispatchSent \/ DispatchFails \/ DispatcherDies
            \/ Restart
  BY <1>0, <1>1, <1>10 DEF Report, Drain, Submit, TakePending, DispatchSent, DispatchFails,
                           DispatcherDies, Restart
<1> QED
  BY <1>3, <1>4, <1>5, <1>6, <1>7, <1>8, <1>9, <1>10 DEF Next, MainLoop, Trims, Dispatcher

-----------------------------------------------------------------------------
IInv == /\ TypeOK /\ Counted /\ AtStage /\ OneHolder /\ Explained
        /\ BatchKnown /\ DeadApart /\ Bounded /\ TrimsSuffice

LEMMA InitInv == Init => IInv
<1> SUFFICES ASSUME Init PROVE IInv
  OBVIOUS
<1>1. TypeOK
  BY EmptySeq, PipelineAssumption DEF Init, TypeOK, NoEvent
<1>2. Counted /\ AtStage /\ Bounded /\ TrimsSuffice
  BY NoElems, PipelineAssumption DEF Init, Counted, Owed, Carried, AtStage, Bounded, TrimsSuffice, Due, Writers
<1>3. OneHolder /\ Explained /\ BatchKnown /\ DeadApart
  BY NoElems DEF Init, OneHolder, Explained, BatchKnown, DeadApart, Waiting, Held, OnDisk
<1> QED
  BY <1>1, <1>2, <1>3 DEF IInv

LEMMA NextInv == IInv /\ [Next]_vars => IInv'
<1> SUFFICES ASSUME IInv, [Next]_vars PROVE IInv'
  OBVIOUS
<1>1. CASE Next
  <2>1. ShapesOK' /\ Counted'
    BY <1>1, ShapesStep, CountedStep DEF IInv
  <2>2. TypeOK'
    <3>1. untrimmed' \in 0..MaxEvents
      <4>1. /\ Len(readerQ') \in Nat /\ Len(drained') \in Nat /\ Len(pending') \in Nat
            /\ untrimmed' \in Nat /\ created' \in 0..MaxEvents
        BY <2>1, LenProperties DEF ShapesOK
      <4>2. Due("main")' \in {0, 1} /\ Due("dispatcher")' \in {0, 1}
        BY DEF Due
      <4>3. (IF hand' = NoEvent THEN 0 ELSE 1) \in {0, 1}
        OBVIOUS
      <4> HIDE DEF Due
      <4> QED
        BY <2>1, <4>1, <4>2, <4>3, PipelineAssumption DEF Counted, Owed, Carried
    <3> QED
      BY <2>1, <3>1 DEF ShapesOK, TypeOK
  <2>3. AtStage' /\ OneHolder' /\ Explained'
    BY <1>1, AtStageStep, OneHolderStep, ExplainedStep DEF IInv
  <2>4. BatchKnown' /\ DeadApart' /\ Bounded' /\ TrimsSuffice'
    BY <1>1, <2>1, BatchKnownStep, DeadApartStep, BoundedStep DEF IInv
  <2> QED
    BY <2>1, <2>2, <2>3, <2>4 DEF IInv
<1>2. CASE UNCHANGED vars
  BY <1>2 DEF vars, IInv, TypeOK, Counted, Owed, Carried, AtStage, OneHolder, Explained, BatchKnown, DeadApart,
              Bounded, TrimsSuffice, Due, Waiting, Held, OnDisk, InMemory, Kept
<1> QED
  BY <1>1, <1>2

(* The inductive invariant: where each event is, and why.                  *)
THEOREM AlwaysAccounted == Spec => []IInv
  BY InitInv, NextInv, PTL DEF Spec

(* Every variable has its type, no queue exceeds its size, and faults and  *)
(* crashes end no more trims than there were puts.                         *)
THEOREM TypeCorrect == Spec => []TypeOK
  BY AlwaysAccounted, PTL DEF IInv

(* The server gets an event twice only after a lost answer or the end of   *)
(* the process; a rejected one is either a row or a dead letter.           *)
THEOREM EventsSettleOnce == Spec => []SettledOnce
<1>1. IInv => SettledOnce
  BY DEF IInv, Explained, DeadApart, SettledOnce
<1> QED
  BY <1>1, AlwaysAccounted, PTL

(* Two writers that count and delete separately keep the limit of rows, up *)
(* to trims that are due or were interrupted.                              *)
THEOREM TableStaysBounded == Spec => []TableBounded
<1>1. IInv => TableBounded
  BY BoundedIsTableBounded DEF IInv
<1> QED
  BY <1>1, AlwaysAccounted, PTL
-----------------------------------------------------------------------------
(* The events EventDelivery calls held: in memory, or rows of the table.    *)
AllHeld == InMemory \cup Elems(table)

(* Passing an event on, from queue to queue and from memory to the table,  *)
(* is no step of EventDelivery.                                            *)
LEMMA PassedOn ==
  ASSUME TypeOK, AtStage, Drain \/ Submit \/ Overflow \/ TakePending \/ DispatchBuffers
  PROVE  AllHeld' = AllHeld /\ UNCHANGED <<created, delivered, deadLetters, trimmed, lost>>
<1> USE DEF mem, disp, db, trim, flusher, server
<1>0. UNCHANGED <<created, delivered, deadLetters, trimmed, lost>>
  BY DEF Drain, Submit, Overflow, TakePending, DispatchBuffers, InsertBy
<1>1. CASE Drain
  <2>1. UNCHANGED <<pending, hand, table>>
    BY <1>1 DEF Drain
  <2> QED
    BY <1>0, <1>1, <2>1, DrainEffect, NoElems DEF AllHeld, InMemory
<1>2. CASE Submit
  <2>1. UNCHANGED <<readerQ, hand, table>>
    BY <1>2 DEF Submit
  <2> QED
    BY <1>0, <1>2, <2>1, SubmitEffect DEF AllHeld, InMemory
<1>3. CASE Overflow
  <2>1. UNCHANGED <<readerQ, pending, hand>> /\ Elems(table') = Elems(table) \cup {Head(drained)}
    BY <1>3, OverflowEffect, InsertEffect DEF Overflow, Writers
  <2> QED
    BY <1>0, <1>3, <2>1, OverflowEffect DEF AllHeld, InMemory
<1>4. CASE TakePending
  <2>1. UNCHANGED <<readerQ, drained, table>> /\ hand = NoEvent
    BY <1>4 DEF TakePending, AtStage
  <2>2. hand' # NoEvent
    BY <1>4, TakeEffect DEF Events, NoEvent
  <2> QED
    BY <1>0, <1>4, <2>1, <2>2, TakeEffect DEF AllHeld, InMemory
<1>5. CASE DispatchBuffers
  <2>1. UNCHANGED <<readerQ, drained, pending>> /\ hand # NoEvent /\ hand' = NoEvent
        /\ Elems(table') = Elems(table) \cup {hand}
    BY <1>5, HandIsEvent, InsertEffect DEF DispatchBuffers, Writers
  <2> QED
    BY <1>0, <2>1 DEF AllHeld, InMemory
<1> QED
  BY <1>0, <1>1, <1>2, <1>3, <1>4, <1>5

(* What the dispatcher has in its hand is nowhere else.                    *)
LEMMA HandLetGo ==
  ASSUME TypeOK, AtStage, OneHolder, dispPc \in {"send", "put"}, hand' = NoEvent,
         UNCHANGED <<readerQ, drained, pending, table>>
  PROVE  hand \in AllHeld /\ AllHeld' = AllHeld \ {hand}
<1>1. hand # NoEvent
  BY HandIsEvent
<1>2. hand \notin Elems(readerQ) \cup Elems(drained) \cup Elems(pending) \cup Elems(table)
  BY <1>1 DEF OneHolder, Waiting, Held, OnDisk
<1> QED
  BY <1>1, <1>2 DEF AllHeld, InMemory

(* The row the flusher is at is held, unless a trim has dropped it; it is  *)
(* not in memory.                                                          *)
LEMMA RowIsKnown ==
  ASSUME TypeOK, AtStage, OneHolder, BatchKnown, flushPc \in {"send", "delete", "reject", "move"}
  PROVE  Head(todo) \in AllHeld \cup trimmed /\ Head(todo) \notin InMemory
<1>1. Head(todo) \in Elems(todo)
  BY HeadOfTodo
<1> QED
  BY <1>1 DEF BatchKnown, AllHeld, OneHolder, InMemory, Waiting, Held, OnDisk

LEMMA RowLetGo ==
  ASSUME TypeOK, AtStage, OneHolder, BatchKnown, flushPc \in {"delete", "move"},
         Deleted(Head(todo)), UNCHANGED <<readerQ, drained, pending, hand>>
  PROVE  AllHeld' = AllHeld \ {Head(todo)}
<1>1. Head(todo) \notin InMemory /\ InMemory' = InMemory
  BY RowIsKnown DEF InMemory
<1>2. Elems(table') = Elems(table) \ {Head(todo)}
  BY DeletedEffect DEF OneHolder
<1> QED
  BY <1>1, <1>2 DEF AllHeld

(* Every step of the pipeline is one of EventDelivery's, or none.          *)
LEMMA EventDeliveryStep ==
  ASSUME IInv, [Next]_vars
  PROVE  \/ Delivery!Report
         \/ Delivery!Deliver
         \/ Delivery!Refuse
         \/ Delivery!LetGo
         \/ UNCHANGED Delivery!vars
<1> USE DEF mem, disp, db, trim, flusher, server
<1>90. TypeOK /\ AtStage /\ OneHolder /\ BatchKnown
  BY DEF IInv
<1> DEFINE Steps == \/ Delivery!Report
                    \/ Delivery!Deliver
                    \/ Delivery!Refuse
                    \/ Delivery!LetGo
                    \/ UNCHANGED Delivery!vars
<1>91. ASSUME AllHeld' = AllHeld, UNCHANGED <<created, delivered, deadLetters, trimmed, lost>>
      PROVE  Steps
  BY <1>91 DEF Delivery!vars, AllHeld
<1>92. ASSUME NEW e \in AllHeld \cup trimmed, Accepted(e), AllHeld' \in {AllHeld, AllHeld \ {e}},
             UNCHANGED <<created, deadLetters, trimmed, lost>>
      PROVE  Steps
  BY <1>92 DEF Accepted, Delivery!Deliver, AllHeld
<1>93. ASSUME NEW S \in SUBSET AllHeld, NEW D \in SUBSET S, S \ D \subseteq delivered,
             AllHeld' = AllHeld \ S, trimmed' \cup lost' = (trimmed \cup lost) \cup D,
             UNCHANGED <<created, delivered, deadLetters>>
      PROVE  Steps
  BY <1>93 DEF Delivery!LetGo, AllHeld
<1>1. CASE Report
  <2>1. UNCHANGED <<drained, pending, hand, table, deadLetters, delivered, trimmed, lost>>
    BY <1>1 DEF Report
  <2> QED
    BY <1>90, <1>1, <2>1, ReportEffect DEF Delivery!Report, InMemory
<1>2. CASE Drain \/ Submit \/ Overflow \/ TakePending \/ DispatchBuffers
  BY <1>90, <1>91, <1>2, PassedOn
<1>3. CASE DispatchSent
  <2>1. /\ Accepted(hand) /\ hand' = NoEvent /\ dispPc = "send"
        /\ UNCHANGED <<created, readerQ, drained, pending, table, deadLetters, trimmed, lost>>
    BY <1>3 DEF DispatchSent, Answered
  <2> QED
    BY <1>90, <1>92, <2>1, HandLetGo
<1>4. CASE DispatchFails
  <2>1. /\ dispPc = "send" /\ AllHeld' = AllHeld
        /\ UNCHANGED <<created, deadLetters, trimmed, lost>>
    BY <1>4 DEF DispatchFails, AllHeld, InMemory
  <2>2. hand \in AllHeld
    BY <1>90, <2>1, HandIsEvent DEF AllHeld, InMemory
  <2>3. Accepted(hand) \/ UNCHANGED delivered
    BY <1>4 DEF DispatchFails, NotAccepted, AnswerLost
  <2> QED
    BY <1>92, <1>91, <2>1, <2>2, <2>3
<1>5. CASE DispatcherDies
  <2>1. /\ lost' = lost \cup ({hand} \ delivered) /\ hand' = NoEvent /\ dispPc = "put"
        /\ UNCHANGED <<created, readerQ, drained, pending, table, deadLetters, delivered, trimmed>>
    BY <1>5 DEF DispatcherDies
  <2>2. hand \in AllHeld /\ AllHeld' = AllHeld \ {hand}
    BY <1>90, <2>1, HandLetGo
  <2>3. {hand} \in SUBSET AllHeld /\ {hand} \ delivered \in SUBSET {hand}
    BY <2>2
  <2> QED
    BY <1>93, <2>1, <2>2, <2>3
<1>6. CASE FlushSent \/ FlushFails
  <2>1. /\ flushPc = "send" /\ AllHeld' = AllHeld
        /\ UNCHANGED <<created, deadLetters, trimmed, lost>>
    BY <1>6 DEF FlushSent, FlushFails, AllHeld, InMemory
  <2>2. Accepted(Head(todo)) \/ UNCHANGED delivered
    BY <1>6 DEF FlushSent, FlushFails, Answered, NotAccepted, AnswerLost
  <2> QED
    BY <1>90, <1>92, <1>91, <2>1, <2>2, RowIsKnown
<1>7. CASE DeleteRow
  <2>1. /\ flushPc = "delete" /\ Deleted(Head(todo)) /\ Head(todo) \in delivered
        /\ UNCHANGED <<created, readerQ, drained, pending, hand, deadLetters, delivered, trimmed, lost>>
    BY <1>90, <1>7 DEF DeleteRow, AtStage
  <2>2. AllHeld' = AllHeld \ ({Head(todo)} \cap AllHeld)
    BY <1>90, <2>1, RowLetGo
  <2>3. {Head(todo)} \cap AllHeld \in SUBSET AllHeld /\ ({Head(todo)} \cap AllHeld) \ {} \subseteq delivered
    BY <2>1
  <2>4. {} \in SUBSET ({Head(todo)} \cap AllHeld) /\ trimmed' \cup lost' = (trimmed \cup lost) \cup {}
    BY <2>1
  <2> QED
    BY <1>93, <2>1, <2>2, <2>3, <2>4
<1>8. CASE MoveToDeadLetter
  <2>1. /\ flushPc = "move" /\ Deleted(Head(todo)) /\ Head(todo) \in Bad
        /\ deadLetters' = deadLetters \cup {Head(todo)}
        /\ UNCHANGED <<created, readerQ, drained, pending, hand, delivered, trimmed, lost>>
    BY <1>90, <1>8 DEF MoveToDeadLetter, AtStage
  <2>2. AllHeld' = AllHeld \ {Head(todo)} /\ Head(todo) \in AllHeld \cup trimmed
    BY <1>90, <2>1, RowLetGo, RowIsKnown
  <2> QED
    BY <2>1, <2>2 DEF Delivery!Refuse, AllHeld
<1>9. ASSUME NEW w \in Writers, DeleteOldest(w) PROVE Steps
  <2> DEFINE S == Elems(table) \ Elems(table')
  <2>1. UNCHANGED <<created, readerQ, drained, pending, hand, deadLetters, delivered, lost>>
    BY <1>9 DEF DeleteOldest
  <2>2. Elems(table') \subseteq Elems(table) /\ trimmed' = trimmed \cup S
    BY <1>90, <1>9, DeleteOldestEffect DEF OneHolder
  <2>3. InMemory' = InMemory /\ InMemory \cap Elems(table) = {}
    BY <1>90, <2>1 DEF InMemory, OneHolder, Waiting, Held, OnDisk
  <2>4. S \in SUBSET AllHeld /\ S \in SUBSET S /\ S \ S \subseteq delivered /\ AllHeld' = AllHeld \ S
    BY <2>2, <2>3 DEF AllHeld
  <2>5. trimmed' \cup lost' = (trimmed \cup lost) \cup S
    BY <2>1, <2>2
  <2> QED
    BY <1>93, <2>1, <2>4, <2>5
<1>10. CASE PeekRows \/ FlushRejected \/ LookUpRejected \/ BackoffOver \/ FlusherDies \/ Restart
  <2>1. UNCHANGED <<created, readerQ, drained, pending, hand, table, delivered, deadLetters, trimmed, lost>>
    BY <1>10 DEF PeekRows, FlushRejected, LookUpRejected, BackoffOver, FlusherDies, Restart
  <2> QED
    BY <1>91, <2>1 DEF AllHeld, InMemory
<1>11. ASSUME NEW w \in Writers, CountRows(w) \/ TrimFails(w) PROVE Steps
  <2>1. UNCHANGED <<created, readerQ, drained, pending, hand, table, delivered, deadLetters, trimmed, lost>>
    BY <1>11 DEF CountRows, TrimFails
  <2> QED
    BY <1>91, <2>1 DEF AllHeld, InMemory
<1>12. CASE Crash
  <2> DEFINE D == InMemory \ (delivered \cup Kept)
  <2>1. /\ lost' = lost \cup D /\ readerQ' = <<>> /\ drained' = <<>> /\ pending' = <<>> /\ hand' = NoEvent
        /\ UNCHANGED <<created, table, deadLetters, delivered, trimmed>>
    BY <1>12 DEF Crash
  <2>2. InMemory \cap Kept = {}
    BY <1>90 DEF InMemory, Kept, OneHolder, Waiting, Held, OnDisk
  <2>3. AllHeld' = AllHeld \ InMemory
    BY <2>1, <2>2, NoElems DEF AllHeld, InMemory, Kept
  <2>4. InMemory \in SUBSET AllHeld /\ D \in SUBSET InMemory /\ InMemory \ D \subseteq delivered
    BY <2>2 DEF AllHeld
  <2>5. trimmed' \cup lost' = (trimmed \cup lost) \cup D
    BY <2>1
  <2> QED
    BY <1>93, <2>1, <2>3, <2>4, <2>5
<1>13. CASE UNCHANGED vars
  BY <1>91, <1>13 DEF vars, AllHeld, InMemory
<1> QED
  BY <1>1, <1>2, <1>3, <1>4, <1>5, <1>6, <1>7, <1>8, <1>9, <1>10, <1>11, <1>12, <1>13
  DEF Next, MainLoop, Trims, Dispatcher, Flusher

(* The pipeline implements EventDelivery: five threads, two tables, trims, *)
(* faults and crashes only report, deliver, refuse or let go.              *)
THEOREM PipelineImplementsDelivery == Spec => ImplementsEventDelivery
<1>1. Init => Delivery!Init
  BY NoElems DEF Init, Delivery!Init, InMemory
<1>2. IInv /\ [Next]_vars => [Delivery!Next]_(Delivery!vars)
  BY EventDeliveryStep DEF Delivery!Next
<1> QED
  BY <1>1, <1>2, AlwaysAccounted, PTL DEF Spec, ImplementsEventDelivery, Delivery!Spec

(* No event disappears between the threads and the tables: no step of      *)
(* EventDelivery lets one.                                                 *)
THEOREM NothingLostSilently == Spec => []NoSilentLoss
<1>1. Init => NoSilentLoss
  BY DEF Init, NoSilentLoss
<1>2. IInv /\ NoSilentLoss /\ [Next]_vars => NoSilentLoss'
  <2> SUFFICES ASSUME IInv, NoSilentLoss, [Next]_vars PROVE NoSilentLoss'
    OBVIOUS
  <2> DEFINE There == delivered \cup deadLetters \cup (trimmed \cup lost) \cup AllHeld
  <2>0. /\ created \in Nat
        /\ NoSilentLoss <=> 1..created \subseteq There
        /\ NoSilentLoss' <=> 1..created' \subseteq There'
    <3>1. There = delivered \cup Kept \cup trimmed \cup lost \cup InMemory
      BY DEF Kept, AllHeld
    <3>2. There' = (delivered \cup Kept \cup trimmed \cup lost \cup InMemory)'
      BY DEF Kept, AllHeld
    <3>3. created \in Nat
      BY DEF IInv, TypeOK
    <3> HIDE DEF There
    <3> QED
      BY <3>1, <3>2, <3>3 DEF NoSilentLoss
  <2>1. CASE Delivery!Report
    <3>1. 1..created' = 1..created \cup {created + 1}
      BY <2>0, <2>1 DEF Delivery!Report
    <3> QED
      BY <2>0, <2>1, <3>1 DEF Delivery!Report, AllHeld
  <2>2. CASE Delivery!Deliver
    BY <2>0, <2>2 DEF Delivery!Deliver, AllHeld
  <2>3. CASE Delivery!Refuse
    BY <2>0, <2>3 DEF Delivery!Refuse, AllHeld
  <2>4. CASE Delivery!LetGo
    BY <2>0, <2>4 DEF Delivery!LetGo, AllHeld
  <2>5. CASE UNCHANGED Delivery!vars
    BY <2>0, <2>5 DEF Delivery!vars, AllHeld
  <2> QED
    BY <2>1, <2>2, <2>3, <2>4, <2>5, EventDeliveryStep
<1> QED
  BY <1>1, <1>2, AlwaysAccounted, PTL DEF Spec
=============================================================================
