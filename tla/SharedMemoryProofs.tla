-------------------------- MODULE SharedMemoryProofs --------------------------
(***************************************************************************)
(* What the shared memory promises, for every number of masters, workers,  *)
(* messages, symbols and slots, and wherever a process is killed: the ring *)
(* of the message queue implements the bounded FIFO, the stock table finds *)
(* what was stored, the worker table counts its workers and reports only   *)
(* silent ones dead, and the segment is initialised undisturbed.           *)
(***************************************************************************)
EXTENDS SharedMemory, SequenceTheorems, FiniteSetTheorems, WellFoundedInduction, TLAPS

(* A call changes one part and leaves the others alone.                    *)
LEMMA StepOfEachPart ==
  [Next]_vars =>
    /\ [QueueNext]_queueVars /\ [StockNext]_stockVars
    /\ [WorkerNext]_workerVars /\ [SegNext]_segVars
<1> SUFFICES ASSUME [Next]_vars
             PROVE  /\ [QueueNext]_queueVars /\ [StockNext]_stockVars
                    /\ [WorkerNext]_workerVars /\ [SegNext]_segVars
  OBVIOUS
<1>1. CASE QueueCall
  BY <1>1 DEF QueueCall
<1>2. CASE StockCall
  BY <1>2 DEF StockCall
<1>3. CASE WorkerCall
  BY <1>3 DEF WorkerCall
<1>4. CASE SegmentCall
  BY <1>4 DEF SegmentCall
<1>5. CASE UNCHANGED vars
  BY <1>5 DEF vars
<1> QED BY <1>1, <1>2, <1>3, <1>4, <1>5 DEF Next

-----------------------------------------------------------------------------
(* The message queue.                                                      *)
Item == Messages \union {Blank}

-----------------------------------------------------------------------------
(* The remainder on the two rounds of the ring that are needed.            *)
LEMMA Wrap ==
  ASSUME NEW x \in Nat, x < 2 * Size
  PROVE  x % Size = IF x < Size THEN x ELSE x - Size
<1> USE SizeAssumption
<1>1. CASE x < Size
  BY <1>1
<1>2. CASE x >= Size
  BY <1>2
<1> QED BY <1>1, <1>2

LEMMA SuccWrap ==
  ASSUME NEW i \in 0 .. Size - 1
  PROVE  Succ(i) = IF i + 1 = Size THEN 0 ELSE i + 1
<1> USE SizeAssumption
<1>1. i + 1 \in Nat /\ i + 1 < 2 * Size
  OBVIOUS
<1> QED BY <1>1, Wrap DEF Succ

(* The contents of a ring ms with c messages from position h on.           *)
RingSeq(ms, h, c) == [i \in 1 .. c |-> ms[(h + i - 1) % Size]]

Slots == [0 .. Size - 1 -> Item]

LEMMA Position ==
  ASSUME NEW h \in 0 .. Size - 1, NEW c \in 0 .. Size, NEW i \in 1 .. c
  PROVE  /\ (h + i - 1) % Size = IF h + i - 1 < Size THEN h + i - 1 ELSE h + i - 1 - Size
         /\ (h + i - 1) % Size \in 0 .. Size - 1
<1> USE SizeAssumption
<1>1. h + i - 1 \in Nat /\ h + i - 1 < 2 * Size
  OBVIOUS
<1> QED BY <1>1, Wrap

LEMMA RingSeqType ==
  ASSUME NEW ms \in Slots, NEW h \in 0 .. Size - 1, NEW c \in 0 .. Size
  PROVE  /\ RingSeq(ms, h, c) \in Seq(Item) /\ Len(RingSeq(ms, h, c)) = c
         /\ \A i \in 1 .. c : RingSeq(ms, h, c)[i] = ms[(h + i - 1) % Size]
<1>1. c \in Nat
  BY SizeAssumption
<1>2. \A i \in 1 .. c : ms[(h + i - 1) % Size] \in Item
  BY Position DEF Slots
<1>3. RingSeq(ms, h, c) \in [1 .. c -> Item]
  BY <1>2 DEF RingSeq
<1>4. RingSeq(ms, h, c) \in Seq(Item) /\ Len(RingSeq(ms, h, c)) = c
  BY <1>1, <1>3, SeqDef
<1> QED BY <1>4 DEF RingSeq

(* The position behind the counted slots is none of them, unless the ring  *)
(* is full, when it is the first.                                          *)
LEMMA BehindFree ==
  ASSUME NEW h \in 0 .. Size - 1, NEW c \in 0 .. Size
  PROVE  /\ (h + c) % Size = IF h + c < Size THEN h + c ELSE h + c - Size
         /\ (h + c) % Size \in 0 .. Size - 1
         /\ \A i \in 1 .. c :
              (h + i - 1) % Size = (h + c) % Size => i = 1 /\ c = Size
<1> USE SizeAssumption
<1>1. h + c \in Nat /\ h + c < 2 * Size
  OBVIOUS
<1>2. (h + c) % Size = IF h + c < Size THEN h + c ELSE h + c - Size
  BY <1>1, Wrap
<1>3. ASSUME NEW i \in 1 .. c, (h + i - 1) % Size = (h + c) % Size
      PROVE  i = 1 /\ c = Size
  <2>1. (h + i - 1) % Size = IF h + i - 1 < Size THEN h + i - 1 ELSE h + i - 1 - Size
    BY Position
  <2> QED BY <1>2, <1>3, <2>1
<1> QED BY <1>2, <1>3

-----------------------------------------------------------------------------
(* A store behind the counted slots does not change the contents.          *)
LEMMA Keep ==
  ASSUME NEW ms \in Slots, NEW ns \in Slots,
         NEW h \in 0 .. Size - 1, NEW c \in 0 .. Size, c < Size,
         \A j \in 0 .. Size - 1 : j # (h + c) % Size => ns[j] = ms[j]
  PROVE  RingSeq(ns, h, c) = RingSeq(ms, h, c)
<1>1. ASSUME NEW i \in 1 .. c
      PROVE  ns[(h + i - 1) % Size] = ms[(h + i - 1) % Size]
  <2>1. (h + i - 1) % Size \in 0 .. Size - 1
    BY Position
  <2>2. (h + i - 1) % Size # (h + c) % Size
    BY BehindFree, SizeAssumption
  <2> QED BY <2>1, <2>2
<1> QED BY <1>1 DEF RingSeq

(* Moving the read position on drops the oldest message, also when the     *)
(* freed slot has been written to.                                         *)
LEMMA Drop ==
  ASSUME NEW ms \in Slots, NEW ns \in Slots,
         NEW h \in 0 .. Size - 1, NEW c \in 1 .. Size,
         \A j \in 0 .. Size - 1 : j # (h + c) % Size => ns[j] = ms[j]
  PROVE  /\ RingSeq(ns, Succ(h), c - 1) = Tail(RingSeq(ms, h, c))
         /\ RingSeq(ms, h, c) # <<>>
         /\ Head(RingSeq(ms, h, c)) = ms[h]
<1> USE SizeAssumption
<1> DEFINE s == RingSeq(ms, h, c)
           t == RingSeq(ns, Succ(h), c - 1)
<1>1. Succ(h) = (IF h + 1 = Size THEN 0 ELSE h + 1) /\ Succ(h) \in 0 .. Size - 1
  BY SuccWrap
<1>2. s \in Seq(Item) /\ Len(s) = c /\ s # <<>>
      /\ \A i \in 1 .. c : s[i] = ms[(h + i - 1) % Size]
  <2>1. c \in 0 .. Size
    OBVIOUS
  <2>2. s \in Seq(Item) /\ Len(s) = c
        /\ \A i \in 1 .. c : s[i] = ms[(h + i - 1) % Size]
    BY <2>1, RingSeqType, Zenon
  <2>3. s # <<>>
    <3> HIDE DEF s
    <3> QED BY <2>2
  <2> QED BY <2>2, <2>3, Zenon
<1>3. t \in Seq(Item) /\ Len(t) = c - 1
      /\ \A i \in 1 .. c - 1 : t[i] = ns[(Succ(h) + i - 1) % Size]
  <2>1. c - 1 \in 0 .. Size
    OBVIOUS
  <2> QED BY <1>1, <2>1, RingSeqType, Zenon
<1> HIDE DEF s, t
<1>4. Tail(s) \in Seq(Item) /\ Len(Tail(s)) = c - 1
      /\ \A i \in 1 .. c - 1 : Tail(s)[i] = s[i + 1]
  BY <1>2, HeadTailProperties
<1>5. ASSUME NEW i \in 1 .. c - 1
      PROVE  t[i] = Tail(s)[i]
  <2>1. (Succ(h) + i - 1) % Size = (h + (i + 1) - 1) % Size
    <3>1. (Succ(h) + i - 1) % Size =
            IF Succ(h) + i - 1 < Size THEN Succ(h) + i - 1 ELSE Succ(h) + i - 1 - Size
      BY <1>1, Position
    <3>2. (h + (i + 1) - 1) % Size =
            IF h + i < Size THEN h + i ELSE h + i - Size
      BY Position
    <3> QED BY <1>1, <3>1, <3>2
  <2>2. (h + (i + 1) - 1) % Size \in 0 .. Size - 1
        /\ (h + (i + 1) - 1) % Size # (h + c) % Size
    BY Position, BehindFree
  <2>3. i + 1 \in 1 .. c
    OBVIOUS
  <2>4. Tail(s)[i] = ms[(h + (i + 1) - 1) % Size]
    BY <1>2, <1>4, <2>3
  <2> QED BY <1>3, <2>1, <2>2, <2>4
<1>6. t = Tail(s)
  BY <1>3, <1>4, <1>5, SeqEqual
<1>7. (h + 1 - 1) % Size = h
  BY Position
<1>8. Head(s) = ms[h]
  <2>1. 1 \in 1 .. c
    OBVIOUS
  <2>2. s[1] = ms[h]
    BY <1>2, <1>7, <2>1
  <2> QED BY <1>2, <2>2
<1> QED BY <1>2, <1>6, <1>8 DEF s, t

(* A store behind the counted slots that is counted appends a message.     *)
LEMMA Grow ==
  ASSUME NEW ms \in Slots, NEW ns \in Slots, NEW m \in Item,
         NEW h \in 0 .. Size - 1, NEW c \in 0 .. Size, c < Size,
         ns[(h + c) % Size] = m,
         \A j \in 0 .. Size - 1 : j # (h + c) % Size => ns[j] = ms[j]
  PROVE  RingSeq(ns, h, c + 1) = Append(RingSeq(ms, h, c), m)
<1> USE SizeAssumption
<1> DEFINE s == RingSeq(ms, h, c)
           t == RingSeq(ns, h, c + 1)
<1>1. s \in Seq(Item) /\ Len(s) = c
      /\ \A i \in 1 .. c : s[i] = ms[(h + i - 1) % Size]
  BY RingSeqType, Zenon
<1>2. t \in Seq(Item) /\ Len(t) = c + 1
      /\ \A i \in 1 .. c + 1 : t[i] = ns[(h + i - 1) % Size]
  <2>1. c + 1 \in 0 .. Size
    OBVIOUS
  <2> QED BY <2>1, RingSeqType, Zenon
<1> HIDE DEF s, t
<1>3. /\ Append(s, m) \in Seq(Item) /\ Len(Append(s, m)) = c + 1
      /\ \A i \in 1 .. c : Append(s, m)[i] = s[i]
      /\ Append(s, m)[c + 1] = m
  BY <1>1, AppendProperties
<1>4. ASSUME NEW i \in 1 .. c
      PROVE  t[i] = Append(s, m)[i]
  <2>1. (h + i - 1) % Size \in 0 .. Size - 1 /\ (h + i - 1) % Size # (h + c) % Size
    BY Position, BehindFree
  <2>2. ns[(h + i - 1) % Size] = ms[(h + i - 1) % Size]
    BY <2>1
  <2>3. i \in 1 .. c + 1
    OBVIOUS
  <2> QED BY <1>1, <1>2, <1>3, <2>2, <2>3
<1>5. t[c + 1] = m
  <2>1. h + (c + 1) - 1 = h + c /\ c + 1 \in 1 .. c + 1
    OBVIOUS
  <2>2. t[c + 1] = ns[(h + c) % Size]
    BY <1>2, <2>1
  <2> QED BY <2>2
<1>6. \A i \in 1 .. c + 1 : t[i] = Append(s, m)[i]
  BY <1>3, <1>4, <1>5
<1>7. t = Append(s, m)
  BY <1>2, <1>3, <1>6, SeqEqual
<1> QED BY <1>7 DEF s, t

-----------------------------------------------------------------------------
(* The ring without what the callers got, which the provers treat apart.   *)
RingType ==
  /\ messages \in Slots /\ head \in 0 .. Size - 1 /\ tail \in 0 .. Size - 1
  /\ count \in 0 .. Size

Outs == {<<>>} \union {<<m>> : m \in Item}

LEMMA TypeParts ==
  QueueTypeOK <=> RingType /\ out \in Outs /\ queueTorn \in BOOLEAN
BY Zenon DEF QueueTypeOK, RingType, Slots, Outs, Item

(* The stores of the functions, without what they return.                  *)
Taken == count # 0 /\ head' = Succ(head) /\ count' = count - 1
         /\ messages' = messages /\ tail' = tail
Still == messages' = messages /\ head' = head /\ tail' = tail /\ count' = count

LEMMA ReceiveStores ==
  ASSUME Receive
  PROVE  /\ queueTorn' = queueTorn
         /\ \/ count = 0 /\ out' = <<>> /\ Still
            \/ Taken /\ out' = <<Front>>
BY Zenon DEF Receive, Taken, Still

LEMMA PeekStores ==
  ASSUME Peek
  PROVE  /\ queueTorn' = queueTorn /\ Still
         /\ out' = IF count = 0 THEN <<>> ELSE <<Front>>
BY Zenon DEF Peek, Still

LEMMA RingTypeStep ==
  ASSUME RingType, QueueNext
  PROVE  RingType'
<1> USE SizeAssumption DEF RingType, Slots, Item
<1>1. \A i \in 0 .. Size - 1 : Succ(i) \in 0 .. Size - 1
  BY SuccWrap
<1>2. MadeRoom \in 0 .. Size - 1
  BY <1>1 DEF MadeRoom
<1>3. ASSUME NEW m \in Messages, Send(m)
      PROVE  RingType'
  BY <1>1, <1>2, <1>3 DEF Send, Full
<1>4. ASSUME NEW m \in Messages, KilledSend(m)
      PROVE  RingType'
  <2>1. PICK k \in 1 .. 5 :
          /\ head' = MadeRoom
          /\ count' = IF Full /\ k >= 2 THEN count - 1 ELSE count
          /\ messages' = CASE k < 3 -> messages
                           [] k = 3 -> [messages EXCEPT ![tail] = Blank]
                           [] k > 3 -> [messages EXCEPT ![tail] = m]
          /\ tail' = IF k = 5 THEN Succ(tail) ELSE tail
    BY <1>4 DEF KilledSend
  <2>2. messages' \in Slots
    <3>1. k < 3 \/ k = 3 \/ k > 3
      OBVIOUS
    <3> QED BY <2>1, <3>1
  <2> QED BY <1>1, <1>2, <2>1, <2>2 DEF Full
<1>5. CASE Receive
  <2>1. CASE Still
    BY <2>1 DEF Still
  <2>2. CASE Taken
    BY <1>1, <2>2 DEF Taken
  <2> QED BY <1>5, <2>1, <2>2, ReceiveStores
<1>6. CASE KilledReceive
  <2>1. count # 0 /\ head' = Succ(head) /\ messages' = messages /\ tail' = tail
    BY <1>6, Zenon DEF KilledReceive
  <2>2. count' = count \/ count' = count - 1
    BY <1>6, Zenon DEF KilledReceive
  <2>3. count' \in 0 .. Size
    BY <2>1, <2>2
  <2>4. messages' \in Slots /\ head' \in 0 .. Size - 1 /\ tail' \in 0 .. Size - 1
    BY <1>1, <2>1
  <2> QED BY <2>3, <2>4
<1>7. CASE Peek
  BY <1>7, PeekStores DEF Still
<1>8. CASE Clear
  BY <1>8 DEF Clear, TailCleared
<1>9. CASE KilledClear
  BY <1>9 DEF KilledClear, TailCleared
<1> QED BY <1>3, <1>4, <1>5, <1>6, <1>7, <1>8, <1>9 DEF QueueNext

LEMMA OutStep ==
  ASSUME RingType, out \in Outs, queueTorn \in BOOLEAN, QueueNext
  PROVE  out' \in Outs /\ queueTorn' \in BOOLEAN
<1>1. Front \in Item
  BY DEF RingType, Slots, Front
<1>2. <<>> \in Outs /\ <<Front>> \in Outs
  BY <1>1, Zenon DEF Outs
<1>3. ASSUME NEW m \in Messages, Send(m) \/ KilledSend(m)
      PROVE  out' = out /\ queueTorn' \in BOOLEAN
  BY <1>3, Zenon DEF Send, KilledSend
<1>4. CASE Receive
  BY <1>2, <1>4, ReceiveStores, Zenon
<1>5. CASE Peek
  BY <1>2, <1>5, PeekStores, Zenon
<1>6. CASE KilledReceive \/ Clear \/ KilledClear
  BY <1>6, Zenon DEF KilledReceive, Clear, KilledClear
<1> QED BY <1>3, <1>4, <1>5, <1>6, Zenon DEF QueueNext

-----------------------------------------------------------------------------
(* The write position is where the counted slots end: with the types, what *)
(* makes the simulation inductive.                                         *)
Ring == tail = (head + count) % Size

LEMMA Positions ==
  ASSUME NEW h \in 0 .. Size - 1, NEW c \in 0 .. Size
  PROVE  /\ c < Size => Succ((h + c) % Size) = (h + (c + 1)) % Size
         /\ c > 0 => (Succ(h) + (c - 1)) % Size = (h + c) % Size
         /\ Succ((h + Size) % Size) = (Succ(h) + Size) % Size
<1> USE SizeAssumption
<1>1. /\ Succ(h) = IF h + 1 = Size THEN 0 ELSE h + 1
      /\ Succ(h) \in 0 .. Size - 1
  BY SuccWrap
<1>2. /\ (h + c) % Size = IF h + c < Size THEN h + c ELSE h + c - Size
      /\ (h + c) % Size \in 0 .. Size - 1
  BY BehindFree
<1>3. ASSUME c < Size PROVE Succ((h + c) % Size) = (h + (c + 1)) % Size
  <2>1. Succ((h + c) % Size) =
          IF ((h + c) % Size) + 1 = Size THEN 0 ELSE ((h + c) % Size) + 1
    BY <1>2, SuccWrap
  <2>2. c + 1 \in 0 .. Size
    BY <1>3
  <2>3. (h + (c + 1)) % Size =
          IF h + (c + 1) < Size THEN h + (c + 1) ELSE h + (c + 1) - Size
    BY <2>2, BehindFree
  <2> QED BY <1>2, <1>3, <2>1, <2>3
<1>4. ASSUME c > 0 PROVE (Succ(h) + (c - 1)) % Size = (h + c) % Size
  <2>1. c - 1 \in 0 .. Size
    BY <1>4
  <2>2. (Succ(h) + (c - 1)) % Size =
          IF Succ(h) + (c - 1) < Size THEN Succ(h) + (c - 1)
                                      ELSE Succ(h) + (c - 1) - Size
    BY <1>1, <2>1, BehindFree
  <2> QED BY <1>1, <1>2, <2>2
<1>5. Succ((h + Size) % Size) = (Succ(h) + Size) % Size
  <2>1. Size \in 0 .. Size
    OBVIOUS
  <2>2. (h + Size) % Size = h
    BY <2>1, BehindFree
  <2>3. (Succ(h) + Size) % Size = Succ(h)
    BY <1>1, <2>1, BehindFree
  <2> QED BY <2>2, <2>3
<1> QED BY <1>3, <1>4, <1>5

LEMMA ContentsSeq ==
  ASSUME RingType
  PROVE  /\ Contents = RingSeq(messages, head, count)
         /\ Contents \in Seq(Item) /\ Len(Contents) = count
<1>1. Contents = RingSeq(messages, head, count)
  BY DEF Contents, RingSeq
<1> QED BY <1>1, RingSeqType DEF RingType

(* In a full ring the slot of the oldest message takes the new one.        *)
LEMMA Replace ==
  ASSUME NEW ms \in Slots, NEW ns \in Slots, NEW m \in Item,
         NEW h \in 0 .. Size - 1, ns[h] = m,
         \A j \in 0 .. Size - 1 : j # h => ns[j] = ms[j]
  PROVE  RingSeq(ns, Succ(h), Size) = Append(Tail(RingSeq(ms, h, Size)), m)
<1> USE SizeAssumption
<1>1. PICK g \in 0 .. Size - 1 : g = Succ(h)
  BY SuccWrap
<1>2. PICK c \in 0 .. Size : c = Size - 1 /\ c < Size /\ c + 1 = Size
  <2> WITNESS Size - 1 \in 0 .. Size
  <2> QED OBVIOUS
<1>3. (g + c) % Size = h
  <2>1. Size \in 0 .. Size /\ Size > 0
    OBVIOUS
  <2>2. (Succ(h) + (Size - 1)) % Size = (h + Size) % Size
    BY <2>1, Positions
  <2>3. (h + Size) % Size = h
    BY <2>1, BehindFree
  <2> QED BY <1>1, <1>2, <2>2, <2>3
<1>4. g \in 0 .. Size - 1 /\ c \in 0 .. Size /\ c < Size
  BY <1>1, <1>2
<1>5. RingSeq(ns, g, c + 1) = Append(RingSeq(ms, g, c), m)
  <2>1. ns[(g + c) % Size] = m
        /\ \A j \in 0 .. Size - 1 : j # (g + c) % Size => ns[j] = ms[j]
    BY <1>3
  <2> QED BY <1>4, <2>1, Grow
<1>6. RingSeq(ms, g, c) = Tail(RingSeq(ms, h, Size))
  <2>1. Size \in 1 .. Size
    OBVIOUS
  <2>2. RingSeq(ms, Succ(h), Size - 1) = Tail(RingSeq(ms, h, Size))
    BY <2>1, Drop
  <2> QED BY <1>1, <1>2, <2>2
<1> QED BY <1>1, <1>2, <1>5, <1>6

(* msg_send() appends, after it has dropped the oldest message of a full   *)
(* queue.                                                                  *)
LEMMA SendSimulation ==
  ASSUME RingType, RingType', Ring, NEW m \in Messages, Send(m)
  PROVE  Ring' /\ Fifo!Send(m)
<1> USE SizeAssumption
<1>1. /\ m \in Item /\ messages \in Slots /\ messages' \in Slots
      /\ head \in 0 .. Size - 1 /\ count \in 0 .. Size
  BY DEF Item, RingType
<1>2. Contents' = RingSeq(messages', head', count')
  BY DEF Contents, RingSeq
<1>3. out' = out
  BY DEF Send
<1>4. CASE count < Size
  <2>1. head' = head /\ count' = count + 1 /\ tail' = Succ(tail)
        /\ messages' = [messages EXCEPT ![(head + count) % Size] = m]
    BY <1>4 DEF Send, MadeRoom, Full, Ring, RingType
  <2>2. RingSeq(messages', head, count + 1) = Append(RingSeq(messages, head, count), m)
    <3>1. messages'[(head + count) % Size] = m
          /\ \A j \in 0 .. Size - 1 :
               j # (head + count) % Size => messages'[j] = messages[j]
      BY <1>1, <2>1, BehindFree DEF Slots
    <3> QED BY <1>1, <1>4, <3>1, Grow
  <2>3. Contents' = Append(Contents, m)
    BY <1>2, <2>1, <2>2, ContentsSeq
  <2>4. Ring'
    BY <1>4, <2>1, Positions DEF Ring, RingType
  <2> QED BY <1>3, <1>4, <2>3, <2>4, ContentsSeq DEF Fifo!Send
<1>5. CASE count = Size
  <2>1. head' = Succ(head) /\ count' = Size /\ tail' = Succ(tail)
        /\ messages' = [messages EXCEPT ![tail] = m]
    BY <1>5 DEF Send, MadeRoom, Full, RingType
  <2>2. tail = head
    <3>1. (head + Size) % Size = head
      BY <1>1, BehindFree
    <3> QED BY <1>5, <3>1 DEF Ring
  <2>3. RingSeq(messages', Succ(head), Size) = Append(Tail(RingSeq(messages, head, Size)), m)
    <3>1. messages'[head] = m
          /\ \A j \in 0 .. Size - 1 : j # head => messages'[j] = messages[j]
      BY <1>1, <2>1, <2>2 DEF Slots
    <3> QED BY <1>1, <3>1, Replace
  <2>4. Contents' = Append(Tail(Contents), m)
    BY <1>2, <1>5, <2>1, <2>3, ContentsSeq
  <2>5. Ring'
    BY <1>5, <2>1, Positions DEF Ring, RingType
  <2> QED BY <1>3, <1>5, <2>4, <2>5, ContentsSeq DEF Fifo!Send
<1> QED BY <1>4, <1>5 DEF RingType

(* A call that moves the read position on and counts it takes the oldest   *)
(* message.                                                                *)
LEMMA TakeSimulation ==
  ASSUME RingType, RingType', Ring, count # 0,
         head' = Succ(head), count' = count - 1, tail' = tail,
         \A j \in 0 .. Size - 1 : j # tail => messages'[j] = messages[j]
  PROVE  /\ Ring' /\ Contents # <<>> /\ Contents' = Tail(Contents)
         /\ Head(Contents) = Front
<1> USE SizeAssumption
<1>1. /\ messages \in Slots /\ messages' \in Slots
      /\ head \in 0 .. Size - 1 /\ count \in 1 .. Size
  BY DEF RingType
<1>2. \A j \in 0 .. Size - 1 : j # (head + count) % Size => messages'[j] = messages[j]
  BY DEF Ring
<1>3. /\ RingSeq(messages', Succ(head), count - 1) = Tail(RingSeq(messages, head, count))
      /\ RingSeq(messages, head, count) # <<>>
      /\ Head(RingSeq(messages, head, count)) = messages[head]
  BY <1>1, <1>2, Drop
<1>4. Contents' = RingSeq(messages', head', count')
  BY DEF Contents, RingSeq
<1>5. Ring'
  <2>1. count \in 0 .. Size /\ count > 0
    BY <1>1
  <2>2. (Succ(head) + (count - 1)) % Size = (head + count) % Size
    BY <1>1, <2>1, Positions
  <2> QED BY <2>2 DEF Ring
<1> QED BY <1>3, <1>4, <1>5, ContentsSeq DEF Front

(* A sender that is killed loses at most the message it made room with.    *)
LEMMA KilledSendSimulation ==
  ASSUME RingType, RingType', Ring, NEW m \in Messages, KilledSend(m), ~queueTorn'
  PROVE  /\ Ring'
         /\ out' = out
         /\ \/ Contents' = Contents
            \/ Contents # <<>> /\ Contents' = Tail(Contents)
<1> USE SizeAssumption
<1>1. PICK k \in 1 .. 5 :
        /\ head' = MadeRoom
        /\ count' = IF Full /\ k >= 2 THEN count - 1 ELSE count
        /\ messages' = CASE k < 3 -> messages
                         [] k = 3 -> [messages EXCEPT ![tail] = Blank]
                         [] k > 3 -> [messages EXCEPT ![tail] = m]
        /\ tail' = IF k = 5 THEN Succ(tail) ELSE tail
        /\ queueTorn' = (queueTorn \/ k = 5 \/ (k = 1 /\ Full))
        /\ out' = out
  BY DEF KilledSend
<1>2. k # 5 /\ ~(k = 1 /\ Full)
  BY <1>1, Zenon
<1>3. tail' = tail
  BY <1>1, <1>2
<1>4. \A j \in 0 .. Size - 1 : j # tail => messages'[j] = messages[j]
  <2>1. k < 3 \/ k = 3 \/ k > 3
    OBVIOUS
  <2> QED BY <1>1, <2>1 DEF RingType, Slots
<1>5. CASE Full
  <2>1. head' = Succ(head) /\ count' = count - 1 /\ count # 0
    BY <1>1, <1>2, <1>5 DEF MadeRoom, Full, RingType
  <2> QED BY <1>1, <1>3, <1>4, <2>1, TakeSimulation
<1>6. CASE ~Full
  <2>1. head' = head /\ count' = count /\ count < Size
    BY <1>1, <1>6 DEF MadeRoom, Full, RingType
  <2>2. /\ messages \in Slots /\ messages' \in Slots
        /\ head \in 0 .. Size - 1 /\ count \in 0 .. Size
    BY DEF RingType
  <2>3. \A j \in 0 .. Size - 1 : j # (head + count) % Size => messages'[j] = messages[j]
    BY <1>4 DEF Ring
  <2>4. RingSeq(messages', head, count) = RingSeq(messages, head, count)
    BY <2>1, <2>2, <2>3, Keep
  <2>5. Contents' = RingSeq(messages', head', count')
    BY DEF Contents, RingSeq
  <2>6. Contents' = Contents
    BY <2>1, <2>4, <2>5, ContentsSeq
  <2>7. Ring'
    BY <1>3, <2>1 DEF Ring
  <2> QED BY <1>1, <2>6, <2>7
<1> QED BY <1>5, <1>6

-----------------------------------------------------------------------------
(* An empty ring at position 0 is an empty queue.                          *)
LEMMA EmptyRing ==
  /\ head = 0 /\ tail = 0 /\ count = 0 => Ring /\ Contents = <<>>
  /\ head' = 0 /\ tail' = 0 /\ count' = 0 => Ring' /\ Contents' = <<>>
<1>1. 0 % Size = 0
  BY SizeAssumption
<1>2. ASSUME head = 0, tail = 0, count = 0 PROVE Ring /\ Contents = <<>>
  BY <1>1, <1>2 DEF Ring, Contents
<1>3. ASSUME head' = 0, tail' = 0, count' = 0 PROVE Ring' /\ Contents' = <<>>
  BY <1>1, <1>3 DEF Ring, Contents
<1> QED BY <1>2, <1>3

(* Only msg_clear() repairs a torn ring.                                   *)
LEMMA TornUntilCleared ==
  ASSUME QueueNext, queueTorn, queueTorn \in BOOLEAN, ~queueTorn'
  PROVE  Contents' \in Seq(Messages)
<1>1. Clear
  BY ReceiveStores, PeekStores, Zenon
     DEF QueueNext, Send, KilledSend, KilledReceive, KilledClear
<1>2. head' = 0 /\ tail' = 0 /\ count' = 0
  BY <1>1, Zenon DEF Clear, TailCleared
<1>3. Contents' = <<>>
  BY <1>2, EmptyRing
<1> QED BY <1>3

(* The oldest message is at the read position.                             *)
LEMMA FrontOfRing ==
  ASSUME RingType, count # 0
  PROVE  Contents # <<>> /\ Head(Contents) = Front
<1>1. messages \in Slots /\ head \in 0 .. Size - 1 /\ count \in 1 .. Size
  BY SizeAssumption DEF RingType
<1>2. RingSeq(messages, head, count) # <<>>
      /\ Head(RingSeq(messages, head, count)) = messages[head]
  BY <1>1, Drop
<1> QED BY <1>2, ContentsSeq DEF Front

(* What changes nothing in the ring changes nothing in the queue.          *)
LEMMA StillContents ==
  ASSUME Still
  PROVE  Contents' = Contents /\ Ring' = Ring
BY DEF Still, Contents, Ring

(* Every step that leaves the ring whole is a step of the FIFO or none.    *)
LEMMA Simulation ==
  ASSUME RingType, RingType', queueTorn \in BOOLEAN, queueTorn \/ Ring,
         QueueNext, ~queueTorn'
  PROVE  Ring' /\ (Fifo!Next \/ (Contents' = Contents /\ out' = out))
<1>1. ASSUME NEW m \in Messages, Send(m)
      PROVE  Ring' /\ Fifo!Next
  <2>1. Ring
    BY <1>1, Zenon DEF Send
  <2>2. Ring' /\ Fifo!Send(m)
    BY <1>1, <2>1, SendSimulation
  <2> QED BY <2>2, Zenon DEF Fifo!Next
<1>2. ASSUME NEW m \in Messages, KilledSend(m)
      PROVE  Ring' /\ (Fifo!Next \/ (Contents' = Contents /\ out' = out))
  <2>1. Ring
    BY <1>2, Zenon DEF KilledSend
  <2>2. /\ Ring' /\ out' = out
        /\ Contents' = Contents \/ (Contents # <<>> /\ Contents' = Tail(Contents))
    BY <1>2, <2>1, KilledSendSimulation, Zenon
  <2> QED BY <2>2, Zenon DEF Fifo!Next, Fifo!Lose
<1>3. ASSUME Receive \/ Peek
      PROVE  Ring
  BY <1>3, ReceiveStores, PeekStores, Zenon
<1>4. ASSUME Taken, Ring
      PROVE  /\ Ring' /\ Contents # <<>> /\ Contents' = Tail(Contents)
             /\ Head(Contents) = Front
  BY <1>4, TakeSimulation DEF Taken
<1>5. count = 0 => Contents = <<>>
  BY DEF Contents
<1>6. CASE Receive
  <2>1. CASE count = 0 /\ out' = <<>> /\ Still
    BY <1>3, <1>5, <1>6, <2>1, StillContents, Zenon DEF Fifo!Next, Fifo!Receive
  <2>2. CASE Taken /\ out' = <<Front>>
    BY <1>3, <1>4, <1>6, <2>2, Zenon DEF Fifo!Next, Fifo!Receive
  <2> QED BY <1>6, <2>1, <2>2, ReceiveStores, Zenon
<1>7. CASE KilledReceive
  <2>1. ~(queueTorn' = TRUE)
    BY Zenon
  <2>2. Taken /\ queueTorn' = queueTorn /\ out' = out
    BY <1>7, <2>1 DEF KilledReceive, Taken
  <2>3. Ring
    BY <2>2, Zenon
  <2> QED BY <1>4, <2>2, <2>3, Zenon DEF Fifo!Next, Fifo!Lose
<1>8. CASE Peek
  <2>1. Ring' /\ Contents' = Contents
    BY <1>3, <1>8, PeekStores, StillContents, Zenon
  <2>2. CASE count = 0
    <3>1. out' = <<>>
      BY <1>8, <2>2, PeekStores, Zenon
    <3> QED BY <1>5, <2>1, <2>2, <3>1, Zenon DEF Fifo!Next, Fifo!Peek
  <2>3. CASE count # 0
    <3>1. out' = <<Front>>
      BY <1>8, <2>3, PeekStores, Zenon
    <3>2. Contents # <<>> /\ Head(Contents) = Front
      BY <2>3, FrontOfRing
    <3> QED BY <2>1, <3>1, <3>2, Zenon DEF Fifo!Next, Fifo!Peek
  <2> QED BY <2>2, <2>3, Zenon
<1>9. CASE Clear
  <2>1. head' = 0 /\ tail' = 0 /\ count' = 0 /\ out' = out
    BY <1>9, Zenon DEF Clear, TailCleared
  <2> QED BY <2>1, EmptyRing, Zenon DEF Fifo!Next, Fifo!Clear
<1>10. CASE KilledClear
  BY <1>10, Zenon DEF KilledClear
<1> QED BY <1>1, <1>2, <1>6, <1>7, <1>8, <1>9, <1>10, Zenon DEF QueueNext

(* A FIFO of whole messages stays one.                                     *)
LEMMA FifoKeepsWhole ==
  ASSUME Contents \in Seq(Messages), Fifo!Next
  PROVE  Contents' \in Seq(Messages)
<1>1. Contents # <<>> => Tail(Contents) \in Seq(Messages)
  BY HeadTailProperties
<1>2. ASSUME NEW m \in Messages, Fifo!Send(m)
      PROVE  Contents' \in Seq(Messages)
  <2>1. CASE Len(Contents) < Size
    BY <1>2, <2>1 DEF Fifo!Send
  <2>2. CASE ~(Len(Contents) < Size)
    <3>1. Contents # <<>>
      BY <2>2, SizeAssumption
    <3> QED BY <1>1, <1>2, <2>2, <3>1 DEF Fifo!Send
  <2> QED BY <2>1, <2>2
<1>3. CASE Fifo!Receive \/ Fifo!Peek \/ Fifo!Clear \/ Fifo!Lose
  <2>1. Contents' = Contents \/ Contents' = <<>>
        \/ (Contents # <<>> /\ Contents' = Tail(Contents))
    BY <1>3, Zenon DEF Fifo!Receive, Fifo!Peek, Fifo!Clear, Fifo!Lose
  <2>2. <<>> \in Seq(Messages)
    OBVIOUS
  <2> QED BY <1>1, <2>1, <2>2, Zenon
<1> QED BY <1>2, <1>3, Zenon DEF Fifo!Next

-----------------------------------------------------------------------------
(* The inductive invariant: the types, and unless a call was torn the      *)
(* write position at the end of the counted slots, all of them whole.      *)
QueueInv ==
  /\ RingType /\ out \in Outs /\ queueTorn \in BOOLEAN
  /\ queueTorn \/ (Ring /\ Contents \in Seq(Messages))

LEMMA QueueInvInit == QueueInit => QueueInv /\ Fifo!Init
<1> SUFFICES ASSUME QueueInit PROVE QueueInv /\ Fifo!Init
  OBVIOUS
<1>1. RingType
  BY SizeAssumption DEF QueueInit, RingType, Slots, Item
<1>2. Ring /\ Contents = <<>>
  BY EmptyRing DEF QueueInit
<1>3. Contents \in Seq(Messages)
  BY <1>2
<1>4. out = <<>> /\ queueTorn = FALSE
  BY Zenon DEF QueueInit
<1>5. out \in Outs
  BY <1>4, Zenon DEF Outs
<1> QED BY <1>1, <1>2, <1>3, <1>4, <1>5, Zenon DEF QueueInv, Fifo!Init

LEMMA QueueInvNext ==
  ASSUME QueueInv, [QueueNext]_queueVars
  PROVE  QueueInv' /\ [queueTorn' \/ Fifo!Next]_<<Contents, out>>
<1>1. CASE UNCHANGED queueVars
  <2>1. Still /\ out' = out /\ queueTorn' = queueTorn
    BY <1>1 DEF queueVars, Still
  <2>2. Contents' = Contents /\ Ring' = Ring
    BY <2>1, StillContents
  <2>3. RingType'
    BY <2>1 DEF QueueInv, RingType, Still
  <2> QED BY <2>1, <2>2, <2>3, Zenon DEF QueueInv
<1>2. CASE QueueNext
  <2>1. RingType' /\ out' \in Outs /\ queueTorn' \in BOOLEAN
    BY <1>2, RingTypeStep, OutStep, Zenon DEF QueueInv
  <2>2. CASE queueTorn'
    BY <2>1, <2>2, Zenon DEF QueueInv
  <2>3. CASE ~queueTorn'
    <3>1. Ring' /\ (Fifo!Next \/ (Contents' = Contents /\ out' = out))
      BY <1>2, <2>1, <2>3, Simulation, Zenon DEF QueueInv
    <3>2. Contents' \in Seq(Messages)
      <4>1. CASE queueTorn
        BY <1>2, <2>3, <4>1, TornUntilCleared
      <4>2. CASE ~queueTorn
        BY <3>1, <4>2, FifoKeepsWhole, Zenon DEF QueueInv
      <4> QED BY <4>1, <4>2
    <3> QED BY <2>1, <3>1, <3>2, Zenon DEF QueueInv
  <2> QED BY <2>2, <2>3, Zenon
<1> QED BY <1>1, <1>2

LEMMA QueueSays == QueueInv => QueueTypeOK /\ WholeMessages
<1>1. QueueInv => QueueTypeOK
  BY TypeParts, Zenon DEF QueueInv
<1>2. QueueInv => WholeMessages
  <2> SUFFICES ASSUME QueueInv, ~queueTorn, NEW i \in 1 .. count
               PROVE  Contents[i] # Blank
    BY Zenon DEF WholeMessages
  <2>1. RingType /\ Contents \in Seq(Messages)
    BY Zenon DEF QueueInv
  <2>2. Contents[i] \in Messages
    BY <2>1, ContentsSeq
  <2> QED BY <2>2, MessagesAssumption
<1> QED BY <1>1, <1>2

(* For every size and set of messages the positions stay inside the ring   *)
(* of msg_send(), msg_receive() and msg_clear(), whoever is killed in one. *)
THEOREM QueueTypeCorrect == QueueSpec => []QueueTypeOK
BY QueueSays, QueueInvInit, QueueInvNext, PTL DEF QueueSpec

(* For every size and set of messages the ring is the bounded FIFO, until  *)
(* a call is torn by a kill and from the next msg_clear() on.              *)
THEOREM QueueImplementsFifo == QueueSpec => ImplementsFifo
BY QueueInvInit, QueueInvNext, PTL DEF QueueSpec, ImplementsFifo

(* For every size and set of messages no half-written message is ever      *)
(* among the counted ones, unless a call was torn.                         *)
THEOREM QueueWholeMessages == QueueSpec => []WholeMessages
BY QueueSays, QueueInvInit, QueueInvNext, PTL DEF QueueSpec

-----------------------------------------------------------------------------
(* The segment.  Of the places in shm_init_master(), those before the set  *)
(* of the master exists, and all of them.                                  *)
Fresh == {"idle", "attach", "sem_get", "sem_open", "sem_remove", "sem_recreate"}
           \union Creating
Starting == Creating \union Filling

(* A master works with the segment and the set it has created, or with the *)
(* old ones on its way to remove them.                                     *)
MasterAt ==
  \A m \in Masters :
    /\ at[m] \notin {"w_attach", "w_validate", "w_sem"}
    /\ at[m] \in Filling \union {"ready", "inside", "cleanup"} => shmid[m] = m
    /\ at[m] \in {"set_all", "store", "set_writers", "ready", "inside", "cleanup"}
       => semid[m] = m
    /\ at[m] = "remove" => shmid[m] \in Masters
    /\ at[m] = "sem_remove" => semid[m] \in Masters

(* A worker is past shm_validate() only with a segment that passes it.     *)
AttacherAt ==
  \A w \in Attachers :
    /\ at[w] \notin Starting
    /\ at[w] \in {"w_sem", "ready", "inside"} => shmid[w] \in valid
    /\ at[w] \in {"ready", "inside"} => semid[w] \in Masters

(* Nobody knows a set before it is created.                                *)
SetUnused ==
  \A m \in Masters :
    at[m] \in Fresh => /\ m \notin lostSets /\ semKey # m
                       /\ \A p \in Users : semid[p] # m

ValidLate ==
  \A m \in valid : at[m] \in {"set_writers", "ready", "inside", "cleanup", "done"}

(* The lock of a set cannot be taken before its master is ready.           *)
ClosedUntilReady ==
  \A m \in Masters :
    at[m] \in Fresh \union Filling =>
      writers[m] = 0 /\ \A p \in Users : at[p] = "inside" => semid[p] # m

(* A master that starts alone has its set under the key when the first     *)
(* worker passes shm_validate(): worker and master have the same set.      *)
OneAtATime ==
  /\ \A m, n \in Masters : at[m] \in Starting /\ at[n] \in Starting => m = n
  /\ \A m \in Masters : at[m] \in {"set_all", "store", "set_writers"} => semKey = m
  /\ \A m \in Masters, p \in Users :
       at[m] = "set_writers" /\ at[p] \in {"ready", "inside"} /\ shmid[p] = m
       => semid[p] = m

SegInv ==
  /\ SegTypeOK /\ MasterAt /\ AttacherAt /\ SetUnused /\ ValidLate /\ ClosedUntilReady
  /\ ~overlap => OneAtATime
  /\ semKey \notin lostSets
  /\ LockComesBack

LEMMA SegInvInit == SegInit => SegInv
<1> SUFFICES ASSUME SegInit PROVE SegInv
  OBVIOUS
<1> USE NoIdAssumption DEF SegInit, Users
<1>1. SegTypeOK
  <2>1. /\ at \in [Users -> {"idle"}] /\ writers \in [Masters -> 0 .. 1]
        /\ shmid \in [Users -> {NoId}] /\ semid \in [Users -> {NoId}]
    OBVIOUS
  <2>2. overlap \in BOOLEAN
    BY Zenon
  <2> QED BY <2>1, <2>2 DEF SegTypeOK
<1>2. MasterAt /\ AttacherAt /\ ValidLate
  BY DEF MasterAt, AttacherAt, ValidLate, Starting, Creating, Filling
<1>3. SetUnused /\ ClosedUntilReady /\ semKey \notin lostSets
  BY DEF SetUnused, ClosedUntilReady
<1>4. OneAtATime
  BY DEF OneAtATime, Starting, Creating, Filling
<1>5. LockComesBack
  BY DEF LockComesBack
<1> QED BY <1>1, <1>2, <1>3, <1>4, <1>5 DEF SegInv

LEMMA SegInvStep ==
  ASSUME SegInv, SegNext
  PROVE  SegInv'
<1> USE NoIdAssumption, RolesAssumption
    DEF SegInv, SegTypeOK, MasterAt, AttacherAt, SetUnused, ValidLate,
        ClosedUntilReady, OneAtATime, LockComesBack, Fresh, Starting, Creating, Filling,
        Users, Goto, Take, TakeSet, RemoveSegment, RemoveSet, Fail, DestroyOwn
<1>1. ASSUME NEW m \in Masters, ShmCreate(m) PROVE SegInv'
  <2>1. ~overlap' => ~overlap /\ (at[m] = "idle" => \A n \in Masters : at[n] \notin Starting)
    BY <1>1, Zenon DEF ShmCreate
  <2>2. /\ SegTypeOK' /\ MasterAt' /\ AttacherAt' /\ SetUnused' /\ ValidLate'
        /\ ClosedUntilReady' /\ (semKey \notin lostSets)' /\ LockComesBack'
    BY <1>1 DEF ShmCreate
  <2>3. ~overlap' => OneAtATime'
    BY <1>1, <2>1 DEF ShmCreate
  <2> QED BY <2>2, <2>3
<1>2. ASSUME NEW m \in Masters, ShmOpenOld(m) PROVE SegInv'
  BY <1>2 DEF ShmOpenOld
<1>3. ASSUME NEW m \in Masters, ShmRemoveOld(m) PROVE SegInv'
  BY <1>3 DEF ShmRemoveOld
<1>4. ASSUME NEW m \in Masters, MasterAttach(m) PROVE SegInv'
  BY <1>4 DEF MasterAttach
<1>5. ASSUME NEW m \in Masters, SemCreate(m) PROVE SegInv'
  BY <1>5 DEF SemCreate
<1>6. ASSUME NEW m \in Masters, SemOpenOld(m) PROVE SegInv'
  BY <1>6 DEF SemOpenOld
<1>7. ASSUME NEW m \in Masters, SemRemoveOld(m) PROVE SegInv'
  BY <1>7 DEF SemRemoveOld
<1>8. ASSUME NEW m \in Masters, SetAll(m) PROVE SegInv'
  BY <1>8 DEF SetAll, InitialWriters
<1>9. ASSUME NEW m \in Masters, UndoSegment(m) PROVE SegInv'
  BY <1>9 DEF UndoSegment
<1>10. ASSUME NEW m \in Masters, StoreVersion(m) PROVE SegInv'
  BY <1>10 DEF StoreVersion
<1>11. ASSUME NEW m \in Masters, SetWriters(m) PROVE SegInv'
  BY <1>11 DEF SetWriters
<1>12. ASSUME NEW m \in Masters, CleanupSegment(m) PROVE SegInv'
  BY <1>12 DEF CleanupSegment
<1>13. ASSUME NEW m \in Masters, CleanupSet(m) PROVE SegInv'
  BY <1>13 DEF CleanupSet
<1>14. ASSUME NEW w \in Attachers, WorkerOpen(w) PROVE SegInv'
  BY <1>14 DEF WorkerOpen
<1>15. ASSUME NEW w \in Attachers, WorkerAttach(w) PROVE SegInv'
  BY <1>15 DEF WorkerAttach
<1>16. ASSUME NEW w \in Attachers, WorkerValidate(w) PROVE SegInv'
  BY <1>16 DEF WorkerValidate
<1>17. ASSUME NEW w \in Attachers, WorkerSem(w) PROVE SegInv'
  BY <1>17 DEF WorkerSem
<1>18. ASSUME NEW p \in Users, Lock(p) PROVE SegInv'
  BY <1>18 DEF Lock
<1>19. ASSUME NEW p \in Users, Unlock(p) PROVE SegInv'
  BY <1>19 DEF Unlock
<1>20. ASSUME NEW p \in Users, Ends(p) PROVE SegInv'
  BY <1>20 DEF Ends, Undone
<1> QED BY <1>1, <1>2, <1>3, <1>4, <1>5, <1>6, <1>7, <1>8, <1>9, <1>10, <1>11, <1>12, <1>13, <1>14, <1>15, <1>16, <1>17, <1>18, <1>19, <1>20 DEF SegNext

LEMMA SegInvKept == SegInv /\ [SegNext]_segVars => SegInv'
<1>1. CASE UNCHANGED segVars
  BY <1>1 DEF segVars, SegInv, SegTypeOK, MasterAt, AttacherAt, SetUnused, ValidLate,
              ClosedUntilReady, OneAtATime, LockComesBack
<1> QED BY <1>1, SegInvStep

LEMMA SegSays == SegInv => InitUndisturbed
BY RolesAssumption DEF SegInv, SegTypeOK, MasterAt, AttacherAt, ValidLate,
   ClosedUntilReady, OneAtATime, InitUndisturbed, Starting, Creating, Filling, Users

(* shm_init_master() fills the segment alone, unless two masters start at  *)
(* the same time: whoever attaches meanwhile waits for the lock.           *)
THEOREM InitAlone == Spec => []InitUndisturbed
<1>1. Init => SegInv
  BY SegInvInit DEF Init
<1>2. SegInv /\ [Next]_vars => SegInv'
  BY SegInvKept, StepOfEachPart
<1> QED BY <1>1, <1>2, SegSays, PTL DEF Spec

(* SEM_WRITERS at 0 always has somebody who will raise it: a master in     *)
(* shm_init_master() or a process inside the lock, wherever others are     *)
(* killed.                                                                 *)
THEOREM LockNeverLost == Spec => []LockComesBack
<1>1. Init => SegInv
  BY SegInvInit DEF Init
<1>2. SegInv /\ [Next]_vars => SegInv'
  BY SegInvKept, StepOfEachPart
<1>3. SegInv => LockComesBack
  BY DEF SegInv
<1> QED BY <1>1, <1>2, <1>3, PTL DEF Spec

-----------------------------------------------------------------------------
(* The stock table.  The search of shm_find_stock_index() finds an entry   *)
(* of the symbol if there is one.                                          *)
LEMMA LeastOf ==
  ASSUME NEW T \in SUBSET Nat, T # {}
  PROVE  (CHOOSE i \in T : \A j \in T : i <= j) \in T
<1>1. PICK m \in T : \A n \in T : <<n, m>> \notin OpToRel(<, Nat)
  BY NatLessThanWellFounded, WFMin, Zenon
<1>2. \A n \in T : m <= n
  <2>1. TAKE n \in T
  <2>2. n \in Nat /\ m \in Nat
    OBVIOUS
  <2>3. n < m => <<n, m>> \in OpToRel(<, Nat)
    BY <2>2 DEF OpToRel
  <2>4. ~(n < m)
    BY <1>1, <2>3
  <2> QED BY <2>2, <2>4
<1> QED BY <1>2, Zenon

LEMMA Found ==
  ASSUME NEW s
  PROVE  /\ Present(s) <=> Matches(s) # {}
         /\ Present(s) => FindIndex(s) \in Matches(s)
<1>1. Matches(s) \in SUBSET Nat
  BY CapacityAssumption DEF Matches, Place
<1>2. CASE Matches(s) = {}
  BY <1>2 DEF Present, FindIndex
<1>3. CASE Matches(s) # {}
  <2>1. FindIndex(s) \in Matches(s)
    BY <1>1, <1>3, LeastOf, Zenon DEF FindIndex
  <2> QED BY <1>1, <1>3, <2>1 DEF Present
<1> QED BY <1>2, <1>3

LEMMA FoundNext ==
  ASSUME NEW s
  PROVE  Present(s)' <=> Matches(s)' # {}
<1>1. Matches(s)' \in SUBSET Nat
  BY CapacityAssumption DEF Matches, Place
<1>2. CASE Matches(s)' = {}
  BY <1>2 DEF Present, FindIndex
<1>3. CASE Matches(s)' # {}
  <2>1. FindIndex(s)' \in Matches(s)'
    BY <1>1, <1>3, LeastOf, Zenon DEF FindIndex
  <2> QED BY <1>1, <1>3, <2>1 DEF Present
<1> QED BY <1>2, <1>3

(* No short symbol is there twice, its data are what was stored last, and  *)
(* a symbol that is not there was not stored or was removed.               *)
StockRows ==
  /\ \A i, j \in Place :
       /\ i < stockCount /\ j < stockCount
       /\ stocks[i].symbol = stocks[j].symbol /\ stocks[i].symbol \in Short
       => i = j
  /\ \A i \in Place :
       i < stockCount /\ stocks[i].symbol \in Short
       => stocks[i].data = last[stocks[i].symbol]
  /\ \A s \in Short :
       last[s] # "none" => \E i \in Place : i < stockCount /\ stocks[i].symbol = s

StockInv == StockTypeOK /\ (~stockTorn => StockRows)

LEMMA StockInvInit == StockInit => StockInv
<1> SUFFICES ASSUME StockInit PROVE StockInv
  OBVIOUS
<1> USE CapacityAssumption DEF StockInit
<1>1. stocks \in [Place -> Entry] /\ last \in [Symbols -> {"none"}]
  BY DEF Entry
<1>2. stockTorn \in BOOLEAN
  BY Zenon
<1>3. StockRows
  BY DEF StockRows, Place, Short
<1> QED BY <1>1, <1>2, <1>3 DEF StockInv, StockTypeOK

LEMMA StockTypeStep ==
  ASSUME StockTypeOK, StockNext
  PROVE  StockTypeOK'
<1> USE CapacityAssumption, SymbolsAssumption DEF StockTypeOK, Place, Entry
<1>1. ASSUME NEW s \in Symbols, AddStock(s) PROVE StockTypeOK'
  BY <1>1 DEF AddStock, HasRoom, Stored
<1>2. ASSUME NEW s \in Symbols, KilledAdd(s) PROVE StockTypeOK'
  BY <1>2 DEF KilledAdd, HasRoom, Stored
<1>3. ASSUME NEW s \in Symbols, NEW v \in Values, UpdateStock(s, v) PROVE StockTypeOK'
  BY <1>3 DEF UpdateStock
<1>4. ASSUME NEW s \in Symbols, KilledUpdate(s) PROVE StockTypeOK'
  <2>1. PICK i \in Place :
          /\ i = PlaceFor(s)
          /\ \/ stocks' = [stocks EXCEPT ![i] = [symbol |-> s, data |-> "mixed"]]
             \/ stocks' = [stocks EXCEPT ![i].symbol = "blank"]
             \/ stocks' = stocks
          /\ stockCount' = IF i = stockCount THEN stockCount + 1 ELSE stockCount
    BY <1>4 DEF KilledUpdate
  <2>2. stocks[i].symbol \in Symbols \union {"cut", "blank"}
          /\ stocks[i].data \in Values \union {"unset", "mixed"}
    OBVIOUS
  <2>3. stocks' \in [Place -> Entry]
    <3>1. CASE stocks' = [stocks EXCEPT ![i] = [symbol |-> s, data |-> "mixed"]]
      BY <3>1
    <3>2. CASE stocks' = [stocks EXCEPT ![i].symbol = "blank"]
      BY <2>2, <3>2
    <3> QED BY <2>1, <3>1, <3>2
  <2> QED BY <1>4, <2>1, <2>3 DEF KilledUpdate
<1>5. ASSUME NEW s \in Symbols, RemoveStock(s) PROVE StockTypeOK'
  BY <1>5, Found DEF RemoveStock, Shifted, CountLess, Matches
<1>6. ASSUME NEW s \in Symbols, KilledRemove(s) PROVE StockTypeOK'
  <2> DEFINE f == FindIndex(s)
  <2>1. f \in Place /\ f < stockCount
    BY <1>6, Found DEF KilledRemove, Matches
  <2>2. \A end \in f .. stockCount - 1 : Shifted(f, end) \in [Place -> Entry]
    BY <2>1 DEF Shifted
  <2>3. stocks' \in [Place -> Entry]
    <3>1. PICK end \in f .. stockCount - 1 :
            \/ stocks' = Shifted(f, end)
            \/ /\ end < stockCount - 1
               /\ \E name \in {stocks[end + 1].symbol, "blank"} :
                    stocks' = [Shifted(f, end) EXCEPT
                                 ![end] = [symbol |-> name, data |-> "mixed"]]
      BY <1>6 DEF KilledRemove
    <3>2. end < stockCount - 1 => stocks[end + 1].symbol \in Symbols \union {"cut", "blank"}
      BY <2>1
    <3>3. CASE stocks' = Shifted(f, end)
      BY <2>2, <3>3
    <3>4. CASE end < stockCount - 1
      <4>1. \A name \in Symbols \union {"cut", "blank"} :
              [Shifted(f, end) EXCEPT ![end] = [symbol |-> name, data |-> "mixed"]]
                \in [Place -> Entry]
        BY <2>2
      <4>2. CASE ~(stocks' = Shifted(f, end))
        <5>1. PICK name \in {stocks[end + 1].symbol, "blank"} :
                stocks' = [Shifted(f, end) EXCEPT
                             ![end] = [symbol |-> name, data |-> "mixed"]]
          BY <3>1, <4>2, Zenon
        <5>2. name \in Symbols \union {"cut", "blank"}
          BY <3>2, <3>4
        <5> QED BY <4>1, <5>1, <5>2
      <4> QED BY <3>3, <4>2
    <3> QED BY <3>1, <3>3, <3>4
  <2> QED BY <1>6, <2>3 DEF KilledRemove
<1> QED BY <1>1, <1>2, <1>3, <1>4, <1>5, <1>6 DEF StockNext, Short

LEMMA StockRowsStep ==
  ASSUME StockTypeOK, StockRows, StockNext, ~stockTorn'
  PROVE  StockRows'
<1> USE CapacityAssumption, SymbolsAssumption DEF StockTypeOK, StockRows, Place, Entry, Short
<1>1. ASSUME NEW s \in Symbols, AddStock(s) PROVE StockRows'
  <2>1. /\ stockCount \in Place /\ stockCount' = stockCount + 1
        /\ stocks' = [stocks EXCEPT ![stockCount] = [symbol |-> Stored(s), data |-> "unset"]]
        /\ last' = [last EXCEPT ![s] = "unset"]
    BY <1>1 DEF AddStock, HasRoom
  <2>2. \A j \in Place : j < stockCount => stocks[j].symbol # s
    BY <1>1, Found DEF AddStock, Matches
  <2>3. Stored(s) \in Short => Stored(s) = s
    BY DEF Stored
  <2>4. s \in Short => Stored(s) = s
    BY DEF Stored
  <2> QED BY <2>1, <2>2, <2>3, <2>4
<1>2. ASSUME NEW s \in Symbols, KilledAdd(s) PROVE StockRows'
  BY <1>2 DEF KilledAdd, HasRoom, Stored
<1>3. ASSUME NEW s \in Short, NEW v \in Values, UpdateStock(s, v) PROVE StockRows'
  <2> DEFINE i == PlaceFor(s)
  <2>1. /\ i \in Place /\ stocks' = [stocks EXCEPT ![i] = [symbol |-> s, data |-> v]]
        /\ last' = [last EXCEPT ![s] = v]
    BY <1>3 DEF UpdateStock
  <2>2. CASE Present(s)
    <3>1. i < stockCount /\ stocks[i].symbol = s /\ stockCount' = stockCount
      BY <1>3, <2>2, Found DEF UpdateStock, PlaceFor, Matches
    <3> QED BY <2>1, <3>1
  <2>3. CASE ~Present(s)
    <3>1. i = stockCount /\ stockCount' = stockCount + 1
      BY <1>3, <2>3 DEF UpdateStock, PlaceFor
    <3>2. \A j \in Place : j < stockCount => stocks[j].symbol # s
      BY <2>3, Found DEF Matches
    <3> QED BY <2>1, <3>1, <3>2
  <2> QED BY <2>2, <2>3
<1>4. ASSUME NEW s \in Symbols, RemoveStock(s) PROVE StockRows'
  <2> DEFINE f == FindIndex(s)
             from(i) == IF i < f THEN i ELSE i + 1
  <2>1. /\ f \in Place /\ f < stockCount /\ stocks[f].symbol = s
        /\ stockCount' = stockCount - 1 /\ last' = [last EXCEPT ![s] = "none"]
    BY <1>4, Found DEF RemoveStock, CountLess, Matches
  <2>2. ASSUME NEW i \in Place, i < stockCount'
        PROVE  /\ from(i) \in Place /\ from(i) < stockCount /\ from(i) # f
               /\ stocks'[i] = stocks[from(i)]
    BY <1>4, <2>1, <2>2 DEF RemoveStock, Shifted
  <2>3. \A i \in Place : i < stockCount /\ i # f =>
          \E j \in Place : j < stockCount' /\ from(j) = i
    <3> SUFFICES ASSUME NEW i \in Place, i < stockCount, i # f
                 PROVE  \E j \in Place : j < stockCount' /\ from(j) = i
      OBVIOUS
    <3> DEFINE j == IF i < f THEN i ELSE i - 1
    <3>1. j \in Place /\ j < stockCount' /\ from(j) = i
      BY <2>1
    <3> QED BY <3>1
  <2>4. \A i, j \in Place : from(i) = from(j) => i = j
    BY <2>1
  <2> HIDE DEF f, from
  <2>5. \A i, j \in Place :
          /\ i < stockCount' /\ j < stockCount'
          /\ stocks'[i].symbol = stocks'[j].symbol /\ stocks'[i].symbol \in Short
          => i = j
    BY <2>2, <2>4
  <2>6. \A i \in Place :
          i < stockCount' /\ stocks'[i].symbol \in Short
          => stocks'[i].data = last'[stocks'[i].symbol]
    BY <2>1, <2>2
  <2>7. \A t \in Short :
          last'[t] # "none" => \E i \in Place : i < stockCount' /\ stocks'[i].symbol = t
    <3> SUFFICES ASSUME NEW t \in Short, last'[t] # "none"
                 PROVE  \E i \in Place : i < stockCount' /\ stocks'[i].symbol = t
      OBVIOUS
    <3>1. t # s /\ last[t] # "none"
      BY <2>1
    <3>2. PICK i \in Place : i < stockCount /\ stocks[i].symbol = t
      BY <3>1
    <3> QED BY <2>1, <2>2, <2>3, <3>1, <3>2
  <2> QED BY <2>5, <2>6, <2>7
<1>5. ASSUME NEW s \in Symbols, KilledUpdate(s) \/ KilledRemove(s) PROVE FALSE
  BY <1>5 DEF KilledUpdate, KilledRemove
<1> QED BY <1>1, <1>2, <1>3, <1>4, <1>5 DEF StockNext

LEMMA StockInvKept == StockInv /\ [StockNext]_stockVars => StockInv'
<1> SUFFICES ASSUME StockInv, [StockNext]_stockVars PROVE StockInv'
  OBVIOUS
<1>1. CASE StockNext
  <2>1. stockTorn => stockTorn'
    BY <1>1, Zenon DEF StockNext, AddStock, KilledAdd, UpdateStock, KilledUpdate,
       RemoveStock, KilledRemove
  <2> QED BY <1>1, <2>1, StockTypeStep, StockRowsStep DEF StockInv
<1>2. CASE UNCHANGED stockVars
  BY <1>2 DEF stockVars, StockInv, StockTypeOK, StockRows
<1> QED BY <1>1, <1>2

LEMMA StockSays == StockInv => LookupExact
<1> SUFFICES ASSUME StockInv, ~stockTorn, NEW s \in Short
             PROVE  IF Present(s)
                      THEN Cardinality(Matches(s)) = 1 /\ stocks[FindIndex(s)].data = last[s]
                      ELSE last[s] = "none"
  BY DEF LookupExact
<1>1. StockRows
  BY DEF StockInv
<1>2. CASE Present(s)
  <2>1. FindIndex(s) \in Matches(s) /\ FindIndex(s) \in Place
    BY <1>2, Found DEF Matches
  <2>2. \A i \in Matches(s) : i = FindIndex(s)
    BY <1>1, <2>1 DEF StockRows, Matches
  <2>3. Matches(s) = {FindIndex(s)}
    BY <2>1, <2>2, Zenon
  <2>4. Cardinality(Matches(s)) = 1
    BY <2>3, FS_Singleton
  <2> QED BY <1>1, <1>2, <2>1, <2>4 DEF StockRows, Matches
<1>3. CASE ~Present(s)
  BY <1>1, <1>3, Found DEF StockRows, Matches
<1> QED BY <1>2, <1>3

(* shm_get_stock() returns for every short symbol what the last successful *)
(* call stored, and nothing after its removal, for tables and symbols of   *)
(* any size, as long as no process was killed inside a change.             *)
THEOREM StockLookup == Spec => []LookupExact
<1>1. Init => StockInv
  BY StockInvInit DEF Init
<1>2. StockInv /\ [Next]_vars => StockInv'
  BY StockInvKept, StepOfEachPart
<1> QED BY <1>1, <1>2, StockSays, PTL DEF Spec

(* Every call leaves an entry for each symbol but the one it removes,      *)
(* at its old place or one further to the front.                           *)
LEMMA OthersStay ==
  ASSUME StockTypeOK, StockNext, NEW s \in Symbols, Present(s),
         ~RemoveStock(s), ~KilledRemove(s)
  PROVE  Present(s)'
<1> USE CapacityAssumption, SymbolsAssumption DEF StockTypeOK, Place, Entry, Short
<1>1. PICK i \in Place : i < stockCount /\ stocks[i].symbol = s
  BY Found DEF Matches
<1>2. SUFFICES \E j \in Place : j < stockCount' /\ stocks'[j].symbol = s
  BY FoundNext DEF Matches
<1>3. ASSUME NEW t \in Symbols, AddStock(t) \/ KilledAdd(t)
      PROVE  i < stockCount' /\ stocks'[i].symbol = s
  <2>1. CASE AddStock(t)
    BY <1>1, <2>1 DEF AddStock
  <2>2. CASE KilledAdd(t)
    BY <1>1, <2>2 DEF KilledAdd
  <2> QED BY <1>3, <2>1, <2>2
<1>4. ASSUME NEW t \in Symbols, NEW v \in Values, UpdateStock(t, v)
      PROVE  i < stockCount' /\ stocks'[i].symbol = s
  <2>1. PlaceFor(t) = i => t = s
    BY <1>1, <1>4, Found DEF UpdateStock, PlaceFor, Matches
  <2> QED BY <1>1, <1>4, <2>1 DEF UpdateStock
<1>5. ASSUME NEW t \in Symbols, KilledUpdate(t)
      PROVE  i < stockCount' /\ stocks'[i].symbol = s
  <2>1. PlaceFor(t) = i => t = s /\ Present(t)
    BY <1>1, <1>5, Found DEF KilledUpdate, PlaceFor, Matches
  <2> QED BY <1>1, <1>5, <2>1 DEF KilledUpdate
<1>6. ASSUME NEW t \in Symbols, RemoveStock(t)
      PROVE  \E j \in Place : j < stockCount' /\ stocks'[j].symbol = s
  <2>1. FindIndex(t) \in Place /\ FindIndex(t) < stockCount /\ FindIndex(t) # i
    BY <1>1, <1>6, Found DEF RemoveStock, Matches
  <2>2. CASE i < FindIndex(t)
    BY <1>1, <1>6, <2>1, <2>2 DEF RemoveStock, Shifted, CountLess
  <2>3. CASE i > FindIndex(t)
    <3>1. i - 1 \in Place /\ i - 1 < stockCount' /\ stocks'[i - 1].symbol = s
      BY <1>1, <1>6, <2>1, <2>3 DEF RemoveStock, Shifted, CountLess
    <3> QED BY <3>1
  <2> QED BY <2>1, <2>2, <2>3
<1>7. ASSUME NEW t \in Symbols, KilledRemove(t)
      PROVE  \E j \in Place : j < stockCount' /\ stocks'[j].symbol = s
  <2> DEFINE f == FindIndex(t)
  <2>1. f \in Place /\ f < stockCount /\ f # i /\ stockCount' = stockCount
    BY <1>1, <1>7, Found DEF KilledRemove, Matches
  <2>2. PICK end \in f .. stockCount - 1 :
          \A j \in Place : j # end => stocks'[j] = Shifted(f, end)[j]
    BY <1>7, <2>1 DEF KilledRemove, Shifted
  <2>3. CASE i - 1 >= f /\ i - 1 < end
    <3>1. i - 1 \in Place /\ i - 1 < stockCount' /\ stocks'[i - 1].symbol = s
      BY <1>1, <2>1, <2>2, <2>3 DEF Shifted
    <3> QED BY <3>1
  <2>4. CASE i < f \/ i > end
    BY <1>1, <2>1, <2>2, <2>4 DEF Shifted
  <2>5. i < f \/ i > end \/ (i - 1 >= f /\ i - 1 < end)
    BY <2>1
  <2> QED BY <2>3, <2>4, <2>5
<1> QED BY <1>1, <1>3, <1>4, <1>5, <1>6, <1>7 DEF StockNext

(* Only the stock that was to be removed can disappear, wherever the       *)
(* process that shifts the others is killed.                               *)
THEOREM StocksSurvive == Spec => OthersSurvive
<1>1. Init => StockInv
  BY StockInvInit DEF Init
<1>2. StockInv /\ [Next]_vars => StockInv'
  BY StockInvKept, StepOfEachPart
<1>3. StockInv /\ [Next]_vars =>
        [\A s \in Symbols :
           Present(s) /\ ~Present(s)' => RemoveStock(s) \/ KilledRemove(s)]_stockVars
  BY StepOfEachPart, OthersStay DEF StockInv
<1> QED BY <1>1, <1>2, <1>3, PTL DEF Spec, OthersSurvive

-----------------------------------------------------------------------------
(* The worker table.                                                       *)
Used == {i \in WSlot : pid[i] # NoPid}

(* As long as none registers twice, a worker has one slot, and its last    *)
(* sign of life is at least as old as the heartbeat there.                 *)
OneSlotEach ==
  /\ \A i, j \in Used : pid[i] = pid[j] => i = j
  /\ \A i \in Used : beat[i] <= quiet[pid[i]]

WorkerInv == WorkerTypeOK /\ ActiveExact /\ (~again => OneSlotEach)

LEMMA UsedFinite ==
  /\ IsFiniteSet(Used) /\ Cardinality(Used) \in Nat
  /\ IsFiniteSet(Used') /\ Cardinality(Used') \in Nat
<1>1. IsFiniteSet(WSlot)
  BY MaxWorkersAssumption, FS_Interval DEF WSlot
<1>2. Used \subseteq WSlot /\ Used' \subseteq WSlot
  BY DEF Used
<1> QED BY <1>1, <1>2, FS_Subset, FS_CardinalityType

LEMMA WorkerInvInit == WorkerInit => WorkerInv
<1> SUFFICES ASSUME WorkerInit PROVE WorkerInv
  OBVIOUS
<1> USE MaxWorkersAssumption, LimitAssumption DEF WorkerInit
<1>1. /\ pid \in [WSlot -> {NoPid}] /\ status \in [WSlot -> 0 .. 1]
      /\ beat \in [WSlot -> Age] /\ quiet \in [Workers -> Age]
  BY DEF Age
<1>2. again \in BOOLEAN /\ workerTorn \in BOOLEAN
  BY Zenon
<1>3. Used = {}
  BY DEF Used
<1>4. ActiveExact
  BY <1>3, FS_EmptySet DEF ActiveExact, Used
<1> QED BY <1>1, <1>2, <1>3, <1>4 DEF WorkerInv, WorkerTypeOK, OneSlotEach

LEMMA WorkerTypeStep ==
  ASSUME WorkerTypeOK, WorkerNext
  PROVE  WorkerTypeOK'
<1> USE MaxWorkersAssumption, LimitAssumption DEF WorkerTypeOK, WSlot, Age
<1>1. ASSUME NEW p \in Workers, Register(p) PROVE WorkerTypeOK'
  BY <1>1 DEF Register, CountRaised
<1>2. ASSUME NEW p \in Workers, KilledRegister(p) PROVE WorkerTypeOK'
  BY <1>2 DEF KilledRegister, CountRaised
<1>3. ASSUME NEW p \in Workers, Unregister(p) PROVE WorkerTypeOK'
  BY <1>3 DEF Unregister, ActiveLess
<1>4. ASSUME NEW p \in Workers, KilledUnregister(p) PROVE WorkerTypeOK'
  BY <1>4 DEF KilledUnregister
<1>5. ASSUME NEW p \in Workers, Heartbeat(p) PROVE WorkerTypeOK'
  BY <1>5 DEF Heartbeat, BeatSet
<1>6. ASSUME NEW max \in 1 .. MaxWorkers, GetDeadWorkers(max) PROVE WorkerTypeOK'
  BY <1>6 DEF GetDeadWorkers
<1>7. CASE Time
  BY <1>7 DEF Time, Older
<1> QED BY <1>1, <1>2, <1>3, <1>4, <1>5, <1>6, <1>7 DEF WorkerNext

(* What a registration and its end do to the slots in use.                 *)
LEMMA Registered ==
  ASSUME WorkerTypeOK, NEW p \in Workers, NEW i \in WSlot, RegisterAt(i, p),
         pid' = [pid EXCEPT ![i] = p]
  PROVE  /\ Used' = Used \union {i}
         /\ i \in Used => pid[i] = p
         /\ Cardinality(Used') <= Cardinality(Used) + 1
         /\ i \notin Used => Cardinality(Used') = Cardinality(Used) + 1
<1>1. p # NoPid /\ pid[i] \in {NoPid, p}
  BY WorkersAssumption DEF NoPid, RegisterAt, IsFirst
<1>2. \A j \in WSlot : pid'[j] # NoPid <=> pid[j] # NoPid \/ j = i
  BY <1>1 DEF WorkerTypeOK
<1>3. Used' = Used \union {i}
  BY <1>2, Zenon DEF Used
<1>4. CASE i \in Used
  <2>1. Used' = Used
    BY <1>3, <1>4, Zenon
  <2> QED BY <1>1, <1>3, <1>4, <2>1, UsedFinite DEF Used
<1>5. CASE i \notin Used
  BY <1>3, <1>5, UsedFinite, FS_AddElement
<1> QED BY <1>4, <1>5

LEMMA Released ==
  ASSUME WorkerTypeOK, NEW p \in Workers, NEW i \in WSlot, FoundAt(i, p),
         pid' = [pid EXCEPT ![i] = NoPid]
  PROVE  /\ Used' = Used \ {i} /\ i \in Used /\ pid[i] = p
         /\ Cardinality(Used') = Cardinality(Used) - 1
<1>1. p # NoPid /\ pid[i] = p /\ i \in Used
  BY WorkersAssumption DEF NoPid, FoundAt, IsFirst, Used
<1>2. \A j \in WSlot : pid'[j] # NoPid <=> pid[j] # NoPid /\ j # i
  BY <1>1 DEF WorkerTypeOK
<1>3. Used' = Used \ {i}
  BY <1>2, Zenon DEF Used
<1> QED BY <1>1, <1>3, UsedFinite, FS_RemoveElement

LEMMA ActiveParts ==
  ActiveExact <=>
    (~workerTorn => /\ \A i \in Used : i < workerCount
                    /\ active >= Cardinality(Used)
                    /\ ~again => active = Cardinality(Used))
BY DEF ActiveExact, Used

LEMMA ActivePartsNext ==
  ActiveExact' <=>
    (~workerTorn' => /\ \A i \in Used' : i < workerCount'
                     /\ active' >= Cardinality(Used')
                     /\ ~again' => active' = Cardinality(Used'))
BY DEF ActiveExact, Used

LEMMA ActiveStep ==
  ASSUME WorkerTypeOK, ActiveExact, WorkerNext
  PROVE  ActiveExact'
<1> SUFFICES ASSUME ~workerTorn'
             PROVE  /\ \A i \in Used' : i < workerCount'
                    /\ active' >= Cardinality(Used')
                    /\ ~again' => active' = Cardinality(Used')
  BY ActivePartsNext
<1>1. workerTorn => workerTorn'
  BY Zenon DEF WorkerNext, Register, KilledRegister, Unregister, KilledUnregister,
     Heartbeat, GetDeadWorkers, Time
<1>2. /\ \A i \in Used : i < workerCount
      /\ active >= Cardinality(Used)
      /\ ~again => active = Cardinality(Used)
  BY <1>1, ActiveParts
<1>3. workerCount \in Int /\ active \in Int /\ \A i \in WSlot : i \in Int
  BY MaxWorkersAssumption, LimitAssumption DEF WorkerTypeOK, WSlot
<1>4. ASSUME NEW p \in Workers, NEW i \in WSlot, RegisterAt(i, p),
             pid' = [pid EXCEPT ![i] = p], workerCount' = CountRaised(i),
             active' = active + 1, again' = (again \/ \E j \in WSlot : pid[j] = p)
      PROVE  /\ \A j \in Used' : j < workerCount'
             /\ active' >= Cardinality(Used')
             /\ ~again' => active' = Cardinality(Used')
  <2>1. /\ Used' = Used \union {i}
        /\ i \in Used => pid[i] = p
        /\ Cardinality(Used') <= Cardinality(Used) + 1
        /\ i \notin Used => Cardinality(Used') = Cardinality(Used) + 1
    BY <1>4, Registered
  <2>2. ~again' => ~again /\ i \notin Used
    BY <1>4, <2>1, Zenon
  <2>3. \A j \in Used' : j < workerCount'
    BY <1>2, <1>3, <1>4, <2>1 DEF CountRaised, Used
  <2> QED BY <1>2, <1>3, <1>4, <2>1, <2>2, <2>3, UsedFinite
<1>5. ASSUME NEW p \in Workers, Unregister(p)
      PROVE  /\ \A j \in Used' : j < workerCount'
             /\ active' >= Cardinality(Used')
             /\ ~again' => active' = Cardinality(Used')
  <2>1. PICK i \in WSlot : /\ FoundAt(i, p) /\ pid' = [pid EXCEPT ![i] = NoPid]
                           /\ active' = active - 1 /\ workerCount' = workerCount
                           /\ again' = again
    BY <1>5 DEF Unregister, ActiveLess
  <2>2. Used' = Used \ {i} /\ Cardinality(Used') = Cardinality(Used) - 1
    BY <2>1, Released
  <2> QED BY <1>2, <1>3, <2>1, <2>2, UsedFinite
<1>6. ASSUME UNCHANGED <<pid, workerCount, active, again>>
      PROVE  /\ \A j \in Used' : j < workerCount'
             /\ active' >= Cardinality(Used')
             /\ ~again' => active' = Cardinality(Used')
  BY <1>2, <1>6 DEF Used
<1>7. ASSUME NEW p \in Workers, KilledRegister(p) \/ KilledUnregister(p) PROVE FALSE
  BY <1>7 DEF KilledRegister, KilledUnregister
<1> QED
  BY <1>4, <1>5, <1>6, <1>7 DEF WorkerNext, Register, Heartbeat, GetDeadWorkers, Time

LEMMA OneSlotStep ==
  ASSUME WorkerTypeOK, ~again => OneSlotEach, WorkerNext, ~again'
  PROVE  OneSlotEach'
<1> USE LimitAssumption DEF WorkerTypeOK, Age
<1>1. again => again'
  BY Zenon DEF WorkerNext, Register, KilledRegister, Unregister, KilledUnregister,
     Heartbeat, GetDeadWorkers, Time
<1>2. OneSlotEach
  BY <1>1
<1>3. ASSUME NEW p \in Workers, NEW i \in WSlot, RegisterAt(i, p),
             pid' = [pid EXCEPT ![i] = p], again' = (again \/ \E j \in WSlot : pid[j] = p),
             \/ beat' = [beat EXCEPT ![i] = 0] /\ quiet' = [quiet EXCEPT ![p] = 0]
             \/ /\ quiet' = [quiet EXCEPT ![p] = Limit + 1]
                /\ \A j \in WSlot : j # i => beat'[j] = beat[j]
                /\ beat'[i] \in 0 .. Limit + 1
      PROVE  OneSlotEach'
  <2>1. \A j \in WSlot : pid[j] # p
    BY <1>3, Zenon
  <2>2. Used' = Used \union {i} /\ i \notin Used
    BY <1>3, <2>1, Registered
  <2> QED BY <1>2, <1>3, <2>1, <2>2 DEF OneSlotEach, Used
<1>4. ASSUME NEW p \in Workers, NEW i \in WSlot, FoundAt(i, p),
             pid' = [pid EXCEPT ![i] = NoPid], beat' = beat,
             quiet' = quiet \/ quiet' = [quiet EXCEPT ![p] = Limit + 1]
      PROVE  OneSlotEach'
  <2>1. Used' = Used \ {i}
    BY <1>4, Released
  <2> QED BY <1>2, <1>4, <2>1 DEF OneSlotEach, Used
<1>5. ASSUME NEW p \in Workers, Heartbeat(p) PROVE OneSlotEach'
  <2>1. PICK i \in WSlot : /\ FoundAt(i, p) /\ beat' = [beat EXCEPT ![i] = 0]
                           /\ quiet' = [quiet EXCEPT ![p] = 0] /\ pid' = pid
    BY <1>5 DEF Heartbeat, BeatSet
  <2>2. i \in Used /\ pid[i] = p
    BY <2>1, WorkersAssumption DEF FoundAt, IsFirst, Used, NoPid
  <2>3. Used' = Used
    BY <2>1 DEF Used
  <2> QED BY <1>2, <2>1, <2>2, <2>3 DEF OneSlotEach, Used
<1>6. CASE Time
  <2>1. pid' = pid /\ Used' = Used
    BY <1>6 DEF Time, Used
  <2>2. \A i \in Used : pid[i] \in Workers /\ i \in WSlot
    BY DEF Used
  <2>3. \A a, b \in 0 .. Limit + 1 : a <= b => Older(a) <= Older(b)
    BY DEF Older
  <2>4. \A i \in Used : beat'[i] = Older(beat[i]) /\ quiet'[pid[i]] = Older(quiet[pid[i]])
    BY <1>6, <2>2 DEF Time
  <2> QED BY <1>2, <2>1, <2>2, <2>3, <2>4 DEF OneSlotEach
<1>7. ASSUME UNCHANGED <<pid, beat, quiet>> PROVE OneSlotEach'
  BY <1>2, <1>7 DEF OneSlotEach, Used
<1>8. ASSUME NEW p \in Workers, Register(p) PROVE OneSlotEach'
  BY <1>3, <1>8 DEF Register
<1>9. ASSUME NEW p \in Workers, KilledRegister(p) PROVE OneSlotEach'
  <2>1. PICK i \in WSlot, k \in 1 .. 4 :
          /\ RegisterAt(i, p) /\ pid' = [pid EXCEPT ![i] = p]
          /\ beat' = [beat EXCEPT ![i] = IF k >= 3 THEN 0 ELSE @]
          /\ again' = (again \/ \E j \in WSlot : pid[j] = p)
          /\ quiet' = [quiet EXCEPT ![p] = Limit + 1]
    BY <1>9 DEF KilledRegister
  <2>2. beat'[i] \in 0 .. Limit + 1 /\ \A j \in WSlot : j # i => beat'[j] = beat[j]
    BY <2>1
  <2> QED BY <1>3, <2>1, <2>2
<1>10. ASSUME NEW p \in Workers, Unregister(p) \/ KilledUnregister(p) PROVE OneSlotEach'
  BY <1>4, <1>10 DEF Unregister, KilledUnregister
<1> QED
  BY <1>5, <1>6, <1>7, <1>8, <1>9, <1>10 DEF WorkerNext, GetDeadWorkers

LEMMA WorkerInvKept == WorkerInv /\ [WorkerNext]_workerVars => WorkerInv'
<1> SUFFICES ASSUME WorkerInv, [WorkerNext]_workerVars PROVE WorkerInv'
  OBVIOUS
<1>1. CASE WorkerNext
  BY <1>1, WorkerTypeStep, ActiveStep, OneSlotStep DEF WorkerInv
<1>2. CASE UNCHANGED workerVars
  BY <1>2 DEF workerVars, WorkerInv, WorkerTypeOK, ActiveExact, OneSlotEach, Used
<1> QED BY <1>1, <1>2

(* Every worker in the table is found below worker_count, and              *)
(* active_workers counts them, for any number of slots.                    *)
THEOREM WorkersCounted == Spec => []ActiveExact
<1>1. Init => WorkerInv
  BY WorkerInvInit DEF Init
<1>2. WorkerInv /\ [Next]_vars => WorkerInv'
  BY WorkerInvKept, StepOfEachPart
<1>3. WorkerInv => ActiveExact
  BY DEF WorkerInv
<1> QED BY <1>1, <1>2, <1>3, PTL DEF Spec

(* shm_get_dead_workers() reports only workers that gave no sign of life   *)
(* for more than 30 seconds, as long as none has registered twice.         *)
THEOREM ReportedAreQuiet == Spec => DeadAreQuiet
<1>1. Init => WorkerInv
  BY WorkerInvInit DEF Init
<1>2. WorkerInv /\ [Next]_vars => WorkerInv'
  BY WorkerInvKept, StepOfEachPart
<1>3. WorkerInv /\ [Next]_vars =>
        [~again => \A p \in dead' \ dead : quiet[p] > Limit]_workerVars
  <2> SUFFICES ASSUME WorkerInv, WorkerNext, ~again, NEW p \in dead' \ dead
               PROVE  quiet[p] > Limit
    BY StepOfEachPart
  <2>1. CASE dead' = dead
    BY <2>1
  <2>2. ASSUME NEW max \in 1 .. MaxWorkers, GetDeadWorkers(max) PROVE quiet[p] > Limit
    <3>1. PICK i \in WSlot : pid[i] # NoPid /\ beat[i] > Limit /\ pid[i] = p
      BY <2>2 DEF GetDeadWorkers
    <3>2. beat[i] <= quiet[p] /\ beat[i] \in Int /\ quiet[p] \in Int
      BY <3>1, LimitAssumption DEF WorkerInv, WorkerTypeOK, OneSlotEach, Used, Age
    <3> QED BY <3>1, <3>2, LimitAssumption
  <2> QED BY <2>1, <2>2 DEF WorkerNext, Register, KilledRegister, Unregister,
             KilledUnregister, Heartbeat, Time
<1> QED BY <1>1, <1>2, <1>3, PTL DEF Spec, DeadAreQuiet

-----------------------------------------------------------------------------
(* All of it together: whichever of its parts the calls of a run are       *)
(* about, the shared memory keeps what its functions promise.              *)
THEOREM SharedMemoryKept ==
  Spec => []( /\ QueueTypeOK /\ StockTypeOK /\ WorkerTypeOK /\ SegTypeOK
              /\ WholeMessages /\ LookupExact /\ ActiveExact
              /\ InitUndisturbed /\ LockComesBack )
<1>1. Init => QueueInv /\ StockInv /\ WorkerInv /\ SegInv
  BY QueueInvInit, StockInvInit, WorkerInvInit, SegInvInit DEF Init
<1>2. QueueInv /\ StockInv /\ WorkerInv /\ SegInv /\ [Next]_vars
        => (QueueInv /\ StockInv /\ WorkerInv /\ SegInv)'
  BY StepOfEachPart, QueueInvNext, StockInvKept, WorkerInvKept, SegInvKept
<1>3. QueueInv /\ StockInv /\ WorkerInv /\ SegInv =>
        /\ QueueTypeOK /\ StockTypeOK /\ WorkerTypeOK /\ SegTypeOK
        /\ WholeMessages /\ LookupExact /\ ActiveExact
        /\ InitUndisturbed /\ LockComesBack
  BY QueueSays, StockSays, SegSays DEF StockInv, WorkerInv, SegInv
<1> QED BY <1>1, <1>2, <1>3, PTL DEF Spec
===============================================================================
