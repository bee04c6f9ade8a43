----------------------------- MODULE UartProofs -----------------------------
(***************************************************************************)
(* The three kinds of UART drivers, of any size.  The interrupt driven one *)
(* is shown to be a FIFO here; what UartZephyrProofs and UartDmaProofs     *)
(* show of the other two is carried over to the behaviours of MCUarts,     *)
(* each of which is one of one driver.                                     *)
(***************************************************************************)
EXTENDS MCUarts, TLAPS

-----------------------------------------------------------------------------
(* Positions in the ring                                                    *)

LEMMA Sizes == Size \in Nat \ {0} /\ MaxLength \in Nat /\ MaxBytes \in Nat
BY IrqAssumption DEF IrqAssumption

LEMMA RemainderIsUnique ==
  ASSUME NEW R \in Nat \ {0}, NEW q \in Int, NEW m \in 0 .. R - 1,
         NEW p \in Int, NEW n \in 0 .. R - 1, R * q + m = R * p + n
  PROVE  m = n
<1> DEFINE d == q - p
<1>1. d \in Int /\ R * d = n - m /\ n - m < R /\ n - m > -R
  <2>1. R * (q - p) = n - m
    OBVIOUS
  <2> QED
    BY <2>1
<1> HIDE DEF d
<1>2. /\ d >= 1 => R * d >= R
      /\ d <= -1 => R * d <= -R
  BY <1>1
<1>3. d = 0
  BY <1>1, <1>2
<1> QED
  BY <1>1, <1>3

\* Positions wrap at most once.
LEMMA Wrap ==
  ASSUME NEW x \in 0 .. 2 * Size - 1
  PROVE  /\ x < Size => (x % Size) = x
         /\ x >= Size => (x % Size) = x - Size
<1>1. /\ x \div Size \in Int /\ (x % Size) \in 0 .. Size - 1
      /\ x = Size * (x \div Size) + (x % Size)
  BY Sizes
<1> DEFINE q == x \div Size
           m == x % Size
<1>2. q \in Int /\ m \in 0 .. Size - 1 /\ x = Size * q + m /\ x \in Int
  BY <1>1, Sizes
<1> HIDE DEF q, m
<1>3. ASSUME x < Size
      PROVE  m = x
  <2>1. x \in 0 .. Size - 1 /\ Size * q + m = Size * 0 + x
    BY <1>2, <1>3, Sizes
  <2> QED
    BY <1>2, <2>1, RemainderIsUnique, Sizes
<1>4. ASSUME x >= Size
      PROVE  m = x - Size
  <2>1. x - Size \in 0 .. Size - 1 /\ Size * q + m = Size * 1 + (x - Size)
    BY <1>2, <1>4, Sizes
  <2> QED
    BY <1>2, <2>1, RemainderIsUnique, Sizes
<1> QED
  BY <1>3, <1>4 DEF m

\* The k-th position from t on, and how far it is from t to h
At(t, k) == (t + k - 1) % Size
Distance(h, t) == (h - t + Size) % Size

LEMMA AtFacts ==
  ASSUME NEW t \in Index, NEW k \in 1 .. Size
  PROVE  At(t, k) = IF t + k - 1 < Size THEN t + k - 1 ELSE t + k - 1 - Size
<1>1. t + k - 1 \in 0 .. 2 * Size - 1
  BY Sizes DEF Index
<1> QED
  BY <1>1, Wrap, Sizes DEF At, Index

LEMMA DistanceFacts ==
  ASSUME NEW h \in Index, NEW t \in Index
  PROVE  /\ Distance(h, t) = IF h >= t THEN h - t ELSE Size - t + h
         /\ Distance(h, t) \in 0 .. Size - 1
<1>1. h - t + Size \in 0 .. 2 * Size - 1
  BY Sizes DEF Index
<1>2. Distance(h, t) = IF h >= t THEN h - t ELSE Size - t + h
  BY <1>1, Wrap, Sizes DEF Distance, Index
<1> QED
  BY <1>2, Sizes DEF Index

LEMMA NextFacts ==
  ASSUME NEW t \in Index
  PROVE  Next_(t) = IF t + 1 = Size THEN 0 ELSE t + 1
<1>1. t + 1 \in 0 .. 2 * Size - 1
  BY Sizes DEF Index
<1> QED
  BY <1>1, Wrap, Sizes DEF Next_, Index

\* The interrupt writes behind the bytes that are unread, and goes one on.
LEMMA WritesBehind ==
  ASSUME NEW h \in Index, NEW t \in Index
  PROVE  /\ Next_(h) \in Index
         /\ Next_(h) # t <=> Distance(h, t) < Size - 1
         /\ Next_(h) # t => Distance(Next_(h), t) = Distance(h, t) + 1
         /\ h = At(t, Distance(h, t) + 1)
         /\ \A k \in 1 .. Distance(h, t) : At(t, k) \in Index /\ At(t, k) # h
<1>1. h \in Nat /\ t \in Nat /\ h < Size /\ t < Size /\ Size \in Nat
  BY Sizes DEF Index
<1>2. Next_(h) = IF h + 1 = Size THEN 0 ELSE h + 1
  BY NextFacts
<1>3. Next_(h) \in Index
  BY <1>1, <1>2 DEF Index
<1>4. /\ Distance(h, t) = IF h >= t THEN h - t ELSE Size - t + h
      /\ Distance(h, t) \in 0 .. Size - 1
      /\ Distance(Next_(h), t) = IF Next_(h) >= t THEN Next_(h) - t ELSE Size - t + Next_(h)
  BY <1>3, DistanceFacts
<1>5. \A k \in 1 .. Size :
        At(t, k) = IF t + k - 1 < Size THEN t + k - 1 ELSE t + k - 1 - Size
  BY AtFacts
<1>6. Next_(h) # t <=> Distance(h, t) < Size - 1
  BY <1>1, <1>2, <1>4
<1>7. Next_(h) # t => Distance(Next_(h), t) = Distance(h, t) + 1
  BY <1>1, <1>2, <1>4
<1>8. h = At(t, Distance(h, t) + 1)
  <2>1. Distance(h, t) + 1 \in 1 .. Size
    BY <1>1, <1>4
  <2> QED
    BY <1>1, <1>4, <1>5, <2>1
<1>9. ASSUME NEW k \in 1 .. Distance(h, t)
      PROVE  At(t, k) \in Index /\ At(t, k) # h
  <2>1. k \in 1 .. Size
    BY <1>1, <1>4
  <2>2. At(t, k) = IF t + k - 1 < Size THEN t + k - 1 ELSE t + k - 1 - Size
    BY <1>5, <2>1
  <2> QED
    BY <1>1, <1>4, <2>1, <2>2 DEF Index
<1> QED
  BY <1>3, <1>6, <1>7, <1>8, <1>9

\* The reader goes on from the bytes that it takes.
LEMMA ReadsOn ==
  ASSUME NEW h \in Index, NEW t \in Index, NEW n \in 0 .. Distance(h, t)
  PROVE  /\ At(t, n + 1) \in Index
         /\ Next_(At(t, n + 1)) = At(t, n + 2) \/ n = Distance(h, t)
         /\ Distance(h, At(t, n + 1)) = Distance(h, t) - n
         /\ \A k \in 1 .. Distance(h, t) - n : At(At(t, n + 1), k) = At(t, n + k)
<1>1. h \in Nat /\ t \in Nat /\ h < Size /\ t < Size /\ Size \in Nat
  BY Sizes DEF Index
<1>2. /\ Distance(h, t) = IF h >= t THEN h - t ELSE Size - t + h
      /\ Distance(h, t) \in 0 .. Size - 1
  BY DistanceFacts
<1>3. n \in Nat /\ n <= Distance(h, t) /\ n + 1 \in 1 .. Size
  BY <1>1, <1>2
<1> DEFINE m == At(t, n + 1)
<1>4. m = IF t + n < Size THEN t + n ELSE t + n - Size
  BY <1>1, <1>3, AtFacts
<1>5. m \in Index
  BY <1>1, <1>3, <1>4 DEF Index
<1>6. Distance(h, m) = IF h >= m THEN h - m ELSE Size - m + h
  BY <1>5, DistanceFacts
<1>7. Next_(m) = IF m + 1 = Size THEN 0 ELSE m + 1
  BY <1>5, NextFacts
<1>8. ASSUME NEW k \in 1 .. Distance(h, t) - n
      PROVE  At(m, k) = At(t, n + k)
  <2>1. k \in 1 .. Size /\ n + k \in 1 .. Size /\ k \in Nat
    BY <1>1, <1>2, <1>3
  <2>2. /\ At(t, n + k) = IF t + (n + k) - 1 < Size THEN t + (n + k) - 1
                          ELSE t + (n + k) - 1 - Size
        /\ At(m, k) = IF m + k - 1 < Size THEN m + k - 1 ELSE m + k - 1 - Size
    BY <1>5, <2>1, AtFacts
  <2> HIDE DEF m
  <2> QED
    BY <1>1, <1>2, <1>3, <1>4, <2>1, <2>2
<1>9. ASSUME n < Distance(h, t)
      PROVE  Next_(m) = At(t, n + 2)
  <2>1. n + 2 \in 1 .. Size
    BY <1>1, <1>2, <1>3, <1>9
  <2>2. At(t, n + 2) = IF t + (n + 2) - 1 < Size THEN t + (n + 2) - 1
                       ELSE t + (n + 2) - 1 - Size
    BY <2>1, AtFacts
  <2> HIDE DEF m
  <2> QED
    BY <1>1, <1>2, <1>3, <1>4, <1>7, <1>9, <2>2
<1> HIDE DEF m
<1>10. Distance(h, m) = Distance(h, t) - n
  BY <1>1, <1>2, <1>3, <1>4, <1>6
<1>11. Next_(m) = At(t, n + 2) \/ n = Distance(h, t)
  BY <1>2, <1>3, <1>9
<1> QED
  BY <1>5, <1>8, <1>10, <1>11 DEF m

-----------------------------------------------------------------------------
(* The interrupt driven driver                                              *)

IrqTypes ==
  /\ nReceived \in Nat
  /\ rxBuffer \in [Index -> Nat]
  /\ rxHead \in Index /\ rxTail \in Index
  /\ dataRegister \in 0 .. MaxBytes
  /\ length \in Nat

\* What the reader has seen of the ring is still so.
ReaderSees ==
  /\ pc = "tail" => head \in Index /\ Distance(head, rxTail) <= Used
  /\ pc = "copy" =>
       /\ available \in 1 .. Used
       /\ pData \in Seq(Nat) /\ Len(pData) <= BytesToRead
       /\ \A k \in 1 .. Len(pData) : pData[k] = Unread[k]
       /\ tail = At(rxTail, Len(pData) + 1)

IrqInv == IrqTypes /\ ReaderSees

IrqFifoStep == Fifo!Next \/ UNCHANGED <<Unread, got>>

LEMMA UnreadFacts ==
  ASSUME IrqTypes
  PROVE  /\ Used = Distance(rxHead, rxTail) /\ Used \in 0 .. Size - 1
         /\ Unread \in Seq(Nat) /\ Len(Unread) = Used
         /\ \A k \in 1 .. Used : Unread[k] = rxBuffer[At(rxTail, k)]
<1>1. Used = Distance(rxHead, rxTail) /\ Used \in 0 .. Size - 1
  BY DistanceFacts DEF IrqTypes, Used, Distance
<1>2. Unread = [k \in 1 .. Used |-> rxBuffer[At(rxTail, k)]]
  BY DEF Unread, At
<1>3. \A k \in 1 .. Used : rxBuffer[At(rxTail, k)] \in Nat
  BY <1>1, WritesBehind DEF IrqTypes
<1>4. Used \in Nat
  BY <1>1, Sizes
<1> HIDE DEF Unread
<1> QED
  BY <1>1, <1>2, <1>3, <1>4

UnreadIs ==
  /\ Used = Distance(rxHead, rxTail)
  /\ Unread \in Seq(Nat) /\ Len(Unread) = Used
  /\ \A k \in 1 .. Used : Unread[k] = rxBuffer[At(rxTail, k)]

LEMMA UnreadFactsNow == IrqTypes => UnreadIs
BY UnreadFacts DEF UnreadIs

LEMMA UnreadFactsNext == IrqTypes' => UnreadIs'
BY UnreadFactsNow, PTL

LEMMA AppendIs ==
  ASSUME NEW s \in Seq(Nat), NEW q \in Seq(Nat), NEW b \in Nat,
         Len(q) = Len(s) + 1, q[Len(s) + 1] = b, \A k \in 1 .. Len(s) : q[k] = s[k]
  PROVE  q = Append(s, b)
OBVIOUS

LEMMA RestIs ==
  ASSUME NEW s \in Seq(Nat), NEW q \in Seq(Nat), NEW n \in 0 .. Len(s),
         Len(q) = Len(s) - n, \A k \in 1 .. Len(s) - n : q[k] = s[n + k]
  PROVE  q = SubSeq(s, n + 1, Len(s))
OBVIOUS

LEMMA PrefixIs ==
  ASSUME NEW s \in Seq(Nat), NEW q \in Seq(Nat), Len(q) <= Len(s),
         \A k \in 1 .. Len(q) : q[k] = s[k]
  PROVE  q = SubSeq(s, 1, Len(q))
OBVIOUS

LEMMA EmptyIs ==
  ASSUME NEW s \in Seq(Nat), Len(s) = 0
  PROVE  s = <<>>
OBVIOUS

LEMMA UnreadKept ==
  ASSUME UNCHANGED <<rxBuffer, rxHead, rxTail>>
  PROVE  Used' = Used /\ Unread' = Unread
BY DEF Used, Unread

\* The interrupt appends a byte, or drops it because the ring is full.
LEMMA CallbackReceives ==
  ASSUME IrqInv, RxCpltCallback
  PROVE  /\ IrqTypes' /\ IrqFifoStep
         /\ Used' >= Used
         /\ \A k \in 1 .. Used : Unread'[k] = Unread[k]
<1> DEFINE b == dataRegister
<1>1. /\ b \in 1 .. MaxBytes /\ b \in Nat /\ dataRegister' = 0
      /\ UNCHANGED <<nReceived, rxTail, length, got>>
  BY Sizes DEF RxCpltCallback, IrqInv, IrqTypes, locals
<1>2. /\ rxBuffer \in [Index -> Nat] /\ rxHead \in Index /\ rxTail \in Index
      /\ 0 \in 0 .. MaxBytes
  BY Sizes DEF IrqInv, IrqTypes
<1>3. /\ Used = Distance(rxHead, rxTail) /\ Used \in Nat
      /\ Unread \in Seq(Nat) /\ Len(Unread) = Used
      /\ \A k \in 1 .. Used : Unread[k] = rxBuffer[At(rxTail, k)]
  BY UnreadFacts, Sizes DEF IrqInv
<1>4. CASE IsFull(rxHead)
  <2>1. UNCHANGED <<rxBuffer, rxHead>>
    BY <1>4 DEF RxCpltCallback
  <2>2. UNCHANGED <<Used, Unread>>
    BY <1>1, <2>1, UnreadKept
  <2>3. Len(Unread) >= Size - 1
    <3>1. Next_(rxHead) = rxTail
      BY <1>4 DEF IsFull
    <3>2. ~(Distance(rxHead, rxTail) < Size - 1)
      BY <1>2, <3>1, WritesBehind
    <3> QED
      BY <1>3, <3>2, Sizes
  <2>4. Fifo!Receive(b)
    BY <1>1, <2>2, <2>3 DEF Fifo!Receive
  <2>5. IrqTypes'
    BY <1>1, <1>2, <2>1 DEF IrqInv, IrqTypes
  <2> QED
    BY <1>1, <1>3, <2>2, <2>4, <2>5 DEF IrqFifoStep, Fifo!Next
<1>5. CASE ~IsFull(rxHead)
  <2>1. /\ rxBuffer' = [rxBuffer EXCEPT ![rxHead] = b]
        /\ rxHead' = Next_(rxHead) /\ Next_(rxHead) # rxTail
    BY <1>5 DEF RxCpltCallback, IsFull
  <2>2. IrqTypes'
    BY <1>1, <1>2, <2>1, WritesBehind DEF IrqInv, IrqTypes
  <2>3. /\ Used' = Distance(rxHead', rxTail)
        /\ Unread' \in Seq(Nat) /\ Len(Unread') = Used'
        /\ \A k \in 1 .. Used' : Unread'[k] = rxBuffer'[At(rxTail, k)]
    <3>1. UnreadIs'
      BY <2>2, UnreadFactsNext
    <3> QED
      BY <1>1, <3>1 DEF UnreadIs, At, Distance
  <2>4. Used' = Used + 1
    BY <1>2, <1>3, <2>1, <2>3, WritesBehind
  <2>5. Unread'[Used + 1] = b
    <3>1. rxHead = At(rxTail, Used + 1)
      <4>1. rxHead = At(rxTail, Distance(rxHead, rxTail) + 1)
        BY <1>2, WritesBehind
      <4> QED
        BY <1>3, <4>1
    <3>2. rxBuffer'[rxHead] = b
      BY <1>2, <2>1
    <3>3. Used + 1 \in 1 .. Used'
      BY <1>3, <2>4
    <3> QED
      BY <2>3, <3>1, <3>2, <3>3
  <2>6. ASSUME NEW k \in 1 .. Used
        PROVE  Unread'[k] = Unread[k]
    <3>1. At(rxTail, k) \in Index /\ At(rxTail, k) # rxHead
      BY <1>2, <1>3, WritesBehind
    <3>2. rxBuffer'[At(rxTail, k)] = rxBuffer[At(rxTail, k)]
      BY <1>2, <2>1, <3>1
    <3>3. k \in 1 .. Used'
      BY <1>3, <2>4
    <3> QED
      BY <1>3, <2>3, <3>2, <3>3
  <2>7. Unread' = Append(Unread, b)
    BY <1>1, <1>3, <2>3, <2>4, <2>5, <2>6, AppendIs
  <2>8. Fifo!Receive(b)
    BY <1>1, <2>7 DEF Fifo!Receive
  <2> QED
    BY <1>1, <1>3, <2>2, <2>4, <2>6, <2>8 DEF IrqFifoStep, Fifo!Next
<1> QED
  BY <1>4, <1>5

\* While the interrupt runs, what the reader has seen stays.
LEMMA CallbackKeepsReader ==
  ASSUME IrqInv, RxCpltCallback
  PROVE  ReaderSees'
<1>1. /\ UNCHANGED <<pc, rxTail, head, available, length, pData, tail>>
  BY DEF RxCpltCallback, locals
<1>2. Used \in Nat /\ Used' \in Nat /\ Used' >= Used /\ \A k \in 1 .. Used : Unread'[k] = Unread[k]
  <2>1. IrqTypes' => UnreadIs'
    BY UnreadFactsNext
  <2>2. Used' \in Nat
    <3>1. Used' = Distance(rxHead', rxTail') /\ rxHead' \in Index /\ rxTail' \in Index
      BY <2>1, CallbackReceives DEF UnreadIs, Distance, IrqTypes
    <3> QED
      BY <3>1, DistanceFacts, Sizes
  <2> QED
    BY <2>2, CallbackReceives, UnreadFacts, Sizes DEF IrqInv
<1>3. pc' = "tail" => head' \in Index /\ Distance(head, rxTail)' <= Used'
  <2>1. pc = "tail" => head \in Index /\ Distance(head, rxTail) <= Used
    BY DEF IrqInv, ReaderSees
  <2>2. head \in Index => Distance(head, rxTail) \in Nat
    BY DistanceFacts, Sizes DEF IrqInv, IrqTypes
  <2> QED
    BY <1>1, <1>2, <2>1, <2>2 DEF Distance
<1>4. ASSUME pc = "copy"
      PROVE  /\ available' \in 1 .. Used'
             /\ pData' \in Seq(Nat) /\ Len(pData') <= BytesToRead'
             /\ \A k \in 1 .. Len(pData') : pData'[k] = Unread'[k]
             /\ tail' = At(rxTail', Len(pData') + 1)
  <2>1. /\ available \in 1 .. Used
        /\ pData \in Seq(Nat) /\ Len(pData) <= BytesToRead
        /\ \A k \in 1 .. Len(pData) : pData[k] = Unread[k]
        /\ tail = At(rxTail, Len(pData) + 1)
    BY <1>4 DEF IrqInv, ReaderSees
  <2>2. length \in Nat
    BY DEF IrqInv, IrqTypes
  <2>3. Len(pData) \in Nat /\ Len(pData) <= Used
    BY <1>2, <2>1, <2>2 DEF BytesToRead
  <2> QED
    BY <1>1, <1>2, <2>1, <2>3 DEF BytesToRead
<1> QED
  BY <1>1, <1>3, <1>4 DEF ReaderSees, At, BytesToRead

\* Steps that leave the ring alone
LEMMA RingKept ==
  ASSUME IrqInv, UNCHANGED ring, length' \in Nat, nReceived' \in Nat,
         dataRegister' \in 0 .. MaxBytes
  PROVE  IrqTypes' /\ UNCHANGED <<Used, Unread>>
BY UnreadKept DEF IrqInv, IrqTypes, ring

LEMMA ArriveIrq ==
  ASSUME IrqInv, Arrive \/ FlushDisable \/ FlushEnable
  PROVE  IrqInv' /\ IrqFifoStep
<1>1. /\ UNCHANGED <<ring, locals, got>>
      /\ nReceived' \in Nat /\ dataRegister' \in 0 .. MaxBytes /\ length' \in Nat
      /\ pc' = pc \/ pc' \in {"flush", "idle"}
  BY Sizes DEF Arrive, FlushDisable, FlushEnable, IrqInv, IrqTypes, locals
<1>2. IrqTypes' /\ UNCHANGED <<Used, Unread>>
  BY <1>1, RingKept
<1>3. ReaderSees'
  BY <1>1, <1>2 DEF IrqInv, ReaderSees, ring, locals, Distance, At, BytesToRead
<1> QED
  BY <1>1, <1>2, <1>3 DEF IrqInv, IrqFifoStep

\* Nothing of the queue is returned.
LEMMA ReadsNone ==
  ASSUME IrqInv, UNCHANGED Unread, got' = <<>>
  PROVE  Fifo!Next
<1>1. Unread \in Seq(Nat) /\ Len(Unread) \in Nat
  BY UnreadFacts DEF IrqInv
<1>2. SubSeq(Unread, 1, 0) = <<>> /\ SubSeq(Unread, 0 + 1, Len(Unread)) = Unread
  BY <1>1
<1>3. Fifo!Read(0) /\ 0 \in 0 .. Len(Unread)
  BY <1>1, <1>2 DEF Fifo!Read
<1> QED
  BY <1>3 DEF Fifo!Next

LEMMA ReadBegins ==
  ASSUME IrqInv, \/ \E n \in 1 .. MaxLength, m \in {"poll", "wait", "forever"} : Read(n, m)
                 \/ ReadHead \/ ReadTail
  PROVE  IrqInv' /\ IrqFifoStep
<1>1. /\ UNCHANGED <<ring, nReceived, dataRegister>> /\ length' \in Nat
  BY DEF Read, ReadHead, ReadTail, hardware, IrqInv, IrqTypes
<1>2. IrqTypes' /\ UNCHANGED <<Used, Unread>>
  BY <1>1, RingKept DEF IrqInv, IrqTypes
<1>3. Used = Distance(rxHead, rxTail) /\ rxHead \in Index /\ rxTail \in Index /\ Used \in Nat
  BY UnreadFacts, Sizes DEF IrqInv, IrqTypes
<1>4. CASE \/ \E n \in 1 .. MaxLength, m \in {"poll", "wait", "forever"} : Read(n, m)
           \/ ReadHead
  <2>1. UNCHANGED got /\ (pc' = "head" \/ (pc' = "tail" /\ head' = rxHead))
    BY <1>4 DEF Read, ReadHead
  <2>2. ReaderSees'
    BY <1>1, <1>2, <1>3, <2>1 DEF ReaderSees, ring, Distance
  <2> QED
    BY <1>2, <2>1, <2>2 DEF IrqInv, IrqFifoStep
<1>5. CASE ReadTail
  <2>1. /\ pc = "tail" /\ tail' = rxTail /\ pData' = <<>> /\ length' = length
        /\ available' = IF head >= rxTail THEN head - rxTail ELSE Size - rxTail + head
        /\ \/ available' > 0 /\ pc' = "copy" /\ UNCHANGED got
           \/ pc' = "idle" /\ got' = <<>>
           \/ pc' = "head" /\ UNCHANGED got
    BY <1>5 DEF ReadTail, Return
  <2>2. head \in Index /\ Distance(head, rxTail) <= Used /\ available' = Distance(head, rxTail)
    <3>1. head \in Index /\ Distance(head, rxTail) <= Used
      BY <2>1 DEF IrqInv, ReaderSees
    <3> QED
      BY <1>3, <2>1, <3>1, DistanceFacts
  <2>3. IrqFifoStep
    BY <1>2, <2>1, ReadsNone DEF IrqFifoStep
  <2>4. ReaderSees'
    <3>1. CASE pc' = "copy"
      <4>1. available' > 0 /\ available' \in 1 .. Used'
        BY <1>2, <1>3, <2>1, <2>2, <3>1, DistanceFacts, Sizes
      <4>2. pData' \in Seq(Nat) /\ Len(pData') = 0
        BY <2>1
      <4>3. BytesToRead' >= 0
        BY <1>1, <1>2, <1>3, <4>1 DEF BytesToRead
      <4>4. At(rxTail', 1) = rxTail
        <5>1. At(rxTail, 1) = rxTail
          BY <1>3, AtFacts, Sizes DEF Index
        <5> QED
          BY <1>1, <5>1 DEF ring
      <4> QED
        BY <2>1, <3>1, <4>1, <4>2, <4>3, <4>4 DEF ReaderSees, At
    <3>2. CASE pc' # "copy"
      BY <2>1, <3>2 DEF ReaderSees
    <3> QED
      BY <3>1, <3>2
  <2> QED
    BY <1>2, <2>3, <2>4 DEF IrqInv
<1> QED
  BY <1>4, <1>5

LEMMA CopyByteIrq ==
  ASSUME IrqInv, CopyByte
  PROVE  IrqInv' /\ IrqFifoStep
<1>1. /\ UNCHANGED <<ring, nReceived, dataRegister, length, available, pc, got>>
      /\ pc = "copy" /\ Len(pData) < BytesToRead
      /\ pData' = Append(pData, rxBuffer[tail]) /\ tail' = Next_(tail)
  BY DEF CopyByte, hardware
<1>2. IrqTypes' /\ UNCHANGED <<Used, Unread>>
  BY <1>1, RingKept DEF IrqInv, IrqTypes
<1>3. /\ available \in 1 .. Used /\ length \in Nat
      /\ pData \in Seq(Nat) /\ Len(pData) \in Nat
      /\ \A k \in 1 .. Len(pData) : pData[k] = Unread[k]
      /\ tail = At(rxTail, Len(pData) + 1)
      /\ rxHead \in Index /\ rxTail \in Index
      /\ Used = Distance(rxHead, rxTail) /\ Used \in Nat
      /\ \A k \in 1 .. Used : Unread[k] = rxBuffer[At(rxTail, k)]
      /\ Unread \in Seq(Nat) /\ Len(Unread) = Used
  BY <1>1, UnreadFacts, Sizes DEF IrqInv, IrqTypes, ReaderSees
<1>4. BytesToRead \in Nat /\ BytesToRead <= Used /\ BytesToRead' = BytesToRead
  BY <1>1, <1>3 DEF BytesToRead
<1>5. Len(pData) + 1 \in 1 .. Used /\ Len(pData) \in 0 .. Used /\ Len(pData) # Used
  BY <1>1, <1>3, <1>4
<1>6. rxBuffer[tail] = Unread[Len(pData) + 1] /\ rxBuffer[tail] \in Nat
  BY <1>3, <1>5
<1>7. /\ pData' \in Seq(Nat) /\ Len(pData') = Len(pData) + 1
      /\ \A k \in 1 .. Len(pData') : pData'[k] = Unread[k]
  <2>1. /\ pData' \in Seq(Nat) /\ Len(pData') = Len(pData) + 1
        /\ \A k \in 1 .. Len(pData) : pData'[k] = pData[k]
        /\ pData'[Len(pData) + 1] = rxBuffer[tail]
    BY <1>1, <1>3, <1>6
  <2>2. \A k \in 1 .. Len(pData') : k \in 1 .. Len(pData) \/ k = Len(pData) + 1
    BY <1>3, <2>1
  <2> QED
    BY <1>3, <1>6, <2>1, <2>2
<1>8. tail' = At(rxTail, Len(pData') + 1)
  <2>1. Next_(At(rxTail, Len(pData) + 1)) = At(rxTail, Len(pData) + 2)
    BY <1>3, <1>5, ReadsOn
  <2>2. Len(pData') + 1 = Len(pData) + 2
    BY <1>3, <1>7
  <2> QED
    BY <1>1, <1>3, <2>1, <2>2
<1>9. ReaderSees'
  <2>1. Len(pData') <= BytesToRead'
    BY <1>1, <1>3, <1>4, <1>7
  <2> QED
    BY <1>1, <1>2, <1>3, <1>7, <1>8, <2>1 DEF ReaderSees, ring, At
<1> QED
  BY <1>1, <1>2, <1>9 DEF IrqInv, IrqFifoStep

\* What was copied is what is given back.
LEMMA ReadEndIrq ==
  ASSUME IrqInv, ReadEnd
  PROVE  IrqInv' /\ IrqFifoStep
<1> DEFINE n == Len(pData)
<1>1. /\ UNCHANGED <<rxBuffer, rxHead, nReceived, dataRegister, length>>
      /\ pc = "copy" /\ n = BytesToRead /\ rxTail' = tail
      /\ pc' = "idle" /\ got' = pData
  BY DEF ReadEnd, hardware, locals, Return
<1>2. /\ available \in 1 .. Used /\ length \in Nat
      /\ pData \in Seq(Nat) /\ n \in Nat
      /\ \A k \in 1 .. n : pData[k] = Unread[k]
      /\ tail = At(rxTail, n + 1)
      /\ rxHead \in Index /\ rxTail \in Index
      /\ Used = Distance(rxHead, rxTail) /\ Used \in Nat
      /\ \A k \in 1 .. Used : Unread[k] = rxBuffer[At(rxTail, k)]
      /\ Unread \in Seq(Nat) /\ Len(Unread) = Used
  BY <1>1, UnreadFacts, Sizes DEF IrqInv, IrqTypes, ReaderSees
<1>3. n \in 0 .. Used
  BY <1>1, <1>2 DEF BytesToRead
<1> HIDE DEF n
<1>4. /\ At(rxTail, n + 1) \in Index
      /\ Distance(rxHead, At(rxTail, n + 1)) = Used - n
      /\ \A k \in 1 .. Used - n : At(At(rxTail, n + 1), k) = At(rxTail, n + k)
  BY <1>2, <1>3, ReadsOn
<1>5. IrqTypes'
  BY <1>1, <1>2, <1>4 DEF IrqInv, IrqTypes
<1>6. /\ Used' = Used - n
      /\ Unread' \in Seq(Nat) /\ Len(Unread') = Used'
      /\ \A k \in 1 .. Used' : Unread'[k] = rxBuffer[At(At(rxTail, n + 1), k)]
  <2>1. UnreadIs'
    BY <1>5, UnreadFactsNext
  <2>2. /\ Used' = Distance(rxHead, rxTail')
        /\ Unread' \in Seq(Nat) /\ Len(Unread') = Used'
        /\ \A k \in 1 .. Used' : Unread'[k] = rxBuffer[At(rxTail', k)]
    BY <1>1, <2>1 DEF UnreadIs, At, Distance
  <2> QED
    BY <1>1, <1>2, <1>4, <2>2
<1>7. Unread' = SubSeq(Unread, n + 1, Len(Unread))
  <2>1. ASSUME NEW k \in 1 .. Used - n
        PROVE  Unread'[k] = Unread[n + k]
    <3>1. n + k \in 1 .. Used /\ k \in 1 .. Used'
      BY <1>2, <1>3, <1>6
    <3> QED
      BY <1>2, <1>4, <1>6, <3>1
  <2> QED
    BY <1>2, <1>3, <1>6, <2>1, RestIs
<1>8. pData = SubSeq(Unread, 1, n)
  BY <1>2, <1>3, PrefixIs DEF n
<1>9. Fifo!Read(n)
  BY <1>1, <1>2, <1>3, <1>7, <1>8 DEF Fifo!Read
<1>10. IrqFifoStep
  BY <1>2, <1>3, <1>9 DEF IrqFifoStep, Fifo!Next
<1> QED
  BY <1>1, <1>5, <1>10 DEF IrqInv, ReaderSees

\* The ring is emptied.
LEMMA EmptiesRing ==
  ASSUME IrqInv, FlushRx \/ Close
  PROVE  IrqInv' /\ IrqFifoStep
<1>1. /\ rxTail' = rxHead' /\ rxHead' \in Index /\ rxBuffer' \in [Index -> Nat]
      /\ nReceived' \in Nat /\ dataRegister' \in 0 .. MaxBytes /\ length' \in Nat
      /\ pc' \in {"flushed", "idle"} /\ UNCHANGED got
  BY Sizes DEF FlushRx, Close, IrqInv, IrqTypes, hardware, locals, Index
<1>2. IrqTypes'
  BY <1>1 DEF IrqTypes
<1>3. Used' = 0
  <2>1. Used' = Distance(rxHead', rxTail')
    BY DEF Used, Distance
  <2> QED
    BY <1>1, <2>1, DistanceFacts, Sizes DEF Index
<1>4. Unread' = <<>>
  <2>1. UnreadIs'
    BY <1>2, UnreadFactsNext
  <2>2. Unread' \in Seq(Nat) /\ Len(Unread') = 0
    BY <1>3, <2>1 DEF UnreadIs
  <2> QED
    BY <2>2, EmptyIs
<1>5. Fifo!Flush
  BY <1>1, <1>4 DEF Fifo!Flush
<1> QED
  BY <1>1, <1>2, <1>5 DEF IrqInv, ReaderSees, IrqFifoStep, Fifo!Next

LEMMA InitIrq == Init => IrqInv /\ Fifo!Init
<1> SUFFICES ASSUME Init PROVE IrqInv /\ Fifo!Init
  OBVIOUS
<1>1. IrqTypes
  BY Sizes DEF Init, IrqTypes, Index
<1>2. Used = 0
  BY <1>1, UnreadFacts, DistanceFacts, Sizes DEF Init, Index, IrqTypes
<1>3. Unread = <<>>
  BY <1>1, <1>2, UnreadFacts, EmptyIs
<1> QED
  BY <1>1, <1>3 DEF Init, IrqInv, ReaderSees, Fifo!Init

LEMMA NextIrq == IrqInv /\ [Next]_vars => IrqInv' /\ IrqFifoStep
<1> SUFFICES ASSUME IrqInv, [Next]_vars PROVE IrqInv' /\ IrqFifoStep
  OBVIOUS
<1>1. CASE RxCpltCallback
  BY <1>1, CallbackReceives, CallbackKeepsReader DEF IrqInv
<1>2. CASE Open \/ UNCHANGED vars
  <2>1. UNCHANGED <<nReceived, dataRegister, ring, pc, locals, got>>
    BY <1>2 DEF Open, vars, hardware
  <2>2. IrqTypes' /\ UNCHANGED <<Used, Unread>>
    BY <2>1, RingKept DEF IrqInv, IrqTypes, locals
  <2>3. ReaderSees'
    BY <2>1, <2>2 DEF IrqInv, ReaderSees, ring, locals, Distance, At, BytesToRead
  <2> QED
    BY <2>1, <2>2, <2>3 DEF IrqInv, IrqFifoStep
<1> QED
  BY <1>1, <1>2, ArriveIrq, ReadBegins, CopyByteIrq, ReadEndIrq, EmptiesRing DEF Next

-----------------------------------------------------------------------------
(* Behaviours of one driver                                                 *)

OfIrq == driver = "irq"

LEMMA IrqStaysIrq ==
  ASSUME [MCNext]_MCVars
  PROVE  /\ OfIrq => OfIrq' /\ [Next]_vars
         /\ ~OfIrq => ~OfIrq'
<1>1. CASE MCNext
  BY <1>1 DEF MCNext, OfIrq
<1>2. CASE UNCHANGED MCVars
  BY <1>2 DEF MCVars, OfIrq, irqOnly, ringOnly, vars, hardware, ring, locals
<1> QED
  BY <1>1, <1>2

\* The ring of the interrupt driven driver is a FIFO that keeps one byte less
\* than its size, whatever the interrupt does between the steps of a read, a
\* flush, a close and an open.
THEOREM RingIsFifo == MCSpec => IrqFifoSpec
<1> DEFINE I == OfIrq => IrqInv
<1>1. MCInit => I /\ IrqFifo!Init
  BY InitIrq DEF MCInit, OfIrq, Fifo!Init, IrqFifo!Init
<1>2. I /\ [MCNext]_MCVars => I'
  BY IrqStaysIrq, NextIrq
<1>3. I /\ [MCNext]_MCVars => [IrqFifo!Next]_<<IF driver = "irq" THEN Unread ELSE <<>>,
                                              IF driver = "irq" THEN got ELSE <<>> >>
  <2> SUFFICES ASSUME I, [MCNext]_MCVars
               PROVE  \/ IrqFifo!Next
                      \/ UNCHANGED <<IF driver = "irq" THEN Unread ELSE <<>>,
                                     IF driver = "irq" THEN got ELSE <<>> >>
    OBVIOUS
  <2>1. CASE OfIrq
    <3>1. OfIrq' /\ IrqFifoStep
      BY <2>1, IrqStaysIrq, NextIrq
    <3>2. /\ (IF driver = "irq" THEN Unread ELSE <<>>) = Unread
          /\ (IF driver = "irq" THEN got ELSE <<>>) = got
          /\ (IF driver = "irq" THEN Unread ELSE <<>>)' = Unread'
          /\ (IF driver = "irq" THEN got ELSE <<>>)' = got'
      BY <2>1, <3>1 DEF OfIrq
    <3> HIDE DEF Unread
    <3>3. Fifo!Next => IrqFifo!Next
      BY <3>2 DEF Fifo!Next, IrqFifo!Next, Fifo!Receive, IrqFifo!Receive, Fifo!Read,
                  IrqFifo!Read, Fifo!Flush, IrqFifo!Flush
    <3> QED
      BY <3>1, <3>2, <3>3 DEF IrqFifoStep
  <2>2. CASE ~OfIrq
    BY <2>2, IrqStaysIrq DEF OfIrq
  <2> QED
    BY <2>1, <2>2
<1> HIDE DEF I
<1> QED
  BY <1>1, <1>2, <1>3, PTL DEF MCSpec, IrqFifoSpec, IrqFifo!Spec, IrqFifo!vars

Z == INSTANCE UartZephyrProofs WITH MaxBytes <- ZephyrBytes, MaxLength <- ZephyrLength

OfZephyr == driver = "zephyr"

LEMMA ZephyrNext == Zephyr!Next => Z!Next
BY DEF Zephyr!Arrive, Z!Arrive, Zephyr!Isr, Z!Isr, Zephyr!IsrReceive, Z!IsrReceive,
       Zephyr!GiveRxSem, Z!GiveRxSem, Zephyr!IsrSend, Z!IsrSend, Zephyr!AtMost,
       Z!AtMost, Zephyr!Read, Z!Read, Zephyr!ReturnRead, Z!ReturnRead, Zephyr!ReadOn,
       Z!ReadOn, Zephyr!ReadIsEmpty, Z!ReadIsEmpty, Zephyr!TakeRxSem, Z!TakeRxSem,
       Zephyr!ReadTimeout, Z!ReadTimeout, Zephyr!ReadLate, Z!ReadLate,
       Zephyr!RxDisable, Z!RxDisable, Zephyr!RingGet, Z!RingGet, Zephyr!EnableRx,
       Z!EnableRx, Zephyr!RxEnable, Z!RxEnable, Zephyr!Reader, Z!Reader,
       Zephyr!TxIsFree, Z!TxIsFree, Zephyr!LockTx, Z!LockTx, Zephyr!TxByte, Z!TxByte,
       Zephyr!RingPut, Z!RingPut, Zephyr!EnableTx, Z!EnableTx, Zephyr!TxEnable,
       Z!TxEnable, Zephyr!TakeTxSem, Z!TakeTxSem, Zephyr!GiveUp, Z!GiveUp,
       Zephyr!UnlockTx, Z!UnlockTx, Zephyr!Next, Z!Next, Zephyr!rx, Z!rx,
       Zephyr!reader, Z!reader, Zephyr!tx, Z!tx

LEMMA ZephyrStaysZephyr ==
  ASSUME [MCNext]_MCVars
  PROVE  /\ OfZephyr => OfZephyr' /\ [Z!Next]_Z!vars
         /\ ~OfZephyr => ~OfZephyr'
<1>1. CASE MCNext
  BY <1>1, ZephyrNext DEF MCNext, OfZephyr
<1>2. CASE UNCHANGED MCVars
  BY <1>2 DEF MCVars, OfZephyr, zephyrOnly, Z!vars, Z!rx, Z!reader, Z!tx
<1> QED
  BY <1>1, <1>2

LEMMA ZephyrBehaviour == MCSpec => (OfZephyr /\ Z!Spec) \/ []~OfZephyr
<1>1. MCInit /\ OfZephyr => Z!Init
  BY DEF MCInit, OfZephyr, Zephyr!Init, Z!Init
<1>2. OfZephyr /\ [MCNext]_MCVars => OfZephyr' /\ [Z!Next]_Z!vars
  BY ZephyrStaysZephyr
<1>3. ~OfZephyr /\ [MCNext]_MCVars => ~OfZephyr'
  BY ZephyrStaysZephyr
<1> QED
  BY <1>1, <1>2, <1>3, PTL DEF MCSpec, Z!Spec

LEMMA ZephyrSizes == Z!ZephyrAssumption
BY DriverAssumption DEF DriverAssumption, Zephyr!ZephyrAssumption, Z!ZephyrAssumption

\* The Zephyr receiver does not go deaf: its cause is disabled only while the
\* reader is about to enable it or has a full ring to read.
THEOREM ReceiverStaysEnabled == MCSpec => []RxStaysEnabled
<1>1. Z!Spec => []Z!RxStaysEnabled
  BY ZephyrSizes, Z!ReceiverStaysEnabled
<1>2. (OfZephyr => Z!RxStaysEnabled) => RxStaysEnabled
  BY DEF OfZephyr, RxStaysEnabled, Z!RxStaysEnabled, Zephyr!RxStaysEnabled
<1> QED
  BY <1>1, <1>2, ZephyrBehaviour, PTL

\* No reader waits for the semaphore with bytes in the ring and the semaphore taken.
THEOREM ReaderIsWoken == MCSpec => []NoLostWakeup
<1>1. Z!Spec => []Z!NoLostWakeup
  BY ZephyrSizes, Z!ReaderIsWoken
<1>2. (OfZephyr => Z!NoLostWakeup) => NoLostWakeup
  BY DEF OfZephyr, NoLostWakeup, Z!NoLostWakeup, Zephyr!NoLostWakeup
<1> QED
  BY <1>1, <1>2, ZephyrBehaviour, PTL

\* The Zephyr transmitter does not stop with bytes to send: its cause is enabled,
\* or a writer is about to enable it, also when writers give up.
THEOREM TransmitterRuns == MCSpec => []TxKeepsRunning
<1>1. Z!Spec => []Z!TxKeepsRunning
  BY ZephyrSizes, Z!TransmitterRuns
<1>2. (OfZephyr => Z!TxKeepsRunning) => TxKeepsRunning
  BY DEF OfZephyr, TxKeepsRunning, Z!TxKeepsRunning, Zephyr!TxKeepsRunning
<1> QED
  BY <1>1, <1>2, ZephyrBehaviour, PTL

\* Two writes of the Zephyr driver are not mixed on the wire, and each is sent in
\* order from its first byte: one that gave up has sent less, and nothing of it
\* comes after a gap.
THEOREM WritesStayInOrder == MCSpec => []WritesInOrder
<1>1. Z!Spec => []Z!WritesInOrder
  BY ZephyrSizes, Z!WritesStayInOrder
<1>2. (OfZephyr => Z!WritesInOrder) => WritesInOrder
  BY DEF OfZephyr, WritesInOrder, Z!WritesInOrder, Zephyr!WritesInOrder
<1> QED
  BY <1>1, <1>2, ZephyrBehaviour, PTL

\* What the Zephyr driver has received is read in order and once, and only a full
\* receiver loses: the driver implements the FIFO that uPortUartRead() promises.
THEOREM RingAndReceiverAreFifo == MCSpec => ZephyrFifoSpec
<1> DEFINE q == IF driver = "zephyr" THEN Zephyr!Unread ELSE <<>>
           g == IF driver = "zephyr" THEN got ELSE <<>>
<1>1. MCInit => ZephyrFifo!Init
  <2>1. <<>> \o <<>> = <<>>
    OBVIOUS
  <2> QED
    BY <2>1 DEF MCInit, Zephyr!Init, Zephyr!Unread, ZephyrFifo!Init
<1>2. Z!Spec => []Z!RxInv
  BY ZephyrSizes, Z!RxInvariant
<1>3. ASSUME OfZephyr => Z!RxInv, [MCNext]_MCVars
      PROVE  ZephyrFifo!Next \/ UNCHANGED <<q, g>>
  <2>1. CASE OfZephyr
    <3>1. OfZephyr' /\ [Z!Next]_Z!vars
      BY <1>3, <2>1, ZephyrStaysZephyr
    <3>2. Z!FifoStep
      BY <1>3, <2>1, <3>1, ZephyrSizes, Z!NextIsFifo
    <3>3. q = Z!Unread /\ g = got /\ q' = Z!Unread' /\ g' = got'
      BY <2>1, <3>1 DEF OfZephyr, Z!Unread, Zephyr!Unread
    <3>4. Z!Fifo!Next => ZephyrFifo!Next
      BY <3>3 DEF Z!Fifo!Next, ZephyrFifo!Next, Z!Fifo!Receive, ZephyrFifo!Receive,
                  Z!Fifo!Read, ZephyrFifo!Read, Z!Fifo!Flush, ZephyrFifo!Flush
    <3> QED
      BY <3>2, <3>3, <3>4 DEF Z!FifoStep
  <2>2. CASE ~OfZephyr
    BY <1>3, <2>2, ZephyrStaysZephyr DEF OfZephyr
  <2> QED
    BY <2>1, <2>2
<1>4. (OfZephyr => Z!RxInv) /\ [MCNext]_MCVars => [ZephyrFifo!Next]_<<q, g>>
  BY <1>3
<1> QED
  BY <1>1, <1>2, <1>4, ZephyrBehaviour, PTL
     DEF MCSpec, ZephyrFifoSpec, ZephyrFifo!Spec, ZephyrFifo!vars

-----------------------------------------------------------------------------
(* The DMA driven UART                                                     *)

D == INSTANCE UartDmaProofs
       WITH Size <- DmaSize, MaxBytes <- DmaBytes, MaxLength <- DmaLength

OfDma == driver = "dma"
NoOverflow == overflowCount = 0

LEMMA DmaNext == Dma!Next => D!Next
BY DEF Dma!DmaWrite, D!DmaWrite, Dma!RxCpltCallback, D!RxCpltCallback, Dma!ErrorCallback,
       D!ErrorCallback, Dma!Goto, D!Goto, Dma!Read, D!Read, Dma!CheckResync,
       D!CheckResync, Dma!ReadWraps, D!ReadWraps, Dma!WriteCount, D!WriteCount,
       Dma!ReadNdtr, D!ReadNdtr, Dma!WrapsUnchanged, D!WrapsUnchanged,
       Dma!ReadWrapsAgain, D!ReadWrapsAgain, Dma!IsLapped, D!IsLapped, Dma!Retry,
       D!Retry, Dma!Overflow, D!Overflow, Dma!Return, D!Return, Dma!Discard, D!Discard,
       Dma!Return0, D!Return0, Dma!LookAgain, D!LookAgain, Dma!Something, D!Something,
       Dma!BytesToRead, D!BytesToRead, Dma!CopyByte, D!CopyByte, Dma!ReadEnd,
       D!ReadEnd, Dma!FlushRx, D!FlushRx, Dma!Next, D!Next, Dma!Unread, D!Unread,
       Dma!hardware, D!hardware, Dma!shared, D!shared, Dma!locals, D!locals,
       Dma!history, D!history

LEMMA DmaStaysDma ==
  ASSUME [MCNext]_MCVars
  PROVE  /\ OfDma => OfDma' /\ [D!Next]_D!vars
         /\ ~OfDma => ~OfDma' /\ overflowCount' = overflowCount
<1>1. CASE MCNext
  BY <1>1, DmaNext DEF MCNext, OfDma, dmaOnly
<1>2. CASE UNCHANGED MCVars
  BY <1>2 DEF MCVars, OfDma, dmaOnly, ringOnly, D!vars, D!hardware, D!shared, D!locals,
     D!history
<1> QED
  BY <1>1, <1>2

LEMMA DmaBehaviour == MCSpec => (OfDma /\ D!Spec) \/ [](~OfDma /\ NoOverflow)
<1>1. MCInit => \/ OfDma /\ D!Init
                \/ ~OfDma /\ NoOverflow
  BY DEF MCInit, OfDma, NoOverflow, NoDma, Dma!Init, D!Init
<1>2. OfDma /\ [MCNext]_MCVars => OfDma' /\ [D!Next]_D!vars
  BY DmaStaysDma
<1>3. ~OfDma /\ NoOverflow /\ [MCNext]_MCVars => ~OfDma' /\ NoOverflow'
  BY DmaStaysDma DEF NoOverflow
<1> QED
  BY <1>1, <1>2, <1>3, PTL DEF MCSpec, D!Spec

LEMMA DmaSizes == D!DmaAssumption
BY DriverAssumption DEF DriverAssumption, Dma!DmaAssumption, D!DmaAssumption

\* A read of the DMA driver returns the bytes that come next, each of them once,
\* as long as the hardware has not overtaken the reader.
THEOREM NextBytesAreRead == MCSpec => []ReadsNextBytes
<1>1. D!Spec => []D!ReadsNextBytes
  BY DmaSizes, D!NextBytesAreRead
<1>2. (OfDma => D!ReadsNextBytes) => ReadsNextBytes
  BY DEF OfDma, ReadsNextBytes, D!ReadsNextBytes, Dma!ReadsNextBytes
<1>3. ~OfDma /\ NoOverflow => ~OfDma
  OBVIOUS
<1> QED
  BY <1>1, <1>2, <1>3, DmaBehaviour, PTL

\* What getRxBufferAvailable() takes for available is what there was, but for a
\* ring that is full to the byte in the gap before the interrupt.
THEOREM CountsAreRight == MCSpec => []CountIsRight
<1>1. D!Spec => []D!CountIsRight
  BY DmaSizes, D!CountsAreRight
<1>2. (OfDma => D!CountIsRight) => CountIsRight
  BY DEF OfDma, CountIsRight, D!CountIsRight, Dma!CountIsRight, Dma!Unread, D!Unread
<1>3. ~OfDma /\ NoOverflow => ~OfDma
  OBVIOUS
<1> QED
  BY <1>1, <1>2, <1>3, DmaBehaviour, PTL

\* The DMA driver discards what it has received as an overflow only when the
\* hardware has overtaken the reader.
THEOREM OverflowsAreReal == MCSpec => OverflowIsReal
<1> DEFINE P == overflowCount' > overflowCount => torn
<1>1. D!Spec => [][P]_D!vars
  BY DmaSizes, D!OverflowsAreReal DEF D!OverflowIsReal
<1>2. ~OfDma /\ NoOverflow /\ [MCNext]_MCVars => P
  BY DmaStaysDma DEF NoOverflow
<1>3. [P]_D!vars => [P]_Dma!vars
  BY DEF D!vars, Dma!vars, Dma!hardware, D!hardware, Dma!shared, D!shared, Dma!locals,
     D!locals, Dma!history, D!history
<1> QED
  BY <1>1, <1>2, <1>3, DmaBehaviour, PTL DEF MCSpec, OverflowIsReal, Dma!OverflowIsReal
=============================================================================
