-------------------------- MODULE UartZephyrProofs --------------------------
(***************************************************************************)
(* The Zephyr UART driver with rings and receivers of any size, reads and  *)
(* writes of any length, and any number of writers: nobody sleeps on what  *)
(* has come, and bytes keep their order.                                   *)
(***************************************************************************)
EXTENDS UartZephyr, TLAPS

LEMMA Sizes ==
  ASSUME ZephyrAssumption
  PROVE  /\ RxSize \in Nat \ {0} /\ TxSize \in Nat \ {0} /\ RxFifo \in Nat \ {0}
         /\ TxFifo \in Nat \ {0} /\ MaxLength \in Nat \ {0}
         /\ MaxBytes \in Nat /\ MaxWrites \in Nat /\ MaxStalls \in Nat
         /\ NoThread \notin Writer
BY DEF ZephyrAssumption

-----------------------------------------------------------------------------
(* Sequences                                                                *)

\* Appending and joining
LEMMA JoinFacts ==
  ASSUME NEW S, NEW s \in Seq(S), NEW t \in Seq(S)
  PROVE  /\ s \o t \in Seq(S)
         /\ Len(s \o t) = Len(s) + Len(t)
         /\ \A i \in 1 .. Len(s) : (s \o t)[i] = s[i]
         /\ \A i \in 1 .. Len(t) : (s \o t)[Len(s) + i] = t[i]
         /\ s = <<>> => s \o t = t
         /\ t = <<>> => s \o t = s
OBVIOUS

\* A prefix and the rest
LEMMA SplitFacts ==
  ASSUME NEW S, NEW s \in Seq(S), NEW n \in 0 .. Len(s)
  PROVE  /\ SubSeq(s, 1, n) \in Seq(S) /\ Len(SubSeq(s, 1, n)) = n
         /\ SubSeq(s, n + 1, Len(s)) \in Seq(S)
         /\ Len(SubSeq(s, n + 1, Len(s))) = Len(s) - n
         /\ SubSeq(s, 1, n) \o SubSeq(s, n + 1, Len(s)) = s
<1> DEFINE p == SubSeq(s, 1, n)
           r == SubSeq(s, n + 1, Len(s))
<1>1. Len(s) \in Nat /\ n \in Nat /\ n <= Len(s)
  OBVIOUS
<1>2. /\ p \in Seq(S) /\ Len(p) = n
      /\ \A i \in 1 .. n : p[i] = s[i]
  BY <1>1
<1>3. /\ r \in Seq(S) /\ Len(r) = Len(s) - n
      /\ \A i \in 1 .. Len(s) - n : r[i] = s[n + i]
  BY <1>1
<1> HIDE DEF p, r
<1>4. p \o r \in Seq(S) /\ Len(p \o r) = Len(s)
  BY <1>1, <1>2, <1>3
<1>5. ASSUME NEW i \in 1 .. Len(s)
      PROVE  (p \o r)[i] = s[i]
  <2>1. CASE i <= n
    BY <1>1, <1>2, <1>3, <2>1
  <2>2. CASE i > n
    <3>1. \A k \in 1 .. Len(r) : (p \o r)[n + k] = r[k]
      BY <1>2, <1>3
    <3>2. i - n \in 1 .. Len(s) - n /\ n + (i - n) = i
      BY <1>1, <2>2
    <3>3. (p \o r)[n + (i - n)] = s[n + (i - n)]
      BY <1>3, <3>1, <3>2
    <3> QED
      BY <3>2, <3>3
  <2>3. i <= n \/ i > n
    BY <1>1
  <2> QED
    BY <2>1, <2>2, <2>3
<1>6. p \o r = s
  <2> DEFINE q == p \o r
  <2>1. q \in Seq(S) /\ Len(q) = Len(s) /\ \A i \in 1 .. Len(s) : q[i] = s[i]
    BY <1>4, <1>5
  <2> HIDE DEF q
  <2>2. q = s
    BY <2>1
  <2> QED
    BY <2>2 DEF q
<1> QED
  BY <1>2, <1>3, <1>6 DEF p, r

LEMMA JoinIsAssociative ==
  ASSUME NEW S, NEW s \in Seq(S), NEW t \in Seq(S), NEW u \in Seq(S)
  PROVE  (s \o t) \o u = s \o (t \o u)
OBVIOUS

LEMMA JoinBytes ==
  \A s, t, u \in Seq(Nat) : (s \o t) \o u = s \o (t \o u)
BY JoinIsAssociative

LEMMA JoinAndSplit ==
  ASSUME NEW S, NEW s \in Seq(S), NEW t \in Seq(S)
  PROVE  /\ SubSeq(s \o t, 1, Len(s)) = s
         /\ SubSeq(s \o t, Len(s) + 1, Len(s \o t)) = t
OBVIOUS

-----------------------------------------------------------------------------
(* The reader and its interrupt                                             *)

ReaderAt == {"idle", "empty", "take", "late", "disable", "get", "enable"}

RxTypes ==
  /\ nReceived \in Nat
  /\ rxHw \in Seq(Nat) /\ Len(rxHw) <= RxFifo
  /\ rxRing \in Seq(Nat) /\ Len(rxRing) <= RxSize
  /\ rxIrq \in BOOLEAN /\ rxSem \in {0, 1}
  /\ rpc \in ReaderAt
  /\ length \in Nat /\ timed \in BOOLEAN
  /\ pData \in Seq(Nat) /\ Len(pData) <= length
  /\ rpc = "idle" => pData = <<>>

RxInv == RxTypes /\ RxStaysEnabled /\ NoLostWakeup

\* How many bytes the interrupt takes, and the reader
LEMMA Amounts ==
  ASSUME ZephyrAssumption, RxTypes
  PROVE  /\ AtMost(Len(rxHw), RxSize - Len(rxRing)) \in 0 .. Len(rxHw)
         /\ AtMost(Len(rxHw), RxSize - Len(rxRing)) <= RxSize - Len(rxRing)
         /\ \/ AtMost(Len(rxHw), RxSize - Len(rxRing)) = Len(rxHw)
            \/ AtMost(Len(rxHw), RxSize - Len(rxRing)) = RxSize - Len(rxRing)
         /\ AtMost(Len(rxRing), length - Len(pData)) \in 0 .. Len(rxRing)
         /\ AtMost(Len(rxRing), length - Len(pData)) <= length - Len(pData)
BY Sizes DEF RxTypes, AtMost

LEMMA ArriveRx ==
  ASSUME ZephyrAssumption, RxInv, Arrive
  PROVE  RxInv'
<1>1. /\ UNCHANGED <<rxIrq, rxRing, rxSem, rpc, length, timed, pData>>
      /\ nReceived' \in Nat
  BY DEF RxInv, RxTypes, Arrive, reader
<1>2. rxHw' \in Seq(Nat) /\ Len(rxHw') <= RxFifo
  <2>1. CASE Len(rxHw) < RxFifo
    BY <1>1, <2>1, Sizes DEF RxInv, RxTypes, Arrive
  <2>2. CASE ~(Len(rxHw) < RxFifo)
    BY <2>2 DEF RxInv, RxTypes, Arrive
  <2> QED
    BY <2>1, <2>2
<1> QED
  BY <1>1, <1>2 DEF RxInv, RxTypes, RxStaysEnabled, NoLostWakeup

\* What the interrupt leaves in the receiver, it leaves because the ring is full.
LEMMA IsrRx ==
  ASSUME ZephyrAssumption, RxInv, NEW seesRx, NEW canSend, Isr(seesRx, canSend)
  PROVE  RxInv'
<1>1. UNCHANGED <<nReceived, rpc, length, timed, pData>>
  BY DEF Isr, reader
<1>2. CASE seesRx
  <2> DEFINE n == AtMost(Len(rxHw), RxSize - Len(rxRing))
  <2>1. /\ rxRing' = rxRing \o SubSeq(rxHw, 1, n)
        /\ rxHw' = SubSeq(rxHw, n + 1, Len(rxHw))
        /\ rxIrq' = (rxIrq /\ rxHw' = <<>>)
        /\ rxSem' = 1
    BY <1>2 DEF Isr, IsrReceive, GiveRxSem
  <2>2. /\ n \in 0 .. Len(rxHw) /\ n <= RxSize - Len(rxRing)
        /\ n = Len(rxHw) \/ n = RxSize - Len(rxRing)
    BY Amounts DEF RxInv
  <2> HIDE DEF n
  <2>3. /\ rxHw \in Seq(Nat) /\ Len(rxHw) \in Nat /\ Len(rxHw) <= RxFifo /\ RxFifo \in Nat
        /\ rxRing \in Seq(Nat) /\ Len(rxRing) \in Nat /\ Len(rxRing) <= RxSize /\ RxSize \in Nat
    BY Sizes DEF RxInv, RxTypes
  <2>4. /\ SubSeq(rxHw, 1, n) \in Seq(Nat) /\ Len(SubSeq(rxHw, 1, n)) = n
        /\ rxHw' \in Seq(Nat) /\ Len(rxHw') = Len(rxHw) - n
    BY <2>1, <2>2, <2>3, SplitFacts
  <2>5. rxRing' \in Seq(Nat) /\ Len(rxRing') = Len(rxRing) + n
    BY <2>1, <2>3, <2>4, JoinFacts
  <2>6. Len(rxRing') <= RxSize /\ Len(rxHw') <= RxFifo
    BY <2>2, <2>3, <2>4, <2>5
  <2>7. rxHw' = <<>> \/ Len(rxRing') = RxSize
    BY <2>2, <2>3, <2>4, <2>5
  <2>8. RxTypes'
    BY <1>1, <2>1, <2>4, <2>5, <2>6 DEF RxInv, RxTypes
  <2>9. RxStaysEnabled'
    <3>1. CASE rxHw' = <<>>
      <4>1. rxIrq' = rxIrq
        BY <2>1, <3>1 DEF RxInv, RxTypes
      <4>2. Len(rxRing) = RxSize => Len(rxRing') = RxSize
        BY <2>2, <2>3, <2>5, Sizes
      <4> QED
        BY <1>1, <4>1, <4>2 DEF RxInv, RxStaysEnabled
    <3>2. CASE Len(rxRing') = RxSize
      BY <3>2 DEF RxStaysEnabled
    <3> QED
      BY <2>7, <3>1, <3>2
  <2> QED
    BY <2>1, <2>8, <2>9 DEF RxInv, NoLostWakeup
<1>3. CASE ~seesRx
  <2>1. UNCHANGED <<rxHw, rxRing, rxIrq, rxSem>>
    BY <1>3 DEF Isr
  <2> QED
    BY <1>1, <2>1 DEF RxInv, RxTypes, RxStaysEnabled, NoLostWakeup
<1> QED
  BY <1>2, <1>3

LEMMA RingGetRx ==
  ASSUME ZephyrAssumption, RxInv, RingGet
  PROVE  RxInv'
<1> DEFINE n == AtMost(Len(rxRing), length - Len(pData))
<1>1. /\ rpc' = "enable"
      /\ pData' = pData \o SubSeq(rxRing, 1, n)
      /\ rxRing' = SubSeq(rxRing, n + 1, Len(rxRing))
      /\ UNCHANGED <<nReceived, rxHw, rxIrq, rxSem, length, timed>>
  BY DEF RingGet
<1>2. n \in 0 .. Len(rxRing) /\ n <= length - Len(pData)
  BY Amounts DEF RxInv
<1> HIDE DEF n
<1>3. rxRing \in Seq(Nat) /\ pData \in Seq(Nat) /\ Len(rxRing) <= RxSize /\ length \in Nat
  BY DEF RxInv, RxTypes
<1>4. /\ SubSeq(rxRing, 1, n) \in Seq(Nat) /\ Len(SubSeq(rxRing, 1, n)) = n
      /\ rxRing' \in Seq(Nat) /\ Len(rxRing') = Len(rxRing) - n
  BY <1>1, <1>2, <1>3, SplitFacts
<1>5. pData' \in Seq(Nat) /\ Len(pData') = Len(pData) + n
  BY <1>1, <1>3, <1>4, JoinFacts
<1>6. Len(pData') <= length /\ Len(rxRing') <= RxSize
  BY <1>2, <1>3, <1>4, <1>5, Sizes
<1> QED
  BY <1>1, <1>4, <1>5, <1>6 DEF RxInv, RxTypes, ReaderAt, RxStaysEnabled, NoLostWakeup

LEMMA EmptySeq ==
  ASSUME NEW n \in Nat
  PROVE  <<>> \in Seq(Nat) /\ Len(<<>>) <= n
OBVIOUS

\* The other steps of the reader
LEMMA ReaderRx ==
  ASSUME ZephyrAssumption, RxInv,
         \/ \E n \in 1 .. MaxLength, withTimeout \in BOOLEAN : Read(n, withTimeout)
         \/ ReadIsEmpty \/ TakeRxSem \/ ReadTimeout \/ ReadLate
         \/ RxDisable \/ RxEnable
  PROVE  RxInv'
<1> USE DEF RxInv, RxTypes, ReaderAt, RxStaysEnabled, NoLostWakeup, rx, ReturnRead, ReadOn
<1>1. ASSUME NEW n \in 1 .. MaxLength, NEW withTimeout \in BOOLEAN, Read(n, withTimeout)
      PROVE  RxInv'
  <2>1. n \in Nat /\ <<>> \in Seq(Nat) /\ Len(<<>>) <= n
    BY Sizes, EmptySeq
  <2> QED
    BY <1>1, <2>1 DEF Read
<1>2. <<>> \in Seq(Nat) /\ Len(<<>>) <= length
  BY EmptySeq
<1>3. CASE ReadIsEmpty
  <2>1. /\ rpc = "empty" /\ UNCHANGED <<nReceived, rxHw, rxIrq, rxRing, rxSem, length, timed>>
        /\ \/ rpc' = "take" /\ rxRing = <<>> /\ UNCHANGED pData
           \/ rpc' = "disable" /\ UNCHANGED pData
           \/ rpc' = "idle" /\ pData' = <<>>
    BY <1>3 DEF ReadIsEmpty
  <2> QED
    BY <1>2, <2>1
<1>4. CASE TakeRxSem \/ ReadTimeout \/ ReadLate
  BY <1>2, <1>4 DEF TakeRxSem, ReadTimeout, ReadLate
<1>5. CASE RxDisable
  BY <1>5 DEF RxDisable
<1>6. CASE RxEnable
  BY <1>2, <1>6 DEF RxEnable, EnableRx
<1> QED
  BY <1>1, <1>3, <1>4, <1>5, <1>6

\* The writers leave the receiver alone.
LEMMA WriterRx ==
  ASSUME RxInv, \/ \E w \in Writer : \/ LockTx(w) \/ RingPut(w) \/ TxEnable(w)
                                     \/ TakeTxSem(w) \/ GiveUp(w) \/ UnlockTx(w)
                \/ UNCHANGED vars
  PROVE  RxInv'
<1>1. UNCHANGED <<nReceived, rxHw, rxIrq, rxRing, rxSem, rpc, length, timed, pData>>
  BY DEF LockTx, RingPut, TxEnable, TakeTxSem, GiveUp, UnlockTx, vars, rx, reader
<1> QED
  BY <1>1 DEF RxInv, RxTypes, RxStaysEnabled, NoLostWakeup

LEMMA InitRx ==
  ASSUME ZephyrAssumption
  PROVE  Init => RxInv
<1>1. /\ <<>> \in Seq(Nat) /\ Len(<<>>) <= RxFifo
      /\ Len(<<>>) <= RxSize /\ Len(<<>>) <= 0
  BY Sizes, EmptySeq
<1> QED
  <2> SUFFICES ASSUME Init PROVE RxInv
    OBVIOUS
  <2>1. /\ rxHw = <<>> /\ rxRing = <<>> /\ pData = <<>> /\ nReceived = 0 /\ rxIrq = TRUE
        /\ rxSem = 0 /\ rpc = "idle" /\ length = 0 /\ timed = FALSE
    BY DEF Init
  <2>2. RxTypes
    BY <1>1, <2>1 DEF RxTypes, ReaderAt
  <2> QED
    BY <2>1, <2>2 DEF RxInv, RxStaysEnabled, NoLostWakeup

LEMMA NextRx ==
  ASSUME ZephyrAssumption
  PROVE  RxInv /\ [Next]_vars => RxInv'
BY ArriveRx, IsrRx, RingGetRx, ReaderRx, WriterRx DEF Next, Reader

LEMMA RxInvariant ==
  ASSUME ZephyrAssumption
  PROVE  Spec => []RxInv
BY InitRx, NextRx, PTL DEF Spec

\* The receiver does not go deaf: its cause is disabled only while the reader is
\* about to enable it or has a full ring to read.
THEOREM ReceiverStaysEnabled ==
  ASSUME ZephyrAssumption
  PROVE  Spec => []RxStaysEnabled
BY RxInvariant, PTL DEF RxInv

\* No reader waits for the semaphore with bytes in the ring and the semaphore taken.
THEOREM ReaderIsWoken ==
  ASSUME ZephyrAssumption
  PROVE  Spec => []NoLostWakeup
BY RxInvariant, PTL DEF RxInv

-----------------------------------------------------------------------------
(* The driver is a FIFO                                                     *)

FifoStep == Fifo!Next \/ UNCHANGED <<Unread, got>>

LEMMA SameUnread ==
  ASSUME UNCHANGED <<pData, rxRing, rxHw, got>>
  PROVE  FifoStep
BY DEF FifoStep, Unread

\* A byte arrives, or is lost because the receiver is full.
LEMMA ArriveIsReceive ==
  ASSUME ZephyrAssumption, RxInv, Arrive
  PROVE  Fifo!Next
<1> DEFINE b == nReceived + 1
           q == pData \o rxRing
<1>1. b \in 1 .. MaxBytes /\ b \in Nat
  BY Sizes DEF Arrive, RxInv, RxTypes
<1>2. UNCHANGED <<pData, rxRing, got>>
  BY DEF Arrive, reader
<1>3. q \in Seq(Nat) /\ rxHw \in Seq(Nat)
  BY JoinFacts DEF RxInv, RxTypes
<1>4. Unread = q \o rxHw /\ Unread' = q \o rxHw'
  BY <1>2 DEF Unread
<1>5. rxHw' = Append(rxHw, b) \/ (Len(rxHw) >= RxFifo /\ rxHw' = rxHw)
  BY Sizes DEF Arrive, RxInv, RxTypes
<1> HIDE DEF b, q
<1>6. CASE rxHw' = Append(rxHw, b)
  <2>1. Unread' = Append(Unread, b)
    <3>1. q \o Append(rxHw, b) = Append(q \o rxHw, b)
      BY <1>1, <1>3
    <3> QED
      BY <1>4, <1>6, <3>1
  <2>2. Fifo!Receive(b)
    BY <1>2, <2>1 DEF Fifo!Receive
  <2> QED
    BY <1>1, <2>2 DEF Fifo!Next
<1>7. CASE Len(rxHw) >= RxFifo /\ rxHw' = rxHw
  <2>1. Len(Unread) >= RxFifo
    <3>1. Len(q \o rxHw) = Len(q) + Len(rxHw) /\ Len(q) \in Nat /\ Len(rxHw) \in Nat
      BY <1>3
    <3> QED
      BY <1>4, <1>7, <3>1, Sizes
  <2>2. Fifo!Receive(b)
    BY <1>2, <1>4, <1>7, <2>1 DEF Fifo!Receive
  <2> QED
    BY <1>1, <2>2 DEF Fifo!Next
<1> QED
  BY <1>5, <1>6, <1>7

\* The interrupt moves bytes from the receiver to the ring.
LEMMA IsrIsHidden ==
  ASSUME ZephyrAssumption, RxInv, NEW seesRx, NEW canSend, Isr(seesRx, canSend)
  PROVE  FifoStep
<1>1. UNCHANGED <<pData, got>>
  BY DEF Isr, reader
<1>2. CASE seesRx
  <2> DEFINE n == AtMost(Len(rxHw), RxSize - Len(rxRing))
             moved == SubSeq(rxHw, 1, n)
             rest == SubSeq(rxHw, n + 1, Len(rxHw))
  <2>1. rxRing' = rxRing \o moved /\ rxHw' = rest
    BY <1>2 DEF Isr, IsrReceive
  <2>2. /\ rxHw \in Seq(Nat) /\ rxRing \in Seq(Nat) /\ pData \in Seq(Nat)
        /\ n \in 0 .. Len(rxHw)
    BY Amounts DEF RxInv, RxTypes
  <2>3. moved \in Seq(Nat) /\ rest \in Seq(Nat) /\ moved \o rest = rxHw
    BY <2>2, SplitFacts
  <2> HIDE DEF n, moved, rest
  <2>4. Unread' = (pData \o (rxRing \o moved)) \o rest
    BY <1>1, <2>1 DEF Unread
  <2>5. (pData \o (rxRing \o moved)) \o rest = (pData \o rxRing) \o (moved \o rest)
    <3>1. pData \o (rxRing \o moved) = (pData \o rxRing) \o moved
      BY <2>2, <2>3, JoinBytes
    <3>2. pData \o rxRing \in Seq(Nat)
      BY <2>2, JoinFacts
    <3>3. ((pData \o rxRing) \o moved) \o rest = (pData \o rxRing) \o (moved \o rest)
      BY <2>3, <3>2, JoinBytes
    <3> QED
      BY <3>1, <3>3
  <2> QED
    BY <1>1, <2>3, <2>4, <2>5 DEF FifoStep, Unread
<1>3. CASE ~seesRx
  BY <1>1, <1>3, SameUnread DEF Isr
<1> QED
  BY <1>2, <1>3

\* The reader moves bytes from the ring to its buffer.
LEMMA RingGetIsHidden ==
  ASSUME ZephyrAssumption, RxInv, RingGet
  PROVE  FifoStep
<1> DEFINE n == AtMost(Len(rxRing), length - Len(pData))
           moved == SubSeq(rxRing, 1, n)
           rest == SubSeq(rxRing, n + 1, Len(rxRing))
<1>1. pData' = pData \o moved /\ rxRing' = rest /\ UNCHANGED <<rxHw, got>>
  BY DEF RingGet
<1>2. rxRing \in Seq(Nat) /\ pData \in Seq(Nat) /\ n \in 0 .. Len(rxRing)
  BY Amounts DEF RxInv, RxTypes
<1>3. moved \in Seq(Nat) /\ rest \in Seq(Nat) /\ moved \o rest = rxRing
  BY <1>2, SplitFacts
<1> HIDE DEF n, moved, rest
<1>4. (pData \o moved) \o rest = pData \o rxRing
  BY <1>2, <1>3, JoinBytes
<1> QED
  BY <1>1, <1>4 DEF FifoStep, Unread

\* What is returned is the oldest that was received.
LEMMA ReturnIsRead ==
  ASSUME RxInv, ReturnRead, UNCHANGED <<rxRing, rxHw>>
  PROVE  FifoStep
<1> DEFINE q == rxRing \o rxHw
           n == Len(pData)
<1>1. pData \in Seq(Nat) /\ rxRing \in Seq(Nat) /\ rxHw \in Seq(Nat) /\ q \in Seq(Nat)
  BY JoinFacts DEF RxInv, RxTypes
<1>2. Unread = pData \o q
  BY <1>1, JoinIsAssociative DEF Unread
<1>3. Unread' = q
  <2>1. <<>> \in Seq(Nat)
    OBVIOUS
  <2>2. <<>> \o rxRing = rxRing
    BY <1>1, <2>1, JoinFacts
  <2> QED
    BY <2>2 DEF ReturnRead, Unread
<1> HIDE DEF q
<1>4. /\ SubSeq(Unread, 1, n) = pData
      /\ SubSeq(Unread, n + 1, Len(Unread)) = q
      /\ n \in 0 .. Len(Unread) /\ n <= Len(Unread)
  <2>1. Len(Unread) = Len(pData) + Len(q) /\ Len(pData) \in Nat /\ Len(q) \in Nat
    BY <1>1, <1>2
  <2>2. SubSeq(Unread, 1, n) = pData /\ SubSeq(Unread, n + 1, Len(Unread)) = q
    BY <1>1, <1>2, JoinAndSplit
  <2> QED
    BY <2>1, <2>2
<1>5. Fifo!Read(n)
  BY <1>3, <1>4 DEF Fifo!Read, ReturnRead
<1> QED
  BY <1>4, <1>5 DEF FifoStep, Fifo!Next

LEMMA NextIsFifo ==
  ASSUME ZephyrAssumption, RxInv, [Next]_vars
  PROVE  FifoStep
<1>1. CASE Arrive
  BY <1>1, ArriveIsReceive DEF FifoStep
<1>2. ASSUME NEW n \in 1 .. MaxLength, NEW withTimeout \in BOOLEAN, Read(n, withTimeout)
      PROVE  FifoStep
  BY <1>2, SameUnread DEF Read, rx, RxInv, RxTypes
<1>3. CASE Reader /\ ~RingGet
  <2>1. UNCHANGED <<rxRing, rxHw>> /\ (ReturnRead \/ UNCHANGED <<pData, got>>)
    BY <1>3 DEF Reader, ReadIsEmpty, TakeRxSem, ReadTimeout, ReadLate, RxDisable, RxEnable,
       ReadOn, rx
  <2> QED
    BY <2>1, ReturnIsRead, SameUnread
<1>4. CASE \/ \E w \in Writer : \/ LockTx(w) \/ RingPut(w) \/ TxEnable(w)
                                \/ TakeTxSem(w) \/ GiveUp(w) \/ UnlockTx(w)
           \/ UNCHANGED vars
  <2>1. UNCHANGED <<pData, rxRing, rxHw, got>>
    BY <1>4 DEF LockTx, RingPut, TxEnable, TakeTxSem, GiveUp, UnlockTx, vars, rx, reader
  <2> QED
    BY <2>1, SameUnread
<1> QED
  BY <1>1, <1>2, <1>3, <1>4, IsrIsHidden, RingGetIsHidden DEF Next

\* What was received is read in order and once, and only a full receiver loses:
\* the driver implements the FIFO that uPortUartRead() promises.
THEOREM DriverImplementsFifo ==
  ASSUME ZephyrAssumption
  PROVE  Spec => FifoSpec
<1>1. Init => Fifo!Init
  <2>1. <<>> \o <<>> = <<>>
    OBVIOUS
  <2> QED
    BY <2>1 DEF Init, Fifo!Init, Unread
<1>2. RxInv /\ [Next]_vars => [Fifo!Next]_<<Unread, got>>
  BY NextIsFifo DEF FifoStep
<1> QED
  BY <1>1, <1>2, RxInvariant, PTL DEF Spec, FifoSpec, Fifo!Spec, Fifo!vars

-----------------------------------------------------------------------------
(* The writers                                                              *)

WriterAt == {"idle", "put", "enable", "stalled", "take", "unlock"}
Item == Writer \X Nat \X Nat
Sent == wire \o txRing
LastSent == Sent[Len(Sent)]

TxTypes ==
  /\ txIrq \in BOOLEAN
  /\ txRing \in Seq(Item) /\ Len(txRing) <= TxSize
  /\ wire \in Seq(Item)
  /\ wpc \in [Writer -> WriterAt]
  /\ written \in [Writer -> [nr : Nat, bytes : 0 .. MaxLength]]
  /\ nWrites \in Nat

\* One writer at a time; it puts while it has something to put.
Turns ==
  \A w \in Writer : /\ wpc[w] # "idle" => txMutex = w
                    /\ wpc[w] \in {"put", "stalled", "take"} => written[w].bytes < MaxLength

\* A writer whose bytes found no room need not enable the cause for those that
\* are there: it is enabled.
TxInv == /\ TxTypes /\ Turns
         /\ txRing # <<>> => txIrq \/ \E w \in Writer : wpc[w] = "enable"

\* What was sent last is of the write that goes on, or of an earlier one.
LastIsOfWrite ==
  /\ Sent # <<>> => LastSent[2] <= nWrites
  /\ \A w \in Writer : wpc[w] # "idle" =>
       /\ written[w].nr = nWrites
       /\ \/ written[w].bytes = 0 /\ (Sent # <<>> => LastSent[2] < nWrites)
          \/ Sent # <<>> /\ LastSent = TxByte(w, written[w].bytes)

OrderInv == WritesInOrder /\ LastIsOfWrite

LEMMA JoinItems ==
  \A s, t, u \in Seq(Item) : (s \o t) \o u = s \o (t \o u)
BY JoinIsAssociative

LEMMA SendAmount ==
  ASSUME ZephyrAssumption, TxTypes
  PROVE  AtMost(Len(txRing), TxFifo) \in 0 .. Len(txRing)
BY Sizes DEF TxTypes, AtMost

\* The interrupt moves bytes from the ring to the wire.
LEMMA IsrTx ==
  ASSUME ZephyrAssumption, TxInv, NEW seesRx, NEW canSend, Isr(seesRx, canSend)
  PROVE  TxInv' /\ Sent' = Sent
<1>1. UNCHANGED <<txMutex, wpc, written, nWrites>>
  BY DEF Isr
<1>2. CASE canSend
  <2> DEFINE n == AtMost(Len(txRing), TxFifo)
             moved == SubSeq(txRing, 1, n)
             rest == SubSeq(txRing, n + 1, Len(txRing))
  <2>1. /\ wire' = wire \o moved /\ txRing' = rest
        /\ txIrq' = (txIrq /\ txRing # <<>>)
    BY <1>2 DEF Isr, IsrSend
  <2>2. txRing \in Seq(Item) /\ wire \in Seq(Item) /\ n \in 0 .. Len(txRing)
    BY SendAmount DEF TxInv, TxTypes
  <2>3. /\ moved \in Seq(Item) /\ rest \in Seq(Item) /\ moved \o rest = txRing
        /\ Len(rest) = Len(txRing) - n
    BY <2>2, SplitFacts
  <2> HIDE DEF moved, rest
  <2>4. Sent' = Sent
    <3>1. (wire \o moved) \o rest = wire \o (moved \o rest)
      BY <2>2, <2>3, JoinItems
    <3> QED
      BY <2>1, <2>3, <3>1 DEF Sent
  <2>5. wire' \in Seq(Item) /\ txRing' \in Seq(Item) /\ Len(txRing') <= TxSize
    <3>1. wire \o moved \in Seq(Item)
      BY <2>2, <2>3, JoinFacts
    <3> QED
      BY <2>1, <2>2, <2>3, <3>1, Sizes DEF TxInv, TxTypes
  <2>6. txRing' # <<>> => txRing # <<>>
    BY <2>1, <2>2, <2>3
  <2>7. TxTypes' /\ Turns'
    BY <1>1, <2>1, <2>5 DEF TxInv, TxTypes, Turns
  <2> QED
    BY <1>1, <2>1, <2>4, <2>6, <2>7 DEF TxInv, TxTypes
<1>3. CASE ~canSend
  <2>1. UNCHANGED <<wire, txRing, txIrq>>
    BY <1>3 DEF Isr
  <2> QED
    BY <1>1, <2>1 DEF TxInv, TxTypes, Turns, Sent
<1> QED
  BY <1>2, <1>3

\* What RingPut(w) puts
PutLen(w) == AtMost(MaxLength - written[w].bytes, TxSize - Len(txRing))
Put(w) == [k \in 1 .. PutLen(w) |-> TxByte(w, written[w].bytes + k)]

LEMMA PutFacts ==
  ASSUME ZephyrAssumption, TxInv, NEW w \in Writer, RingPut(w)
  PROVE  /\ PutLen(w) \in Nat
         /\ PutLen(w) <= MaxLength - written[w].bytes
         /\ PutLen(w) <= TxSize - Len(txRing)
         /\ PutLen(w) = 0 => txRing # <<>>
         /\ Put(w) \in Seq(Item) /\ Len(Put(w)) = PutLen(w)
         /\ \A k \in 1 .. PutLen(w) : Put(w)[k] = <<w, written[w].nr, written[w].bytes + k>>
         /\ written[w].nr \in Nat /\ written[w].bytes \in Nat
         /\ txRing' = txRing \o Put(w)
         /\ written' = [written EXCEPT ![w].bytes = @ + PutLen(w)]
         /\ wpc' = [wpc EXCEPT ![w] = IF PutLen(w) > 0 THEN "enable" ELSE "stalled"]
<1>1. /\ wpc[w] = "put" /\ written[w].bytes < MaxLength
      /\ written[w] \in [nr : Nat, bytes : 0 .. MaxLength]
      /\ Len(txRing) <= TxSize /\ Len(txRing) \in Nat
  BY DEF RingPut, TxInv, TxTypes, Turns
<1>2. written[w].nr \in Nat /\ written[w].bytes \in 0 .. MaxLength
  BY <1>1
<1>3. /\ PutLen(w) \in Nat
      /\ PutLen(w) <= MaxLength - written[w].bytes
      /\ PutLen(w) <= TxSize - Len(txRing)
      /\ PutLen(w) = 0 => Len(txRing) = TxSize
  <2>1. MaxLength \in Nat /\ TxSize \in Nat
    BY Sizes
  <2> QED
    BY <1>1, <1>2, <2>1 DEF PutLen, AtMost
<1>4. PutLen(w) = 0 => txRing # <<>>
  <2>1. txRing = <<>> => Len(txRing) = 0
    OBVIOUS
  <2> QED
    BY <1>3, <2>1, Sizes
<1>5. /\ Put(w) \in Seq(Item) /\ Len(Put(w)) = PutLen(w)
      /\ \A k \in 1 .. PutLen(w) : Put(w)[k] = <<w, written[w].nr, written[w].bytes + k>>
  <2> DEFINE n == PutLen(w)
             p == [k \in 1 .. n |-> <<w, written[w].nr, written[w].bytes + k>>]
  <2>1. Put(w) = p
    BY DEF Put, TxByte
  <2>2. \A k \in 1 .. n : <<w, written[w].nr, written[w].bytes + k>> \in Item
    BY <1>2, <1>3 DEF Item
  <2>3. n \in Nat
    BY <1>3
  <2> HIDE DEF n
  <2>4. p \in Seq(Item) /\ Len(p) = n
    BY <2>2, <2>3
  <2> QED
    BY <2>1, <2>3, <2>4 DEF n
<1>6. /\ txRing' = txRing \o Put(w)
      /\ written' = [written EXCEPT ![w].bytes = @ + PutLen(w)]
      /\ wpc' = [wpc EXCEPT ![w] = IF PutLen(w) > 0 THEN "enable" ELSE "stalled"]
  BY DEF RingPut, PutLen, Put
<1> QED
  BY <1>2, <1>3, <1>4, <1>5, <1>6

LEMMA RingPutTx ==
  ASSUME ZephyrAssumption, TxInv, NEW w \in Writer, RingPut(w)
  PROVE  TxInv'
<1>1. UNCHANGED <<txIrq, txMutex, wire, nWrites>> /\ wpc[w] = "put"
  BY DEF RingPut
<1> DEFINE n == PutLen(w)
           p == Put(w)
<1>2. /\ n \in Nat /\ n <= MaxLength - written[w].bytes /\ n <= TxSize - Len(txRing)
      /\ n = 0 => txRing # <<>>
      /\ p \in Seq(Item) /\ Len(p) = n
      /\ txRing' = txRing \o p
      /\ written' = [written EXCEPT ![w].bytes = @ + n]
      /\ wpc' = [wpc EXCEPT ![w] = IF n > 0 THEN "enable" ELSE "stalled"]
  BY PutFacts
<1> HIDE DEF n, p
<1>3. /\ txRing \in Seq(Item) /\ Len(txRing) <= TxSize /\ Len(txRing) \in Nat
      /\ written[w] \in [nr : Nat, bytes : 0 .. MaxLength]
      /\ written \in [Writer -> [nr : Nat, bytes : 0 .. MaxLength]]
      /\ wpc \in [Writer -> WriterAt]
      /\ written[w].bytes < MaxLength
  BY <1>1 DEF TxInv, TxTypes, Turns
<1>4. /\ txRing' \in Seq(Item) /\ Len(txRing') = Len(txRing) + n
      /\ n = 0 => txRing' = txRing
  <2>1. txRing \o p \in Seq(Item) /\ Len(txRing \o p) = Len(txRing) + Len(p)
    BY <1>2, <1>3, JoinFacts
  <2>2. n = 0 => p = <<>>
    <3>1. \A q \in Seq(Item) : Len(q) = 0 => q = <<>>
      OBVIOUS
    <3> QED
      BY <1>2, <3>1
  <2>3. p = <<>> => txRing \o p = txRing
    BY <1>3
  <2> QED
    BY <1>2, <2>1, <2>2, <2>3
<1>5. /\ written' \in [Writer -> [nr : Nat, bytes : 0 .. MaxLength]]
      /\ written'[w].bytes = written[w].bytes + n
      /\ \A v \in Writer \ {w} : written'[v] = written[v] /\ wpc'[v] = wpc[v]
  <2>1. written[w].bytes + n \in 0 .. MaxLength
    BY <1>2, <1>3, Sizes
  <2>2. /\ written'[w] = [written[w] EXCEPT !.bytes = written[w].bytes + n]
        /\ \A v \in Writer \ {w} : written'[v] = written[v] /\ wpc'[v] = wpc[v]
        /\ written' = [v \in Writer |-> written'[v]]
    BY <1>2, <1>3
  <2>3. /\ [written[w] EXCEPT !.bytes = written[w].bytes + n] \in [nr : Nat, bytes : 0 .. MaxLength]
        /\ [written[w] EXCEPT !.bytes = written[w].bytes + n].bytes = written[w].bytes + n
    BY <1>3, <2>1
  <2> QED
    BY <1>3, <2>2, <2>3
<1>6. wpc'[w] = (IF n > 0 THEN "enable" ELSE "stalled") /\ wpc' \in [Writer -> WriterAt]
  BY <1>2, <1>3 DEF WriterAt
<1>7. TxTypes'
  <2>1. Len(txRing') <= TxSize
    BY <1>2, <1>3, <1>4, Sizes
  <2> QED
    BY <1>1, <1>4, <1>5, <1>6, <2>1 DEF TxInv, TxTypes
<1>8. Turns'
  BY <1>1, <1>2, <1>3, <1>5, <1>6 DEF TxInv, Turns
<1>9. txIrq' \/ \E v \in Writer : wpc'[v] = "enable"
  <2>1. CASE n > 0
    BY <1>6, <2>1
  <2>2. CASE n = 0
    <3>1. \A v \in Writer : wpc[v] # "enable"
      BY <1>1 DEF TxInv, Turns
    <3> QED
      BY <1>1, <1>2, <2>2, <3>1 DEF TxInv
  <2> QED
    BY <1>2, <2>1, <2>2
<1> QED
  BY <1>7, <1>8, <1>9 DEF TxInv

\* The other steps of a writer
LEMMA WriterTx ==
  ASSUME ZephyrAssumption, TxInv, NEW w \in Writer,
         LockTx(w) \/ TxEnable(w) \/ TakeTxSem(w) \/ GiveUp(w) \/ UnlockTx(w)
  PROVE  TxInv'
<1> USE DEF TxInv, TxTypes, Turns, WriterAt
<1>1. CASE LockTx(w)
  <2>1. /\ \A v \in Writer : wpc[v] = "idle"
        /\ wpc' = [wpc EXCEPT ![w] = "put"] /\ txMutex' = w
        /\ written' = [written EXCEPT ![w] = [nr |-> nWrites + 1, bytes |-> 0]]
        /\ nWrites' = nWrites + 1
        /\ UNCHANGED <<txIrq, txRing, wire>>
    BY <1>1, Sizes DEF LockTx, TxIsFree
  <2>2. [nr |-> nWrites + 1, bytes |-> 0] \in [nr : Nat, bytes : 0 .. MaxLength]
    BY Sizes
  <2> QED
    BY <2>1, <2>2, Sizes
<1>2. CASE TxEnable(w)
  BY <1>2 DEF TxEnable, EnableTx
<1>3. CASE TakeTxSem(w) \/ GiveUp(w) \/ UnlockTx(w)
  <2>1. /\ wpc[w] \notin {"idle", "enable"}
        /\ UNCHANGED <<txIrq, txRing, wire, written, nWrites>>
        /\ \/ wpc[w] = "take" /\ wpc' = [wpc EXCEPT ![w] = "put"] /\ UNCHANGED txMutex
           \/ wpc' = [wpc EXCEPT ![w] = "unlock"] /\ UNCHANGED txMutex
           \/ wpc' = [wpc EXCEPT ![w] = "idle"]
    BY <1>3 DEF TakeTxSem, GiveUp, UnlockTx
  <2>2. \A v \in Writer \ {w} : wpc[v] = "idle"
    BY <2>1
  <2> QED
    BY <2>1, <2>2
<1> QED
  BY <1>1, <1>2, <1>3

LEMMA ReaderTx ==
  ASSUME TxInv, \/ Arrive
                \/ \E n \in 1 .. MaxLength, withTimeout \in BOOLEAN : Read(n, withTimeout)
                \/ Reader
                \/ UNCHANGED vars
  PROVE  TxInv' /\ UNCHANGED <<tx, Sent>>
<1>1. UNCHANGED tx
  BY DEF Arrive, Read, Reader, ReadIsEmpty, TakeRxSem, ReadTimeout, ReadLate, RxDisable,
     RingGet, RxEnable, vars
<1> QED
  BY <1>1 DEF TxInv, TxTypes, Turns, tx, Sent

LEMMA InitTx ==
  ASSUME ZephyrAssumption
  PROVE  Init => TxInv /\ OrderInv
<1> SUFFICES ASSUME Init PROVE TxInv /\ OrderInv
  OBVIOUS
<1>1. /\ txRing = <<>> /\ wire = <<>> /\ txIrq = FALSE /\ nWrites = 0
      /\ wpc = [w \in Writer |-> "idle"]
      /\ written = [w \in Writer |-> [nr |-> 0, bytes |-> 0]]
  BY DEF Init
<1>2. <<>> \in Seq(Item) /\ Len(<<>>) <= TxSize /\ <<>> \o <<>> = <<>>
  BY Sizes
<1>3. [nr |-> 0, bytes |-> 0] \in [nr : Nat, bytes : 0 .. MaxLength]
  BY Sizes
<1>4. TxTypes
  BY <1>1, <1>2, <1>3 DEF TxTypes, WriterAt
<1>5. Sent = <<>>
  BY <1>1, <1>2 DEF Sent
<1>6. OrderInv
  <2>1. WritesInOrder
    BY <1>5 DEF WritesInOrder, Sent
  <2> QED
    BY <1>1, <1>5, <2>1 DEF OrderInv, LastIsOfWrite
<1> QED
  BY <1>1, <1>4, <1>6 DEF TxInv, Turns

LEMMA NextTx ==
  ASSUME ZephyrAssumption
  PROVE  TxInv /\ [Next]_vars => TxInv'
BY IsrTx, RingPutTx, WriterTx, ReaderTx DEF Next

LEMMA TxInvariant ==
  ASSUME ZephyrAssumption
  PROVE  Spec => []TxInv
BY InitTx, NextTx, PTL DEF Spec

\* The transmitter does not stop with bytes to send: its cause is enabled, or a
\* writer is about to enable it, also when writers give up.
THEOREM TransmitterRuns ==
  ASSUME ZephyrAssumption
  PROVE  Spec => []TxKeepsRunning
<1>1. TxInv => TxKeepsRunning
  BY DEF TxInv, TxKeepsRunning
<1> QED
  BY <1>1, TxInvariant, PTL

-----------------------------------------------------------------------------
(* The order of what is written                                             *)

\* Byte b may be sent after byte a.
Follows(a, b) == \/ b = [a EXCEPT ![3] = @ + 1]
                 \/ b[3] = 1 /\ b[2] > a[2]

Ordered(s) == \A k \in 1 .. Len(s) - 1 : Follows(s[k], s[k + 1])

LEMMA OrderedJoin ==
  ASSUME NEW s \in Seq(Item), NEW p \in Seq(Item), Ordered(s), Ordered(p), p # <<>>,
         s # <<>> => Follows(s[Len(s)], p[1])
  PROVE  Ordered(s \o p) /\ s \o p # <<>> /\ (s \o p)[Len(s \o p)] = p[Len(p)]
<1> DEFINE j == s \o p
<1>1. /\ Len(s) \in Nat /\ Len(p) \in Nat /\ Len(p) >= 1
      /\ Len(j) = Len(s) + Len(p)
      /\ \A k \in 1 .. Len(s) : j[k] = s[k]
      /\ \A k \in 1 .. Len(p) : j[Len(s) + k] = p[k]
      /\ j \in Seq(Item)
  BY JoinFacts
<1>2. Len(s) >= 1 => s # <<>>
  OBVIOUS
<1> HIDE DEF j
<1>3. ASSUME NEW k \in 1 .. Len(j) - 1
      PROVE  Follows(j[k], j[k + 1])
  <2>1. CASE k < Len(s)
    <3>1. k \in 1 .. Len(s) - 1 /\ j[k] = s[k] /\ j[k + 1] = s[k + 1]
      BY <1>1, <2>1
    <3> QED
      BY <3>1 DEF Ordered
  <2>2. CASE k = Len(s)
    <3>1. j[k] = s[Len(s)] /\ j[k + 1] = p[1] /\ s # <<>>
      BY <1>1, <1>2, <2>2
    <3> QED
      BY <3>1
  <2>3. CASE k > Len(s)
    <3> DEFINE i == k - Len(s)
    <3>1. i \in 1 .. Len(p) - 1 /\ k = Len(s) + i /\ k + 1 = Len(s) + (i + 1)
      BY <1>1, <2>3
    <3> HIDE DEF i
    <3>2. j[k] = p[i] /\ j[k + 1] = p[i + 1]
      BY <1>1, <3>1
    <3> QED
      BY <3>1, <3>2 DEF Ordered
  <2> QED
    BY <1>1, <2>1, <2>2, <2>3
<1>4. Ordered(j)
  BY <1>3 DEF Ordered
<1>5. j # <<>> /\ j[Len(j)] = p[Len(p)]
  BY <1>1
<1> QED
  BY <1>4, <1>5 DEF j

LEMMA NextOfWrite ==
  ASSUME NEW w \in Writer, NEW nr \in Nat, NEW k \in Nat
  PROVE  Follows(<<w, nr, k>>, <<w, nr, k + 1>>)
BY DEF Follows

LEMMA FirstOfWrite ==
  ASSUME NEW a \in Item, NEW w \in Writer, NEW nr \in Nat, a[2] < nr
  PROVE  Follows(a, <<w, nr, 1>>)
BY DEF Follows, Item

LEMMA OrderedIsInOrder == WritesInOrder <=> Ordered(Sent)
BY DEF WritesInOrder, Ordered, Follows, Sent

LEMMA RingPutOrder ==
  ASSUME ZephyrAssumption, TxInv, OrderInv, NEW w \in Writer, RingPut(w)
  PROVE  OrderInv'
<1> DEFINE n == PutLen(w)
           p == Put(w)
           bytes == written[w].bytes
<1>1. /\ n \in Nat
      /\ p \in Seq(Item) /\ Len(p) = n
      /\ \A k \in 1 .. n : p[k] = <<w, nWrites, bytes + k>>
      /\ nWrites \in Nat /\ bytes \in Nat
      /\ txRing' = txRing \o p
      /\ written' = [written EXCEPT ![w].bytes = @ + n]
      /\ wpc' = [wpc EXCEPT ![w] = IF n > 0 THEN "enable" ELSE "stalled"]
      /\ written[w].nr = nWrites
  <2>1. written[w].nr = nWrites
    BY DEF RingPut, OrderInv, LastIsOfWrite
  <2> QED
    BY <2>1, PutFacts
<1>2. /\ wpc[w] = "put" /\ UNCHANGED <<wire, nWrites>>
      /\ wire \in Seq(Item) /\ txRing \in Seq(Item) /\ Sent \in Seq(Item)
      /\ wpc \in [Writer -> WriterAt]
      /\ written \in [Writer -> [nr : Nat, bytes : 0 .. MaxLength]]
  BY JoinFacts DEF RingPut, TxInv, TxTypes, Sent
<1>3. \A v \in Writer \ {w} : wpc[v] = "idle"
  BY <1>2 DEF TxInv, Turns
<1>4. /\ written'[w].nr = nWrites /\ written'[w].bytes = bytes + n
      /\ \A v \in Writer \ {w} : wpc'[v] = "idle"
  <2>1. written'[w] = [written[w] EXCEPT !.bytes = bytes + n]
    BY <1>1, <1>2
  <2>2. written[w] \in [nr : Nat, bytes : 0 .. MaxLength]
    BY <1>2
  <2> QED
    BY <1>1, <1>2, <1>3, <2>1, <2>2
<1>5. /\ Sent' = Sent \o p
      /\ Ordered(Sent)
      /\ Sent # <<>> => LastSent \in Item
      /\ \/ bytes = 0 /\ (Sent # <<>> => LastSent[2] < nWrites)
         \/ Sent # <<>> /\ LastSent = <<w, nWrites, bytes>>
      /\ Sent # <<>> => LastSent[2] <= nWrites
  <2>1. (wire \o txRing) \o p = wire \o (txRing \o p)
    BY <1>1, <1>2, JoinItems
  <2>2. Sent' = Sent \o p
    BY <1>1, <1>2, <2>1 DEF Sent
  <2>3. Sent # <<>> => LastSent \in Item
    BY <1>2 DEF LastSent
  <2> QED
    BY <1>1, <1>2, <2>2, <2>3, OrderedIsInOrder DEF OrderInv, LastIsOfWrite, TxByte
<1> HIDE DEF n, p, bytes
<1>6. CASE n = 0
  <2>1. \A q \in Seq(Item) : Len(q) = 0 => q = <<>>
    OBVIOUS
  <2>2. p = <<>>
    BY <1>1, <1>6, <2>1
  <2>3. Sent \o <<>> = Sent
    BY <1>2
  <2>4. Sent' = Sent /\ LastSent' = LastSent
    BY <1>5, <2>2, <2>3 DEF LastSent
  <2>5. written'[w].bytes = bytes
    BY <1>1, <1>4, <1>6
  <2>6. LastIsOfWrite'
    BY <1>2, <1>4, <1>5, <2>4, <2>5 DEF LastIsOfWrite, TxByte
  <2>7. WritesInOrder'
    BY <2>4 DEF OrderInv, WritesInOrder, Sent
  <2> QED
    BY <2>6, <2>7 DEF OrderInv
<1>7. CASE n > 0
  <2>1. Ordered(p)
    <3>1. ASSUME NEW k \in 1 .. n - 1
          PROVE  Follows(p[k], p[k + 1])
      <4>1. k \in 1 .. n /\ k + 1 \in 1 .. n /\ bytes + k \in Nat
            /\ bytes + (k + 1) = (bytes + k) + 1
        BY <1>1
      <4>2. p[k] = <<w, nWrites, bytes + k>> /\ p[k + 1] = <<w, nWrites, (bytes + k) + 1>>
        BY <1>1, <4>1
      <4> QED
        BY <1>1, <4>1, <4>2, NextOfWrite
    <3> QED
      BY <1>1, <3>1 DEF Ordered
  <2>2. p # <<>> /\ p[1] = <<w, nWrites, bytes + 1>> /\ p[Len(p)] = <<w, nWrites, bytes + n>>
    <3>1. 1 \in 1 .. n /\ n \in 1 .. n
      BY <1>1, <1>7
    <3>2. p # <<>>
      BY <1>1, <1>7
    <3> QED
      BY <1>1, <3>1, <3>2
  <2>3. Sent # <<>> => Follows(LastSent, p[1])
    <3>1. CASE bytes = 0 /\ Sent # <<>> /\ LastSent[2] < nWrites
      BY <1>1, <1>5, <2>2, <3>1, FirstOfWrite
    <3>2. CASE LastSent = <<w, nWrites, bytes>>
      BY <1>1, <2>2, <3>2, NextOfWrite
    <3> QED
      BY <1>5, <3>1, <3>2
  <2>4. Ordered(Sent)' /\ Sent' # <<>> /\ LastSent' = <<w, nWrites, bytes + n>>
    <3>1. Ordered(Sent \o p) /\ Sent \o p # <<>> /\ (Sent \o p)[Len(Sent \o p)] = p[Len(p)]
      BY <1>1, <1>2, <1>5, <2>1, <2>2, <2>3, OrderedJoin DEF LastSent
    <3> QED
      BY <1>5, <2>2, <3>1 DEF LastSent, Ordered
  <2>5. WritesInOrder'
    BY <2>4 DEF WritesInOrder, Ordered, Follows, Sent
  <2>6. LastSent'[2] = nWrites
    BY <2>4
  <2>7. LastIsOfWrite'
    BY <1>1, <1>2, <1>4, <2>4, <2>6 DEF LastIsOfWrite, TxByte
  <2> QED
    BY <2>5, <2>7 DEF OrderInv
<1> QED
  BY <1>1, <1>6, <1>7

LEMMA WriterOrder ==
  ASSUME ZephyrAssumption, TxInv, OrderInv, NEW w \in Writer,
         LockTx(w) \/ TxEnable(w) \/ TakeTxSem(w) \/ GiveUp(w) \/ UnlockTx(w)
  PROVE  OrderInv'
<1>1. /\ UNCHANGED <<wire, txRing>> /\ Sent' = Sent /\ LastSent' = LastSent
  BY DEF LockTx, TxEnable, TakeTxSem, GiveUp, UnlockTx, Sent, LastSent
<1>2. WritesInOrder'
  BY <1>1 DEF OrderInv, WritesInOrder, Sent
<1>3. /\ nWrites \in Nat /\ Sent \in Seq(Item) /\ wpc \in [Writer -> WriterAt]
      /\ written \in [Writer -> [nr : Nat, bytes : 0 .. MaxLength]]
  BY JoinFacts DEF TxInv, TxTypes, Sent
<1>4. Sent # <<>> => LastSent[2] \in Nat
  <2>1. Sent # <<>> => LastSent \in Item
    BY <1>3 DEF LastSent
  <2> QED
    BY <2>1 DEF Item
<1>5. CASE LockTx(w)
  <2>1. /\ \A v \in Writer : wpc[v] = "idle"
        /\ wpc' = [wpc EXCEPT ![w] = "put"]
        /\ written' = [written EXCEPT ![w] = [nr |-> nWrites + 1, bytes |-> 0]]
        /\ nWrites' = nWrites + 1
    BY <1>5, Sizes DEF LockTx, TxIsFree, TxInv, Turns
  <2>2. written'[w].nr = nWrites + 1 /\ written'[w].bytes = 0
    BY <1>3, <2>1
  <2>3. Sent # <<>> => LastSent[2] < nWrites + 1
    BY <1>3, <1>4 DEF OrderInv, LastIsOfWrite
  <2>4. LastIsOfWrite'
    BY <1>1, <1>3, <1>4, <2>1, <2>2, <2>3 DEF LastIsOfWrite
  <2> QED
    BY <1>2, <2>4 DEF OrderInv
<1>6. CASE TxEnable(w) \/ TakeTxSem(w) \/ GiveUp(w) \/ UnlockTx(w)
  <2>1. /\ wpc[w] # "idle" /\ UNCHANGED <<written, nWrites>>
        /\ \A v \in Writer \ {w} : wpc'[v] = wpc[v]
    BY <1>3, <1>6 DEF TxEnable, TakeTxSem, GiveUp, UnlockTx
  <2>2. LastIsOfWrite'
    BY <1>1, <2>1 DEF OrderInv, LastIsOfWrite, TxByte
  <2> QED
    BY <1>2, <2>2 DEF OrderInv
<1> QED
  BY <1>5, <1>6

\* The interrupt and the reader
LEMMA OtherOrder ==
  ASSUME OrderInv, Sent' = Sent, UNCHANGED <<wpc, written, nWrites>>
  PROVE  OrderInv'
BY DEF OrderInv, WritesInOrder, LastIsOfWrite, LastSent, Sent, TxByte

LEMMA NextOrder ==
  ASSUME ZephyrAssumption, TxInv, OrderInv, [Next]_vars
  PROVE  OrderInv'
<1>1. ASSUME NEW seesRx \in BOOLEAN, NEW canSend \in BOOLEAN, Isr(seesRx, canSend)
      PROVE  OrderInv'
  BY <1>1, IsrTx, OtherOrder DEF Isr
<1>2. CASE \/ Arrive
           \/ \E n \in 1 .. MaxLength, withTimeout \in BOOLEAN : Read(n, withTimeout)
           \/ Reader
           \/ UNCHANGED vars
  BY <1>2, ReaderTx, OtherOrder DEF tx
<1> QED
  BY <1>1, <1>2, RingPutOrder, WriterOrder DEF Next

\* Two writes are not mixed on the wire, and each is sent in order from its first
\* byte: one that gave up has sent less, and nothing of it comes after a gap.
THEOREM WritesStayInOrder ==
  ASSUME ZephyrAssumption
  PROVE  Spec => []WritesInOrder
<1>1. TxInv /\ OrderInv /\ [Next]_vars => OrderInv'
  BY NextOrder
<1> QED
  BY <1>1, InitTx, TxInvariant, PTL DEF Spec, OrderInv
=============================================================================
