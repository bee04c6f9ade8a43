----------------------------- MODULE UartZephyr -----------------------------
(***************************************************************************)
(* The Zephyr UART driver, u_port_uart_zephyr.c: one interrupt routine     *)
(* that moves bytes between two ring buffers and the hardware, a thread    *)
(* that reads, and threads that write.                                     *)
(*                                                                         *)
(* Zephyr's ring_buf, k_sem and k_mutex are external: a ring_buf with one  *)
(* producer and one consumer is a bounded sequence of which each call      *)
(* moves as much as fits.                                                  *)
(***************************************************************************)
EXTENDS Integers, Sequences

CONSTANTS
  Writer,      \* the threads that write
  NoThread,    \* txMutex is free
  RxSize,      \* U_PORT_UART_RX_BUFFER_SIZE
  TxSize,      \* U_PORT_UART_TX_BUFFER_SIZE
  RxFifo,      \* bytes that the receiver of the UART holds
  TxFifo,      \* bytes that its transmitter takes at a time
  MaxBytes,    \* bound: bytes received
  MaxLength,   \* bound: the longest read, and the length of each write
  MaxWrites,   \* bound: writes
  MaxStalls    \* bound: writes that give up

\* What is assumed of the constants.
ZephyrAssumption ==
  /\ NoThread \notin Writer
  /\ {RxSize, TxSize, RxFifo, TxFifo, MaxLength} \subseteq Nat \ {0}
  /\ {MaxBytes, MaxWrites, MaxStalls} \subseteq Nat

VARIABLES
  nReceived,   \* bytes on the wire so far; a byte is its number
  rxHw,        \* the bytes in the receiver
  rxIrq, txIrq,    \* the two causes of the interrupt, enabled or not
  rxRing, txRing,
  rxSem, txSem,    \* semaphores that count to 1
  txMutex,
  rpc, length, timed, pData, got,   \* the reader
  wpc, written,                     \* the writers
  wire,        \* the bytes sent: whose they are, of which write
  nWrites, nStalls

rx == <<nReceived, rxHw, rxIrq, rxRing, rxSem>>
reader == <<rpc, length, timed, pData, got>>
tx == <<txIrq, txRing, txSem, txMutex, wpc, written, wire, nWrites, nStalls>>
vars == <<rx, reader, tx>>

\* A byte that is written: its write and its place there.
TxByte(w, k) == <<w, written[w].nr, k>>

Init ==
  /\ nReceived = 0
  /\ rxHw = <<>>
  /\ rxIrq = TRUE /\ txIrq = FALSE
  /\ rxRing = <<>> /\ txRing = <<>>
  /\ rxSem = 0 /\ txSem = 0
  /\ txMutex = NoThread
  /\ rpc = "idle"
  /\ length = 0 /\ timed = FALSE /\ pData = <<>> /\ got = <<>>
  /\ wpc = [w \in Writer |-> "idle"]
  /\ written = [w \in Writer |-> [nr |-> 0, bytes |-> 0]]
  /\ wire = <<>>
  /\ nWrites = 0 /\ nStalls = 0

AtMost(n, limit) == IF n < limit THEN n ELSE limit

-----------------------------------------------------------------------------
(* The hardware and uartIsr()                                              *)

\* A byte arrives; it is lost when the receiver is full.
Arrive ==
  /\ nReceived < MaxBytes
  /\ nReceived' = nReceived + 1
  /\ rxHw' = IF Len(rxHw) < RxFifo THEN Append(rxHw, nReceived + 1) ELSE rxHw
  /\ UNCHANGED <<rxIrq, rxRing, rxSem, reader, tx>>

IsrReceiveDroppingRest ==
  LET n == AtMost(Len(rxHw), RxSize - Len(rxRing)) IN
  /\ rxRing' = rxRing \o SubSeq(rxHw, 1, n)
  /\ rxHw' = <<>>
  /\ rxIrq' = rxIrq
  /\ rxSem' = 1

GiveRxSemWhenFull == rxSem' = IF Len(rxRing') = RxSize THEN 1 ELSE rxSem
GiveRxSem == rxSem' = 1

\* Received bytes are moved until there are none or the ring is full, in which
\* case the cause is disabled and the reader must enable it again.
IsrReceive ==
  LET n == AtMost(Len(rxHw), RxSize - Len(rxRing)) IN
  /\ rxRing' = rxRing \o SubSeq(rxHw, 1, n)
  /\ rxHw' = SubSeq(rxHw, n + 1, Len(rxHw))
  /\ rxIrq' = (rxIrq /\ rxHw' = <<>>)
  /\ GiveRxSem

\* Bytes to be sent are moved to the transmitter; when there are none the cause
\* is disabled and the writer must enable it again.
IsrSend ==
  LET n == AtMost(Len(txRing), TxFifo) IN
  /\ wire' = wire \o SubSeq(txRing, 1, n)
  /\ txRing' = SubSeq(txRing, n + 1, Len(txRing))
  /\ txIrq' = (txIrq /\ txRing # <<>>)
  /\ txSem' = 1

\* The routine runs for either cause.  Whether it sees received bytes while the
\* cause is disabled is up to the hardware, as is whether it can send.
Isr(seesRx, canSend) ==
  /\ (rxIrq /\ seesRx) \/ (txIrq /\ canSend)
  /\ IF seesRx
     THEN rxHw # <<>> /\ IsrReceive
     ELSE UNCHANGED <<rxHw, rxRing, rxIrq, rxSem>>
  /\ IF canSend THEN IsrSend ELSE UNCHANGED <<wire, txRing, txIrq, txSem>>
  /\ UNCHANGED <<nReceived, reader, txMutex, wpc, written, nWrites, nStalls>>

-----------------------------------------------------------------------------
(* uPortUartRead()                                                         *)

Read(n, withTimeout) ==
  /\ rpc = "idle"
  /\ length' = n
  /\ timed' = withTimeout
  /\ pData' = <<>>
  /\ rpc' = "empty"
  /\ UNCHANGED <<rx, got, tx>>

ReturnRead == rpc' = "idle" /\ got' = pData /\ pData' = <<>>
ReadOn(where) == rpc' = where /\ UNCHANGED <<pData, got>>

\* With a timeout it goes on until everything is read; when the ring is empty
\* it waits for the interrupt.
ReadIsEmpty ==
  /\ rpc = "empty"
  /\ IF timed /\ Len(pData) < length
     THEN ReadOn(IF rxRing = <<>> THEN "take" ELSE "disable")
     ELSE IF rxRing # <<>> /\ ~timed THEN ReadOn("disable") ELSE ReturnRead
  /\ UNCHANGED <<rx, length, timed, tx>>

\* k_sem_take(): the semaphore, or the time is up, and the loop looks at the
\* ring again before it gives up.
TakeRxSem ==
  /\ rpc = "take"
  /\ rxSem = 1
  /\ rxSem' = 0
  /\ rpc' = "empty"
  /\ UNCHANGED <<nReceived, rxHw, rxIrq, rxRing, length, timed, pData, got, tx>>

ReadTimeout ==
  /\ rpc = "take"
  /\ rpc' = "late"
  /\ UNCHANGED <<rx, length, timed, pData, got, tx>>

ReadLate ==
  /\ rpc = "late"
  /\ IF rxRing = <<>> THEN ReturnRead ELSE ReadOn("disable")
  /\ UNCHANGED <<rx, length, timed, tx>>

RxDisable == /\ rpc = "disable"
             /\ rxIrq' = FALSE
             /\ rpc' = "get"
             /\ UNCHANGED <<nReceived, rxHw, rxRing, rxSem, length, timed, pData, got, tx>>

RingGet == /\ rpc = "get"
           /\ LET n == AtMost(Len(rxRing), length - Len(pData)) IN
              /\ pData' = pData \o SubSeq(rxRing, 1, n)
              /\ rxRing' = SubSeq(rxRing, n + 1, Len(rxRing))
           /\ rpc' = "enable"
           /\ UNCHANGED <<nReceived, rxHw, rxIrq, rxSem, length, timed, got, tx>>

EnableRxWhenEmpty == rxIrq' = (rxRing = <<>>)
EnableRx == rxIrq' = TRUE

RxEnable == /\ rpc = "enable"
            /\ EnableRx
            /\ IF timed THEN ReadOn("empty") ELSE ReturnRead
            /\ UNCHANGED <<nReceived, rxHw, rxRing, rxSem, length, timed, tx>>

-----------------------------------------------------------------------------
(* uPortUartWrite()                                                        *)

TxIsFreeAlways == TRUE
TxIsFree == txMutex = NoThread

LockTx(w) ==
  /\ wpc[w] = "idle"
  /\ nWrites < MaxWrites
  /\ TxIsFree
  /\ txMutex' = w
  /\ nWrites' = nWrites + 1
  /\ written' = [written EXCEPT ![w] = [nr |-> nWrites + 1, bytes |-> 0]]
  /\ wpc' = [wpc EXCEPT ![w] = "put"]
  /\ UNCHANGED <<rx, reader, txIrq, txRing, txSem, wire, nStalls>>

RingPut(w) ==
  /\ wpc[w] = "put"
  /\ LET n == AtMost(MaxLength - written[w].bytes, TxSize - Len(txRing))
         put == [k \in 1 .. n |-> TxByte(w, written[w].bytes + k)] IN
     /\ txRing' = txRing \o put
     /\ written' = [written EXCEPT ![w].bytes = @ + n]
     /\ wpc' = [wpc EXCEPT ![w] = IF n > 0 THEN "enable" ELSE "stalled"]
  /\ UNCHANGED <<rx, reader, txIrq, txSem, txMutex, wire, nWrites, nStalls>>

EnableTxWhenStalled(w) == txIrq' = (txIrq \/ wpc[w] = "stalled")
EnableTx(w) == txIrq' = TRUE

\* The ring is full: the interrupt makes room, or does not for too long.
TxEnable(w) ==
  /\ wpc[w] \in {"enable", "stalled"}
  /\ EnableTx(w)
  /\ wpc' = [wpc EXCEPT ![w] = IF @ = "stalled" THEN "take"
                               ELSE IF written[w].bytes < MaxLength THEN "put" ELSE "unlock"]
  /\ UNCHANGED <<rx, reader, txRing, txSem, txMutex, written, wire, nWrites, nStalls>>

\* k_sem_take(): the semaphore, or 10 ms.
TakeTxSem(w) ==
  /\ wpc[w] = "take"
  /\ txSem' = 0
  /\ wpc' = [wpc EXCEPT ![w] = "put"]
  /\ UNCHANGED <<rx, reader, txIrq, txRing, txMutex, written, wire, nWrites, nStalls>>

GiveUp(w) ==
  /\ wpc[w] = "stalled"
  /\ nStalls < MaxStalls
  /\ nStalls' = nStalls + 1
  /\ wpc' = [wpc EXCEPT ![w] = "unlock"]
  /\ UNCHANGED <<rx, reader, txIrq, txRing, txSem, txMutex, written, wire, nWrites>>

UnlockTx(w) ==
  /\ wpc[w] = "unlock"
  /\ txMutex' = NoThread
  /\ wpc' = [wpc EXCEPT ![w] = "idle"]
  /\ UNCHANGED <<rx, reader, txIrq, txRing, txSem, written, wire, nWrites, nStalls>>

Reader == \/ ReadIsEmpty \/ TakeRxSem \/ ReadTimeout \/ ReadLate
          \/ RxDisable \/ RingGet \/ RxEnable

Next == \/ Arrive
        \/ \E seesRx, canSend \in BOOLEAN : Isr(seesRx, canSend)
        \/ \E n \in 1 .. MaxLength, withTimeout \in BOOLEAN : Read(n, withTimeout)
        \/ Reader
        \/ \E w \in Writer : \/ LockTx(w) \/ RingPut(w) \/ TxEnable(w)
                             \/ TakeTxSem(w) \/ GiveUp(w) \/ UnlockTx(w)

Spec == Init /\ [][Next]_vars

-----------------------------------------------------------------------------
(* Properties                                                              *)

\* What was received is read in order and once: the bytes of the receiver, the
\* ring and an unfinished read are one FIFO, and only a full receiver loses.
Unread == pData \o rxRing \o rxHw
Fifo == INSTANCE UartFifo
          WITH Byte <- 1 .. MaxBytes, Capacity <- RxFifo, queue <- Unread, got <- got
FifoSpec == Fifo!Spec

\* The receiver does not go deaf: the cause is disabled only while the reader
\* is about to enable it or has a full ring to read.
RxStaysEnabled == ~rxIrq => rpc \in {"get", "enable"} \/ Len(rxRing) = RxSize

\* A reader that waits for the semaphore is not left waiting with bytes in the
\* ring: the interrupt came after it had found the ring empty, and has given it.
NoLostWakeup == rpc = "take" /\ rxRing # <<>> => rxSem = 1

\* The transmitter does not stop: bytes in the ring have the cause enabled, or
\* a writer about to enable it.
TxKeepsRunning ==
  txRing # <<>> => txIrq \/ \E w \in Writer : wpc[w] \in {"enable", "stalled"}

\* Two writes are not mixed on the wire, and a write is sent in order from its
\* first byte: one that gave up has sent less, and nothing after the gap.
WritesInOrder ==
  LET sent == wire \o txRing IN
  \A k \in 1 .. Len(sent) - 1 :
    \/ sent[k + 1] = [sent[k] EXCEPT ![3] = @ + 1]
    \/ sent[k + 1][3] = 1 /\ sent[k + 1][2] > sent[k][2]
=============================================================================
