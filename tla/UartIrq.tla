------------------------------ MODULE UartIrq -------------------------------
(***************************************************************************)
(* The interrupt driven UART driver, u_port_uart_stm32f4_irq.c: the        *)
(* interrupt appends to a ring that one thread at a time reads, the holder *)
(* of the client's cmdMutex.  There is no lock; each index has one writer, *)
(* but for a flush.  The interrupt runs between any two steps of the       *)
(* reader, of which each accesses one shared variable.                     *)
(***************************************************************************)
EXTENDS Integers, Sequences

CONSTANTS
  Size,      \* U_PORT_UART_RX_BUFFER_SIZE
  MaxLength, \* bound: the longest read
  MaxBytes   \* bound: bytes received

ASSUME IrqAssumption ==
  /\ Size \in Nat \ {0}
  /\ MaxLength \in Nat
  /\ MaxBytes \in Nat

VARIABLES
  nReceived,       \* bytes on the wire so far; a byte is its number
  isOpen,
  rxBuffer, rxHead, rxTail,
  irqEnabled,      \* HAL_NVIC_DisableIRQ(), HAL_NVIC_EnableIRQ()
  dataRegister,    \* the byte that waits for the interrupt, 0 for none
  pc,              \* where the reader is
  length, mode,    \* its parameters
  head, available, tail,  \* its local variables
  pData,           \* what it has copied
  got              \* what the last read returned

ring == <<rxBuffer, rxHead, rxTail>>
hardware == <<nReceived, isOpen, irqEnabled, dataRegister>>
locals == <<length, mode, head, available, tail, pData>>
vars == <<hardware, ring, pc, locals, got>>

Index == 0 .. Size - 1
Next_(index) == (index + 1) % Size

Init ==
  /\ nReceived = 0
  /\ isOpen = TRUE
  /\ rxBuffer = [index \in Index |-> 0]
  /\ rxHead = 0 /\ rxTail = 0
  /\ irqEnabled = TRUE
  /\ dataRegister = 0
  /\ pc = "idle"
  /\ length = 0 /\ mode = "poll"
  /\ head = 0 /\ available = 0 /\ tail = 0
  /\ pData = <<>>
  /\ got = <<>>

-----------------------------------------------------------------------------
(* The interrupt                                                           *)

\* A byte arrives.  There is time for one before it overruns the register.
Arrive == /\ isOpen
          /\ nReceived < MaxBytes
          /\ dataRegister = 0
          /\ nReceived' = nReceived + 1
          /\ dataRegister' = nReceived + 1
          /\ UNCHANGED <<isOpen, irqEnabled, ring, pc, locals, got>>

IsFullNever(index) == FALSE
IsFull(index) == Next_(index) = rxTail

\* HAL_UART_RxCpltCallback(): the byte is dropped when the ring is full.
RxCpltCallback ==
  /\ isOpen
  /\ irqEnabled
  /\ dataRegister # 0
  /\ IF IsFull(rxHead)
     THEN UNCHANGED <<rxBuffer, rxHead>>
     ELSE /\ rxBuffer' = [rxBuffer EXCEPT ![rxHead] = dataRegister]
          /\ rxHead' = Next_(rxHead)
  /\ dataRegister' = 0
  /\ UNCHANGED <<nReceived, isOpen, irqEnabled, rxTail, pc, locals, got>>

-----------------------------------------------------------------------------
(* uPortUartRead()                                                         *)

\* A timeout of 0 polls, a negative one waits for ever.
Read(n, m) ==
  /\ isOpen
  /\ pc = "idle"
  /\ length' = n
  /\ mode' = m
  /\ pc' = "head"
  /\ UNCHANGED <<hardware, ring, head, available, tail, pData, got>>

\* getRxBufferAvailable()
ReadHead == /\ pc = "head"
            /\ head' = rxHead
            /\ pc' = "tail"
            /\ UNCHANGED <<hardware, ring, length, mode, available, tail, pData, got>>

Return(bytes) == got' = bytes /\ pc' = "idle"

\* In the loop the time is looked at after the ring: when it is up, 0 is
\* returned also if a byte has just come.
ReadTail ==
  /\ pc = "tail"
  /\ available' = IF head >= rxTail THEN head - rxTail ELSE Size - rxTail + head
  /\ \/ available' > 0 /\ pc' = "copy" /\ UNCHANGED <<mode, got>>
     \/ available' = 0 /\ mode = "poll" /\ Return(<<>>) /\ UNCHANGED mode
     \/ /\ available' = 0 /\ mode # "poll"
        /\ pc' = "head"
        /\ mode' = IF mode = "wait" THEN "waiting" ELSE mode
        /\ UNCHANGED got
     \/ mode = "waiting" /\ Return(<<>>) /\ UNCHANGED mode
  /\ tail' = rxTail
  /\ pData' = <<>>
  /\ UNCHANGED <<hardware, ring, length, head>>

BytesToRead == IF length < available THEN length ELSE available

CopyByte == /\ pc = "copy"
            /\ Len(pData) < BytesToRead
            /\ pData' = Append(pData, rxBuffer[tail])
            /\ tail' = Next_(tail)
            /\ UNCHANGED <<hardware, ring, pc, length, mode, head, available, got>>

\* The room is given back when everything is copied.
ReadEnd == /\ pc = "copy"
           /\ Len(pData) = BytesToRead
           /\ rxTail' = tail
           /\ Return(pData)
           /\ UNCHANGED <<hardware, rxBuffer, rxHead, locals>>

-----------------------------------------------------------------------------
(* uPortUartFlushRx(), uPortUartClose() and uPortUartOpen()                *)

FlushDisable == /\ isOpen
                /\ pc = "idle"
                /\ irqEnabled' = FALSE
                /\ pc' = "flush"
                /\ UNCHANGED <<nReceived, isOpen, dataRegister, ring, locals, got>>

FlushRx == /\ pc = "flush"
           /\ rxTail' = rxHead
           /\ pc' = "flushed"
           /\ UNCHANGED <<hardware, rxBuffer, rxHead, locals, got>>

FlushEnable == /\ pc = "flushed"
               /\ irqEnabled' = TRUE
               /\ pc' = "idle"
               /\ UNCHANGED <<nReceived, isOpen, dataRegister, ring, locals, got>>

\* The handle is freed, and its successor is zeroed.
Close == /\ isOpen
         /\ pc = "idle"
         /\ isOpen' = FALSE
         /\ rxBuffer' = [index \in Index |-> 0]
         /\ rxHead' = 0 /\ rxTail' = 0
         /\ dataRegister' = 0
         /\ UNCHANGED <<nReceived, irqEnabled, pc, locals, got>>

Open == /\ ~isOpen
        /\ isOpen' = TRUE
        /\ UNCHANGED <<nReceived, irqEnabled, dataRegister, ring, pc, locals, got>>

Next == \/ Arrive
        \/ RxCpltCallback
        \/ \E n \in 1 .. MaxLength, m \in {"poll", "wait", "forever"} : Read(n, m)
        \/ ReadHead \/ ReadTail \/ CopyByte \/ ReadEnd
        \/ FlushDisable \/ FlushRx \/ FlushEnable
        \/ Close \/ Open

Spec == Init /\ [][Next]_vars

-----------------------------------------------------------------------------
(* Properties                                                              *)

\* The bytes from rxTail to rxHead are a FIFO that keeps Size - 1 bytes: the
\* interrupt never writes where the reader is, whatever it does between the
\* steps of a read, a flush, a close and an open.
Used == (rxHead - rxTail + Size) % Size
Unread == [k \in 1 .. Used |-> rxBuffer[(rxTail + k - 1) % Size]]
Fifo == INSTANCE UartFifo
          WITH Byte <- 1 .. MaxBytes, Capacity <- Size - 1, queue <- Unread, got <- got
FifoSpec == Fifo!Spec
=============================================================================
