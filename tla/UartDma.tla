------------------------------ MODULE UartDma -------------------------------
(***************************************************************************)
(* The DMA driven UART driver, u_port_uart_stm32f4_dma.c; those of the F7  *)
(* and H7 do the same.  The hardware writes into a ring and counts down    *)
(* NDTR, which it reloads when it wraps around; an interrupt counts the    *)
(* wraps a little later.  The reader puts the two together.  Nothing stops *)
(* the hardware from overtaking the reader.                                *)
(*                                                                         *)
(* Counters are 32 bits wide; here they are modulo Modulus, a multiple of  *)
(* Size as 2^32 is.                                                        *)
(***************************************************************************)
EXTENDS Integers, Sequences

CONSTANTS
  Size,       \* U_PORT_UART_RX_BUFFER_SIZE
  Modulus,    \* 2^32
  MaxLength,  \* bound: the longest read
  MaxBytes,   \* bound: bytes received
  MaxErrors   \* bound: UART errors

\* What is assumed of the constants.
DmaAssumption ==
  /\ Size \in Nat \ {0} /\ Modulus \in Nat
  /\ \E k \in 3 .. Modulus : Modulus = k * Size
  /\ MaxLength \in Nat /\ MaxBytes \in Nat /\ MaxErrors \in Nat

VARIABLES
  nReceived,      \* bytes on the wire so far; a byte is its number
  rxBuffer,
  ndtr,           \* what is left until the hardware wraps around
  irqPending,     \* it has wrapped around, and the interrupt has not run
  rxWraps, rxTotalRead, rxResync,
  nErrors, overflowCount,
  pc,             \* where the reader is
  after,          \* what it wants the write count for
  length, wraps, count, available, retry, tailIdx, pData,   \* its locals
  nextByte,       \* history: the byte that is to be read next
  seen,           \* history: bytes received when the reader read NDTR
  base,           \* history: bytes received when reception started again
  torn            \* history: bytes that are to be read have been overwritten,
                  \* or are of before an error

hardware == <<nReceived, rxBuffer, ndtr, irqPending>>
shared == <<rxWraps, rxTotalRead, rxResync>>
locals == <<length, wraps, count, available, retry, tailIdx, pData>>
history == <<nextByte, seen, base, torn>>
vars == <<hardware, shared, nErrors, overflowCount, pc, after, locals, history>>

Init ==
  /\ nReceived = 0
  /\ rxBuffer = [index \in 0 .. Size - 1 |-> 0]
  /\ ndtr = Size
  /\ irqPending = FALSE
  /\ rxWraps = 0 /\ rxTotalRead = 0 /\ rxResync = FALSE
  /\ nErrors = 0 /\ overflowCount = 0
  /\ pc = "idle" /\ after = "available"
  /\ length = 0 /\ wraps = 0 /\ count = 0 /\ available = 0 /\ retry = 0 /\ tailIdx = 0
  /\ pData = <<>>
  /\ nextByte = 1 /\ seen = 0 /\ base = 0
  /\ torn = FALSE

Unread == nReceived + 1 - nextByte

-----------------------------------------------------------------------------
(* The hardware and its interrupts                                         *)

\* A byte is written.  The interrupt is not as late as a whole turn, and the
\* reader is not 4 GB behind.
DmaWrite ==
  /\ nReceived < MaxBytes
  /\ Unread < Modulus - Size
  /\ ndtr = 1 => ~irqPending
  /\ nReceived' = nReceived + 1
  /\ rxBuffer' = [rxBuffer EXCEPT ![Size - ndtr] = nReceived + 1]
  /\ ndtr' = IF ndtr = 1 THEN Size ELSE ndtr - 1
  /\ irqPending' = (irqPending \/ ndtr = 1)
  /\ torn' = (torn \/ Unread = Size)
  /\ UNCHANGED <<shared, nErrors, overflowCount, pc, after, locals, nextByte,
                 seen, base>>

\* HAL_UART_RxCpltCallback()
RxCpltCallback ==
  /\ irqPending
  /\ irqPending' = FALSE
  /\ rxWraps' = (rxWraps + 1) % Modulus
  /\ UNCHANGED <<nReceived, rxBuffer, ndtr, rxTotalRead, rxResync, nErrors,
                 overflowCount, pc, after, locals, history>>

\* HAL_UART_ErrorCallback(): reception starts again at the start of the ring.
ErrorCallback ==
  /\ nErrors < MaxErrors
  /\ nErrors' = nErrors + 1
  /\ rxResync' = TRUE
  /\ rxWraps' = 0
  /\ ndtr' = Size
  /\ irqPending' = FALSE
  /\ base' = nReceived
  /\ torn' = TRUE
  /\ UNCHANGED <<nReceived, rxBuffer, rxTotalRead, overflowCount, pc, after, locals,
                 nextByte, seen>>

-----------------------------------------------------------------------------
(* getRxBufferAvailable() and getDmaWriteCount()                           *)

Goto(where) == pc' = where

Read(n) ==
  /\ pc = "idle"
  /\ length' = n
  /\ Goto("resync")
  /\ UNCHANGED <<hardware, shared, nErrors, overflowCount, after, wraps, count,
                 available, retry, tailIdx, pData, history>>

\* After an error everything is discarded that was received before now.
CheckResync ==
  /\ pc = "resync"
  /\ IF rxResync
     THEN rxResync' = FALSE /\ after' = "discard"
     ELSE after' = "available" /\ UNCHANGED rxResync
  /\ retry' = 0
  /\ Goto("wraps")
  /\ UNCHANGED <<hardware, rxWraps, rxTotalRead, nErrors, overflowCount, length, wraps,
                 count, available, tailIdx, pData, history>>

ReadWraps ==
  /\ pc = "wraps"
  /\ wraps' = rxWraps
  /\ Goto("ndtr")
  /\ UNCHANGED <<hardware, shared, nErrors, overflowCount, after, length, count,
                 available, retry, tailIdx, pData, history>>

WriteCountOfRest == (wraps * Size + ndtr) % Modulus
WriteCount == (wraps * Size + Size - ndtr) % Modulus

ReadNdtr ==
  /\ pc = "ndtr"
  /\ count' = WriteCount
  /\ seen' = nReceived
  /\ Goto("wrapsAgain")
  /\ UNCHANGED <<hardware, shared, nErrors, overflowCount, after, length, wraps,
                 available, retry, tailIdx, pData, nextByte, base, torn>>

WrapsUnchanged == wraps = rxWraps

ReadWrapsAgain ==
  /\ pc = "wrapsAgain"
  /\ IF WrapsUnchanged
     THEN Goto(after) /\ available' = (count - rxTotalRead) % Modulus
     ELSE Goto("wraps") /\ UNCHANGED available
  /\ UNCHANGED <<hardware, shared, nErrors, overflowCount, after, length, wraps, count,
                 retry, tailIdx, pData, history>>

\* "A genuine reader-too-slow overflow persists": it is one when 100 retries
\* have found it, the last of them after a pending interrupt has run.
IsLappedAtOnce == available > Size
IsLapped == available > Size /\ retry = 1 /\ ~irqPending /\ wraps = rxWraps

Retry ==
  /\ pc = "available"
  /\ available > Size
  /\ ~IsLapped
  /\ retry' = 1
  /\ Goto("wraps")
  /\ UNCHANGED <<hardware, shared, nErrors, overflowCount, after, length, wraps, count,
                 available, tailIdx, pData, history>>

Overflow ==
  /\ pc = "available"
  /\ IsLapped
  /\ overflowCount' = overflowCount + 1
  /\ after' = "discard"
  /\ Goto("wraps")
  /\ UNCHANGED <<hardware, shared, nErrors, locals, history>>

Return ==
  /\ Goto("idle")
  /\ length' = 0 /\ wraps' = 0 /\ count' = 0 /\ available' = 0 /\ retry' = 0
  /\ tailIdx' = 0 /\ pData' = <<>>

\* rxTotalRead = getDmaWriteCount()
Discard ==
  /\ pc \in {"discard", "flush"}
  /\ rxTotalRead' = count
  /\ nextByte' = IF rxResync THEN seen + 1
                 ELSE seen + 1 - ((seen - base - count) % Modulus)
  /\ torn' = (rxResync \/ nReceived + 1 - nextByte' > Size)
  /\ Return
  /\ UNCHANGED <<hardware, rxWraps, rxResync, nErrors, overflowCount, after, seen, base>>

-----------------------------------------------------------------------------
(* uPortUartRead()                                                         *)

\* Without a timeout nothing is waited for; with one the time is looked at
\* after the ring, and what has just come stays there when it is up.
Return0 ==
  /\ pc = "available"
  /\ available <= Size
  /\ Return
  /\ UNCHANGED <<hardware, shared, nErrors, overflowCount, after, history>>

LookAgain ==
  /\ pc = "available"
  /\ available = 0
  /\ Goto("resync")
  /\ UNCHANGED <<hardware, shared, nErrors, overflowCount, after, locals, history>>

Something ==
  /\ pc = "available"
  /\ available \in 1 .. Size
  /\ tailIdx' = rxTotalRead % Size
  /\ pData' = <<>>
  /\ Goto("copy")
  /\ UNCHANGED <<hardware, shared, nErrors, overflowCount, after, length, wraps, count,
                 available, retry, history>>

BytesToReadAlways == length
BytesToRead == IF length < available THEN length ELSE available

\* The two memcpy() calls, which the hardware does not wait for.
CopyByte ==
  /\ pc = "copy"
  /\ Len(pData) < BytesToRead
  /\ pData' = Append(pData, rxBuffer[tailIdx])
  /\ tailIdx' = (tailIdx + 1) % Size
  /\ UNCHANGED <<hardware, shared, nErrors, overflowCount, pc, after, length, wraps,
                 count, available, retry, history>>

ReadEnd ==
  /\ pc = "copy"
  /\ Len(pData) = BytesToRead
  /\ rxTotalRead' = (rxTotalRead + BytesToRead) % Modulus
  /\ nextByte' = nextByte + BytesToRead
  /\ Return
  /\ UNCHANGED <<hardware, rxWraps, rxResync, nErrors, overflowCount, after, seen,
                 base, torn>>

\* uPortUartFlushRx().  The count is taken as it is, here and in a discard: in
\* the gap it is a turn too small, and bytes that were read come once more.
FlushRx ==
  /\ pc = "idle"
  /\ after' = "flush"
  /\ Goto("wraps")
  /\ UNCHANGED <<hardware, shared, nErrors, overflowCount, locals, history>>

Next == \/ DmaWrite \/ RxCpltCallback \/ ErrorCallback
        \/ \E n \in 1 .. MaxLength : Read(n)
        \/ CheckResync \/ ReadWraps \/ ReadNdtr \/ ReadWrapsAgain
        \/ Retry \/ Overflow \/ Discard
        \/ Return0 \/ LookAgain \/ Something \/ CopyByte \/ ReadEnd
        \/ FlushRx

Spec == Init /\ [][Next]_vars

-----------------------------------------------------------------------------
(* Properties                                                              *)

\* While the hardware does not overtake the reader, a read returns the bytes
\* that come next, each of them once: over wrap-arounds of the ring, of the
\* counters and of the gap before the interrupt, and after a resynchronisation.
ReadsNextBytes ==
  pc = "copy" /\ ~torn =>
    \A k \in 1 .. Len(pData) : pData[k] = nextByte + k - 1

\* What the reader takes for available is what there was when it read NDTR, but
\* for a ring that is full to the byte in the gap, which looks empty.
CountIsRight ==
  pc = "available" /\ ~torn /\ available <= Size =>
    \/ available = seen + 1 - nextByte
    \/ available = 0 /\ seen + 1 - nextByte = Size

\* "This race self-heals": the gap between the wrap-around and its interrupt
\* is not taken for an overflow, which would discard good data.
OverflowIsReal == [][overflowCount' > overflowCount => torn]_vars
=============================================================================
