------------------------------- MODULE MCUarts -------------------------------
(***************************************************************************)
(* The three kinds of UART drivers with an interrupt, one per behaviour:   *)
(* which one it is, is chosen at the start, and the variables of the       *)
(* others stay 0.                                                          *)
(***************************************************************************)
EXTENDS UartIrq, TLC

CONSTANTS Writer, NoThread, RxSize, TxSize, RxFifo, TxFifo, DmaSize, Modulus,
          ZephyrBytes, DmaBytes, ZephyrLength, DmaLength, MaxWrites, MaxStalls, MaxErrors

VARIABLES
  driver,
  rxHw, rxIrq, txIrq, rxRing, txRing, rxSem, txSem, txMutex, rpc, timed, wpc, written,
  wire, nWrites, nStalls,
  ndtr, irqPending, rxWraps, rxTotalRead, rxResync, nErrors, overflowCount, after,
  wraps, count, retry, tailIdx, nextByte, seen, base, torn

Zephyr == INSTANCE UartZephyr WITH MaxBytes <- ZephyrBytes, MaxLength <- ZephyrLength
Dma == INSTANCE UartDma
         WITH Size <- DmaSize, MaxBytes <- DmaBytes, MaxLength <- DmaLength

ASSUME DriverAssumption == Zephyr!ZephyrAssumption /\ Dma!DmaAssumption

irqOnly == <<isOpen, rxHead, rxTail, irqEnabled, dataRegister, mode, head, tail>>
zephyrOnly == <<rxHw, rxIrq, txIrq, rxRing, txRing, rxSem, txSem, txMutex, rpc, timed,
                wpc, written, wire, nWrites, nStalls>>
dmaOnly == <<ndtr, irqPending, rxWraps, rxTotalRead, rxResync, nErrors, overflowCount,
             after, wraps, count, retry, tailIdx, nextByte, seen, base, torn>>
ringOnly == <<rxBuffer, pc, available>>

NoIrq == /\ isOpen = 0 /\ rxHead = 0 /\ rxTail = 0 /\ irqEnabled = 0
         /\ dataRegister = 0 /\ mode = 0 /\ head = 0 /\ tail = 0
NoZephyr == /\ rxHw = 0 /\ rxIrq = 0 /\ txIrq = 0 /\ rxRing = 0 /\ txRing = 0
            /\ rxSem = 0 /\ txSem = 0 /\ txMutex = 0 /\ rpc = 0 /\ timed = 0
            /\ wpc = 0 /\ written = 0 /\ wire = 0 /\ nWrites = 0 /\ nStalls = 0
NoDma == /\ ndtr = 0 /\ irqPending = 0 /\ rxWraps = 0 /\ rxTotalRead = 0
         /\ rxResync = 0 /\ nErrors = 0 /\ overflowCount = 0 /\ after = 0 /\ wraps = 0
         /\ count = 0 /\ retry = 0 /\ tailIdx = 0 /\ nextByte = 0 /\ seen = 0
         /\ base = 0 /\ torn = 0
NoRing == rxBuffer = 0 /\ pc = 0 /\ available = 0

MCInit ==
  \/ driver = "irq" /\ Init /\ NoZephyr /\ NoDma
  \/ driver = "zephyr" /\ Zephyr!Init /\ NoIrq /\ NoDma /\ NoRing
  \/ driver = "dma" /\ Dma!Init /\ NoIrq /\ NoZephyr /\ got = 0

MCNext ==
  /\ \/ driver = "irq" /\ Next /\ UNCHANGED <<zephyrOnly, dmaOnly>>
     \/ driver = "zephyr" /\ Zephyr!Next /\ UNCHANGED <<irqOnly, dmaOnly, ringOnly>>
     \/ driver = "dma" /\ Dma!Next /\ UNCHANGED <<irqOnly, zephyrOnly, got>>
  /\ UNCHANGED driver

MCVars == <<driver, nReceived, length, pData, got, irqOnly, zephyrOnly, dmaOnly, ringOnly>>

MCSpec == MCInit /\ [][MCNext]_MCVars

Symmetry == Permutations(Writer)

-----------------------------------------------------------------------------
(* The properties of the drivers                                           *)

\* The ring of the interrupt driven UART is a FIFO, see UartIrq.
IrqFifo == INSTANCE UartFifo
             WITH Byte <- 1 .. MaxBytes, Capacity <- Size - 1,
                  queue <- IF driver = "irq" THEN Unread ELSE <<>>,
                  got <- IF driver = "irq" THEN got ELSE <<>>
IrqFifoSpec == IrqFifo!Spec

\* The ring and the receiver of the Zephyr driver are a FIFO, see UartZephyr.
ZephyrFifo == INSTANCE UartFifo
                WITH Byte <- 1 .. ZephyrBytes, Capacity <- RxFifo,
                     queue <- IF driver = "zephyr" THEN Zephyr!Unread ELSE <<>>,
                     got <- IF driver = "zephyr" THEN got ELSE <<>>
ZephyrFifoSpec == ZephyrFifo!Spec

\* The Zephyr receiver does not go deaf.
RxStaysEnabled == driver = "zephyr" => Zephyr!RxStaysEnabled

\* A reader of the Zephyr driver that waits is woken up.
NoLostWakeup == driver = "zephyr" => Zephyr!NoLostWakeup

\* The Zephyr transmitter does not stop with bytes to send.
TxKeepsRunning == driver = "zephyr" => Zephyr!TxKeepsRunning

\* Writes of the Zephyr driver are not mixed.
WritesInOrder == driver = "zephyr" => Zephyr!WritesInOrder

\* The DMA driver returns each byte once and in order.
ReadsNextBytes == driver = "dma" => Dma!ReadsNextBytes

\* What the DMA driver takes for available is there.
CountIsRight == driver = "dma" => Dma!CountIsRight

\* The DMA driver finds an overflow only where one is.
OverflowIsReal == Dma!OverflowIsReal
=============================================================================
