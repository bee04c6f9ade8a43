------------------------------ MODULE UrcQueue ------------------------------
(***************************************************************************)
(* The URC queue of u_cx_at_urc_queue.c: entries of different lengths laid *)
(* out in one buffer, written by the thread that parses the UART stream    *)
(* and drained in place by any thread that calls processUrcs().            *)
(*                                                                         *)
(* A position is an offset from pBuffer and a pointer to an entry is its   *)
(* offset.  Everything a function does while it holds queueMutex is one    *)
(* action; between two actions the other threads run.  The enqueuer is     *)
(* always the holder of the client's cmdMutex, so there is one; the        *)
(* readers are any threads, of which dequeueMutex admits one at a time.    *)
(***************************************************************************)
EXTENDS Integers, Sequences, FiniteSets

CONSTANTS
  Urc,         \* the URC lines that can be received
  NoUrc,       \* what a byte holds that was never written
  LineLen,     \* the length of each line
  Thread,      \* the threads that call processUrcs()
  NoThread,    \* dequeueMutex is free
  BufferLen,   \* bufferLen
  StartPos,    \* startPos: 1 when pBuffer has an odd address
  UINT16_MAX   \* the largest line or payload length of an entry header

ASSUME UrcAssumption ==
  /\ NoUrc \notin Urc
  /\ LineLen \in [Urc -> Nat]

ASSUME ThreadAssumption == NoThread \notin Thread

ASSUME BufferAssumption ==
  /\ BufferLen \in Nat
  /\ StartPos \in {0, 1}
  /\ StartPos <= BufferLen
  /\ UINT16_MAX \in Nat

VARIABLES
  readPos, writePos, usedBytes, wrapPos, enqueueCapacity, isWrapped,
  pEnqueueEntry, \* the entry being written, or NULL
  pDequeueEntry, \* the entry being processed, or NULL
  mem,           \* the bytes of pBuffer
  dequeueMutex,  \* the thread that holds dequeueMutex
  stage,         \* how far the holder of dequeueMutex is
  pEntry,        \* its local variable pEntry
  payloadLen,    \* how much payload was stored after the entry being written
  chain          \* history: the committed entries, where and what they are

ring == <<readPos, writePos, usedBytes, wrapPos, isWrapped>>
reading == <<pDequeueEntry, dequeueMutex, stage, pEntry>>
vars == <<ring, enqueueCapacity, pEnqueueEntry, mem, payloadLen, reading, chain>>

NULL == -1
HeaderSize == 4                  \* sizeof(uUrcEntry_t)
Align(n) == n + (n % 2)           \* U_URC_ALIGN_SIZE

Offset == 0 .. BufferLen - 1

\* A byte knows the URC it belongs to; the two lengths are those of the
\* header when the byte is the first one of an entry.
Cell == [urc : Urc \union {NoUrc}, strLineLen : Nat, payloadSize : Nat]
Header(u) == [urc |-> u, strLineLen |-> LineLen[u], payloadSize |-> 0]
Data(u) == [urc |-> u, strLineLen |-> 0, payloadSize |-> 0]
Blank == Data(NoUrc)

PrefixSize(line) == HeaderSize + line + 1

Init ==
  /\ readPos = StartPos
  /\ writePos = StartPos
  /\ usedBytes = 0
  /\ wrapPos = BufferLen
  /\ isWrapped = FALSE
  /\ enqueueCapacity = 0
  /\ pEnqueueEntry = NULL
  /\ pDequeueEntry = NULL
  /\ mem = [o \in Offset |-> Blank]
  /\ dequeueMutex = NoThread
  /\ stage = "idle"
  /\ pEntry = NULL
  /\ payloadLen = 0
  /\ chain = <<>>

-----------------------------------------------------------------------------
(* Writing                                                                 *)

\* The space after the last entry and the space before the first one.
TailSpace(w) == BufferLen - w

HeadSpaceFromZero(r) == r
HeadSpace(r) == r - StartPos

\* An empty queue starts over at startPos.
ReadPos0 == IF usedBytes = 0 THEN StartPos ELSE readPos

WritePos0AtZero == IF usedBytes = 0 THEN 0 ELSE writePos
WritePos0 == IF usedBytes = 0 THEN StartPos ELSE writePos

WrapPos0 == IF usedBytes = 0 THEN BufferLen ELSE wrapPos
IsWrapped0 == usedBytes > 0 /\ isWrapped

\* An entry goes behind the last one when that is where it fits, unless the
\* space before the first one is larger.
FitsWrapped(size) == IsWrapped0 /\ size <= ReadPos0 - WritePos0

FitsHeadOverlapping(size) == ~IsWrapped0 /\ size <= HeadSpace(ReadPos0) + 1
FitsHead(size) == ~IsWrapped0 /\ size <= HeadSpace(ReadPos0)

FitsTail(size) == ~IsWrapped0 /\ size <= TailSpace(WritePos0)

HeadIsLarger == HeadSpace(ReadPos0) > TailSpace(WritePos0)

PlaceAtWritePos(size) ==
  \/ FitsWrapped(size)
  \/ FitsTail(size) /\ ~(HeadIsLarger /\ FitsHead(size))
PlaceAtStart(size) ==
  FitsHead(size) /\ (HeadIsLarger \/ ~FitsTail(size))

HasRoom(size) ==
  /\ size <= BufferLen - usedBytes
  /\ PlaceAtWritePos(size) \/ PlaceAtStart(size)

\* The room for the payload ends with the buffer or at the first entry.
RoomEndOfBuffer(rd, wrapped) == BufferLen
RoomEnd(rd, wrapped) == IF wrapped THEN rd ELSE BufferLen

\* The entry's header and line are written at off and the queue holds them.
Place(u, off, size, rd, wrapped) ==
  /\ mem' = [o \in Offset |->
               IF o = off THEN Header(u)
               ELSE IF off < o /\ o < off + size THEN Data(u)
               ELSE mem[o]]
  /\ writePos' = off + size
  /\ usedBytes' = usedBytes + size
  /\ enqueueCapacity' = RoomEnd(rd, wrapped) - (off + size)
  /\ pEnqueueEntry' = off

\* uCxAtUrcQueueEnqueueBegin() when it returns true
EnqueueBegin(u) ==
  LET size == PrefixSize(LineLen[u])
  IN  /\ pEnqueueEntry = NULL
      /\ LineLen[u] <= UINT16_MAX
      /\ HasRoom(size)
      /\ readPos' = ReadPos0
      /\ IF PlaceAtStart(size)
         THEN /\ Place(u, StartPos, size, ReadPos0, TRUE)
              /\ wrapPos' = WritePos0
              /\ isWrapped' = TRUE
         ELSE /\ Place(u, WritePos0, size, ReadPos0, IsWrapped0)
              /\ wrapPos' = WrapPos0
              /\ isWrapped' = IsWrapped0
      /\ payloadLen' = 0
      /\ UNCHANGED <<reading, chain>>

\* It returns false, and the URC is dropped, when the line is too long or there
\* is no room for it; an empty queue may have started over by then.
StartsOver(size) == usedBytes = 0 /\ size <= BufferLen

EnqueueDrop(u) ==
  LET size == PrefixSize(LineLen[u])
  IN  /\ pEnqueueEntry = NULL
      /\ ~(LineLen[u] <= UINT16_MAX /\ HasRoom(size))
      /\ IF LineLen[u] <= UINT16_MAX /\ StartsOver(size)
         THEN /\ readPos' = StartPos
              /\ writePos' = StartPos
              /\ wrapPos' = BufferLen
              /\ isWrapped' = FALSE
         ELSE UNCHANGED <<readPos, writePos, wrapPos, isWrapped>>
      /\ UNCHANGED <<usedBytes, enqueueCapacity, pEnqueueEntry, mem, payloadLen,
                     reading, chain>>

\* uCxAtUrcQueueEnqueueGetPayloadPtr(): no lock is taken.
PayloadCapacity ==
  IF enqueueCapacity > UINT16_MAX THEN UINT16_MAX ELSE enqueueCapacity

\* The client stores received bytes at the payload pointer, up to n of them.
FillPayload(n) ==
  /\ pEnqueueEntry # NULL
  /\ payloadLen < n
  /\ n <= PayloadCapacity
  /\ LET u == mem[pEnqueueEntry].urc
         first == pEnqueueEntry + PrefixSize(mem[pEnqueueEntry].strLineLen)
     IN  mem' = [o \in Offset |->
                   IF first + payloadLen <= o /\ o < first + n
                   THEN Data(u) ELSE mem[o]]
  /\ payloadLen' = n
  /\ UNCHANGED <<ring, enqueueCapacity, pEnqueueEntry, reading, chain>>

\* What the payload and the alignment add to an entry.
AdditionalSizeUnaligned(prefix, payload, capacity) == payload
AdditionalSize(prefix, payload, capacity) ==
  IF Align(prefix + payload) - prefix > capacity
  THEN payload
  ELSE Align(prefix + payload) - prefix

\* The length of the payload in the entry's header
WithoutPayloadSize(m) == m
WithPayloadSize(m) == [m EXCEPT ![pEnqueueEntry].payloadSize = payloadLen]

\* uCxAtUrcQueueEnqueueEnd(payloadLen)
EnqueueEnd ==
  /\ pEnqueueEntry # NULL
  /\ LET prefix == PrefixSize(mem[pEnqueueEntry].strLineLen)
         extra == AdditionalSize(prefix, payloadLen, enqueueCapacity)
     IN  /\ writePos' = writePos + extra
         /\ usedBytes' = usedBytes + extra
         /\ chain' = Append(chain,
                       [off |-> pEnqueueEntry,
                        end |-> pEnqueueEntry + prefix + extra,
                        urc |-> mem[pEnqueueEntry].urc,
                        payloadSize |-> payloadLen])
  /\ mem' = WithPayloadSize(mem)
  /\ enqueueCapacity' = 0
  /\ pEnqueueEntry' = NULL
  /\ payloadLen' = 0
  /\ UNCHANGED <<readPos, wrapPos, isWrapped, reading>>

\* What an entry that is being written has taken from the queue so far
BegunSizeWithoutNul == HeaderSize + mem[pEnqueueEntry].strLineLen
BegunSize == PrefixSize(mem[pEnqueueEntry].strLineLen)

\* uCxAtUrcQueueEnqueueAbort(): the payload is too large or never came.
EnqueueAbort ==
  /\ pEnqueueEntry # NULL
  /\ usedBytes' = usedBytes - BegunSize
  /\ IF pEnqueueEntry = StartPos /\ isWrapped
     THEN /\ writePos' = wrapPos
          /\ wrapPos' = BufferLen
          /\ isWrapped' = FALSE
     ELSE /\ writePos' = pEnqueueEntry
          /\ UNCHANGED <<wrapPos, isWrapped>>
  /\ enqueueCapacity' = 0
  /\ pEnqueueEntry' = NULL
  /\ payloadLen' = 0
  /\ UNCHANGED <<readPos, mem, reading, chain>>

-----------------------------------------------------------------------------
(* Reading.  A thread that fails the try-lock gets NULL and leaves.         *)

\* uCxAtUrcQueueDequeueBegin() up to the assertion
DequeueTryLock(t) ==
  /\ dequeueMutex = NoThread
  /\ dequeueMutex' = t
  /\ stage' = "locked"
  /\ UNCHANGED <<ring, enqueueCapacity, pEnqueueEntry, mem, payloadLen,
                 pDequeueEntry, pEntry, chain>>

\* A half written entry hides them all.
Visible == usedBytes > 0 /\ pEnqueueEntry = NULL

\* The critical section of queueMutex
DequeueLook(t) ==
  /\ dequeueMutex = t
  /\ stage = "locked"
  /\ pEntry' = IF Visible THEN readPos ELSE NULL
  /\ stage' = "looked"
  /\ UNCHANGED <<ring, enqueueCapacity, pEnqueueEntry, mem, payloadLen,
                 pDequeueEntry, dequeueMutex, chain>>

\* The entry goes to the caller, with dequeueMutex held ...
DequeueTake(t) ==
  /\ dequeueMutex = t
  /\ stage = "looked"
  /\ pEntry # NULL
  /\ pDequeueEntry' = pEntry
  /\ stage' = "processing"
  /\ UNCHANGED <<ring, enqueueCapacity, pEnqueueEntry, mem, payloadLen,
                 dequeueMutex, pEntry, chain>>

\* ... or there is none and dequeueMutex is released.
DequeueNone(t) ==
  /\ dequeueMutex = t
  /\ stage = "looked"
  /\ pEntry = NULL
  /\ dequeueMutex' = NoThread
  /\ stage' = "idle"
  /\ UNCHANGED <<ring, enqueueCapacity, pEnqueueEntry, mem, payloadLen,
                 pDequeueEntry, pEntry, chain>>

\* The size of the first entry: aligned unless that leaves its segment.
EntrySizeUnpadded(off) ==
  PrefixSize(mem[off].strLineLen) + mem[off].payloadSize
EntrySize(off) ==
  LET raw == PrefixSize(mem[off].strLineLen) + mem[off].payloadSize
      segmentEnd == IF isWrapped THEN wrapPos ELSE BufferLen
  IN  IF off + Align(raw) > segmentEnd THEN raw ELSE Align(raw)

\* The entry is the last one before the end of a wrapped ring.
AtWrapNever(size) == FALSE
AtWrap(size) == isWrapped /\ readPos + size = wrapPos

\* uCxAtUrcQueueDequeueEnd(), the critical section of queueMutex
DequeueEnd(t) ==
  LET size == EntrySize(pEntry)
      drained == usedBytes = size
      atWrap == AtWrap(size)
  IN  /\ dequeueMutex = t
      /\ stage = "processing"
      /\ usedBytes' = usedBytes - size
      /\ readPos' = IF drained \/ atWrap THEN StartPos ELSE readPos + size
      /\ writePos' = IF drained THEN StartPos ELSE writePos
      /\ wrapPos' = IF drained \/ atWrap THEN BufferLen ELSE wrapPos
      /\ isWrapped' = (isWrapped /\ ~drained /\ ~atWrap)
      /\ stage' = "ended"
      /\ chain' = Tail(chain)
      /\ UNCHANGED <<enqueueCapacity, pEnqueueEntry, mem, payloadLen,
                     pDequeueEntry, dequeueMutex, pEntry>>

\* The rest of it, after queueMutex is released
DequeueRelease(t) ==
  /\ dequeueMutex = t
  /\ stage = "ended"
  /\ pDequeueEntry' = NULL
  /\ pEntry' = NULL
  /\ dequeueMutex' = NoThread
  /\ stage' = "idle"
  /\ UNCHANGED <<ring, enqueueCapacity, pEnqueueEntry, mem, payloadLen, chain>>

Enqueuer == \/ \E u \in Urc : EnqueueBegin(u)
            \/ \E u \in Urc : EnqueueDrop(u)
            \/ \E n \in 1 .. BufferLen : FillPayload(n)
            \/ EnqueueEnd
            \/ EnqueueAbort

Reader(t) == \/ DequeueTryLock(t)
             \/ DequeueLook(t)
             \/ DequeueTake(t)
             \/ DequeueNone(t)
             \/ DequeueEnd(t)
             \/ DequeueRelease(t)

Next == Enqueuer \/ \E t \in Thread : Reader(t)

Spec == Init /\ [][Next]_vars

-----------------------------------------------------------------------------
(* Properties                                                              *)

ChainEntry == [off : Offset, end : 0 .. BufferLen,
               urc : Urc, payloadSize : 0 .. UINT16_MAX]

\* Type invariant.  No position leaves the buffer and no size_t difference
\* of the code goes below zero.
TypeOK ==
  /\ readPos \in StartPos .. BufferLen
  /\ writePos \in StartPos .. BufferLen
  /\ wrapPos \in StartPos .. BufferLen
  /\ usedBytes \in 0 .. BufferLen
  /\ enqueueCapacity \in 0 .. BufferLen
  /\ isWrapped \in BOOLEAN
  /\ pEnqueueEntry \in Offset \union {NULL}
  /\ pDequeueEntry \in Offset \union {NULL}
  /\ pEntry \in Offset \union {NULL}
  /\ mem \in [Offset -> Cell]
  /\ dequeueMutex \in Thread \union {NoThread}
  /\ stage \in {"idle", "locked", "looked", "processing", "ended"}
  /\ payloadLen \in 0 .. UINT16_MAX
  /\ chain \in Seq(ChainEntry)

\* The bytes of a committed entry, and those the pending one may still use.
RawEnd(e) == e.off + PrefixSize(LineLen[e.urc]) + e.payloadSize
LiveBytes(e) == e.off .. e.end - 1
PendingBytes ==
  IF pEnqueueEntry = NULL THEN {} ELSE pEnqueueEntry .. writePos - 1
PayloadBytes ==
  IF pEnqueueEntry = NULL THEN {} ELSE writePos .. writePos + enqueueCapacity - 1

\* The memory still holds entry e as it was received.
Intact(e) ==
  /\ mem[e.off] = [urc |-> e.urc, strLineLen |-> LineLen[e.urc],
                   payloadSize |-> e.payloadSize]
  /\ \A o \in e.off + 1 .. RawEnd(e) - 1 : mem[o] = Data(e.urc)

\* No committed URC is overwritten before it is removed, the one that a
\* callback is reading included, whatever the enqueuer writes meanwhile
\* (header, line and payload), wherever the ring wraps.
EntriesIntact == \A i \in 1 .. Len(chain) : Intact(chain[i])

\* The room that uCxAtUrcQueueEnqueueGetPayloadPtr() offers to the client
\* holds no byte of a live entry and ends inside the buffer.
PayloadRoomIsFree ==
  /\ PayloadBytes \subseteq Offset
  /\ \A i \in 1 .. Len(chain) : PayloadBytes \cap LiveBytes(chain[i]) = {}

\* usedBytes is exactly the number of bytes that entries occupy, so an
\* entry, a pad byte or an abort never leaks space and none is counted twice.
UsedBytesExact ==
  usedBytes = Cardinality(PendingBytes \union
                          UNION {LiveBytes(chain[i]) : i \in 1 .. Len(chain)})

\* Headers are accessed through a uUrcEntry_t pointer: each lies on an even
\* address (startPos makes up for a buffer with an odd one).
HeadersAligned ==
  /\ \A i \in 1 .. Len(chain) : (chain[i].off - StartPos) % 2 = 0
  /\ pEnqueueEntry # NULL => (pEnqueueEntry - StartPos) % 2 = 0

\* Once everything was processed the whole buffer can be used again, however
\* the ring was left by wraps and aborts.
NoSpaceLeak ==
  chain = <<>> /\ pEnqueueEntry = NULL => HasRoom(BufferLen - StartPos)

\* The assertion in uCxAtUrcQueueEnqueueEnd(): what the payload adds fits in
\* the room that was set aside when the entry was begun.
PayloadFits ==
  pEnqueueEntry # NULL =>
    AdditionalSize(PrefixSize(mem[pEnqueueEntry].strLineLen),
                   payloadLen, enqueueCapacity) <= enqueueCapacity

\* What a reader holds is the oldest URC, unmoved, until it removes it.
ReaderHoldsFirst ==
  (stage = "looked" /\ pEntry # NULL) \/ stage = "processing" =>
    /\ chain # <<>>
    /\ pEntry = chain[1].off
    /\ pEntry = readPos

\* The queue is the FIFO that the client relies on.  What the reader gets is
\* what the memory says at the pointer it was given.
Fifo == INSTANCE UrcFifo WITH
  PayloadSize <- 0 .. UINT16_MAX,
  queue <- [i \in 1 .. Len(chain) |->
              [urc |-> chain[i].urc, payloadSize |-> chain[i].payloadSize]],
  pending <- IF pEnqueueEntry = NULL THEN NoUrc ELSE mem[pEnqueueEntry].urc,
  reader <- IF stage \in {"looked", "processing"} /\ pEntry # NULL
            THEN <<[urc |-> mem[pEntry].urc,
                    payloadSize |-> mem[pEntry].payloadSize]>>
            ELSE <<>>

\* Every behaviour of the ring is one of the FIFO: URCs come out once, whole,
\* in the order they were committed, and an aborted one never does.
FifoSpec == Fifo!Spec

-----------------------------------------------------------------------------
(* Why it works: an inductive invariant                                    *)

\* Where the committed entries end.
WriteBase == IF pEnqueueEntry = NULL THEN writePos ELSE pEnqueueEntry
SegmentEnd == IF isWrapped THEN wrapPos ELSE BufferLen
Even(o) == (o - StartPos) % 2 = 0
RawSize(e) == PrefixSize(LineLen[e.urc]) + e.payloadSize

\* Only an entry that ends with the buffer may lack its pad byte.
EntryShape ==
  \A i \in 1 .. Len(chain) :
    LET e == chain[i]
    IN  /\ StartPos <= e.off
        /\ Even(e.off)
        /\ LineLen[e.urc] <= UINT16_MAX
        /\ \/ e.end = e.off + Align(RawSize(e))
           \/ e.end = e.off + RawSize(e) /\ e.end = BufferLen

\* The entries lie between the read and the write position, in a wrapped ring
\* around its end ...
EntryBounds ==
  \A i \in 1 .. Len(chain) :
    \/ readPos <= chain[i].off
       /\ chain[i].end <= (IF isWrapped THEN wrapPos ELSE WriteBase)
    \/ isWrapped /\ chain[i].end <= WriteBase

\* ... in the order in which they came ...
EntryOrder ==
  \A i, j \in 1 .. Len(chain) : i < j =>
    \/ chain[i].end <= chain[j].off
    \/ isWrapped /\ readPos <= chain[i].off /\ chain[j].end <= WriteBase

\* ... and without gaps.
Consecutive(end, off) ==
  \/ off = end
  \/ isWrapped /\ end = wrapPos /\ off = StartPos

Linked ==
  /\ \A i \in 1 .. Len(chain) - 1 : Consecutive(chain[i].end, chain[i + 1].off)
  /\ chain # <<>> => /\ chain[1].off = readPos
                     /\ Consecutive(chain[Len(chain)].end, WriteBase)
  /\ chain = <<>> => ~isWrapped /\ readPos = WriteBase

Positions ==
  /\ IF isWrapped THEN writePos <= readPos /\ readPos < wrapPos
                  ELSE readPos <= writePos /\ wrapPos = BufferLen
  /\ usedBytes = IF isWrapped THEN (wrapPos - readPos) + (writePos - StartPos)
                              ELSE writePos - readPos
  /\ Even(readPos) \/ usedBytes = 0
  /\ Even(WriteBase) \/ WriteBase = BufferLen

\* The entry that is being written, and the room that was set aside for it.
PendingShape ==
  pEnqueueEntry # NULL =>
    LET u == mem[pEnqueueEntry].urc
        roomEnd == writePos + enqueueCapacity
    IN  /\ u \in Urc
        /\ mem[pEnqueueEntry] = Header(u)
        /\ LineLen[u] <= UINT16_MAX
        /\ StartPos <= pEnqueueEntry
        /\ Even(pEnqueueEntry)
        /\ writePos = pEnqueueEntry + PrefixSize(LineLen[u])
        /\ payloadLen <= enqueueCapacity
        /\ roomEnd <= (IF isWrapped THEN readPos ELSE BufferLen)
        /\ Even(roomEnd) \/ roomEnd = BufferLen
        /\ \A o \in pEnqueueEntry + 1 .. writePos + payloadLen - 1 :
             mem[o] = Data(u)

\* dequeueMutex protects the reader's part.
ReaderShape ==
  /\ (dequeueMutex = NoThread) <=> (stage = "idle")
  /\ stage \in {"idle", "locked"} => pEntry = NULL
  /\ stage \in {"idle", "locked", "looked"} => pDequeueEntry = NULL
  /\ stage = "processing" => pEntry # NULL /\ pDequeueEntry = pEntry

Inv ==
  /\ TypeOK
  /\ EntryShape
  /\ EntryBounds
  /\ EntryOrder
  /\ Linked
  /\ Positions
  /\ PendingShape
  /\ ReaderShape
  /\ ReaderHoldsFirst
  /\ EntriesIntact
=============================================================================
