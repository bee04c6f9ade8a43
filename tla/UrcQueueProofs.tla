--------------------------- MODULE UrcQueueProofs ---------------------------
(***************************************************************************)
(* The layout of the URC queue's ring is correct for every buffer, every   *)
(* set of lines and any number of threads.  The invariant Inv of UrcQueue  *)
(* is inductive, and the properties that the runs check follow from it.    *)
(* What the shape of the ring means to its user comes last: usedBytes      *)
(* counts the bytes of the entries and no others, and the ring behaves     *)
(* like the FIFO of UrcFifo.                                               *)
(***************************************************************************)
EXTENDS UrcQueue, FiniteSetTheorems, WellFoundedInduction, TLAPS

USE UrcAssumption, ThreadAssumption, BufferAssumption


layout == <<ring, enqueueCapacity, pEnqueueEntry, mem, payloadLen, chain>>

\* The part of Inv that speaks of the ring.
Layout == /\ EntryShape
          /\ EntryBounds
          /\ EntryOrder
          /\ Linked
          /\ Positions
          /\ PendingShape
          /\ EntriesIntact

LayoutTypes ==
  /\ readPos \in StartPos .. BufferLen
  /\ writePos \in StartPos .. BufferLen
  /\ wrapPos \in StartPos .. BufferLen
  /\ usedBytes \in 0 .. BufferLen
  /\ enqueueCapacity \in 0 .. BufferLen
  /\ isWrapped \in BOOLEAN
  /\ pEnqueueEntry \in Offset \union {NULL}
  /\ mem \in [Offset -> Cell]
  /\ payloadLen \in 0 .. UINT16_MAX
  /\ chain \in Seq(ChainEntry)

ReaderTypes ==
  /\ pDequeueEntry \in Offset \union {NULL}
  /\ pEntry \in Offset \union {NULL}
  /\ dequeueMutex \in Thread \union {NoThread}
  /\ stage \in {"idle", "locked", "looked", "processing", "ended"}

\* What the inductive invariant consists of.
LEMMA InvParts ==
  Inv <=> LayoutTypes /\ ReaderTypes /\ Layout /\ ReaderShape /\ ReaderHoldsFirst
BY DEF Inv, TypeOK, LayoutTypes, ReaderTypes, Layout

\* What a step that does not touch the ring keeps.
LEMMA LayoutUnchanged ==
  ASSUME LayoutTypes, Layout, UNCHANGED layout
  PROVE  LayoutTypes' /\ Layout'
<1>1. LayoutTypes'
  BY DEF LayoutTypes, layout, ring
<1>2. EntryShape' /\ EntryBounds' /\ EntryOrder' /\ EntriesIntact'
  BY DEF Layout, layout, ring, EntryShape, EntryBounds, EntryOrder, EntriesIntact,
         Intact, WriteBase, SegmentEnd
<1>3. Linked' /\ Positions'
  BY DEF Layout, layout, ring, Linked, Positions, Consecutive, WriteBase
<1>4. PendingShape'
  BY DEF Layout, layout, ring, PendingShape
<1> QED
  BY <1>1, <1>2, <1>3, <1>4 DEF Layout

\* U_CX_ALIGN2 rounds up to an even number, by one at most.
LEMMA AlignBounds ==
  ASSUME NEW n \in Nat
  PROVE  /\ Align(n) \in Nat
         /\ Align(n) = n \/ Align(n) = n + 1
         /\ Align(n) % 2 = 0
         /\ Align(n) = n + 1 => n % 2 = 1
BY DEF Align

\* An even distance from an even position is an even position.
LEMMA EvenShift ==
  ASSUME NEW o \in Int, NEW n \in Nat, Even(o)
  PROVE  /\ Even(o + Align(n))
         /\ Align(n) # n => ~Even(o + n)
BY DEF Align, Even

\* uCxAtUrcQueueInit() makes an empty ring.
LEMMA InitInv == Init => Inv
<1> SUFFICES ASSUME Init PROVE Inv
  OBVIOUS
<1>1. TypeOK
  <2>1. mem \in [Offset -> Cell]
    <3>1. Blank \in Cell
      BY DEF Blank, Data, Cell
    <3> QED
      BY <3>1 DEF Init
  <2>2. chain \in Seq(ChainEntry)
    BY DEF Init
  <2>3. /\ readPos \in StartPos .. BufferLen
        /\ writePos \in StartPos .. BufferLen
        /\ wrapPos \in StartPos .. BufferLen
        /\ usedBytes \in 0 .. BufferLen
        /\ enqueueCapacity \in 0 .. BufferLen
        /\ payloadLen \in 0 .. UINT16_MAX
    BY DEF Init
  <2>4. isWrapped \in BOOLEAN
    BY DEF Init
  <2>5. ReaderTypes
    BY DEF Init, ReaderTypes
  <2> QED
    BY <2>1, <2>2, <2>3, <2>4, <2>5 DEF Init, TypeOK, ReaderTypes
<1>2. EntryShape /\ EntryBounds /\ EntryOrder /\ EntriesIntact
  BY DEF Init, EntryShape, EntryBounds, EntryOrder, EntriesIntact
<1>3. Linked /\ Positions /\ PendingShape
  BY DEF Init, Linked, Positions, PendingShape, WriteBase, NULL, Even
<1>4. ReaderShape /\ ReaderHoldsFirst
  BY DEF Init, ReaderShape, ReaderHoldsFirst
<1> QED
  BY <1>1, <1>2, <1>3, <1>4 DEF Inv

-----------------------------------------------------------------------------
(* Facts about the ring                                                     *)

\* The types of what the chain holds.
LEMMA ChainTypes ==
  ASSUME LayoutTypes
  PROVE  /\ Len(chain) \in Nat
         /\ \A i \in 1 .. Len(chain) :
              /\ chain[i].off \in Nat /\ chain[i].off < BufferLen
              /\ chain[i].end \in Nat /\ chain[i].end <= BufferLen
              /\ chain[i].urc \in Urc
              /\ chain[i].payloadSize \in Nat
              /\ chain[i].payloadSize <= UINT16_MAX
              /\ LineLen[chain[i].urc] \in Nat
              /\ RawSize(chain[i]) \in Nat
              /\ RawSize(chain[i]) >= 5
<1>1. \A i \in 1 .. Len(chain) : chain[i] \in ChainEntry
  BY DEF LayoutTypes
<1>2. Len(chain) \in Nat
  BY DEF LayoutTypes
<1> QED
  BY <1>1, <1>2 DEF ChainEntry, Offset, RawSize, PrefixSize, HeaderSize

\* An entry has at least its header, and lies in the buffer.
LEMMA EntryExtent ==
  ASSUME LayoutTypes, EntryShape, NEW i \in 1 .. Len(chain)
  PROVE  /\ chain[i].off + RawSize(chain[i]) <= chain[i].end
         /\ chain[i].off < chain[i].end
         /\ StartPos <= chain[i].off
         /\ Even(chain[i].end) \/ chain[i].end = BufferLen
<1>1. /\ chain[i].off \in Nat /\ RawSize(chain[i]) \in Nat
      /\ RawSize(chain[i]) >= 5
  BY ChainTypes
<1>2. Align(RawSize(chain[i])) \in Nat /\ Align(RawSize(chain[i])) >= RawSize(chain[i])
  BY <1>1, AlignBounds
<1>3. Even(chain[i].off + Align(RawSize(chain[i])))
  BY <1>1, EvenShift DEF EntryShape
<1> QED
  BY <1>1, <1>2, <1>3 DEF EntryShape

\* The first entry is in the segment that is read.
LEMMA FirstEntry ==
  ASSUME LayoutTypes, Layout, chain # <<>>
  PROVE  /\ Len(chain) >= 1
         /\ chain[1].off = readPos
         /\ chain[1].end <= SegmentEnd
         /\ usedBytes > 0
<1>1. Len(chain) \in Nat /\ Len(chain) >= 1
  BY DEF LayoutTypes
<1>2. 1 \in 1 .. Len(chain)
  BY <1>1
<1>3. chain[1].off = readPos
  BY DEF Layout, Linked
<1>4. chain[1].off < chain[1].end
  BY <1>2, EntryExtent DEF Layout
<1>5. chain[1].end \in Nat /\ chain[1].end <= BufferLen
  BY <1>2, ChainTypes
<1>6. WriteBase \in Int /\ WriteBase <= writePos
  <2>1. CASE pEnqueueEntry = NULL
    BY <2>1 DEF WriteBase, LayoutTypes
  <2>2. CASE pEnqueueEntry # NULL
    <3>1. mem[pEnqueueEntry].urc \in Urc
      BY <2>2 DEF Layout, PendingShape
    <3> QED
      BY <2>2, <3>1 DEF WriteBase, LayoutTypes, Layout, PendingShape, PrefixSize,
                        HeaderSize, Offset, NULL
  <2> QED
    BY <2>1, <2>2
<1>7. \/ chain[1].end <= (IF isWrapped THEN wrapPos ELSE WriteBase)
      \/ isWrapped /\ chain[1].end <= WriteBase
  BY <1>2 DEF Layout, EntryBounds
<1>8. CASE isWrapped
  BY <1>1, <1>3, <1>4, <1>5, <1>6, <1>7, <1>8
     DEF LayoutTypes, Layout, Positions, SegmentEnd
<1>9. CASE ~isWrapped
  BY <1>1, <1>3, <1>4, <1>5, <1>6, <1>7, <1>9
     DEF LayoutTypes, Layout, Positions, SegmentEnd
<1> QED
  BY <1>8, <1>9 DEF LayoutTypes

\* The size that uCxAtUrcQueueDequeueEnd() computes from the header is the one
\* that the entry took.
LEMMA SizeOfFirst ==
  ASSUME LayoutTypes, Layout, chain # <<>>
  PROVE  EntrySize(readPos) = chain[1].end - readPos
<1> DEFINE e == chain[1]
<1>1. /\ 1 \in 1 .. Len(chain) /\ e.off = readPos /\ e.end <= SegmentEnd
  BY FirstEntry, ChainTypes
<1>2. /\ mem[readPos].strLineLen = LineLen[e.urc]
      /\ mem[readPos].payloadSize = e.payloadSize
  <2>1. Intact(e)
    BY <1>1 DEF Layout, EntriesIntact
  <2>2. mem[readPos] = [urc |-> e.urc, strLineLen |-> LineLen[e.urc],
                        payloadSize |-> e.payloadSize]
    BY <1>1, <2>1 DEF Intact
  <2> QED
    BY <2>2
<1>3. /\ e.off \in Nat /\ e.end \in Nat /\ RawSize(e) \in Nat
  BY <1>1, ChainTypes
<1>4. /\ Align(RawSize(e)) \in Nat
      /\ Align(RawSize(e)) = RawSize(e) \/ Align(RawSize(e)) = RawSize(e) + 1
  BY <1>3, AlignBounds
<1>5. SegmentEnd \in Nat /\ SegmentEnd <= BufferLen
  BY DEF SegmentEnd, LayoutTypes
<1>6. \/ e.end = e.off + Align(RawSize(e))
      \/ e.end = e.off + RawSize(e) /\ e.end = BufferLen
  BY <1>1 DEF Layout, EntryShape
<1>7. EntrySize(readPos) = IF readPos + Align(RawSize(e)) > SegmentEnd
                           THEN RawSize(e) ELSE Align(RawSize(e))
  BY <1>2 DEF EntrySize, RawSize, SegmentEnd
<1> QED
  BY <1>1, <1>3, <1>4, <1>5, <1>6, <1>7

-----------------------------------------------------------------------------
(* The steps of a reader                                                    *)

\* A step of a reader that leaves the ring alone.
LEMMA ReaderStep ==
  ASSUME Inv, UNCHANGED layout, ReaderTypes', ReaderShape', ReaderHoldsFirst'
  PROVE  Inv'
<1>1. LayoutTypes' /\ Layout'
  BY InvParts, LayoutUnchanged
<1> QED
  BY <1>1 DEF Inv, TypeOK, LayoutTypes, ReaderTypes, Layout

\* Taking the dequeue mutex leaves the ring alone.
LEMMA TryLockInv ==
  ASSUME Inv, NEW t \in Thread, DequeueTryLock(t)
  PROVE  Inv'
<1> USE DEF DequeueTryLock
<1>1. UNCHANGED layout
  BY DEF layout
<1>2. ReaderTypes' /\ ReaderShape' /\ ReaderHoldsFirst'
  BY InvParts DEF ReaderTypes, ReaderShape, ReaderHoldsFirst
<1> QED
  BY <1>1, <1>2, ReaderStep

\* Under the queue mutex the reader finds the oldest entry, or none.
LEMMA LookInv ==
  ASSUME Inv, NEW t \in Thread, DequeueLook(t)
  PROVE  Inv'
<1> USE DEF DequeueLook, Visible
<1>1. UNCHANGED layout
  BY DEF layout
<1>2. ReaderShape'
  BY InvParts DEF ReaderShape, ReaderTypes
<1>3. CASE usedBytes > 0 /\ pEnqueueEntry = NULL
  <2>1. chain # <<>>
    BY <1>3, InvParts DEF Layout, Linked, Positions, WriteBase, LayoutTypes
  <2>2. chain[1].off = readPos /\ readPos \in Offset
    <3>1. Len(chain) >= 1 /\ Len(chain) \in Nat /\ chain[1].off = readPos
      BY <2>1, InvParts, FirstEntry, ChainTypes
    <3>2. chain[1].off \in Nat /\ chain[1].off < BufferLen
      BY <3>1, InvParts, ChainTypes
    <3> QED
      BY <3>1, <3>2 DEF Offset
  <2>3. pEntry' = readPos
    BY <1>3
  <2>4. ReaderTypes'
    BY <2>2, <2>3, InvParts DEF ReaderTypes
  <2>5. ReaderHoldsFirst'
    BY <2>1, <2>2, <2>3, <1>1 DEF ReaderHoldsFirst, layout, ring
  <2> QED
    BY <1>1, <1>2, <2>4, <2>5, ReaderStep
<1>4. CASE ~(usedBytes > 0 /\ pEnqueueEntry = NULL)
  <2>1. pEntry' = NULL
    BY <1>4
  <2>2. ReaderTypes' /\ ReaderHoldsFirst'
    BY <2>1, InvParts DEF ReaderTypes, ReaderHoldsFirst
  <2> QED
    BY <1>1, <1>2, <2>2, ReaderStep
<1> QED
  BY <1>3, <1>4

\* The reader hands the entry it found to the callback.
LEMMA TakeInv ==
  ASSUME Inv, NEW t \in Thread, DequeueTake(t)
  PROVE  Inv'
<1> USE DEF DequeueTake
<1>1. UNCHANGED layout
  BY DEF layout
<1>2. ReaderTypes' /\ ReaderShape'
  BY InvParts DEF ReaderTypes, ReaderShape
<1>3. ReaderHoldsFirst'
  BY <1>1, InvParts DEF ReaderHoldsFirst, layout, ring
<1> QED
  BY <1>1, <1>2, <1>3, ReaderStep

\* The reader found nothing and gives the dequeue mutex back.
LEMMA NoneInv ==
  ASSUME Inv, NEW t \in Thread, DequeueNone(t)
  PROVE  Inv'
<1> USE DEF DequeueNone
<1>1. UNCHANGED layout
  BY DEF layout
<1>2. ReaderTypes' /\ ReaderShape' /\ ReaderHoldsFirst'
  BY InvParts DEF ReaderTypes, ReaderShape, ReaderHoldsFirst
<1> QED
  BY <1>1, <1>2, ReaderStep

\* The reader gives the dequeue mutex back.
LEMMA ReleaseInv ==
  ASSUME Inv, NEW t \in Thread, DequeueRelease(t)
  PROVE  Inv'
<1> USE DEF DequeueRelease
<1>1. UNCHANGED layout
  BY DEF layout
<1>2. ReaderTypes' /\ ReaderShape' /\ ReaderHoldsFirst'
  BY InvParts DEF ReaderTypes, ReaderShape, ReaderHoldsFirst, NULL
<1> QED
  BY <1>1, <1>2, ReaderStep

-----------------------------------------------------------------------------
(* Removing an entry                                                        *)

\* The write side: where the committed entries end, and the pending entry.
LEMMA WriteBaseBounds ==
  ASSUME LayoutTypes, Layout
  PROVE  /\ WriteBase \in Int
         /\ StartPos <= WriteBase /\ WriteBase <= writePos
         /\ pEnqueueEntry # NULL => WriteBase < writePos
         /\ pEnqueueEntry = NULL => WriteBase = writePos
<1>1. CASE pEnqueueEntry = NULL
  BY <1>1 DEF WriteBase, LayoutTypes
<1>2. CASE pEnqueueEntry # NULL
  <2>1. mem[pEnqueueEntry].urc \in Urc
    BY <1>2 DEF Layout, PendingShape
  <2>2. LineLen[mem[pEnqueueEntry].urc] \in Nat
    BY <2>1
  <2> QED
    BY <1>2, <2>1, <2>2 DEF WriteBase, LayoutTypes, Layout, PendingShape,
                            PrefixSize, HeaderSize, Offset, NULL
<1> QED
  BY <1>1, <1>2

\* What follows the first entry lies behind it, or before it in a wrapped ring.
LEMMA AfterFirst ==
  ASSUME LayoutTypes, Layout, NEW j \in 2 .. Len(chain)
  PROVE  /\ \/ chain[1].end <= chain[j].off
              /\ chain[j].end <= (IF isWrapped THEN wrapPos ELSE WriteBase)
         \/ /\ isWrapped /\ chain[j].end <= WriteBase
            /\ chain[1].end > chain[j].off
<1>1. /\ 1 \in 1 .. Len(chain) /\ j \in 1 .. Len(chain) /\ 1 < j /\ chain # <<>>
  BY DEF LayoutTypes
<1>2. /\ chain[1].off = readPos /\ chain[1].off < chain[1].end
      /\ chain[1].end \in Nat /\ chain[1].off \in Nat
  BY <1>1, FirstEntry, EntryExtent, ChainTypes DEF Layout
<1>3. /\ chain[j].off < chain[j].end /\ chain[j].end \in Nat /\ chain[j].off \in Nat
  BY <1>1, EntryExtent, ChainTypes DEF Layout
<1>4. \/ chain[1].end <= chain[j].off
      \/ isWrapped /\ readPos <= chain[1].off /\ chain[j].end <= WriteBase
  BY <1>1 DEF Layout, EntryOrder
<1>5. \/ readPos <= chain[j].off
         /\ chain[j].end <= (IF isWrapped THEN wrapPos ELSE WriteBase)
      \/ isWrapped /\ chain[j].end <= WriteBase
  BY <1>1 DEF Layout, EntryBounds
<1>6. isWrapped => WriteBase <= readPos
  BY WriteBaseBounds DEF LayoutTypes, Layout, Positions
<1>7. WriteBase \in Int /\ readPos \in Int /\ wrapPos \in Int
  BY WriteBaseBounds DEF LayoutTypes
<1> QED
  BY <1>2, <1>3, <1>4, <1>5, <1>6, <1>7

\* The positions as numbers, in the two states of the ring.
LEMMA RingFacts ==
  ASSUME LayoutTypes, Layout
  PROVE  /\ BufferLen \in Nat /\ StartPos \in Nat /\ isWrapped \in BOOLEAN
         /\ readPos \in Nat /\ StartPos <= readPos /\ readPos <= BufferLen
         /\ writePos \in Nat /\ StartPos <= writePos /\ writePos <= BufferLen
         /\ wrapPos \in Nat /\ StartPos <= wrapPos /\ wrapPos <= BufferLen
         /\ usedBytes \in Nat
         /\ isWrapped =>
              /\ writePos <= readPos /\ readPos < wrapPos
              /\ usedBytes = (wrapPos - readPos) + (writePos - StartPos)
              /\ SegmentEnd = wrapPos
         /\ ~isWrapped =>
              /\ readPos <= writePos /\ wrapPos = BufferLen
              /\ usedBytes = writePos - readPos
              /\ SegmentEnd = BufferLen
         /\ WriteBase \in Int
         /\ StartPos <= WriteBase /\ WriteBase <= writePos
         /\ pEnqueueEntry # NULL => WriteBase < writePos
         /\ pEnqueueEntry = NULL => WriteBase = writePos
<1>1. /\ WriteBase \in Int
      /\ StartPos <= WriteBase /\ WriteBase <= writePos
      /\ pEnqueueEntry # NULL => WriteBase < writePos
      /\ pEnqueueEntry = NULL => WriteBase = writePos
  BY WriteBaseBounds
<1>2. /\ BufferLen \in Nat /\ StartPos \in Nat /\ isWrapped \in BOOLEAN
      /\ readPos \in Nat /\ StartPos <= readPos /\ readPos <= BufferLen
      /\ writePos \in Nat /\ StartPos <= writePos /\ writePos <= BufferLen
      /\ wrapPos \in Nat /\ StartPos <= wrapPos /\ wrapPos <= BufferLen
      /\ usedBytes \in Nat
  BY DEF LayoutTypes
<1>3. isWrapped =>
        /\ writePos <= readPos /\ readPos < wrapPos
        /\ usedBytes = (wrapPos - readPos) + (writePos - StartPos)
        /\ SegmentEnd = wrapPos
  BY DEF Layout, Positions, SegmentEnd
<1>4. ~isWrapped =>
        /\ readPos <= writePos /\ wrapPos = BufferLen
        /\ usedBytes = writePos - readPos
        /\ SegmentEnd = BufferLen
  BY DEF Layout, Positions, SegmentEnd
<1> QED
  BY <1>1, <1>2, <1>3, <1>4

\* The indices of a chain of more than one entry.
LEMMA AtLeastTwo ==
  ASSUME NEW k \in Nat, k >= 1, k # 1
  PROVE  /\ k >= 2 /\ (k - 1) + 1 = k
         /\ 1 \in 1 .. k - 1 /\ k - 1 \in 1 .. k - 1
         /\ 2 \in 1 .. k /\ 2 \in 2 .. k
OBVIOUS

\* usedBytes tells that the entry is the last one.
LEMMA DrainedMeansEmpty ==
  ASSUME LayoutTypes, Layout, chain # <<>>
  PROVE  usedBytes = chain[1].end - readPos <=>
           Len(chain) = 1 /\ pEnqueueEntry = NULL
<1>1. /\ Len(chain) \in Nat /\ Len(chain) >= 1 /\ chain[1].off = readPos
      /\ chain[1].end <= SegmentEnd /\ chain[1].end \in Nat
      /\ readPos < chain[1].end
  BY FirstEntry, ChainTypes, EntryExtent DEF Layout
<1>2. Len(chain) = 1 => Consecutive(chain[1].end, WriteBase)
  BY DEF Layout, Linked
<1>3. ASSUME Len(chain) # 1
      PROVE  /\ chain[2].off \in Nat /\ chain[2].end \in Nat
             /\ chain[2].off < chain[2].end /\ StartPos <= chain[2].off
             /\ \/ chain[1].end <= chain[2].off
                   /\ chain[2].end <= (IF isWrapped THEN wrapPos ELSE WriteBase)
                \/ isWrapped /\ chain[2].end <= WriteBase
  <2>1. 2 \in 2 .. Len(chain) /\ 2 \in 1 .. Len(chain)
    BY <1>1, <1>3, AtLeastTwo
  <2> QED
    BY <2>1, EntryExtent, ChainTypes, AfterFirst DEF Layout
<1>4. CASE isWrapped
  <2>1. /\ StartPos \in Nat /\ readPos \in Nat /\ writePos \in Nat /\ wrapPos \in Nat
        /\ usedBytes = (wrapPos - readPos) + (writePos - StartPos)
        /\ StartPos <= writePos /\ SegmentEnd = wrapPos
        /\ WriteBase \in Int /\ StartPos <= WriteBase /\ WriteBase <= writePos
        /\ writePos <= readPos
        /\ pEnqueueEntry # NULL => WriteBase < writePos
        /\ pEnqueueEntry = NULL => WriteBase = writePos
    BY <1>4, RingFacts
  <2>2. CASE Len(chain) = 1
    BY <1>1, <1>2, <1>4, <2>1, <2>2 DEF Consecutive
  <2>3. CASE Len(chain) # 1
    BY <1>1, <1>3, <1>4, <2>1, <2>3
  <2> QED
    BY <2>2, <2>3
<1>5. CASE ~isWrapped
  <2>1. /\ readPos \in Nat /\ writePos \in Nat
        /\ usedBytes = writePos - readPos
        /\ WriteBase \in Int /\ WriteBase <= writePos
        /\ pEnqueueEntry # NULL => WriteBase < writePos
        /\ pEnqueueEntry = NULL => WriteBase = writePos
    BY <1>5, RingFacts
  <2>2. CASE Len(chain) = 1
    BY <1>1, <1>2, <1>5, <2>1, <2>2 DEF Consecutive
  <2>3. CASE Len(chain) # 1
    BY <1>1, <1>3, <1>5, <2>1, <2>3
  <2> QED
    BY <2>2, <2>3
<1> QED
  BY <1>4, <1>5

\* What uCxAtUrcQueueDequeueEnd() does to the ring when other entries remain,
\* or the pending one.
Advance ==
  LET end == chain[1].end
      atWrap == isWrapped /\ end = wrapPos
  IN  /\ usedBytes' = usedBytes - (end - readPos)
      /\ readPos' = IF atWrap THEN StartPos ELSE end
      /\ wrapPos' = IF atWrap THEN BufferLen ELSE wrapPos
      /\ isWrapped' = (isWrapped /\ ~atWrap)
      /\ chain' = Tail(chain)
      /\ UNCHANGED <<writePos, enqueueCapacity, pEnqueueEntry, mem, payloadLen>>

\* The entries that remain, and the positions between which they lie.
LEMMA Remaining ==
  ASSUME LayoutTypes, Layout, chain # <<>>, Advance
  PROVE  /\ Len(chain') = Len(chain) - 1
         /\ chain' \in Seq(ChainEntry)
         /\ \A i \in 1 .. Len(chain) - 1 :
              /\ chain'[i] = chain[i + 1]
              /\ i + 1 \in 1 .. Len(chain)
              /\ chain[i + 1].off \in Nat /\ chain[i + 1].end \in Nat
              /\ chain[i + 1].off < chain[i + 1].end
              /\ StartPos <= chain[i + 1].off
              /\ \/ /\ chain[1].end <= chain[i + 1].off
                    /\ chain[i + 1].end <= IF isWrapped THEN wrapPos ELSE WriteBase
                 \/ /\ isWrapped /\ chain[i + 1].end <= WriteBase
                    /\ chain[1].end > chain[i + 1].off
<1>1. chain \in Seq(ChainEntry) /\ Len(chain) \in Nat
  BY DEF LayoutTypes
<1>2. /\ Len(chain') = Len(chain) - 1
      /\ chain' \in Seq(ChainEntry)
      /\ \A i \in 1 .. Len(chain) - 1 : chain'[i] = chain[i + 1]
  BY <1>1 DEF Advance
<1>3. ASSUME NEW i \in 1 .. Len(chain) - 1
      PROVE  i + 1 \in 1 .. Len(chain) /\ i + 1 \in 2 .. Len(chain)
  BY <1>1
<1> QED
  BY <1>2, <1>3, EntryExtent, ChainTypes, AfterFirst DEF Layout

\* A part of Layout is kept because no entry changes.
LEMMA RemainingIntact ==
  ASSUME LayoutTypes, Layout, chain # <<>>, Advance
  PROVE  EntryShape' /\ EntriesIntact'
<1>1. \A i \in 1 .. Len(chain') : chain'[i] = chain[i + 1] /\ i + 1 \in 1 .. Len(chain)
  BY Remaining
<1>2. EntryShape'
  BY <1>1 DEF Layout, EntryShape
<1>3. mem' = mem
  BY DEF Advance
<1>4. EntriesIntact'
  BY <1>1, <1>3 DEF Layout, EntriesIntact, Intact
<1> QED
  BY <1>2, <1>4

\* The ring is not wrapped: the read position moves behind the entry.
LEMMA AdvanceUnwrapped ==
  ASSUME LayoutTypes, Layout, chain # <<>>, Advance, ~isWrapped,
         ~(Len(chain) = 1 /\ pEnqueueEntry = NULL)
  PROVE  LayoutTypes' /\ Layout'
<1> DEFINE n == Len(chain)
           e == chain[1].end
<1>1. /\ n \in Nat /\ n >= 1 /\ chain[1].off = readPos
      /\ e \in Nat /\ readPos < e /\ e <= BufferLen
      /\ Even(e) \/ e = BufferLen
  BY FirstEntry, ChainTypes, EntryExtent DEF Layout
<1>2. /\ readPos' = e /\ wrapPos' = BufferLen /\ isWrapped' = FALSE
      /\ usedBytes' = usedBytes - (e - readPos)
      /\ writePos' = writePos /\ WriteBase' = WriteBase
      /\ pEnqueueEntry' = pEnqueueEntry
  BY RingFacts DEF Advance, WriteBase
<1>3. /\ BufferLen \in Nat /\ StartPos \in Nat
      /\ readPos \in Nat /\ StartPos <= readPos
      /\ writePos \in Nat /\ writePos <= BufferLen
      /\ wrapPos = BufferLen /\ usedBytes = writePos - readPos
      /\ WriteBase \in Int /\ WriteBase <= writePos
      /\ pEnqueueEntry # NULL => WriteBase < writePos
  BY RingFacts
<1>4. \A i \in 1 .. n - 1 :
        /\ chain'[i] = chain[i + 1]
        /\ chain[i + 1].off \in Nat /\ chain[i + 1].end \in Nat
        /\ chain[i + 1].off < chain[i + 1].end
        /\ e <= chain[i + 1].off /\ chain[i + 1].end <= WriteBase
  BY Remaining
<1>5. Len(chain') = n - 1 /\ chain' \in Seq(ChainEntry)
  BY Remaining
<1>6. /\ n = 1 => e = WriteBase
      /\ n >= 2 => chain[2].off = e
      /\ n >= 2 => chain[n].end = WriteBase
  BY <1>1 DEF Layout, Linked, Consecutive
<1>7. e <= WriteBase /\ e < writePos
  <2>1. CASE n = 1
    BY <1>1, <1>3, <1>6, <2>1
  <2>2. CASE n # 1
    <3>1. 1 \in 1 .. n - 1
      BY <1>1, <2>2, AtLeastTwo
    <3> QED
      BY <1>1, <1>3, <1>4, <3>1
  <2> QED
    BY <2>1, <2>2
<1>8. LayoutTypes'
  <2>1. /\ readPos' \in StartPos .. BufferLen /\ wrapPos' \in StartPos .. BufferLen
        /\ usedBytes' \in 0 .. BufferLen
    BY <1>1, <1>2, <1>3, <1>7
  <2> QED
    BY <1>2, <1>5, <2>1 DEF LayoutTypes, Advance
<1>9. EntryBounds'
  BY <1>2, <1>4, <1>5 DEF EntryBounds
<1>10. EntryOrder'
  <2> SUFFICES ASSUME NEW i \in 1 .. n - 1, NEW j \in 1 .. n - 1, i < j
               PROVE  chain'[i].end <= chain'[j].off
    BY <1>5 DEF EntryOrder
  <2>1. i + 1 \in 1 .. n /\ j + 1 \in 1 .. n /\ i + 1 < j + 1
    BY <1>1
  <2> QED
    BY <1>4, <2>1 DEF Layout, EntryOrder
<1>11. Linked'
  <2>1. ASSUME NEW i \in 1 .. Len(chain') - 1
        PROVE  chain'[i + 1].off = chain'[i].end
    <3>1. i \in 1 .. n - 1 /\ i + 1 \in 1 .. n - 1 /\ (i + 1) + 1 \in 1 .. n
      BY <1>1, <1>5
    <3>2. chain[(i + 1) + 1].off = chain[i + 1].end
      BY <3>1 DEF Layout, Linked, Consecutive
    <3> QED
      BY <1>4, <3>1, <3>2
  <2>2. CASE n = 1
    <3>1. chain' = <<>>
      BY <1>5, <2>2
    <3> QED
      BY <1>2, <1>6, <2>1, <2>2, <3>1 DEF Linked, Consecutive
  <2>3. CASE n # 1
    <3>1. 1 \in 1 .. n - 1 /\ n - 1 \in 1 .. n - 1 /\ n >= 2 /\ (n - 1) + 1 = n
      BY <1>1, <2>3, AtLeastTwo
    <3>2. chain' # <<>> /\ chain'[1].off = e /\ chain'[Len(chain')].end = WriteBase
      BY <1>4, <1>5, <1>6, <3>1
    <3> QED
      BY <1>2, <2>1, <3>2 DEF Linked, Consecutive
  <2> QED
    BY <2>2, <2>3
<1>12. Positions'
  <2>1. Even(e)
    BY <1>1, <1>3, <1>7
  <2>2. Even(readPos') /\ (Even(WriteBase') \/ WriteBase' = BufferLen)
    BY <1>2, <2>1 DEF Layout, Positions, Even
  <2>3. usedBytes' = writePos' - readPos'
    BY <1>1, <1>2, <1>3
  <2>4. readPos' <= writePos' /\ wrapPos' = BufferLen /\ ~isWrapped'
    BY <1>1, <1>2, <1>3, <1>7
  <2> QED
    BY <2>2, <2>3, <2>4 DEF Positions, Even
<1>13. PendingShape'
  <2>1. UNCHANGED <<pEnqueueEntry, mem, writePos, enqueueCapacity, payloadLen>>
    BY DEF Advance
  <2> QED
    BY <1>2, <2>1 DEF Layout, PendingShape, Even
<1> QED
  BY <1>8, <1>9, <1>10, <1>11, <1>12, <1>13, RemainingIntact DEF Layout

\* The ring is wrapped and stays so.
LEMMA AdvanceWrapped ==
  ASSUME LayoutTypes, Layout, chain # <<>>, Advance, isWrapped,
         chain[1].end # wrapPos
  PROVE  LayoutTypes' /\ Layout'
<1> DEFINE n == Len(chain)
           e == chain[1].end
<1>1. /\ n \in Nat /\ n >= 1 /\ chain[1].off = readPos
      /\ e \in Nat /\ readPos < e /\ e <= wrapPos /\ e # wrapPos
      /\ Even(e) \/ e = BufferLen
  BY FirstEntry, ChainTypes, EntryExtent DEF Layout, SegmentEnd
<1>2. /\ readPos' = e /\ wrapPos' = wrapPos /\ isWrapped' = TRUE
      /\ usedBytes' = usedBytes - (e - readPos)
      /\ writePos' = writePos /\ WriteBase' = WriteBase
      /\ pEnqueueEntry' = pEnqueueEntry
  BY RingFacts DEF Advance, WriteBase
<1>3. /\ BufferLen \in Nat /\ StartPos \in Nat
      /\ readPos \in Nat /\ StartPos <= readPos
      /\ writePos \in Nat /\ writePos <= readPos /\ StartPos <= writePos
      /\ wrapPos \in Nat /\ wrapPos <= BufferLen /\ readPos < wrapPos
      /\ usedBytes \in Nat
      /\ usedBytes = (wrapPos - readPos) + (writePos - StartPos)
      /\ WriteBase \in Int /\ WriteBase <= writePos
  BY RingFacts
<1>4. \A i \in 1 .. n - 1 :
        /\ chain'[i] = chain[i + 1]
        /\ chain[i + 1].off \in Nat /\ chain[i + 1].end \in Nat
        /\ chain[i + 1].off < chain[i + 1].end
        /\ \/ e <= chain[i + 1].off /\ chain[i + 1].end <= wrapPos
           \/ chain[i + 1].end <= WriteBase
  BY Remaining
<1>5. Len(chain') = n - 1 /\ chain' \in Seq(ChainEntry)
  BY Remaining
<1>6. e # WriteBase /\ e # StartPos /\ e < wrapPos
  BY <1>1, <1>3
<1>7. /\ n # 1
      /\ chain[2].off = e
      /\ Consecutive(chain[n].end, WriteBase)
  <2>1. n # 1 \/ WriteBase = StartPos
    BY <1>1, <1>3, <1>6 DEF Layout, Linked, Consecutive
  <2>2. n = 1 => Consecutive(e, WriteBase)
    BY <1>1 DEF Layout, Linked
  <2>3. n # 1
    BY <1>1, <1>6, <2>2 DEF Consecutive
  <2>4. 1 \in 1 .. n - 1
    BY <1>1, <2>3, AtLeastTwo
  <2>5. Consecutive(chain[1].end, chain[1 + 1].off)
    BY <2>4 DEF Layout, Linked
  <2> QED
    BY <1>1, <2>3, <2>5 DEF Layout, Linked, Consecutive
<1>8. LayoutTypes'
  <2>1. readPos' \in StartPos .. BufferLen /\ wrapPos' \in StartPos .. BufferLen
    <3>1. e \in Nat /\ e <= BufferLen /\ StartPos <= e
      BY <1>1, <1>3
    <3>2. wrapPos \in StartPos .. BufferLen
      BY DEF LayoutTypes
    <3> QED
      BY <1>2, <1>3, <3>1, <3>2
  <2>2. usedBytes <= BufferLen
    BY DEF LayoutTypes
  <2>3. usedBytes' = (wrapPos - e) + (writePos - StartPos)
    BY <1>1, <1>2, <1>3
  <2>4. usedBytes' \in Nat /\ usedBytes' <= usedBytes
    BY <1>1, <1>3, <2>3
  <2> QED
    BY <1>2, <1>3, <1>5, <2>1, <2>2, <2>4 DEF LayoutTypes, Advance
<1>9. EntryBounds'
  BY <1>2, <1>4, <1>5 DEF EntryBounds
<1>10. EntryOrder'
  <2> SUFFICES ASSUME NEW i \in 1 .. n - 1, NEW j \in 1 .. n - 1, i < j
               PROVE  \/ chain'[i].end <= chain'[j].off
                      \/ e <= chain'[i].off /\ chain'[j].end <= WriteBase
    BY <1>2, <1>5 DEF EntryOrder
  <2>1. i + 1 \in 1 .. n /\ j + 1 \in 1 .. n /\ i + 1 < j + 1
    BY <1>1
  <2>2. \/ chain[i + 1].end <= chain[j + 1].off
        \/ readPos <= chain[i + 1].off /\ chain[j + 1].end <= WriteBase
    BY <2>1 DEF Layout, EntryOrder
  <2>3. ASSUME readPos <= chain[i + 1].off
        PROVE  e <= chain[i + 1].off
    <3>1. /\ chain[i + 1].off \in Nat /\ chain[i + 1].end \in Nat
          /\ chain[i + 1].off < chain[i + 1].end
          /\ \/ e <= chain[i + 1].off
             \/ chain[i + 1].end <= WriteBase
      BY <1>4
    <3> QED
      BY <1>1, <1>3, <2>3, <3>1
  <2> QED
    BY <1>4, <2>2, <2>3
<1>11. Linked'
  <2>1. ASSUME NEW i \in 1 .. Len(chain') - 1
        PROVE  \/ chain'[i + 1].off = chain'[i].end
               \/ chain'[i].end = wrapPos /\ chain'[i + 1].off = StartPos
    <3>1. i \in 1 .. n - 1 /\ i + 1 \in 1 .. n - 1 /\ (i + 1) + 1 \in 1 .. n
      BY <1>1, <1>5
    <3>2. Consecutive(chain[i + 1].end, chain[(i + 1) + 1].off)
      BY <3>1 DEF Layout, Linked
    <3> QED
      BY <1>4, <3>1, <3>2 DEF Consecutive
  <2>2. 1 \in 1 .. n - 1 /\ n - 1 \in 1 .. n - 1 /\ n >= 2 /\ (n - 1) + 1 = n
    BY <1>1, <1>7, AtLeastTwo
  <2>3. chain' # <<>> /\ chain'[1].off = e /\ chain'[Len(chain')].end = chain[n].end
    BY <1>4, <1>5, <1>7, <2>2
  <2> QED
    BY <1>2, <1>7, <2>1, <2>3 DEF Linked, Consecutive
<1>12. Positions'
  <2>1. Even(e)
    BY <1>1, <1>3, <1>6
  <2>2. Even(readPos') /\ (Even(WriteBase') \/ WriteBase' = BufferLen)
    BY <1>2, <2>1 DEF Layout, Positions, Even
  <2>3. usedBytes' = (wrapPos' - readPos') + (writePos' - StartPos)
    BY <1>1, <1>2, <1>3
  <2>4. writePos' <= readPos' /\ readPos' < wrapPos' /\ isWrapped'
    BY <1>1, <1>2, <1>3, <1>6
  <2> QED
    BY <2>2, <2>3, <2>4 DEF Positions, Even
<1>13. PendingShape'
  <2>1. UNCHANGED <<pEnqueueEntry, mem, writePos, enqueueCapacity, payloadLen>>
    BY DEF Advance
  <2>2. ASSUME pEnqueueEntry # NULL
        PROVE  writePos + enqueueCapacity <= e
    <3>1. enqueueCapacity \in Nat
      BY DEF LayoutTypes
    <3>2. writePos + enqueueCapacity <= readPos
      BY <2>2 DEF Layout, PendingShape
    <3> QED
      BY <1>1, <1>3, <3>1, <3>2
  <2> QED
    BY <1>2, <2>1, <2>2 DEF Layout, PendingShape, Even
<1> QED
  BY <1>8, <1>9, <1>10, <1>11, <1>12, <1>13, RemainingIntact DEF Layout

\* The entry is the last one before the end of a wrapped ring: reading goes
\* on at startPos.
LEMMA AdvanceAtWrap ==
  ASSUME LayoutTypes, Layout, chain # <<>>, Advance, isWrapped,
         chain[1].end = wrapPos,
         ~(Len(chain) = 1 /\ pEnqueueEntry = NULL)
  PROVE  LayoutTypes' /\ Layout'
<1> DEFINE n == Len(chain)
           e == chain[1].end
<1>1. /\ n \in Nat /\ n >= 1 /\ chain[1].off = readPos
      /\ e \in Nat /\ readPos < e /\ e = wrapPos
  BY FirstEntry, ChainTypes, EntryExtent DEF Layout, SegmentEnd
<1>2. /\ readPos' = StartPos /\ wrapPos' = BufferLen /\ isWrapped' = FALSE
      /\ usedBytes' = usedBytes - (e - readPos)
      /\ writePos' = writePos /\ WriteBase' = WriteBase
      /\ pEnqueueEntry' = pEnqueueEntry
  BY RingFacts DEF Advance, WriteBase
<1>3. /\ BufferLen \in Nat /\ StartPos \in Nat /\ StartPos <= BufferLen
      /\ readPos \in Nat /\ StartPos <= readPos /\ readPos <= BufferLen
      /\ writePos \in Nat /\ writePos <= readPos /\ StartPos <= writePos
      /\ wrapPos \in Nat /\ wrapPos <= BufferLen /\ readPos < wrapPos
      /\ usedBytes \in Nat
      /\ usedBytes = (wrapPos - readPos) + (writePos - StartPos)
      /\ WriteBase \in Int /\ WriteBase <= writePos
  BY RingFacts
<1>4. \A i \in 1 .. n - 1 :
        /\ chain'[i] = chain[i + 1]
        /\ chain[i + 1].off \in Nat /\ chain[i + 1].end \in Nat
        /\ chain[i + 1].off < chain[i + 1].end
        /\ StartPos <= chain[i + 1].off /\ chain[i + 1].end <= WriteBase
  <2> SUFFICES ASSUME NEW i \in 1 .. n - 1
               PROVE  /\ chain'[i] = chain[i + 1]
                      /\ chain[i + 1].off \in Nat /\ chain[i + 1].end \in Nat
                      /\ chain[i + 1].off < chain[i + 1].end
                      /\ StartPos <= chain[i + 1].off /\ chain[i + 1].end <= WriteBase
    OBVIOUS
  <2>1. /\ chain'[i] = chain[i + 1]
        /\ chain[i + 1].off \in Nat /\ chain[i + 1].end \in Nat
        /\ chain[i + 1].off < chain[i + 1].end /\ StartPos <= chain[i + 1].off
        /\ \/ e <= chain[i + 1].off /\ chain[i + 1].end <= wrapPos
           \/ chain[i + 1].end <= WriteBase
    BY Remaining
  <2> QED
    BY <1>1, <1>3, <2>1
<1>5. Len(chain') = n - 1 /\ chain' \in Seq(ChainEntry)
  BY Remaining
<1>6. WriteBase < wrapPos /\ e # WriteBase
  BY <1>1, <1>3
<1>7. ASSUME n # 1
      PROVE  chain[2].off = StartPos /\ chain[n].end = WriteBase
  <2>1. 1 \in 1 .. n - 1 /\ n - 1 \in 1 .. n - 1 /\ (n - 1) + 1 = n
    BY <1>1, <1>7, AtLeastTwo
  <2>2. Consecutive(chain[1].end, chain[1 + 1].off)
    BY <2>1 DEF Layout, Linked
  <2>3. /\ chain[2].off \in Nat /\ chain[2].end \in Nat
        /\ chain[2].off < chain[2].end /\ chain[2].end <= WriteBase
    BY <1>4, <2>1
  <2>4. chain[2].off # e
    BY <1>1, <1>3, <2>3
  <2>5. Consecutive(chain[n].end, WriteBase)
    BY DEF Layout, Linked
  <2>6. chain[n].end \in Nat /\ chain[n].end <= WriteBase
    BY <1>4, <2>1
  <2>7. chain[n].end # wrapPos
    BY <1>3, <1>6, <2>6
  <2> QED
    BY <2>2, <2>4, <2>5, <2>7 DEF Consecutive
<1>8. LayoutTypes'
  <2>1. readPos' \in StartPos .. BufferLen /\ wrapPos' \in StartPos .. BufferLen
    BY <1>2, <1>3
  <2>2. usedBytes' = writePos - StartPos
    BY <1>1, <1>2, <1>3
  <2>3. usedBytes' \in Nat /\ usedBytes' <= BufferLen
    BY <1>3, <2>2
  <2> QED
    BY <1>2, <1>3, <1>5, <2>1, <2>3 DEF LayoutTypes, Advance
<1>9. EntryBounds'
  BY <1>2, <1>4, <1>5 DEF EntryBounds
<1>10. EntryOrder'
  <2> SUFFICES ASSUME NEW i \in 1 .. n - 1, NEW j \in 1 .. n - 1, i < j
               PROVE  chain'[i].end <= chain'[j].off
    BY <1>5 DEF EntryOrder
  <2>1. i + 1 \in 1 .. n /\ j + 1 \in 1 .. n /\ i + 1 < j + 1
    BY <1>1
  <2>2. \/ chain[i + 1].end <= chain[j + 1].off
        \/ readPos <= chain[i + 1].off
    BY <2>1 DEF Layout, EntryOrder
  <2>3. ~(readPos <= chain[i + 1].off)
    <3>1. /\ chain[i + 1].off \in Nat /\ chain[i + 1].end \in Nat
          /\ chain[i + 1].off < chain[i + 1].end
          /\ chain[i + 1].end <= WriteBase
      BY <1>4
    <3> QED
      BY <1>3, <3>1
  <2> QED
    BY <1>4, <2>2, <2>3
<1>11. Linked'
  <2>1. ASSUME NEW i \in 1 .. Len(chain') - 1
        PROVE  chain'[i + 1].off = chain'[i].end
    <3>1. i \in 1 .. n - 1 /\ i + 1 \in 1 .. n - 1 /\ i + 1 \in 1 .. n
      BY <1>1, <1>5
    <3>2. Consecutive(chain[i + 1].end, chain[(i + 1) + 1].off)
      BY <3>1 DEF Layout, Linked
    <3>3. chain[i + 1].end \in Nat /\ chain[i + 1].end <= WriteBase
      BY <1>4, <3>1
    <3>4. chain[i + 1].end # wrapPos
      BY <1>3, <1>6, <3>3
    <3> QED
      BY <1>4, <3>1, <3>2, <3>4 DEF Consecutive
  <2>2. CASE n = 1
    <3>1. chain' = <<>>
      BY <1>5, <2>2
    <3>2. Consecutive(e, WriteBase)
      BY <1>1, <2>2 DEF Layout, Linked
    <3>3. WriteBase = StartPos
      BY <1>6, <3>2 DEF Consecutive
    <3> QED
      BY <1>2, <3>1, <3>3, <1>5, <2>2, <2>1 DEF Linked, Consecutive
  <2>3. CASE n # 1
    <3>1. 1 \in 1 .. n - 1 /\ n - 1 \in 1 .. n - 1 /\ n >= 2 /\ (n - 1) + 1 = n
      BY <1>1, <2>3, AtLeastTwo
    <3>2. chain' # <<>> /\ chain'[1].off = StartPos /\ chain'[Len(chain')].end = WriteBase
      BY <1>4, <1>5, <1>7, <2>3, <3>1
    <3> QED
      BY <1>2, <2>1, <3>2 DEF Linked, Consecutive
  <2> QED
    BY <2>2, <2>3
<1>12. Positions'
  <2>1. Even(readPos')
    BY <1>2, <1>3 DEF Even
  <2>2. Even(WriteBase') \/ WriteBase' = BufferLen
    BY <1>2 DEF Layout, Positions, Even
  <2>3. usedBytes' = writePos' - readPos'
    BY <1>1, <1>2, <1>3
  <2>4. readPos' <= writePos' /\ wrapPos' = BufferLen /\ ~isWrapped'
    BY <1>2, <1>3
  <2> QED
    BY <2>1, <2>2, <2>3, <2>4 DEF Positions, Even
<1>13. PendingShape'
  <2>1. UNCHANGED <<pEnqueueEntry, mem, writePos, enqueueCapacity, payloadLen>>
    BY DEF Advance
  <2>2. ASSUME pEnqueueEntry # NULL
        PROVE  writePos + enqueueCapacity <= BufferLen
    <3>1. enqueueCapacity \in Nat
      BY DEF LayoutTypes
    <3>2. writePos + enqueueCapacity <= readPos
      BY <2>2 DEF Layout, PendingShape
    <3> QED
      BY <1>1, <1>3, <3>1, <3>2
  <2> QED
    BY <1>2, <2>1, <2>2 DEF Layout, PendingShape, Even
<1> QED
  BY <1>8, <1>9, <1>10, <1>11, <1>12, <1>13, RemainingIntact DEF Layout

\* The last entry is removed and nothing is being written.
LEMMA DrainInv ==
  ASSUME LayoutTypes, Layout, chain' = <<>>, pEnqueueEntry = NULL,
         usedBytes' = 0, readPos' = StartPos, writePos' = StartPos,
         wrapPos' = BufferLen, isWrapped' = FALSE,
         UNCHANGED <<enqueueCapacity, pEnqueueEntry, mem, payloadLen>>
  PROVE  LayoutTypes' /\ Layout'
<1>1. LayoutTypes'
  <2>1. /\ StartPos \in StartPos .. BufferLen /\ BufferLen \in StartPos .. BufferLen
        /\ 0 \in 0 .. BufferLen
    OBVIOUS
  <2>2. chain' \in Seq(ChainEntry)
    OBVIOUS
  <2>3. /\ enqueueCapacity \in 0 .. BufferLen
        /\ pEnqueueEntry \in Offset \union {NULL}
        /\ mem \in [Offset -> Cell]
        /\ payloadLen \in 0 .. UINT16_MAX
    BY DEF LayoutTypes
  <2> QED
    BY <2>1, <2>2, <2>3 DEF LayoutTypes
<1>2. Len(chain') = 0
  OBVIOUS
<1>3. EntryShape' /\ EntryBounds' /\ EntryOrder' /\ EntriesIntact'
  BY <1>2 DEF EntryShape, EntryBounds, EntryOrder, EntriesIntact
<1>4. WriteBase' = StartPos
  BY DEF WriteBase
<1>5. Linked'
  BY <1>2, <1>4 DEF Linked
<1>6. Positions'
  <2>1. Even(StartPos)
    BY DEF Even
  <2>2. StartPos - StartPos = 0 /\ StartPos <= StartPos
    OBVIOUS
  <2> QED
    BY <1>4, <2>1, <2>2 DEF Positions, Even
<1>7. PendingShape'
  BY DEF PendingShape
<1> QED
  BY <1>1, <1>3, <1>5, <1>6, <1>7 DEF Layout

\* uCxAtUrcQueueDequeueEnd(), in each of the states of the ring.
LEMMA DequeueEndInv ==
  ASSUME Inv, NEW t \in Thread, DequeueEnd(t)
  PROVE  Inv'
<1> DEFINE e == chain[1].end
           drained == Len(chain) = 1 /\ pEnqueueEntry = NULL
           atWrap == isWrapped /\ e = wrapPos
<1>1. LayoutTypes /\ Layout /\ ReaderTypes /\ ReaderShape /\ ReaderHoldsFirst
  BY InvParts
<1>2. /\ chain # <<>> /\ pEntry = readPos /\ stage = "processing"
      /\ chain[1].off = readPos
  BY <1>1 DEF DequeueEnd, ReaderHoldsFirst
<1>3. EntrySize(pEntry) = e - readPos
  BY <1>1, <1>2, SizeOfFirst
<1>4. usedBytes = e - readPos <=> drained
  BY <1>1, <1>2, DrainedMeansEmpty
<1>5. /\ e \in Nat /\ readPos \in Nat /\ readPos + (e - readPos) = e
      /\ Len(chain) \in Nat /\ Len(chain) >= 1
  <2>1. e \in Nat /\ readPos \in Nat /\ Len(chain) \in Nat /\ Len(chain) >= 1
    BY <1>1, <1>2, FirstEntry, ChainTypes, RingFacts
  <2> QED
    BY <2>1
<1>6. /\ usedBytes' = usedBytes - (e - readPos)
      /\ readPos' = IF drained \/ atWrap THEN StartPos ELSE e
      /\ writePos' = IF drained THEN StartPos ELSE writePos
      /\ wrapPos' = IF drained \/ atWrap THEN BufferLen ELSE wrapPos
      /\ isWrapped' = (isWrapped /\ ~drained /\ ~atWrap)
      /\ chain' = Tail(chain)
      /\ UNCHANGED <<enqueueCapacity, pEnqueueEntry, mem, payloadLen>>
  BY <1>2, <1>3, <1>4, <1>5 DEF DequeueEnd, AtWrap
<1>7. LayoutTypes' /\ Layout'
  <2>1. CASE drained
    <3>1. usedBytes' = 0
      <4>1. usedBytes \in Nat
        BY <1>1, RingFacts
      <4> QED
        BY <1>4, <1>6, <2>1, <4>1
    <3>2. chain' = <<>>
      BY <1>1, <1>6, <2>1 DEF LayoutTypes
    <3> QED
      BY <1>1, <1>6, <2>1, <3>1, <3>2, DrainInv
  <2>2. CASE ~drained
    <3>1. Advance
      BY <1>6, <2>2 DEF Advance
    <3>2. CASE ~isWrapped
      BY <1>1, <1>2, <2>2, <3>1, <3>2, AdvanceUnwrapped
    <3>3. CASE isWrapped /\ e # wrapPos
      BY <1>1, <1>2, <3>1, <3>3, AdvanceWrapped
    <3>4. CASE isWrapped /\ e = wrapPos
      BY <1>1, <1>2, <2>2, <3>1, <3>4, AdvanceAtWrap
    <3> QED
      BY <3>2, <3>3, <3>4
  <2> QED
    BY <2>1, <2>2
<1>8. ReaderTypes' /\ ReaderShape' /\ ReaderHoldsFirst'
  BY <1>1, <1>2 DEF DequeueEnd, ReaderTypes, ReaderShape, ReaderHoldsFirst
<1> QED
  BY <1>7, <1>8, InvParts DEF Inv, TypeOK, LayoutTypes, ReaderTypes, Layout

-----------------------------------------------------------------------------
(* Writing an entry                                                         *)

\* A step of the enqueuer leaves the first entry where it is.
LEMMA EnqueuerStep ==
  ASSUME Inv, LayoutTypes', Layout', UNCHANGED reading,
         chain # <<>> => /\ chain' # <<>>
                         /\ chain'[1].off = chain[1].off
                         /\ readPos' = readPos
  PROVE  Inv'
<1>1. ReaderTypes' /\ ReaderShape'
  BY InvParts DEF reading, ReaderTypes, ReaderShape
<1>2. ReaderHoldsFirst'
  BY InvParts DEF reading, ReaderHoldsFirst
<1> QED
  BY <1>1, <1>2 DEF Inv, TypeOK, LayoutTypes, ReaderTypes, Layout

IntactIn(m, e) ==
  /\ m[e.off] = [urc |-> e.urc, strLineLen |-> LineLen[e.urc],
                 payloadSize |-> e.payloadSize]
  /\ \A o \in e.off + 1 .. RawEnd(e) - 1 : m[o] = Data(e.urc)

\* The entries outside the bytes that are written stay as they are.
LEMMA KeptIntact ==
  ASSUME LayoutTypes, Layout, NEW m, NEW lo \in Nat, NEW hi \in Nat,
         \A o \in Offset : o < lo \/ o >= hi => m[o] = mem[o],
         \A i \in 1 .. Len(chain) : chain[i].end <= lo \/ hi <= chain[i].off
  PROVE  \A i \in 1 .. Len(chain) : IntactIn(m, chain[i])
<1> SUFFICES ASSUME NEW i \in 1 .. Len(chain)
             PROVE  IntactIn(m, chain[i])
  OBVIOUS
<1> DEFINE e == chain[i]
<1>1. IntactIn(mem, e)
  BY DEF Layout, EntriesIntact, Intact, IntactIn
<1>2. /\ e.off \in Nat /\ e.end \in Nat /\ e.end <= BufferLen
      /\ RawSize(e) \in Nat /\ e.off + RawSize(e) <= e.end /\ e.off < e.end
      /\ RawSize(e) >= 5
  BY ChainTypes, EntryExtent DEF Layout
<1>3. RawEnd(e) = e.off + RawSize(e)
  <2>1. e.off \in Nat /\ LineLen[e.urc] \in Nat /\ e.payloadSize \in Nat
    BY ChainTypes
  <2> QED
    <3>1. PrefixSize(LineLen[e.urc]) \in Nat
      BY <2>1 DEF PrefixSize, HeaderSize
    <3>2. \A a, b, c \in Nat : (a + b) + c = a + (b + c)
      OBVIOUS
    <3> QED
      BY <2>1, <3>1, <3>2 DEF RawEnd, RawSize
<1>4. e.end <= lo \/ hi <= e.off
  OBVIOUS
<1> HIDE DEF e
<1>5. ASSUME NEW o \in e.off .. RawEnd(e) - 1
      PROVE  m[o] = mem[o]
  <2>1. o \in Nat /\ e.off <= o /\ o < e.end
    BY <1>2, <1>3
  <2>2. o \in Offset /\ (o < lo \/ o >= hi)
    BY <1>2, <1>4, <2>1 DEF Offset
  <2> QED
    BY <2>2
<1>6. e.off \in e.off .. RawEnd(e) - 1
  BY <1>2, <1>3
<1>7. \A o \in e.off + 1 .. RawEnd(e) - 1 : o \in e.off .. RawEnd(e) - 1
  BY <1>2, <1>3
<1>8. IntactIn(m, e)
  BY <1>1, <1>5, <1>6, <1>7 DEF IntactIn
<1> QED
  BY <1>8 DEF e

\* The pending entry, and where the committed ones are.
LEMMA PendingFacts ==
  ASSUME LayoutTypes, Layout, pEnqueueEntry # NULL
  PROVE  /\ pEnqueueEntry \in Nat /\ pEnqueueEntry \in Offset
         /\ StartPos <= pEnqueueEntry /\ Even(pEnqueueEntry)
         /\ WriteBase = pEnqueueEntry
         /\ mem[pEnqueueEntry].urc \in Urc
         /\ mem[pEnqueueEntry].strLineLen = LineLen[mem[pEnqueueEntry].urc]
         /\ PrefixSize(mem[pEnqueueEntry].strLineLen) \in Nat
         /\ PrefixSize(mem[pEnqueueEntry].strLineLen) >= 5
         /\ writePos = pEnqueueEntry + PrefixSize(mem[pEnqueueEntry].strLineLen)
         /\ enqueueCapacity \in Nat /\ payloadLen \in Nat
         /\ payloadLen <= enqueueCapacity
         /\ isWrapped => writePos + enqueueCapacity <= readPos
         /\ writePos + enqueueCapacity <= BufferLen
         /\ Even(writePos + enqueueCapacity) \/ writePos + enqueueCapacity = BufferLen
<1> DEFINE u == mem[pEnqueueEntry].urc
<1>1. /\ u \in Urc
      /\ mem[pEnqueueEntry] = Header(u)
      /\ StartPos <= pEnqueueEntry
      /\ Even(pEnqueueEntry)
      /\ writePos = pEnqueueEntry + PrefixSize(LineLen[u])
      /\ payloadLen <= enqueueCapacity
      /\ isWrapped => writePos + enqueueCapacity <= readPos
      /\ ~isWrapped => writePos + enqueueCapacity <= BufferLen
      /\ Even(writePos + enqueueCapacity) \/ writePos + enqueueCapacity = BufferLen
  BY DEF Layout, PendingShape
<1>2. mem[pEnqueueEntry].strLineLen = LineLen[u]
  BY <1>1 DEF Header
<1>3. LineLen[u] \in Nat
  BY <1>1
<1>4. PrefixSize(LineLen[u]) \in Nat /\ PrefixSize(LineLen[u]) >= 5
  BY <1>3 DEF PrefixSize, HeaderSize
<1>5. /\ pEnqueueEntry \in Nat /\ pEnqueueEntry \in Offset
      /\ enqueueCapacity \in Nat /\ payloadLen \in Nat
  BY DEF LayoutTypes, Offset
<1>6. WriteBase = pEnqueueEntry
  BY DEF WriteBase
<1>7. writePos + enqueueCapacity <= BufferLen
  <2>1. writePos \in Nat /\ readPos \in Nat /\ readPos <= BufferLen /\ BufferLen \in Nat
    BY RingFacts
  <2> QED
    BY <1>1, <1>5, <2>1
<1> QED
  BY <1>1, <1>2, <1>4, <1>5, <1>6, <1>7

\* Every entry ends where the writing starts, or lies behind the read position
\* of a wrapped ring.
LEMMA EntrySide ==
  ASSUME LayoutTypes, Layout, NEW i \in 1 .. Len(chain)
  PROVE  \/ chain[i].end <= WriteBase
         \/ isWrapped /\ readPos <= chain[i].off /\ chain[i].end <= wrapPos
BY DEF Layout, EntryBounds

\* uCxAtUrcQueueEnqueueGetPayloadPtr() and what the client stores there
LEMMA FillPayloadInv ==
  ASSUME Inv, NEW k \in 1 .. BufferLen, FillPayload(k)
  PROVE  Inv'
<1> DEFINE p == pEnqueueEntry
           u == mem[p].urc
<1>1. LayoutTypes /\ Layout
  BY InvParts
<1>2. /\ p # NULL /\ payloadLen < k /\ payloadLen' = k /\ k \in Nat
      /\ UNCHANGED <<ring, enqueueCapacity, pEnqueueEntry, reading, chain>>
  BY DEF FillPayload
<1>3. /\ p \in Nat /\ p \in Offset /\ u \in Urc
      /\ mem[p].strLineLen = LineLen[u]
      /\ p + PrefixSize(LineLen[u]) = writePos /\ p < writePos
      /\ WriteBase = p
      /\ enqueueCapacity \in Nat /\ payloadLen \in Nat
      /\ isWrapped => writePos + enqueueCapacity <= readPos
      /\ writePos + enqueueCapacity <= BufferLen
  <2>1. PrefixSize(LineLen[u]) \in Nat /\ PrefixSize(LineLen[u]) >= 5
    BY <1>1, <1>2, PendingFacts
  <2>2. p \in Nat
    BY <1>1, <1>2, PendingFacts
  <2>3. p < p + PrefixSize(LineLen[u])
    BY <2>1, <2>2
  <2> QED
    BY <1>1, <1>2, <2>3, PendingFacts
<1>4. writePos \in Nat /\ readPos \in Nat /\ BufferLen \in Nat
  BY <1>1, RingFacts
<1>5. k <= enqueueCapacity /\ k <= UINT16_MAX
  BY <1>2, <1>3 DEF FillPayload, PayloadCapacity
<1>6. mem' = [o \in Offset |-> IF writePos + payloadLen <= o /\ o < writePos + k
                               THEN Data(u) ELSE mem[o]]
  BY <1>3 DEF FillPayload
<1>7. \A o \in Offset : o < writePos \/ o >= writePos + k => mem'[o] = mem[o]
  <2> SUFFICES ASSUME NEW o \in Offset, o < writePos \/ o >= writePos + k
               PROVE  mem'[o] = mem[o]
    OBVIOUS
  <2>1. o \in Nat
    BY DEF Offset
  <2>2. ~(writePos + payloadLen <= o /\ o < writePos + k)
    BY <1>2, <1>3, <1>4, <2>1
  <2> QED
    BY <1>6, <2>2
<1>8. LayoutTypes'
  <2>1. Data(u) \in Cell
    BY <1>3 DEF Data, Cell
  <2>2. mem' \in [Offset -> Cell]
    BY <1>1, <1>6, <2>1 DEF LayoutTypes
  <2>3. payloadLen' \in 0 .. UINT16_MAX
    BY <1>2, <1>5
  <2> QED
    BY <1>1, <1>2, <2>2, <2>3 DEF LayoutTypes, ring
<1>9. \A i \in 1 .. Len(chain) : IntactIn(mem', chain[i])
  <2>1. writePos \in Nat /\ writePos + k \in Nat
    BY <1>2, <1>4
  <2>2. ASSUME NEW i \in 1 .. Len(chain)
        PROVE  chain[i].end <= writePos \/ writePos + k <= chain[i].off
    <3>1. /\ chain[i].off \in Nat /\ chain[i].end \in Nat
          /\ \/ chain[i].end <= WriteBase
             \/ isWrapped /\ readPos <= chain[i].off
      BY <1>1, EntrySide, ChainTypes
    <3> QED
      BY <1>2, <1>3, <1>4, <1>5, <3>1
  <2> QED
    BY <1>1, <1>7, <2>1, <2>2, KeptIntact
<1>10. EntriesIntact'
  BY <1>2, <1>9 DEF EntriesIntact, Intact, IntactIn
<1>11. EntryShape' /\ EntryBounds' /\ EntryOrder'
  BY <1>1, <1>2 DEF Layout, ring, EntryShape, EntryBounds, EntryOrder, WriteBase
<1>12. Linked' /\ Positions'
  BY <1>1, <1>2 DEF Layout, ring, Linked, Positions, Consecutive, WriteBase
<1>13. PendingShape'
  <2>1. mem'[p] = mem[p]
    BY <1>3, <1>7
  <2>2. \A o \in p + 1 .. writePos + payloadLen - 1 : mem[o] = Data(u)
    BY <1>1, <1>2 DEF Layout, PendingShape
  <2>3. ASSUME NEW o \in p + 1 .. writePos + k - 1
        PROVE  mem'[o] = Data(u)
    <3>1. o \in Offset /\ o \in Nat /\ p + 1 <= o /\ o < writePos + k
      BY <1>2, <1>3, <1>4, <1>5 DEF Offset
    <3>2. CASE o >= writePos + payloadLen
      BY <1>6, <3>1, <3>2
    <3>3. CASE o < writePos + payloadLen
      <4>1. o \in p + 1 .. writePos + payloadLen - 1
        BY <1>3, <1>4, <3>1, <3>3
      <4>2. ~(writePos + payloadLen <= o)
        BY <1>3, <1>4, <3>1, <3>3
      <4>3. mem'[o] = mem[o]
        BY <1>6, <3>1, <4>2
      <4> QED
        BY <2>2, <4>1, <4>3
    <3> QED
      BY <1>3, <1>4, <3>1, <3>2, <3>3
  <2>4. /\ mem[p] = Header(u) /\ LineLen[u] <= UINT16_MAX
        /\ StartPos <= p /\ Even(p)
        /\ writePos + enqueueCapacity <= (IF isWrapped THEN readPos ELSE BufferLen)
        /\ Even(writePos + enqueueCapacity) \/ writePos + enqueueCapacity = BufferLen
    BY <1>1, <1>2 DEF Layout, PendingShape
  <2>5. /\ pEnqueueEntry' = p /\ writePos' = writePos /\ isWrapped' = isWrapped
        /\ readPos' = readPos /\ enqueueCapacity' = enqueueCapacity
    BY <1>2 DEF ring
  <2>6. writePos = p + PrefixSize(LineLen[u])
    BY <1>3
  <2> QED
    BY <1>2, <1>3, <1>5, <2>1, <2>3, <2>4, <2>5, <2>6 DEF PendingShape, Even
<1>14. Layout'
  BY <1>10, <1>11, <1>12, <1>13 DEF Layout
<1> QED
  BY <1>2, <1>8, <1>14, EnqueuerStep DEF ring

\* uCxAtUrcQueueEnqueueEnd() adds room for the pad byte, except where the
\* buffer ends: then the room that was set aside ended with it.
LEMMA AdditionalFacts ==
  ASSUME LayoutTypes, Layout, pEnqueueEntry # NULL
  PROVE  LET prefix == PrefixSize(mem[pEnqueueEntry].strLineLen)
             extra == AdditionalSize(prefix, payloadLen, enqueueCapacity)
         IN  /\ extra \in Nat /\ payloadLen <= extra /\ extra <= enqueueCapacity
             /\ \/ prefix + extra = Align(prefix + payloadLen)
                \/ extra = payloadLen /\ writePos + extra = BufferLen
<1> DEFINE prefix == PrefixSize(mem[pEnqueueEntry].strLineLen)
           aligned == Align(prefix + payloadLen)
           extra == AdditionalSize(prefix, payloadLen, enqueueCapacity)
<1>1. /\ pEnqueueEntry \in Nat /\ Even(pEnqueueEntry)
      /\ prefix \in Nat /\ payloadLen \in Nat /\ enqueueCapacity \in Nat
      /\ payloadLen <= enqueueCapacity
      /\ writePos = pEnqueueEntry + prefix
      /\ Even(writePos + enqueueCapacity) \/ writePos + enqueueCapacity = BufferLen
  BY PendingFacts
<1>2. writePos \in Nat
  BY RingFacts
<1>3. prefix + payloadLen \in Nat
  BY <1>1
<1> HIDE DEF prefix
<1>4. /\ aligned \in Nat
      /\ aligned = prefix + payloadLen \/ aligned = prefix + payloadLen + 1
  BY <1>3, AlignBounds
<1>5. aligned # prefix + payloadLen => ~Even(pEnqueueEntry + (prefix + payloadLen))
  BY <1>1, <1>3, EvenShift
<1> HIDE DEF aligned
<1>6. CASE aligned - prefix > enqueueCapacity
  <2>1. extra = payloadLen
    BY <1>6 DEF AdditionalSize, aligned
  <2>2. aligned = prefix + payloadLen + 1 /\ enqueueCapacity = payloadLen
    BY <1>1, <1>4, <1>6
  <2>3. pEnqueueEntry + (prefix + payloadLen) = writePos + enqueueCapacity
    BY <1>1, <2>2
  <2>4. writePos + enqueueCapacity = BufferLen
    BY <1>1, <1>5, <2>2, <2>3
  <2> QED
    BY <1>1, <2>1, <2>2, <2>4 DEF prefix
<1>7. CASE ~(aligned - prefix > enqueueCapacity)
  <2>1. extra = aligned - prefix
    BY <1>7 DEF AdditionalSize, aligned
  <2>2. extra \in Nat /\ payloadLen <= extra /\ extra <= enqueueCapacity
    BY <1>1, <1>4, <1>7, <2>1
  <2>3. prefix + extra = aligned
    BY <1>1, <1>4, <2>1
  <2> QED
    BY <2>2, <2>3 DEF prefix, aligned
<1> QED
  BY <1>6, <1>7

\* The read position is not behind the place where the entries end, unless the
\* ring is wrapped.
LEMMA ReadBeforeWrite ==
  ASSUME LayoutTypes, Layout, ~isWrapped
  PROVE  readPos <= WriteBase
<1>1. readPos \in Nat /\ WriteBase \in Int
  BY RingFacts
<1>2. CASE chain = <<>>
  BY <1>1, <1>2 DEF Layout, Linked
<1>3. CASE chain # <<>>
  <2>1. chain[1].off = readPos /\ 1 \in 1 .. Len(chain)
    BY <1>3, FirstEntry, ChainTypes
  <2>2. /\ chain[1].off < chain[1].end /\ chain[1].end \in Nat
        /\ chain[1].end <= WriteBase
    BY <2>1, EntryExtent, ChainTypes, EntrySide DEF Layout
  <2> QED
    BY <1>1, <2>1, <2>2
<1> QED
  BY <1>2, <1>3

\* A pending entry is counted in usedBytes.
LEMMA UsedWhilePending ==
  ASSUME LayoutTypes, Layout, pEnqueueEntry # NULL
  PROVE  usedBytes > 0 /\ Even(readPos)
<1>1. usedBytes > 0
  <2>1. CASE isWrapped
    BY <2>1, RingFacts
  <2>2. CASE ~isWrapped
    BY <2>2, RingFacts, ReadBeforeWrite
  <2> QED
    BY <2>1, <2>2
<1> QED
  BY <1>1 DEF Layout, Positions

\* The new entry as a member of the chain
NewEntry == [off |-> pEnqueueEntry,
             end |-> writePos',
             urc |-> mem[pEnqueueEntry].urc,
             payloadSize |-> payloadLen]

\* uCxAtUrcQueueEnqueueEnd(): the pending entry becomes the newest one.
LEMMA EnqueueEndInv ==
  ASSUME Inv, EnqueueEnd
  PROVE  Inv'
<1> DEFINE n == Len(chain)
           p == pEnqueueEntry
           u == mem[p].urc
           prefix == PrefixSize(LineLen[u])
           extra == AdditionalSize(prefix, payloadLen, enqueueCapacity)
<1>1. LayoutTypes /\ Layout
  BY InvParts
<1>2. p # NULL
  BY DEF EnqueueEnd
<1>3. /\ p \in Nat /\ p \in Offset /\ u \in Urc /\ StartPos <= p /\ Even(p)
      /\ mem[p].strLineLen = LineLen[u]
      /\ prefix \in Nat /\ prefix >= 5
      /\ writePos = p + prefix /\ WriteBase = p
      /\ enqueueCapacity \in Nat /\ payloadLen \in Nat
      /\ isWrapped => writePos + enqueueCapacity <= readPos
      /\ writePos + enqueueCapacity <= BufferLen
  BY <1>1, <1>2, PendingFacts
<1>4. /\ extra \in Nat /\ payloadLen <= extra /\ extra <= enqueueCapacity
      /\ \/ prefix + extra = Align(prefix + payloadLen)
         \/ extra = payloadLen /\ writePos + extra = BufferLen
  BY <1>1, <1>2, <1>3, AdditionalFacts
<1>5. /\ writePos' = writePos + extra
      /\ usedBytes' = usedBytes + extra
      /\ chain' = Append(chain, [off |-> p, end |-> p + prefix + extra,
                                 urc |-> u, payloadSize |-> payloadLen])
      /\ mem' = [mem EXCEPT ![p].payloadSize = payloadLen]
      /\ enqueueCapacity' = 0 /\ pEnqueueEntry' = NULL /\ payloadLen' = 0
      /\ UNCHANGED <<readPos, wrapPos, isWrapped, reading>>
  BY <1>3 DEF EnqueueEnd, WithPayloadSize
<1> HIDE DEF extra, prefix
<1>6. /\ readPos \in Nat /\ StartPos \in Nat /\ BufferLen \in Nat /\ wrapPos \in Nat
      /\ writePos \in Nat /\ usedBytes \in Nat
      /\ n \in Nat /\ chain \in Seq(ChainEntry)
  BY <1>1, RingFacts DEF LayoutTypes
<1>7. /\ writePos' \in Nat /\ writePos' <= BufferLen /\ p < writePos'
      /\ writePos' = (p + prefix) + extra
      /\ writePos <= writePos'
      /\ isWrapped => writePos' <= readPos
      /\ WriteBase' = writePos'
  <2>1. WriteBase' = writePos'
    BY <1>5 DEF WriteBase
  <2>2. writePos' = writePos + extra /\ writePos' <= writePos + enqueueCapacity
    BY <1>3, <1>4, <1>5, <1>6
  <2>3. /\ writePos' \in Nat /\ writePos <= writePos' /\ p < writePos'
        /\ writePos' = (p + prefix) + extra
    <3>1. /\ p \in Nat /\ prefix \in Nat /\ prefix >= 5 /\ extra \in Nat
          /\ writePos = p + prefix
      BY <1>3, <1>4, Zenon
    <3>2. writePos' = (p + prefix) + extra
      BY <2>2, <3>1
    <3>3. writePos' \in Nat /\ p < writePos'
      BY <3>1, <3>2
    <3>4. writePos <= writePos'
      BY <3>1, <3>2
    <3> QED
      BY <3>2, <3>3, <3>4
  <2>4. writePos' <= BufferLen
    BY <1>3, <1>6, <2>2, <2>3
  <2>5. ASSUME isWrapped PROVE writePos' <= readPos
    BY <1>3, <1>6, <2>2, <2>3, <2>5
  <2> QED
    BY <2>1, <2>3, <2>4, <2>5
<1>8. chain' = Append(chain, NewEntry)
  BY <1>5, <1>7 DEF NewEntry
<1>9. /\ NewEntry.off = p /\ NewEntry.end = writePos' /\ NewEntry.urc = u
      /\ NewEntry.payloadSize = payloadLen
      /\ NewEntry \in ChainEntry
  <2>1. writePos' \in 0 .. BufferLen /\ payloadLen \in 0 .. UINT16_MAX
    BY <1>1, <1>6, <1>7 DEF LayoutTypes
  <2> QED
    BY <1>3, <2>1 DEF NewEntry, ChainEntry
<1>10. /\ Len(chain') = n + 1 /\ chain' \in Seq(ChainEntry)
       /\ chain'[n + 1] = NewEntry
       /\ \A i \in 1 .. n : chain'[i] = chain[i]
  BY <1>6, <1>8, <1>9
<1>11. \A i \in 1 .. n :
         /\ chain[i].off \in Nat /\ chain[i].end \in Nat
         /\ \/ chain[i].end <= p
            \/ isWrapped /\ readPos <= chain[i].off /\ chain[i].end <= wrapPos
  BY <1>1, <1>3, EntrySide, ChainTypes
<1>12. /\ ~isWrapped => readPos <= p
       /\ usedBytes > 0 /\ Even(readPos)
  BY <1>1, <1>2, <1>3, ReadBeforeWrite, UsedWhilePending
<1>13. LayoutTypes'
  <2>1. mem' \in [Offset -> Cell]
    BY <1>1, <1>3, <1>5 DEF LayoutTypes, Cell
  <2>2. writePos' \in StartPos .. BufferLen
    BY <1>3, <1>6, <1>7
  <2>3. usedBytes' \in 0 .. BufferLen
    <3>1. CASE isWrapped
      <4>1. /\ usedBytes = (wrapPos - readPos) + (writePos - StartPos)
            /\ readPos < wrapPos /\ wrapPos <= BufferLen
        BY <1>1, <3>1, RingFacts
      <4>2. usedBytes' = (wrapPos - readPos) + (writePos' - StartPos)
        BY <1>4, <1>5, <1>6, <4>1
      <4>3. StartPos <= writePos' /\ writePos' <= readPos
        BY <1>3, <1>6, <1>7, <3>1
      <4>4. usedBytes' \in Nat /\ usedBytes' <= BufferLen
        BY <1>6, <1>7, <4>1, <4>2, <4>3
      <4> QED
        BY <1>6, <4>4
    <3>2. CASE ~isWrapped
      <4>1. usedBytes = writePos - readPos /\ readPos <= writePos
        BY <1>1, <3>2, RingFacts
      <4>2. usedBytes' = writePos' - readPos
        BY <1>4, <1>5, <1>6, <4>1
      <4>3. usedBytes' \in Nat /\ usedBytes' <= BufferLen
        BY <1>6, <1>7, <4>1, <4>2
      <4> QED
        BY <1>6, <4>3
    <3> QED
      BY <3>1, <3>2
  <2>4. 0 \in 0 .. BufferLen /\ 0 \in 0 .. UINT16_MAX
    BY <1>6
  <2> QED
    BY <1>1, <1>5, <1>10, <2>1, <2>2, <2>3, <2>4 DEF LayoutTypes
<1>14. EntryShape'
  <2>1. LineLen[u] <= UINT16_MAX
    BY <1>1, <1>2 DEF Layout, PendingShape
  <2>2. RawSize(NewEntry) = prefix + payloadLen
    BY <1>9 DEF RawSize, prefix
  <2>3. writePos' = p + (prefix + extra)
    BY <1>3, <1>4, <1>7
  <2>4. \/ NewEntry.end = p + Align(RawSize(NewEntry))
        \/ NewEntry.end = p + RawSize(NewEntry) /\ NewEntry.end = BufferLen
    BY <1>4, <1>5, <1>9, <2>2, <2>3
  <2> QED
    BY <1>1, <1>3, <1>6, <1>9, <1>10, <2>1, <2>4 DEF Layout, EntryShape
<1>15. EntryBounds'
  <2>1. ASSUME NEW i \in 1 .. n
        PROVE  \/ readPos <= chain[i].off
                  /\ chain[i].end <= (IF isWrapped THEN wrapPos ELSE writePos')
               \/ isWrapped /\ chain[i].end <= writePos'
    <3>1. CASE isWrapped
      BY <1>3, <1>7, <1>11, <3>1
    <3>2. CASE ~isWrapped
      <4>1. readPos <= chain[i].off /\ chain[i].end <= p
        BY <1>1, <1>3, <3>2 DEF Layout, EntryBounds
      <4> QED
        BY <1>3, <1>7, <1>11, <3>2, <4>1
    <3> QED
      BY <3>1, <3>2
  <2>2. \/ readPos <= p /\ ~isWrapped
        \/ isWrapped
    BY <1>12
  <2>3. writePos' <= writePos'
    BY <1>7
  <2>4. \A i \in 1 .. n + 1 : i \in 1 .. n \/ i = n + 1
    BY <1>6
  <2> QED
    BY <1>5, <1>7, <1>9, <1>10, <2>1, <2>2, <2>3, <2>4 DEF EntryBounds
<1>16. EntryOrder'
  <2> SUFFICES ASSUME NEW i \in 1 .. n + 1, NEW j \in 1 .. n + 1, i < j
               PROVE  \/ chain'[i].end <= chain'[j].off
                      \/ /\ isWrapped /\ readPos <= chain'[i].off
                         /\ chain'[j].end <= writePos'
    BY <1>5, <1>7, <1>10 DEF EntryOrder
  <2>1. i \in 1 .. n
    BY <1>6
  <2>2. CASE j = n + 1
    BY <1>7, <1>9, <1>10, <1>11, <2>1, <2>2
  <2>3. CASE j # n + 1
    <3>1. j \in 1 .. n
      BY <1>6, <2>3
    <3>2. \/ chain[i].end <= chain[j].off
          \/ isWrapped /\ readPos <= chain[i].off /\ chain[j].end <= p
      BY <1>1, <1>3, <2>1, <3>1 DEF Layout, EntryOrder
    <3> QED
      BY <1>3, <1>7, <1>10, <1>11, <2>1, <3>1, <3>2
  <2> QED
    BY <2>2, <2>3
<1>17. Linked'
  <2>1. chain # <<>> => n >= 1
    BY <1>6
  <2>2. chain # <<>> => /\ chain[1].off = readPos
                        /\ Consecutive(chain[n].end, p)
    BY <1>1, <1>3 DEF Layout, Linked
  <2>3. chain = <<>> => n = 0 /\ readPos = p
    BY <1>1, <1>3 DEF Layout, Linked
  <2>4. chain' # <<>> /\ chain'[1].off = readPos
    <3>0. chain' # <<>>
      BY <1>6, <1>10
    <3>1. CASE chain = <<>>
      <4>1. chain'[1] = NewEntry
        BY <1>10, <2>3, <3>1
      <4> QED
        BY <1>9, <2>3, <3>0, <3>1, <4>1
    <3>2. CASE chain # <<>>
      <4>1. 1 \in 1 .. n
        BY <1>6, <2>1, <3>2
      <4> QED
        BY <1>10, <2>2, <3>0, <3>2, <4>1
    <3> QED
      BY <3>1, <3>2
  <2>5. ASSUME NEW i \in 1 .. (n + 1) - 1
        PROVE  \/ chain'[i + 1].off = chain'[i].end
               \/ isWrapped /\ chain'[i].end = wrapPos /\ chain'[i + 1].off = StartPos
    <3>1. i \in 1 .. n
      BY <1>6
    <3>2. CASE i = n
      <4>1. chain # <<>>
        BY <1>6, <3>1
      <4> QED
        BY <1>9, <1>10, <2>2, <3>1, <3>2, <4>1 DEF Consecutive
    <3>3. CASE i # n
      <4>1. i \in 1 .. n - 1 /\ i + 1 \in 1 .. n
        BY <1>6, <3>1, <3>3
      <4>2. Consecutive(chain[i].end, chain[i + 1].off)
        BY <1>1, <4>1 DEF Layout, Linked
      <4> QED
        BY <1>10, <3>1, <4>1, <4>2 DEF Consecutive
    <3> QED
      BY <3>2, <3>3
  <2>6. chain'[Len(chain')].end = WriteBase'
    BY <1>7, <1>9, <1>10
  <2> QED
    BY <1>5, <1>10, <2>4, <2>5, <2>6 DEF Linked, Consecutive
<1>18. Positions'
  <2>1. IF isWrapped THEN writePos' <= readPos /\ readPos < wrapPos
                     ELSE readPos <= writePos' /\ wrapPos = BufferLen
    BY <1>1, <1>3, <1>6, <1>7, <1>12, RingFacts
  <2>2. usedBytes' = IF isWrapped THEN (wrapPos - readPos) + (writePos' - StartPos)
                                  ELSE writePos' - readPos
    <3>1. CASE isWrapped
      BY <1>1, <1>4, <1>5, <1>6, <3>1, RingFacts
    <3>2. CASE ~isWrapped
      BY <1>1, <1>4, <1>5, <1>6, <3>2, RingFacts
    <3> QED
      BY <3>1, <3>2
  <2>3. Even(writePos') \/ writePos' = BufferLen
    <3>1. n + 1 \in 1 .. Len(chain')
      BY <1>6, <1>10
    <3>2. \/ writePos' = p + Align(RawSize(NewEntry)) \/ writePos' = BufferLen
      BY <1>9, <1>10, <1>14, <3>1 DEF EntryShape
    <3>3. RawSize(NewEntry) = prefix + payloadLen /\ prefix + payloadLen \in Nat
      BY <1>3, <1>9 DEF RawSize, prefix
    <3>4. Even(p + Align(prefix + payloadLen))
      BY <1>3, <3>3, EvenShift
    <3> QED
      BY <3>2, <3>3, <3>4
  <2> QED
    BY <1>5, <1>7, <1>12, <2>1, <2>2, <2>3 DEF Positions, Even
<1>19. EntriesIntact'
  <2>1. \A o \in Offset : o < p \/ o >= p + 1 => mem'[o] = mem[o]
    BY <1>1, <1>3, <1>5 DEF LayoutTypes, Offset
  <2>2. \A i \in 1 .. n : chain[i].end <= p \/ p + 1 <= chain[i].off
    <3> SUFFICES ASSUME NEW i \in 1 .. n
                 PROVE  chain[i].end <= p \/ p + 1 <= chain[i].off
      OBVIOUS
    <3>1. isWrapped => writePos <= readPos
      BY <1>1, RingFacts
    <3> QED
      BY <1>3, <1>6, <1>11, <3>1
  <2>3. \A i \in 1 .. n : IntactIn(mem', chain[i])
    <3>1. p \in Nat /\ p + 1 \in Nat
      BY <1>3
    <3> QED
      BY <1>1, <2>1, <2>2, <3>1, KeptIntact
  <2>4. IntactIn(mem', NewEntry)
    <3>1. mem[p] = Header(u) /\ mem \in [Offset -> Cell]
      BY <1>1, <1>2 DEF Layout, LayoutTypes, PendingShape
    <3>2. mem'[p] = [urc |-> u, strLineLen |-> LineLen[u], payloadSize |-> payloadLen]
      BY <1>3, <1>5, <3>1 DEF Header
    <3>3. RawEnd(NewEntry) = writePos + payloadLen
      BY <1>3, <1>9 DEF RawEnd, prefix
    <3>4. \A o \in p + 1 .. writePos + payloadLen - 1 : mem[o] = Data(u)
      BY <1>1, <1>2 DEF Layout, PendingShape
    <3>5. ASSUME NEW o \in p + 1 .. writePos + payloadLen - 1
          PROVE  mem'[o] = mem[o]
      <4>1. o \in Offset /\ o # p
        BY <1>3, <1>4, <1>6 DEF Offset
      <4> QED
        BY <1>5, <3>1, <4>1
    <3>6. \A o \in p + 1 .. writePos + payloadLen - 1 : mem'[o] = Data(u)
      BY <3>4, <3>5
    <3>7. mem'[NewEntry.off] = [urc |-> NewEntry.urc,
                                strLineLen |-> LineLen[NewEntry.urc],
                                payloadSize |-> NewEntry.payloadSize]
      BY <1>9, <3>2
    <3>8. \A o \in NewEntry.off + 1 .. RawEnd(NewEntry) - 1 :
            mem'[o] = Data(NewEntry.urc)
      <4>1. NewEntry.off + 1 = p + 1 /\ RawEnd(NewEntry) - 1 = writePos + payloadLen - 1
        <5>1. NewEntry.off = p
          BY <1>9
        <5>2. (writePos + payloadLen) - 1 = writePos + payloadLen - 1
          BY <1>3, <1>6
        <5> QED
          BY <3>3, <5>1, <5>2, Zenon
      <4>2. NewEntry.urc = u
        BY <1>9
      <4> QED
        BY <3>6, <4>1, <4>2, Zenon
    <3> QED
      BY <3>7, <3>8 DEF IntactIn
  <2>5. \A i \in 1 .. n + 1 : i \in 1 .. n \/ i = n + 1
    BY <1>6
  <2> QED
    BY <1>10, <2>3, <2>4, <2>5 DEF EntriesIntact, Intact, IntactIn
<1>20. PendingShape'
  BY <1>5 DEF PendingShape
<1>21. Layout'
  BY <1>14, <1>15, <1>16, <1>17, <1>18, <1>19, <1>20 DEF Layout
<1>22. chain # <<>> => /\ chain' # <<>> /\ chain'[1].off = chain[1].off
                       /\ readPos' = readPos
  <2>1. chain # <<>> => 1 \in 1 .. n
    BY <1>6
  <2> QED
    BY <1>5, <1>6, <1>10, <2>1
<1> QED
  BY <1>5, <1>13, <1>21, <1>22, EnqueuerStep

\* uCxAtUrcQueueEnqueueAbort() of an entry that did not start the wrap
LEMMA AbortInPlace ==
  ASSUME LayoutTypes, Layout, EnqueueAbort,
         ~(pEnqueueEntry = StartPos /\ isWrapped)
  PROVE  LayoutTypes' /\ Layout'
<1> DEFINE p == pEnqueueEntry
           prefix == PrefixSize(mem[p].strLineLen)
<1>1. p # NULL
  BY DEF EnqueueAbort
<1>2. /\ p \in Nat /\ StartPos <= p /\ Even(p) /\ WriteBase = p
      /\ prefix \in Nat /\ writePos = p + prefix
  BY <1>1, PendingFacts
<1>3. /\ usedBytes' = usedBytes - prefix /\ writePos' = p
      /\ enqueueCapacity' = 0 /\ pEnqueueEntry' = NULL /\ payloadLen' = 0
      /\ UNCHANGED <<readPos, wrapPos, isWrapped, mem, chain>>
  BY DEF EnqueueAbort, BegunSize
<1>4. WriteBase' = WriteBase
  BY <1>2, <1>3 DEF WriteBase
<1> HIDE DEF prefix
<1>5. /\ readPos \in Nat /\ StartPos \in Nat /\ BufferLen \in Nat
      /\ wrapPos \in Nat /\ writePos \in Nat /\ usedBytes \in Nat
      /\ writePos <= BufferLen /\ StartPos <= readPos
  BY RingFacts
<1>6. usedBytes' = IF isWrapped THEN (wrapPos - readPos) + (p - StartPos)
                                ELSE p - readPos
  <2>1. CASE isWrapped
    BY <1>2, <1>3, <1>5, <2>1, RingFacts
  <2>2. CASE ~isWrapped
    BY <1>2, <1>3, <1>5, <2>2, RingFacts
  <2> QED
    BY <2>1, <2>2
<1>7. IF isWrapped THEN p <= readPos /\ readPos < wrapPos
                   ELSE readPos <= p /\ wrapPos = BufferLen
  <2>1. CASE isWrapped
    <3>1. writePos <= readPos /\ readPos < wrapPos
      BY <2>1, RingFacts
    <3> QED
      BY <1>2, <1>5, <2>1, <3>1
  <2>2. CASE ~isWrapped
    BY <1>2, <2>2, RingFacts, ReadBeforeWrite
  <2> QED
    BY <2>1, <2>2
<1>8. LayoutTypes'
  <2>1. usedBytes' \in Nat /\ usedBytes' <= BufferLen
    <3>1. CASE isWrapped
      <4>1. readPos < wrapPos /\ wrapPos <= BufferLen
        BY <3>1, RingFacts
      <4> QED
        BY <1>2, <1>5, <1>6, <1>7, <3>1, <4>1
    <3>2. CASE ~isWrapped
      <4>1. readPos <= p /\ p <= BufferLen
        BY <1>2, <1>5, <1>7, <3>2
      <4> QED
        BY <1>2, <1>5, <1>6, <3>2, <4>1
    <3> QED
      BY <3>1, <3>2
  <2>2. p \in StartPos .. BufferLen
    BY <1>2, <1>5
  <2>3. /\ 0 \in 0 .. BufferLen /\ 0 \in 0 .. UINT16_MAX
        /\ usedBytes' \in 0 .. BufferLen
    BY <1>5, <2>1
  <2> QED
    BY <1>3, <2>2, <2>3 DEF LayoutTypes
<1>9. EntryShape' /\ EntryBounds' /\ EntryOrder' /\ EntriesIntact'
  BY <1>3, <1>4 DEF Layout, EntryShape, EntryBounds, EntryOrder, EntriesIntact, Intact
<1>10. Linked'
  BY <1>3, <1>4 DEF Layout, Linked, Consecutive
<1>11. Positions'
  BY <1>1, <1>2, <1>3, <1>4, <1>6, <1>7, UsedWhilePending DEF Positions, Even
<1>12. PendingShape'
  BY <1>3 DEF PendingShape
<1> QED
  BY <1>8, <1>9, <1>10, <1>11, <1>12 DEF Layout

\* ... and of one that did: the ring is as it was before the wrap.
LEMMA AbortUnwraps ==
  ASSUME LayoutTypes, Layout, EnqueueAbort,
         pEnqueueEntry = StartPos /\ isWrapped
  PROVE  LayoutTypes' /\ Layout'
<1> DEFINE n == Len(chain)
           prefix == PrefixSize(mem[pEnqueueEntry].strLineLen)
<1>1. pEnqueueEntry # NULL
  BY DEF EnqueueAbort
<1>2. /\ WriteBase = StartPos
      /\ prefix \in Nat /\ prefix >= 5 /\ writePos = StartPos + prefix
  BY <1>1, PendingFacts
<1>3. /\ usedBytes' = usedBytes - prefix /\ writePos' = wrapPos
      /\ wrapPos' = BufferLen /\ isWrapped' = FALSE
      /\ enqueueCapacity' = 0 /\ pEnqueueEntry' = NULL /\ payloadLen' = 0
      /\ UNCHANGED <<readPos, mem, chain>>
  BY DEF EnqueueAbort, BegunSize
<1>4. WriteBase' = wrapPos
  BY <1>3 DEF WriteBase
<1> HIDE DEF prefix
<1>5. /\ readPos \in Nat /\ StartPos \in Nat /\ BufferLen \in Nat
      /\ wrapPos \in Nat /\ writePos \in Nat /\ usedBytes \in Nat
      /\ wrapPos <= BufferLen /\ StartPos <= readPos /\ StartPos <= wrapPos
      /\ writePos <= readPos /\ readPos < wrapPos
      /\ usedBytes = (wrapPos - readPos) + (writePos - StartPos)
      /\ n \in Nat
  BY RingFacts DEF LayoutTypes
<1>6. usedBytes' = wrapPos - readPos
  BY <1>2, <1>3, <1>5
<1>7. ASSUME NEW i \in 1 .. n
      PROVE  /\ chain[i].off \in Nat /\ chain[i].end \in Nat
             /\ StartPos < chain[i].off /\ StartPos < chain[i].end
             /\ readPos <= chain[i].off /\ chain[i].end <= wrapPos
  <2>1. /\ chain[i].off \in Nat /\ chain[i].end \in Nat
        /\ StartPos <= chain[i].off /\ chain[i].off < chain[i].end
    BY EntryExtent, ChainTypes DEF Layout
  <2>2. \/ chain[i].end <= StartPos
        \/ readPos <= chain[i].off /\ chain[i].end <= wrapPos
    BY <1>2, EntrySide
  <2>3. StartPos < readPos
    BY <1>2, <1>5
  <2>4. readPos <= chain[i].off /\ chain[i].end <= wrapPos
    BY <1>5, <2>1, <2>2
  <2>5. StartPos < chain[i].off /\ StartPos < chain[i].end
    BY <1>5, <2>1, <2>3, <2>4
  <2> QED
    BY <2>1, <2>4, <2>5
<1>8. chain # <<>> /\ n >= 1
  <2>1. chain # <<>>
    BY DEF Layout, Linked
  <2> QED
    BY <1>5, <2>1 DEF LayoutTypes
<1>9. chain[n].end = wrapPos
  <2>1. Consecutive(chain[n].end, StartPos)
    BY <1>2, <1>8 DEF Layout, Linked
  <2>2. n \in 1 .. n
    BY <1>5, <1>8
  <2>3. chain[n].end # StartPos
    BY <1>5, <1>7, <2>2
  <2> QED
    BY <2>1, <2>3 DEF Consecutive
<1>10. LayoutTypes'
  <2>1. /\ wrapPos \in StartPos .. BufferLen /\ BufferLen \in StartPos .. BufferLen
        /\ 0 \in 0 .. BufferLen /\ 0 \in 0 .. UINT16_MAX
    BY <1>5
  <2>2. usedBytes' \in 0 .. BufferLen
    BY <1>5, <1>6
  <2> QED
    BY <1>3, <2>1, <2>2 DEF LayoutTypes
<1>11. EntryShape' /\ EntriesIntact'
  BY <1>3 DEF Layout, EntryShape, EntriesIntact, Intact
<1>12. EntryBounds'
  BY <1>3, <1>4, <1>7 DEF EntryBounds
<1>13. EntryOrder'
  <2> SUFFICES ASSUME NEW i \in 1 .. n, NEW j \in 1 .. n, i < j
               PROVE  chain[i].end <= chain[j].off
    BY <1>3 DEF EntryOrder
  <2>1. \/ chain[i].end <= chain[j].off
        \/ chain[j].end <= StartPos
    BY <1>2 DEF Layout, EntryOrder
  <2> QED
    BY <1>5, <1>7, <2>1
<1>14. Linked'
  <2>1. ASSUME NEW i \in 1 .. n - 1
        PROVE  chain[i + 1].off = chain[i].end
    <3>1. i + 1 \in 1 .. n
      BY <1>5
    <3>2. Consecutive(chain[i].end, chain[i + 1].off)
      BY DEF Layout, Linked
    <3>3. chain[i + 1].off # StartPos
      BY <1>5, <1>7, <3>1
    <3> QED
      BY <3>2, <3>3 DEF Consecutive
  <2>2. chain[1].off = readPos
    BY <1>8 DEF Layout, Linked
  <2> QED
    BY <1>3, <1>4, <1>8, <1>9, <2>1, <2>2 DEF Linked, Consecutive
<1>15. Positions'
  <2>1. Even(wrapPos) \/ wrapPos = BufferLen
    <3>1. n \in 1 .. n
      BY <1>5, <1>8
    <3> QED
      BY <1>9, <3>1, EntryExtent DEF Layout
  <2>2. readPos <= wrapPos
    BY <1>5
  <2> QED
    BY <1>1, <1>3, <1>4, <1>6, <2>1, <2>2, UsedWhilePending DEF Positions, Even
<1>16. PendingShape'
  BY <1>3 DEF PendingShape
<1> QED
  BY <1>10, <1>11, <1>12, <1>13, <1>14, <1>15, <1>16 DEF Layout

\* uCxAtUrcQueueEnqueueAbort(), whether or not the entry wrapped the ring.
LEMMA EnqueueAbortInv ==
  ASSUME Inv, EnqueueAbort
  PROVE  Inv'
<1>1. LayoutTypes /\ Layout
  BY InvParts
<1>2. LayoutTypes' /\ Layout'
  BY <1>1, AbortInPlace, AbortUnwraps
<1>3. UNCHANGED <<readPos, reading, chain>>
  BY DEF EnqueueAbort
<1> QED
  BY <1>2, <1>3, EnqueuerStep

\* What Place writes.
LEMMA PlaceFacts ==
  ASSUME LayoutTypes, NEW u \in Urc, NEW off \in Nat, NEW rd, NEW wrapped,
         off + PrefixSize(LineLen[u]) <= BufferLen,
         Place(u, off, PrefixSize(LineLen[u]), rd, wrapped)
  PROVE  /\ mem' \in [Offset -> Cell]
         /\ off \in Offset
         /\ mem'[off] = Header(u)
         /\ \A o \in off + 1 .. off + PrefixSize(LineLen[u]) - 1 : mem'[o] = Data(u)
         /\ \A o \in Offset :
              o < off \/ o >= off + PrefixSize(LineLen[u]) => mem'[o] = mem[o]
<1> DEFINE size == PrefixSize(LineLen[u])
<1>1. LineLen[u] \in Nat /\ size \in Nat /\ size >= 5
  BY DEF PrefixSize, HeaderSize
<1>2. mem' = [o \in Offset |->
                IF o = off THEN Header(u)
                ELSE IF off < o /\ o < off + size THEN Data(u)
                ELSE mem[o]]
  BY DEF Place
<1> HIDE DEF size
<1>3. Header(u) \in Cell /\ Data(u) \in Cell
  BY <1>1 DEF Header, Data, Cell
<1>4. mem' \in [Offset -> Cell]
  BY <1>2, <1>3 DEF LayoutTypes
<1>5. BufferLen \in Nat /\ off + size <= BufferLen
  BY DEF size
<1>6. off \in Offset
  BY <1>1, <1>5 DEF Offset
<1>7. mem'[off] = Header(u)
  BY <1>2, <1>6
<1>8. ASSUME NEW o \in off + 1 .. off + size - 1
      PROVE  mem'[o] = Data(u)
  <2>1. o \in Offset /\ o # off /\ off < o /\ o < off + size
    BY <1>1, <1>5 DEF Offset
  <2> QED
    BY <1>2, <2>1
<1>9. ASSUME NEW o \in Offset, o < off \/ o >= off + size
      PROVE  mem'[o] = mem[o]
  <2>1. o # off /\ ~(off < o /\ o < off + size)
    BY <1>1, <1>9 DEF Offset
  <2> QED
    BY <1>2, <2>1
<1> QED
  BY <1>4, <1>6, <1>7, <1>8, <1>9 DEF size

\* The pending entry's invariant after the entry was placed at off.
LEMMA PlacePending ==
  ASSUME LayoutTypes, NEW u \in Urc, NEW off \in Nat, NEW rd \in Nat,
         NEW wrapped \in BOOLEAN,
         wrapped => off + PrefixSize(LineLen[u]) <= rd,
         ~wrapped => off + PrefixSize(LineLen[u]) <= BufferLen,
         rd <= BufferLen, StartPos <= off, Even(off),
         Even(rd), LineLen[u] <= UINT16_MAX,
         Place(u, off, PrefixSize(LineLen[u]), rd, wrapped),
         readPos' = rd, isWrapped' = wrapped, payloadLen' = 0
  PROVE  /\ PendingShape'
         /\ enqueueCapacity' \in 0 .. BufferLen
         /\ off + PrefixSize(LineLen[u]) <= BufferLen
<1> DEFINE size == PrefixSize(LineLen[u])
           limit == IF wrapped THEN rd ELSE BufferLen
<1>1. LineLen[u] \in Nat /\ size \in Nat /\ size >= 5
  BY DEF PrefixSize, HeaderSize
<1>2. limit \in Nat /\ limit <= BufferLen /\ (Even(limit) \/ limit = BufferLen)
  OBVIOUS
<1>3. off + size <= limit
  OBVIOUS
<1>4. /\ writePos' = off + size /\ enqueueCapacity' = limit - (off + size)
      /\ pEnqueueEntry' = off
  BY DEF Place, RoomEnd
<1> HIDE DEF size, limit
<1>5. off + size <= BufferLen
  BY <1>1, <1>2, <1>3
<1>6. /\ enqueueCapacity' \in Nat /\ enqueueCapacity' <= BufferLen
      /\ writePos' + enqueueCapacity' = limit
  BY <1>1, <1>2, <1>3, <1>4
<1>7. /\ mem'[off] = Header(u)
      /\ \A o \in off + 1 .. off + size - 1 : mem'[o] = Data(u)
  BY <1>5, PlaceFacts DEF size
<1>8. mem'[off].urc = u
  BY <1>7 DEF Header
<1>9. \A o \in off + 1 .. writePos' + payloadLen' - 1 : mem'[o] = Data(u)
  <2>1. writePos' + payloadLen' - 1 = off + size - 1
    BY <1>1, <1>4
  <2> QED
    BY <1>7, <2>1, Zenon
<1>10. /\ Even(writePos' + enqueueCapacity') \/ writePos' + enqueueCapacity' = BufferLen
       /\ writePos' + enqueueCapacity' <= IF isWrapped' THEN readPos' ELSE BufferLen
       /\ payloadLen' <= enqueueCapacity'
  <2>1. limit <= limit
    BY <1>2
  <2>2. (IF isWrapped' THEN readPos' ELSE BufferLen) = limit
    BY DEF limit
  <2> QED
    BY <1>2, <1>6, <2>1, <2>2
<1>11. PendingShape'
  BY <1>4, <1>7, <1>8, <1>9, <1>10 DEF PendingShape, Even, size
<1> QED
  BY <1>5, <1>6, <1>11 DEF size

\* An empty queue is not wrapped; it starts over at startPos.
LEMMA EmptyFacts ==
  ASSUME LayoutTypes, Layout, pEnqueueEntry = NULL
  PROVE  /\ usedBytes = 0 <=> chain = <<>>
         /\ usedBytes = 0 => /\ ~isWrapped /\ wrapPos = BufferLen
                             /\ ReadPos0 = StartPos /\ WritePos0 = StartPos
                             /\ WrapPos0 = wrapPos /\ IsWrapped0 = isWrapped
         /\ usedBytes > 0 => /\ ReadPos0 = readPos /\ WritePos0 = writePos
                             /\ WrapPos0 = wrapPos /\ IsWrapped0 = isWrapped
                             /\ Even(readPos)
<1>1. chain # <<>> => usedBytes > 0
  BY FirstEntry
<1>2. /\ usedBytes \in Nat /\ readPos \in Nat /\ writePos \in Nat
      /\ WriteBase = writePos /\ isWrapped \in BOOLEAN
      /\ ~isWrapped => usedBytes = writePos - readPos /\ wrapPos = BufferLen
  BY RingFacts
<1>3. chain = <<>> => usedBytes = 0 /\ ~isWrapped
  BY <1>2 DEF Layout, Linked
<1>4. usedBytes > 0 => Even(readPos)
  BY DEF Layout, Positions
<1> QED
  BY <1>1, <1>2, <1>3, <1>4 DEF ReadPos0, WritePos0, WrapPos0, IsWrapped0

\* The entry goes behind the last one.
LEMMA PlaceBehind ==
  ASSUME LayoutTypes, Layout, pEnqueueEntry = NULL,
         NEW u \in Urc, LineLen[u] <= UINT16_MAX,
         HasRoom(PrefixSize(LineLen[u])), ~PlaceAtStart(PrefixSize(LineLen[u])),
         readPos' = ReadPos0,
         Place(u, WritePos0, PrefixSize(LineLen[u]), ReadPos0, IsWrapped0),
         wrapPos' = WrapPos0, isWrapped' = IsWrapped0, payloadLen' = 0,
         UNCHANGED chain
  PROVE  LayoutTypes' /\ Layout'
<1> DEFINE size == PrefixSize(LineLen[u])
           r == ReadPos0
           w == WritePos0
<1>1. LineLen[u] \in Nat /\ size \in Nat /\ size >= 5
  BY DEF PrefixSize, HeaderSize
<1>2. /\ isWrapped' = isWrapped /\ wrapPos' = wrapPos /\ readPos' = r
      /\ pEnqueueEntry' = w /\ writePos' = w + size
      /\ usedBytes' = usedBytes + size
      /\ WriteBase' = w
  <2>1. WrapPos0 = wrapPos /\ IsWrapped0 = isWrapped
    <3>1. usedBytes \in Nat
      BY RingFacts
    <3> QED
      BY <3>1, EmptyFacts
  <2>2. /\ pEnqueueEntry' = w /\ writePos' = w + size
        /\ usedBytes' = usedBytes + size
    BY DEF Place
  <2>3. w # NULL
    BY RingFacts DEF WritePos0, NULL
  <2> QED
    BY <2>1, <2>2, <2>3 DEF WriteBase
<1>3. /\ StartPos \in Nat /\ BufferLen \in Nat /\ wrapPos \in Nat
      /\ usedBytes \in Nat /\ isWrapped \in BOOLEAN
      /\ wrapPos <= BufferLen /\ StartPos <= wrapPos /\ StartPos <= BufferLen
  BY RingFacts
<1>4. /\ r \in Nat /\ w \in Nat /\ StartPos <= r /\ StartPos <= w /\ r <= BufferLen
      /\ isWrapped => /\ w <= r /\ r < wrapPos
                      /\ usedBytes = (wrapPos - r) + (w - StartPos)
      /\ ~isWrapped => r <= w /\ wrapPos = BufferLen /\ usedBytes = w - r
      /\ Even(r)
      /\ Even(w) \/ w = BufferLen
      /\ chain # <<>> => r = readPos /\ w = WriteBase
      /\ chain = <<>> => ~isWrapped /\ r = w
  <2>1. CASE usedBytes = 0
    <3>1. r = StartPos /\ w = StartPos /\ ~isWrapped /\ chain = <<>> /\ wrapPos = BufferLen
      BY <2>1, EmptyFacts
    <3>2. Even(StartPos)
      BY DEF Even
    <3> HIDE DEF r, w
    <3> QED
      BY <1>3, <2>1, <3>1, <3>2
  <2>2. CASE usedBytes > 0
    <3>1. r = readPos /\ w = writePos /\ chain # <<>> /\ Even(readPos)
      BY <2>2, <1>3, EmptyFacts
    <3>2. WriteBase = writePos
      BY DEF WriteBase
    <3>3. Even(WriteBase) \/ WriteBase = BufferLen
      BY DEF Layout, Positions
    <3> HIDE DEF r, w
    <3> QED
      BY <3>1, <3>2, <3>3, RingFacts
  <2> QED
    BY <1>3, <2>1, <2>2
<1>5. /\ isWrapped => w + size <= r
      /\ ~isWrapped => w + size <= BufferLen
      /\ size <= BufferLen - usedBytes
  <2>1. IsWrapped0 = isWrapped
    BY <1>3, EmptyFacts
  <2>2. PlaceAtWritePos(size) /\ size <= BufferLen - usedBytes
    BY DEF HasRoom
  <2>3. \/ isWrapped /\ size <= r - w
        \/ ~isWrapped /\ size <= BufferLen - w
    BY <2>1, <2>2 DEF PlaceAtWritePos, FitsWrapped, FitsTail, TailSpace
  <2> HIDE DEF r, w, size
  <2>4. CASE isWrapped
    BY <1>1, <1>3, <1>4, <2>2, <2>3, <2>4
  <2>5. CASE ~isWrapped
    BY <1>1, <1>3, <1>4, <2>2, <2>3, <2>5
  <2> QED
    BY <2>4, <2>5
<1>6. w + size <= BufferLen /\ w # BufferLen /\ Even(w)
  <2> HIDE DEF r, w, size
  <2>1. w + size <= BufferLen
    BY <1>1, <1>3, <1>4, <1>5
  <2>2. w # BufferLen
    BY <1>1, <1>3, <1>4, <2>1
  <2> QED
    BY <1>4, <2>1, <2>2
<1>7. /\ mem' \in [Offset -> Cell] /\ w \in Offset
      /\ \A o \in Offset : o < w \/ o >= w + size => mem'[o] = mem[o]
  BY <1>4, <1>6, PlaceFacts
<1>8. PendingShape' /\ enqueueCapacity' \in 0 .. BufferLen
  <2>1. /\ IsWrapped0 => w + size <= r
        /\ ~IsWrapped0 => w + size <= BufferLen
        /\ IsWrapped0 \in BOOLEAN
    <3>1. IsWrapped0 = isWrapped
      BY <1>3, EmptyFacts
    <3> QED
      BY <1>3, <1>5, <3>1
  <2> QED
    BY <1>4, <1>6, <2>1, PlacePending
<1> HIDE DEF r, w, size
<1>9. LayoutTypes'
  <2>1. readPos' \in StartPos .. BufferLen /\ writePos' \in StartPos .. BufferLen
    BY <1>1, <1>2, <1>3, <1>4, <1>6
  <2>2. usedBytes' \in 0 .. BufferLen
    BY <1>1, <1>2, <1>3, <1>5
  <2>3. payloadLen' \in 0 .. UINT16_MAX
    OBVIOUS
  <2> QED
    BY <1>2, <1>7, <1>8, <2>1, <2>2, <2>3 DEF LayoutTypes
<1>10. EntriesIntact'
  <2>1. ASSUME NEW i \in 1 .. Len(chain)
        PROVE  chain[i].end <= w \/ w + size <= chain[i].off
    <3>1. chain # <<>>
      BY <2>1
    <3>2. /\ chain[i].off \in Nat /\ chain[i].end \in Nat
          /\ \/ chain[i].end <= WriteBase
             \/ isWrapped /\ readPos <= chain[i].off
      BY EntrySide, ChainTypes
    <3> QED
      BY <1>1, <1>4, <1>5, <3>1, <3>2
  <2>2. w \in Nat /\ w + size \in Nat
    BY <1>1, <1>4
  <2>3. \A i \in 1 .. Len(chain) : IntactIn(mem', chain[i])
    BY <1>7, <2>1, <2>2, KeptIntact
  <2> QED
    BY <2>3 DEF EntriesIntact, Intact, IntactIn
<1>11. EntryShape'
  BY DEF Layout, EntryShape
<1>12. CASE chain = <<>>
  <2>1. Len(chain') = 0 /\ chain' = <<>>
    BY <1>12
  <2>2. EntryBounds' /\ EntryOrder'
    BY <2>1 DEF EntryBounds, EntryOrder
  <2>3. Linked'
    BY <1>2, <1>4, <1>12, <2>1 DEF Linked
  <2> QED
    <3>1. Positions'
      <4>1. ~isWrapped' /\ readPos' <= writePos' /\ wrapPos' = BufferLen
        BY <1>1, <1>2, <1>4, <1>12
      <4>2. usedBytes' = writePos' - readPos'
        BY <1>1, <1>2, <1>3, <1>4, <1>12
      <4> QED
        BY <1>2, <1>4, <1>6, <4>1, <4>2 DEF Positions, Even
    <3> QED
      BY <1>8, <1>9, <1>10, <1>11, <2>2, <2>3, <3>1 DEF Layout
<1>13. CASE chain # <<>>
  <2>1. readPos' = readPos /\ WriteBase' = WriteBase
    BY <1>2, <1>4, <1>13
  <2>2. EntryBounds' /\ EntryOrder'
    BY <1>2, <2>1 DEF Layout, EntryBounds, EntryOrder
  <2>3. Linked'
    BY <1>2, <1>13, <2>1 DEF Layout, Linked, Consecutive
  <2>4. Positions'
    <3>1. IF isWrapped THEN writePos' <= readPos' /\ readPos' < wrapPos
                       ELSE readPos' <= writePos' /\ wrapPos = BufferLen
      BY <1>1, <1>2, <1>3, <1>4, <1>5
    <3>2. usedBytes' = IF isWrapped
                       THEN (wrapPos - readPos') + (writePos' - StartPos)
                       ELSE writePos' - readPos'
      <4>1. CASE isWrapped
        BY <1>1, <1>2, <1>3, <1>4, <4>1
      <4>2. CASE ~isWrapped
        BY <1>1, <1>2, <1>3, <1>4, <4>2
      <4> QED
        BY <4>1, <4>2
    <3> QED
      BY <1>2, <1>4, <1>6, <3>1, <3>2 DEF Positions, Even
  <2> QED
    BY <1>8, <1>9, <1>10, <1>11, <2>2, <2>3, <2>4 DEF Layout
<1> QED
  BY <1>12, <1>13

\* The ring wraps: the entry goes before the first one.
LEMMA PlaceBefore ==
  ASSUME LayoutTypes, Layout, pEnqueueEntry = NULL,
         NEW u \in Urc, LineLen[u] <= UINT16_MAX,
         HasRoom(PrefixSize(LineLen[u])), PlaceAtStart(PrefixSize(LineLen[u])),
         readPos' = ReadPos0,
         Place(u, StartPos, PrefixSize(LineLen[u]), ReadPos0, TRUE),
         wrapPos' = WritePos0, isWrapped' = TRUE, payloadLen' = 0,
         UNCHANGED chain
  PROVE  /\ LayoutTypes' /\ Layout'
         /\ readPos' = readPos
<1> DEFINE size == PrefixSize(LineLen[u])
           n == Len(chain)
<1>1. LineLen[u] \in Nat /\ size \in Nat /\ size >= 5
  BY DEF PrefixSize, HeaderSize
<1>2. ~IsWrapped0 /\ size <= ReadPos0 - StartPos /\ size <= BufferLen - usedBytes
  BY DEF PlaceAtStart, FitsHead, HeadSpace, HasRoom
<1> HIDE DEF size
<1>3. usedBytes > 0
  <2>1. ReadPos0 # StartPos
    BY <1>1, <1>2
  <2>2. usedBytes \in Nat /\ usedBytes # 0
    BY <2>1, RingFacts, EmptyFacts
  <2> QED
    BY <2>2
<1>4. /\ ReadPos0 = readPos /\ WritePos0 = writePos /\ ~isWrapped
      /\ Even(readPos) /\ chain # <<>>
  <2>1. usedBytes # 0
    BY <1>3
  <2> QED
    BY <1>2, <1>3, <2>1, EmptyFacts
<1>5. /\ readPos \in Nat /\ writePos \in Nat /\ StartPos \in Nat /\ BufferLen \in Nat
      /\ writePos <= BufferLen /\ readPos <= BufferLen /\ StartPos <= readPos
      /\ usedBytes \in Nat /\ usedBytes = writePos - readPos
      /\ WriteBase = writePos
  BY <1>4, RingFacts
<1>6. readPos < writePos
  BY <1>3, <1>5
<1>7. StartPos + size <= readPos
  BY <1>1, <1>2, <1>4, <1>5
<1>8. /\ readPos' = readPos /\ wrapPos' = writePos /\ isWrapped' = TRUE
      /\ pEnqueueEntry' = StartPos /\ writePos' = StartPos + size
      /\ usedBytes' = usedBytes + size
      /\ WriteBase' = StartPos
  <2>1. /\ pEnqueueEntry' = StartPos /\ writePos' = StartPos + size
        /\ usedBytes' = usedBytes + size
    BY DEF Place, size
  <2>2. StartPos # NULL
    BY DEF NULL
  <2> QED
    BY <1>4, <2>1, <2>2 DEF WriteBase
<1>9. Even(StartPos)
  BY DEF Even
<1>10. StartPos + size <= BufferLen
  BY <1>1, <1>5, <1>7
<1>11. Place(u, StartPos, size, readPos, isWrapped')
  BY <1>4, <1>8 DEF size, Place
<1>12. /\ mem' \in [Offset -> Cell] /\ StartPos \in Offset
       /\ \A o \in Offset : o < StartPos \/ o >= StartPos + size => mem'[o] = mem[o]
  BY <1>5, <1>10, <1>11, PlaceFacts DEF size
<1>13. PendingShape' /\ enqueueCapacity' \in 0 .. BufferLen
  <2>1. isWrapped' /\ isWrapped' \in BOOLEAN
    BY <1>8
  <2> QED
    <3>1. /\ StartPos \in Nat /\ readPos \in Nat /\ readPos <= BufferLen
          /\ StartPos <= StartPos /\ Even(StartPos) /\ Even(readPos)
          /\ isWrapped' => StartPos + PrefixSize(LineLen[u]) <= readPos
          /\ ~isWrapped' => StartPos + PrefixSize(LineLen[u]) <= BufferLen
      BY <1>4, <1>5, <1>7, <1>9, <2>1 DEF size
    <3>2. Place(u, StartPos, PrefixSize(LineLen[u]), readPos, isWrapped')
      BY <1>11 DEF size
    <3>3. readPos' = readPos
      BY <1>8
    <3> HIDE DEF size
    <3> QED
      BY <2>1, <3>1, <3>2, <3>3, PlacePending, Zenon
<1>14. ASSUME NEW i \in 1 .. n
       PROVE  /\ chain[i].off \in Nat /\ chain[i].end \in Nat
              /\ readPos <= chain[i].off /\ chain[i].end <= writePos
  BY <1>4, <1>5, ChainTypes DEF Layout, EntryBounds
<1>15. LayoutTypes'
  <2>1. /\ readPos' \in StartPos .. BufferLen /\ writePos' \in StartPos .. BufferLen
        /\ wrapPos' \in StartPos .. BufferLen
    BY <1>1, <1>5, <1>6, <1>8, <1>10
  <2>2. usedBytes' \in 0 .. BufferLen
    BY <1>1, <1>2, <1>5, <1>8
  <2>3. payloadLen' \in 0 .. UINT16_MAX
    OBVIOUS
  <2>4. pEnqueueEntry' \in Offset /\ chain' \in Seq(ChainEntry)
    BY <1>8, <1>12 DEF LayoutTypes
  <2> QED
    BY <1>8, <1>12, <1>13, <2>1, <2>2, <2>3, <2>4 DEF LayoutTypes
<1>16. EntriesIntact'
  <2>1. ASSUME NEW i \in 1 .. n
        PROVE  chain[i].end <= StartPos \/ StartPos + size <= chain[i].off
    BY <1>1, <1>5, <1>7, <1>14
  <2>2. StartPos \in Nat /\ StartPos + size \in Nat
    BY <1>1, <1>5
  <2>3. \A i \in 1 .. n : IntactIn(mem', chain[i])
    BY <1>12, <2>1, <2>2, KeptIntact
  <2> QED
    BY <2>3 DEF EntriesIntact, Intact, IntactIn
<1>17. EntryShape'
  BY DEF Layout, EntryShape
<1>18. EntryBounds'
  BY <1>8, <1>14 DEF EntryBounds
<1>19. EntryOrder'
  BY <1>4 DEF Layout, EntryOrder
<1>20. Linked'
  <2>1. \A i \in 1 .. n - 1 : chain[i + 1].off = chain[i].end
    BY <1>4 DEF Layout, Linked, Consecutive
  <2>2. chain[1].off = readPos /\ chain[n].end = writePos
    BY <1>4, <1>5 DEF Layout, Linked, Consecutive
  <2> QED
    BY <1>4, <1>8, <2>1, <2>2 DEF Linked, Consecutive
<1>21. Positions'
  <2>1. writePos' <= readPos' /\ readPos' < wrapPos' /\ isWrapped'
    BY <1>6, <1>7, <1>8
  <2>2. usedBytes' = (wrapPos' - readPos') + (writePos' - StartPos)
    BY <1>1, <1>5, <1>8
  <2> QED
    BY <1>4, <1>8, <1>9, <2>1, <2>2 DEF Positions, Even
<1> QED
  BY <1>8, <1>13, <1>15, <1>16, <1>17, <1>18, <1>19, <1>20, <1>21 DEF Layout

\* uCxAtUrcQueueEnqueueBegin(), on either side of the ring.
LEMMA EnqueueBeginInv ==
  ASSUME Inv, NEW u \in Urc, EnqueueBegin(u)
  PROVE  Inv'
<1>1. LayoutTypes /\ Layout
  BY InvParts
<1>2. pEnqueueEntry = NULL /\ UNCHANGED <<reading, chain>> /\ readPos' = ReadPos0
  BY DEF EnqueueBegin
<1>3. LayoutTypes' /\ Layout'
  <2>1. CASE PlaceAtStart(PrefixSize(LineLen[u]))
    BY <1>1, <2>1, PlaceBefore DEF EnqueueBegin
  <2>2. CASE ~PlaceAtStart(PrefixSize(LineLen[u]))
    BY <1>1, <2>2, PlaceBehind DEF EnqueueBegin
  <2> QED
    BY <2>1, <2>2
<1>4. chain # <<>> => readPos' = readPos
  <2>1. usedBytes \in Nat
    BY <1>1, RingFacts
  <2> QED
    BY <1>1, <1>2, <2>1, EmptyFacts
<1> QED
  BY <1>1, <1>2, <1>3, <1>4, EnqueuerStep

\* A URC for which there is no room: an empty queue may start over.
LEMMA EnqueueDropInv ==
  ASSUME Inv, NEW u \in Urc, EnqueueDrop(u)
  PROVE  Inv'
<1>1. LayoutTypes /\ Layout
  BY InvParts
<1>2. /\ pEnqueueEntry = NULL
      /\ UNCHANGED <<usedBytes, enqueueCapacity, pEnqueueEntry, mem, payloadLen,
                     reading, chain>>
  BY DEF EnqueueDrop
<1>3. CASE UNCHANGED <<readPos, writePos, wrapPos, isWrapped>>
  <2>1. UNCHANGED layout
    BY <1>2, <1>3 DEF layout, ring
  <2>2. LayoutTypes' /\ Layout'
    BY <1>1, <2>1, LayoutUnchanged
  <2> QED
    BY <1>2, <1>3, <2>2, EnqueuerStep
<1>4. CASE /\ usedBytes = 0
           /\ readPos' = StartPos /\ writePos' = StartPos
           /\ wrapPos' = BufferLen /\ isWrapped' = FALSE
  <2>1. chain = <<>> /\ chain' = <<>> /\ Len(chain') = 0
    BY <1>1, <1>2, <1>4, EmptyFacts
  <2>2. LayoutTypes'
    <3>1. StartPos \in StartPos .. BufferLen /\ BufferLen \in StartPos .. BufferLen
      BY <1>1, RingFacts
    <3>2. /\ usedBytes' = usedBytes /\ enqueueCapacity' = enqueueCapacity
          /\ pEnqueueEntry' = pEnqueueEntry /\ mem' = mem
          /\ payloadLen' = payloadLen /\ chain' = chain
      BY <1>2
    <3>3. /\ readPos' \in StartPos .. BufferLen
          /\ writePos' \in StartPos .. BufferLen
          /\ wrapPos' \in StartPos .. BufferLen
          /\ isWrapped' \in BOOLEAN
      BY <1>4, <3>1, Zenon
    <3> QED
      BY <1>1, <3>2, <3>3, Zenon DEF LayoutTypes
  <2>3. WriteBase' = StartPos
    BY <1>2, <1>4 DEF WriteBase
  <2>4. EntryShape' /\ EntryBounds' /\ EntryOrder' /\ EntriesIntact'
    BY <2>1 DEF EntryShape, EntryBounds, EntryOrder, EntriesIntact
  <2>5. Linked'
    BY <1>4, <2>1, <2>3 DEF Linked
  <2>6. Positions'
    BY <1>2, <1>4, <2>3 DEF Positions, Even
  <2>7. PendingShape'
    BY <1>2 DEF PendingShape
  <2> QED
    BY <1>2, <2>1, <2>2, <2>4, <2>5, <2>6, <2>7, EnqueuerStep DEF Layout
<1> QED
  BY <1>3, <1>4 DEF EnqueueDrop, StartsOver

-----------------------------------------------------------------------------
(* The theorems                                                             *)

\* A step that changes nothing.
LEMMA StutterInv ==
  ASSUME Inv, UNCHANGED vars
  PROVE  Inv'
<1>1. UNCHANGED layout /\ UNCHANGED reading
  BY DEF vars, layout
<1>2. ReaderTypes' /\ ReaderShape' /\ ReaderHoldsFirst'
  BY <1>1, InvParts DEF layout, ring, reading, ReaderTypes, ReaderShape,
                        ReaderHoldsFirst
<1> QED
  BY <1>1, <1>2, ReaderStep

\* Every step keeps the inductive invariant.
LEMMA NextInv ==
  ASSUME Inv, [Next]_vars
  PROVE  Inv'
<1>1. ASSUME NEW u \in Urc, EnqueueBegin(u) PROVE Inv'
  BY <1>1, EnqueueBeginInv
<1>2. ASSUME NEW n \in 1 .. BufferLen, FillPayload(n) PROVE Inv'
  BY <1>2, FillPayloadInv
<1>3. CASE EnqueueEnd
  BY <1>3, EnqueueEndInv
<1>4. CASE EnqueueAbort
  BY <1>4, EnqueueAbortInv
<1>5. ASSUME NEW t \in Thread, Reader(t) PROVE Inv'
  <2>1. CASE DequeueTryLock(t)
    BY <2>1, TryLockInv
  <2>2. CASE DequeueLook(t)
    BY <2>2, LookInv
  <2>3. CASE DequeueTake(t)
    BY <2>3, TakeInv
  <2>4. CASE DequeueNone(t)
    BY <2>4, NoneInv
  <2>5. CASE DequeueEnd(t)
    BY <2>5, DequeueEndInv
  <2>6. CASE DequeueRelease(t)
    BY <2>6, ReleaseInv
  <2> QED
    BY <1>5, <2>1, <2>2, <2>3, <2>4, <2>5, <2>6 DEF Reader
<1>6. ASSUME NEW u \in Urc, EnqueueDrop(u) PROVE Inv'
  BY <1>6, EnqueueDropInv
<1>7. CASE UNCHANGED vars
  BY <1>7, StutterInv
<1> QED
  BY <1>1, <1>2, <1>3, <1>4, <1>5, <1>6, <1>7 DEF Next, Enqueuer

\* Whatever the threads do, the ring keeps its shape: the entries lie in the
\* buffer one behind the other, in the order in which they came.
THEOREM RingInvariant == Spec => []Inv
<1>1. Init => Inv
  BY InitInv
<1>2. Inv /\ [Next]_vars => Inv'
  BY NextInv
<1> QED
  BY <1>1, <1>2, PTL DEF Spec

\* No position leaves the buffer and no difference of positions is negative.
THEOREM TypeCorrect == Spec => []TypeOK
<1>1. Inv => TypeOK
  BY DEF Inv
<1> QED
  BY <1>1, RingInvariant, PTL

\* A URC is never overwritten while it is in the queue or in a callback.
THEOREM NothingOverwritten == Spec => []EntriesIntact
<1>1. Inv => EntriesIntact
  BY DEF Inv
<1> QED
  BY <1>1, RingInvariant, PTL

\* The callback reads the oldest URC, which stays where it is until removed.
THEOREM OldestFirst == Spec => []ReaderHoldsFirst
<1>1. Inv => ReaderHoldsFirst
  BY DEF Inv
<1> QED
  BY <1>1, RingInvariant, PTL

\* Every header lies on an even address, in a buffer at any address.
THEOREM AlwaysAligned == Spec => []HeadersAligned
<1>1. Inv => HeadersAligned
  BY DEF Inv, EntryShape, PendingShape, HeadersAligned, Even
<1> QED
  BY <1>1, RingInvariant, PTL

\* The assertion of uCxAtUrcQueueEnqueueEnd() never fails.
THEOREM AssertionHolds == Spec => []PayloadFits
<1>1. Inv => PayloadFits
  <2> SUFFICES ASSUME Inv, pEnqueueEntry # NULL
               PROVE  AdditionalSize(PrefixSize(mem[pEnqueueEntry].strLineLen),
                                     payloadLen, enqueueCapacity)
                        <= enqueueCapacity
    BY DEF PayloadFits
  <2> QED
    BY InvParts, AdditionalFacts
<1> QED
  BY <1>1, RingInvariant, PTL

\* The client may fill the whole room that it is offered.
THEOREM RoomIsFree == Spec => []PayloadRoomIsFree
<1>1. Inv => PayloadRoomIsFree
  <2> SUFFICES ASSUME Inv
               PROVE  PayloadRoomIsFree
    OBVIOUS
  <2>1. LayoutTypes /\ Layout
    BY InvParts
  <2>2. CASE pEnqueueEntry = NULL
    BY <2>2 DEF PayloadRoomIsFree, PayloadBytes
  <2>3. CASE pEnqueueEntry # NULL
    <3>1. /\ WriteBase = pEnqueueEntry /\ pEnqueueEntry \in Nat
          /\ enqueueCapacity \in Nat
          /\ isWrapped => writePos + enqueueCapacity <= readPos
          /\ writePos + enqueueCapacity <= BufferLen
      BY <2>1, <2>3, PendingFacts
    <3>2. /\ writePos \in Nat /\ readPos \in Nat /\ BufferLen \in Nat
          /\ WriteBase < writePos
      BY <2>1, <2>3, RingFacts
    <3>3. PayloadBytes = writePos .. writePos + enqueueCapacity - 1
      BY <2>3 DEF PayloadBytes
    <3>4. PayloadBytes \subseteq Offset
      BY <3>1, <3>2, <3>3 DEF Offset
    <3>5. ASSUME NEW i \in 1 .. Len(chain),
                 NEW o \in PayloadBytes, o \in LiveBytes(chain[i])
          PROVE  FALSE
      <4>1. /\ chain[i].off \in Nat /\ chain[i].end \in Nat
            /\ \/ chain[i].end <= WriteBase
               \/ isWrapped /\ readPos <= chain[i].off
        BY <2>1, EntrySide, ChainTypes
      <4>2. /\ o \in Int /\ chain[i].off <= o /\ o < chain[i].end
        BY <3>5, <4>1 DEF LiveBytes
      <4>3. writePos <= o /\ o < writePos + enqueueCapacity
        BY <3>1, <3>2, <3>3, <4>2
      <4> QED
        BY <3>1, <3>2, <4>1, <4>2, <4>3
    <3> QED
      BY <3>4, <3>5 DEF PayloadRoomIsFree
  <2> QED
    BY <2>2, <2>3
<1> QED
  BY <1>1, RingInvariant, PTL

\* A queue that has been emptied has room for any entry the buffer can hold.
THEOREM SpaceComesBack == Spec => []NoSpaceLeak
<1>1. Inv => NoSpaceLeak
  <2> SUFFICES ASSUME Inv, chain = <<>>, pEnqueueEntry = NULL
               PROVE  HasRoom(BufferLen - StartPos)
    BY DEF NoSpaceLeak
  <2>1. /\ usedBytes = 0 /\ ReadPos0 = StartPos /\ WritePos0 = StartPos
        /\ ~IsWrapped0
    BY InvParts, EmptyFacts
  <2> QED
    BY <2>1 DEF HasRoom, PlaceAtWritePos, PlaceAtStart, FitsHead, FitsTail,
                HeadIsLarger, HeadSpace, TailSpace
<1> QED
  BY <1>1, RingInvariant, PTL
-----------------------------------------------------------------------------
(* Every byte between the positions belongs to an entry                     *)

\* A set of natural numbers has a least one: of the intervals from 0 to its
\* members one contains no other.
LEMMA LeastMember ==
  ASSUME NEW T, T \subseteq Nat, T # {}
  PROVE  \E x \in T : \A y \in T : x <= y
<1> DEFINE R == StrictSubsetOrdering(Nat)
           F == FiniteSubsetsOf(Nat)
           Q == {0 .. x : x \in T}
<1>1. IsWellFoundedOn(R, F)
  BY FS_StrictSubsetOrderingWellFounded
<1>2. Q \subseteq F
  <2>1. ASSUME NEW x \in T
        PROVE  0 .. x \in F
    <3>1. IsFiniteSet(0 .. x)
      BY FS_Interval
    <3> QED
      BY <3>1 DEF FiniteSubsetsOf
  <2> QED
    BY <2>1
<1>3. Q # {}
  OBVIOUS
<1>4. \E q \in Q : \A r \in Q : ~ (<<r, q>> \in R)
  <2> HIDE DEF R, F, Q
  <2> QED
    BY <1>1, <1>2, <1>3, WFMin
<1>5. PICK x \in T : \A y \in T : ~ (<<0 .. y, 0 .. x>> \in R)
  BY <1>4
<1>6. ASSUME NEW y \in T, y < x
      PROVE  FALSE
  <2>1. /\ 0 .. y \subseteq Nat /\ 0 .. x \subseteq Nat
        /\ 0 .. y \subseteq 0 .. x /\ 0 .. y # 0 .. x
    BY <1>6
  <2> QED
    BY <1>5, <2>1 DEF StrictSubsetOrdering
<1> QED
  BY <1>6

\* The first index with a property.
LEMMA FirstIndex ==
  ASSUME NEW n \in Nat, NEW T, T \subseteq 1 .. n, T # {}
  PROVE  \E i \in T : i = 1 \/ i - 1 \in (1 .. n) \ T
<1>1. PICK i \in T : \A j \in T : i <= j
  <2>1. T \subseteq Nat
    OBVIOUS
  <2> QED
    BY <2>1, LeastMember
<1> QED
  BY <1>1

\* The bytes between the read position and the end of what was committed in
\* the segment that is read: the entry whose end is the first behind the byte.
LEMMA ReadSegmentCovered ==
  ASSUME LayoutTypes, Layout, NEW o \in Nat, readPos <= o,
         o < (IF isWrapped THEN wrapPos ELSE WriteBase)
  PROVE  \E i \in 1 .. Len(chain) : o \in LiveBytes(chain[i])
<1> DEFINE n == Len(chain)
           T == {i \in 1 .. n : o < chain[i].end \/ chain[i].end <= readPos}
<1>1. chain # <<>>
  BY RingFacts DEF Layout, Linked
<1>2. /\ n \in Nat /\ n >= 1 /\ 1 \in 1 .. n /\ n \in 1 .. n
      /\ chain[1].off = readPos /\ readPos < chain[1].end
      /\ Consecutive(chain[n].end, WriteBase)
  BY <1>1, FirstEntry, EntryExtent, ChainTypes DEF Layout, Linked
<1>3. \A i \in 1 .. n : /\ chain[i].off \in Nat /\ chain[i].end \in Nat
                        /\ chain[i].off < chain[i].end
  BY ChainTypes, EntryExtent DEF Layout
<1>4. /\ readPos \in Nat /\ wrapPos \in Nat /\ WriteBase \in Int /\ StartPos \in Nat
      /\ isWrapped => WriteBase <= readPos /\ o < wrapPos
      /\ ~isWrapped => o < WriteBase
  BY RingFacts
<1>5. n \in T
  BY <1>2, <1>3, <1>4 DEF Consecutive
<1>6. PICK i \in T : i = 1 \/ i - 1 \in (1 .. n) \ T
  <2>1. T \subseteq 1 .. n /\ T # {}
    BY <1>5
  <2> HIDE DEF T
  <2> QED
    BY <1>2, <2>1, FirstIndex
<1>7. i \in 1 .. n /\ (o < chain[i].end \/ chain[i].end <= readPos)
  BY <1>6
<1>8. o < chain[i].end /\ chain[i].off <= o
  <2>1. CASE i = 1
    <3>1. chain[1].off \in Nat /\ chain[1].end \in Nat
      BY <1>2, <1>3
    <3> QED
      BY <1>2, <1>4, <1>7, <2>1, <3>1
  <2>2. CASE i # 1
    <3>1. i - 1 \in 1 .. n /\ i - 1 \notin T
      BY <1>6, <2>2
    <3>2. chain[i - 1].end \in Nat
      BY <1>3, <3>1
    <3>3. chain[i - 1].end <= o /\ chain[i - 1].end > readPos
      BY <1>4, <3>1, <3>2
    <3>4. i - 1 \in 1 .. n - 1 /\ (i - 1) + 1 = i
      BY <1>2, <1>7, <3>1
    <3>5. Consecutive(chain[i - 1].end, chain[i].off)
      BY <3>4 DEF Layout, Linked
    <3>6. chain[i].off = chain[i - 1].end
      BY <1>4, <3>2, <3>3, <3>5 DEF Consecutive
    <3>7. chain[i].off \in Nat /\ chain[i].end \in Nat /\ chain[i].off < chain[i].end
      BY <1>3, <1>7
    <3> QED
      BY <1>4, <1>7, <3>2, <3>3, <3>6, <3>7
  <2> QED
    BY <2>1, <2>2
<1> QED
  BY <1>3, <1>7, <1>8 DEF LiveBytes

\* In a wrapped ring, the bytes from its start to the end of what was committed.
LEMMA StartSegmentCovered ==
  ASSUME LayoutTypes, Layout, isWrapped, NEW o \in Nat,
         StartPos <= o, o < WriteBase
  PROVE  \E i \in 1 .. Len(chain) : o \in LiveBytes(chain[i])
<1> DEFINE n == Len(chain)
           T == {i \in 1 .. n : o < chain[i].end /\ chain[i].end <= WriteBase}
<1>1. chain # <<>>
  BY DEF Layout, Linked
<1>2. /\ n \in Nat /\ n >= 1 /\ 1 \in 1 .. n /\ n \in 1 .. n
      /\ chain[1].off = readPos /\ readPos < chain[1].end
      /\ Consecutive(chain[n].end, WriteBase)
  BY <1>1, FirstEntry, EntryExtent, ChainTypes DEF Layout, Linked
<1>3. \A i \in 1 .. n : /\ chain[i].off \in Nat /\ chain[i].end \in Nat
                        /\ chain[i].off < chain[i].end
  BY ChainTypes, EntryExtent DEF Layout
<1>4. /\ readPos \in Nat /\ WriteBase \in Int /\ StartPos \in Nat
      /\ WriteBase <= readPos
  BY RingFacts
<1>5. n \in T
  BY <1>2, <1>3, <1>4 DEF Consecutive
<1>6. PICK i \in T : i = 1 \/ i - 1 \in (1 .. n) \ T
  <2>1. T \subseteq 1 .. n /\ T # {}
    BY <1>5
  <2> HIDE DEF T
  <2> QED
    BY <1>2, <2>1, FirstIndex
<1>7. i \in 1 .. n /\ o < chain[i].end /\ chain[i].end <= WriteBase
  BY <1>6
<1>8. /\ chain[i].off \in Nat /\ chain[i].end \in Nat /\ chain[i].off < chain[i].end
  BY <1>3, <1>7
<1>9. i # 1
  BY <1>2, <1>4, <1>7, <1>8
<1>10. i - 1 \in 1 .. n /\ i - 1 \notin T
  BY <1>6, <1>9
<1>11. chain[i - 1].end \in Nat
  BY <1>3, <1>10
<1>12. chain[i - 1].end <= o \/ chain[i - 1].end > WriteBase
  BY <1>4, <1>10, <1>11
<1>13. i - 1 \in 1 .. n - 1 /\ (i - 1) + 1 = i
  BY <1>2, <1>7, <1>10
<1>14. Consecutive(chain[i - 1].end, chain[i].off)
  BY <1>13 DEF Layout, Linked
<1>15. chain[i].off <= o
  BY <1>4, <1>7, <1>8, <1>11, <1>12, <1>14 DEF Consecutive
<1> QED
  BY <1>7, <1>8, <1>15 DEF LiveBytes

\* The bytes in use: those of the pending entry and of the committed ones ...
Used == PendingBytes \union UNION {LiveBytes(chain[i]) : i \in 1 .. Len(chain)}

\* ... are those between the positions.
LEMMA UsedRegion ==
  ASSUME LayoutTypes, Layout
  PROVE  Used = IF isWrapped
                THEN (readPos .. wrapPos - 1) \union (StartPos .. writePos - 1)
                ELSE readPos .. writePos - 1
<1> DEFINE Region == IF isWrapped
                     THEN (readPos .. wrapPos - 1) \union (StartPos .. writePos - 1)
                     ELSE readPos .. writePos - 1
<1>1. PendingBytes = WriteBase .. writePos - 1
  BY RingFacts DEF PendingBytes, WriteBase
<1>2. \A i \in 1 .. Len(chain) :
        /\ LiveBytes(chain[i]) = chain[i].off .. chain[i].end - 1
        /\ chain[i].off \in Nat /\ chain[i].end \in Nat /\ StartPos <= chain[i].off
        /\ \/ readPos <= chain[i].off
              /\ chain[i].end <= (IF isWrapped THEN wrapPos ELSE WriteBase)
           \/ isWrapped /\ chain[i].end <= WriteBase
  BY ChainTypes, EntryExtent DEF LiveBytes, Layout, EntryBounds
<1>3. ~isWrapped => readPos <= WriteBase
  BY ReadBeforeWrite
<1>4. ASSUME NEW o \in Used
      PROVE  o \in Region
  <2>1. CASE o \in PendingBytes
    BY <1>1, <1>3, <2>1, RingFacts
  <2>2. CASE o \notin PendingBytes
    <3>1. PICK i \in 1 .. Len(chain) : o \in LiveBytes(chain[i])
      BY <1>4, <2>2 DEF Used
    <3>2. o \in Nat /\ chain[i].off <= o /\ o < chain[i].end
      BY <1>2, <3>1
    <3>3. /\ readPos \in Nat /\ wrapPos \in Nat /\ writePos \in Nat /\ StartPos \in Nat
          /\ WriteBase \in Int /\ WriteBase <= writePos
          /\ chain[i].end \in Nat /\ StartPos <= chain[i].off /\ chain[i].off \in Nat
      BY <1>2, RingFacts
    <3>4. \/ readPos <= chain[i].off
             /\ chain[i].end <= (IF isWrapped THEN wrapPos ELSE WriteBase)
          \/ isWrapped /\ chain[i].end <= WriteBase
      BY <1>2
    <3> QED
      BY <3>2, <3>3, <3>4
  <2> QED
    BY <2>1, <2>2
<1>5. ASSUME NEW o \in Region
      PROVE  o \in Used
  <2>1. o \in Nat
    BY RingFacts
  <2>2. CASE o \in PendingBytes
    BY <2>2 DEF Used
  <2>3. CASE o \notin PendingBytes
    <3>1. \/ readPos <= o /\ o < (IF isWrapped THEN wrapPos ELSE WriteBase)
          \/ isWrapped /\ StartPos <= o /\ o < WriteBase
      BY <1>1, <2>1, <2>3, RingFacts
    <3>2. \E i \in 1 .. Len(chain) : o \in LiveBytes(chain[i])
      BY <2>1, <3>1, ReadSegmentCovered, StartSegmentCovered
    <3> QED
      BY <3>2 DEF Used
  <2> QED
    BY <2>2, <2>3
<1> QED
  BY <1>4, <1>5

\* How many bytes lie between two positions.
LEMMA IntervalSize ==
  ASSUME NEW a \in Nat, NEW b \in Nat, a <= b
  PROVE  /\ IsFiniteSet(a .. b - 1)
         /\ Cardinality(a .. b - 1) = b - a
<1>1. b - 1 \in Int
  OBVIOUS
<1>2. /\ IsFiniteSet(a .. b - 1)
      /\ Cardinality(a .. b - 1) = IF a > b - 1 THEN 0 ELSE (b - 1) - a + 1
  BY <1>1, FS_Interval
<1> QED
  BY <1>2

\* No byte is lost by padding, wrapping or an abort, and none counted twice.
THEOREM BytesAreCounted == Spec => []UsedBytesExact
<1>1. Inv => UsedBytesExact
  <2> SUFFICES ASSUME Inv
               PROVE  usedBytes = Cardinality(Used)
    BY DEF UsedBytesExact, Used
  <2>1. LayoutTypes /\ Layout
    BY InvParts
  <2>2. CASE ~isWrapped
    <3>1. Used = readPos .. writePos - 1
      BY <2>1, <2>2, UsedRegion
    <3>2. /\ readPos \in Nat /\ writePos \in Nat
          /\ readPos <= writePos /\ usedBytes = writePos - readPos
      BY <2>1, <2>2, RingFacts
    <3> QED
      BY <3>1, <3>2, IntervalSize
  <2>3. CASE isWrapped
    <3> DEFINE high == readPos .. wrapPos - 1
               low == StartPos .. writePos - 1
    <3>1. Used = high \union low
      BY <2>1, <2>3, UsedRegion
    <3>2. /\ readPos \in Nat /\ wrapPos \in Nat /\ writePos \in Nat /\ StartPos \in Nat
          /\ readPos < wrapPos /\ StartPos <= writePos /\ writePos <= readPos
          /\ usedBytes = (wrapPos - readPos) + (writePos - StartPos)
      BY <2>1, <2>3, RingFacts
    <3>3. /\ IsFiniteSet(high) /\ Cardinality(high) = wrapPos - readPos
          /\ IsFiniteSet(low) /\ Cardinality(low) = writePos - StartPos
      BY <3>2, IntervalSize
    <3>4. high \cap low = {}
      BY <3>2
    <3>5. Cardinality(high \union low)
            = Cardinality(high) + Cardinality(low) - Cardinality(high \cap low)
      BY <3>3, FS_Union
    <3>6. Cardinality(high \cap low) = 0
      BY <3>4, FS_EmptySet
    <3> HIDE DEF high, low
    <3> QED
      BY <3>1, <3>2, <3>3, <3>5, <3>6
  <2> QED
    BY <2>2, <2>3
<1> QED
  BY <1>1, RingInvariant, PTL

-----------------------------------------------------------------------------
(* The ring behaves like the FIFO                                           *)

\* The three variables of UrcFifo as the ring has them
Received(e) == [urc |-> e.urc, payloadSize |-> e.payloadSize]
fifoQueue == [i \in 1 .. Len(chain) |->
                [urc |-> chain[i].urc, payloadSize |-> chain[i].payloadSize]]
fifoPending == IF pEnqueueEntry = NULL THEN NoUrc ELSE mem[pEnqueueEntry].urc
fifoReader == IF stage \in {"looked", "processing"} /\ pEntry # NULL
              THEN <<[urc |-> mem[pEntry].urc,
                      payloadSize |-> mem[pEntry].payloadSize]>>
              ELSE <<>>

firstForReader == IF stage \in {"looked", "processing"} /\ pEntry # NULL
                  THEN <<Received(chain[1])>> ELSE <<>>

\* The reader sees the first entry of the queue in the memory that it reads.
SeesFirst == fifoReader = firstForReader

LEMMA ReaderSeesFirst == Inv => SeesFirst
<1> SUFFICES ASSUME Inv, stage \in {"looked", "processing"}, pEntry # NULL
             PROVE  /\ mem[pEntry].urc = chain[1].urc
                    /\ mem[pEntry].payloadSize = chain[1].payloadSize
  BY DEF SeesFirst, fifoReader, firstForReader, Received
<1>1. chain # <<>> /\ pEntry = chain[1].off
  BY InvParts DEF ReaderHoldsFirst
<1>2. 1 \in 1 .. Len(chain)
  BY <1>1, InvParts, FirstEntry, ChainTypes
<1>3. mem[pEntry] = [urc |-> chain[1].urc, strLineLen |-> LineLen[chain[1].urc],
                     payloadSize |-> chain[1].payloadSize]
  BY <1>1, <1>2, InvParts DEF Layout, EntriesIntact, Intact
<1> QED
  BY <1>3

\* It does so before and after a step.
LEMMA ReaderSeesFirstNext == Inv' => SeesFirst'
BY ReaderSeesFirst, PTL

\* While the reader's variables and the first entry stay, so does what the
\* reader sees, whatever is written to the memory.
LEMMA ReaderKept ==
  ASSUME Inv, Inv', UNCHANGED <<stage, pEntry>>,
         chain # <<>> => chain'[1] = chain[1]
  PROVE  fifoReader' = fifoReader
BY ReaderSeesFirst, ReaderSeesFirstNext, InvParts DEF ReaderHoldsFirst, SeesFirst, firstForReader

\* The queue of the FIFO depends on the chain only.
LEMMA QueueKept ==
  ASSUME UNCHANGED chain
  PROVE  fifoQueue' = fifoQueue
BY DEF fifoQueue

fifo == <<fifoQueue, fifoPending, fifoReader>>

\* The steps of the FIFO in terms of the ring's own operators
FifoBegin(u) == /\ fifoPending = NoUrc
                /\ fifoPending' = u
                /\ UNCHANGED <<fifoQueue, fifoReader>>
FifoCommit(n) == /\ fifoPending # NoUrc
                 /\ fifoQueue' = Append(fifoQueue,
                                        [urc |-> fifoPending, payloadSize |-> n])
                 /\ fifoPending' = NoUrc
                 /\ UNCHANGED fifoReader
FifoAbort == /\ fifoPending # NoUrc
             /\ fifoPending' = NoUrc
             /\ UNCHANGED <<fifoQueue, fifoReader>>
FifoTake == /\ fifoReader = <<>>
            /\ fifoPending = NoUrc
            /\ fifoQueue # <<>>
            /\ fifoReader' = <<Head(fifoQueue)>>
            /\ UNCHANGED <<fifoQueue, fifoPending>>
FifoFinish == /\ fifoReader # <<>>
              /\ fifoQueue' = Tail(fifoQueue)
              /\ fifoReader' = <<>>
              /\ UNCHANGED fifoPending

\* An entry is begun.
LEMMA BeginsOne ==
  ASSUME Inv, Inv', NEW u \in Urc, EnqueueBegin(u)
  PROVE  FifoBegin(u)
<1>1. fifoQueue' = fifoQueue /\ fifoReader' = fifoReader
  BY QueueKept, ReaderKept DEF EnqueueBegin, reading
<1>2. fifoPending = NoUrc
  BY DEF EnqueueBegin, fifoPending
<1>3. fifoPending' = u
  <2>1. PICK off \in Int : \E rd, wrapped : Place(u, off, PrefixSize(LineLen[u]), rd, wrapped)
    <3>1. WritePos0 \in Int /\ StartPos \in Int
      BY InvParts, RingFacts DEF WritePos0
    <3> QED
      BY <3>1 DEF EnqueueBegin
  <2>2. pEnqueueEntry' = off /\ off \in Offset
    <3>1. pEnqueueEntry' = off
      BY <2>1 DEF Place
    <3>2. pEnqueueEntry' \in Offset \union {NULL} /\ off # NULL
      <4>1. pEnqueueEntry' \in Offset \union {NULL}
        BY DEF Inv, TypeOK
      <4>2. pEnqueueEntry' # NULL
        <5>1. StartPos \in Nat /\ WritePos0 \in Nat
          BY InvParts, RingFacts DEF WritePos0
        <5>2. pEnqueueEntry' = StartPos \/ pEnqueueEntry' = WritePos0
          BY DEF EnqueueBegin, Place
        <5> QED
          BY <5>1, <5>2 DEF NULL
      <4> QED
        BY <3>1, <4>1, <4>2
    <3> QED
      BY <3>1, <3>2
  <2>3. mem'[off] = Header(u)
    BY <2>1, <2>2 DEF Place
  <2>4. off # NULL
    BY <2>2 DEF Offset, NULL
  <2> QED
    BY <2>2, <2>3, <2>4 DEF fifoPending, Header
<1> QED
  BY <1>1, <1>2, <1>3 DEF FifoBegin

\* The pending entry is in the FIFO's terms not NoUrc.
LEMMA PendingIsUrc ==
  ASSUME Inv, pEnqueueEntry # NULL
  PROVE  fifoPending = mem[pEnqueueEntry].urc /\ fifoPending \in Urc /\ fifoPending # NoUrc
BY InvParts, PendingFacts DEF fifoPending

\* The pending entry becomes the newest one.
LEMMA CommitsOne ==
  ASSUME Inv, Inv', EnqueueEnd
  PROVE  FifoCommit(payloadLen) /\ payloadLen \in 0 .. UINT16_MAX
<1>1. payloadLen \in 0 .. UINT16_MAX /\ chain \in Seq(ChainEntry) /\ Len(chain) \in Nat
  BY DEF Inv, TypeOK
<1>2. fifoPending = mem[pEnqueueEntry].urc /\ fifoPending # NoUrc /\ fifoPending' = NoUrc
  BY PendingIsUrc DEF EnqueueEnd, fifoPending
<1>3. PICK e : /\ chain' = Append(chain, e)
               /\ e.urc = mem[pEnqueueEntry].urc /\ e.payloadSize = payloadLen
  BY DEF EnqueueEnd
<1>4. /\ Len(chain') = Len(chain) + 1
      /\ \A i \in 1 .. Len(chain) : chain'[i] = chain[i]
      /\ chain'[Len(chain) + 1] = e
  BY <1>1, <1>3
<1>5. fifoReader' = fifoReader
  <2>1. chain # <<>> => chain'[1] = chain[1]
    BY <1>1, <1>4
  <2> QED
    BY <2>1, ReaderKept DEF EnqueueEnd, reading
<1>6. fifoQueue' = Append(fifoQueue, [urc |-> fifoPending, payloadSize |-> payloadLen])
  <2> DEFINE r == [urc |-> fifoPending, payloadSize |-> payloadLen]
             k == Len(chain)
             old(i) == [urc |-> chain[i].urc, payloadSize |-> chain[i].payloadSize]
             new(i) == [urc |-> chain'[i].urc, payloadSize |-> chain'[i].payloadSize]
  <2>1. fifoQueue = [i \in 1 .. k |-> old(i)]
    BY DEF fifoQueue
  <2>2. fifoQueue' = [i \in 1 .. k + 1 |-> new(i)]
    BY <1>4 DEF fifoQueue
  <2>3. \A i \in 1 .. k : new(i) = old(i)
    BY <1>4
  <2>4. new(k + 1) = r
    BY <1>2, <1>3, <1>4
  <2> HIDE DEF r, old, new
  <2>5. Append(fifoQueue, r) = [i \in 1 .. k + 1 |-> IF i <= k THEN old(i) ELSE r]
    BY <1>1, <2>1
  <2>6. \A i \in 1 .. k + 1 : new(i) = IF i <= k THEN old(i) ELSE r
    BY <1>1, <2>3, <2>4
  <2>7. fifoQueue' = Append(fifoQueue, r)
    BY <2>2, <2>5, <2>6
  <2> QED
    BY <2>7 DEF r
<1> QED
  BY <1>1, <1>2, <1>5, <1>6 DEF FifoCommit

\* An aborted entry was never in the queue.
LEMMA AbortsOne ==
  ASSUME Inv, Inv', EnqueueAbort
  PROVE  FifoAbort
<1>1. fifoQueue' = fifoQueue /\ fifoReader' = fifoReader
  BY QueueKept, ReaderKept DEF EnqueueAbort, reading
<1>2. fifoPending # NoUrc /\ fifoPending' = NoUrc
  BY PendingIsUrc DEF EnqueueAbort, fifoPending
<1> QED
  BY <1>1, <1>2 DEF FifoAbort

\* Payload bytes, and a URC that is dropped, do not show in the FIFO.
LEMMA HiddenFromFifo ==
  ASSUME Inv, Inv',
         \/ \E n \in 1 .. BufferLen : FillPayload(n)
         \/ \E u \in Urc : EnqueueDrop(u)
  PROVE  UNCHANGED fifo
<1>1. fifoQueue' = fifoQueue /\ fifoReader' = fifoReader
  BY QueueKept, ReaderKept DEF FillPayload, EnqueueDrop, reading
<1>2. fifoPending' = fifoPending
  <2>1. CASE \E u \in Urc : EnqueueDrop(u)
    BY <2>1 DEF EnqueueDrop, fifoPending
  <2>2. ASSUME NEW n \in 1 .. BufferLen, FillPayload(n)
        PROVE  fifoPending' = fifoPending
    <3>1. pEnqueueEntry # NULL /\ pEnqueueEntry' = pEnqueueEntry
      BY <2>2 DEF FillPayload
    <3>2. /\ pEnqueueEntry \in Offset /\ pEnqueueEntry \in Nat /\ payloadLen \in Nat
          /\ PrefixSize(mem[pEnqueueEntry].strLineLen) \in Nat
          /\ PrefixSize(mem[pEnqueueEntry].strLineLen) >= 5
      BY <3>1, InvParts, PendingFacts
    <3>3. mem'[pEnqueueEntry] = mem[pEnqueueEntry]
      BY <2>2, <3>2 DEF FillPayload
    <3> QED
      BY <3>1, <3>3 DEF fifoPending
  <2> QED
    BY <2>1, <2>2
<1> QED
  BY <1>1, <1>2 DEF fifo

\* Under queueMutex the reader takes the oldest entry, if there is one and no
\* half written entry hides it.
LEMMA TakesOldest ==
  ASSUME Inv, Inv', NEW t \in Thread, DequeueLook(t)
  PROVE  FifoTake \/ UNCHANGED fifo
<1>1. stage = "locked" /\ stage' = "looked" /\ UNCHANGED <<pEnqueueEntry, mem, chain>>
  BY DEF DequeueLook
<1>2. fifoQueue' = fifoQueue /\ fifoPending' = fifoPending /\ fifoReader = <<>>
  BY <1>1, QueueKept DEF fifoPending, fifoReader
<1>3. CASE ~Visible
  <2>1. fifoReader' = <<>>
    BY <1>3 DEF DequeueLook, fifoReader
  <2> QED
    BY <1>2, <2>1 DEF fifo
<1>4. CASE Visible
  <2>1. fifoPending = NoUrc
    BY <1>4 DEF Visible, fifoPending
  <2>2. chain # <<>>
    BY <1>4, InvParts, RingFacts DEF Visible, Layout, Linked
  <2>3. chain \in Seq(ChainEntry) /\ Len(chain) \in Nat /\ Len(chain) >= 1
    BY <2>2 DEF Inv, TypeOK
  <2>4. fifoQueue # <<>> /\ Head(fifoQueue) = Received(chain[1])
    BY <2>3 DEF fifoQueue, Received
  <2>5. pEntry' = readPos /\ readPos # NULL
    BY <1>4, InvParts, RingFacts DEF DequeueLook, NULL
  <2>6. fifoReader' = <<Received(chain[1])>>
    BY <1>1, <2>5, ReaderSeesFirstNext DEF SeesFirst, firstForReader
  <2> QED
    BY <1>2, <2>1, <2>4, <2>6 DEF FifoTake
<1> QED
  BY <1>3, <1>4

\* The entry that the reader had leaves the queue.
LEMMA FinishesOldest ==
  ASSUME Inv, Inv', NEW t \in Thread, DequeueEnd(t)
  PROVE  FifoFinish
<1>1. /\ stage = "processing" /\ stage' = "ended" /\ chain' = Tail(chain)
      /\ UNCHANGED <<pEnqueueEntry, mem>>
  BY DEF DequeueEnd
<1>2. chain # <<>> /\ pEntry # NULL
  BY <1>1, InvParts DEF ReaderHoldsFirst, ReaderShape
<1>3. fifoReader # <<>> /\ fifoReader' = <<>> /\ fifoPending' = fifoPending
  BY <1>1, <1>2 DEF fifoReader, fifoPending
<1>4. fifoQueue' = Tail(fifoQueue)
  <2> DEFINE k == Len(chain)
             old(i) == [urc |-> chain[i].urc, payloadSize |-> chain[i].payloadSize]
             new(i) == [urc |-> chain'[i].urc, payloadSize |-> chain'[i].payloadSize]
  <2>1. /\ chain \in Seq(ChainEntry) /\ k \in Nat /\ k >= 1
        /\ Len(chain') = k - 1 /\ \A i \in 1 .. k - 1 : chain'[i] = chain[i + 1]
    BY <1>1, <1>2 DEF Inv, TypeOK
  <2>2. fifoQueue = [i \in 1 .. k |-> old(i)]
    BY DEF fifoQueue
  <2>3. fifoQueue' = [i \in 1 .. k - 1 |-> new(i)]
    BY <2>1 DEF fifoQueue
  <2>4. \A i \in 1 .. k - 1 : new(i) = old(i + 1)
    BY <2>1
  <2> HIDE DEF old, new
  <2>5. Tail(fifoQueue) = [i \in 1 .. k - 1 |-> old(i + 1)]
    BY <2>1, <2>2
  <2> QED
    BY <2>3, <2>4, <2>5
<1> QED
  BY <1>3, <1>4 DEF FifoFinish

\* The other steps of a reader move a pointer or a mutex.
LEMMA ReaderHiddenFromFifo ==
  ASSUME Inv, NEW t \in Thread,
         \/ DequeueTryLock(t) \/ DequeueTake(t) \/ DequeueNone(t) \/ DequeueRelease(t)
  PROVE  UNCHANGED fifo
<1>1. UNCHANGED <<pEnqueueEntry, mem, chain>>
  BY DEF DequeueTryLock, DequeueTake, DequeueNone, DequeueRelease
<1>2. fifoQueue' = fifoQueue /\ fifoPending' = fifoPending
  BY <1>1, QueueKept DEF fifoPending
<1>3. fifoReader' = fifoReader
  <2>1. CASE DequeueTryLock(t)
    <3>1. stage = "idle" /\ stage' = "locked"
      BY <2>1, InvParts DEF ReaderShape, DequeueTryLock
    <3> QED
      BY <3>1 DEF fifoReader
  <2>2. CASE DequeueTake(t)
    BY <2>2 DEF DequeueTake, fifoReader
  <2>3. CASE DequeueNone(t)
    BY <2>3 DEF DequeueNone, fifoReader
  <2>4. CASE DequeueRelease(t)
    BY <2>4 DEF DequeueRelease, fifoReader
  <2> QED
    BY <2>1, <2>2, <2>3, <2>4
<1> QED
  BY <1>2, <1>3 DEF fifo

\* Every step of the ring is one of the FIFO or does not show in it.
LEMMA NextFifo ==
  ASSUME Inv, Inv', [Next]_vars
  PROVE  \/ \E u \in Urc : FifoBegin(u)
         \/ \E n \in 0 .. UINT16_MAX : FifoCommit(n)
         \/ FifoAbort \/ FifoTake \/ FifoFinish
         \/ UNCHANGED fifo
<1>1. ASSUME NEW u \in Urc, EnqueueBegin(u) PROVE FifoBegin(u)
  BY <1>1, BeginsOne
<1>2. CASE \/ \E n \in 1 .. BufferLen : FillPayload(n)
           \/ \E u \in Urc : EnqueueDrop(u)
  BY <1>2, HiddenFromFifo
<1>3. CASE EnqueueEnd
  BY <1>3, CommitsOne
<1>4. CASE EnqueueAbort
  BY <1>4, AbortsOne
<1>5. ASSUME NEW t \in Thread, Reader(t)
      PROVE  FifoTake \/ FifoFinish \/ UNCHANGED fifo
  BY <1>5, TakesOldest, FinishesOldest, ReaderHiddenFromFifo DEF Reader
<1>6. CASE UNCHANGED vars
  BY <1>6 DEF vars, reading, fifo, fifoQueue, fifoPending, fifoReader
<1> QED
  BY <1>1, <1>2, <1>3, <1>4, <1>5, <1>6 DEF Next, Enqueuer

\* The queue is the FIFO that the client relies on: URCs come out once, whole
\* and in the order in which they were committed, however the ring wraps, and
\* an aborted one never does.
THEOREM RingImplementsFifo == Spec => FifoSpec
<1>1. Init => Fifo!Init
  BY DEF Init, Fifo!Init, NULL
<1>2. Inv /\ Inv' /\ [Next]_vars => [Fifo!Next]_(Fifo!vars)
  <2> SUFFICES ASSUME Inv, Inv', [Next]_vars
               PROVE  Fifo!Next \/ UNCHANGED Fifo!vars
    OBVIOUS
  <2>1. ASSUME NEW u \in Urc, FifoBegin(u)
        PROVE  Fifo!Begin(u)
    BY <2>1 DEF FifoBegin, Fifo!Begin, fifoQueue, fifoPending, fifoReader
  <2>2. ASSUME NEW n \in 0 .. UINT16_MAX, FifoCommit(n)
        PROVE  Fifo!Commit(n)
    BY <2>2 DEF FifoCommit, Fifo!Commit, fifoQueue, fifoPending, fifoReader
  <2>3. CASE FifoAbort
    BY <2>3 DEF FifoAbort, Fifo!Abort, Fifo!Next, fifoQueue, fifoPending, fifoReader
  <2>4. CASE FifoTake
    BY <2>4 DEF FifoTake, Fifo!Take, Fifo!Next, fifoQueue, fifoPending, fifoReader
  <2>5. CASE FifoFinish
    BY <2>5 DEF FifoFinish, Fifo!Finish, Fifo!Next, fifoQueue, fifoPending, fifoReader
  <2>6. CASE UNCHANGED fifo
    BY <2>6 DEF fifo, Fifo!vars, fifoQueue, fifoPending, fifoReader
  <2> QED
    BY <2>1, <2>2, <2>3, <2>4, <2>5, <2>6, NextFifo DEF Fifo!Next
<1> QED
  BY <1>1, <1>2, RingInvariant, PTL DEF Spec, FifoSpec, Fifo!Spec
=============================================================================
