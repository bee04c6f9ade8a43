--------------------------- MODULE UartDmaProofs ---------------------------
(***************************************************************************)
(* The DMA driven UART driver, with a ring of any size and counters that   *)
(* wrap at any multiple of it: as long as the hardware does not overtake   *)
(* the reader, the counts that it puts together are right.                 *)
(***************************************************************************)
EXTENDS UartDma, TLAPS

-----------------------------------------------------------------------------
(* Counting modulo                                                          *)

LEMMA DivFacts ==
  ASSUME NEW R \in Nat \ {0}, NEW x \in Int
  PROVE  /\ x \div R \in Int /\ (x % R) \in 0 .. R - 1
         /\ x = R * (x \div R) + (x % R)
OBVIOUS

LEMMA Multiples ==
  ASSUME NEW R \in Nat \ {0}, NEW d \in Int
  PROVE  /\ R * d \in Int
         /\ d >= 0 => R * d >= 0
         /\ d >= 1 => R * d >= R
         /\ d <= -1 => R * d <= -R
<1>1. d >= 0 => R * d >= 0
  OBVIOUS
<1>2. d >= 1 => R * d >= R
  OBVIOUS
<1>3. d <= -1 => R * d <= -R
  OBVIOUS
<1> QED
  BY <1>1, <1>2, <1>3

LEMMA DivIsUnique ==
  ASSUME NEW R \in Nat \ {0}, NEW q \in Int, NEW m \in 0 .. R - 1,
         NEW p \in Int, NEW n \in 0 .. R - 1, R * q + m = R * p + n
  PROVE  q = p /\ m = n
<1> DEFINE d == q - p
<1>1. d \in Int /\ R * d = n - m /\ n - m < R /\ n - m > -R
  <2>1. R * (q - p) = n - m
    OBVIOUS
  <2> QED
    BY <2>1
<1>2. d = 0
  <2> HIDE DEF d
  <2> QED
    BY <1>1, Multiples
<1>3. q = p
  BY <1>2
<1> QED
  BY <1>3

LEMMA DivIs ==
  ASSUME NEW R \in Nat \ {0}, NEW q \in Int, NEW m \in 0 .. R - 1, NEW x \in Int,
         x = R * q + m
  PROVE  (x \div R) = q /\ (x % R) = m
<1> DEFINE p == x \div R
           n == x % R
<1>1. p \in Int /\ n \in 0 .. R - 1 /\ R * q + m = R * p + n
  BY DivFacts
<1> HIDE DEF p, n
<1>2. q = p /\ m = n
  BY <1>1, DivIsUnique
<1> QED
  BY <1>2 DEF p, n

\* What differs by a multiple is the same.
LEMMA SameModulo ==
  ASSUME NEW R \in Nat \ {0}, NEW x \in Int, NEW y \in Int, NEW d \in Int, x = y + R * d
  PROVE  (x % R) = (y % R)
<1> DEFINE q == y \div R
           m == y % R
<1>1. q \in Int /\ m \in 0 .. R - 1 /\ y = R * q + m
  BY DivFacts
<1> HIDE DEF q, m
<1>2. x = R * (q + d) + m
  <2>1. R * (q + d) = R * q + R * d
    BY <1>1
  <2>2. R * q \in Int /\ R * d \in Int
    BY <1>1, Multiples
  <2> QED
    BY <1>1, <2>1, <2>2
<1>3. q + d \in Int
  BY <1>1
<1>4. (x % R) = m
  BY <1>1, <1>2, <1>3, DivIs
<1> QED
  BY <1>4 DEF m

\* And what is the same differs by a multiple.
LEMMA DiffersByMultiple ==
  ASSUME NEW R \in Nat \ {0}, NEW x \in Int, NEW y \in Int, (x % R) = (y % R)
  PROVE  \E d \in Int : x = y + R * d
<1>1. /\ x \div R \in Int /\ y \div R \in Int
      /\ x = R * (x \div R) + (x % R) /\ y = R * (y \div R) + (y % R)
      /\ (y % R) \in Int
  BY DivFacts
<1> DEFINE a == x \div R
           b == y \div R
           m == y % R
<1>2. a \in Int /\ b \in Int /\ m \in Int /\ x = R * a + m /\ y = R * b + m
  BY <1>1
<1> HIDE DEF a, b, m
<1>3. R * (a - b) = R * a - R * b
  BY <1>2
<1>4. R * a \in Int /\ R * b \in Int
  BY <1>2, Multiples
<1>5. x = y + R * (a - b)
  BY <1>2, <1>3, <1>4
<1>6. a - b \in Int
  BY <1>2
<1> QED
  BY <1>5, <1>6

LEMMA SmallIsSame ==
  ASSUME NEW R \in Nat \ {0}, NEW x \in 0 .. R - 1
  PROVE  (x % R) = x
<1>1. x = R * 0 + x
  OBVIOUS
<1> QED
  BY <1>1, DivIs

LEMMA CloseIsSame ==
  ASSUME NEW R \in Nat \ {0}, NEW x \in Int, NEW y \in Int, (x % R) = (y % R),
         x - y < R, y - x < R
  PROVE  x = y
<1>1. PICK d \in Int : x = y + R * d
  BY DiffersByMultiple
<1>2. R * d \in Int /\ R * d = x - y
  BY <1>1, Multiples
<1>3. d = 0
  BY <1>2, Multiples
<1>4. R * d = 0
  BY <1>3
<1> QED
  BY <1>2, <1>4

\* A term may be taken modulo before.
LEMMA ModuloBefore ==
  ASSUME NEW R \in Nat \ {0}, NEW x \in Int, NEW y \in Int, NEW s \in Int
  PROVE  /\ ((x % R) + y) % R = (x + y) % R
         /\ (y - (x % R)) % R = (y - x) % R
         /\ ((x % R) * s + y) % R = (x * s + y) % R
<1> DEFINE q == x \div R
           m == x % R
<1>1. q \in Int /\ m \in Int /\ x = R * q + m
  BY DivFacts
<1> HIDE DEF q, m
<1>2. R * q \in Int /\ R * (-q) = -(R * q) /\ R * (q * s) \in Int /\ q * s \in Int /\ m * s \in Int
  BY <1>1, Multiples
<1>. -q \in Int /\ x + y \in Int /\ m + y \in Int /\ y - x \in Int /\ y - m \in Int
  BY <1>1
<1>3. ((m + y) % R) = ((x + y) % R)
  <2>1. x + y = (m + y) + R * q
    BY <1>1, <1>2
  <2> QED
    BY <1>1, <2>1, SameModulo
<1>4. ((y - m) % R) = ((y - x) % R)
  <2>1. y - m = (y - x) + R * q
    BY <1>1, <1>2
  <2> QED
    BY <1>1, <2>1, SameModulo
<1>5. ((m * s + y) % R) = ((x * s + y) % R)
  <2>1. x * s = R * (q * s) + m * s
    BY <1>1
  <2>2. x * s + y = (m * s + y) + R * (q * s)
    BY <1>1, <1>2, <2>1
  <2>3. x * s + y \in Int /\ m * s + y \in Int
    BY <1>1, <1>2
  <2> QED
    BY <1>2, <2>2, <2>3, SameModulo
<1> QED
  BY <1>3, <1>4, <1>5 DEF m

\* Whole multiples: the quotient is monotone, and rises by one within a turn.
LEMMA QuotientMonotone ==
  ASSUME NEW R \in Nat \ {0}, NEW x \in Int, NEW y \in Int, x <= y
  PROVE  /\ (x \div R) <= (y \div R)
         /\ y - x <= R => (y \div R) <= (x \div R) + 1
         /\ x >= 0 => (x \div R) \in Nat
<1> DEFINE a == x \div R
           b == y \div R
           m == x % R
           n == y % R
<1>1. /\ a \in Int /\ m \in 0 .. R - 1 /\ x = R * a + m
      /\ b \in Int /\ n \in 0 .. R - 1 /\ y = R * b + n
  BY DivFacts
<1> HIDE DEF a, b, m, n
<1>2. R * (b - a) = R * b - R * a /\ R * (b - a - 1) = R * b - R * a - R
  BY <1>1
<1>3. R * b \in Int /\ R * a \in Int /\ b - a \in Int /\ b - a - 1 \in Int
  BY <1>1, Multiples
<1>4. R * (b - a) > -R
  BY <1>1, <1>2, <1>3
<1>5. a <= b
  <2>1. ~(b - a <= -1)
    BY <1>3, <1>4, Multiples
  <2> QED
    BY <1>1, <2>1
<1>6. ASSUME y - x <= R
      PROVE  b <= a + 1
  <2>1. R * (b - a - 1) < R
    BY <1>1, <1>2, <1>3, <1>6
  <2>2. ~(b - a - 1 >= 1)
    BY <1>3, <2>1, Multiples
  <2> QED
    BY <1>1, <2>2
<1>7. ASSUME x >= 0
      PROVE  a \in Nat
  <2>1. R * a > -R
    BY <1>1, <1>3, <1>7
  <2>2. ~(a <= -1)
    BY <1>1, <1>3, <2>1, Multiples
  <2> QED
    BY <1>1, <2>2
<1> QED
  BY <1>5, <1>6, <1>7 DEF a, b

-----------------------------------------------------------------------------
(* The invariant                                                           *)

\* Where byte number x is put in the ring, and how often it had wrapped then.
Place(x) == (x - base) % Size
Turns(x) == (x - base) \div Size

\* How often the interrupt has run.
Runs == Turns(nReceived) - (IF irqPending THEN 1 ELSE 0)

HardwareTypes ==
  /\ nReceived \in Nat /\ base \in 0 .. nReceived
  /\ rxBuffer \in [0 .. Size - 1 -> Nat]

FlagTypes ==
  /\ irqPending \in BOOLEAN /\ torn \in BOOLEAN /\ rxResync \in BOOLEAN
  /\ pc \in {"idle", "resync", "wraps", "ndtr", "wrapsAgain", "available", "discard",
             "flush", "copy"}
  /\ after \in {"available", "discard", "flush"}

CountTypes ==
  /\ overflowCount \in Nat
  /\ rxTotalRead \in 0 .. Modulus - 1 /\ count \in 0 .. Modulus - 1
  /\ available \in 0 .. Modulus - 1
  /\ wraps \in Int /\ nextByte \in Int /\ seen \in Int

ReaderTypes ==
  /\ length \in Nat /\ retry \in Nat /\ tailIdx \in 0 .. Size - 1
  /\ pData \in Seq(Nat)

TypeInv == HardwareTypes /\ FlagTypes /\ CountTypes /\ ReaderTypes

\* NDTR and the counted wraps say how much was received; the last turn is there.
HardwareInv ==
  /\ ndtr = Size - Place(nReceived)
  /\ Runs \in Nat /\ rxWraps = Runs % Modulus
  /\ \A i \in base + 1 .. nReceived :
       i > nReceived - Size => rxBuffer[Place(i - 1)] = i

\* The reader is where its count says it is, unless it has been overtaken.
FreshInv ==
  ~torn => /\ ~rxResync
           /\ nextByte \in base + 1 .. nReceived + 1
           /\ Unread <= Size
           /\ rxTotalRead = (nextByte - 1 - base) % Modulus

\* The wraps that the reader has are those of some time, and of one after it
\* had read what it has read.
WrapsAsOf(v) ==
  /\ wraps = v % Modulus
  /\ ~torn => v >= Turns(nextByte - 1) - 1

Snapshot(v) ==
  /\ WrapsAsOf(v) /\ v <= Turns(seen)
  /\ count = (v * Size + Place(seen)) % Modulus
  /\ seen \in base .. nReceived
  /\ ~torn => seen >= nextByte - 1

WrapsInv == pc = "ndtr" /\ ~rxResync => \E v \in 0 .. Runs : WrapsAsOf(v)
SnapshotInv ==
  pc \in {"wrapsAgain", "available", "discard", "flush"} /\ ~rxResync =>
    \E v \in 0 .. Runs : Snapshot(v)

\* What looks like too much is of the gap between a wrap and its interrupt.
InGap ==
  /\ wraps = (Turns(seen) - 1) % Modulus
  /\ available > Size \/ (available = 0 /\ seen + 1 - nextByte = Size)

AvailableInv ==
  pc = "available" /\ ~torn => available = seen + 1 - nextByte \/ InGap

CopyInv ==
  pc = "copy" /\ ~torn =>
    /\ available \in 1 .. Unread /\ Len(pData) <= BytesToRead
    /\ tailIdx = Place(nextByte - 1 + Len(pData))
    /\ \A k \in 1 .. Len(pData) : pData[k] = nextByte + k - 1

DmaInv ==
  /\ TypeInv /\ HardwareInv /\ FreshInv
  /\ WrapsInv /\ SnapshotInv /\ AvailableInv /\ CopyInv

-----------------------------------------------------------------------------
(* The constants, and places in the ring                                   *)

LEMMA ConstantFacts ==
  ASSUME DmaAssumption
  PROVE  /\ Size \in Nat \ {0} /\ Modulus \in Nat \ {0}
         /\ Modulus >= 3 /\ Modulus >= 3 * Size
         /\ \E k \in Nat : Modulus = Size * k
<1>1. Size \in Nat \ {0} /\ Modulus \in Nat
  BY DEF DmaAssumption
<1>2. PICK k \in 3 .. Modulus : Modulus = k * Size
  BY DEF DmaAssumption
<1>3. k \in Nat /\ k >= 3
  BY <1>1, <1>2
<1>4. Modulus = Size * k
  BY <1>1, <1>2, <1>3
<1>5. Size * k = 3 * Size + Size * (k - 3)
  BY <1>1, <1>3
<1>6. k - 3 \in Int /\ k - 3 >= 0
  BY <1>3
<1>7. Size * (k - 3) >= 0 /\ Size * (k - 3) \in Int
  BY <1>1, <1>6, Multiples
<1>8. Modulus >= 3 * Size
  BY <1>1, <1>4, <1>5, <1>7
<1> QED
  BY <1>1, <1>3, <1>4, <1>8

\* The place of a count of bytes is that of the count modulo.
LEMMA ModuloOfModulo ==
  ASSUME DmaAssumption, NEW x \in Int
  PROVE  ((x % Modulus) % Size) = (x % Size)
<1>1. Size \in Nat \ {0} /\ Modulus \in Nat \ {0}
  BY ConstantFacts
<1>2. PICK k \in Nat : Modulus = Size * k
  BY ConstantFacts
<1> DEFINE q == x \div Modulus
           m == x % Modulus
<1>3. q \in Int /\ m \in Int /\ x = Modulus * q + m
  BY <1>1, DivFacts
<1> HIDE DEF q, m
<1>4. Modulus * q = Size * (k * q)
  BY <1>1, <1>2, <1>3
<1>5. k * q \in Int
  BY <1>2, <1>3
<1>6. x = m + Size * (k * q)
  <2>1. Modulus * q \in Int
    BY <1>1, <1>3, Multiples
  <2> QED
    BY <1>3, <1>4, <2>1
<1>7. (x % Size) = (m % Size)
  BY <1>1, <1>3, <1>5, <1>6, SameModulo
<1> QED
  BY <1>7 DEF m

\* Where a number of bytes is.
LEMMA PlaceFacts ==
  ASSUME DmaAssumption, base \in Int, NEW x \in Int
  PROVE  /\ Place(x) \in 0 .. Size - 1 /\ Turns(x) \in Int
         /\ x - base = Size * Turns(x) + Place(x)
<1>1. Size \in Nat \ {0} /\ x - base \in Int
  BY ConstantFacts
<1> QED
  BY <1>1, DivFacts DEF Place, Turns

\* The next place, and a wrap when the ring ends there.
LEMMA NextPlace ==
  ASSUME DmaAssumption, base \in Int, NEW x \in Int
  PROVE  IF Place(x) = Size - 1
         THEN Place(x + 1) = 0 /\ Turns(x + 1) = Turns(x) + 1
         ELSE Place(x + 1) = Place(x) + 1 /\ Turns(x + 1) = Turns(x)
<1> DEFINE p == Place(x)
           t == Turns(x)
<1>1. Size \in Nat \ {0} /\ p \in 0 .. Size - 1 /\ t \in Int /\ x - base = Size * t + p
  BY ConstantFacts, PlaceFacts
<1>2. Size * t \in Int /\ Size * (t + 1) = Size * t + Size
  <2>1. Size \in Nat \ {0} /\ t \in Int
    BY <1>1
  <2> HIDE DEF t
  <2> QED
    BY <2>1, Multiples
<1>3. Place(x + 1) = (x + 1 - base) % Size /\ Turns(x + 1) = (x + 1 - base) \div Size
  BY DEF Place, Turns
<1> HIDE DEF p, t
<1>4. CASE p = Size - 1
  <2>1. x + 1 - base \in Int /\ x + 1 - base = Size * (t + 1) + 0
    BY <1>1, <1>2, <1>4
  <2>2. t + 1 \in Int /\ 0 \in 0 .. Size - 1
    BY <1>1
  <2>3. ((x + 1 - base) \div Size) = t + 1 /\ ((x + 1 - base) % Size) = 0
    BY <1>1, <2>1, <2>2, DivIs
  <2> QED
    BY <1>3, <1>4, <2>3 DEF p, t
<1>5. CASE p # Size - 1
  <2>1. x + 1 - base \in Int /\ x + 1 - base = Size * t + (p + 1)
    BY <1>1, <1>2
  <2>2. t \in Int /\ p + 1 \in 0 .. Size - 1
    BY <1>1, <1>5
  <2>3. ((x + 1 - base) \div Size) = t /\ ((x + 1 - base) % Size) = p + 1
    BY <1>1, <2>1, <2>2, DivIs
  <2> QED
    BY <1>3, <1>5, <2>3 DEF p, t
<1> QED
  BY <1>4, <1>5

\* A byte of the last turn has its place to itself.
LEMMA OtherPlace ==
  ASSUME DmaAssumption, base \in Int, NEW x \in Int, NEW y \in Int, x < y, y < x + Size
  PROVE  Place(x) # Place(y)
<1>1. Size \in Nat \ {0} /\ x - base \in Int /\ y - base \in Int
  BY ConstantFacts
<1>2. ASSUME ((x - base) % Size) = ((y - base) % Size)
      PROVE  FALSE
  <2>1. (x - base) - (y - base) < Size /\ (y - base) - (x - base) < Size
    BY <1>1
  <2>2. x - base = y - base
    BY <1>1, <1>2, <2>1, CloseIsSame
  <2> QED
    BY <2>2
<1> QED
  BY <1>2 DEF Place

LEMMA TurnsMonotone ==
  ASSUME DmaAssumption, base \in Int, NEW x \in Int, NEW y \in Int, x <= y
  PROVE  /\ Turns(x) <= Turns(y)
         /\ y - x <= Size => Turns(y) <= Turns(x) + 1
         /\ x >= base => Turns(x) \in Nat
<1>1. Size \in Nat \ {0} /\ x - base \in Int /\ y - base \in Int /\ x - base <= y - base
  BY ConstantFacts
<1>2. (y - base) - (x - base) = y - x /\ (x >= base => x - base >= 0)
  OBVIOUS
<1> QED
  BY <1>1, <1>2, QuotientMonotone DEF Turns

-----------------------------------------------------------------------------
(* Types                                                                   *)

LEMMA Initially ==
  ASSUME DmaAssumption
  PROVE  Init => DmaInv
<1> SUFFICES ASSUME Init PROVE DmaInv
  OBVIOUS
<1>1. Size \in Nat \ {0} /\ Modulus \in Nat \ {0}
  BY ConstantFacts
<1>2. (0 % Modulus) = 0 /\ (0 % Size) = 0 /\ (0 \div Size) = 0
  BY <1>1
<1>3. Place(0) = 0 /\ Turns(0) = 0 /\ Runs = 0
  BY <1>2 DEF Init, Place, Turns, Runs
<1>4. TypeInv
  <2>1. HardwareTypes
    BY <1>1 DEF Init, HardwareTypes
  <2>. FlagTypes
    BY DEF Init, FlagTypes
  <2>2. CountTypes
    BY <1>1 DEF Init, CountTypes
  <2>3. ReaderTypes
    BY <1>1 DEF Init, ReaderTypes
  <2> QED
    BY <2>1, <2>2, <2>3 DEF TypeInv
<1>5. HardwareInv
  BY <1>1, <1>2, <1>3 DEF Init, HardwareInv
<1>6. FreshInv
  BY <1>1, <1>2 DEF Init, FreshInv, Unread
<1> QED
  BY <1>4, <1>5, <1>6 DEF Init, DmaInv, WrapsInv, SnapshotInv, AvailableInv, CopyInv

\* The steps of the hardware, and those of the reader
Hardware == DmaWrite \/ RxCpltCallback \/ ErrorCallback

Counting == CheckResync \/ ReadWraps \/ ReadNdtr \/ ReadWrapsAgain \/ Retry \/ Overflow

Reading == \/ \E n \in 1 .. MaxLength : Read(n)
           \/ Discard \/ Return0 \/ LookAgain \/ Something \/ CopyByte \/ ReadEnd
           \/ FlushRx

LEMMA AnyStep ==
  ASSUME [Next]_vars
  PROVE  Hardware \/ Counting \/ Reading \/ UNCHANGED vars
BY DEF Next, Hardware, Counting, Reading

LEMMA KindOfStep ==
  ASSUME [Next]_vars
  PROVE  /\ Hardware \/ Counting \/ Reading \/ UNCHANGED vars
         /\ Hardware => UNCHANGED <<rxTotalRead, overflowCount, pc, after, locals, nextByte,
                                    seen>>
         /\ Counting => UNCHANGED <<hardware, rxTotalRead, rxWraps, length, tailIdx, pData,
                                    nextByte, base, torn>>
         /\ Reading => UNCHANGED <<hardware, rxWraps, rxResync, overflowCount, seen, base>>
<1>1. ASSUME Hardware
      PROVE  UNCHANGED <<rxTotalRead, overflowCount, pc, after, locals, nextByte, seen>>
  BY <1>1 DEF Hardware, DmaWrite, RxCpltCallback, ErrorCallback, shared, history
<1>2. ASSUME Counting
      PROVE  UNCHANGED <<hardware, rxTotalRead, rxWraps, length, tailIdx, pData, nextByte,
                         base, torn>>
  BY <1>2 DEF Counting, CheckResync, ReadWraps, ReadNdtr, ReadWrapsAgain, Retry, Overflow,
     shared, history, locals
<1>3. ASSUME Reading
      PROVE  UNCHANGED <<hardware, rxWraps, rxResync, overflowCount, seen, base>>
  BY <1>3 DEF Reading, Read, Discard, Return0, LookAgain, Something, CopyByte, ReadEnd,
     FlushRx, shared, history
<1> QED
  BY <1>1, <1>2, <1>3, AnyStep

LEMMA Remainders ==
  ASSUME DmaAssumption
  PROVE  \A x \in Int : (x % Modulus) \in 0 .. Modulus - 1 /\ (x % Size) \in 0 .. Size - 1
BY ConstantFacts, DivFacts

LEMMA NdtrFacts ==
  ASSUME DmaAssumption, DmaInv
  PROVE  ndtr \in 1 .. Size /\ rxWraps \in 0 .. Modulus - 1 /\ Size - ndtr = Place(nReceived)
<1>. nReceived \in Nat /\ nReceived \in Int /\ base \in Int
  BY DEF DmaInv, TypeInv, HardwareTypes
<1>1. Size \in Nat \ {0} /\ Place(nReceived) \in 0 .. Size - 1
  BY ConstantFacts, PlaceFacts
<1>2. ndtr = Size - Place(nReceived) /\ Runs \in Nat /\ rxWraps = Runs % Modulus
  BY DEF DmaInv, HardwareInv
<1>3. Runs \in Int
  BY <1>2
<1>4. rxWraps \in 0 .. Modulus - 1
  BY <1>2, <1>3, Remainders
<1> HIDE DEF Place
<1> QED
  BY <1>1, <1>2, <1>4

LEMMA TypeStep ==
  ASSUME DmaAssumption, DmaInv, [Next]_vars
  PROVE  TypeInv'
<1>1. Size \in Nat \ {0} /\ Modulus \in Nat \ {0} /\ MaxLength \in Nat
  BY ConstantFacts DEF DmaAssumption
<1>2. HardwareTypes /\ FlagTypes /\ CountTypes /\ ReaderTypes
  BY DEF DmaInv, TypeInv
<1>3. HardwareTypes'
  <2>1. CASE DmaWrite
    <3>1. Size - ndtr \in 0 .. Size - 1
      BY <1>1, NdtrFacts
    <3> QED
      BY <1>1, <1>2, <2>1, <3>1 DEF DmaWrite, HardwareTypes
  <2>2. CASE ErrorCallback
    BY <1>2, <2>2 DEF ErrorCallback, HardwareTypes
  <2>3. CASE ~DmaWrite /\ ~ErrorCallback
    <3>1. UNCHANGED <<nReceived, base, rxBuffer>>
      BY <2>3, KindOfStep DEF Hardware, RxCpltCallback, hardware, history, vars
    <3> QED
      BY <1>2, <3>1 DEF HardwareTypes
  <2> QED
    BY <2>1, <2>2, <2>3
<1>4. FlagTypes'
  <2>1. CASE Hardware
    BY <1>2, <2>1 DEF Hardware, DmaWrite, RxCpltCallback, ErrorCallback, FlagTypes, shared,
       history
  <2>2. CASE Counting
    BY <1>2, <2>2 DEF Counting, CheckResync, ReadWraps, ReadNdtr, ReadWrapsAgain, Retry,
       Overflow, Goto, FlagTypes, shared, history, hardware
  <2>3. CASE Reading
    BY <1>2, <2>3 DEF Reading, Read, Discard, Return0, LookAgain, Something, CopyByte,
       ReadEnd, FlushRx, Goto, Return, FlagTypes, shared, history, hardware
  <2>4. CASE UNCHANGED vars
    BY <1>2, <2>4 DEF vars, FlagTypes, shared, history, hardware
  <2> QED
    BY <2>1, <2>2, <2>3, <2>4, AnyStep
<1>5. CountTypes'
  <2>1. CASE Hardware \/ UNCHANGED vars
    BY <1>2, <2>1, KindOfStep
       DEF Hardware, DmaWrite, RxCpltCallback, ErrorCallback, CountTypes, shared, locals,
       history, vars
  <2>2. CASE ReadNdtr
    <3>1. wraps * Size \in Int
      BY <1>1, <1>2, Multiples DEF CountTypes
    <3>2. wraps * Size + Size - ndtr \in Int
      BY <1>1, <3>1, NdtrFacts
    <3>3. WriteCount \in 0 .. Modulus - 1
      BY <3>2, Remainders DEF WriteCount
    <3> QED
      BY <1>2, <2>2, <3>3 DEF ReadNdtr, CountTypes, HardwareTypes, shared
  <2>3. CASE ReadWraps
    BY <1>2, <2>3, NdtrFacts DEF ReadWraps, CountTypes, shared, history
  <2>4. CASE ReadWrapsAgain
    <3>1. ((count - rxTotalRead) % Modulus) \in 0 .. Modulus - 1
      BY <1>1, <1>2, Remainders DEF CountTypes
    <3> QED
      BY <1>2, <2>4, <3>1 DEF ReadWrapsAgain, CountTypes, shared, history
  <2>5. CASE CheckResync \/ Retry \/ Overflow
    BY <1>2, <2>5 DEF CheckResync, Retry, Overflow, CountTypes, shared, locals, history
  <2>6. CASE Discard
    <3>1. seen - base - count \in Int
      BY <1>2 DEF HardwareTypes, CountTypes
    <3>2. ((seen - base - count) % Modulus) \in Int
      BY <3>1, Remainders
    <3> QED
      BY <1>1, <1>2, <2>6, <3>2 DEF Discard, Return, CountTypes
  <2>7. CASE ReadEnd
    <3>1. BytesToRead \in Nat
      BY <1>2 DEF BytesToRead, CountTypes, ReaderTypes
    <3>2. ((rxTotalRead + BytesToRead) % Modulus) \in 0 .. Modulus - 1
      BY <1>2, <3>1, Remainders DEF CountTypes
    <3> QED
      BY <1>1, <1>2, <2>7, <3>1, <3>2 DEF ReadEnd, Return, CountTypes
  <2>8. CASE \/ \E n \in 1 .. MaxLength : Read(n)
             \/ Return0 \/ LookAgain \/ Something \/ CopyByte \/ FlushRx
    BY <1>1, <1>2, <2>8 DEF Read, Return0, LookAgain, Something, CopyByte, FlushRx, Return,
       CountTypes, shared, locals, history
  <2> QED
    BY <2>1, <2>2, <2>3, <2>4, <2>5, <2>6, <2>7, <2>8, AnyStep DEF Counting, Reading
<1>6. ReaderTypes'
  <2>1. CASE Hardware \/ UNCHANGED vars
    <3>1. UNCHANGED locals
      BY <2>1, KindOfStep DEF vars
    <3> QED
      BY <1>2, <3>1 DEF ReaderTypes, locals
  <2>2. CASE Counting
    BY <1>2, <2>2
       DEF Counting, CheckResync, ReadWraps, ReadNdtr, ReadWrapsAgain, Retry, Overflow,
       ReaderTypes, locals
  <2>3. ASSUME NEW n \in 1 .. MaxLength, Read(n)
        PROVE  ReaderTypes'
    BY <1>1, <1>2, <2>3 DEF Read, ReaderTypes
  <2>4. CASE Discard \/ Return0 \/ ReadEnd
    <3>1. <<>> \in Seq(Nat)
      OBVIOUS
    <3>2. length' = 0 /\ retry' = 0 /\ tailIdx' = 0 /\ pData' = <<>>
      BY <2>4 DEF Discard, Return0, ReadEnd, Return
    <3> QED
      BY <1>1, <3>1, <3>2 DEF ReaderTypes
  <2>5. CASE LookAgain \/ FlushRx
    BY <1>2, <2>5 DEF LookAgain, FlushRx, ReaderTypes, locals
  <2>6. CASE Something
    <3>1. <<>> \in Seq(Nat)
      OBVIOUS
    <3>2. (rxTotalRead % Size) \in 0 .. Size - 1
      BY <1>2, Remainders DEF CountTypes
    <3> QED
      BY <1>2, <2>6, <3>1, <3>2 DEF Something, ReaderTypes
  <2>7. CASE CopyByte
    <3>1. rxBuffer[tailIdx] \in Nat
      BY <1>1, <1>2 DEF HardwareTypes, ReaderTypes
    <3>2. Append(pData, rxBuffer[tailIdx]) \in Seq(Nat)
      BY <1>2, <3>1 DEF ReaderTypes
    <3>3. ((tailIdx + 1) % Size) \in 0 .. Size - 1
      <4>1. tailIdx + 1 \in Int
        BY <1>1, <1>2 DEF ReaderTypes
      <4> QED
        BY <4>1, Remainders
    <3> QED
      BY <1>2, <2>7, <3>2, <3>3 DEF CopyByte, ReaderTypes
  <2> QED
    BY <2>1, <2>2, <2>3, <2>4, <2>5, <2>6, <2>7, AnyStep DEF Reading
<1> QED
  BY <1>3, <1>4, <1>5, <1>6 DEF TypeInv

-----------------------------------------------------------------------------
(* The hardware                                                            *)

\* Places and turns are counted from where reception started.
LEMMA SameStart ==
  ASSUME base' = base
  PROVE  \A x : (Place(x))' = Place(x) /\ (Turns(x))' = Turns(x)
BY DEF Place, Turns

LEMMA WriteHardware ==
  ASSUME DmaAssumption, DmaInv, DmaWrite
  PROVE  HardwareInv' /\ Runs' = Runs
<1>1. /\ Size \in Nat \ {0} /\ nReceived \in Nat /\ base \in Int
      /\ rxBuffer \in [0 .. Size - 1 -> Nat] /\ irqPending \in BOOLEAN
  BY ConstantFacts DEF DmaInv, TypeInv, HardwareTypes, FlagTypes
<1>2. /\ ndtr = Size - Place(nReceived) /\ Runs \in Nat /\ rxWraps = Runs % Modulus
      /\ Runs = Turns(nReceived) - (IF irqPending THEN 1 ELSE 0)
      /\ \A i \in base + 1 .. nReceived :
           i > nReceived - Size => rxBuffer[Place(i - 1)] = i
  BY DEF DmaInv, HardwareInv, Runs
<1>3. /\ nReceived' = nReceived + 1 /\ base' = base /\ rxWraps' = rxWraps
      /\ ndtr' = IF ndtr = 1 THEN Size ELSE ndtr - 1
      /\ irqPending' = (irqPending \/ ndtr = 1) /\ (ndtr = 1 => ~irqPending)
      /\ rxBuffer' = [rxBuffer EXCEPT ![Size - ndtr] = nReceived + 1]
  BY DEF DmaWrite, shared
<1>. base \in Int /\ nReceived \in Int
  BY <1>1
<1>4. Place(nReceived) \in 0 .. Size - 1 /\ Turns(nReceived) \in Int
  BY PlaceFacts
<1>5. IF Place(nReceived) = Size - 1
      THEN Place(nReceived + 1) = 0 /\ Turns(nReceived + 1) = Turns(nReceived) + 1
      ELSE /\ Place(nReceived + 1) = Place(nReceived) + 1
           /\ Turns(nReceived + 1) = Turns(nReceived)
  BY <1>1, NextPlace
<1>6. (Place(nReceived))' = Place(nReceived + 1) /\ (Turns(nReceived))' = Turns(nReceived + 1)
  BY <1>3 DEF Place, Turns
<1>7. Runs' = (Turns(nReceived))' - (IF irqPending' THEN 1 ELSE 0)
  BY DEF Runs
<1> HIDE DEF Place, Turns, Runs
<1>9. ndtr' = Size - Place(nReceived + 1)
  BY <1>1, <1>2, <1>3, <1>4, <1>5
<1>10. Runs' = Runs
  <2>1. CASE ndtr = 1
    <3>1. Runs = Turns(nReceived) /\ Turns(nReceived + 1) = Turns(nReceived) + 1
      BY <1>1, <1>2, <1>3, <1>4, <1>5, <2>1
    <3>2. irqPending'
      BY <1>3, <2>1
    <3>3. Runs' = Turns(nReceived) + 1 - 1
      BY <1>4, <1>6, <1>7, <3>1, <3>2
    <3> QED
      BY <1>4, <3>1, <3>3
  <2>2. CASE ndtr # 1
    <3>1. Turns(nReceived + 1) = Turns(nReceived)
      BY <1>1, <1>2, <1>4, <1>5, <2>2
    <3>2. irqPending' = irqPending
      BY <1>1, <1>3, <2>2
    <3> QED
      BY <1>2, <1>6, <1>7, <3>1, <3>2
  <2> QED
    BY <2>1, <2>2
<1>11. ASSUME NEW i \in base + 1 .. nReceived + 1, i > nReceived + 1 - Size
       PROVE  rxBuffer'[Place(i - 1)] = i
  <2>1. Place(i - 1) \in 0 .. Size - 1 /\ Size - ndtr = Place(nReceived)
    <3>1. i - 1 \in Int
      BY <1>1
    <3>2. Place(i - 1) \in 0 .. Size - 1
      BY <3>1, PlaceFacts
    <3> QED
      BY <1>1, <1>2, <1>4, <3>2
  <2>2. CASE i = nReceived + 1
    <3>1. i - 1 = nReceived
      BY <1>1, <2>2
    <3> QED
      BY <1>1, <1>3, <1>4, <2>1, <2>2, <3>1
  <2>3. CASE i # nReceived + 1
    <3>1. i \in base + 1 .. nReceived /\ i > nReceived - Size
      BY <1>1, <1>11, <2>3
    <3>2. i - 1 \in Int /\ nReceived \in Int /\ i - 1 < nReceived /\ nReceived < i - 1 + Size
      BY <1>1, <1>11, <2>3
    <3>3. Place(i - 1) # Place(nReceived)
      BY <1>1, <3>2, OtherPlace
    <3> QED
      BY <1>1, <1>2, <1>3, <2>1, <3>1, <3>3
  <2> QED
    BY <2>2, <2>3
<1>12. \A i \in base' + 1 .. nReceived' :
         i > nReceived' - Size => rxBuffer'[(Place(i - 1))'] = i
  <2> SUFFICES ASSUME NEW i \in base' + 1 .. nReceived', i > nReceived' - Size
               PROVE  rxBuffer'[(Place(i - 1))'] = i
    OBVIOUS
  <2>. base' = base /\ nReceived' = nReceived + 1
    BY <1>3
  <2>1. i \in base + 1 .. nReceived + 1 /\ i > nReceived + 1 - Size
    <3>1. Size \in Nat
      BY <1>1
    <3> QED
      BY <3>1
  <2>2. (Place(i - 1))' = Place(i - 1)
    BY <1>3 DEF Place
  <2> QED
    BY <1>11, <2>1, <2>2
<1> QED
  BY <1>2, <1>3, <1>6, <1>9, <1>10, <1>12 DEF HardwareInv

\* Unless reception starts again, the interrupt has not run less often.
LEMMA HardwareStep ==
  ASSUME DmaAssumption, DmaInv, [Next]_vars
  PROVE  HardwareInv' /\ (ErrorCallback \/ Runs' >= Runs)
<1>1. /\ Size \in Nat \ {0} /\ Modulus \in Nat \ {0}
      /\ nReceived \in Nat /\ irqPending \in BOOLEAN /\ HardwareInv
  BY ConstantFacts DEF DmaInv, TypeInv, HardwareTypes, FlagTypes
<1>. Runs \in Nat
  BY DEF DmaInv, HardwareInv
<1>2. CASE DmaWrite
  <2>1. HardwareInv' /\ Runs' = Runs
    BY <1>2, WriteHardware
  <2> HIDE DEF Runs
  <2> QED
    BY <2>1
<1>3. CASE RxCpltCallback
  <2>1. /\ irqPending = TRUE /\ irqPending' = FALSE
        /\ UNCHANGED <<nReceived, rxBuffer, ndtr, base>>
        /\ rxWraps' = (rxWraps + 1) % Modulus
    BY <1>1, <1>3 DEF RxCpltCallback, history
  <2>2. /\ (Place(nReceived))' = Place(nReceived) /\ (Turns(nReceived))' = Turns(nReceived)
        /\ \A i : (Place(i - 1))' = Place(i - 1)
    BY <2>1 DEF Place, Turns
  <2>3. Runs' = Turns(nReceived) /\ Runs = Turns(nReceived) - 1
    <3>1. Turns(nReceived) \in Int
      BY <1>1, PlaceFacts DEF DmaInv, TypeInv, HardwareTypes
    <3>2. Runs' = (Turns(nReceived))' - 0
      BY <2>1 DEF Runs
    <3> QED
      BY <2>1, <2>2, <3>1, <3>2 DEF Runs
  <2>4. Runs \in Nat /\ rxWraps = Runs % Modulus
    BY <1>1 DEF HardwareInv
  <2>5. Turns(nReceived) = Runs + 1
    <3>1. Turns(nReceived) \in Int
      BY <1>1, PlaceFacts DEF DmaInv, TypeInv, HardwareTypes
    <3> QED
      BY <2>3, <3>1
  <2>6. rxWraps' = (Runs + 1) % Modulus
    <3>1. Runs \in Int /\ 1 \in Int
      BY <2>4
    <3> QED
      BY <1>1, <2>1, <2>4, <3>1, ModuloBefore
  <2> HIDE DEF Runs
  <2>7. Runs' \in Nat /\ rxWraps' = Runs' % Modulus /\ Runs' >= Runs
    BY <2>3, <2>4, <2>5, <2>6
  <2> QED
    BY <1>1, <2>1, <2>2, <2>7 DEF HardwareInv
<1>4. CASE ErrorCallback
  <2>1. /\ irqPending' = FALSE /\ base' = nReceived /\ nReceived' = nReceived
        /\ rxWraps' = 0 /\ ndtr' = Size
    BY <1>4 DEF ErrorCallback
  <2>2. (Place(nReceived))' = 0 % Size /\ (Turns(nReceived))' = 0 \div Size
    <3>1. nReceived - nReceived = 0
      BY <1>1
    <3> QED
      BY <2>1, <3>1 DEF Place, Turns
  <2>3. (0 % Size) = 0 /\ (0 \div Size) = 0 /\ (0 % Modulus) = 0
    BY <1>1
  <2>4. Runs' = 0
    BY <2>1, <2>2, <2>3 DEF Runs
  <2>5. base' + 1 .. nReceived' = {}
    BY <1>1, <2>1
  <2>6. HardwareInv'
    BY <1>1, <2>1, <2>2, <2>3, <2>4, <2>5 DEF HardwareInv
  <2> QED
    BY <1>4, <2>6
<1>5. CASE Counting \/ Reading \/ UNCHANGED vars
  <2>1. UNCHANGED <<nReceived, rxBuffer, ndtr, irqPending, rxWraps, base>>
    BY <1>5, KindOfStep DEF hardware, shared, history, vars
  <2>2. Runs' = Runs
    BY <2>1 DEF Runs, Turns
  <2>3. HardwareInv'
    BY <1>1, <2>1 DEF HardwareInv, Runs, Turns, Place
  <2> HIDE DEF Runs
  <2> QED
    BY <2>2, <2>3
<1> QED
  BY <1>2, <1>3, <1>4, <1>5, KindOfStep DEF Hardware

-----------------------------------------------------------------------------
(* The reader's count                                                      *)

\* A count that is some turns too small makes the reader go back to a byte that
\* was received since reception started, or it has been overwritten.
LEMMA DiscardFresh ==
  ASSUME DmaAssumption, DmaInv, Discard
  PROVE  FreshInv'
<1>1. /\ Size \in Nat \ {0} /\ Modulus \in Nat \ {0}
      /\ nReceived \in Nat /\ base \in 0 .. nReceived /\ count \in 0 .. Modulus - 1
  BY ConstantFacts DEF DmaInv, TypeInv, HardwareTypes, CountTypes
<1>2. /\ rxTotalRead' = count
      /\ nextByte' = IF rxResync THEN seen + 1
                     ELSE seen + 1 - ((seen - base - count) % Modulus)
      /\ torn' = (rxResync \/ nReceived + 1 - nextByte' > Size)
      /\ UNCHANGED <<nReceived, rxResync, base>>
      /\ pc \in {"discard", "flush"}
  BY DEF Discard, hardware
<1> SUFFICES ASSUME ~torn'
             PROVE  /\ ~rxResync' /\ nextByte' \in base' + 1 .. nReceived' + 1
                    /\ Unread' <= Size
                    /\ rxTotalRead' = (nextByte' - 1 - base') % Modulus
  BY DEF FreshInv
<1>3. ~rxResync
  BY <1>2
<1>4. PICK v \in 0 .. Runs : Snapshot(v)
  BY <1>2, <1>3 DEF DmaInv, SnapshotInv
<1> DEFINE x == (seen - base - count) % Modulus
           t == Turns(seen)
           p == Place(seen)
<1>5. /\ v \in Nat /\ v <= t /\ seen \in base .. nReceived
      /\ count = (v * Size + p) % Modulus
  <2>1. Runs \in Nat
    BY DEF DmaInv, HardwareInv
  <2> HIDE DEF Runs
  <2> QED
    BY <1>4, <2>1 DEF Snapshot
<1>6. p \in 0 .. Size - 1 /\ t \in Int /\ seen - base = Size * t + p
  <2>1. base \in Int /\ seen \in Int
    BY <1>1, <1>5
  <2> QED
    BY <2>1, PlaceFacts
<1>7. x \in 0 .. Modulus - 1 /\ nextByte' = seen + 1 - x
  <2>1. seen - base - count \in Int
    BY <1>1, <1>5
  <2>2. x \in 0 .. Modulus - 1
    BY <2>1, Remainders
  <2> QED
    BY <1>2, <1>3, <2>2
<1> HIDE DEF t, p
<1>8. ((seen - base - x) % Modulus) = count
  <2>1. seen - base \in Int /\ seen - base - count \in Int
    BY <1>1, <1>5
  <2>2. (((seen - base) - x) % Modulus) = (((seen - base) - (seen - base - count)) % Modulus)
    BY <1>1, <2>1, ModuloBefore
  <2>3. (seen - base) - (seen - base - count) = count
    BY <1>1, <1>5
  <2> QED
    BY <1>1, <2>2, <2>3, SmallIsSame
<1>9. v = t => x = 0
  <2> SUFFICES ASSUME v = t PROVE x = 0
    OBVIOUS
  <2>1. v * Size + p = seen - base
    BY <1>1, <1>5, <1>6
  <2>2. seen - base \in Int
    BY <1>1, <1>5
  <2>3. (((seen - base) - ((seen - base) % Modulus)) % Modulus)
          = (((seen - base) - (seen - base)) % Modulus)
    BY <1>1, <2>2, ModuloBefore
  <2>4. (seen - base) - (seen - base) = 0
    BY <2>2
  <2>5. (0 % Modulus) = 0
    BY <1>1
  <2> QED
    BY <1>5, <2>1, <2>3, <2>4, <2>5
<1> HIDE DEF x
<1>10. nReceived + 1 - nextByte' <= Size
  <2>1. nextByte' \in Int
    BY <1>1, <1>5, <1>7
  <2>2. ~(nReceived + 1 - nextByte' > Size)
    BY <1>2
  <2>3. \A m, n, s \in Int : m + 1 - n > s \/ m + 1 - n <= s
    OBVIOUS
  <2>4. nReceived \in Int /\ Size \in Int
    BY <1>1
  <2> QED
    BY <2>1, <2>2, <2>3, <2>4
<1>11. x <= seen - base
  <2>1. CASE v = t
    BY <1>1, <1>5, <1>9, <2>1
  <2>2. CASE v # t
    <3>1. t >= 1
      BY <1>5, <1>6, <2>2
    <3>2. Size * t >= Size /\ Size * t \in Int
      BY <1>1, <1>6, <3>1, Multiples
    <3>3. seen - base >= Size
      BY <1>1, <1>5, <1>6, <3>2
    <3>4. x <= Size
      BY <1>1, <1>5, <1>7, <1>10
    <3> QED
      BY <1>1, <1>5, <1>7, <3>3, <3>4
  <2> QED
    BY <2>1, <2>2
<1>12. nextByte' - 1 - base = seen - base - x
  BY <1>1, <1>5, <1>7
<1>13. nextByte' \in base' + 1 .. nReceived' + 1
  BY <1>1, <1>2, <1>5, <1>7, <1>11
<1>14. Unread' <= Size
  BY <1>2, <1>10 DEF Unread
<1> QED
  BY <1>2, <1>3, <1>8, <1>12, <1>13, <1>14

LEMMA ReadEndFresh ==
  ASSUME DmaAssumption, DmaInv, ReadEnd
  PROVE  FreshInv'
<1>1. /\ Size \in Nat \ {0} /\ Modulus \in Nat \ {0} /\ length \in Nat
      /\ nReceived \in Nat /\ base \in 0 .. nReceived /\ available \in 0 .. Modulus - 1
  BY ConstantFacts DEF DmaInv, TypeInv, HardwareTypes, CountTypes, ReaderTypes
<1>2. /\ rxTotalRead' = (rxTotalRead + BytesToRead) % Modulus
      /\ nextByte' = nextByte + BytesToRead
      /\ UNCHANGED <<nReceived, rxResync, base, torn>>
      /\ pc = "copy"
  BY DEF ReadEnd, hardware
<1> SUFFICES ASSUME ~torn
             PROVE  /\ ~rxResync' /\ nextByte' \in base' + 1 .. nReceived' + 1
                    /\ Unread' <= Size
                    /\ rxTotalRead' = (nextByte' - 1 - base') % Modulus
  BY <1>2 DEF FreshInv
<1>3. /\ ~rxResync /\ nextByte \in base + 1 .. nReceived + 1
      /\ nReceived + 1 - nextByte <= Size
      /\ rxTotalRead = (nextByte - 1 - base) % Modulus
      /\ available \in 1 .. nReceived + 1 - nextByte
  BY <1>2 DEF DmaInv, FreshInv, CopyInv, Unread
<1>4. BytesToRead \in 0 .. available
  BY <1>1 DEF BytesToRead
<1>5. nextByte - 1 - base \in Int /\ BytesToRead \in Int
  BY <1>1, <1>3, <1>4
<1>6. (((nextByte - 1 - base) % Modulus) + BytesToRead) % Modulus
        = ((nextByte - 1 - base) + BytesToRead) % Modulus
  BY <1>1, <1>5, ModuloBefore
<1>7. (nextByte - 1 - base) + BytesToRead = nextByte' - 1 - base'
  BY <1>1, <1>2, <1>3, <1>4
<1>8. nextByte' \in base' + 1 .. nReceived' + 1
  BY <1>1, <1>2, <1>3, <1>4
<1>9. Unread' <= Size
  BY <1>1, <1>2, <1>3, <1>4 DEF Unread
<1> QED
  BY <1>2, <1>3, <1>6, <1>7, <1>8, <1>9

LEMMA FreshStep ==
  ASSUME DmaAssumption, DmaInv, [Next]_vars
  PROVE  FreshInv'
<1>1. /\ Size \in Nat \ {0} /\ nReceived \in Nat /\ nextByte \in Int /\ base \in Int
      /\ FreshInv
  BY ConstantFacts DEF DmaInv, TypeInv, HardwareTypes, CountTypes
<1>2. CASE DmaWrite
  <2>1. /\ nReceived' = nReceived + 1 /\ torn' = (torn \/ Unread = Size)
        /\ UNCHANGED <<rxTotalRead, rxResync, nextByte, base>>
    BY <1>2 DEF DmaWrite, shared
  <2> SUFFICES ASSUME ~torn'
               PROVE  /\ ~rxResync' /\ nextByte' \in base' + 1 .. nReceived' + 1
                      /\ Unread' <= Size
                      /\ rxTotalRead' = (nextByte' - 1 - base') % Modulus
    BY DEF FreshInv
  <2>2. ~torn /\ nReceived + 1 - nextByte # Size
    BY <2>1 DEF Unread
  <2>3. /\ ~rxResync /\ nextByte \in base + 1 .. nReceived + 1
        /\ nReceived + 1 - nextByte <= Size
        /\ rxTotalRead = (nextByte - 1 - base) % Modulus
    BY <1>1, <2>2 DEF FreshInv, Unread
  <2>4. Unread' = nReceived + 1 + 1 - nextByte
    BY <2>1 DEF Unread
  <2>5. Unread' <= Size
    BY <1>1, <2>2, <2>3, <2>4
  <2>6. nextByte \in base + 1 .. nReceived + 1 + 1
    BY <1>1, <2>3
  <2> QED
    BY <2>1, <2>3, <2>5, <2>6
<1>3. CASE ErrorCallback
  BY <1>3 DEF ErrorCallback, FreshInv
<1>4. CASE CheckResync
  BY <1>1, <1>4 DEF CheckResync, FreshInv, Unread, hardware, history
<1>5. CASE Discard
  BY <1>5, DiscardFresh
<1>6. CASE ReadEnd
  BY <1>6, ReadEndFresh
<1>7. CASE ~DmaWrite /\ ~ErrorCallback /\ ~CheckResync /\ ~Discard /\ ~ReadEnd
  <2>1. UNCHANGED <<nReceived, torn, rxResync, rxTotalRead, nextByte, base>>
    <3>1. CASE RxCpltCallback \/ UNCHANGED vars
      BY <3>1 DEF RxCpltCallback, hardware, shared, history, vars
    <3>2. CASE Counting
      BY <1>7, <3>2 DEF Counting, ReadWraps, ReadNdtr, ReadWrapsAgain, Retry, Overflow,
         hardware, shared, history
    <3>3. CASE Reading
      BY <1>7, <3>3 DEF Reading, Read, Return0, LookAgain, Something, CopyByte, FlushRx,
         hardware, shared, history
    <3> QED
      BY <1>7, <3>1, <3>2, <3>3, AnyStep DEF Hardware
  <2> QED
    BY <1>1, <2>1 DEF FreshInv, Unread
<1> QED
  BY <1>2, <1>3, <1>4, <1>5, <1>6, <1>7

-----------------------------------------------------------------------------
(* What the reader has read of the hardware                                *)

\* As long as reception does not start again, and nothing more is read, what
\* was read stays true.
LEMMA KeepSnapshot ==
  ASSUME DmaAssumption, DmaInv, [Next]_vars, ~ErrorCallback,
         NEW v \in 0 .. Runs, WrapsAsOf(v),
         UNCHANGED <<wraps, nextByte, base>>, torn => torn'
  PROVE  /\ v \in 0 .. Runs' /\ (WrapsAsOf(v))'
         /\ (Snapshot(v) /\ UNCHANGED <<count, seen>>) => (Snapshot(v))'
<1>1. /\ Runs \in Nat /\ Runs' \in Nat /\ Runs' >= Runs
  BY HardwareStep DEF DmaInv, HardwareInv
<1>2. v \in 0 .. Runs'
  <2> HIDE DEF Runs
  <2> QED
    BY <1>1
<1>3. (Turns(nextByte - 1))' = Turns(nextByte - 1)
  BY DEF Turns
<1>4. (WrapsAsOf(v))'
  BY <1>3 DEF WrapsAsOf
<1>5. ASSUME Snapshot(v), UNCHANGED <<count, seen>>
      PROVE  (Snapshot(v))'
  <2>1. (Turns(seen))' = Turns(seen) /\ (Place(seen))' = Place(seen)
    BY <1>5 DEF Turns, Place
  <2>2. nReceived \in Nat /\ base \in Nat /\ (nReceived' = nReceived \/ nReceived' = nReceived + 1)
    <3>1. nReceived \in Nat /\ base \in Nat
      BY DEF DmaInv, TypeInv, HardwareTypes
    <3>2. CASE DmaWrite
      BY <3>1, <3>2 DEF DmaWrite
    <3>3. CASE ~DmaWrite
      <4>1. nReceived' = nReceived
        BY <3>3, KindOfStep DEF Hardware, RxCpltCallback, hardware, vars
      <4> QED
        BY <3>1, <4>1
    <3> QED
      BY <3>2, <3>3
  <2>3. seen' \in base' .. nReceived'
    BY <1>5, <2>2 DEF Snapshot
  <2> QED
    BY <1>4, <1>5, <2>1, <2>3 DEF Snapshot
<1> QED
  BY <1>2, <1>4, <1>5

\* The steps in which the reader reads nothing
LEMMA HardwareKeeps ==
  ASSUME [Next]_vars, (Hardware /\ ~ErrorCallback) \/ UNCHANGED vars
  PROVE  /\ UNCHANGED <<pc, after, locals, nextByte, seen, base, rxResync>>
         /\ torn => torn'
<1>1. CASE DmaWrite
  BY <1>1 DEF DmaWrite, shared
<1>2. CASE RxCpltCallback
  BY <1>2 DEF RxCpltCallback, history
<1>3. CASE UNCHANGED vars
  BY <1>3 DEF vars, shared, history
<1> QED
  BY <1>1, <1>2, <1>3 DEF Hardware

\* The wraps were counted after the last read had ended.
LEMMA RunsAreNew ==
  ASSUME DmaAssumption, DmaInv
  PROVE  /\ Runs \in Nat /\ Runs <= Turns(nReceived) /\ Runs >= Turns(nReceived) - 1
         /\ ~torn => Runs >= Turns(nextByte - 1) - 1
<1>1. nReceived \in Nat /\ base \in Int /\ Runs \in Nat /\ nextByte \in Int
  BY DEF DmaInv, TypeInv, HardwareTypes, CountTypes, HardwareInv
<1>2. Turns(nReceived) \in Int
  <2>1. nReceived \in Int
    BY <1>1
  <2> QED
    BY <1>1, <2>1, PlaceFacts
<1>3. Runs <= Turns(nReceived) /\ Runs >= Turns(nReceived) - 1
  <2> HIDE DEF Turns
  <2> QED
    BY <1>2 DEF Runs
<1>4. ASSUME ~torn
      PROVE  Runs >= Turns(nextByte - 1) - 1
  <2>1. nextByte - 1 \in Int /\ nReceived \in Int /\ nextByte - 1 <= nReceived
    BY <1>1, <1>4 DEF DmaInv, FreshInv
  <2>2. Turns(nextByte - 1) \in Int /\ Turns(nextByte - 1) <= Turns(nReceived)
    BY <1>1, <2>1, PlaceFacts, TurnsMonotone
  <2> HIDE DEF Turns, Runs
  <2> QED
    BY <1>1, <1>2, <1>3, <2>2
<1> QED
  BY <1>1, <1>3, <1>4

LEMMA WrapsStep ==
  ASSUME DmaAssumption, DmaInv, [Next]_vars
  PROVE  WrapsInv'
<1> SUFFICES ASSUME pc' = "ndtr", ~rxResync'
             PROVE  \E v \in 0 .. Runs' : (WrapsAsOf(v))'
  BY DEF WrapsInv
<1>1. CASE ReadWraps
  <2>1. UNCHANGED <<nextByte, base, torn, nReceived, irqPending>> /\ wraps' = rxWraps
    BY <1>1 DEF ReadWraps, history, hardware
  <2>2. Runs' = Runs /\ (Turns(nextByte - 1))' = Turns(nextByte - 1)
    BY <2>1 DEF Runs, Turns
  <2>3. rxWraps = Runs % Modulus
    BY DEF DmaInv, HardwareInv
  <2>4. (wraps = Runs % Modulus)' /\ (~torn => Runs >= Turns(nextByte - 1) - 1)'
    BY <2>1, <2>2, <2>3, RunsAreNew
  <2> HIDE DEF Runs, Turns
  <2>5. Runs' \in 0 .. Runs'
    BY <2>2, RunsAreNew
  <2>6. ASSUME NEW v \in 0 .. Runs', v = Runs'
        PROVE  (WrapsAsOf(v))'
    BY <2>4, <2>6 DEF WrapsAsOf
  <2> QED
    BY <2>5, <2>6
<1>2. CASE (Hardware /\ ~ErrorCallback) \/ UNCHANGED vars
  <2>1. UNCHANGED <<pc, wraps, nextByte, base, rxResync>> /\ (torn => torn')
    BY <1>2, HardwareKeeps DEF locals
  <2>2. PICK v \in 0 .. Runs : WrapsAsOf(v)
    BY <2>1 DEF DmaInv, WrapsInv
  <2>3. ~ErrorCallback
    <3>1. ASSUME ErrorCallback, UNCHANGED vars
          PROVE  FALSE
      <4>1. nErrors' = nErrors + 1 /\ nErrors' = nErrors /\ rxResync' = TRUE
        BY <3>1 DEF ErrorCallback, vars
      <4> QED
        BY <4>1
    <3> QED
      BY <1>2, <3>1
  <2> QED
    BY <2>1, <2>2, <2>3, KeepSnapshot
<1>3. CASE ErrorCallback
  BY <1>3 DEF ErrorCallback
<1>4. CASE (Counting /\ ~ReadWraps) \/ Reading
  BY <1>4 DEF Counting, CheckResync, ReadNdtr, ReadWrapsAgain, Retry, Overflow, Reading, Read,
     Discard, Return0, LookAgain, Something, CopyByte, ReadEnd, FlushRx, Goto, Return, DmaInv,
     TypeInv, FlagTypes
<1> QED
  BY <1>1, <1>2, <1>3, <1>4, AnyStep DEF Counting

\* NDTR, read after the wraps, gives a count of what had come then.
LEMMA ReadNdtrSnapshot ==
  ASSUME DmaAssumption, DmaInv, ReadNdtr, ~rxResync'
  PROVE  \E v \in 0 .. Runs' : (Snapshot(v))'
<1>1. /\ UNCHANGED <<rxResync, wraps, nextByte, base, torn, nReceived, irqPending>>
      /\ count' = WriteCount /\ seen' = nReceived /\ pc = "ndtr"
  BY DEF ReadNdtr, hardware, shared
<1>2. /\ Size \in Nat \ {0} /\ Modulus \in Nat \ {0} /\ nReceived \in Nat
      /\ base \in 0 .. nReceived /\ wraps \in Int /\ nextByte \in Int
  BY ConstantFacts DEF DmaInv, TypeInv, HardwareTypes, CountTypes
<1>3. PICK v \in 0 .. Runs : WrapsAsOf(v)
  BY <1>1 DEF DmaInv, WrapsInv
<1>4. v \in Int /\ wraps = v % Modulus /\ v <= Turns(nReceived)
  <2>1. Runs \in Nat /\ Runs <= Turns(nReceived)
    BY RunsAreNew
  <2>2. nReceived \in Int /\ base \in Int
    BY <1>2
  <2>3. Turns(nReceived) \in Int
    BY <2>2, PlaceFacts
  <2> HIDE DEF Runs, Turns
  <2> QED
    BY <1>3, <2>1, <2>3 DEF WrapsAsOf
<1>5. /\ Place(nReceived) \in 0 .. Size - 1 /\ ndtr \in 1 .. Size
      /\ Size - ndtr = Place(nReceived)
  BY <1>2, NdtrFacts, PlaceFacts
<1>6. count' = (v * Size + Place(nReceived)) % Modulus
  <2>1. wraps * Size \in Int /\ Place(nReceived) \in Int
    BY <1>2, <1>5, Multiples
  <2>2. wraps * Size + Size - ndtr = wraps * Size + Place(nReceived)
    BY <1>2, <1>5, <2>1
  <2>3. Size \in Int
    BY <1>2
  <2>4. ASSUME NEW p \in Int
        PROVE  (((v % Modulus) * Size + p) % Modulus) = ((v * Size + p) % Modulus)
    <3>1. v \in Int /\ Modulus \in Nat \ {0} /\ Size \in Int
      BY <1>2, <1>4
    <3> QED
      BY <3>1, ModuloBefore
  <2>5. (((v % Modulus) * Size + Place(nReceived)) % Modulus)
          = ((v * Size + Place(nReceived)) % Modulus)
    BY <2>1, <2>4
  <2> QED
    BY <1>1, <1>4, <2>2, <2>5 DEF WriteCount
<1>7. /\ Runs' = Runs /\ (Turns(seen))' = Turns(nReceived) /\ (Place(seen))' = Place(nReceived)
      /\ (Turns(nextByte - 1))' = Turns(nextByte - 1)
  BY <1>1 DEF Runs, Turns, Place
<1>8. (WrapsAsOf(v))'
  BY <1>1, <1>3, <1>7 DEF WrapsAsOf
<1>9. (seen \in base .. nReceived)' /\ (~torn => seen >= nextByte - 1)'
  BY <1>1, <1>2 DEF DmaInv, FreshInv
<1>10. (Snapshot(v))'
  BY <1>4, <1>6, <1>7, <1>8, <1>9 DEF Snapshot
<1> QED
  BY <1>3, <1>7, <1>10

LEMMA SnapshotStep ==
  ASSUME DmaAssumption, DmaInv, [Next]_vars
  PROVE  SnapshotInv'
<1> SUFFICES ASSUME pc' \in {"wrapsAgain", "available", "discard", "flush"}, ~rxResync'
             PROVE  \E v \in 0 .. Runs' : (Snapshot(v))'
  BY DEF SnapshotInv
<1>1. CASE ReadNdtr
  BY <1>1, ReadNdtrSnapshot
<1>2. CASE ErrorCallback
  BY <1>2 DEF ErrorCallback
<1>3. CASE ReadWrapsAgain \/ (Hardware /\ ~ErrorCallback) \/ UNCHANGED vars
  <2>1. /\ UNCHANGED <<wraps, count, nextByte, seen, base, rxResync>> /\ (torn => torn')
        /\ pc \in {"wrapsAgain", "available", "discard", "flush"}
    <3>1. CASE ReadWrapsAgain
      BY <3>1 DEF ReadWrapsAgain, history, shared
    <3>2. CASE (Hardware /\ ~ErrorCallback) \/ UNCHANGED vars
      BY <3>2, HardwareKeeps DEF locals
    <3> QED
      BY <1>3, <3>1, <3>2
  <2>2. PICK v \in 0 .. Runs : Snapshot(v)
    BY <2>1 DEF DmaInv, SnapshotInv
  <2>3. ~ErrorCallback
    BY DEF ErrorCallback
  <2>4. WrapsAsOf(v)
    BY <2>2 DEF Snapshot
  <2> QED
    BY <2>1, <2>2, <2>3, <2>4, KeepSnapshot
<1>4. CASE (Counting /\ ~ReadNdtr /\ ~ReadWrapsAgain) \/ Reading
  BY <1>4 DEF Counting, CheckResync, ReadWraps, Retry, Overflow, Reading, Read,
     Discard, Return0, LookAgain, Something, CopyByte, ReadEnd, FlushRx, Goto, Return, DmaInv,
     TypeInv, FlagTypes
<1> QED
  BY <1>1, <1>2, <1>3, <1>4, AnyStep DEF Counting

-----------------------------------------------------------------------------
(* The count of what is available                                          *)

\* The wraps that the reader found unchanged are those of now: they are not
\* another time around, as it has not been overtaken.
LEMMA WrapsAreOfNow ==
  ASSUME DmaAssumption, DmaInv, ~torn, NEW v \in 0 .. Runs, Snapshot(v), wraps = rxWraps
  PROVE  v = Runs
<1>1. /\ Modulus \in Nat \ {0} /\ Modulus >= 3 /\ Size \in Nat \ {0}
      /\ nReceived \in Nat /\ base \in Int /\ nextByte \in Int
  BY ConstantFacts DEF DmaInv, TypeInv, HardwareTypes, CountTypes
<1>2. nReceived - (nextByte - 1) <= Size /\ nextByte - 1 <= nReceived
  BY <1>1 DEF DmaInv, FreshInv, Unread
<1>3. /\ Turns(nReceived) \in Int /\ Turns(nextByte - 1) \in Int
      /\ Turns(nReceived) <= Turns(nextByte - 1) + 1
  <2>1. nReceived \in Int /\ nextByte - 1 \in Int
    BY <1>1
  <2> QED
    BY <1>1, <1>2, <2>1, PlaceFacts, TurnsMonotone
<1>4. Runs \in Nat /\ Runs <= Turns(nReceived)
  BY RunsAreNew
<1>5. v >= Turns(nextByte - 1) - 1 /\ (v % Modulus) = (Runs % Modulus)
  BY DEF Snapshot, WrapsAsOf, DmaInv, HardwareInv
<1> HIDE DEF Runs, Turns
<1>6. Runs \in Int /\ v \in Int /\ Runs - v < Modulus /\ v - Runs < Modulus
  BY <1>1, <1>3, <1>4, <1>5
<1> QED
  BY <1>1, <1>5, <1>6, CloseIsSame

LEMMA Difference ==
  ASSUME NEW R \in Nat \ {0}, NEW y \in Int, NEW z \in Int
  PROVE  ((y % R) - (z % R)) % R = (y - z) % R
<1>1. (y % R) \in Int /\ -z \in Int
  BY DivFacts
<1>2. (((y % R) - (z % R)) % R) = (((y % R) - z) % R)
  BY <1>1, ModuloBefore
<1>3. (((y % R) + (-z)) % R) = ((y + (-z)) % R)
  BY <1>1, ModuloBefore
<1>4. y + (-z) = y - z
  OBVIOUS
<1>5. \A w \in Int : w + (-z) = w - z
  OBVIOUS
<1> QED
  BY <1>1, <1>2, <1>3, <1>4, <1>5

\* The difference of the counts is what there is; in the gap it is a turn less.
LEMMA CountOfNow ==
  ASSUME DmaAssumption, DmaInv, ~torn, NEW v \in 0 .. Runs, Snapshot(v), wraps = rxWraps,
         NEW a, a = (count - rxTotalRead) % Modulus
  PROVE  \/ a = seen + 1 - nextByte
         \/ /\ wraps = (Turns(seen) - 1) % Modulus
            /\ a > Size \/ (a = 0 /\ seen + 1 - nextByte = Size)
<1>1. /\ Modulus \in Nat \ {0} /\ Size \in Nat \ {0} /\ Modulus >= 3 * Size
      /\ nReceived \in Nat /\ base \in Int /\ nextByte \in Int /\ seen \in Int
  BY ConstantFacts DEF DmaInv, TypeInv, HardwareTypes, CountTypes
<1>2. /\ nReceived - (nextByte - 1) <= Size
      /\ rxTotalRead = (nextByte - 1 - base) % Modulus
  BY <1>1 DEF DmaInv, FreshInv, Unread
<1>3. /\ wraps = v % Modulus /\ v <= Turns(seen) /\ seen <= nReceived /\ seen >= nextByte - 1
      /\ count = (v * Size + Place(seen)) % Modulus
  BY <1>1 DEF Snapshot, WrapsAsOf
<1>4. Turns(seen) \in Int /\ Place(seen) \in Int /\ seen - base = Size * Turns(seen) + Place(seen)
  BY <1>1, PlaceFacts
<1>5. v \in Int /\ v >= Turns(seen) - 1
  <2>1. v = Runs /\ Runs \in Nat /\ Runs >= Turns(nReceived) - 1
    BY WrapsAreOfNow, RunsAreNew
  <2>2. nReceived \in Int
    BY <1>1
  <2>3. Turns(nReceived) \in Int /\ Turns(seen) <= Turns(nReceived)
    BY <1>1, <1>3, <2>2, PlaceFacts, TurnsMonotone
  <2> HIDE DEF Turns, Runs
  <2> QED
    BY <1>4, <2>1, <2>3
<1> DEFINE y == v * Size + Place(seen)
           z == nextByte - 1 - base
           d == seen + 1 - nextByte
<1>6. y \in Int /\ z \in Int
  <2>1. v * Size \in Int
    BY <1>1, <1>5, Multiples
  <2> QED
    BY <1>1, <1>4, <2>1
<1>7. a = (y - z) % Modulus
  <2> HIDE DEF y, z
  <2>1. count = y % Modulus /\ rxTotalRead = z % Modulus
    BY <1>2, <1>3 DEF y, z
  <2> QED
    BY <1>1, <1>6, <2>1, Difference
<1>8. d \in 0 .. Size
  BY <1>1, <1>2, <1>3
<1>9. CASE v = Turns(seen)
  <2>1. y = seen - base
    BY <1>1, <1>4, <1>9
  <2>2. y - z = d
    BY <1>1, <2>1
  <2>3. d \in 0 .. Modulus - 1
    BY <1>1, <1>8
  <2>4. a = d
    BY <1>1, <1>7, <2>2, <2>3, SmallIsSame
  <2> QED
    BY <2>4
<1>10. CASE v = Turns(seen) - 1
  <2>1. y = seen - base - Size
    <3>1. v * Size = Size * Turns(seen) - Size /\ Size * Turns(seen) \in Int
      BY <1>1, <1>4, <1>10, Multiples
    <3>2. y = (Size * Turns(seen) - Size) + Place(seen)
      BY <3>1
    <3> DEFINE q == Size * Turns(seen)
    <3>3. q \in Int /\ y = (q - Size) + Place(seen) /\ seen - base = q + Place(seen)
      BY <1>4, <3>1, <3>2
    <3>4. Size \in Int /\ seen - base \in Int /\ Place(seen) \in Int
      BY <1>1, <1>4
    <3> HIDE DEF y, q
    <3> QED
      BY <3>3, <3>4
  <2>2. y - z = d - Size
    BY <1>1, <2>1
  <2>3. CASE d = Size
    <3>1. (0 % Modulus) = 0
      BY <1>1
    <3>2. y - z = 0
      BY <1>1, <2>2, <2>3
    <3> QED
      BY <1>3, <1>7, <1>10, <2>3, <3>1, <3>2
  <2>4. CASE d # Size
    <3> HIDE DEF d, y, z
    <3>1. d - Size + Modulus \in 0 .. Modulus - 1 /\ d - Size + Modulus > Size
      BY <1>1, <1>8, <2>4
    <3>2. ASSUME NEW m \in Int
          PROVE  ((m + Modulus) % Modulus) = (m % Modulus)
      <4>1. m + Modulus \in Int /\ 1 \in Int /\ m + Modulus = m + Modulus * 1
        BY <1>1
      <4> QED
        BY <1>1, <4>1, SameModulo
    <3>3. ((d - Size + Modulus) % Modulus) = ((d - Size) % Modulus)
      <4>1. d - Size \in Int
        BY <1>1, <1>8
      <4> QED
        BY <3>2, <4>1
    <3>4. ((d - Size + Modulus) % Modulus) = d - Size + Modulus
      BY <1>1, <3>1, SmallIsSame
    <3> QED
      BY <1>3, <1>7, <1>10, <2>2, <3>1, <3>3, <3>4
  <2> QED
    BY <2>3, <2>4
<1> QED
  BY <1>3, <1>4, <1>5, <1>9, <1>10

LEMMA AvailableStep ==
  ASSUME DmaAssumption, DmaInv, [Next]_vars
  PROVE  AvailableInv'
<1> SUFFICES ASSUME pc' = "available", ~torn'
             PROVE  (available = seen + 1 - nextByte)' \/ InGap'
  BY DEF AvailableInv
<1>1. CASE ReadWrapsAgain
  <2>1. /\ UNCHANGED <<nextByte, seen, base, torn, wraps, rxResync>>
        /\ pc = "wrapsAgain"
    BY <1>1 DEF ReadWrapsAgain, history, shared
  <2>2. wraps = rxWraps /\ available' = (count - rxTotalRead) % Modulus
    BY <1>1 DEF ReadWrapsAgain, WrapsUnchanged, Goto
  <2>3. ~rxResync /\ ~torn
    BY <2>1 DEF DmaInv, FreshInv
  <2>4. PICK v \in 0 .. Runs : Snapshot(v)
    BY <2>1, <2>3 DEF DmaInv, SnapshotInv
  <2>5. \/ available' = seen + 1 - nextByte
        \/ /\ wraps = (Turns(seen) - 1) % Modulus
           /\ available' > Size \/ (available' = 0 /\ seen + 1 - nextByte = Size)
    BY <2>2, <2>3, <2>4, CountOfNow
  <2>6. (Turns(seen))' = Turns(seen)
    BY <2>1 DEF Turns
  <2> QED
    BY <2>1, <2>5, <2>6 DEF InGap
<1>2. CASE (Hardware /\ ~ErrorCallback) \/ UNCHANGED vars
  <2>1. UNCHANGED <<pc, wraps, available, nextByte, seen, base>> /\ ~torn
    BY <1>2, HardwareKeeps DEF locals
  <2>2. available = seen + 1 - nextByte \/ InGap
    BY <2>1 DEF DmaInv, AvailableInv
  <2> QED
    BY <2>1, <2>2 DEF InGap, Turns
<1>3. CASE ErrorCallback
  BY <1>3 DEF ErrorCallback
<1>4. CASE (Counting /\ ~ReadWrapsAgain) \/ Reading
  BY <1>4 DEF Counting, CheckResync, ReadWraps, ReadNdtr, Retry, Overflow, Reading, Read,
     Discard, Return0, LookAgain, Something, CopyByte, ReadEnd, FlushRx, Goto, Return
<1> QED
  BY <1>1, <1>2, <1>3, <1>4, AnyStep DEF Counting

-----------------------------------------------------------------------------
(* The copy                                                                *)

LEMMA CopyStep ==
  ASSUME DmaAssumption, DmaInv, [Next]_vars
  PROVE  CopyInv'
<1>1. /\ Size \in Nat \ {0} /\ Modulus \in Nat \ {0} /\ nReceived \in Nat
      /\ base \in 0 .. nReceived /\ nextByte \in Int /\ seen \in Int
      /\ length \in Nat /\ available \in 0 .. Modulus - 1 /\ pData \in Seq(Nat)
  BY ConstantFacts
     DEF DmaInv, TypeInv, HardwareTypes, CountTypes, ReaderTypes
<1> SUFFICES ASSUME pc' = "copy", ~torn'
             PROVE  /\ available' \in 1 .. Unread' /\ Len(pData') <= BytesToRead'
                    /\ tailIdx' = (Place(nextByte - 1 + Len(pData)))'
                    /\ \A k \in 1 .. Len(pData') : pData'[k] = nextByte' + k - 1
  BY DEF CopyInv
<1>2. CASE Something
  <2>1. /\ UNCHANGED <<nReceived, nextByte, base, torn, available, length, rxResync>>
        /\ pc = "available" /\ available \in 1 .. Size
        /\ tailIdx' = rxTotalRead % Size /\ pData' = <<>>
    BY <1>2 DEF Something, history, hardware, shared
  <2>2. ~torn /\ ~rxResync /\ rxTotalRead = (nextByte - 1 - base) % Modulus
    BY <2>1 DEF DmaInv, FreshInv
  <2>3. available = seen + 1 - nextByte
    BY <1>1, <2>1, <2>2 DEF DmaInv, AvailableInv, InGap
  <2>4. seen <= nReceived
    BY <1>1, <2>1, <2>2 DEF DmaInv, SnapshotInv, Snapshot
  <2>5. available \in 1 .. nReceived + 1 - nextByte
    BY <1>1, <2>1, <2>3, <2>4
  <2>6. Len(pData') = 0
    BY <2>1
  <2>7. 0 <= BytesToRead'
    BY <1>1, <2>1 DEF BytesToRead
  <2>8. (Place(nextByte - 1 + Len(pData)))' = (nextByte - 1 - base) % Size
    <3>1. (nextByte' - 1 + Len(pData')) - base' = nextByte - 1 - base
      BY <1>1, <2>1, <2>6
    <3>2. (Place(nextByte - 1 + Len(pData)))'
            = ((nextByte' - 1 + Len(pData')) - base') % Size
      BY Zenon DEF Place
    <3> QED
      BY <3>1, <3>2, Zenon
  <2>9. (((nextByte - 1 - base) % Modulus) % Size) = ((nextByte - 1 - base) % Size)
    <3>1. nextByte - 1 - base \in Int
      BY <1>1
    <3> QED
      BY <3>1, ModuloOfModulo
  <2> QED
    BY <2>1, <2>2, <2>5, <2>6, <2>7, <2>8, <2>9 DEF Unread
<1>3. CASE CopyByte
  <2> DEFINE n == Len(pData)
             i == nextByte + n
  <2>1. /\ UNCHANGED <<nReceived, nextByte, base, torn, available, length>>
        /\ pc = "copy" /\ n < BytesToRead
        /\ pData' = Append(pData, rxBuffer[tailIdx])
        /\ tailIdx' = (tailIdx + 1) % Size
    BY <1>3 DEF CopyByte, history, hardware
  <2>2. /\ available \in 1 .. nReceived + 1 - nextByte
        /\ tailIdx = Place(nextByte - 1 + n)
        /\ \A k \in 1 .. n : pData[k] = nextByte + k - 1
    BY <2>1 DEF DmaInv, CopyInv, Unread
  <2>3. nextByte \in base + 1 .. nReceived + 1 /\ nReceived + 1 - nextByte <= Size
    BY <2>1 DEF DmaInv, FreshInv, Unread
  <2>4. n \in Nat /\ BytesToRead \in Nat /\ BytesToRead <= available
    BY <1>1 DEF BytesToRead
  <2> HIDE DEF n
  <2>5. i \in base + 1 .. nReceived /\ i > nReceived - Size /\ i - 1 = nextByte - 1 + n
    BY <1>1, <2>1, <2>2, <2>3, <2>4
  <2>6. rxBuffer[tailIdx] = i
    BY <2>2, <2>5 DEF DmaInv, HardwareInv
  <2>7. /\ Len(pData') = n + 1 /\ pData'[n + 1] = i
        /\ \A k \in 1 .. n : pData'[k] = pData[k]
    <3>1. i \in Nat
      BY <1>1, <2>5
    <3> QED
      BY <1>1, <2>1, <2>6, <3>1 DEF n
  <2>8. n + 1 <= BytesToRead' /\ available' \in 1 .. Unread'
    <3>1. BytesToRead' = BytesToRead /\ Unread' = nReceived + 1 - nextByte
      BY <2>1 DEF BytesToRead, Unread
    <3> QED
      BY <2>1, <2>2, <2>4, <3>1
  <2>9. tailIdx' = (Place(nextByte - 1 + Len(pData)))'
    <3> DEFINE x == (nextByte - 1 + n) - base
    <3>1. x \in Int /\ 1 \in Int /\ (nextByte' - 1 + Len(pData')) - base' = x + 1
      BY <1>1, <2>1, <2>4, <2>7
    <3>2. tailIdx = x % Size
      <4>1. Place(nextByte - 1 + n) = x % Size
        BY Zenon DEF Place
      <4> QED
        BY <2>2, <4>1
    <3>3. (Place(nextByte - 1 + Len(pData)))' = (x + 1) % Size
      <4>1. (Place(nextByte - 1 + Len(pData)))'
              = ((nextByte' - 1 + Len(pData')) - base') % Size
        BY Zenon DEF Place
      <4> HIDE DEF x
      <4> QED
        BY <3>1, <4>1, Zenon
    <3> HIDE DEF x
    <3>4. (((x % Size) + 1) % Size) = ((x + 1) % Size)
      BY <1>1, <3>1, ModuloBefore
    <3> QED
      BY <2>1, <3>2, <3>3, <3>4
  <2>10. ASSUME NEW k \in 1 .. Len(pData')
         PROVE  pData'[k] = nextByte' + k - 1
    <3>1. CASE k = n + 1
      BY <1>1, <2>1, <2>4, <2>7, <3>1
    <3>2. CASE k # n + 1
      <4>1. k \in 1 .. n
        BY <2>4, <2>7, <3>2
      <4> QED
        BY <2>1, <2>2, <2>7, <4>1
    <3> QED
      BY <3>1, <3>2
  <2> QED
    BY <2>7, <2>8, <2>9, <2>10
<1>4. CASE (Hardware /\ ~ErrorCallback) \/ UNCHANGED vars
  <2>1. UNCHANGED <<pc, available, length, pData, tailIdx, nextByte, base>> /\ ~torn
    BY <1>4, HardwareKeeps DEF locals
  <2>2. /\ available \in 1 .. nReceived + 1 - nextByte /\ Len(pData) <= BytesToRead
        /\ tailIdx = Place(nextByte - 1 + Len(pData))
        /\ \A k \in 1 .. Len(pData) : pData[k] = nextByte + k - 1
    BY <2>1 DEF DmaInv, CopyInv, Unread
  <2>3. nReceived' = nReceived \/ nReceived' = nReceived + 1
    BY <1>4 DEF Hardware, DmaWrite, RxCpltCallback, vars, hardware
  <2>4. available' \in 1 .. nReceived' + 1 - nextByte'
    BY <1>1, <2>1, <2>2, <2>3
  <2>5. BytesToRead' = BytesToRead
    BY <2>1 DEF BytesToRead
  <2>6. (Place(nextByte - 1 + Len(pData)))' = Place(nextByte - 1 + Len(pData))
    BY <2>1 DEF Place
  <2> QED
    BY <2>1, <2>2, <2>4, <2>5, <2>6 DEF Unread
<1>5. CASE ErrorCallback
  BY <1>5 DEF ErrorCallback
<1>6. CASE Counting \/ (Reading /\ ~Something /\ ~CopyByte)
  BY <1>6 DEF Counting, CheckResync, ReadWraps, ReadNdtr, ReadWrapsAgain, Retry, Overflow,
     Reading, Read, Discard, Return0, LookAgain, ReadEnd, FlushRx, Goto, Return, DmaInv,
     TypeInv, FlagTypes
<1> QED
  BY <1>2, <1>3, <1>4, <1>5, <1>6, AnyStep DEF Reading

-----------------------------------------------------------------------------
(* What the driver promises                                                *)

LEMMA NextDma ==
  ASSUME DmaAssumption
  PROVE  DmaInv /\ [Next]_vars => DmaInv'
<1> SUFFICES ASSUME DmaInv, [Next]_vars PROVE DmaInv'
  OBVIOUS
<1>1. TypeInv' /\ HardwareInv'
  BY TypeStep, HardwareStep
<1>2. FreshInv' /\ WrapsInv'
  BY FreshStep, WrapsStep
<1>3. SnapshotInv' /\ AvailableInv' /\ CopyInv'
  BY SnapshotStep, AvailableStep, CopyStep
<1> QED
  BY <1>1, <1>2, <1>3 DEF DmaInv

LEMMA DmaInvariant ==
  ASSUME DmaAssumption
  PROVE  Spec => []DmaInv
BY Initially, NextDma, PTL DEF Spec

\* A read returns the bytes that come next, each of them once, as long as the
\* hardware has not overtaken the reader.
THEOREM NextBytesAreRead ==
  ASSUME DmaAssumption
  PROVE  Spec => []ReadsNextBytes
<1>1. DmaInv => ReadsNextBytes
  BY DEF DmaInv, CopyInv, ReadsNextBytes
<1> QED
  BY <1>1, DmaInvariant, PTL

\* What getRxBufferAvailable() takes for available is what there was, but for a
\* ring that is full to the byte in the gap before the interrupt.
THEOREM CountsAreRight ==
  ASSUME DmaAssumption
  PROVE  Spec => []CountIsRight
<1>1. DmaInv => CountIsRight
  <2> SUFFICES ASSUME DmaInv, pc = "available", ~torn, available <= Size
               PROVE  \/ available = seen + 1 - nextByte
                      \/ available = 0 /\ seen + 1 - nextByte = Size
    BY DEF CountIsRight
  <2>1. available \in Int /\ Size \in Int
    BY ConstantFacts DEF DmaInv, TypeInv, CountTypes
  <2>2. available = seen + 1 - nextByte \/ InGap
    BY DEF DmaInv, AvailableInv
  <2> QED
    BY <2>1, <2>2 DEF InGap
<1> QED
  BY <1>1, DmaInvariant, PTL

\* What is found to be an overflow is one.
LEMMA LappedIsTorn ==
  ASSUME DmaAssumption, DmaInv, pc = "available", IsLapped
  PROVE  torn
<1> SUFFICES ASSUME ~torn PROVE FALSE
  OBVIOUS
<1>1. /\ Modulus \in Nat \ {0} /\ Modulus >= 3 /\ Size \in Nat \ {0}
      /\ nReceived \in Nat /\ base \in Int /\ nextByte \in Int /\ seen \in Int
      /\ available \in Int
  BY ConstantFacts DEF DmaInv, TypeInv, HardwareTypes, CountTypes
<1>2. available > Size /\ ~irqPending /\ wraps = rxWraps
  BY DEF IsLapped
<1>3. ~rxResync /\ nReceived + 1 - nextByte <= Size
  BY DEF DmaInv, FreshInv, Unread
<1>4. PICK v \in 0 .. Runs : Snapshot(v)
  BY <1>3 DEF DmaInv, SnapshotInv
<1>5. /\ seen <= nReceived /\ v <= Turns(seen) /\ wraps = v % Modulus
  BY <1>1, <1>4 DEF Snapshot, WrapsAsOf
<1>6. v = Runs /\ Runs = Turns(nReceived)
  <2>1. v = Runs
    BY <1>2, <1>4, WrapsAreOfNow
  <2>2. nReceived \in Int
    BY <1>1
  <2>3. Turns(nReceived) \in Int
    BY <1>1, <2>2, PlaceFacts
  <2> QED
    BY <1>2, <2>1, <2>3 DEF Runs
<1>7. Turns(seen) \in Int /\ v \in Int /\ v = Turns(seen)
  <2>1. nReceived \in Int
    BY <1>1
  <2>2. Turns(seen) \in Int /\ Turns(seen) <= Turns(nReceived)
    BY <1>1, <1>5, <2>1, PlaceFacts, TurnsMonotone
  <2>3. Turns(nReceived) \in Int
    BY <1>1, <2>1, PlaceFacts
  <2> HIDE DEF Turns, Runs
  <2> QED
    BY <1>5, <1>6, <2>2, <2>3
<1>8. wraps = (Turns(seen) - 1) % Modulus
  <2>1. available = seen + 1 - nextByte \/ InGap
    BY DEF DmaInv, AvailableInv
  <2>2. available # seen + 1 - nextByte
    BY <1>1, <1>2, <1>3, <1>5
  <2> QED
    BY <2>1, <2>2 DEF InGap
<1> DEFINE t == Turns(seen)
<1>9. (t % Modulus) = ((t - 1) % Modulus)
  BY <1>5, <1>7, <1>8
<1>10. t \in Int
  BY <1>7
<1> HIDE DEF t
<1>11. t - 1 \in Int /\ t - (t - 1) < Modulus /\ (t - 1) - t < Modulus
  BY <1>1, <1>10
<1>12. t = t - 1
  BY <1>1, <1>9, <1>10, <1>11, CloseIsSame
<1> QED
  BY <1>10, <1>12

LEMMA OverflowStep ==
  ASSUME DmaAssumption
  PROVE  DmaInv /\ [Next]_vars => [overflowCount' > overflowCount => torn]_vars
<1> SUFFICES ASSUME DmaInv, [Next]_vars, overflowCount' > overflowCount
             PROVE  torn
  OBVIOUS
<1>1. overflowCount \in Nat
  BY DEF DmaInv, TypeInv, CountTypes
<1>2. CASE Overflow
  BY <1>2, LappedIsTorn DEF Overflow
<1>3. CASE ~Overflow
  <2>1. overflowCount' = overflowCount
    <3>1. CASE Counting
      BY <1>3, <3>1 DEF Counting, CheckResync, ReadWraps, ReadNdtr, ReadWrapsAgain, Retry
    <3>2. CASE ~Counting
      BY <3>2, KindOfStep DEF vars
    <3> QED
      BY <3>1, <3>2
  <2> QED
    BY <1>1, <2>1
<1> QED
  BY <1>2, <1>3

\* Good data is discarded for no overflow that is none.
THEOREM OverflowsAreReal ==
  ASSUME DmaAssumption
  PROVE  Spec => OverflowIsReal
BY DmaInvariant, OverflowStep, PTL DEF Spec, OverflowIsReal
=============================================================================
