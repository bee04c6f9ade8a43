----------------------------- MODULE AtTextProofs -----------------------------
(***************************************************************************)
(* What the client reads, for any messages of the module, sizes of buffers *)
(* and ways to cut the stream: the parser finds the lines and payloads     *)
(* that were sent, and writes to the buffer of the command that executes.  *)
(* For every text: parameters end at the commas between them, and a        *)
(* conversion over its own text is what it is in another place.            *)
(***************************************************************************)
EXTENDS MCAtText, FiniteSetTheorems, SequenceTheorems, WellFoundedInduction, TLAPS

-----------------------------------------------------------------------------
(* Numbers and positions                                                   *)

\* A set of natural numbers has a least one: of the intervals from 0 to its
\* members one contains no other.
LEMMA LeastMember ==
  ASSUME NEW T, T \subseteq Nat, T # {}
  PROVE  \E x \in T : \A y \in T : x <= y
<1> DEFINE R == StrictSubsetOrdering(Nat)
           F == FiniteSubsetsOf(Nat)
           Q == {0 .. x : x \in T}
<1>1. IsWellFoundedOn(R, F)
  BY FS_StrictSubsetOrderingWellFounded
<1>2. Q \subseteq F
  <2>1. ASSUME NEW x \in T
        PROVE  0 .. x \in F
    <3>1. IsFiniteSet(0 .. x)
      BY FS_Interval
    <3> QED
      BY <3>1 DEF FiniteSubsetsOf
  <2> QED
    BY <2>1
<1>3. Q # {}
  OBVIOUS
<1>4. \E q \in Q : \A r \in Q : ~ (<<r, q>> \in R)
  <2> HIDE DEF R, F, Q
  <2> QED
    BY <1>1, <1>2, <1>3, WFMin
<1>5. PICK x \in T : \A y \in T : ~ (<<0 .. y, 0 .. x>> \in R)
  BY <1>4
<1>6. ASSUME NEW y \in T, y < x
      PROVE  FALSE
  <2>1. /\ 0 .. y \subseteq Nat /\ 0 .. x \subseteq Nat
        /\ 0 .. y \subseteq 0 .. x /\ 0 .. y # 0 .. x
    BY <1>6
  <2> QED
    BY <1>5, <2>1 DEF StrictSubsetOrdering
<1> QED
  BY <1>6

\* The smaller of two numbers
LEMMA MinOfTwo ==
  ASSUME NEW a \in Int, NEW b \in Int
  PROVE  /\ Min({a, b}) \in {a, b}
         /\ Min({a, b}) = IF a <= b THEN a ELSE b
<1>1. \E x \in {a, b} : \A y \in {a, b} : x <= y
  <2>1. CASE a <= b
    BY <2>1
  <2>2. CASE ~(a <= b)
    BY <2>2
  <2> QED
    BY <2>1, <2>2
<1>2. Min({a, b}) \in {a, b} /\ \A y \in {a, b} : Min({a, b}) <= y
  BY <1>1 DEF Min
<1> QED
  BY <1>2

\* What is left when a number is counted down, but not below 0
LEMMA MaxOfTwo ==
  ASSUME NEW a \in Int, NEW b \in Int
  PROVE  Max({a, b}) = IF a >= b THEN a ELSE b
<1>1. \E x \in {a, b} : \A y \in {a, b} : x >= y
  <2>1. CASE a >= b
    BY <2>1
  <2>2. CASE ~(a >= b)
    BY <2>2
  <2> QED
    BY <2>1, <2>2
<1>2. Max({a, b}) \in {a, b} /\ \A y \in {a, b} : Max({a, b}) >= y
  BY <1>1 DEF Max
<1> QED
  BY <1>2

\* How many positions there are up to one
LEMMA UpToFacts ==
  ASSUME NEW P, \A j \in P : j \in Nat \ {0}, NEW i \in Nat
  PROVE  /\ UpTo(P, i) \in Nat
         /\ UpTo(P, 0) = 0
         /\ i + 1 \in P => UpTo(P, i + 1) = UpTo(P, i) + 1
         /\ i + 1 \notin P => UpTo(P, i + 1) = UpTo(P, i)
<1> DEFINE S == {j \in P : j <= i}
           T == {j \in P : j <= i + 1}
<1>1. IsFiniteSet(S) /\ Cardinality(S) \in Nat
  <2>1. S \subseteq 0 .. i /\ IsFiniteSet(0 .. i)
    BY FS_Interval
  <2> HIDE DEF S
  <2> QED
    BY <2>1, FS_Subset, FS_CardinalityType
<1>2. UpTo(P, i) = Cardinality(S) /\ UpTo(P, i + 1) = Cardinality(T)
  BY DEF UpTo
<1>3. UpTo(P, 0) = 0
  <2>1. {j \in P : j <= 0} = {}
    OBVIOUS
  <2> QED
    BY <2>1, FS_EmptySet DEF UpTo
<1>4. CASE i + 1 \in P
  <2>1. T = S \union {i + 1} /\ i + 1 \notin S
    BY <1>4
  <2>2. Cardinality(S \union {i + 1}) = Cardinality(S) + 1
    <3> HIDE DEF S
    <3> QED
      BY <1>1, <2>1, FS_AddElement
  <2> QED
    BY <1>1, <1>2, <1>3, <1>4, <2>1, <2>2
<1>5. CASE i + 1 \notin P
  <2>1. T = S
    BY <1>5
  <2> QED
    BY <1>1, <1>2, <1>3, <1>5, <2>1
<1> QED
  BY <1>4, <1>5

\* Positions up to one are those of any set that is the same up to there.
LEMMA UpToSame ==
  ASSUME NEW P, NEW Q, NEW i, \A j : j <= i => (j \in P <=> j \in Q)
  PROVE  UpTo(P, i) = UpTo(Q, i)
<1>1. {j \in P : j <= i} = {j \in Q : j <= i}
  OBVIOUS
<1> QED
  BY <1>1 DEF UpTo

\* Positions further on have no smaller numbers, and greater ones when they
\* are in the set.
LEMMA UpToGrows ==
  ASSUME NEW P, \A j \in P : j \in Nat \ {0}, NEW i \in Nat, NEW k \in Nat, i < k
  PROVE  /\ UpTo(P, i) <= UpTo(P, k)
         /\ k \in P => UpTo(P, i) < UpTo(P, k)
<1> DEFINE T == {j \in Nat : i <= j /\ UpTo(P, j) < UpTo(P, i)}
<1>1. T = {}
  <2> SUFFICES ASSUME T # {} PROVE FALSE
    OBVIOUS
  <2>1. PICK j \in T : \A x \in T : j <= x
    <3>1. T \subseteq Nat
      OBVIOUS
    <3> HIDE DEF T
    <3> QED
      BY <3>1, LeastMember
  <2>2. j \in Nat /\ i <= j /\ UpTo(P, j) < UpTo(P, i)
    OBVIOUS
  <2>3. UpTo(P, i) \in Nat /\ UpTo(P, j) \in Nat
    BY <2>2, UpToFacts
  <2>4. j # i /\ j \in Nat /\ i <= j /\ UpTo(P, i) \in Nat /\ UpTo(P, j) \in Nat
    BY <2>2, <2>3
  <2>5. j - 1 \in Nat /\ i <= j - 1 /\ j - 1 \notin T
    BY <2>1, <2>4
  <2>6. UpTo(P, j - 1) \in Nat /\ UpTo(P, j - 1) <= UpTo(P, (j - 1) + 1)
    <3>1. j - 1 \in Nat
      BY <2>5
    <3>2. /\ UpTo(P, j - 1) \in Nat
          /\ (j - 1) + 1 \in P => UpTo(P, (j - 1) + 1) = UpTo(P, j - 1) + 1
          /\ (j - 1) + 1 \notin P => UpTo(P, (j - 1) + 1) = UpTo(P, j - 1)
      BY <3>1, UpToFacts
    <3> QED
      BY <3>2
  <2>7. (j - 1) + 1 = j
    BY <2>4
  <2> QED
    BY <2>4, <2>5, <2>6, <2>7
<1>2. \A j \in Nat : i <= j => UpTo(P, i) <= UpTo(P, j)
  <2> TAKE j \in Nat
  <2>1. UpTo(P, i) \in Nat /\ UpTo(P, j) \in Nat
    BY UpToFacts
  <2> QED
    BY <1>1, <2>1
<1>3. k - 1 \in Nat /\ i <= k - 1 /\ (k - 1) + 1 = k
  OBVIOUS
<1>4. k \in P => UpTo(P, k) = UpTo(P, k - 1) + 1 /\ UpTo(P, k - 1) \in Nat
  BY <1>3, UpToFacts
<1>5. UpTo(P, i) \in Nat
  BY UpToFacts
<1> QED
  BY <1>2, <1>3, <1>4, <1>5

\* Up to the last position there are all of them.
LEMMA UpToAll ==
  ASSUME NEW n \in Nat, NEW P, \A j \in P : j \in 1 .. n
  PROVE  UpTo(P, n) = Cardinality(P) /\ Cardinality(P) \in Nat
<1>1. {j \in P : j <= n} = P
  OBVIOUS
<1>2. \A j \in P : j \in Nat \ {0}
  OBVIOUS
<1> QED
  BY <1>1, <1>2, UpToFacts DEF UpTo

\* Each number up to the number of positions is that of one position.
LEMMA NthPosition ==
  ASSUME NEW n \in Nat, NEW P, \A j \in P : j \in 1 .. n, NEW k \in 1 .. Cardinality(P)
  PROVE  \E i \in P : UpTo(P, i) = k
<1> DEFINE T == {i \in Nat : UpTo(P, i) >= k}
<1>1. (\A j \in P : j \in Nat \ {0}) /\ k \in Nat \ {0}
  BY UpToAll
<1>2. n \in T
  BY UpToAll
<1>3. PICK i \in T : \A j \in T : i <= j
  <2>1. T \subseteq Nat /\ T # {}
    BY <1>2
  <2> HIDE DEF T
  <2> QED
    BY <2>1, LeastMember
<1>4. i # 0
  BY <1>1, UpToFacts
<1>5. i - 1 \in Nat /\ i - 1 \notin T /\ (i - 1) + 1 = i
  BY <1>3, <1>4
<1>6. UpTo(P, i - 1) \in Nat /\ UpTo(P, i) \in Nat /\ UpTo(P, i) >= k /\ UpTo(P, i - 1) < k
  BY <1>1, <1>5, UpToFacts
<1>7. /\ i \in P => UpTo(P, i) = UpTo(P, i - 1) + 1
      /\ i \notin P => UpTo(P, i) = UpTo(P, i - 1)
  BY <1>1, <1>5, UpToFacts
<1> QED
  BY <1>1, <1>6, <1>7

\* What is picked of a sequence: as many elements as there are positions, each
\* under the number of its position.
LEMMA PickedFacts ==
  ASSUME NEW S, NEW s \in Seq(S), NEW P, \A j \in P : j \in 1 .. Len(s)
  PROVE  /\ Picked(s, P) \in Seq(S) /\ Len(Picked(s, P)) = Cardinality(P)
         /\ \A i \in P : /\ UpTo(P, i) \in 1 .. Cardinality(P)
                         /\ Picked(s, P)[UpTo(P, i)] = s[i]
<1>1. Len(s) \in Nat /\ (\A j \in P : j \in Nat \ {0}) /\ Cardinality(P) \in Nat
  BY UpToAll
<1>2. \A k \in 1 .. Cardinality(P) : \E i \in P : UpTo(P, i) = k
  BY <1>1, NthPosition
<1>3. ASSUME NEW i \in P, NEW j \in P, UpTo(P, i) = UpTo(P, j)
      PROVE  i = j
  <2>1. i \in Nat /\ j \in Nat /\ UpTo(P, i) \in Nat
    BY <1>1, UpToFacts
  <2>2. i < j => UpTo(P, i) < UpTo(P, j)
    BY <1>1, <2>1, UpToGrows
  <2>3. j < i => UpTo(P, j) < UpTo(P, i)
    BY <1>1, <2>1, UpToGrows
  <2> QED
    BY <1>3, <2>1, <2>2, <2>3
<1> DEFINE nth(k) == CHOOSE i \in P : UpTo(P, i) = k
<1>4. \A k \in 1 .. Cardinality(P) : nth(k) \in P /\ UpTo(P, nth(k)) = k
  BY <1>2
<1>5. Picked(s, P) = [k \in 1 .. Cardinality(P) |-> s[nth(k)]]
  BY DEF Picked
<1> HIDE DEF nth
<1>6. \A k \in 1 .. Cardinality(P) : s[nth(k)] \in S
  BY <1>1, <1>4
<1>7. Picked(s, P) \in Seq(S) /\ Len(Picked(s, P)) = Cardinality(P)
  BY <1>1, <1>5, <1>6
<1>8. ASSUME NEW i \in P
      PROVE  /\ UpTo(P, i) \in 1 .. Cardinality(P)
             /\ Picked(s, P)[UpTo(P, i)] = s[i]
  <2>1. i \in 1 .. Len(s) /\ i - 1 \in Nat /\ (i - 1) + 1 = i
    OBVIOUS
  <2>2. UpTo(P, i - 1) \in Nat /\ UpTo(P, i) = UpTo(P, i - 1) + 1
    BY <1>1, <2>1, UpToFacts
  <2>3. UpTo(P, Len(s)) = Cardinality(P)
    BY <1>1, UpToAll
  <2>4. i < Len(s) => UpTo(P, i) <= UpTo(P, Len(s))
    BY <1>1, <2>1, UpToGrows
  <2>5. UpTo(P, i) \in 1 .. Cardinality(P)
    BY <1>1, <2>1, <2>2, <2>3, <2>4
  <2>6. nth(UpTo(P, i)) = i
    BY <1>3, <1>4, <2>5
  <2> QED
    BY <1>5, <2>5, <2>6
<1> QED
  BY <1>7, <1>8

-----------------------------------------------------------------------------
(* What is kept of a line                                                  *)

\* The printable characters of a line, and how many there are up to each
LEMMA PrintedFacts ==
  ASSUME NEW l \in Seq(Byte)
  PROVE  Printed(l) \in Seq(Byte) /\ Len(Printed(l)) \in Nat
<1> DEFINE P == {i \in 1 .. Len(l) : l[i] \in Printable}
<1>1. \A j \in P : j \in 1 .. Len(l)
  OBVIOUS
<1>2. Printed(l) = Picked(l, P)
  BY DEF Printed
<1> HIDE DEF P
<1>3. Printed(l) \in Seq(Byte)
  BY <1>1, <1>2, PickedFacts
<1> QED
  BY <1>3, LenProperties

\* One more byte of a line is printed behind the others or left out.
LEMMA PrintedAppend ==
  ASSUME NEW l \in Seq(Byte), NEW ch \in Byte
  PROVE  Printed(Append(l, ch)) = IF ch \in Printable THEN Append(Printed(l), ch)
                                                      ELSE Printed(l)
<1> DEFINE n == Len(l)
           m == Append(l, ch)
           P == {i \in 1 .. n : l[i] \in Printable}
           Q == {i \in 1 .. Len(m) : m[i] \in Printable}
<1>1. /\ n \in Nat /\ m \in Seq(Byte) /\ Len(m) = n + 1 /\ m[n + 1] = ch
      /\ \A i \in 1 .. n : m[i] = l[i]
  BY LenProperties, AppendProperties
<1>2. /\ \A j \in P : j \in 1 .. n
      /\ \A j \in Q : j \in 1 .. Len(m)
      /\ \A j \in P : j \in Nat \ {0}
      /\ \A j \in Q : j \in Nat \ {0}
  BY <1>1
<1>3. \A j : j <= n => (j \in P <=> j \in Q)
  <2> TAKE j
  <2> HAVE j <= n
  <2>1. j \in P => j \in Q
    BY <1>1
  <2>2. j \in Q => j \in P
    BY <1>1
  <2> QED
    BY <2>1, <2>2
<1>4. n + 1 \in Q <=> ch \in Printable
  BY <1>1
<1>5. Printed(l) = Picked(l, P) /\ Printed(m) = Picked(m, Q)
  BY DEF Printed
<1>6. \A i \in P : i \in Q /\ m[i] = l[i]
  BY <1>1
<1> HIDE DEF n, m, P, Q
<1>7. /\ Picked(l, P) \in Seq(Byte) /\ Len(Picked(l, P)) = Cardinality(P)
      /\ \A i \in P : /\ UpTo(P, i) \in 1 .. Cardinality(P)
                      /\ Picked(l, P)[UpTo(P, i)] = l[i]
  <2>1. \A j \in P : j \in 1 .. Len(l)
    BY <1>2 DEF n
  <2> QED
    BY <2>1, PickedFacts
<1>8. /\ Picked(m, Q) \in Seq(Byte) /\ Len(Picked(m, Q)) = Cardinality(Q)
      /\ \A i \in Q : /\ UpTo(Q, i) \in 1 .. Cardinality(Q)
                      /\ Picked(m, Q)[UpTo(Q, i)] = m[i]
  BY <1>1, <1>2, PickedFacts
<1>9. \A i \in 0 .. n : UpTo(P, i) = UpTo(Q, i)
  <2> TAKE i \in 0 .. n
  <2>1. \A j : j <= i => (j \in P <=> j \in Q)
    <3> TAKE j
    <3> HAVE j <= i
    <3>1. CASE j \in Int
      BY <1>1, <1>3, <3>1
    <3>2. CASE j \notin Int
      BY <1>2, <1>1, <3>2
    <3> QED
      BY <3>1, <3>2
  <2> QED
    BY <2>1, UpToSame
<1>10. /\ Cardinality(P) \in Nat /\ Cardinality(P) = UpTo(P, n)
       /\ Cardinality(Q) = UpTo(Q, n + 1)
  <2>1. n + 1 \in Nat /\ \A j \in Q : j \in 1 .. n + 1
    BY <1>1, <1>2
  <2> QED
    BY <1>1, <1>2, <2>1, UpToAll
<1>11. Cardinality(Q) = IF ch \in Printable THEN Cardinality(P) + 1 ELSE Cardinality(P)
  <2>1. /\ n + 1 \in Q => UpTo(Q, n + 1) = UpTo(Q, n) + 1
        /\ n + 1 \notin Q => UpTo(Q, n + 1) = UpTo(Q, n)
    BY <1>1, <1>2, UpToFacts
  <2>2. UpTo(P, n) = UpTo(Q, n)
    BY <1>1, <1>9
  <2> QED
    BY <1>4, <1>10, <2>1, <2>2
<1>12. \A k \in 1 .. Cardinality(P) : Picked(m, Q)[k] = Picked(l, P)[k]
  <2> TAKE k \in 1 .. Cardinality(P)
  <2>1. PICK i \in P : UpTo(P, i) = k
    BY <1>1, <1>2, NthPosition
  <2>2. i \in Q /\ m[i] = l[i] /\ UpTo(Q, i) = k
    BY <1>1, <1>2, <1>6, <1>9, <2>1
  <2> QED
    BY <1>7, <1>8, <2>1, <2>2
<1>13. CASE ch \in Printable
  <2>1. n + 1 \in Q /\ UpTo(Q, n + 1) = Cardinality(P) + 1
    BY <1>4, <1>10, <1>11, <1>13
  <2>2. Picked(m, Q)[Cardinality(P) + 1] = ch
    BY <1>1, <1>8, <2>1
  <2>3. /\ Append(Picked(l, P), ch) \in Seq(Byte)
        /\ Len(Append(Picked(l, P), ch)) = Cardinality(P) + 1
        /\ \A k \in 1 .. Cardinality(P) : Append(Picked(l, P), ch)[k] = Picked(l, P)[k]
        /\ Append(Picked(l, P), ch)[Cardinality(P) + 1] = ch
    BY <1>7, AppendProperties
  <2>4. Len(Picked(m, Q)) = Cardinality(P) + 1
    BY <1>8, <1>11, <1>13
  <2>5. \A k \in 1 .. Len(Picked(m, Q)) : Picked(m, Q)[k] = Append(Picked(l, P), ch)[k]
    BY <1>10, <1>12, <2>2, <2>3, <2>4
  <2>6. Picked(m, Q) = Append(Picked(l, P), ch)
    BY <1>8, <2>3, <2>4, <2>5, SeqEqual
  <2> QED
    BY <1>5, <1>13, <2>6 DEF m
<1>14. CASE ch \notin Printable
  <2>1. Len(Picked(m, Q)) = Len(Picked(l, P))
    BY <1>7, <1>8, <1>11, <1>14
  <2>2. \A k \in 1 .. Len(Picked(m, Q)) : Picked(m, Q)[k] = Picked(l, P)[k]
    BY <1>7, <1>12, <2>1
  <2>3. Picked(m, Q) = Picked(l, P)
    BY <1>7, <1>8, <2>1, <2>2, SeqEqual
  <2> QED
    BY <1>5, <1>14, <2>3 DEF m
<1> QED
  BY <1>13, <1>14

\* A remainder grows by one or starts again at 0, as rxBufferPos does.
LEMMA NextRemainder ==
  ASSUME NEW n \in Nat, NEW R \in Nat \ {0}
  PROVE  /\ (n % R) \in 0 .. R - 1
         /\ ((n + 1) % R) = IF (n % R) + 1 = R THEN 0 ELSE (n % R) + 1
         /\ n < R => (n % R) = n
<1> DEFINE q == n \div R
           m == n % R
           p == (n + 1) \div R
           r == (n + 1) % R
<1>1. /\ q \in Int /\ m \in 0 .. R - 1 /\ n = R * q + m
      /\ p \in Int /\ r \in 0 .. R - 1 /\ n + 1 = R * p + r
  OBVIOUS
<1> HIDE DEF q, m, p, r
<1>2. ASSUME NEW a \in Int, NEW x \in 0 .. R - 1, NEW b \in Int, NEW y \in 0 .. R - 1,
             R * a + x = R * b + y
      PROVE  x = y
  <2> DEFINE d == a - b
  <2>1. d \in Int /\ R * d = y - x
    <3>1. R * (a - b) = y - x
      BY <1>2
    <3> QED
      BY <3>1
  <2> HIDE DEF d
  <2>2. /\ d >= 1 => R * d >= R
        /\ d <= -1 => R * d <= -R
    BY <2>1
  <2>3. d = 0
    BY <2>1, <2>2
  <2> QED
    BY <2>1, <2>3
<1>3. ASSUME m + 1 = R
      PROVE  r = 0
  <2>1. R * p + r = R * (q + 1) + 0
    <3>1. R * (q + 1) = R * q + R
      BY <1>1
    <3> QED
      BY <1>1, <1>3, <3>1
  <2> QED
    BY <1>1, <1>2, <2>1
<1>4. ASSUME m + 1 # R
      PROVE  r = m + 1
  <2>1. R * p + r = R * q + (m + 1) /\ m + 1 \in 0 .. R - 1
    BY <1>1, <1>4
  <2> QED
    BY <1>1, <1>2, <2>1
<1>5. ASSUME n < R
      PROVE  m = n
  <2>1. R * q + m = R * 0 + n /\ n \in 0 .. R - 1
    BY <1>1, <1>5
  <2> QED
    BY <1>1, <1>2, <2>1
<1> QED
  BY <1>1, <1>3, <1>4, <1>5 DEF m, r

\* What is kept of a line fits into the buffer, and is all of it if that fits.
LEMMA KeptFacts ==
  ASSUME NEW l \in Seq(Byte)
  PROVE  /\ Kept(l) \in Seq(Byte)
         /\ Len(Kept(l)) = Len(Printed(l)) % RxBufferLen
         /\ Len(Kept(l)) \in 0 .. RxBufferLen - 1
         /\ Len(Printed(l)) < RxBufferLen => Kept(l) = Printed(l)
<1> DEFINE s == Printed(l)
           n == Len(s)
           r == n % RxBufferLen
<1>1. s \in Seq(Byte) /\ n \in Nat
  BY PrintedFacts
<1>2. r \in 0 .. RxBufferLen - 1 /\ (n < RxBufferLen => r = n) /\ RxBufferLen \in Nat \ {0}
  BY <1>1, ParserAssumption, NextRemainder
<1>3. Kept(l) = SubSeq(s, n - r + 1, n)
  BY DEF Kept
<1>4. r <= n
  <2>1. n >= RxBufferLen => r <= n
    BY <1>1, <1>2
  <2> QED
    BY <1>1, <1>2, <2>1
<1> HIDE DEF s, r
<1>5. n - r + 1 \in Int /\ n \in Int /\ \A i \in n - r + 1 .. n : s[i] \in Byte
  <2>1. \A i \in 1 .. n : s[i] \in Byte
    BY <1>1
  <2> HIDE DEF n
  <2> QED
    BY <1>1, <1>2, <1>4, <2>1
<1>6. /\ SubSeq(s, n - r + 1, n) \in Seq(Byte)
      /\ Len(SubSeq(s, n - r + 1, n)) = IF n - r + 1 <= n THEN n - (n - r + 1) + 1 ELSE 0
  BY <1>5, SubSeqProperties
<1>7. Len(Kept(l)) = r
  <2> HIDE DEF n
  <2> QED
    BY <1>1, <1>2, <1>3, <1>6
<1>8. n < RxBufferLen => Kept(l) = s
  <2>1. n < RxBufferLen => n - r + 1 = 1
    BY <1>1, <1>2
  <2>2. SubSeq(s, 1, n) = s
    BY <1>1, SubSeqFull
  <2> QED
    BY <1>3, <2>1, <2>2
<1> QED
  BY <1>2, <1>3, <1>6, <1>7, <1>8 DEF s, r

\* What Store() makes of what was kept is what is kept of the longer line.
LEMMA KeptAppend ==
  ASSUME NEW l \in Seq(Byte), NEW ch \in Byte
  PROVE  /\ ch \notin Printable => Kept(Append(l, ch)) = Kept(l)
         /\ ch \in Printable => Kept(Append(l, ch)) =
              IF Len(Kept(l)) + 1 = RxBufferLen THEN <<>> ELSE Append(Kept(l), ch)
<1> DEFINE s == Printed(l)
           n == Len(s)
           r == n % RxBufferLen
           t == Append(s, ch)
           q == (n + 1) % RxBufferLen
<1>1. s \in Seq(Byte) /\ n \in Nat
  BY PrintedFacts
<1>2. Append(l, ch) \in Seq(Byte) /\ RxBufferLen \in Nat \ {0}
  BY AppendProperties, ParserAssumption
<1>3. CASE ch \notin Printable
  <2>1. Printed(Append(l, ch)) = Printed(l)
    BY <1>3, PrintedAppend
  <2> QED
    BY <1>3, <2>1 DEF Kept
<1>4. CASE ch \in Printable
  <2>1. Printed(Append(l, ch)) = t
    BY <1>4, PrintedAppend
  <2>2. t \in Seq(Byte) /\ Len(t) = n + 1 /\ t[n + 1] = ch /\ \A i \in 1 .. n : t[i] = s[i]
    BY <1>1, AppendProperties
  <2>3. Kept(Append(l, ch)) = SubSeq(t, n + 1 - q + 1, n + 1)
    <3>1. Kept(Append(l, ch)) = SubSeq(t, Len(t) - (Len(t) % RxBufferLen) + 1, Len(t))
      <4> HIDE DEF t
      <4> QED
        BY <2>1 DEF Kept
    <3>2. Len(t) % RxBufferLen = q
      BY <2>2
    <3>3. q \in Int
      BY <1>1, <1>2, NextRemainder
    <3> HIDE DEF q, t, n
    <3>4. Kept(Append(l, ch)) = SubSeq(t, Len(t) - q + 1, Len(t))
      BY <3>1, <3>2, Zenon
    <3>5. Len(t) - q + 1 = n + 1 - q + 1
      BY <1>1, <2>2, <3>3
    <3> QED
      BY <2>2, <3>4, <3>5
  <2>4. Kept(l) = SubSeq(s, n - r + 1, n) /\ Len(Kept(l)) = r
        /\ Kept(l) \in Seq(Byte) /\ r \in 0 .. RxBufferLen - 1
    BY KeptFacts DEF Kept
  <2>5. q = IF r + 1 = RxBufferLen THEN 0 ELSE r + 1
    BY <1>1, <1>2, NextRemainder
  <2>6. r <= n
    <3>1. n < RxBufferLen => r = n
      BY <1>1, <1>2, NextRemainder
    <3> HIDE DEF r, n
    <3> QED
      BY <1>1, <1>2, <2>4, <3>1
  <2> HIDE DEF r, q, s, n, t
  <2>7. CASE r + 1 = RxBufferLen
    <3>1. n + 1 - q + 1 = n + 2 /\ n + 1 < n + 2 /\ n + 1 \in Int /\ n + 2 \in Int
      BY <1>1, <2>5, <2>7
    <3>2. Kept(Append(l, ch)) = <<>>
      BY <2>3, <3>1, SubSeqEmpty
    <3> QED
      BY <1>4, <2>4, <2>7, <3>2
  <2>8. CASE r + 1 # RxBufferLen
    <3>1. n + 1 - q + 1 = n - r + 1 /\ n - r + 1 \in 1 .. n + 1
      BY <1>1, <2>4, <2>5, <2>6, <2>8
    <3>2. n + 1 \in n - r + 1 .. Len(t) /\ n - r + 1 \in 1 .. Len(t)
      BY <1>1, <2>2, <3>1
    <3>3. SubSeq(t, n - r + 1, n + 1) = SubSeq(t, n - r + 1, n + 1 - 1) \o <<t[n + 1]>>
      <4>1. ASSUME NEW k \in 1 .. Len(t), NEW j \in k .. Len(t)
            PROVE  SubSeq(t, k, j) = SubSeq(t, k, j - 1) \o <<t[j]>>
        BY <2>2, SubSeqRecursiveSecond
      <4> DEFINE a == n - r + 1
                 b == n + 1
      <4>2. a \in 1 .. Len(t) /\ b \in a .. Len(t)
        BY <3>2
      <4> HIDE DEF a, b
      <4>3. SubSeq(t, a, b) = SubSeq(t, a, b - 1) \o <<t[b]>>
        BY <4>1, <4>2
      <4> QED
        BY <1>1, <2>4, <4>3 DEF a, b
    <3>4. SubSeq(t, n - r + 1, n) = Kept(l)
      <4>1. \A i \in n - r + 1 .. n : t[i] \in Byte /\ t[i] = s[i] /\ s[i] \in Byte
        <5>1. \A i \in 1 .. n : s[i] \in Byte
          BY <1>1 DEF n
        <5>2. \A i \in n - r + 1 .. n : i \in 1 .. n
          BY <1>1, <2>4, <2>6
        <5> QED
          BY <2>2, <5>1, <5>2
      <4>2. n - r + 1 \in Int /\ n \in Int /\ n - (n - r + 1) + 1 = r
        BY <1>1, <2>4
      <4>3. /\ SubSeq(t, n - r + 1, n) \in Seq(Byte)
            /\ Len(SubSeq(t, n - r + 1, n)) = IF n - r + 1 <= n THEN n - (n - r + 1) + 1 ELSE 0
            /\ \A i \in 1 .. n - (n - r + 1) + 1 :
                 SubSeq(t, n - r + 1, n)[i] = t[n - r + 1 + i - 1]
        BY <4>1, <4>2, SubSeqProperties
      <4>4. /\ SubSeq(s, n - r + 1, n) \in Seq(Byte)
            /\ Len(SubSeq(s, n - r + 1, n)) = IF n - r + 1 <= n THEN n - (n - r + 1) + 1 ELSE 0
            /\ \A i \in 1 .. n - (n - r + 1) + 1 :
                 SubSeq(s, n - r + 1, n)[i] = s[n - r + 1 + i - 1]
        BY <4>1, <4>2, SubSeqProperties
      <4>5. \A i \in 1 .. r : SubSeq(t, n - r + 1, n)[i] = SubSeq(s, n - r + 1, n)[i]
        <5> TAKE i \in 1 .. r
        <5>1. n - r + 1 + i - 1 \in n - r + 1 .. n
          BY <1>1, <2>4
        <5> QED
          BY <4>1, <4>2, <4>3, <4>4, <5>1
      <4>6. Len(SubSeq(t, n - r + 1, n)) = r /\ Len(SubSeq(s, n - r + 1, n)) = r
        BY <1>1, <2>4, <4>3, <4>4
      <4> QED
        BY <2>4, <4>3, <4>4, <4>5, <4>6, SeqEqual
    <3>5. n + 1 - 1 = n
      BY <1>1
    <3>6. Kept(Append(l, ch)) = Kept(l) \o <<ch>>
      BY <2>2, <2>3, <3>1, <3>3, <3>4, <3>5
    <3>7. Kept(l) \o <<ch>> = Append(Kept(l), ch)
      BY <2>4, AppendIsConcat
    <3> QED
      BY <1>4, <2>4, <2>8, <3>6, <3>7
  <2> QED
    BY <2>7, <2>8
<1> QED
  BY <1>3, <1>4

\* Nothing is kept of an empty line.
LEMMA KeptNothing == Kept(<<>>) = <<>> /\ Printed(<<>>) = <<>>
<1>1. <<>> \in Seq(Byte) /\ Len(<<>>) = 0
  BY EmptySeq
<1>2. Printed(<<>>) = <<>>
  <2>1. {i \in 1 .. Len(<<>>) : <<>>[i] \in Printable} = {}
    BY <1>1
  <2>2. Picked(<<>>, {}) \in Seq(Byte) /\ Len(Picked(<<>>, {})) = Cardinality({})
    BY <1>1, PickedFacts
  <2>3. Cardinality({}) = 0
    BY FS_EmptySet
  <2> QED
    BY <2>1, <2>2, <2>3, EmptySeq DEF Printed
<1>3. 0 < RxBufferLen
  BY ParserAssumption
<1> QED
  BY <1>1, <1>2, <1>3, KeptFacts

-----------------------------------------------------------------------------
(* What the module sends                                                   *)

LengthBytes(m) == <<Len(m.payload) \div Radix, (Len(m.payload) % Radix)>>

\* The types of a message
LEMMA MessageFacts ==
  ASSUME NEW m \in Messages
  PROVE  /\ m.line \in Seq(Byte) /\ Len(m.line) \in Nat
         /\ \A i \in 1 .. Len(m.line) : m.line[i] \in Byte \ {SOH, EOL}
         /\ m.payload \in Seq(Byte) /\ Len(m.payload) \in 0 .. Radix * Radix - 1
         /\ m.isBinary \in BOOLEAN
         /\ ~m.isBinary => m.payload = <<>> /\ Len(m.payload) = 0
         /\ m.for \in {"nobody", "query", "end"}
<1>1. /\ m.line \in Seq(Byte \ {SOH, EOL}) /\ m.payload \in Seq(Byte)
      /\ m.isBinary \in BOOLEAN /\ (~m.isBinary => m.payload = <<>>)
      /\ m.for \in {"nobody", "query", "end"} /\ Len(m.payload) < Radix * Radix
  BY ParserAssumption
<1>2. m.line \in Seq(Byte)
  <2>1. Byte \ {SOH, EOL} \subseteq Byte
    OBVIOUS
  <2> QED
    BY <1>1, <2>1, SeqMonotonic
<1>3. Len(m.line) \in Nat /\ Len(m.payload) \in Nat
  BY <1>1, LenProperties
<1>4. \A i \in 1 .. Len(m.line) : m.line[i] \in Byte \ {SOH, EOL}
  BY <1>1, ElementOfSeq
<1>5. ~m.isBinary => Len(m.payload) = 0
  BY <1>1, EmptySeq
<1> QED
  <2>1. Len(m.payload) \in 0 .. Radix * Radix - 1
    <3>1. Len(m.payload) \in Nat /\ Len(m.payload) < Radix * Radix /\ Radix * Radix = 64
      BY <1>1, <1>3 DEF Radix
    <3> QED
      BY <3>1
  <2> QED
    BY <1>1, <1>2, <1>3, <1>4, <1>5, <2>1
LEMMA LengthFacts ==
  ASSUME NEW m \in Messages
  PROVE  /\ LengthBytes(m) \in Seq(Byte) /\ Len(LengthBytes(m)) = 2
         /\ LengthBytes(m)[1] = Len(m.payload) \div Radix
         /\ LengthBytes(m)[2] = (Len(m.payload) % Radix)
         /\ Length(LengthBytes(m)) = Len(m.payload)
<1>1. Len(m.payload) \in 0 .. 63
  BY MessageFacts DEF Radix
<1> DEFINE n == Len(m.payload)
<1>2. n \in 0 .. 63
  BY <1>1
<1> HIDE DEF n
<1>3. (n \div 8) \in 0 .. 7 /\ (n % 8) \in 0 .. 7 /\ (n \div 8) * 8 + (n % 8) = n
  BY <1>2
<1> QED
  <2>1. LengthBytes(m) = <<n \div 8, (n % 8)>>
    BY DEF LengthBytes, Radix, n
  <2>2. Len(m.payload) \div Radix = n \div 8 /\ (Len(m.payload) % Radix) = (n % 8)
    BY DEF Radix, n
  <2> DEFINE a == n \div 8
             b == n % 8
  <2>3. a \in 0 .. 7 /\ b \in 0 .. 7 /\ a * 8 + b = n
    BY <1>3
  <2>4. LengthBytes(m) = <<a, b>>
    BY <2>1
  <2>5. Len(m.payload) \div Radix = a /\ (Len(m.payload) % Radix) = b
    BY <2>2
  <2> HIDE DEF a, b
  <2>6. Length(<<a, b>>) = n
    BY <2>3 DEF Length, Radix
  <2>7. <<a, b>> \in Seq(Byte) /\ Len(<<a, b>>) = 2 /\ <<a, b>>[1] = a /\ <<a, b>>[2] = b
    BY <2>3 DEF Byte
  <2> QED
    BY <2>4, <2>5, <2>6, <2>7 DEF n

\* Which byte of a message is where
LEMMA WireFacts ==
  ASSUME NEW m \in Messages
  PROVE  /\ Wire(m) \in Seq(Byte)
         /\ Len(Wire(m)) = Len(m.line) + (IF m.isBinary THEN 4 + Len(m.payload) ELSE 2)
         /\ Wire(m)[1] = EOL
         /\ \A i \in 1 .. Len(m.line) : Wire(m)[i + 1] = m.line[i]
         /\ Wire(m)[Len(m.line) + 2] = IF m.isBinary THEN SOH ELSE EOL
         /\ m.isBinary => /\ Wire(m)[Len(m.line) + 3] = LengthBytes(m)[1]
                          /\ Wire(m)[Len(m.line) + 4] = LengthBytes(m)[2]
                          /\ \A k \in 1 .. Len(m.payload) :
                               Wire(m)[Len(m.line) + 4 + k] = m.payload[k]
<1> DEFINE l == Len(m.line)
           p == Len(m.payload)
           first == <<EOL>> \o m.line
           bytes == <<SOH, Len(m.payload) \div Radix, (Len(m.payload) % Radix)>>
           rest == IF m.isBinary THEN bytes \o m.payload ELSE <<EOL>>
<1>1. /\ <<EOL>> \in Seq(Byte) /\ Len(<<EOL>>) = 1 /\ <<EOL>>[1] = EOL
      /\ m.line \in Seq(Byte) /\ l \in Nat /\ m.payload \in Seq(Byte) /\ Len(m.payload) \in Nat
      /\ m.isBinary \in BOOLEAN
  BY MessageFacts DEF EOL, Byte
<1>2. l \in Nat /\ p \in Nat
  BY <1>1
<1>3. /\ first \in Seq(Byte) /\ Len(first) = l + 1 /\ first[1] = EOL
      /\ \A i \in 1 .. l : first[i + 1] = m.line[i]
  <2>1. /\ first \in Seq(Byte) /\ Len(first) = 1 + l
        /\ \A i \in 1 .. 1 + l : first[i] = IF i <= 1 THEN <<EOL>>[i] ELSE m.line[i - 1]
    BY <1>1, ConcatProperties
  <2>2. first[1] = EOL
    BY <1>1, <2>1
  <2>3. \A i \in 1 .. l : first[i + 1] = m.line[i]
    <3> TAKE i \in 1 .. l
    <3>1. i + 1 \in 1 .. 1 + l /\ ~(i + 1 <= 1) /\ (i + 1) - 1 = i
      BY <1>1
    <3> HIDE DEF first
    <3> QED
      BY <2>1, <3>1
  <2> QED
    BY <1>1, <2>1, <2>2, <2>3
<1>4. /\ bytes \in Seq(Byte) /\ Len(bytes) = 3
      /\ bytes[1] = SOH /\ bytes[2] = LengthBytes(m)[1] /\ bytes[3] = LengthBytes(m)[2]
  <2>1. LengthBytes(m)[1] \in Byte /\ LengthBytes(m)[2] \in Byte
    BY LengthFacts
  <2>2. SOH \in Byte
    BY DEF SOH, Byte
  <2> QED
    BY <2>1, <2>2 DEF LengthBytes
<1>5. Wire(m) = first \o rest
  BY DEF Wire
<1> HIDE DEF first, bytes, l, p
<1>6. CASE m.isBinary
  <2>1. /\ bytes \o m.payload \in Seq(Byte)
        /\ Len(bytes \o m.payload) = 3 + p
        /\ \A i \in 1 .. 3 + p :
             (bytes \o m.payload)[i] = IF i <= 3 THEN bytes[i] ELSE m.payload[i - 3]
    BY <1>1, <1>4, ConcatProperties DEF p
  <2>2. rest = bytes \o m.payload
    BY <1>6
  <2> HIDE DEF rest
  <2>3. /\ Wire(m) \in Seq(Byte) /\ Len(Wire(m)) = l + 1 + (3 + p)
        /\ \A i \in 1 .. l + 1 + (3 + p) :
             Wire(m)[i] = IF i <= l + 1 THEN first[i] ELSE rest[i - (l + 1)]
    <3>1. rest \in Seq(Byte) /\ Len(rest) = 3 + p
      BY <2>1, <2>2
    <3>2. /\ first \o rest \in Seq(Byte) /\ Len(first \o rest) = Len(first) + Len(rest)
          /\ \A i \in 1 .. Len(first) + Len(rest) :
               (first \o rest)[i] = IF i <= Len(first) THEN first[i] ELSE rest[i - Len(first)]
      BY <1>3, <3>1, ConcatProperties
    <3> QED
      BY <1>3, <1>5, <3>1, <3>2
  <2>4. Wire(m)[1] = EOL /\ \A i \in 1 .. l : Wire(m)[i + 1] = m.line[i]
    <3>1. 1 \in 1 .. l + 1 + (3 + p) /\ 1 <= l + 1
      BY <1>2
    <3>2. \A i \in 1 .. l : i + 1 \in 1 .. l + 1 + (3 + p) /\ i + 1 <= l + 1
      BY <1>2
    <3> QED
      BY <1>3, <2>3, <3>1, <3>2
  <2>5. \A k \in 1 .. 3 + p : Wire(m)[l + 1 + k] = rest[k]
    <3> TAKE k \in 1 .. 3 + p
    <3>1. /\ l + 1 + k \in 1 .. l + 1 + (3 + p) /\ ~(l + 1 + k <= l + 1)
          /\ (l + 1 + k) - (l + 1) = k
      BY <1>2
    <3> QED
      BY <2>3, <3>1
  <2>6. /\ Wire(m)[l + 2] = SOH /\ Wire(m)[l + 3] = LengthBytes(m)[1]
        /\ Wire(m)[l + 4] = LengthBytes(m)[2]
    <3>1. /\ l + 2 = l + 1 + 1 /\ l + 3 = l + 1 + 2 /\ l + 4 = l + 1 + 3
          /\ 1 \in 1 .. 3 + p /\ 2 \in 1 .. 3 + p
          /\ 3 \in 1 .. 3 + p
      BY <1>2
    <3>2. rest[1] = SOH /\ rest[2] = LengthBytes(m)[1] /\ rest[3] = LengthBytes(m)[2]
      BY <1>4, <2>1, <2>2, <3>1
    <3> QED
      BY <2>5, <3>1, <3>2
  <2>7. \A k \in 1 .. p : Wire(m)[l + 4 + k] = m.payload[k]
    <3> TAKE k \in 1 .. p
    <3>1. /\ 3 + k \in 1 .. 3 + p /\ ~(3 + k <= 3) /\ (3 + k) - 3 = k
          /\ l + 1 + (3 + k) = l + 4 + k
      BY <1>2
    <3>2. rest[3 + k] = m.payload[k]
      BY <2>1, <2>2, <3>1
    <3> QED
      BY <2>5, <3>1, <3>2
  <2>8. Len(Wire(m)) = l + (4 + p)
    BY <1>2, <2>3
  <2> QED
    BY <1>6, <2>3, <2>4, <2>6, <2>7, <2>8 DEF l, p
<1>7. CASE ~m.isBinary
  <2>1. rest = <<EOL>>
    BY <1>7
  <2> HIDE DEF rest
  <2>2. /\ Wire(m) \in Seq(Byte) /\ Len(Wire(m)) = l + 1 + 1
        /\ \A i \in 1 .. l + 1 + 1 :
             Wire(m)[i] = IF i <= l + 1 THEN first[i] ELSE rest[i - (l + 1)]
    BY <1>1, <1>3, <1>5, <2>1, ConcatProperties
  <2>3. Wire(m)[1] = EOL /\ \A i \in 1 .. l : Wire(m)[i + 1] = m.line[i]
    <3>1. 1 \in 1 .. l + 1 + 1 /\ 1 <= l + 1
      BY <1>2
    <3>2. \A i \in 1 .. l : i + 1 \in 1 .. l + 1 + 1 /\ i + 1 <= l + 1
      BY <1>2
    <3> QED
      BY <1>3, <2>2, <3>1, <3>2
  <2>4. Wire(m)[l + 2] = EOL
    <3>1. /\ l + 2 \in 1 .. l + 1 + 1 /\ ~(l + 2 <= l + 1) /\ (l + 2) - (l + 1) = 1
      BY <1>2
    <3> QED
      BY <1>1, <2>1, <2>2, <3>1
  <2>5. Len(Wire(m)) = l + 2
    BY <1>2, <2>2
  <2> QED
    BY <1>7, <2>2, <2>3, <2>4, <2>5 DEF l, p
<1> QED
  BY <1>1, <1>6, <1>7

\* Each message has bytes.
LEMMA WireIsNotEmpty ==
  ASSUME NEW m \in Messages
  PROVE  Len(Wire(m)) \in Nat /\ Len(Wire(m)) > 0
<1> DEFINE l == Len(m.line)
           p == Len(m.payload)
           w == Len(Wire(m))
<1>1. l \in Nat /\ p \in Nat
  BY MessageFacts
<1>2. w = l + (IF m.isBinary THEN 4 + p ELSE 2)
  BY WireFacts
<1> HIDE DEF l, p, w
<1>3. w = l + (4 + p) \/ w = l + 2
  BY <1>2
<1>4. w \in Nat /\ w > 0
  BY <1>1, <1>3
<1> QED
  BY <1>4 DEF w

-----------------------------------------------------------------------------
(* What is unread                                                          *)

\* Where the messages end in what is unread: at 0 or before when they were read.
Placed(r, s, e, i) ==
  /\ e[i] = e[i - 1] + Len(Wire(s[i])) /\ e[i] <= Len(r)
  /\ \A k \in 1 .. Len(Wire(s[i])) :
       e[i - 1] + k >= 1 => r[e[i - 1] + k] = Wire(s[i])[k]
Ends(r, s, e) ==
  /\ e \in [0 .. Len(s) -> Int]
  /\ e[Len(s)] = Len(r)
  /\ \A i \in 1 .. Len(s) : Placed(r, s, e, i)

\* The bytes r are what is unread when d of the messages s were read and n bytes
\* of the next one.
Reached(e, s, d) == d \in 0 .. Len(s) /\ e[d] <= 0 /\ (d < Len(s) => e[d + 1] > 0)
Unread(r, s, d, n) == \E e : Ends(r, s, e) /\ Reached(e, s, d) /\ n = - e[d]

\* The next byte that is unread is one of the next message, at its place.
LEMMA UnreadFacts ==
  ASSUME NEW r \in Seq(Byte), NEW s \in Seq(Messages), NEW d, NEW n, Unread(r, s, d, n)
  PROVE  /\ d \in 0 .. Len(s) /\ d \in Nat /\ n \in Nat
         /\ d = Len(s) => n = 0 /\ r = <<>>
         /\ d < Len(s) => /\ d + 1 \in 1 .. Len(s) /\ s[d + 1] \in Messages
                          /\ n < Len(Wire(s[d + 1]))
                          /\ \A k \in 1 .. Len(r) :
                               n + k <= Len(Wire(s[d + 1])) => r[k] = Wire(s[d + 1])[n + k]
<1>1. PICK e : Ends(r, s, e) /\ Reached(e, s, d) /\ n = - e[d]
  BY DEF Unread
<1>2. /\ Len(s) \in Nat /\ d \in 0 .. Len(s) /\ e[d] \in Int /\ e[d] <= 0
      /\ e[Len(s)] = Len(r) /\ Len(r) \in Nat
  BY <1>1, LenProperties DEF Ends, Reached
<1>3. n \in Nat /\ d \in Nat /\ n = - e[d]
  BY <1>1, <1>2
<1>4. ASSUME d = Len(s)
      PROVE  n = 0 /\ r = <<>>
  <2>1. Len(r) = 0
    BY <1>2, <1>4
  <2> QED
    BY <1>2, <1>3, <1>4, <2>1, EmptySeq
<1>5. ASSUME d < Len(s)
      PROVE  /\ d + 1 \in 1 .. Len(s) /\ s[d + 1] \in Messages
             /\ n < Len(Wire(s[d + 1]))
             /\ \A k \in 1 .. Len(r) :
                  n + k <= Len(Wire(s[d + 1])) => r[k] = Wire(s[d + 1])[n + k]
  <2>1. d + 1 \in 1 .. Len(s) /\ (d + 1) - 1 = d
    BY <1>2, <1>5
  <2>2. s[d + 1] \in Messages
    BY <2>1, ElementOfSeq
  <2>3. Len(Wire(s[d + 1])) \in Nat
    BY <2>2, WireFacts, LenProperties
  <2>4. Placed(r, s, e, d + 1) /\ e[d + 1] > 0 /\ e[d + 1] \in Int
    <3>1. d + 1 \in 0 .. Len(s)
      BY <1>2, <2>1
    <3> QED
      BY <1>1, <1>5, <2>1, <3>1 DEF Ends, Reached
  <2>5. /\ e[d + 1] = e[d] + Len(Wire(s[d + 1]))
        /\ \A k \in 1 .. Len(Wire(s[d + 1])) :
             e[d] + k >= 1 => r[e[d] + k] = Wire(s[d + 1])[k]
    BY <2>1, <2>4 DEF Placed
  <2>6. n < Len(Wire(s[d + 1]))
    BY <1>2, <1>3, <2>3, <2>4, <2>5
  <2>7. ASSUME NEW k \in 1 .. Len(r), n + k <= Len(Wire(s[d + 1]))
        PROVE  r[k] = Wire(s[d + 1])[n + k]
    <3>1. n + k \in 1 .. Len(Wire(s[d + 1])) /\ e[d] + (n + k) = k /\ k >= 1
      <4> DEFINE w == Len(Wire(s[d + 1]))
                 x == e[d]
      <4>1. k \in Int /\ k >= 1 /\ n \in Nat /\ x \in Int /\ n = -x /\ w \in Nat /\ n + k <= w
        BY <1>2, <1>3, <2>3, <2>7
      <4> HIDE DEF w, x
      <4>2. n + k \in 1 .. w /\ x + (n + k) = k /\ k >= 1
        BY <4>1
      <4> QED
        BY <4>2 DEF w, x
    <3> QED
      BY <2>5, <3>1
  <2> QED
    BY <2>1, <2>2, <2>6, <2>7
<1> QED
  BY <1>2, <1>3, <1>4, <1>5

\* Reading bytes of one message
LEMMA UnreadAdvances ==
  ASSUME NEW r \in Seq(Byte), NEW s \in Seq(Messages), NEW d, NEW n, Unread(r, s, d, n),
         d < Len(s), NEW k \in 1 .. Len(r), n + k <= Len(Wire(s[d + 1]))
  PROVE  /\ n + k < Len(Wire(s[d + 1])) => Unread(SubSeq(r, k + 1, Len(r)), s, d, n + k)
         /\ n + k = Len(Wire(s[d + 1])) => Unread(SubSeq(r, k + 1, Len(r)), s, d + 1, 0)
<1> DEFINE q == SubSeq(r, k + 1, Len(r))
<1>1. PICK e : Ends(r, s, e) /\ Reached(e, s, d) /\ n = - e[d]
  BY DEF Unread
<1> DEFINE f == [i \in 0 .. Len(s) |-> e[i] - k]
<1>2. /\ Len(s) \in Nat /\ Len(r) \in Nat /\ d \in 0 .. Len(s) /\ n \in Nat
      /\ e \in [0 .. Len(s) -> Int] /\ e[Len(s)] = Len(r)
  BY <1>1, UnreadFacts, LenProperties DEF Ends
<1>3. /\ Len(q) = Len(r) - k
      /\ \A i \in 1 .. Len(r) - k : q[i] = r[i + k]
  <2>1. k + 1 \in Int /\ Len(r) \in Int /\ \A i \in k + 1 .. Len(r) : r[i] \in Byte
    <3>1. \A i \in k + 1 .. Len(r) : i \in 1 .. Len(r)
      BY <1>2
    <3> QED
      BY <1>2, <3>1, ElementOfSeq
  <2>2. /\ Len(q) = IF k + 1 <= Len(r) THEN Len(r) - (k + 1) + 1 ELSE 0
        /\ \A i \in 1 .. Len(r) - (k + 1) + 1 : q[i] = r[k + 1 + i - 1]
    BY <2>1, SubSeqProperties
  <2>3. Len(r) - (k + 1) + 1 = Len(r) - k
    BY <1>2
  <2>4. \A i \in 1 .. Len(r) - k : k + 1 + i - 1 = i + k
    BY <1>2
  <2> HIDE DEF q
  <2>5. Len(q) = Len(r) - k
    <3>1. Len(q) = IF k + 1 <= Len(r) THEN Len(r) - (k + 1) + 1 ELSE 0
      BY <2>2
    <3>2. k \in Int /\ Len(r) \in Int /\ k <= Len(r)
      BY <1>2
    <3> QED
      BY <3>1, <3>2
  <2> QED
    BY <2>2, <2>3, <2>4, <2>5
<1> HIDE DEF q
<1>4. \A i \in 0 .. Len(s) : f[i] = e[i] - k /\ e[i] \in Int
  BY <1>2
<1>5. f \in [0 .. Len(s) -> Int] /\ f[Len(s)] = Len(q)
  BY <1>2, <1>3
<1> HIDE DEF f
<1>6. ASSUME NEW i \in 1 .. Len(s)
      PROVE  Placed(q, s, f, i)
  <2> DEFINE w == Len(Wire(s[i]))
             x == e[i - 1]
             y == e[i]
  <2>1. i \in 0 .. Len(s) /\ i - 1 \in 0 .. Len(s) /\ s[i] \in Messages
    BY <1>2, ElementOfSeq
  <2>2. w \in Nat
    BY <2>1, WireFacts, LenProperties
  <2>3. Placed(r, s, e, i)
    BY <1>1 DEF Ends
  <2>4. x \in Int /\ y \in Int /\ f[i - 1] = x - k /\ f[i] = y - k
    BY <1>4, <2>1
  <2>5. /\ y = x + w /\ y <= Len(r)
        /\ \A j \in 1 .. w : x + j >= 1 => r[x + j] = Wire(s[i])[j]
    BY <2>3 DEF Placed
  <2> HIDE DEF w, x, y
  <2>6. x - k + w = y - k /\ y - k <= Len(q) /\ k \in Nat /\ Len(r) \in Nat
    <3>1. k \in Nat /\ Len(r) \in Nat
      BY <1>2
    <3> QED
      BY <1>3, <2>2, <2>4, <2>5, <3>1
  <2>7. ASSUME NEW j \in 1 .. w, x - k + j >= 1
        PROVE  q[x - k + j] = Wire(s[i])[j]
    <3>1. /\ x + j >= 1 /\ x + j = (x - k + j) + k /\ x - k + j \in 1 .. Len(r) - k
          /\ j \in 1 .. w
      BY <2>2, <2>4, <2>5, <2>6, <2>7
    <3>2. r[x + j] = Wire(s[i])[j]
      BY <2>5, <3>1
    <3>3. q[x - k + j] = r[(x - k + j) + k]
      BY <1>3, <3>1
    <3> QED
      BY <3>1, <3>2, <3>3
  <2> QED
    BY <2>4, <2>6, <2>7 DEF Placed, w
<1>7. Ends(q, s, f)
  BY <1>5, <1>6 DEF Ends
<1>8. /\ d + 1 \in 0 .. Len(s) /\ d \in 0 .. Len(s) /\ d \in Nat
      /\ e[d] \in Int /\ e[d] = - n /\ n \in Nat /\ k \in Nat \ {0}
      /\ f[d] = e[d] - k /\ f[d + 1] = e[d + 1] - k /\ e[d + 1] \in Int
  <2>1. d + 1 \in 0 .. Len(s) /\ d \in 0 .. Len(s) /\ d \in Nat /\ k \in Nat \ {0}
    BY <1>2
  <2>2. e[d] \in Int
    BY <1>4, <2>1
  <2>3. e[d] = - n
    BY <1>1, <2>2
  <2> QED
    BY <1>2, <1>4, <2>1, <2>2, <2>3
<1>9. e[d + 1] = e[d] + Len(Wire(s[d + 1])) /\ Len(Wire(s[d + 1])) \in Nat
  <2>1. d + 1 \in 1 .. Len(s) /\ (d + 1) - 1 = d
    BY <1>2, <1>8
  <2>2. s[d + 1] \in Messages
    BY <2>1, ElementOfSeq
  <2>3. Len(Wire(s[d + 1])) \in Nat
    BY <2>2, WireFacts, LenProperties
  <2> QED
    BY <1>1, <2>1, <2>3 DEF Ends, Placed
<1>10. ASSUME n + k < Len(Wire(s[d + 1]))
       PROVE  Unread(q, s, d, n + k)
  <2>1. Reached(f, s, d) /\ n + k = - f[d]
    BY <1>8, <1>9, <1>10 DEF Reached
  <2> QED
    BY <1>7, <2>1 DEF Unread
<1>11. ASSUME n + k = Len(Wire(s[d + 1]))
       PROVE  Unread(q, s, d + 1, 0)
  <2>1. f[d + 1] = 0
    <3> DEFINE w == Len(Wire(s[d + 1]))
               a == e[d]
               b == e[d + 1]
               c == f[d + 1]
    <3>1. a = - n /\ b = a + w /\ c = b - k /\ n + k = w
      BY <1>8, <1>9, <1>11
    <3>2. n \in Nat /\ k \in Nat
      BY <1>2
    <3> HIDE DEF w, a, b, c
    <3>3. c = 0
      BY <3>1, <3>2
    <3> QED
      BY <3>3 DEF c
  <2>2. ASSUME d + 1 < Len(s)
        PROVE  f[d + 1 + 1] > 0
    <3>1. d + 2 \in 1 .. Len(s) /\ (d + 2) - 1 = d + 1 /\ d + 1 + 1 = d + 2
      BY <1>2, <1>8, <2>2
    <3>2. f[d + 2] = f[d + 1] + Len(Wire(s[d + 2]))
      BY <1>6, <3>1 DEF Placed
    <3>3. s[d + 2] \in Messages
      BY <3>1, ElementOfSeq
    <3>4. Len(Wire(s[d + 2])) \in Nat /\ Len(Wire(s[d + 2])) > 0
      BY <3>3, WireIsNotEmpty
    <3> QED
      BY <2>1, <3>1, <3>2, <3>4
  <2>3. Reached(f, s, d + 1) /\ 0 = - f[d + 1]
    BY <1>8, <2>1, <2>2 DEF Reached
  <2> QED
    BY <1>7, <2>3 DEF Unread
<1> QED
  BY <1>10, <1>11 DEF q

\* A message more
LEMMA UnreadGrows ==
  ASSUME NEW r \in Seq(Byte), NEW s \in Seq(Messages), NEW d, NEW n, Unread(r, s, d, n),
         NEW m \in Messages
  PROVE  Unread(r \o Wire(m), Append(s, m), d, n)
<1> DEFINE q == r \o Wire(m)
           t == Append(s, m)
           w == Len(Wire(m))
           l == Len(s)
           b == Len(r)
<1>1. PICK e : Ends(r, s, e) /\ Reached(e, s, d) /\ n = - e[d]
  BY DEF Unread
<1> DEFINE f == [i \in 0 .. l + 1 |-> IF i <= l THEN e[i] ELSE b + w]
<1>2. l \in Nat /\ b \in Nat /\ w \in Nat /\ w > 0 /\ d \in 0 .. l
  <2>1. w \in Nat /\ w > 0
    BY WireIsNotEmpty
  <2> QED
    BY <1>1, <2>1, LenProperties DEF Reached
<1>3. e \in [0 .. l -> Int] /\ e[l] = b /\ \A i \in 1 .. l : Placed(r, s, e, i)
  BY <1>1 DEF Ends
<1>4. /\ q \in Seq(Byte) /\ Len(q) = b + w
      /\ \A i \in 1 .. b + w : q[i] = IF i <= b THEN r[i] ELSE Wire(m)[i - b]
  <2>1. Wire(m) \in Seq(Byte)
    BY WireFacts
  <2> QED
    BY <2>1, ConcatProperties
<1>5. /\ t \in Seq(Messages) /\ Len(t) = l + 1 /\ t[l + 1] = m
      /\ \A i \in 1 .. l : t[i] = s[i]
  BY AppendProperties
<1> HIDE DEF q, t, w, l, b
<1>6. /\ f \in [0 .. l + 1 -> Int] /\ f[l + 1] = b + w
      /\ \A i \in 0 .. l : f[i] = e[i] /\ e[i] \in Int
  BY <1>2, <1>3
<1> HIDE DEF f
<1>7. ASSUME NEW i \in 1 .. l
      PROVE  Placed(q, t, f, i)
  <2> DEFINE v == Len(Wire(s[i]))
             x == e[i - 1]
             y == e[i]
  <2>1. i \in 0 .. l /\ i - 1 \in 0 .. l /\ t[i] = s[i] /\ s[i] \in Messages
    BY <1>2, <1>5, ElementOfSeq DEF l
  <2>2. v \in Nat
    BY <2>1, WireFacts, LenProperties
  <2>3. x \in Int /\ y \in Int /\ f[i - 1] = x /\ f[i] = y
    BY <1>6, <2>1
  <2>4. /\ y = x + v /\ y <= b
        /\ \A j \in 1 .. v : x + j >= 1 => r[x + j] = Wire(s[i])[j]
    BY <1>3 DEF Placed, b
  <2> HIDE DEF v, x, y
  <2>5. ASSUME NEW j \in 1 .. v, x + j >= 1
        PROVE  q[x + j] = Wire(s[i])[j]
    <3>1. x + j \in 1 .. b + w /\ x + j <= b
      BY <1>2, <2>2, <2>3, <2>4, <2>5
    <3> QED
      BY <1>4, <2>4, <2>5, <3>1
  <2>6. y <= Len(q)
    BY <1>2, <1>4, <2>3, <2>4
  <2> QED
    BY <2>1, <2>3, <2>4, <2>5, <2>6 DEF Placed, v
<1>8. Placed(q, t, f, l + 1)
  <2>1. (l + 1) - 1 = l /\ l \in 0 .. l
    BY <1>2
  <2>2. f[(l + 1) - 1] = b /\ f[l + 1] = b + w /\ f[l + 1] <= Len(q)
    BY <1>2, <1>3, <1>4, <1>6, <2>1
  <2>3. ASSUME NEW j \in 1 .. w
        PROVE  q[b + j] = Wire(m)[j]
    <3>1. b + j \in 1 .. b + w /\ ~(b + j <= b) /\ (b + j) - b = j
      BY <1>2
    <3> QED
      BY <1>4, <3>1
  <2> QED
    BY <1>5, <2>2, <2>3 DEF Placed, w
<1>9. Ends(q, t, f)
  <2>1. \A i \in 1 .. l + 1 : Placed(q, t, f, i)
    <3> TAKE i \in 1 .. l + 1
    <3>1. i \in 1 .. l \/ i = l + 1
      BY <1>2
    <3> QED
      BY <1>7, <1>8, <3>1
  <2> QED
    BY <1>4, <1>5, <1>6, <2>1 DEF Ends
<1>10. Reached(f, t, d) /\ n = - f[d]
  <2>1. d \in 0 .. l + 1 /\ f[d] = e[d] /\ e[d] <= 0
    BY <1>1, <1>2, <1>6 DEF Reached
  <2>2. ASSUME d < l + 1
        PROVE  f[d + 1] > 0
    <3>1. CASE d = l
      BY <1>2, <1>6, <3>1
    <3>2. CASE d < l
      <4>1. d + 1 \in 0 .. l
        BY <1>2, <3>2
      <4> QED
        BY <1>1, <1>6, <3>2, <4>1 DEF Reached, l
    <3> QED
      BY <1>2, <3>1, <3>2
  <2> QED
    BY <1>1, <1>5, <2>1, <2>2 DEF Reached
<1> QED
  BY <1>9, <1>10 DEF Unread, q, t

\* At the beginning nothing is unread.
LEMMA NothingUnread == Unread(<<>>, <<>>, 0, 0)
<1> DEFINE e == [i \in 0 .. 0 |-> 0]
<1>1. Len(<<>>) = 0 /\ e[0] = 0 /\ e \in [0 .. 0 -> Int]
  OBVIOUS
<1> HIDE DEF e
<1>2. Ends(<<>>, <<>>, e) /\ Reached(e, <<>>, 0) /\ 0 = - e[0]
  <2>1. 0 .. Len(<<>>) = 0 .. 0 /\ \A i \in 1 .. Len(<<>>) : FALSE
    BY <1>1
  <2>2. Ends(<<>>, <<>>, e)
    BY <1>1, <2>1 DEF Ends
  <2>3. Reached(e, <<>>, 0)
    BY <1>1 DEF Reached
  <2> QED
    BY <1>1, <2>2, <2>3
<1> QED
  BY <1>2 DEF Unread

-----------------------------------------------------------------------------
(* Types                                                                   *)

FrameKinds == {"rsp", "status", "urc", "dropped", "unexpected", "URC", "RSP", "FLUSH"}
Frames == [kind : FrameKinds, line : Seq(Byte), length : Nat, data : Seq(Byte), room : Nat]
Transfers == [state : {"URC", "RSP", "FLUSH"}, owner : Nat, bufferSize : Nat,
              remaining : Nat, data : Seq(Byte), line : Seq(Byte)]
StreamTypes ==
  /\ rx \in Seq(Byte) /\ sent \in Seq(Messages)
  /\ line \in Seq(Byte) /\ header \in Seq(Byte)
  /\ isBinaryRx \in BOOLEAN
  /\ binaryRx \in Transfers
  /\ frames \in Seq(Frames)
CallerTypes ==
  /\ cmd \in Nat /\ nCmds \in Nat /\ nFailures \in Nat
  /\ rspBinaryBuf \in [owner : Nat, size : Nat]
  /\ pExpectedRsp \in RspPrefixes \union {<<>>}
  /\ todo \in Seq({"query", "end"})
Types == StreamTypes /\ CallerTypes

\* A transfer that receives nothing
LEMMA FlushFacts ==
  /\ Flush \in Transfers
  /\ Flush.state = "FLUSH" /\ Flush.data = <<>> /\ Flush.bufferSize = 0
<1>1. <<>> \in Seq(Byte)
  BY EmptySeq
<1> QED
  BY <1>1 DEF Flush, Transfers

\* Which kinds a line may have
LEMMA KindFacts ==
  ASSUME NEW l, NEW kind \in Kinds(l)
  PROVE  /\ kind \in {"rsp", "status", "urc", "dropped", "unexpected"}
         /\ kind = "rsp" <=> IsResponse(l)
         /\ kind = "status" => IsStatus(l)
         /\ IsStatus(l) /\ ~IsResponse(l) => kind = "status"
<1>1. CASE IsResponse(l)
  <2>1. Kinds(l) = {"rsp"}
    BY <1>1 DEF Kinds, IsResponse, IsStatus, IsUrc, IsExpected
  <2> QED
    BY <1>1, <2>1
<1>2. CASE ~IsResponse(l) /\ IsStatus(l)
  <2>1. Kinds(l) = {"status"}
    <3>1. l \in {<<OK>>, <<ERROR>>}
      BY <1>2 DEF IsStatus
    <3>2. Head(l) # PLUS
      BY <3>1 DEF OK, ERROR, PLUS
    <3>3. ~IsUrc(l)
      BY <3>2 DEF IsUrc
    <3> QED
      BY <1>2, <3>3 DEF Kinds
  <2> QED
    BY <1>2, <2>1
<1>3. CASE ~IsResponse(l) /\ ~IsStatus(l)
  <2>1. Kinds(l) = {"urc", "dropped"} \/ Kinds(l) = {"unexpected"}
    BY <1>3 DEF Kinds, IsResponse, IsStatus, IsUrc, IsExpected
  <2> QED
    BY <1>3, <2>1
<1> QED
  BY <1>1, <1>2, <1>3

\* The first bytes of what is unread, and the others
LEMMA FirstBytes ==
  ASSUME NEW r \in Seq(Byte), NEW k \in 1 .. Len(r)
  PROVE  /\ SubSeq(r, 1, k) \in Seq(Byte) /\ Len(SubSeq(r, 1, k)) = k
         /\ \A i \in 1 .. k : SubSeq(r, 1, k)[i] = r[i]
         /\ SubSeq(r, k + 1, Len(r)) \in Seq(Byte)
         /\ r # <<>> /\ Len(r) \in Nat
<1>1. Len(r) \in Nat /\ k \in Nat /\ k >= 1 /\ k <= Len(r)
  BY LenProperties
<1>2. \A i \in 1 .. Len(r) : r[i] \in Byte
  BY ElementOfSeq
<1>3. /\ SubSeq(r, 1, k) \in Seq(Byte)
      /\ Len(SubSeq(r, 1, k)) = (IF 1 <= k THEN k - 1 + 1 ELSE 0)
      /\ \A i \in 1 .. k - 1 + 1 : SubSeq(r, 1, k)[i] = r[1 + i - 1]
  <2>1. 1 \in Int /\ k \in Int /\ \A i \in 1 .. k : r[i] \in Byte
    BY <1>1, <1>2
  <2> QED
    BY <2>1, SubSeqProperties
<1>4. Len(SubSeq(r, 1, k)) = k
  BY <1>1, <1>3
<1>5. \A i \in 1 .. k : SubSeq(r, 1, k)[i] = r[i]
  <2>1. \A i \in 1 .. k : i \in 1 .. k - 1 + 1 /\ 1 + i - 1 = i
    BY <1>1
  <2> QED
    BY <1>3, <2>1
<1>6. SubSeq(r, k + 1, Len(r)) \in Seq(Byte)
  <2>1. k + 1 \in Int /\ Len(r) \in Int /\ \A i \in k + 1 .. Len(r) : r[i] \in Byte
    <3>1. \A i \in k + 1 .. Len(r) : i \in 1 .. Len(r)
      BY <1>1
    <3> QED
      BY <1>1, <1>2, <3>1
  <2> QED
    BY <2>1, SubSeqProperties
<1>7. r # <<>>
  BY <1>1, EmptySeq
<1> QED
  BY <1>1, <1>3, <1>4, <1>5, <1>6, <1>7

\* One byte
LEMMA OneByte ==
  ASSUME NEW r \in Seq(Byte), r # <<>>
  PROVE  /\ Head(r) \in Byte /\ Head(r) = r[1]
         /\ Tail(r) \in Seq(Byte) /\ Tail(r) = SubSeq(r, 1 + 1, Len(r))
         /\ 1 \in 1 .. Len(r)
<1>1. 1 \in 1 .. Len(r)
  BY LenProperties, EmptySeq
<1>2. Tail(r) = SubSeq(r, 2, Len(r)) /\ Head(r) \in Byte /\ Tail(r) \in Seq(Byte)
  BY HeadTailProperties, TailIsSubSeq
<1>3. Head(r) = r[1]
  BY DEF Head
<1> QED
  BY <1>1, <1>2, <1>3

\* How many bytes a read returns
LEMMA ReadsFit ==
  ASSUME NEW a \in Int, NEW r \in Seq(Byte), NEW k \in 1 .. Min({a, Len(r)})
  PROVE  k \in 1 .. Len(r) /\ k <= a
<1>1. Len(r) \in Int
  BY LenProperties
<1>2. Min({a, Len(r)}) = IF a <= Len(r) THEN a ELSE Len(r)
  BY <1>1, MinOfTwo
<1> QED
  BY <1>1, <1>2

\* A frame has its type.
LEMMA FrameTypes ==
  ASSUME NEW kind \in FrameKinds, NEW l \in Seq(Byte), NEW length \in Nat, NEW t \in Transfers
  PROVE  Frame(kind, l, length, t) \in Frames
BY DEF Frame, Frames, Transfers

\* One frame more
LEMMA AppendFrame ==
  ASSUME frames \in Seq(Frames), NEW f \in Frames
  PROVE  Append(frames, f) \in Seq(Frames)
BY AppendProperties

\* Reading a byte of a line keeps the types.
LEMMA LineTypes ==
  ASSUME StreamTypes, ReadCharacter \/ ReadEndOfLine \/ ReadSOH
  PROVE  StreamTypes'
<1>1. rx # <<>>
  BY DEF ReadCharacter, ReadEndOfLine, ReadSOH
<1>2. rx \in Seq(Byte) /\ line \in Seq(Byte) /\ <<>> \in Seq(Byte) /\ frames \in Seq(Frames)
  BY EmptySeq DEF StreamTypes
<1>3. Head(rx) \in Byte /\ Tail(rx) \in Seq(Byte)
  BY <1>1, <1>2, OneByte
<1>4. CASE ReadCharacter
  <2>1. line' \in Seq(Byte)
    <3>1. Append(line, Head(rx)) \in Seq(Byte)
      BY <1>2, <1>3, AppendProperties
    <3> QED
      BY <1>2, <1>4, <3>1 DEF ReadCharacter, Store
  <2> QED
    BY <1>3, <1>4, <2>1 DEF ReadCharacter, StreamTypes
<1>5. CASE ReadEndOfLine
  <2>1. PICK kind \in Kinds(line) :
          frames' = IF line = <<>> THEN frames
                    ELSE Append(frames, Frame(kind, line, 0, Flush))
    BY <1>5 DEF ReadEndOfLine
  <2>2. kind \in FrameKinds
    <3>1. kind \in {"rsp", "status", "urc", "dropped", "unexpected"}
      BY KindFacts
    <3> QED
      BY <3>1 DEF FrameKinds
  <2>3. Frame(kind, line, 0, Flush) \in Frames
    BY <1>2, <2>2, FrameTypes, FlushFacts
  <2>4. frames' \in Seq(Frames)
    BY <1>2, <2>1, <2>3, AppendFrame
  <2> QED
    BY <1>2, <1>3, <1>5, <2>4 DEF ReadEndOfLine, StreamTypes
<1>6. CASE ReadSOH
  BY <1>3, <1>6 DEF ReadSOH, StreamTypes
<1> QED
  BY <1>4, <1>5, <1>6

\* The fields of a transfer when two of them change
LEMMA TransferFields ==
  ASSUME NEW B, NEW a \in Nat, NEW b \in B,
         NEW t \in [state : {"URC", "RSP", "FLUSH"}, owner : Nat, bufferSize : Nat,
                    remaining : Nat, data : B, line : B]
  PROVE  LET u == [t EXCEPT !.remaining = a, !.line = b]
             v == [t EXCEPT !.remaining = a, !.data = b]
         IN  /\ u \in [state : {"URC", "RSP", "FLUSH"}, owner : Nat, bufferSize : Nat,
                        remaining : Nat, data : B, line : B]
             /\ u.state = t.state /\ u.owner = t.owner /\ u.bufferSize = t.bufferSize
             /\ u.remaining = a /\ u.data = t.data /\ u.line = b
             /\ v \in [state : {"URC", "RSP", "FLUSH"}, owner : Nat, bufferSize : Nat,
                        remaining : Nat, data : B, line : B]
             /\ v.state = t.state /\ v.owner = t.owner /\ v.bufferSize = t.bufferSize
             /\ v.remaining = a /\ v.data = b /\ v.line = t.line
OBVIOUS

WithLine(t, a, b) == [t EXCEPT !.remaining = a, !.line = b]
WithData(t, a, b) == [t EXCEPT !.remaining = a, !.data = b]

\* The same for the transfers of the model
LEMMA TransferSteps ==
  ASSUME NEW a \in Nat, NEW b \in Seq(Byte), NEW t \in Transfers
  PROVE  /\ WithLine(t, a, b) \in Transfers
         /\ WithLine(t, a, b).state = t.state
         /\ WithLine(t, a, b).owner = t.owner
         /\ WithLine(t, a, b).bufferSize = t.bufferSize
         /\ WithLine(t, a, b).remaining = a
         /\ WithLine(t, a, b).data = t.data
         /\ WithLine(t, a, b).line = b
         /\ WithData(t, a, b) \in Transfers
         /\ WithData(t, a, b).state = t.state
         /\ WithData(t, a, b).owner = t.owner
         /\ WithData(t, a, b).bufferSize = t.bufferSize
         /\ WithData(t, a, b).remaining = a
         /\ WithData(t, a, b).data = b
         /\ WithData(t, a, b).line = t.line
<1> DEFINE B == Seq(Byte)
<1>1. b \in B /\ t \in [state : {"URC", "RSP", "FLUSH"}, owner : Nat, bufferSize : Nat,
                        remaining : Nat, data : B, line : B]
  BY DEF Transfers
<1>2. Transfers = [state : {"URC", "RSP", "FLUSH"}, owner : Nat, bufferSize : Nat,
                   remaining : Nat, data : B, line : B]
  BY DEF Transfers
<1> HIDE DEF B
<1> QED
  BY <1>1, <1>2, TransferFields DEF WithLine, WithData

\* Where a transfer is done
LEMMA DoneTypes ==
  ASSUME frames \in Seq(Frames), rspBinaryBuf \in [owner : Nat, size : Nat],
         NEW t \in Transfers, NEW length \in Nat, NEW l \in Seq(Byte), Done(t, length, l)
  PROVE  /\ isBinaryRx' \in BOOLEAN /\ header' \in Seq(Byte) /\ binaryRx' \in Transfers
         /\ frames' \in Seq(Frames)
         /\ rspBinaryBuf' \in [owner : Nat, size : Nat]
<1>1. Frame(t.state, l, length, t) \in Frames
  <2>1. t.state \in FrameKinds
    BY DEF Transfers, FrameKinds
  <2> QED
    BY <2>1, FrameTypes
<1>2. Len(t.data) \in Nat
  <2>1. t.data \in Seq(Byte)
    BY DEF Transfers
  <2> QED
    BY <2>1, LenProperties
<1>3. frames' \in Seq(Frames)
  BY <1>1, AppendFrame DEF Done
<1>4. rspBinaryBuf' \in [owner : Nat, size : Nat]
  BY <1>2 DEF Done
<1>5. isBinaryRx' \in BOOLEAN /\ header' \in Seq(Byte) /\ binaryRx' \in Transfers
  BY EmptySeq, FlushFacts DEF Done
<1> QED
  BY <1>3, <1>4, <1>5

\* What ReadHeader and ReadPayload read, named
HeaderBytes(k) == header \o SubSeq(rx, 1, k)
Begun(kind, size, room) == [Setup(kind, size, room) EXCEPT !.remaining = size, !.line = line]
Received(k) ==
  [binaryRx EXCEPT !.remaining = Max({binaryRx.remaining - k, 0}),
                   !.data = IF RoomLeft > 0 THEN binaryRx.data \o SubSeq(rx, 1, k)
                                            ELSE binaryRx.data]

HeaderPart(k) ==
  /\ header' = HeaderBytes(k)
  /\ UNCHANGED <<line, isBinaryRx, binaryRx, frames, rspBinaryBuf, status>>
  /\ ReturnTo("none")
HeaderWhole(k, kind, room) ==
  LET size == Length(HeaderBytes(k)) IN
  /\ status' = StatusOf(kind, line)
  /\ line' = <<>>
  /\ IF size = 0 THEN Done(Begun(kind, size, room), 0, line)
     ELSE /\ header' = HeaderBytes(k)
          /\ binaryRx' = Begun(kind, size, room)
          /\ rspBinaryBuf' = IF kind = "rsp" THEN [rspBinaryBuf EXCEPT !.size = 0]
                             ELSE rspBinaryBuf
          /\ UNCHANGED <<isBinaryRx, frames, at>>

\* What ReadHeader does: a part of the length, or all of it
LEMMA HeaderCases ==
  ASSUME StreamTypes, ReadHeader
  PROVE  /\ Reading /\ isBinaryRx /\ Len(header) < 2
         /\ UNCHANGED <<cmd, pExpectedRsp, todo, nCmds, sent, nFailures>>
         /\ \E k \in 1 .. Len(rx) :
              /\ k <= 2 - Len(header)
              /\ rx' = SubSeq(rx, k + 1, Len(rx))
              /\ HeaderBytes(k) \in Seq(Byte) /\ Len(HeaderBytes(k)) = Len(header) + k
              /\ \/ Len(HeaderBytes(k)) < 2 /\ HeaderPart(k)
                 \/ /\ Len(HeaderBytes(k)) = 2
                    /\ \E kind \in Kinds(line), room \in PayloadRooms : HeaderWhole(k, kind, room)
<1>1. /\ Reading /\ isBinaryRx /\ Len(header) < 2
      /\ UNCHANGED <<cmd, pExpectedRsp, todo, nCmds, sent, nFailures>>
  BY DEF ReadHeader
<1>2. rx \in Seq(Byte) /\ header \in Seq(Byte) /\ Len(header) \in Nat
  BY LenProperties DEF StreamTypes
<1>3. PICK k \in 1 .. Min({2 - Len(header), Len(rx)}) :
        /\ rx' = SubSeq(rx, k + 1, Len(rx))
        /\ IF Len(HeaderBytes(k)) < 2 THEN HeaderPart(k)
           ELSE \E kind \in Kinds(line), room \in PayloadRooms : HeaderWhole(k, kind, room)
  BY DEF ReadHeader, HeaderBytes, HeaderPart, HeaderWhole, Begun
<1>4. k \in 1 .. Len(rx) /\ k <= 2 - Len(header)
  <2>1. 2 - Len(header) \in Int
    BY <1>2
  <2> QED
    BY <1>2, <2>1, ReadsFit
<1>5. HeaderBytes(k) \in Seq(Byte) /\ Len(HeaderBytes(k)) = Len(header) + k
  <2>1. SubSeq(rx, 1, k) \in Seq(Byte) /\ Len(SubSeq(rx, 1, k)) = k
    BY <1>2, <1>4, FirstBytes
  <2> QED
    BY <1>2, <2>1, ConcatProperties DEF HeaderBytes
<1>6. Len(HeaderBytes(k)) < 2 \/ Len(HeaderBytes(k)) = 2
  BY <1>2, <1>4, <1>5
<1> QED
  BY <1>1, <1>3, <1>4, <1>5, <1>6

\* What ReadPayload does: a part of the data, or the rest
LEMMA PayloadCases ==
  ASSUME StreamTypes, ReadPayload
  PROVE  /\ Reading /\ isBinaryRx /\ Len(header) = 2
         /\ UNCHANGED <<line, cmd, pExpectedRsp, todo, nCmds, sent, nFailures, status>>
         /\ \E k \in 1 .. Len(rx) :
              /\ k <= ReadLen
              /\ rx' = SubSeq(rx, k + 1, Len(rx))
              /\ \/ Received(k).remaining = 0 /\ Done(Received(k), Length(header), Received(k).line)
                 \/ /\ Received(k).remaining # 0
                    /\ binaryRx' = Received(k)
                    /\ UNCHANGED <<isBinaryRx, header, frames, rspBinaryBuf, at>>
<1>1. /\ Reading /\ isBinaryRx /\ Len(header) = 2
      /\ UNCHANGED <<line, cmd, pExpectedRsp, todo, nCmds, sent, nFailures>>
  BY DEF ReadPayload
<1>2. rx \in Seq(Byte) /\ ReadLen \in Int
  <2>1. /\ binaryRx.remaining \in Nat /\ binaryRx.bufferSize \in Nat
        /\ Len(binaryRx.data) \in Nat /\ FlushLen \in Nat
    <3>1. binaryRx.data \in Seq(Byte)
      BY DEF StreamTypes, Transfers
    <3>2. Len(binaryRx.data) \in Nat
      BY <3>1, LenProperties
    <3> QED
      BY <3>2, ParserAssumption DEF StreamTypes, Transfers
  <2>2. (IF RoomLeft > 0 THEN RoomLeft ELSE FlushLen) \in Int
    BY <2>1 DEF RoomLeft
  <2>3. ReadLen \in Int
    BY <2>1, <2>2, MinOfTwo DEF ReadLen
  <2> QED
    BY <2>3 DEF StreamTypes
<1>3. PICK k \in 1 .. Min({ReadLen, Len(rx)}) :
        /\ rx' = SubSeq(rx, k + 1, Len(rx))
        /\ IF Received(k).remaining = 0
           THEN UNCHANGED status /\ Done(Received(k), Length(header), Received(k).line)
           ELSE /\ binaryRx' = Received(k)
                /\ UNCHANGED <<isBinaryRx, header, frames, rspBinaryBuf, at, status>>
  BY DEF ReadPayload, Received
<1>4. k \in 1 .. Len(rx) /\ k <= ReadLen
  BY <1>2, ReadsFit
<1> QED
  BY <1>1, <1>3, <1>4

\* The types of the transfer that goes on
LEMMA TransferTypes ==
  ASSUME StreamTypes
  PROVE  /\ binaryRx.remaining \in Nat /\ binaryRx.bufferSize \in Nat
         /\ binaryRx.data \in Seq(Byte) /\ Len(binaryRx.data) \in Nat
         /\ binaryRx.line \in Seq(Byte) /\ binaryRx.state \in {"URC", "RSP", "FLUSH"}
         /\ binaryRx.owner \in Nat
         /\ RoomLeft \in Int /\ RoomLeft = binaryRx.bufferSize - Len(binaryRx.data)
<1>1. /\ binaryRx.remaining \in Nat /\ binaryRx.bufferSize \in Nat
      /\ binaryRx.data \in Seq(Byte) /\ binaryRx.line \in Seq(Byte)
      /\ binaryRx.state \in {"URC", "RSP", "FLUSH"} /\ binaryRx.owner \in Nat
  BY DEF StreamTypes, Transfers
<1>2. Len(binaryRx.data) \in Nat
  BY <1>1, LenProperties
<1> QED
  BY <1>1, <1>2 DEF RoomLeft

\* The transfer when more was received
LEMMA ReceivedFacts ==
  ASSUME StreamTypes, NEW k \in 1 .. Len(rx)
  PROVE  LET v == Received(k) IN
         /\ v \in Transfers
         /\ v.state = binaryRx.state /\ v.owner = binaryRx.owner
         /\ v.bufferSize = binaryRx.bufferSize /\ v.line = binaryRx.line
         /\ v.remaining = IF binaryRx.remaining - k >= 0 THEN binaryRx.remaining - k ELSE 0
         /\ v.data = IF RoomLeft > 0 THEN binaryRx.data \o SubSeq(rx, 1, k) ELSE binaryRx.data
<1> DEFINE a == Max({binaryRx.remaining - k, 0})
           b == IF RoomLeft > 0 THEN binaryRx.data \o SubSeq(rx, 1, k) ELSE binaryRx.data
<1>1. binaryRx.remaining \in Nat /\ binaryRx.data \in Seq(Byte) /\ binaryRx \in Transfers
  BY TransferTypes DEF StreamTypes
<1>2. rx \in Seq(Byte) /\ SubSeq(rx, 1, k) \in Seq(Byte) /\ k \in Nat
  <2>1. rx \in Seq(Byte)
    BY DEF StreamTypes
  <2> QED
    BY <2>1, FirstBytes, LenProperties
<1>3. a = IF binaryRx.remaining - k >= 0 THEN binaryRx.remaining - k ELSE 0
  <2>1. binaryRx.remaining - k \in Int /\ 0 \in Int
    BY <1>1, <1>2
  <2> QED
    BY <2>1, MaxOfTwo
<1>4. a \in Nat
  BY <1>1, <1>2, <1>3
<1>5. b \in Seq(Byte)
  BY <1>1, <1>2, ConcatProperties
<1>6. Received(k) = WithData(binaryRx, a, b)
  BY DEF Received, WithData
<1> HIDE DEF a, b
<1>7. LET v == WithData(binaryRx, a, b)
      IN  /\ v \in Transfers
          /\ v.state = binaryRx.state /\ v.owner = binaryRx.owner
          /\ v.bufferSize = binaryRx.bufferSize
          /\ v.remaining = a /\ v.data = b /\ v.line = binaryRx.line
  BY <1>1, <1>4, <1>5, TransferSteps
<1> QED
  BY <1>3, <1>6, <1>7 DEF b

\* Two bytes are a length.
LEMMA BytesAreNumbers ==
  ASSUME NEW s \in Seq(Byte), Len(s) = 2
  PROVE  Length(s) \in Nat
<1>1. s[1] \in Byte /\ s[2] \in Byte
  BY ElementOfSeq
<1>2. s[1] \in Nat /\ s[2] \in Nat
  BY <1>1 DEF Byte
<1> QED
  BY <1>2 DEF Length, Radix

\* The transfer that begins behind a line: a response takes the buffer that is
\* registered, a URC a room that is enough.
LEMMA BegunFacts ==
  ASSUME Types, NEW kind, NEW size \in Nat, NEW room \in PayloadRooms
  PROVE  LET u == Begun(kind, size, room) IN
         /\ u \in Transfers
         /\ u.remaining = size /\ u.line = line /\ u.data = <<>>
         /\ u.bufferSize \in Nat
         /\ u.state = "URC" => u.bufferSize >= size
         /\ u.state = "RSP" <=> kind = "rsp"
         /\ u.state = "RSP" => u.owner = rspBinaryBuf.owner
<1>1. room \in Nat /\ line \in Seq(Byte)
  BY ParserAssumption DEF Types, StreamTypes
<1>2. rspBinaryBuf.owner \in Nat /\ rspBinaryBuf.size \in Nat
  BY DEF Types, CallerTypes
<1> DEFINE s == Setup(kind, size, room)
<1>3. /\ s \in Transfers /\ s.data = <<>>
      /\ s.state = "URC" => s.bufferSize >= size
      /\ s.state = "RSP" <=> kind = "rsp"
      /\ s.state = "RSP" => s.owner = rspBinaryBuf.owner
  <2>1. CASE kind = "rsp"
    <3>1. s = [Flush EXCEPT !.state = "RSP", !.owner = rspBinaryBuf.owner,
                            !.bufferSize = rspBinaryBuf.size]
      BY <2>1 DEF Setup
    <3>2. s = [state |-> "RSP", owner |-> rspBinaryBuf.owner, bufferSize |-> rspBinaryBuf.size,
               remaining |-> 0, data |-> <<>>, line |-> <<>>]
      BY <3>1 DEF Flush
    <3> HIDE DEF s
    <3> QED
      BY <1>2, <2>1, <3>2, EmptySeq DEF Transfers
  <2>2. CASE kind = "urc" /\ room >= size
    <3>1. s = [Flush EXCEPT !.state = "URC", !.bufferSize = room]
      BY <2>2 DEF Setup
    <3>2. s = [state |-> "URC", owner |-> 0, bufferSize |-> room,
               remaining |-> 0, data |-> <<>>, line |-> <<>>]
      BY <3>1 DEF Flush
    <3> HIDE DEF s
    <3> QED
      BY <1>1, <2>2, <3>2, EmptySeq DEF Transfers
  <2>3. CASE kind # "rsp" /\ ~(kind = "urc" /\ room >= size)
    <3>1. s = Flush
      BY <2>3 DEF Setup
    <3> HIDE DEF s
    <3> QED
      BY <2>3, <3>1, FlushFacts
  <2> QED
    BY <2>1, <2>2, <2>3
<1>4. Begun(kind, size, room) = WithLine(s, size, line)
  BY DEF Begun, WithLine
<1> HIDE DEF s
<1>5. LET u == WithLine(s, size, line)
      IN  /\ u \in Transfers
          /\ u.state = s.state /\ u.owner = s.owner /\ u.bufferSize = s.bufferSize
          /\ u.remaining = size /\ u.data = s.data /\ u.line = line
  BY <1>1, <1>3, TransferSteps
<1>6. s.bufferSize \in Nat
  BY <1>3 DEF Transfers
<1> QED
  BY <1>3, <1>4, <1>5, <1>6

\* Reading bytes of a length keeps the types.
LEMMA HeaderTypes ==
  ASSUME Types, ReadHeader
  PROVE  Types'
<1>1. PICK k \in 1 .. Len(rx) :
        /\ rx' = SubSeq(rx, k + 1, Len(rx))
        /\ HeaderBytes(k) \in Seq(Byte)
        /\ \/ Len(HeaderBytes(k)) < 2 /\ HeaderPart(k)
           \/ /\ Len(HeaderBytes(k)) = 2
              /\ \E kind \in Kinds(line), room \in PayloadRooms : HeaderWhole(k, kind, room)
  BY HeaderCases DEF Types
<1>2. /\ UNCHANGED <<cmd, pExpectedRsp, todo, nCmds, sent, nFailures>>
      /\ rx \in Seq(Byte)
  BY HeaderCases DEF Types, StreamTypes
<1>3. rx' \in Seq(Byte)
  BY <1>1, <1>2, FirstBytes
<1>4. CASE HeaderPart(k)
  BY <1>1, <1>2, <1>3, <1>4 DEF HeaderPart, Types, StreamTypes, CallerTypes
<1>5. ASSUME Len(HeaderBytes(k)) = 2, NEW kind \in Kinds(line), NEW room \in PayloadRooms,
             HeaderWhole(k, kind, room)
      PROVE  Types'
  <2> DEFINE size == Length(HeaderBytes(k))
  <2>1. size \in Nat
    BY <1>1, <1>5, BytesAreNumbers
  <2>2. Begun(kind, size, room) \in Transfers
    BY <2>1, BegunFacts
  <2>3. line' \in Seq(Byte)
    BY <1>5, EmptySeq DEF HeaderWhole
  <2>4. /\ frames \in Seq(Frames) /\ line \in Seq(Byte)
        /\ rspBinaryBuf \in [owner : Nat, size : Nat] /\ isBinaryRx \in BOOLEAN
    BY DEF Types, StreamTypes, CallerTypes
  <2>5. /\ isBinaryRx' \in BOOLEAN /\ header' \in Seq(Byte) /\ binaryRx' \in Transfers
        /\ frames' \in Seq(Frames)
        /\ rspBinaryBuf' \in [owner : Nat, size : Nat]
    <3>1. CASE size = 0
      <4>1. Done(Begun(kind, size, room), 0, line)
        BY <1>5, <3>1 DEF HeaderWhole
      <4> QED
        BY <2>2, <2>4, <4>1, DoneTypes
    <3>2. CASE size # 0
      <4>1. /\ header' = HeaderBytes(k)
            /\ binaryRx' = Begun(kind, size, room)
            /\ rspBinaryBuf' = IF kind = "rsp" THEN [rspBinaryBuf EXCEPT !.size = 0]
                               ELSE rspBinaryBuf
            /\ UNCHANGED <<isBinaryRx, frames>>
        BY <1>5, <3>2 DEF HeaderWhole
      <4> QED
        BY <1>1, <2>2, <2>4, <4>1
    <3> QED
      BY <3>1, <3>2
  <2> QED
    BY <1>2, <1>3, <2>3, <2>5 DEF Types, StreamTypes, CallerTypes
<1> QED
  BY <1>1, <1>4, <1>5

\* So does reading data,
LEMMA PayloadTypes ==
  ASSUME Types, ReadPayload
  PROVE  Types'
<1>1. PICK k \in 1 .. Len(rx) :
        /\ rx' = SubSeq(rx, k + 1, Len(rx))
        /\ \/ Received(k).remaining = 0 /\ Done(Received(k), Length(header), Received(k).line)
           \/ /\ Received(k).remaining # 0
              /\ binaryRx' = Received(k)
              /\ UNCHANGED <<isBinaryRx, header, frames, rspBinaryBuf, at>>
  BY PayloadCases DEF Types
<1>2. /\ UNCHANGED <<line, cmd, pExpectedRsp, todo, nCmds, sent, nFailures>>
      /\ rx \in Seq(Byte) /\ header \in Seq(Byte) /\ Len(header) = 2
      /\ frames \in Seq(Frames) /\ rspBinaryBuf \in [owner : Nat, size : Nat]
  BY PayloadCases DEF Types, StreamTypes, CallerTypes
<1>3. rx' \in Seq(Byte)
  BY <1>1, <1>2, FirstBytes
<1>4. Received(k) \in Transfers /\ Received(k).line \in Seq(Byte) /\ Length(header) \in Nat
  <2>1. Received(k) \in Transfers
    BY ReceivedFacts DEF Types
  <2> QED
    BY <1>2, <2>1, BytesAreNumbers DEF Transfers
<1>5. /\ isBinaryRx' \in BOOLEAN /\ header' \in Seq(Byte) /\ binaryRx' \in Transfers
      /\ frames' \in Seq(Frames)
      /\ rspBinaryBuf' \in [owner : Nat, size : Nat]
  <2>1. CASE Received(k).remaining = 0
    BY <1>1, <1>2, <1>4, <2>1, DoneTypes
  <2>2. CASE Received(k).remaining # 0
    BY <1>1, <1>2, <1>4, <2>2 DEF Types, StreamTypes
  <2> QED
    BY <2>1, <2>2
<1> QED
  BY <1>2, <1>3, <1>5 DEF Types, StreamTypes, CallerTypes

\* beginning a command,
LEMMA CmdTypes ==
  ASSUME Types, NEW kind \in {"query", "end"}, CmdBegin(kind)
  PROVE  Types'
<1>1. StreamTypes'
  BY DEF CmdBegin, parser, Types, StreamTypes
<1>2. todo' \in Seq({"query", "end"})
  <2>1. todo \in Seq({"query", "end"})
    BY DEF Types, CallerTypes
  <2> QED
    BY <2>1, AppendProperties DEF CmdBegin
<1> QED
  BY <1>1, <1>2 DEF CmdBegin, Types, CallerTypes

\* registering a buffer,
LEMMA RegisterTypes ==
  ASSUME Types, GetRspParamLine
  PROVE  Types'
<1>1. StreamTypes'
  BY DEF GetRspParamLine, parser, Types, StreamTypes
<1>2. PICK size \in BufferSizes, prefix \in RspPrefixes :
        Register(size) /\ pExpectedRsp' = prefix
  BY DEF GetRspParamLine
<1>3. rspBinaryBuf' \in [owner : Nat, size : Nat]
  BY <1>2, ParserAssumption DEF Register, Types, CallerTypes
<1> QED
  BY <1>1, <1>2, <1>3 DEF GetRspParamLine, Types, CallerTypes

\* and what the module sends.
LEMMA SendTypes ==
  ASSUME Types, NEW m \in Messages, ModuleSends(m)
  PROVE  Types'
<1>1. rx' \in Seq(Byte) /\ sent' \in Seq(Messages)
  BY WireFacts, ConcatProperties, AppendProperties DEF ModuleSends, Types, StreamTypes
<1>2. todo' \in Seq({"query", "end"})
  <2>1. todo \in Seq({"query", "end"}) /\ m.for \in {"nobody", "query", "end"}
    BY MessageFacts DEF Types, CallerTypes
  <2>2. CASE m.for = "nobody"
    BY <2>1, <2>2 DEF ModuleSends
  <2>3. CASE m.for = "query"
    BY <2>1, <2>3 DEF ModuleSends
  <2>4. CASE m.for = "end"
    <3>1. todo # <<>> /\ todo' = Tail(todo)
      BY <2>4 DEF ModuleSends
    <3> QED
      BY <2>1, <3>1, HeadTailProperties
  <2> QED
    BY <2>1, <2>2, <2>3, <2>4
<1> QED
  BY <1>1, <1>2 DEF ModuleSends, Types, StreamTypes, CallerTypes

\* Every step keeps the types.
LEMMA TypesStep ==
  ASSUME Types, [RxNext]_rxVars
  PROVE  Types'
<1>1. CASE ReadCharacter \/ ReadEndOfLine \/ ReadSOH
  <2>1. StreamTypes'
    BY <1>1, LineTypes DEF Types
  <2>2. CallerTypes'
    BY <1>1 DEF ReadCharacter, ReadEndOfLine, ReadSOH, caller, Types, CallerTypes
  <2> QED
    BY <2>1, <2>2 DEF Types
<1>2. CASE ReadNothing \/ ReadFails \/ TimeOut \/ CmdEnd \/ HandleRx \/ UNCHANGED rxVars
  <2>1. StreamTypes'
    BY <1>2 DEF ReadNothing, ReadFails, TimeOut, CmdEnd, HandleRx, rxVars, parser, Types, StreamTypes
  <2>2. CallerTypes'
    BY <1>2 DEF ReadNothing, ReadFails, TimeOut, CmdEnd, HandleRx, rxVars, caller, Types, CallerTypes
  <2> QED
    BY <2>1, <2>2 DEF Types
<1> QED
  BY <1>1, <1>2, HeaderTypes, PayloadTypes, CmdTypes, RegisterTypes, SendTypes
  DEF RxNext, HandleRxData

-----------------------------------------------------------------------------
(* Frames and messages                                                     *)

FrameOf(f, m) ==
  /\ f.line = Kept(m.line) /\ f.length = Len(m.payload)
  /\ f.kind = "URC" => f.data = m.payload
  /\ f.kind = "RSP" => f.data = SubSeq(m.payload, 1, Min({f.room, f.length}))

Framing(s) == {i \in 1 .. Len(s) : HasFrame(s[i])}
FramesOf(fs, s, d) ==
  /\ Len(fs) = UpTo(Framing(s), d)
  /\ \A i \in Framing(s) : i <= d => FrameOf(fs[UpTo(Framing(s), i)], s[i])

\* Which messages make frames
LEMMA FramingFacts ==
  ASSUME NEW s \in Seq(Messages)
  PROVE  /\ \A j \in Framing(s) : j \in 1 .. Len(s)
         /\ \A j \in Framing(s) : j \in Nat \ {0}
BY LenProperties DEF Framing

\* A message that is read makes its frame, or none.
LEMMA FrameAdded ==
  ASSUME NEW s \in Seq(Messages), NEW fs \in Seq(Frames), NEW d \in Nat, d < Len(s),
         FramesOf(fs, s, d)
  PROVE  /\ ~HasFrame(s[d + 1]) => FramesOf(fs, s, d + 1)
         /\ \A f \in Frames : HasFrame(s[d + 1]) /\ FrameOf(f, s[d + 1])
                                => FramesOf(Append(fs, f), s, d + 1)
<1> DEFINE P == Framing(s)
<1>1. /\ \A j \in P : j \in 1 .. Len(s)
      /\ \A j \in P : j \in Nat \ {0}
  BY FramingFacts
<1>2. d + 1 \in 1 .. Len(s) /\ d + 1 \in Nat
  BY LenProperties
<1>3. d + 1 \in P <=> HasFrame(s[d + 1])
  BY <1>2 DEF Framing
<1>4. /\ Len(fs) = UpTo(P, d)
      /\ \A i \in P : i <= d => FrameOf(fs[UpTo(P, i)], s[i])
  BY DEF FramesOf
<1>5. FramesOf(fs, s, d) /\ \A q, c : FramesOf(q, s, c) <=>
        /\ Len(q) = UpTo(P, c)
        /\ \A i \in P : i <= c => FrameOf(q[UpTo(P, i)], s[i])
  BY DEF FramesOf
<1> HIDE DEF P
<1>6. /\ UpTo(P, d) \in Nat
      /\ d + 1 \in P => UpTo(P, d + 1) = UpTo(P, d) + 1
      /\ d + 1 \notin P => UpTo(P, d + 1) = UpTo(P, d)
  BY <1>1, UpToFacts
<1>7. ASSUME ~HasFrame(s[d + 1])
      PROVE  FramesOf(fs, s, d + 1)
  <2>1. Len(fs) = UpTo(P, d + 1)
    BY <1>3, <1>4, <1>6, <1>7
  <2>2. ASSUME NEW i \in P, i <= d + 1
        PROVE  FrameOf(fs[UpTo(P, i)], s[i])
    <3>1. i <= d
      BY <1>1, <1>3, <1>7, <2>2
    <3> QED
      BY <1>4, <3>1
  <2> QED
    BY <1>5, <2>1, <2>2
<1>8. ASSUME NEW f \in Frames, HasFrame(s[d + 1]), FrameOf(f, s[d + 1])
      PROVE  FramesOf(Append(fs, f), s, d + 1)
  <2> DEFINE q == Append(fs, f)
  <2>1. /\ Len(q) = UpTo(P, d) + 1 /\ q[UpTo(P, d) + 1] = f
        /\ \A i \in 1 .. UpTo(P, d) : q[i] = fs[i]
    BY <1>4, AppendProperties
  <2> HIDE DEF q
  <2>2. Len(q) = UpTo(P, d + 1)
    BY <1>3, <1>6, <1>8, <2>1
  <2>3. ASSUME NEW i \in P, i <= d + 1
        PROVE  FrameOf(q[UpTo(P, i)], s[i])
    <3>1. CASE i = d + 1
      <4>1. q[UpTo(P, i)] = f
        BY <1>6, <2>1, <3>1
      <4> QED
        BY <1>8, <3>1, <4>1
    <3>2. CASE i <= d
      <4>1. i \in Nat \ {0} /\ i - 1 \in Nat /\ (i - 1) + 1 = i
        BY <1>1
      <4>2. UpTo(P, i) = UpTo(P, i - 1) + 1 /\ UpTo(P, i - 1) \in Nat
        BY <1>1, <4>1, UpToFacts
      <4>3. i < d => UpTo(P, i) <= UpTo(P, d)
        BY <1>1, <4>1, UpToGrows
      <4>4. UpTo(P, i) \in 1 .. UpTo(P, d)
        BY <1>6, <3>2, <4>1, <4>2, <4>3
      <4> QED
        BY <1>4, <2>1, <3>2, <4>4
    <3> QED
      BY <1>1, <2>3, <3>1, <3>2
  <2> QED
    BY <1>5, <2>2, <2>3 DEF q
<1> QED
  BY <1>7, <1>8

\* What the module sends changes nothing about the messages that were read.
LEMMA FramesStay ==
  ASSUME NEW s \in Seq(Messages), NEW fs \in Seq(Frames), NEW d \in 0 .. Len(s),
         FramesOf(fs, s, d), NEW m \in Messages
  PROVE  FramesOf(fs, Append(s, m), d)
<1> DEFINE t == Append(s, m)
           P == Framing(s)
           Q == Framing(t)
<1>1. /\ t \in Seq(Messages) /\ Len(t) = Len(s) + 1 /\ Len(s) \in Nat
      /\ \A i \in 1 .. Len(s) : t[i] = s[i]
  BY AppendProperties, LenProperties
<1>2. \A j \in Q : j \in Nat \ {0}
  BY <1>1, FramingFacts
<1>3. \A j : j \in 1 .. Len(s) => (j \in P <=> j \in Q)
  <2> TAKE j
  <2> HAVE j \in 1 .. Len(s)
  <2>1. j \in 1 .. Len(t) /\ t[j] = s[j]
    BY <1>1
  <2> QED
    BY <2>1 DEF Framing
<1>4. \A j \in P : j \in 1 .. Len(s)
  BY FramingFacts
<1>5. /\ Len(fs) = UpTo(P, d)
      /\ \A i \in P : i <= d => FrameOf(fs[UpTo(P, i)], s[i])
  BY DEF FramesOf
<1>6. FramesOf(fs, t, d) <=>
        /\ Len(fs) = UpTo(Q, d)
        /\ \A i \in Q : i <= d => FrameOf(fs[UpTo(Q, i)], t[i])
  BY DEF FramesOf
<1> HIDE DEF t, P, Q
<1>7. \A i \in 0 .. Len(s) : UpTo(P, i) = UpTo(Q, i)
  <2> TAKE i \in 0 .. Len(s)
  <2>1. \A j : j <= i => (j \in P <=> j \in Q)
    <3> TAKE j
    <3> HAVE j <= i
    <3>1. j \in P => j \in Q
      BY <1>3, <1>4
    <3>2. j \in Q => j \in P
      <4> HAVE j \in Q
      <4>1. j \in 1 .. Len(s)
        BY <1>1, <1>2
      <4> QED
        BY <1>3, <4>1
    <3> QED
      BY <3>1, <3>2
  <2> QED
    BY <2>1, UpToSame
<1>8. ASSUME NEW i \in Q, i <= d
      PROVE  FrameOf(fs[UpTo(Q, i)], t[i])
  <2>1. i \in 1 .. Len(s) /\ i \in 0 .. Len(s)
    BY <1>1, <1>2, <1>8
  <2>2. i \in P /\ t[i] = s[i] /\ UpTo(P, i) = UpTo(Q, i)
    BY <1>1, <1>3, <1>7, <2>1
  <2> QED
    BY <1>5, <1>8, <2>2
<1>9. Len(fs) = UpTo(Q, d)
  BY <1>5, <1>7
<1> QED
  BY <1>6, <1>8, <1>9 DEF t

\* All messages are read before the frames are more than they should be.
LEMMA FramesFit ==
  ASSUME NEW s \in Seq(Messages), NEW fs \in Seq(Frames), NEW d \in 0 .. Len(s),
         FramesOf(fs, s, d)
  PROVE  /\ Len(fs) <= Len(Picked(s, Framing(s)))
         /\ \A k \in 1 .. Len(fs) : FrameOf(fs[k], Picked(s, Framing(s))[k])
<1> DEFINE P == Framing(s)
<1>1. /\ \A j \in P : j \in 1 .. Len(s)
      /\ \A j \in P : j \in Nat \ {0}
      /\ Len(s) \in Nat /\ d \in Nat /\ d <= Len(s)
  BY FramingFacts, LenProperties
<1>2. /\ Len(fs) = UpTo(P, d)
      /\ \A i \in P : i <= d => FrameOf(fs[UpTo(P, i)], s[i])
  BY DEF FramesOf
<1> HIDE DEF P
<1>3. /\ Len(Picked(s, P)) = Cardinality(P)
      /\ \A i \in P : Picked(s, P)[UpTo(P, i)] = s[i]
  BY <1>1, PickedFacts
<1>4. UpTo(P, Len(s)) = Cardinality(P) /\ Cardinality(P) \in Nat
  BY <1>1, UpToAll
<1>5. UpTo(P, d) \in Nat /\ UpTo(P, d) <= Cardinality(P)
  <2>1. UpTo(P, d) \in Nat
    BY <1>1, UpToFacts
  <2>2. d < Len(s) => UpTo(P, d) <= UpTo(P, Len(s))
    BY <1>1, UpToGrows
  <2> QED
    BY <1>1, <1>4, <2>1, <2>2
<1>6. ASSUME NEW k \in 1 .. Len(fs)
      PROVE  FrameOf(fs[k], Picked(s, P)[k])
  <2>1. k \in 1 .. Cardinality(P)
    BY <1>2, <1>4, <1>5
  <2>2. PICK i \in P : UpTo(P, i) = k
    BY <1>1, <2>1, NthPosition
  <2>3. i \in Nat /\ (d < i => UpTo(P, d) < UpTo(P, i))
    BY <1>1, UpToGrows
  <2>4. i <= d
    BY <1>1, <1>2, <1>5, <2>2, <2>3
  <2> QED
    BY <1>2, <1>3, <2>2, <2>4
<1> QED
  BY <1>2, <1>3, <1>5, <1>6 DEF P

-----------------------------------------------------------------------------
(* The parser in the middle of a message                                   *)

\* What it has of the data of message m
Transfer(m, got) ==
  /\ binaryRx.line = Kept(m.line)
  /\ binaryRx.remaining = Len(m.payload) - got /\ binaryRx.remaining > 0
  /\ binaryRx.state = "URC" => binaryRx.bufferSize >= Len(m.payload)
  /\ Len(binaryRx.data) = (IF got < binaryRx.bufferSize THEN got ELSE binaryRx.bufferSize)
  /\ \A k \in 1 .. Len(binaryRx.data) : binaryRx.data[k] = m.payload[k]

Between == ~isBinaryRx /\ header = <<>> /\ line = <<>> /\ binaryRx = Flush

\* What it has of message m when it has read n bytes of it
Parsed(m, n) ==
  LET l == Len(m.line) IN
  /\ n = 0 => Between
  /\ n \in 1 .. l + 1 => /\ ~isBinaryRx /\ header = <<>> /\ binaryRx = Flush
                         /\ line = Kept(SubSeq(m.line, 1, n - 1))
  /\ n > l + 1 => isBinaryRx /\ m.isBinary
  /\ n \in l + 2 .. l + 3 => /\ header = SubSeq(LengthBytes(m), 1, n - l - 2)
                             /\ binaryRx = Flush /\ line = Kept(m.line)
  /\ n > l + 3 => /\ header = LengthBytes(m) /\ line = <<>>
                  /\ Transfer(m, n - l - 4)

ParserAt(d, n) == IF d = Len(sent) THEN Between ELSE Parsed(sent[d + 1], n)

\* d messages were read and n bytes of the next one.
Where(d, n) == /\ Unread(rx, sent, d, n)
               /\ ParserAt(d, n)
               /\ FramesOf(frames, sent, d)

\* Where a message ends the next one begins.
LEMMA BetweenParsed ==
  ASSUME Between, NEW d
  PROVE  ParserAt(d, 0)
<1>1. ASSUME d # Len(sent)
      PROVE  Parsed(sent[d + 1], 0)
  BY MessageFacts DEF Parsed
<1> QED
  BY <1>1 DEF ParserAt

\* Where a byte is read
LEMMA Reads ==
  ASSUME StreamTypes, NEW d, NEW n, Where(d, n), rx # <<>>
  PROVE  /\ d \in Nat /\ d < Len(sent) /\ n \in Nat
         /\ sent[d + 1] \in Messages
         /\ Parsed(sent[d + 1], n)
         /\ n < Len(Wire(sent[d + 1]))
<1>1. rx \in Seq(Byte) /\ sent \in Seq(Messages) /\ Unread(rx, sent, d, n)
  BY DEF StreamTypes, Where
<1>2. d \in 0 .. Len(sent) /\ d \in Nat /\ n \in Nat /\ d # Len(sent)
  BY <1>1, UnreadFacts
<1>3. d < Len(sent)
  BY <1>1, <1>2, LenProperties
<1> QED
  BY <1>1, <1>2, <1>3, UnreadFacts DEF Where, ParserAt

\* Reading on within a message, and to its end
LEMMA Onward ==
  ASSUME StreamTypes, NEW d, NEW n, Where(d, n), NEW k \in 1 .. Len(rx), d < Len(sent),
         n + k <= Len(Wire(sent[d + 1])),
         rx' = SubSeq(rx, k + 1, Len(rx)), sent' = sent
  PROVE  /\ n + k < Len(Wire(sent[d + 1])) /\ Parsed(sent[d + 1], n + k)' /\ frames' = frames
              => Where(d, n + k)'
         /\ n + k = Len(Wire(sent[d + 1])) /\ Between' /\ FramesOf(frames', sent, d + 1)
              => Where(d + 1, 0)'
<1>1. rx \in Seq(Byte) /\ sent \in Seq(Messages) /\ Unread(rx, sent, d, n)
  BY DEF StreamTypes, Where
<1>2. d \in Nat /\ d + 1 \in 1 .. Len(sent) /\ d # Len(sent)
  BY <1>1, UnreadFacts
<1>3. ASSUME n + k < Len(Wire(sent[d + 1])), Parsed(sent[d + 1], n + k)', frames' = frames
      PROVE  Where(d, n + k)'
  <2>1. Unread(rx', sent', d, n + k)
    BY <1>1, <1>3, UnreadAdvances
  <2>2. ParserAt(d, n + k)'
    BY <1>2, <1>3 DEF ParserAt
  <2>3. FramesOf(frames', sent', d)
    BY <1>3 DEF Where
  <2> QED
    BY <2>1, <2>2, <2>3 DEF Where
<1>4. ASSUME n + k = Len(Wire(sent[d + 1])), Between', FramesOf(frames', sent, d + 1)
      PROVE  Where(d + 1, 0)'
  <2>1. Unread(rx', sent', d + 1, 0)
    BY <1>1, <1>4, UnreadAdvances
  <2>2. ParserAt(d + 1, 0)'
    <3>1. ASSUME d + 1 # Len(sent')
          PROVE  Parsed(sent[d + 1 + 1], 0)'
      BY <1>4 DEF Parsed
    <3> QED
      BY <1>4, <3>1 DEF ParserAt
  <2> QED
    BY <1>4, <2>1, <2>2 DEF Where
<1> QED
  BY <1>3, <1>4

\* A byte of a line
LEMMA LineReads ==
  ASSUME StreamTypes, NEW d, NEW n, Where(d, n), rx # <<>>, ~isBinaryRx,
         NEW m, m = sent[d + 1]
  PROVE  /\ n \in 0 .. Len(m.line) + 1
         /\ header = <<>> /\ binaryRx = Flush
         /\ n = 0 => Head(rx) = EOL /\ line = <<>>
         /\ n > 0 => line = Kept(SubSeq(m.line, 1, n - 1))
         /\ n \in 1 .. Len(m.line) => /\ Head(rx) = m.line[n]
                                      /\ Head(rx) \notin {SOH, EOL}
         /\ n = Len(m.line) + 1 => Head(rx) = IF m.isBinary THEN SOH ELSE EOL
         /\ Head(rx) \in Byte
<1> DEFINE l == Len(m.line)
<1>1. /\ d \in Nat /\ d < Len(sent) /\ n \in Nat /\ m \in Messages
      /\ Parsed(m, n) /\ n < Len(Wire(m))
  BY Reads
<1>2. l \in Nat /\ m.isBinary \in BOOLEAN
  BY <1>1, MessageFacts
<1>3. rx \in Seq(Byte) /\ sent \in Seq(Messages) /\ Unread(rx, sent, d, n)
  BY DEF StreamTypes, Where
<1>4. Head(rx) \in Byte /\ Head(rx) = rx[1] /\ 1 \in 1 .. Len(rx)
  BY <1>3, OneByte
<1>5. Head(rx) = Wire(m)[n + 1]
  <2>1. Len(Wire(m)) \in Nat
    BY <1>1, WireIsNotEmpty
  <2>2. \A k \in 1 .. Len(rx) : n + k <= Len(Wire(m)) => rx[k] = Wire(m)[n + k]
    BY <1>1, <1>3, UnreadFacts
  <2>3. n + 1 <= Len(Wire(m))
    BY <1>1, <2>1
  <2> QED
    BY <1>4, <2>2, <2>3
<1>6. /\ Wire(m)[1] = EOL
      /\ \A i \in 1 .. l : Wire(m)[i + 1] = m.line[i]
      /\ Wire(m)[l + 2] = IF m.isBinary THEN SOH ELSE EOL
      /\ \A i \in 1 .. l : m.line[i] \notin {SOH, EOL}
  BY <1>1, WireFacts, MessageFacts
<1>7. /\ n = 0 => Between
      /\ n \in 1 .. l + 1 => /\ ~isBinaryRx /\ header = <<>> /\ binaryRx = Flush
                             /\ line = Kept(SubSeq(m.line, 1, n - 1))
      /\ n > l + 1 => isBinaryRx
  BY <1>1 DEF Parsed
<1> HIDE DEF l
<1>8. n \in 0 .. l + 1
  BY <1>1, <1>2, <1>7
<1>9. /\ header = <<>> /\ binaryRx = Flush
      /\ n = 0 => line = <<>>
      /\ n > 0 => line = Kept(SubSeq(m.line, 1, n - 1))
  <2>1. n = 0 \/ n \in 1 .. l + 1
    BY <1>2, <1>8
  <2> QED
    BY <1>7, <2>1 DEF Between
<1>10. /\ n = 0 => Head(rx) = EOL
       /\ n \in 1 .. l => Head(rx) = m.line[n] /\ Head(rx) \notin {SOH, EOL}
       /\ n = l + 1 => Head(rx) = IF m.isBinary THEN SOH ELSE EOL
  <2>1. n = l + 1 => n + 1 = l + 2
    BY <1>2
  <2> QED
    BY <1>1, <1>5, <1>6, <2>1
<1> QED
  BY <1>4, <1>8, <1>9, <1>10 DEF l

\* How long messages are, counted from their lines
LEMMA LineLengths ==
  ASSUME NEW m \in Messages
  PROVE  /\ Len(m.line) \in Nat /\ Len(Wire(m)) \in Nat
         /\ m.isBinary => Len(Wire(m)) >= Len(m.line) + 4
         /\ ~m.isBinary => Len(Wire(m)) = Len(m.line) + 2
         /\ Len(Wire(m)) >= Len(m.line) + 2
<1> DEFINE l == Len(m.line)
           p == Len(m.payload)
           w == Len(Wire(m))
<1>1. l \in Nat /\ p \in Nat
  BY MessageFacts
<1>2. w = l + (IF m.isBinary THEN 4 + p ELSE 2)
  BY WireFacts
<1> HIDE DEF l, p, w
<1>3. m.isBinary => w = l + (4 + p)
  BY <1>2
<1>4. ~m.isBinary => w = l + 2
  BY <1>2
<1>5. /\ w \in Nat
      /\ m.isBinary => w >= l + 4
      /\ w >= l + 2
  BY <1>1, <1>3, <1>4
<1> QED
  BY <1>1, <1>4, <1>5 DEF l, w

\* The first bytes of a line, and one more
LEMMA LinePart ==
  ASSUME NEW s \in Seq(Byte), NEW n \in 1 .. Len(s)
  PROVE  /\ SubSeq(s, 1, n - 1) \in Seq(Byte)
         /\ SubSeq(s, 1, n) = Append(SubSeq(s, 1, n - 1), s[n])
         /\ s[n] \in Byte
<1>1. Len(s) \in Nat /\ n \in Nat /\ n - 1 \in Int /\ s[n] \in Byte
  BY LenProperties, ElementOfSeq
<1>2. SubSeq(s, 1, n - 1) \in Seq(Byte)
  <2>1. \A i \in 1 .. n - 1 : i \in 1 .. Len(s)
    BY <1>1
  <2>2. \A i \in 1 .. n - 1 : s[i] \in Byte
    BY <2>1, ElementOfSeq
  <2> QED
    BY <1>1, <2>2, SubSeqProperties
<1>3. SubSeq(s, 1, n) = SubSeq(s, 1, n - 1) \o <<s[n]>>
  <2>1. 1 \in 1 .. Len(s) /\ n \in 1 .. Len(s)
    BY <1>1
  <2> QED
    BY <2>1, SubSeqRecursiveSecond
<1> QED
  BY <1>1, <1>2, <1>3, AppendIsConcat

\* A character is the next one of the line that was sent.
LEMMA CharacterRead ==
  ASSUME StreamTypes, NEW d, NEW n, Where(d, n), ReadCharacter
  PROVE  Where(d, n + 1)' /\ d < Len(sent)
<1> DEFINE m == sent[d + 1]
           l == Len(m.line)
<1>1. rx # <<>> /\ ~isBinaryRx /\ Head(rx) \notin {SOH, EOL}
  BY DEF ReadCharacter
<1>2. /\ d \in Nat /\ d < Len(sent) /\ n \in Nat /\ m \in Messages
      /\ Parsed(m, n) /\ n < Len(Wire(m))
  BY <1>1, Reads
<1>3. l \in Nat /\ m.line \in Seq(Byte)
  BY <1>2, MessageFacts
<1>4. /\ n \in 0 .. l + 1
      /\ header = <<>> /\ binaryRx = Flush
      /\ n = 0 => Head(rx) = EOL /\ line = <<>>
      /\ n > 0 => line = Kept(SubSeq(m.line, 1, n - 1))
      /\ n \in 1 .. l => Head(rx) = m.line[n]
      /\ n = l + 1 => Head(rx) = IF m.isBinary THEN SOH ELSE EOL
      /\ Head(rx) \in Byte
  BY <1>1, LineReads
<1>5. n \in 1 .. l
  <2>1. n # 0 /\ n # l + 1
    BY <1>1, <1>4
  <2> QED
    BY <1>3, <1>4, <2>1
<1>6. /\ Head(rx) \notin Printable => Kept(SubSeq(m.line, 1, n)) = line
      /\ Head(rx) \in Printable => Kept(SubSeq(m.line, 1, n)) =
           IF Len(line) + 1 = RxBufferLen THEN <<>> ELSE Append(line, Head(rx))
  <2>1. SubSeq(m.line, 1, n - 1) \in Seq(Byte) /\ m.line[n] \in Byte
        /\ SubSeq(m.line, 1, n) = Append(SubSeq(m.line, 1, n - 1), m.line[n])
    BY <1>3, <1>5, LinePart
  <2>2. line = Kept(SubSeq(m.line, 1, n - 1)) /\ Head(rx) = m.line[n]
    BY <1>3, <1>4, <1>5
  <2> QED
    BY <2>1, <2>2, KeptAppend
<1>7. line' = Kept(SubSeq(m.line, 1, n))
  <2>1. /\ Head(rx) \in Printable => Store(Head(rx))
        /\ Head(rx) \notin Printable => line' = line
    BY DEF ReadCharacter
  <2>2. Head(rx) \in Printable =>
          line' = IF Len(line) + 1 = RxBufferLen THEN <<>> ELSE Append(line, Head(rx))
    BY <2>1 DEF Store
  <2>3. CASE Head(rx) \in Printable
    <3>1. line' = IF Len(line) + 1 = RxBufferLen THEN <<>> ELSE Append(line, Head(rx))
      BY <2>2, <2>3
    <3>2. Kept(SubSeq(m.line, 1, n)) =
            IF Len(line) + 1 = RxBufferLen THEN <<>> ELSE Append(line, Head(rx))
      BY <1>6, <2>3
    <3> QED
      BY <3>1, <3>2
  <2>4. CASE Head(rx) \notin Printable
    BY <1>6, <2>1, <2>4
  <2> QED
    BY <2>3, <2>4
<1>8. /\ sent' = sent /\ frames' = frames /\ rx' = Tail(rx)
      /\ UNCHANGED <<isBinaryRx, header, binaryRx>>
  BY DEF ReadCharacter
<1>9. Parsed(m, n + 1)'
  <2>1. /\ n + 1 # 0 /\ n + 1 \in 1 .. l + 1 /\ ~(n + 1 > l + 1) /\ ~(n + 1 > l + 3)
        /\ n + 1 \notin l + 2 .. l + 3 /\ (n + 1) - 1 = n
    BY <1>3, <1>5
  <2>2. m' = m
    BY <1>8
  <2>3. ~isBinaryRx' /\ header' = <<>> /\ binaryRx' = Flush
    BY <1>1, <1>4, <1>8
  <2> HIDE DEF m
  <2> QED
    BY <1>7, <2>1, <2>2, <2>3 DEF Parsed
<1>10. /\ rx' = SubSeq(rx, 1 + 1, Len(rx)) /\ 1 \in 1 .. Len(rx)
       /\ n + 1 < Len(Wire(m)) /\ n + 1 <= Len(Wire(m))
  <2>1. Len(Wire(m)) \in Nat /\ Len(Wire(m)) >= l + 2
    BY <1>2, LineLengths
  <2>2. n + 1 < Len(Wire(m)) /\ n + 1 <= Len(Wire(m))
    <3> HIDE DEF m, l
    <3> QED
      BY <1>3, <1>5, <2>1
  <2> QED
    BY <1>1, <1>8, <2>2, OneByte DEF StreamTypes
<1> QED
  BY <1>2, <1>8, <1>9, <1>10, Onward

\* An end of line is the first byte of a message or the last one, with all of
\* the line between them.
LEMMA LineEndRead ==
  ASSUME StreamTypes, NEW d, NEW n, Where(d, n), ReadEndOfLine
  PROVE  /\ d < Len(sent) /\ sent[d + 1] \in Messages
         /\ \/ n = 0 /\ Where(d, 1)' /\ line = <<>>
            \/ /\ ~sent[d + 1].isBinary /\ line = Kept(sent[d + 1].line)
               /\ Where(d + 1, 0)'
<1> DEFINE m == sent[d + 1]
           l == Len(m.line)
<1>1. rx # <<>> /\ ~isBinaryRx /\ Head(rx) = EOL
  BY DEF ReadEndOfLine
<1>2. /\ d \in Nat /\ d < Len(sent) /\ n \in Nat /\ m \in Messages
      /\ Parsed(m, n) /\ n < Len(Wire(m))
  BY <1>1, Reads
<1>3. l \in Nat /\ m.line \in Seq(Byte)
  BY <1>2, MessageFacts
<1>4. /\ n \in 0 .. l + 1
      /\ header = <<>> /\ binaryRx = Flush
      /\ n = 0 => line = <<>>
      /\ n > 0 => line = Kept(SubSeq(m.line, 1, n - 1))
      /\ n \in 1 .. l => Head(rx) # EOL
      /\ n = l + 1 => Head(rx) = IF m.isBinary THEN SOH ELSE EOL
  BY <1>1, LineReads
<1>5. /\ sent' = sent /\ rx' = Tail(rx) /\ line' = <<>>
      /\ UNCHANGED <<isBinaryRx, header, binaryRx>>
  BY DEF ReadEndOfLine
<1>6. PICK kind \in Kinds(line) :
        frames' = IF line = <<>> THEN frames ELSE Append(frames, Frame(kind, line, 0, Flush))
  BY DEF ReadEndOfLine
<1>7. Between'
  BY <1>1, <1>4, <1>5 DEF Between
<1>8. rx' = SubSeq(rx, 1 + 1, Len(rx)) /\ 1 \in 1 .. Len(rx)
  BY <1>1, <1>5, OneByte DEF StreamTypes
<1>9. Len(Wire(m)) \in Nat /\ Len(Wire(m)) >= l + 2 /\ (~m.isBinary => Len(Wire(m)) = l + 2)
  BY <1>2, LineLengths
<1>10. n = 0 \/ (n = l + 1 /\ ~m.isBinary)
  <2>1. n = 0 \/ n = l + 1
    BY <1>1, <1>3, <1>4
  <2>2. n = l + 1 => ~m.isBinary
    BY <1>1, <1>4 DEF SOH, EOL
  <2> QED
    BY <2>1, <2>2
<1>11. CASE n = 0
  <2>1. line = <<>> /\ frames' = frames
    BY <1>4, <1>6, <1>11
  <2>2. Parsed(m, 1)'
    <3>1. /\ 1 # 0 /\ 1 \in 1 .. l + 1 /\ ~(1 > l + 1) /\ ~(1 > l + 3)
          /\ 1 \notin l + 2 .. l + 3 /\ 1 - 1 = 0
      BY <1>3
    <3>2. m' = m
      BY <1>5
    <3>3. SubSeq(m.line, 1, 0) = <<>>
      BY SubSeqEmpty
    <3>4. line' = Kept(SubSeq(m.line, 1, 0))
      BY <1>5, <3>3, KeptNothing
    <3> HIDE DEF m
    <3> QED
      BY <1>7, <3>1, <3>2, <3>4 DEF Parsed, Between
  <2>3. 0 + 1 < Len(Wire(m)) /\ 0 + 1 <= Len(Wire(m)) /\ 0 + 1 = 1
    <3> HIDE DEF m, l
    <3> QED
      BY <1>3, <1>9
  <2>4. Where(d, 1)'
    BY <1>2, <1>5, <1>8, <1>11, <2>1, <2>2, <2>3, Onward
  <2> QED
    BY <1>2, <1>11, <2>1, <2>4
<1>12. CASE n = l + 1 /\ ~m.isBinary
  <2>1. line = Kept(m.line)
    <3>1. n > 0 /\ n - 1 = l
      BY <1>3, <1>12
    <3>2. SubSeq(m.line, 1, l) = m.line
      BY <1>3, SubSeqFull
    <3> QED
      BY <1>4, <3>1, <3>2
  <2>2. n + 1 = Len(Wire(m)) /\ n + 1 <= Len(Wire(m))
    <3> HIDE DEF m, l
    <3> QED
      BY <1>2, <1>3, <1>9, <1>12
  <2>3. /\ frames \in Seq(Frames) /\ sent \in Seq(Messages) /\ line \in Seq(Byte)
        /\ FramesOf(frames, sent, d)
    BY DEF StreamTypes, Where
  <2>4. FramesOf(frames', sent, d + 1)
    <3>1. CASE line = <<>>
      <4>1. ~HasFrame(m)
        BY <1>12, <2>1, <3>1 DEF HasFrame
      <4> QED
        BY <1>2, <1>6, <2>3, <3>1, <4>1, FrameAdded
    <3>2. CASE line # <<>>
      <4> DEFINE f == Frame(kind, line, 0, Flush)
      <4>1. kind \in {"rsp", "status", "urc", "dropped", "unexpected"}
        BY KindFacts
      <4>2. f \in Frames
        <5>1. kind \in FrameKinds
          BY <4>1 DEF FrameKinds
        <5> QED
          BY <2>3, <5>1, FrameTypes, FlushFacts
      <4>3. Len(m.payload) = 0
        BY <1>2, <1>12, MessageFacts
      <4>4. f.kind = kind /\ f.line = line /\ f.length = 0
        BY DEF Frame
      <4>5. FrameOf(f, m)
        BY <2>1, <4>1, <4>3, <4>4 DEF FrameOf
      <4>6. HasFrame(m)
        BY <2>1, <3>2 DEF HasFrame
      <4>7. frames' = Append(frames, f)
        BY <1>6, <3>2
      <4> QED
        BY <1>2, <2>3, <4>2, <4>5, <4>6, <4>7, FrameAdded
    <3> QED
      BY <3>1, <3>2
  <2>5. Where(d + 1, 0)'
    BY <1>2, <1>5, <1>7, <1>8, <2>2, <2>4, Onward
  <2> QED
    BY <1>2, <1>12, <2>1, <2>5
<1> QED
  BY <1>10, <1>11, <1>12

\* An SOH comes behind the line of a message with data, and nowhere else.
LEMMA SOHRead ==
  ASSUME StreamTypes, NEW d, NEW n, Where(d, n), ReadSOH
  PROVE  Where(d, n + 1)' /\ d < Len(sent)
<1> DEFINE m == sent[d + 1]
           l == Len(m.line)
<1>1. rx # <<>> /\ ~isBinaryRx /\ Head(rx) = SOH
  BY DEF ReadSOH
<1>2. /\ d \in Nat /\ d < Len(sent) /\ n \in Nat /\ m \in Messages
      /\ Parsed(m, n) /\ n < Len(Wire(m))
  BY <1>1, Reads
<1>3. l \in Nat /\ m.line \in Seq(Byte)
  BY <1>2, MessageFacts
<1>4. /\ n \in 0 .. l + 1
      /\ header = <<>> /\ binaryRx = Flush
      /\ n = 0 => Head(rx) = EOL
      /\ n > 0 => line = Kept(SubSeq(m.line, 1, n - 1))
      /\ n \in 1 .. l => Head(rx) # SOH
      /\ n = l + 1 => Head(rx) = IF m.isBinary THEN SOH ELSE EOL
  BY <1>1, LineReads
<1>5. /\ sent' = sent /\ rx' = Tail(rx) /\ isBinaryRx' = TRUE /\ frames' = frames
      /\ UNCHANGED <<line, header, binaryRx>>
  BY DEF ReadSOH
<1>6. n = l + 1 /\ m.isBinary
  <2>1. n # 0
    BY <1>1, <1>4 DEF SOH, EOL
  <2>2. n = l + 1
    BY <1>1, <1>3, <1>4, <2>1
  <2> QED
    BY <1>1, <1>4, <2>2 DEF SOH, EOL
<1>7. rx' = SubSeq(rx, 1 + 1, Len(rx)) /\ 1 \in 1 .. Len(rx)
  BY <1>1, <1>5, OneByte DEF StreamTypes
<1>8. n + 1 < Len(Wire(m)) /\ n + 1 <= Len(Wire(m))
  <2>1. Len(Wire(m)) \in Nat /\ (m.isBinary => Len(Wire(m)) >= l + 4)
    BY <1>2, LineLengths
  <2> HIDE DEF m, l
  <2> QED
    BY <1>2, <1>3, <1>6, <2>1
<1>9. line = Kept(m.line)
  <2>1. n > 0 /\ n - 1 = l
    BY <1>3, <1>6
  <2>2. SubSeq(m.line, 1, l) = m.line
    BY <1>3, SubSeqFull
  <2> QED
    BY <1>4, <2>1, <2>2
<1>10. Parsed(m, n + 1)'
  <2>1. /\ n + 1 # 0 /\ n + 1 \notin 1 .. l + 1 /\ ~(n + 1 > l + 3)
        /\ (n + 1) - l - 2 = 0
    BY <1>3, <1>6
  <2>2. m' = m
    BY <1>5
  <2>3. SubSeq(LengthBytes(m), 1, 0) = <<>>
    BY SubSeqEmpty
  <2>4. header' = SubSeq(LengthBytes(m), 1, (n + 1) - l - 2)
    BY <1>4, <1>5, <2>1, <2>3
  <2>5. isBinaryRx' /\ m.isBinary /\ binaryRx' = Flush /\ line' = Kept(m.line)
    BY <1>4, <1>5, <1>6, <1>9
  <2> HIDE DEF m
  <2> QED
    BY <2>1, <2>2, <2>4, <2>5 DEF Parsed
<1> QED
  BY <1>2, <1>5, <1>7, <1>8, <1>10, Onward

\* A byte of the length or the data
LEMMA BinaryReads ==
  ASSUME StreamTypes, NEW d, NEW n, Where(d, n), rx # <<>>, isBinaryRx,
         NEW m, m = sent[d + 1]
  PROVE  /\ m \in Messages /\ m.isBinary /\ n \in Nat /\ Len(m.line) \in Nat
         /\ Len(header) < 2 =>
              /\ n \in Len(m.line) + 2 .. Len(m.line) + 3
              /\ Len(header) = n - Len(m.line) - 2
              /\ header = SubSeq(LengthBytes(m), 1, n - Len(m.line) - 2)
              /\ binaryRx = Flush /\ line = Kept(m.line)
         /\ Len(header) >= 2 =>
              /\ n - Len(m.line) - 4 \in Nat
              /\ header = LengthBytes(m) /\ line = <<>>
              /\ Transfer(m, n - Len(m.line) - 4)
<1> DEFINE l == Len(m.line)
<1>1. m \in Messages /\ Parsed(m, n) /\ n \in Nat
  BY Reads
<1>2. l \in Nat
  BY <1>1, MessageFacts
<1>3. /\ n = 0 => Between
      /\ n \in 1 .. l + 1 => ~isBinaryRx
      /\ n > l + 1 => m.isBinary
      /\ n \in l + 2 .. l + 3 => /\ header = SubSeq(LengthBytes(m), 1, n - l - 2)
                                 /\ binaryRx = Flush /\ line = Kept(m.line)
      /\ n > l + 3 => /\ header = LengthBytes(m) /\ line = <<>>
                      /\ Transfer(m, n - l - 4)
  BY <1>1 DEF Parsed
<1>4. LengthBytes(m) \in Seq(Byte) /\ Len(LengthBytes(m)) = 2
  BY <1>1, LengthFacts
<1> HIDE DEF l
<1>5. n > l + 1
  <2>1. n # 0 /\ n \notin 1 .. l + 1
    BY <1>3 DEF Between
  <2> QED
    BY <1>1, <1>2, <2>1
<1>6. CASE n \in l + 2 .. l + 3
  <2> DEFINE j == n - l - 2
  <2>1. j \in {0, 1}
    BY <1>2, <1>6
  <2>2. header = SubSeq(LengthBytes(m), 1, j)
    BY <1>3, <1>6
  <2> HIDE DEF j
  <2>3. Len(header) = j
    <3>1. CASE j = 0
      <4>1. header = <<>>
        BY <2>2, <3>1, SubSeqEmpty
      <4> QED
        BY <3>1, <4>1, EmptySeq
    <3>2. CASE j = 1
      BY <1>4, <2>2, <3>2, FirstBytes
    <3> QED
      BY <2>1, <3>1, <3>2
  <2>4. Len(header) < 2 /\ ~(Len(header) >= 2)
    BY <2>1, <2>3
  <2> QED
    BY <1>1, <1>2, <1>3, <1>5, <1>6, <2>2, <2>3, <2>4 DEF j, l
<1>7. CASE n > l + 3
  <2>1. header = LengthBytes(m) /\ Len(header) = 2 /\ ~(Len(header) < 2)
    <3>1. header = LengthBytes(m)
      BY <1>3, <1>7
    <3>2. Len(header) = 2
      BY <1>4, <3>1
    <3> QED
      BY <3>1, <3>2
  <2>2. n - l - 4 \in Nat
    BY <1>1, <1>2, <1>7
  <2> QED
    BY <1>1, <1>2, <1>3, <1>5, <1>7, <2>1, <2>2 DEF l
<1>8. n \in l + 2 .. l + 3 \/ n > l + 3
  BY <1>1, <1>2, <1>5
<1> QED
  BY <1>6, <1>7, <1>8

\* The data in a message
LEMMA LengthsOfData ==
  ASSUME NEW m \in Messages, m.isBinary
  PROVE  Len(Wire(m)) = Len(m.line) + 4 + Len(m.payload)
<1>1. Len(m.line) \in Nat /\ Len(m.payload) \in Nat
  BY MessageFacts
<1>2. Len(Wire(m)) = Len(m.line) + (4 + Len(m.payload))
  BY WireFacts
<1> DEFINE l == Len(m.line)
           p == Len(m.payload)
<1>3. l \in Nat /\ p \in Nat
  BY <1>1
<1> HIDE DEF l, p
<1>4. l + (4 + p) = l + 4 + p
  BY <1>3
<1> QED
  BY <1>2, <1>4 DEF l, p

\* The bytes of the length are those that were sent.
LEMMA HeaderGrows ==
  ASSUME StreamTypes, NEW d, NEW n, Where(d, n), rx # <<>>, isBinaryRx, Len(header) < 2,
         NEW k \in 1 .. Len(rx), k <= 2 - Len(header)
  PROVE  /\ n + k <= Len(sent[d + 1].line) + 4
         /\ n + k - Len(sent[d + 1].line) - 2 = Len(HeaderBytes(k))
         /\ HeaderBytes(k) = SubSeq(LengthBytes(sent[d + 1]), 1,
                                    n + k - Len(sent[d + 1].line) - 2)
<1> DEFINE m == sent[d + 1]
           l == Len(m.line)
           h == Len(header)
           b == HeaderBytes(k)
           s == LengthBytes(m)
<1>1. /\ m \in Messages /\ m.isBinary /\ n \in Nat /\ l \in Nat
      /\ n \in l + 2 .. l + 3 /\ h = n - l - 2 /\ header = SubSeq(s, 1, n - l - 2)
  BY BinaryReads
<1>2. h \in Nat /\ h <= 1 /\ n = l + 2 + h /\ k \in Nat /\ k >= 1 /\ h + k <= 2
  <2>1. k \in Nat /\ k >= 1 /\ k <= 2 - h
    OBVIOUS
  <2>2. n \in Nat /\ l \in Nat /\ n \in l + 2 .. l + 3 /\ h = n - l - 2
    BY <1>1
  <2> HIDE DEF l, h
  <2> QED
    BY <2>1, <2>2
<1>3. /\ s \in Seq(Byte) /\ Len(s) = 2
      /\ s[1] = s[1] /\ Wire(m)[l + 3] = s[1] /\ Wire(m)[l + 4] = s[2]
  BY <1>1, LengthFacts, WireFacts
<1>4. rx \in Seq(Byte) /\ header \in Seq(Byte) /\ sent \in Seq(Messages) /\ Unread(rx, sent, d, n)
  BY DEF StreamTypes, Where
<1>5. SubSeq(rx, 1, k) \in Seq(Byte) /\ Len(SubSeq(rx, 1, k)) = k
      /\ \A i \in 1 .. k : SubSeq(rx, 1, k)[i] = rx[i]
  BY <1>4, FirstBytes
<1>6. /\ b \in Seq(Byte) /\ Len(b) = h + k
      /\ \A i \in 1 .. h + k : b[i] = IF i <= h THEN header[i] ELSE SubSeq(rx, 1, k)[i - h]
  BY <1>4, <1>5, ConcatProperties DEF HeaderBytes
<1>7. Len(Wire(m)) \in Nat /\ Len(Wire(m)) >= l + 4
  BY <1>1, LineLengths
<1>8. \A i \in 1 .. Len(rx) : n + i <= Len(Wire(m)) => rx[i] = Wire(m)[n + i]
  <2>1. d < Len(sent)
    BY Reads
  <2> QED
    BY <1>4, <2>1, UnreadFacts
<1> HIDE DEF l, h, b
<1>9. \A i \in 1 .. k : rx[i] = s[h + i]
  <2> TAKE i \in 1 .. k
  <2>1. i \in 1 .. Len(rx) /\ n + i <= Len(Wire(m)) /\ n + i = l + 2 + (h + i)
        /\ h + i \in {1, 2}
    <3>1. Len(rx) \in Nat
      BY <1>4, LenProperties
    <3> QED
      BY <1>1, <1>2, <1>7, <3>1
  <2>2. rx[i] = Wire(m)[l + 2 + (h + i)]
    BY <1>8, <2>1
  <2>3. CASE h + i = 1
    <3>1. l + 2 + (h + i) = l + 3
      BY <1>1, <2>3
    <3> QED
      BY <1>3, <2>2, <2>3, <3>1
  <2>4. CASE h + i = 2
    <3>1. l + 2 + (h + i) = l + 4
      BY <1>1, <2>4
    <3> QED
      BY <1>3, <2>2, <2>4, <3>1
  <2> QED
    BY <2>1, <2>3, <2>4
<1>10. h = 1 => header[1] = s[1]
  <2>1. h = 1 => header = SubSeq(s, 1, 1)
    BY <1>1
  <2>2. 1 \in 1 .. Len(s)
    BY <1>3
  <2>3. SubSeq(s, 1, 1)[1] = s[1]
    BY <1>3, <2>2, FirstBytes
  <2> QED
    BY <2>1, <2>3
<1>11. \A i \in 1 .. h + k : b[i] = s[i]
  <2> TAKE i \in 1 .. h + k
  <2>1. CASE i <= h
    <3>1. h = 1 /\ i = 1
      BY <1>2, <2>1
    <3> QED
      BY <1>6, <1>10, <2>1, <3>1
  <2>2. CASE ~(i <= h)
    <3>1. i - h \in 1 .. k /\ h + (i - h) = i
      BY <1>2, <2>2
    <3>2. b[i] = SubSeq(rx, 1, k)[i - h]
      BY <1>6, <2>2
    <3> QED
      BY <1>5, <1>9, <3>1, <3>2
  <2> QED
    BY <2>1, <2>2
<1>12. b = SubSeq(s, 1, h + k)
  <2>1. h + k \in 1 .. Len(s)
    BY <1>2, <1>3
  <2>2. /\ SubSeq(s, 1, h + k) \in Seq(Byte) /\ Len(SubSeq(s, 1, h + k)) = h + k
        /\ \A i \in 1 .. h + k : SubSeq(s, 1, h + k)[i] = s[i]
    BY <1>3, <2>1, FirstBytes
  <2>3. \A i \in 1 .. Len(b) : b[i] = SubSeq(s, 1, h + k)[i]
    BY <1>6, <1>11, <2>2
  <2> QED
    BY <1>6, <2>2, <2>3, SeqEqual
<1>13. n + k <= l + 4 /\ n + k - l - 2 = h + k
  BY <1>1, <1>2
<1> QED
  BY <1>6, <1>12, <1>13 DEF l, b

\* One byte of the length is read, and the other one is not.
LEMMA HeaderPartRead ==
  ASSUME StreamTypes, NEW d, NEW n, Where(d, n), isBinaryRx, Len(header) < 2,
         NEW k \in 1 .. Len(rx), k <= 2 - Len(header),
         rx' = SubSeq(rx, k + 1, Len(rx)), sent' = sent,
         Len(HeaderBytes(k)) < 2, HeaderPart(k)
  PROVE  Where(d, n + k)'
<1> DEFINE m == sent[d + 1]
           l == Len(m.line)
           h == Len(HeaderBytes(k))
<1>1. rx # <<>>
  BY FirstBytes DEF StreamTypes
<1>2. d \in Nat /\ d < Len(sent)
  BY <1>1, Reads
<1>3. /\ m \in Messages /\ m.isBinary /\ n \in Nat /\ l \in Nat
      /\ n \in l + 2 .. l + 3
      /\ binaryRx = Flush /\ line = Kept(m.line)
  BY <1>1, BinaryReads
<1>4. /\ n + k <= l + 4 /\ n + k - l - 2 = h
      /\ HeaderBytes(k) = SubSeq(LengthBytes(m), 1, n + k - l - 2)
  BY <1>1, HeaderGrows
<1>5. Len(Wire(m)) \in Nat /\ Len(Wire(m)) >= l + 4
  BY <1>3, LineLengths
<1>6. k \in Nat /\ k >= 1 /\ h < 2
  OBVIOUS
<1>7. /\ n + k # 0 /\ n + k \notin 1 .. l + 1 /\ n + k \in l + 2 .. l + 3 /\ ~(n + k > l + 3)
      /\ n + k < Len(Wire(m)) /\ n + k <= Len(Wire(m))
  <2> HIDE DEF m, l, h
  <2> QED
    BY <1>3, <1>4, <1>5, <1>6
<1>8. /\ header' = HeaderBytes(k) /\ frames' = frames
      /\ UNCHANGED <<line, isBinaryRx, binaryRx>>
  BY DEF HeaderPart
<1>9. Parsed(m, n + k)'
  <2>1. isBinaryRx' /\ binaryRx' = Flush /\ line' = Kept(m.line)
        /\ header' = SubSeq(LengthBytes(m), 1, n + k - l - 2)
    BY <1>3, <1>4, <1>8
  <2>2. m' = m
    OBVIOUS
  <2>3. n + k - l - 2 = (n + k) - l - 2
    BY <1>3, <1>6
  <2> HIDE DEF m
  <2> QED
    BY <1>3, <1>7, <2>1, <2>2, <2>3 DEF Parsed
<1> QED
  BY <1>2, <1>7, <1>8, <1>9, Onward

\* The length is read: without data the message is over, with data the transfer
\* begins.
LEMMA HeaderWholeRead ==
  ASSUME Types, NEW d, NEW n, Where(d, n), isBinaryRx, Len(header) < 2,
         NEW k \in 1 .. Len(rx), k <= 2 - Len(header),
         rx' = SubSeq(rx, k + 1, Len(rx)), sent' = sent,
         Len(HeaderBytes(k)) = 2,
         NEW kind \in Kinds(line), NEW room \in PayloadRooms, HeaderWhole(k, kind, room)
  PROVE  /\ Length(HeaderBytes(k)) = 0 => Where(d + 1, 0)'
         /\ Length(HeaderBytes(k)) # 0 => Where(d, n + k)'
<1> DEFINE m == sent[d + 1]
           l == Len(m.line)
           h == Len(HeaderBytes(k))
           size == Length(HeaderBytes(k))
           u == Begun(kind, size, room)
<1>1. rx # <<>> /\ StreamTypes
  BY FirstBytes DEF Types, StreamTypes
<1>2. d \in Nat /\ d < Len(sent)
  BY <1>1, Reads
<1>3. /\ m \in Messages /\ m.isBinary /\ n \in Nat /\ l \in Nat
      /\ n \in l + 2 .. l + 3
      /\ binaryRx = Flush /\ line = Kept(m.line)
  BY <1>1, BinaryReads
<1>4. /\ n + k <= l + 4 /\ n + k - l - 2 = h
      /\ HeaderBytes(k) = SubSeq(LengthBytes(m), 1, n + k - l - 2)
  BY <1>1, HeaderGrows
<1>5. Len(m.payload) \in Nat /\ Len(Wire(m)) = l + 4 + Len(m.payload)
  <2>1. Len(m.payload) \in Nat
    BY <1>3, MessageFacts
  <2>2. Len(Wire(m)) = Len(m.line) + 4 + Len(m.payload)
    BY <1>3, LengthsOfData
  <2> QED
    BY <2>1, <2>2
<1>6. k \in Nat /\ k >= 1 /\ h = 2
  OBVIOUS
<1>7. /\ n + k = l + 4 /\ n + k - l - 2 = 2
      /\ n + k # 0 /\ n + k \notin 1 .. l + 1 /\ n + k \notin l + 2 .. l + 3 /\ n + k > l + 3
      /\ n + k > l + 1 /\ (n + k) - l - 4 = 0
  <2> HIDE DEF m, l, h
  <2> QED
    BY <1>3, <1>4, <1>6
<1>8. HeaderBytes(k) = LengthBytes(m) /\ size = Len(m.payload)
  <2>1. LengthBytes(m) \in Seq(Byte) /\ Len(LengthBytes(m)) = 2
        /\ Length(LengthBytes(m)) = Len(m.payload)
    BY <1>3, LengthFacts
  <2>2. SubSeq(LengthBytes(m), 1, 2) = LengthBytes(m)
    BY <2>1, SubSeqFull
  <2> QED
    BY <1>4, <1>7, <2>1, <2>2
<1>9. /\ u \in Transfers /\ u.remaining = size /\ u.line = line /\ u.data = <<>>
      /\ u.bufferSize \in Nat
      /\ u.state = "URC" => u.bufferSize >= size
  BY <1>5, <1>8, BegunFacts
<1>10. line' = <<>>
  BY DEF HeaderWhole
<1>11. ASSUME size = 0
       PROVE  Where(d + 1, 0)'
  <2>1. Done(u, 0, line)
    BY <1>11 DEF HeaderWhole
  <2>2. Between'
    BY <1>10, <2>1 DEF Done, Between
  <2> DEFINE f == Frame(u.state, line, 0, u)
  <2>3. frames' = Append(frames, f)
    BY <2>1 DEF Done
  <2>4. line \in Seq(Byte) /\ frames \in Seq(Frames) /\ sent \in Seq(Messages)
        /\ FramesOf(frames, sent, d)
    BY DEF Types, StreamTypes, Where
  <2>5. f \in Frames
    <3>1. u.state \in FrameKinds
      BY <1>9 DEF Transfers, FrameKinds
    <3> HIDE DEF u
    <3> QED
      BY <1>9, <2>4, <3>1, FrameTypes
  <2>6. f.line = line /\ f.length = 0 /\ f.data = <<>> /\ f.room = u.bufferSize
    <3> HIDE DEF u
    <3> QED
      BY <1>9 DEF Frame
  <2>7. m.payload = <<>> /\ Len(m.payload) = 0
    <3>1. m.payload \in Seq(Byte)
      BY <1>3, MessageFacts
    <3> QED
      BY <1>8, <1>11, <3>1, EmptySeq
  <2>8. FrameOf(f, m)
    <3>1. Min({f.room, f.length}) = 0
      <4>1. u.bufferSize \in Int /\ u.bufferSize >= 0 /\ 0 \in Int
        BY <1>9
      <4>2. Min({u.bufferSize, 0}) = 0
        <5> HIDE DEF u
        <5> QED
          BY <4>1, MinOfTwo
      <4> HIDE DEF f, u
      <4> QED
        BY <2>6, <4>2
    <3>2. SubSeq(m.payload, 1, 0) = <<>>
      BY SubSeqEmpty
    <3> HIDE DEF f, u
    <3> QED
      BY <1>3, <2>6, <2>7, <3>1, <3>2 DEF FrameOf
  <2>9. HasFrame(m)
    BY <1>3 DEF HasFrame
  <2>10. FramesOf(frames', sent, d + 1)
    <3> HIDE DEF f
    <3> QED
      BY <1>2, <2>3, <2>4, <2>5, <2>8, <2>9, FrameAdded
  <2>11. n + k = Len(Wire(m)) /\ n + k <= Len(Wire(m))
    BY <1>3, <1>5, <1>7, <1>8, <1>11
  <2> QED
    BY <1>1, <1>2, <2>2, <2>10, <2>11, Onward
<1>12. ASSUME size # 0
       PROVE  Where(d, n + k)'
  <2>1. /\ header' = HeaderBytes(k) /\ binaryRx' = u
        /\ isBinaryRx' = isBinaryRx /\ frames' = frames
    BY <1>12 DEF HeaderWhole
  <2>2. Transfer(m, 0)'
    <3>1. Len(<<>>) = 0 /\ \A i \in 1 .. Len(<<>>) : FALSE
      OBVIOUS
    <3>2. m' = m /\ size - 0 = size /\ size > 0
      BY <1>5, <1>8, <1>12
    <3>3. /\ binaryRx'.line = Kept(m.line) /\ binaryRx'.remaining = Len(m.payload) - 0
          /\ binaryRx'.remaining > 0 /\ binaryRx'.data = <<>> /\ binaryRx'.bufferSize \in Nat
          /\ binaryRx'.state = "URC" => binaryRx'.bufferSize >= Len(m.payload)
      <4> HIDE DEF u, size
      <4> QED
        BY <1>3, <1>8, <1>9, <2>1, <3>2
    <3>4. Len(binaryRx'.data) = IF 0 < binaryRx'.bufferSize THEN 0 ELSE binaryRx'.bufferSize
      BY <3>1, <3>3
    <3>5. \A i \in 1 .. Len(binaryRx'.data) : binaryRx'.data[i] = m.payload[i]
      BY <3>1, <3>3
    <3> HIDE DEF m
    <3> QED
      BY <3>2, <3>3, <3>4, <3>5 DEF Transfer
  <2>3. Parsed(m, n + k)'
    <3>1. m' = m
      OBVIOUS
    <3>2. header' = LengthBytes(m) /\ isBinaryRx' /\ m.isBinary
      BY <1>3, <1>8, <2>1
    <3>3. Transfer(m, (n + k) - l - 4)'
      <4>1. (n + k) - l - 4 = 0
        BY <1>7
      <4>2. ((n + k) - l - 4)' = 0
        BY <4>1
      <4> HIDE DEF m, l
      <4> QED
        BY <2>2, <4>1, <4>2
    <3> HIDE DEF m
    <3> QED
      BY <1>7, <1>10, <3>1, <3>2, <3>3 DEF Parsed
  <2>4. n + k < Len(Wire(m)) /\ n + k <= Len(Wire(m))
    <3>1. Len(m.payload) > 0
      BY <1>5, <1>8, <1>12
    <3> DEFINE p == Len(m.payload)
               w == Len(Wire(m))
    <3>2. p \in Nat /\ p > 0 /\ w = l + 4 + p /\ n + k = l + 4 /\ l \in Nat
      BY <1>3, <1>5, <1>7, <3>1
    <3> HIDE DEF m, l, p, w
    <3>3. n + k < w /\ n + k <= w
      BY <3>2
    <3> QED
      BY <3>3 DEF w
  <2> QED
    BY <1>1, <1>2, <2>1, <2>3, <2>4, Onward
<1> QED
  BY <1>11, <1>12

\* The data is what was sent, as much as there is room for.
LEMMA DataGrows ==
  ASSUME StreamTypes, NEW d, NEW n, Where(d, n), rx # <<>>, isBinaryRx,
         Len(header) >= 2, NEW k \in 1 .. Len(rx), k <= ReadLen
  PROVE  LET m == sent[d + 1]
             got == n - Len(m.line) - 4
         IN  /\ got \in Nat /\ got + k <= Len(m.payload)
             /\ Received(k).remaining = Len(m.payload) - (got + k)
             /\ Received(k).line = Kept(m.line)
             /\ Received(k).state = "URC" => Received(k).bufferSize >= Len(m.payload)
             /\ Len(Received(k).data) = IF got + k < Received(k).bufferSize THEN got + k
                                        ELSE Received(k).bufferSize
             /\ \A i \in 1 .. Len(Received(k).data) : Received(k).data[i] = m.payload[i]
<1> DEFINE m == sent[d + 1]
           l == Len(m.line)
           got == n - l - 4
           p == Len(m.payload)
           left == binaryRx.remaining
           size == binaryRx.bufferSize
           data == binaryRx.data
           v == Received(k)
           bytes == SubSeq(rx, 1, k)
<1>1. m \in Messages /\ m.isBinary /\ n \in Nat /\ l \in Nat
  BY BinaryReads
<1>2. n - Len(m.line) - 4 \in Nat /\ Transfer(m, n - Len(m.line) - 4)
  BY BinaryReads
<1>3. got \in Nat /\ n = l + 4 + got /\ Transfer(m, got)
  <2>1. got \in Nat /\ Transfer(m, got)
    BY <1>2
  <2>2. n \in Nat /\ l \in Nat /\ got = n - l - 4
    BY <1>1
  <2> HIDE DEF l, got
  <2>3. n = l + 4 + got
    BY <2>1, <2>2
  <2> QED
    BY <2>1, <2>3
<1> HIDE DEF got
<1>4. p \in Nat /\ \A i \in 1 .. p : Wire(m)[l + 4 + i] = m.payload[i]
  <2>1. p \in Nat
    BY <1>1, MessageFacts
  <2>2. \A i \in 1 .. p : Wire(m)[l + 4 + i] = m.payload[i]
    BY <1>1, WireFacts
  <2> QED
    BY <2>1, <2>2
<1>5. Len(Wire(m)) = l + 4 + p
  BY <1>1, LengthsOfData
<1>6. /\ left \in Nat /\ size \in Nat /\ data \in Seq(Byte) /\ Len(data) \in Nat
      /\ RoomLeft = size - Len(data) /\ k \in Nat /\ k >= 1 /\ FlushLen \in Int
  BY TransferTypes, ParserAssumption
<1>7. /\ binaryRx.line = Kept(m.line) /\ left = p - got /\ left > 0
      /\ binaryRx.state = "URC" => size >= p
      /\ Len(data) = (IF got < size THEN got ELSE size)
      /\ \A i \in 1 .. Len(data) : data[i] = m.payload[i]
  BY <1>3 DEF Transfer
<1>8. k <= left /\ (RoomLeft > 0 => k <= RoomLeft)
  <2> DEFINE ask == IF RoomLeft > 0 THEN RoomLeft ELSE FlushLen
  <2>1. RoomLeft \in Int
    BY <1>6
  <2>2. ask \in Int /\ left \in Int /\ ReadLen = Min({left, ask})
    BY <1>6, <2>1 DEF ReadLen
  <2>3. RoomLeft > 0 => ask = RoomLeft
    OBVIOUS
  <2> HIDE DEF ask, left
  <2>4. ReadLen = IF left <= ask THEN left ELSE ask
    BY <2>2, MinOfTwo
  <2> QED
    BY <1>6, <2>1, <2>2, <2>3, <2>4
<1>9. /\ v.state = binaryRx.state /\ v.bufferSize = size /\ v.line = binaryRx.line
      /\ v.remaining = IF left - k >= 0 THEN left - k ELSE 0
      /\ v.data = IF RoomLeft > 0 THEN data \o bytes ELSE data
  BY ReceivedFacts
<1>10. rx \in Seq(Byte) /\ sent \in Seq(Messages) /\ Unread(rx, sent, d, n) /\ d < Len(sent)
  BY Reads DEF StreamTypes, Where
<1>11. \A i \in 1 .. Len(rx) : n + i <= Len(Wire(m)) => rx[i] = Wire(m)[n + i]
  BY <1>10, UnreadFacts
<1>12. /\ bytes \in Seq(Byte) /\ Len(bytes) = k
       /\ \A i \in 1 .. k : bytes[i] = rx[i]
  BY <1>10, FirstBytes
<1> HIDE DEF m, l, p, left, size, data, v, bytes
<1>13. /\ got \in Nat /\ n = l + 4 + got /\ p \in Nat /\ left \in Nat /\ size \in Nat
      /\ k \in Nat /\ k >= 1 /\ l \in Nat /\ n \in Nat
  BY <1>1, <1>3, <1>4, <1>6
<1>14. /\ Len(data) \in Nat /\ RoomLeft = size - Len(data) /\ RoomLeft \in Int
      /\ Len(data) = IF got < size THEN got ELSE size
  BY <1>6, <1>7
<1>15. got + k <= p /\ v.remaining = p - (got + k)
  <2>1. left = p - got /\ k <= left
    BY <1>7, <1>8
  <2>2. v.remaining = IF left - k >= 0 THEN left - k ELSE 0
    BY <1>9
  <2> QED
    BY <1>13, <2>1, <2>2
<1>16. \A i \in 1 .. k : bytes[i] = m.payload[got + i]
  <2> TAKE i \in 1 .. k
  <2>1. /\ i \in 1 .. Len(rx) /\ n + i <= l + 4 + p /\ n + i = l + 4 + (got + i)
        /\ got + i \in 1 .. p
    <3>1. Len(rx) \in Nat /\ k <= Len(rx)
      BY <1>10, LenProperties
    <3> QED
      BY <1>13, <1>15, <3>1
  <2>2. rx[i] = Wire(m)[l + 4 + (got + i)]
    BY <1>5, <1>11, <2>1
  <2> QED
    BY <1>4, <1>12, <2>1, <2>2
<1>17. /\ Len(v.data) = IF got + k < size THEN got + k ELSE size
       /\ \A i \in 1 .. Len(v.data) : v.data[i] = m.payload[i]
  <2>1. CASE RoomLeft > 0
    <3>1. v.data = data \o bytes
      BY <1>9, <2>1
    <3>2. /\ Len(data \o bytes) = Len(data) + Len(bytes)
          /\ \A i \in 1 .. Len(data) + Len(bytes) : (data \o bytes)[i] =
               IF i <= Len(data) THEN data[i] ELSE bytes[i - Len(data)]
      BY <1>6, <1>12, ConcatProperties
    <3>3. Len(data) = got /\ got < size /\ got + k <= size
      <4>1. k <= RoomLeft
        BY <1>8, <2>1
      <4> QED
        BY <1>13, <1>14, <2>1, <4>1
    <3>4. Len(v.data) = got + k
      BY <1>12, <3>1, <3>2, <3>3
    <3>5. \A i \in 1 .. got + k : v.data[i] = m.payload[i]
      <4> TAKE i \in 1 .. got + k
      <4>1. CASE i <= got
        <5>1. i \in 1 .. Len(data)
          BY <1>13, <3>3, <4>1
        <5>2. v.data[i] = data[i]
          BY <1>12, <3>1, <3>2, <3>3, <4>1
        <5> QED
          BY <1>7, <5>1, <5>2
      <4>2. CASE ~(i <= got)
        <5>1. i - got \in 1 .. k /\ got + (i - got) = i
          BY <1>13, <4>2
        <5>2. v.data[i] = bytes[i - got]
          BY <1>12, <3>1, <3>2, <3>3, <4>2
        <5> QED
          BY <1>16, <5>1, <5>2
      <4> QED
        BY <4>1, <4>2
    <3>6. got + k = IF got + k < size THEN got + k ELSE size
      BY <1>13, <3>3
    <3> QED
      BY <3>4, <3>5, <3>6
  <2>2. CASE ~(RoomLeft > 0)
    <3>1. v.data = data
      BY <1>9, <2>2
    <3>2. Len(data) = size /\ size <= got
      BY <1>13, <1>14, <2>2
    <3>3. size = IF got + k < size THEN got + k ELSE size
      BY <1>13, <3>2
    <3> QED
      BY <1>7, <3>1, <3>2, <3>3
  <2> QED
    BY <2>1, <2>2
<1> QED
  BY <1>3, <1>7, <1>9, <1>15, <1>17 DEF p, v, got, l, m

\* Data is read: the message goes on, or is over with all of its data.
LEMMA PayloadRead ==
  ASSUME Types, NEW d, NEW n, Where(d, n), isBinaryRx, Len(header) = 2,
         NEW k \in 1 .. Len(rx), k <= ReadLen, line' = line,
         rx' = SubSeq(rx, k + 1, Len(rx)), sent' = sent
  PROVE  /\ (Received(k).remaining = 0 /\ Done(Received(k), Length(header), Received(k).line))
              => Where(d + 1, 0)'
         /\ (/\ Received(k).remaining # 0 /\ binaryRx' = Received(k)
             /\ UNCHANGED <<isBinaryRx, header, frames>>) => Where(d, n + k)'
<1> DEFINE m == sent[d + 1]
           l == Len(m.line)
           p == Len(m.payload)
           got == n - l - 4
           v == Received(k)
<1>1. rx # <<>> /\ StreamTypes
  BY FirstBytes DEF Types, StreamTypes
<1>2. d \in Nat /\ d < Len(sent)
  BY <1>1, Reads
<1>3. /\ m \in Messages /\ m.isBinary /\ n \in Nat /\ l \in Nat
      /\ header = LengthBytes(m) /\ line = <<>>
  BY <1>1, BinaryReads
<1>4. /\ got \in Nat /\ got + k <= p
      /\ v.remaining = p - (got + k)
      /\ v.line = Kept(m.line)
      /\ v.state = "URC" => v.bufferSize >= p
      /\ Len(v.data) = IF got + k < v.bufferSize THEN got + k ELSE v.bufferSize
      /\ \A i \in 1 .. Len(v.data) : v.data[i] = m.payload[i]
  BY <1>1, DataGrows
<1>5. p \in Nat /\ m.payload \in Seq(Byte)
  BY <1>3, MessageFacts
<1>6. Len(Wire(m)) = l + 4 + p
  BY <1>3, LengthsOfData
<1>7. v \in Transfers /\ v.bufferSize \in Nat /\ v.data \in Seq(Byte) /\ v.line \in Seq(Byte)
      /\ v.state \in FrameKinds
  <2>1. v \in Transfers
    BY <1>1, ReceivedFacts
  <2> HIDE DEF v
  <2> QED
    BY <2>1 DEF Transfers, FrameKinds
<1>8. k \in Nat /\ k >= 1
  OBVIOUS
<1>9. /\ n = l + 4 + got /\ n + k = l + 4 + (got + k)
      /\ n + k # 0 /\ n + k \notin 1 .. l + 1 /\ n + k \notin l + 2 .. l + 3 /\ n + k > l + 3
      /\ n + k > l + 1 /\ (n + k) - l - 4 = got + k
  <2>1. n \in Nat /\ l \in Nat /\ got = n - l - 4 /\ got \in Nat
    BY <1>3, <1>4
  <2> HIDE DEF m, l, got
  <2> QED
    BY <1>8, <2>1
<1>10. ASSUME v.remaining = 0, Done(v, Length(header), v.line)
       PROVE  Where(d + 1, 0)'
  <2>1. Between'
    BY <1>3, <1>10 DEF Done, Between
  <2>2. got + k = p
    <3> HIDE DEF m, got, v, p
    <3> QED
      BY <1>4, <1>5, <1>8, <1>10
  <2> DEFINE f == Frame(v.state, v.line, Length(header), v)
  <2>3. frames' = Append(frames, f)
    BY <1>10 DEF Done
  <2>4. frames \in Seq(Frames) /\ sent \in Seq(Messages) /\ FramesOf(frames, sent, d)
    BY DEF Types, StreamTypes, Where
  <2>5. Length(header) = p
    BY <1>3, LengthFacts
  <2>6. f \in Frames
    <3> HIDE DEF v, p
    <3> QED
      BY <1>5, <1>7, <2>5, FrameTypes
  <2>7. /\ f.kind = v.state /\ f.line = Kept(m.line) /\ f.length = p
        /\ f.data = v.data /\ f.room = v.bufferSize
    <3> HIDE DEF v, m, p
    <3> QED
      BY <1>4, <2>5 DEF Frame
  <2>8. Len(v.data) = IF p < v.bufferSize THEN p ELSE v.bufferSize
    <3> HIDE DEF m, got, v, p
    <3> QED
      BY <1>4, <2>2
  <2>9. Min({f.room, f.length}) = Len(v.data)
    <3>1. v.bufferSize \in Int /\ p \in Int
      BY <1>5, <1>7
    <3>2. Min({v.bufferSize, p}) = IF v.bufferSize <= p THEN v.bufferSize ELSE p
      BY <3>1, MinOfTwo
    <3> HIDE DEF f, v, p
    <3> QED
      BY <2>7, <2>8, <3>1, <3>2
  <2>10. v.data = SubSeq(m.payload, 1, Len(v.data))
    <3> DEFINE j == Len(v.data)
    <3>1. j \in 0 .. p
      <4> HIDE DEF v, p
      <4> QED
        BY <1>5, <1>7, <2>8
    <3>2. CASE j = 0
      <4>1. SubSeq(m.payload, 1, 0) = <<>>
        BY SubSeqEmpty
      <4>2. v.data = <<>>
        BY <1>7, <3>2, EmptySeq
      <4> QED
        BY <3>2, <4>1, <4>2
    <3>3. CASE j # 0
      <4>1. j \in 1 .. Len(m.payload)
        <5> HIDE DEF j
        <5> QED
          BY <1>5, <3>1, <3>3
      <4>2. /\ SubSeq(m.payload, 1, j) \in Seq(Byte) /\ Len(SubSeq(m.payload, 1, j)) = j
            /\ \A i \in 1 .. j : SubSeq(m.payload, 1, j)[i] = m.payload[i]
        <5> HIDE DEF j
        <5> QED
          BY <1>5, <4>1, FirstBytes
      <4>3. \A i \in 1 .. j : v.data[i] = SubSeq(m.payload, 1, j)[i]
        BY <1>4, <4>2
      <4> HIDE DEF v, m
      <4> QED
        BY <1>7, <4>2, <4>3, SeqEqual
    <3> QED
      BY <3>2, <3>3
  <2>11. v.state = "URC" => v.data = m.payload
    <3>1. ASSUME v.state = "URC"
          PROVE  Len(v.data) = p
      <4> HIDE DEF m, got, v, p
      <4> QED
        BY <1>4, <1>5, <1>7, <2>8, <3>1
    <3>2. SubSeq(m.payload, 1, p) = m.payload
      BY <1>5, SubSeqFull
    <3> QED
      BY <2>10, <3>1, <3>2
  <2>12. FrameOf(f, m)
    <3> HIDE DEF f, v, m
    <3> QED
      BY <2>7, <2>9, <2>10, <2>11 DEF FrameOf
  <2>13. HasFrame(m)
    BY <1>3 DEF HasFrame
  <2>14. FramesOf(frames', sent, d + 1)
    <3> HIDE DEF f
    <3> QED
      BY <1>2, <2>3, <2>4, <2>6, <2>12, <2>13, FrameAdded
  <2>15. n + k = Len(Wire(m)) /\ n + k <= Len(Wire(m))
    <3> DEFINE w == Len(Wire(m))
    <3>1. w = l + 4 + p /\ n + k = l + 4 + p /\ l \in Nat /\ p \in Nat
      BY <1>3, <1>5, <1>6, <1>9, <2>2
    <3> HIDE DEF w, l, p
    <3>2. n + k = w /\ n + k <= w
      BY <3>1
    <3> QED
      BY <3>2 DEF w
  <2> QED
    BY <1>1, <1>2, <2>1, <2>14, <2>15, Onward
<1>11. ASSUME v.remaining # 0, binaryRx' = v, UNCHANGED <<isBinaryRx, header, frames>>
       PROVE  Where(d, n + k)'
  <2>1. got + k < p /\ p - (got + k) > 0
    <3> HIDE DEF m, got, v, p
    <3> QED
      BY <1>4, <1>5, <1>8, <1>11
  <2>2. Transfer(m, got + k)'
    <3>1. m' = m
      OBVIOUS
    <3>2. (got + k)' = got + k
      OBVIOUS
    <3> HIDE DEF m, got, v
    <3> QED
      BY <1>4, <1>11, <2>1, <3>1, <3>2 DEF Transfer, p
  <2>3. Parsed(m, n + k)'
    <3>1. m' = m
      OBVIOUS
    <3>2. header' = LengthBytes(m) /\ isBinaryRx' /\ m.isBinary /\ line' = <<>>
      BY <1>3, <1>11
    <3>3. Transfer(m, (n + k) - l - 4)'
      BY <1>9, <2>2
    <3> HIDE DEF m, got
    <3> QED
      BY <1>9, <3>1, <3>2, <3>3 DEF Parsed
  <2>4. n + k < Len(Wire(m)) /\ n + k <= Len(Wire(m))
    <3> DEFINE w == Len(Wire(m))
    <3>1. w = l + 4 + p /\ n + k = l + 4 + (got + k) /\ l \in Nat /\ p \in Nat /\ got \in Nat
      BY <1>3, <1>4, <1>5, <1>6, <1>9
    <3> HIDE DEF w, l, p, got
    <3>2. n + k < w /\ n + k <= w
      BY <1>8, <2>1, <3>1
    <3> QED
      BY <3>2 DEF w
  <2> QED
    BY <1>1, <1>2, <1>11, <2>3, <2>4, Onward
<1> QED
  BY <1>10, <1>11

-----------------------------------------------------------------------------
(* Commands and the messages that are theirs                               *)

\* No command gave up, and each line fits.
Clean == /\ nFailures = 0
         /\ \A i \in 1 .. Len(sent) : Len(Printed(sent[i].line)) < RxBufferLen

\* The messages that are not read, and those of the module to come, are of the
\* command that executes.
Unanswered == cmd # 0 /\ status = "NO_STATUS"
Asked == at = "query" \/ rspBinaryBuf.owner = cmd
Busy == cmd = 0 <=> at \in {"idle", "handleRx"}
ToAnswer(d) ==
  todo # <<>> => /\ Unanswered /\ Len(todo) = 1
                 /\ todo[1] = "query" => Asked
                 /\ \A i \in d + 1 .. Len(sent) : sent[i].for # "end"
Pending(d) ==
  \A i \in d + 1 .. Len(sent) :
    /\ sent[i].for # "nobody" => Unanswered
    /\ sent[i].for = "query" => Asked
    /\ sent[i].for = "end" => /\ todo = <<>>
                              /\ \A j \in i + 1 .. Len(sent) : sent[j].for = "nobody"
Target(d) ==
  binaryRx.state = "RSP" => /\ d < Len(sent) /\ sent[d + 1].for = "query"
                            /\ binaryRx.owner = cmd
Exchange(d) == Busy /\ ToAnswer(d) /\ Pending(d) /\ Target(d)

\* What handleRxData() returns to: a caller that has a command goes on with it.
LEMMA Returns ==
  ASSUME Busy, Reading, cmd' = cmd, NEW kind, ReturnTo(kind) \/ at' = at
  PROVE  Busy' /\ at # "query" /\ at' # "query"
<1>1. at \in {"getRsp", "cmdEnd", "handleRx"}
  BY DEF Reading
<1>2. at' \in {"idle", "begun", at}
  BY DEF ReturnTo
<1>3. at' # "query"
  BY <1>1, <1>2
<1>4. at = "handleRx" => at' \in {"idle", "handleRx"}
  BY DEF ReturnTo
<1>5. ASSUME at # "handleRx"
      PROVE  at' \notin {"idle", "handleRx"}
  <2>1. at' \in {"begun", at}
    BY <1>5 DEF ReturnTo
  <2> QED
    BY <1>1, <1>5, <2>1
<1> QED
  BY <1>1, <1>3, <1>4, <1>5 DEF Busy

\* Reading within a message
LEMMA ExchangeGoesOn ==
  ASSUME NEW d, Exchange(d), Busy', at # "query",
         sent' = sent, cmd' = cmd, todo' = todo, status' = status,
         rspBinaryBuf'.owner = rspBinaryBuf.owner,
         binaryRx'.state = "RSP" =>
           \/ binaryRx.state = "RSP" /\ binaryRx'.owner = binaryRx.owner
           \/ /\ d < Len(sent) /\ sent[d + 1].for = "query"
              /\ binaryRx'.owner = rspBinaryBuf.owner /\ rspBinaryBuf.owner = cmd
  PROVE  Exchange(d)'
<1>1. (Unanswered <=> Unanswered') /\ (Asked => Asked')
  BY DEF Unanswered, Asked
<1>2. ToAnswer(d)'
  BY <1>1 DEF Exchange, ToAnswer
<1>3. Pending(d)'
  BY <1>1 DEF Exchange, Pending
<1>4. Target(d)'
  BY DEF Exchange, Target
<1> QED
  BY <1>2, <1>3, <1>4 DEF Exchange

\* Reading the end of one
LEMMA ExchangeAdvances ==
  ASSUME sent \in Seq(Messages), NEW d \in Nat, d < Len(sent),
         Exchange(d), Busy', at # "query",
         sent' = sent, cmd' = cmd, todo' = todo, rspBinaryBuf'.owner = rspBinaryBuf.owner,
         status' = status \/ sent[d + 1].for = "end",
         binaryRx'.state # "RSP"
  PROVE  Exchange(d + 1)'
<1>1. Asked => Asked'
  BY DEF Asked
<1>2. status' = status => (Unanswered <=> Unanswered')
  BY DEF Unanswered
<1>3. Len(sent) \in Nat /\ d + 1 \in d + 1 .. Len(sent)
  BY LenProperties
<1>4. \A i \in d + 1 + 1 .. Len(sent) : i \in d + 1 .. Len(sent) /\ i \in (d + 1) + 1 .. Len(sent)
  BY <1>3
<1>5. \A i \in d + 1 + 1 .. Len(sent) : sent[d + 1].for = "end" => sent[i].for = "nobody"
  BY <1>3, <1>4 DEF Exchange, Pending
<1>6. todo # <<>> => sent[d + 1].for # "end"
  BY <1>3 DEF Exchange, ToAnswer
<1>7. ToAnswer(d + 1)'
  <2>1. ASSUME todo # <<>>
        PROVE  /\ Unanswered' /\ Len(todo) = 1
               /\ todo[1] = "query" => Asked'
               /\ \A i \in d + 1 + 1 .. Len(sent) : sent[i].for # "end"
    <3>1. status' = status
      BY <1>6, <2>1
    <3>2. /\ Unanswered /\ Len(todo) = 1 /\ (todo[1] = "query" => Asked)
          /\ \A i \in d + 1 .. Len(sent) : sent[i].for # "end"
      BY <2>1 DEF Exchange, ToAnswer
    <3> QED
      BY <1>1, <1>2, <1>4, <3>1, <3>2
  <2> QED
    BY <2>1 DEF ToAnswer
<1>8. Pending(d + 1)'
  <2>1. ASSUME NEW i \in d + 1 + 1 .. Len(sent)
        PROVE  /\ sent[i].for # "nobody" => Unanswered'
               /\ sent[i].for = "query" => Asked'
               /\ sent[i].for = "end" => /\ todo = <<>>
                                         /\ \A j \in i + 1 .. Len(sent) : sent[j].for = "nobody"
    <3>1. i \in d + 1 .. Len(sent)
      BY <1>4
    <3>2. /\ sent[i].for # "nobody" => Unanswered
          /\ sent[i].for = "query" => Asked
          /\ sent[i].for = "end" => /\ todo = <<>>
                                    /\ \A j \in i + 1 .. Len(sent) : sent[j].for = "nobody"
      BY <3>1 DEF Exchange, Pending
    <3>3. sent[i].for # "nobody" => status' = status
      BY <1>5
    <3> QED
      BY <1>1, <1>2, <3>2, <3>3
  <2> QED
    BY <2>1 DEF Pending
<1>9. Target(d + 1)'
  BY DEF Target
<1> QED
  BY <1>7, <1>8, <1>9 DEF Exchange

\* What the line of a message is taken for
LEMMA LineKinds ==
  ASSUME Types, NEW m \in Messages, line = Printed(m.line), NEW kind \in Kinds(line)
  PROVE  /\ m.for = "nobody" => kind \notin {"rsp", "status"}
         /\ m.for = "query" => kind # "status"
         /\ kind # "status" => StatusOf(kind, line) = status
<1>1. /\ kind = "rsp" => IsResponse(line)
      /\ kind = "status" => IsStatus(line)
  BY KindFacts
<1>2. ASSUME m.for = "nobody", line # <<>>
      PROVE  Head(line) = PLUS /\ \A p \in RspPrefixes \ {<<>>} : ~IsPrefix(p, line)
  BY <1>2, ModuleAssumption
<1>3. ASSUME m.for = "query"
      PROVE  line \notin {<<OK>>, <<ERROR>>}
  BY <1>3, ModuleAssumption
<1>4. ASSUME m.for = "nobody"
      PROVE  ~IsResponse(line) /\ ~IsStatus(line)
  <2>1. ~IsExpected(line)
    <3> SUFFICES ASSUME IsExpected(line)
                 PROVE  FALSE
      OBVIOUS
    <3>1. pExpectedRsp # <<>> /\ IsPrefix(pExpectedRsp, line)
      BY DEF IsExpected
    <3>2. pExpectedRsp \in RspPrefixes \ {<<>>}
      BY <3>1 DEF Types, CallerTypes
    <3>3. line = <<>>
      BY <1>2, <1>4, <3>1, <3>2
    <3>4. pExpectedRsp \in Seq(Byte) /\ Len(<<>>) = 0
      BY <3>2, ParserAssumption
    <3>5. Len(pExpectedRsp) <= 0
      BY <3>1, <3>3, <3>4 DEF IsPrefix
    <3> QED
      BY <3>1, <3>4, <3>5, EmptySeq
  <2>2. CASE line = <<>>
    <3>1. line \notin {<<OK>>, <<ERROR>>}
      BY <2>2
    <3> QED
      BY <2>1, <2>2, <3>1 DEF IsResponse, IsStatus
  <2>3. CASE line # <<>>
    <3>1. Head(line) = PLUS
      BY <1>2, <1>4, <2>3
    <3>2. line \notin {<<OK>>, <<ERROR>>}
      BY <3>1 DEF OK, ERROR, PLUS
    <3> QED
      BY <2>1, <3>1, <3>2 DEF IsResponse, IsStatus
  <2> QED
    BY <2>2, <2>3
<1>5. m.for = "query" => kind # "status"
  BY <1>1, <1>3 DEF IsStatus
<1>6. kind # "status" => StatusOf(kind, line) = status
  BY DEF StatusOf
<1>7. m.for = "nobody" => kind \notin {"rsp", "status"}
  BY <1>1, <1>4
<1> QED
  BY <1>5, <1>6, <1>7

-----------------------------------------------------------------------------
(* The steps that read nothing                                             *)

\* A message more in the history
LEMMA SendFacts ==
  ASSUME Types, NEW m \in Messages, ModuleSends(m)
  PROVE  /\ sent \in Seq(Messages) /\ Len(sent) \in Nat
         /\ sent' = Append(sent, m) /\ Len(sent') = Len(sent) + 1
         /\ \A i \in 1 .. Len(sent) : sent'[i] = sent[i]
         /\ sent'[Len(sent) + 1] = m
<1>1. sent \in Seq(Messages) /\ sent' = Append(sent, m)
  BY DEF Types, StreamTypes, ModuleSends
<1> QED
  BY <1>1, AppendProperties, LenProperties

\* What the module sends is read later.
LEMMA SendWhere ==
  ASSUME Types, NEW d, NEW n, Where(d, n), NEW m \in Messages, ModuleSends(m)
  PROVE  Where(d, n)'
<1>1. /\ rx \in Seq(Byte) /\ sent \in Seq(Messages) /\ frames \in Seq(Frames)
      /\ Unread(rx, sent, d, n) /\ ParserAt(d, n) /\ FramesOf(frames, sent, d)
  BY DEF Types, StreamTypes, Where
<1>2. /\ d \in 0 .. Len(sent) /\ d \in Nat /\ n \in Nat
      /\ d = Len(sent) => n = 0
  BY <1>1, UnreadFacts
<1>3. /\ rx' = rx \o Wire(m) /\ sent' = Append(sent, m) /\ frames' = frames
      /\ UNCHANGED <<line, isBinaryRx, header, binaryRx>>
  BY DEF ModuleSends
<1>4. /\ Len(sent) \in Nat /\ Len(sent') = Len(sent) + 1
      /\ \A i \in 1 .. Len(sent) : sent'[i] = sent[i]
  BY SendFacts
<1>5. Unread(rx, sent, d, n)'
  BY <1>1, <1>3, UnreadGrows
<1>6. FramesOf(frames, sent, d)'
  BY <1>1, <1>2, <1>3, FramesStay
<1>7. d # Len(sent')
  BY <1>2, <1>4
<1>8. Parsed(sent[d + 1], n)'
  <2>1. CASE d = Len(sent)
    <3>1. Between' /\ n = 0
      BY <1>1, <1>2, <1>3, <2>1 DEF ParserAt, Between
    <3>2. sent'[d + 1] \in Messages
      BY <2>1, SendFacts
    <3>3. Len(sent'[d + 1].line) \in Nat
      BY <3>2, MessageFacts
    <3> QED
      BY <3>1, <3>3 DEF Parsed
  <2>2. CASE d # Len(sent)
    <3>1. d + 1 \in 1 .. Len(sent)
      BY <1>2, <1>4, <2>2
    <3>2. sent'[d + 1] = sent[d + 1]
      BY <1>4, <3>1
    <3>3. Parsed(sent[d + 1], n)
      BY <1>1, <2>2 DEF ParserAt
    <3> QED
      BY <1>3, <3>2, <3>3 DEF Parsed, Between, Transfer
  <2> QED
    BY <2>1, <2>2
<1>9. ParserAt(d, n)'
  BY <1>7, <1>8 DEF ParserAt
<1> QED
  BY <1>5, <1>6, <1>9 DEF Where

\* A step that ends without failures had none before.
LEMMA CleanBefore ==
  ASSUME Types, [RxNext]_rxVars, Clean'
  PROVE  Clean /\ nFailures' = nFailures
<1>1. nFailures \in Nat /\ nFailures' = 0
  BY DEF Types, CallerTypes, Clean
<1>2. nFailures' = nFailures \/ nFailures' = nFailures + 1
  BY DEF RxNext, rxVars, ModuleSends, HandleRxData, ReadCharacter, ReadEndOfLine, ReadSOH,
         ReadHeader, ReadPayload, ReadNothing, ReadFails, CmdBegin, GetRspParamLine, TimeOut,
         CmdEnd, HandleRx
<1>3. nFailures = 0
  BY <1>1, <1>2
<1>4. sent' = sent \/ \E m \in Messages : ModuleSends(m)
  BY DEF RxNext, rxVars, HandleRxData, ReadCharacter, ReadEndOfLine, ReadSOH,
         ReadHeader, ReadPayload, ReadNothing, ReadFails, CmdBegin, GetRspParamLine, TimeOut,
         CmdEnd, HandleRx
<1>5. \A i \in 1 .. Len(sent) : i \in 1 .. Len(sent') /\ sent'[i] = sent[i]
  <2>1. CASE sent' = sent
    BY <2>1
  <2>2. CASE \E m \in Messages : ModuleSends(m)
    BY <2>2, SendFacts
  <2> QED
    BY <1>4, <2>1, <2>2
<1>6. \A i \in 1 .. Len(sent) : Len(Printed(sent[i].line)) < RxBufferLen
  BY <1>5 DEF Clean
<1> QED
  BY <1>1, <1>3, <1>6 DEF Clean

\* A message of the module is what the command that executes waits for.
LEMMA SendExchange ==
  ASSUME Types, NEW d \in 0 .. Len(sent), Exchange(d), NEW m \in Messages, ModuleSends(m)
  PROVE  Exchange(d)'
<1> DEFINE L == Len(sent)
<1>1. /\ L \in Nat /\ d \in Nat /\ Len(sent') = L + 1 /\ sent'[L + 1] = m
      /\ \A i \in 1 .. L : sent'[i] = sent[i]
  BY SendFacts
<1>2. UNCHANGED <<cmd, status, at, rspBinaryBuf, binaryRx>>
  BY DEF ModuleSends
<1>3. (Unanswered' <=> Unanswered) /\ (Asked' <=> Asked) /\ (Busy' <=> Busy)
  BY <1>2 DEF Unanswered, Asked, Busy
<1>4. /\ m.for \in {"nobody", "query", "end"}
      /\ todo \in Seq({"query", "end"})
      /\ m.for # "nobody" => todo # <<>> /\ Head(todo) = m.for
      /\ m.for = "nobody" => todo' = todo
      /\ m.for = "query" => todo' = [todo EXCEPT ![1] = "end"]
      /\ m.for = "end" => todo' = Tail(todo)
  BY MessageFacts DEF ModuleSends, Types, CallerTypes
<1>5. todo # <<>> => /\ Unanswered /\ Len(todo) = 1
                     /\ todo[1] = "query" => Asked
                     /\ \A i \in d + 1 .. L : sent[i].for # "end"
  BY DEF Exchange, ToAnswer
<1>6. m.for # "nobody" => /\ Unanswered /\ todo # <<>> /\ Len(todo) = 1 /\ todo[1] = m.for
                          /\ \A i \in d + 1 .. L : sent[i].for # "end"
  <2>1. m.for # "nobody" => Head(todo) = todo[1]
    BY <1>4, HeadTailProperties
  <2> QED
    BY <1>4, <1>5, <2>1
<1>7. m.for = "query" => Len(todo') = 1 /\ todo'[1] = "end"
  BY <1>4, <1>6, ExceptSeq
<1>8. m.for = "end" => todo' = <<>>
  <2>1. m.for = "end" => todo' \in Seq({"query", "end"}) /\ Len(todo') = 1 - 1
    BY <1>4, <1>6, HeadTailProperties
  <2> QED
    BY <2>1, EmptySeq
<1>9. \A i \in d + 1 .. L + 1 : (i \in d + 1 .. L /\ sent'[i] = sent[i]) \/ i = L + 1
  <2>1. \A i \in d + 1 .. L + 1 : (i \in d + 1 .. L /\ i \in 1 .. L) \/ i = L + 1
    BY <1>1
  <2> QED
    BY <1>1, <2>1
<1> HIDE DEF L
<1>10. ToAnswer(d)'
  <2>1. ASSUME todo' # <<>>
        PROVE  /\ Unanswered' /\ Len(todo') = 1
               /\ todo'[1] = "query" => Asked'
               /\ \A i \in d + 1 .. L + 1 : sent'[i].for # "end"
    <3>1. todo # <<>> /\ m.for # "end"
      BY <1>4, <1>6, <1>8, <2>1
    <3>2. /\ Unanswered /\ Len(todo) = 1 /\ (todo[1] = "query" => Asked)
          /\ \A i \in d + 1 .. L : sent[i].for # "end"
      BY <1>5, <3>1
    <3>3. Len(todo') = 1 /\ (todo'[1] = "query" => Asked')
      BY <1>3, <1>4, <1>7, <3>1, <3>2
    <3>4. \A i \in d + 1 .. L + 1 : sent'[i].for # "end"
      BY <1>1, <1>9, <3>1, <3>2
    <3> QED
      BY <1>3, <3>2, <3>3, <3>4
  <2> QED
    BY <1>1, <2>1 DEF ToAnswer
<1>11. Pending(d)'
  <2>1. ASSUME NEW i \in d + 1 .. L + 1
        PROVE  /\ sent'[i].for # "nobody" => Unanswered'
               /\ sent'[i].for = "query" => Asked'
               /\ sent'[i].for = "end" =>
                    /\ todo' = <<>>
                    /\ \A j \in i + 1 .. L + 1 : sent'[j].for = "nobody"
    <3>1. CASE i = L + 1
      <4>1. sent'[i] = m
        BY <1>1, <3>1
      <4>2. \A j \in i + 1 .. L + 1 : FALSE
        BY <1>1, <3>1 DEF L
      <4> QED
        BY <1>3, <1>5, <1>6, <1>8, <4>1, <4>2
    <3>2. CASE i \in d + 1 .. L /\ sent'[i] = sent[i]
      <4>1. /\ sent[i].for # "nobody" => Unanswered
            /\ sent[i].for = "query" => Asked
            /\ sent[i].for = "end" => /\ todo = <<>>
                                      /\ \A j \in i + 1 .. L : sent[j].for = "nobody"
        BY <3>2 DEF Exchange, Pending, L
      <4>2. sent[i].for = "end" => m.for = "nobody" /\ todo' = <<>>
        BY <1>4, <4>1
      <4>3. \A j \in i + 1 .. L + 1 : (j \in i + 1 .. L /\ sent'[j] = sent[j]) \/ j = L + 1
        <5>1. \A j \in i + 1 .. L + 1 : j \in d + 1 .. L + 1 /\ (j \in i + 1 .. L \/ j = L + 1)
          BY <1>1, <3>2
        <5>2. L + 1 \notin i + 1 .. L
          BY <1>1
        <5> QED
          BY <1>9, <5>1, <5>2
      <4>4. sent[i].for = "end" => \A j \in i + 1 .. L + 1 : sent'[j].for = "nobody"
        BY <1>1, <4>1, <4>2, <4>3
      <4> QED
        BY <1>3, <3>2, <4>1, <4>2, <4>4
    <3> QED
      BY <1>9, <3>1, <3>2
  <2> QED
    BY <1>1, <2>1 DEF Pending
<1>12. Target(d)'
  <2>1. binaryRx'.state = "RSP" => d < L /\ sent[d + 1].for = "query" /\ binaryRx.owner = cmd
    BY <1>2 DEF Exchange, Target, L
  <2>2. d < L => d < L + 1 /\ d + 1 \in 1 .. L
    BY <1>1
  <2> QED
    BY <1>1, <1>2, <2>1, <2>2 DEF Target
<1> QED
  BY <1>3, <1>10, <1>11, <1>12 DEF Exchange

Quiet == ReadNothing \/ ReadFails \/ (\E kind \in {"query", "end"} : CmdBegin(kind))
         \/ GetRspParamLine \/ TimeOut \/ CmdEnd \/ HandleRx \/ UNCHANGED rxVars

\* Where nothing is read, the place stays.
LEMMA QuietWhere ==
  ASSUME Quiet, NEW d, NEW n, Where(d, n)
  PROVE  Where(d, n)'
<1>1. UNCHANGED <<rx, line, isBinaryRx, header, binaryRx, frames, sent>>
  BY DEF Quiet, ReadNothing, ReadFails, CmdBegin, GetRspParamLine, TimeOut, CmdEnd, HandleRx,
         rxVars, parser
<1>2. Unread(rx, sent, d, n)' /\ FramesOf(frames, sent, d)'
  BY <1>1 DEF Where
<1>3. ParserAt(d, n)'
  BY <1>1 DEF Where, ParserAt, Parsed, Between, Transfer
<1> QED
  BY <1>2, <1>3 DEF Where

\* When no command waits for anything
LEMMA NothingPending ==
  ASSUME NEW d, Exchange(d), sent \in Seq(Messages), d \in 0 .. Len(sent), ~Unanswered
  PROVE  /\ todo = <<>>
         /\ \A i \in d + 1 .. Len(sent) : sent[i].for = "nobody"
         /\ binaryRx.state # "RSP"
<1>1. d < Len(sent) => d + 1 \in d + 1 .. Len(sent)
  BY LenProperties
<1>2. \A i \in d + 1 .. Len(sent) : sent[i].for = "nobody"
  BY DEF Exchange, Pending
<1> QED
  BY <1>1, <1>2 DEF Exchange, ToAnswer, Target

\* With nothing pending there is nothing to keep.
LEMMA NothingPendingIsEnough ==
  ASSUME NEW d, Busy', todo' = <<>>, binaryRx'.state # "RSP", sent' = sent,
         \A i \in d + 1 .. Len(sent) : sent[i].for = "nobody"
  PROVE  Exchange(d)'
<1>1. ToAnswer(d)' /\ Target(d)'
  BY DEF ToAnswer, Target
<1>2. Pending(d)'
  BY DEF Pending
<1> QED
  BY <1>1, <1>2 DEF Exchange

\* A command begins when nothing of the last one is unread.
LEMMA BeginExchange ==
  ASSUME Types, NEW d \in 0 .. Len(sent), Exchange(d), NEW kind \in {"query", "end"}, CmdBegin(kind)
  PROVE  Exchange(d)'
<1>1. /\ at = "idle" /\ cmd' = nCmds + 1 /\ status' = "NO_STATUS"
      /\ at' = (IF kind = "query" THEN "query" ELSE "begun")
      /\ todo' = Append(todo, kind)
      /\ UNCHANGED <<sent, binaryRx>>
  BY DEF CmdBegin, parser
<1>2. cmd' # 0
  BY <1>1 DEF Types, CallerTypes
<1>3. Busy' /\ Unanswered'
  BY <1>1, <1>2 DEF Busy, Unanswered
<1>4. ~Unanswered
  BY <1>1 DEF Exchange, Busy, Unanswered
<1>5. /\ todo = <<>> /\ binaryRx.state # "RSP"
      /\ \A i \in d + 1 .. Len(sent) : sent[i].for = "nobody"
  BY <1>4, NothingPending DEF Types, StreamTypes
<1>6. Len(todo') = 1 /\ todo'[1] = kind
  <2>1. <<>> \in Seq({"query", "end"}) /\ Len(<<>>) = 0
    BY EmptySeq
  <2> QED
    BY <1>1, <1>5, <2>1, AppendProperties
<1>7. kind = "query" => Asked'
  BY <1>1 DEF Asked
<1>8. ToAnswer(d)'
  BY <1>1, <1>3, <1>5, <1>6, <1>7 DEF ToAnswer
<1>9. Pending(d)'
  BY <1>1, <1>5 DEF Pending
<1>10. Target(d)'
  BY <1>1, <1>5 DEF Target
<1> QED
  BY <1>3, <1>8, <1>9, <1>10 DEF Exchange

\* A command ends when its status was read, behind which there is nothing of it.
LEMMA EndExchange ==
  ASSUME Types, NEW d \in 0 .. Len(sent), Exchange(d), CmdEnd
  PROVE  Exchange(d)'
<1>1. at = "begun" /\ UNCHANGED <<sent, binaryRx, todo, status, rspBinaryBuf>>
  BY DEF CmdEnd, parser
<1>2. CASE status = "NO_STATUS"
  <2>1. at' = "cmdEnd" /\ cmd' = cmd
    BY <1>2 DEF CmdEnd
  <2>2. Busy' /\ at # "query"
    BY <1>1, <2>1 DEF Exchange, Busy
  <2> QED
    BY <1>1, <2>1, <2>2, ExchangeGoesOn
<1>3. CASE status # "NO_STATUS"
  <2>1. at' = "idle" /\ cmd' = 0
    BY <1>3 DEF CmdEnd
  <2>2. Busy' /\ ~Unanswered
    BY <1>3, <2>1 DEF Busy, Unanswered
  <2>3. /\ todo = <<>> /\ binaryRx.state # "RSP"
        /\ \A i \in d + 1 .. Len(sent) : sent[i].for = "nobody"
    BY <2>2, NothingPending DEF Types, StreamTypes
  <2> QED
    BY <1>1, <2>2, <2>3, NothingPendingIsEnough
<1> QED
  BY <1>2, <1>3

\* So do the other steps that read nothing.
LEMMA QuietExchange ==
  ASSUME Types, NEW d \in 0 .. Len(sent), Exchange(d), Quiet, nFailures' = nFailures
  PROVE  Exchange(d)'
<1>1. nFailures \in Nat /\ Busy
  BY DEF Types, CallerTypes, Exchange
<1>2. CASE ReadFails \/ TimeOut
  BY <1>1, <1>2 DEF ReadFails, TimeOut
<1>3. CASE ReadNothing
  <2>1. Reading /\ ReturnTo("none") /\ UNCHANGED <<sent, cmd, todo, status, rspBinaryBuf, binaryRx>>
    BY <1>3 DEF ReadNothing, parser, caller
  <2>2. Busy' /\ at # "query"
    BY <1>1, <2>1, Returns
  <2> QED
    BY <2>1, <2>2, ExchangeGoesOn
<1>4. CASE GetRspParamLine
  <2>1. /\ at = "query" /\ at' = "getRsp" /\ UNCHANGED <<sent, cmd, todo, status, binaryRx>>
        /\ rspBinaryBuf'.owner = cmd
    BY <1>4 DEF GetRspParamLine, parser, Register
  <2>2. Busy' /\ Asked' /\ (Unanswered' <=> Unanswered)
    BY <1>1, <2>1 DEF Busy, Asked, Unanswered
  <2>3. ToAnswer(d)'
    BY <2>1, <2>2 DEF Exchange, ToAnswer
  <2>4. Pending(d)'
    BY <2>1, <2>2 DEF Exchange, Pending
  <2>5. Target(d)'
    BY <2>1 DEF Exchange, Target
  <2> QED
    BY <2>2, <2>3, <2>4, <2>5 DEF Exchange
<1>5. CASE HandleRx
  <2>1. /\ at = "idle" /\ at' = "handleRx"
        /\ UNCHANGED <<sent, cmd, todo, status, rspBinaryBuf, binaryRx>>
    BY <1>5 DEF HandleRx, parser, caller
  <2>2. Busy' /\ at # "query"
    BY <1>1, <2>1 DEF Busy
  <2> QED
    BY <2>1, <2>2, ExchangeGoesOn
<1>6. CASE UNCHANGED rxVars
  <2>1. UNCHANGED <<at, sent, cmd, todo, status, rspBinaryBuf, binaryRx>>
    BY <1>6 DEF rxVars, parser, caller
  <2>2. Busy' /\ (Asked' <=> Asked) /\ (Unanswered' <=> Unanswered)
    BY <1>1, <2>1 DEF Busy, Asked, Unanswered
  <2> QED
    BY <2>1, <2>2 DEF Exchange, ToAnswer, Pending, Target
<1> QED
  BY <1>2, <1>3, <1>4, <1>5, <1>6, BeginExchange, EndExchange DEF Quiet

-----------------------------------------------------------------------------
(* The steps that read                                                     *)

Goes(d, e, n) == Where(e, n)' /\ (Clean /\ Exchange(d) => Exchange(e)')

\* Reading a character or an SOH
LEMMA CharacterGoes ==
  ASSUME Types, NEW d, NEW n, Where(d, n), ReadCharacter \/ ReadSOH
  PROVE  Goes(d, d, n + 1)
<1>1. Where(d, n + 1)'
  BY CharacterRead, SOHRead DEF Types
<1>2. ASSUME Exchange(d)
      PROVE  Exchange(d)'
  <2>1. Reading /\ at' = at /\ UNCHANGED <<sent, cmd, todo, status, rspBinaryBuf, binaryRx>>
    BY DEF ReadCharacter, ReadSOH, caller
  <2>2. Busy' /\ at # "query"
    BY <1>2, <2>1, Returns DEF Exchange
  <2> QED
    BY <1>2, <2>1, <2>2, ExchangeGoesOn
<1> QED
  BY <1>1, <1>2 DEF Goes

\* What is kept of a line that fits is what was printed.
LEMMA CleanLine ==
  ASSUME Types, Clean, NEW d \in Nat, d < Len(sent)
  PROVE  sent[d + 1] \in Messages /\ Kept(sent[d + 1].line) = Printed(sent[d + 1].line)
<1>1. d + 1 \in 1 .. Len(sent) /\ sent[d + 1] \in Messages
  <2>1. sent \in Seq(Messages) /\ Len(sent) \in Nat
    BY LenProperties DEF Types, StreamTypes
  <2>2. d + 1 \in 1 .. Len(sent)
    BY <2>1
  <2> QED
    BY <2>1, <2>2, ElementOfSeq
<1>2. sent[d + 1].line \in Seq(Byte)
  BY <1>1, MessageFacts
<1> QED
  BY <1>1, <1>2, KeptFacts DEF Clean

\* Reading the end of a line
LEMMA LineEndGoes ==
  ASSUME Types, NEW d, NEW n, Where(d, n), ReadEndOfLine
  PROVE  \E e, q : Goes(d, e, q)
<1>1. /\ d < Len(sent) /\ sent[d + 1] \in Messages /\ StreamTypes
      /\ rx # <<>> /\ ~isBinaryRx /\ Reading
      /\ UNCHANGED <<binaryRx, cmd, todo, rspBinaryBuf, sent>>
  BY LineEndRead DEF Types, ReadEndOfLine, caller
<1>2. d \in Nat /\ binaryRx = Flush
  BY <1>1, Reads, LineReads
<1>3. PICK kind \in Kinds(line) :
        /\ status' = StatusOf(kind, line)
        /\ IF kind \in {"rsp", "status"} THEN ReturnTo(kind) ELSE UNCHANGED at
  BY DEF ReadEndOfLine
<1>4. Busy => Busy' /\ at # "query"
  BY <1>1, <1>3, Returns
<1>5. CASE Where(d, 1)' /\ line = <<>>
  <2>1. line \notin {<<OK>>, <<ERROR>>}
    BY <1>5
  <2>2. kind # "status"
    BY <2>1, KindFacts DEF IsStatus
  <2>3. status' = status
    BY <1>3, <2>2 DEF StatusOf
  <2>4. Exchange(d) => Exchange(d)'
    BY <1>1, <1>4, <2>3, ExchangeGoesOn DEF Exchange
  <2> QED
    BY <1>5, <2>4 DEF Goes
<1>6. CASE line = Kept(sent[d + 1].line) /\ Where(d + 1, 0)'
  <2>1. ASSUME Clean, Exchange(d)
        PROVE  Exchange(d + 1)'
    <3>1. line = Printed(sent[d + 1].line)
      BY <1>1, <1>2, <1>6, <2>1, CleanLine
    <3>2. sent[d + 1].for \in {"nobody", "query", "end"}
      BY <1>1, MessageFacts
    <3>3. status' = status \/ sent[d + 1].for = "end"
      BY <1>1, <1>3, <3>1, <3>2, LineKinds
    <3>4. binaryRx'.state # "RSP"
      BY <1>1, <1>2, FlushFacts
    <3>5. sent \in Seq(Messages) /\ Busy' /\ at # "query"
      BY <1>1, <1>4, <2>1 DEF StreamTypes, Exchange
    <3> QED
      BY <1>1, <1>2, <2>1, <3>3, <3>4, <3>5, ExchangeAdvances
  <2> QED
    BY <1>6, <2>1 DEF Goes
<1> QED
  BY <1>5, <1>6, LineEndRead DEF Types

\* Reading the length: a response is for the command that registered its buffer.
LEMMA HeaderGoes ==
  ASSUME Types, NEW d, NEW n, Where(d, n), ReadHeader
  PROVE  \E e, q : Goes(d, e, q)
<1> DEFINE m == sent[d + 1]
<1>1. /\ Reading /\ isBinaryRx /\ Len(header) < 2 /\ StreamTypes
      /\ UNCHANGED <<cmd, todo, sent>>
  BY HeaderCases DEF Types
<1>2. PICK k \in 1 .. Len(rx) :
        /\ k <= 2 - Len(header)
        /\ rx' = SubSeq(rx, k + 1, Len(rx))
        /\ HeaderBytes(k) \in Seq(Byte)
        /\ \/ Len(HeaderBytes(k)) < 2 /\ HeaderPart(k)
           \/ /\ Len(HeaderBytes(k)) = 2
              /\ \E kind \in Kinds(line), room \in PayloadRooms : HeaderWhole(k, kind, room)
  BY <1>1, HeaderCases
<1>3. rx # <<>>
  BY <1>1, FirstBytes DEF StreamTypes
<1>4. /\ d \in Nat /\ d < Len(sent) /\ m \in Messages /\ m.isBinary
      /\ line = Kept(m.line)
  BY <1>1, <1>3, Reads, BinaryReads
<1>5. CASE Len(HeaderBytes(k)) < 2 /\ HeaderPart(k)
  <2>1. Where(d, n + k)'
    BY <1>1, <1>2, <1>5, HeaderPartRead
  <2>2. UNCHANGED <<binaryRx, rspBinaryBuf, status>> /\ ReturnTo("none")
    BY <1>5 DEF HeaderPart
  <2>3. Busy => Busy' /\ at # "query"
    BY <1>1, <2>2, Returns
  <2>4. Exchange(d) => Exchange(d)'
    BY <1>1, <2>2, <2>3, ExchangeGoesOn DEF Exchange
  <2> QED
    BY <2>1, <2>4 DEF Goes
<1>6. ASSUME Len(HeaderBytes(k)) = 2,
             NEW kind \in Kinds(line), NEW room \in PayloadRooms, HeaderWhole(k, kind, room)
      PROVE  \E e, q : Goes(d, e, q)
  <2> DEFINE size == Length(HeaderBytes(k))
             u == Begun(kind, size, room)
  <2>1. size \in Nat
    BY <1>2, <1>6, BytesAreNumbers
  <2>2. /\ status' = StatusOf(kind, line)
        /\ size = 0 => Done(u, 0, line)
        /\ size # 0 => /\ binaryRx' = u /\ at' = at
                       /\ rspBinaryBuf' = IF kind = "rsp" THEN [rspBinaryBuf EXCEPT !.size = 0]
                                          ELSE rspBinaryBuf
    BY <1>6 DEF HeaderWhole
  <2> HIDE DEF size
  <2>3. (u.state = "RSP" <=> kind = "rsp") /\ (u.state = "RSP" => u.owner = rspBinaryBuf.owner)
    BY <2>1, BegunFacts
  <2> HIDE DEF u
  <2>4. rspBinaryBuf'.owner = rspBinaryBuf.owner
    BY <2>2 DEF Done, Types, CallerTypes
  <2>5. size = 0 => binaryRx'.state # "RSP"
    BY <2>2, FlushFacts DEF Done
  <2>6. Busy => Busy' /\ at # "query"
    <3>1. size = 0 => ReturnTo(IF u.state = "RSP" THEN "rsp" ELSE "none")
      BY <2>2 DEF Done
    <3>2. size # 0 => at' = at
      BY <2>2
    <3> QED
      BY <1>1, <3>1, <3>2, Returns
  <2>7. ASSUME Clean
        PROVE  status' = status /\ (kind = "rsp" => m.for = "query")
    <3>1. line = Printed(m.line)
      BY <1>4, <2>7, CleanLine
    <3>2. m.for \in {"nobody", "query"}
      BY <1>4, MessageFacts, ModuleAssumption
    <3> QED
      BY <1>4, <2>2, <3>1, <3>2, LineKinds
  <2>8. CASE size = 0
    <3>1. Where(d + 1, 0)'
      BY <1>1, <1>2, <1>6, <2>8, HeaderWholeRead DEF size
    <3>2. ASSUME Clean, Exchange(d)
          PROVE  Exchange(d + 1)'
      <4>1. sent \in Seq(Messages) /\ Busy' /\ at # "query" /\ status' = status
        BY <1>1, <2>6, <2>7, <3>2 DEF StreamTypes, Exchange
      <4> QED
        BY <1>1, <1>4, <2>4, <2>5, <2>8, <3>2, <4>1, ExchangeAdvances
    <3> QED
      BY <3>1, <3>2 DEF Goes
  <2>9. CASE size # 0
    <3>1. Where(d, n + k)'
      BY <1>1, <1>2, <1>6, <2>9, HeaderWholeRead DEF size
    <3>2. ASSUME Clean, Exchange(d)
          PROVE  Exchange(d)'
      <4>1. Busy' /\ at # "query" /\ status' = status /\ binaryRx' = u
        BY <2>2, <2>6, <2>7, <2>9, <3>2 DEF Exchange
      <4>2. u.state = "RSP" => m.for = "query" /\ u.owner = rspBinaryBuf.owner
        BY <2>3, <2>7, <3>2
      <4>3. m.for = "query" => rspBinaryBuf.owner = cmd
        <5>1. d + 1 \in d + 1 .. Len(sent)
          BY <1>1, <1>4, LenProperties DEF StreamTypes
        <5>2. m.for = "query" => Asked
          BY <3>2, <5>1 DEF Exchange, Pending
        <5> QED
          BY <4>1, <5>2 DEF Asked
      <4> QED
        BY <1>1, <1>4, <2>4, <3>2, <4>1, <4>2, <4>3, ExchangeGoesOn
    <3> QED
      BY <3>1, <3>2 DEF Goes
  <2> QED
    BY <2>8, <2>9
<1> QED
  BY <1>2, <1>5, <1>6

\* Reading data
LEMMA PayloadGoes ==
  ASSUME Types, NEW d, NEW n, Where(d, n), ReadPayload
  PROVE  \E e, q : Goes(d, e, q)
<1>1. /\ Reading /\ isBinaryRx /\ Len(header) = 2 /\ StreamTypes
      /\ UNCHANGED <<line, cmd, todo, sent, status>>
  BY PayloadCases DEF Types
<1>2. PICK k \in 1 .. Len(rx) :
        /\ k <= ReadLen
        /\ rx' = SubSeq(rx, k + 1, Len(rx))
        /\ \/ Received(k).remaining = 0 /\ Done(Received(k), Length(header), Received(k).line)
           \/ /\ Received(k).remaining # 0
              /\ binaryRx' = Received(k)
              /\ UNCHANGED <<isBinaryRx, header, frames, rspBinaryBuf, at>>
  BY <1>1, PayloadCases
<1>3. rx # <<>>
  BY <1>1, FirstBytes DEF StreamTypes
<1>4. d \in Nat /\ d < Len(sent)
  BY <1>1, <1>3, Reads
<1> DEFINE v == Received(k)
<1>5. v.state = binaryRx.state /\ v.owner = binaryRx.owner
  BY <1>1, ReceivedFacts
<1>6. CASE v.remaining = 0 /\ Done(v, Length(header), v.line)
  <2>1. Where(d + 1, 0)'
    BY <1>1, <1>2, <1>6, PayloadRead
  <2> HIDE DEF v
  <2>2. /\ rspBinaryBuf'.owner = rspBinaryBuf.owner
        /\ binaryRx'.state # "RSP"
        /\ ReturnTo(IF v.state = "RSP" THEN "rsp" ELSE "none")
    BY <1>6, FlushFacts DEF Done, Types, CallerTypes
  <2>3. Busy => Busy' /\ at # "query"
    BY <1>1, <2>2, Returns
  <2>4. Exchange(d) => Exchange(d + 1)'
    <3>1. sent \in Seq(Messages)
      BY <1>1 DEF StreamTypes
    <3> QED
      BY <1>1, <1>4, <2>2, <2>3, <3>1, ExchangeAdvances DEF Exchange
  <2> QED
    BY <2>1, <2>4 DEF Goes
<1>7. CASE v.remaining # 0 /\ binaryRx' = v /\ UNCHANGED <<isBinaryRx, header, frames, rspBinaryBuf, at>>
  <2>1. Where(d, n + k)'
    BY <1>1, <1>2, <1>7, PayloadRead
  <2> HIDE DEF v
  <2>2. Busy => Busy' /\ at # "query"
    BY <1>1, <1>7, Returns
  <2>3. Exchange(d) => Exchange(d)'
    BY <1>1, <1>5, <1>7, <2>2, ExchangeGoesOn DEF Exchange
  <2> QED
    BY <2>1, <2>3 DEF Goes
<1> QED
  BY <1>2, <1>6, <1>7

-----------------------------------------------------------------------------
(* The invariant                                                           *)

\* The parser is n bytes into the message after the d-th, whatever happened; the
\* messages that follow are of the command that executes, as long as none gave up.
Inv == /\ Types
       /\ \E d, n : Where(d, n) /\ (Clean => Exchange(d))

\* At the beginning nothing was sent or read.
LEMMA InvInit ==
  ASSUME RxInit
  PROVE  Inv
<1>1. Types
  <2>1. StreamTypes
    BY EmptySeq, FlushFacts DEF RxInit, StreamTypes
  <2>2. CallerTypes
    BY EmptySeq DEF RxInit, CallerTypes, NoBuffer
  <2> QED
    BY <2>1, <2>2 DEF Types
<1>2. Len(sent) = 0 /\ sent = <<>> /\ frames = <<>> /\ Len(frames) = 0
  BY EmptySeq DEF RxInit
<1>3. Where(0, 0)
  <2>1. Unread(rx, sent, 0, 0)
    BY NothingUnread DEF RxInit
  <2>2. ParserAt(0, 0)
    BY <1>2 DEF RxInit, ParserAt, Between
  <2>3. Framing(sent) = {} /\ UpTo({}, 0) = 0
    <3>1. Framing(sent) = {}
      BY <1>2 DEF Framing
    <3>2. {j \in {} : j <= 0} = {}
      OBVIOUS
    <3> QED
      BY <3>1, <3>2, FS_EmptySet DEF UpTo
  <2> QED
    BY <1>2, <2>1, <2>2, <2>3 DEF Where, FramesOf
<1>4. Exchange(0)
  BY <1>2, FlushFacts DEF RxInit, Exchange, Busy, ToAnswer, Pending, Target
<1> QED
  BY <1>1, <1>3, <1>4 DEF Inv

\* Every step keeps the invariant: what is read is the next byte of a message, what
\* is sent comes behind the others, and the rest leaves the place alone.
LEMMA InvStep ==
  ASSUME Inv, [RxNext]_rxVars
  PROVE  Inv'
<1>1. Types /\ Types'
  BY TypesStep DEF Inv
<1>2. PICK d, n : Where(d, n) /\ (Clean => Exchange(d))
  BY DEF Inv
<1>3. d \in 0 .. Len(sent)
  BY <1>1, <1>2, UnreadFacts DEF Types, StreamTypes, Where
<1>4. Clean' => Clean /\ nFailures' = nFailures
  BY <1>1, CleanBefore
<1>5. ASSUME NEW e, NEW q, Goes(d, e, q)
      PROVE  Inv'
  <2>1. Where(e, q)' /\ (Clean' => Exchange(e)')
    BY <1>2, <1>4, <1>5 DEF Goes
  <2> QED
    BY <1>1, <2>1 DEF Inv
<1>6. CASE Quiet
  <2>1. Where(d, n)' /\ (Clean' => Exchange(d)')
    BY <1>1, <1>2, <1>3, <1>4, <1>6, QuietWhere, QuietExchange
  <2> QED
    BY <1>1, <2>1 DEF Inv
<1>7. ASSUME NEW m \in Messages, ModuleSends(m)
      PROVE  Inv'
  <2>1. Where(d, n)' /\ (Clean' => Exchange(d)')
    BY <1>1, <1>2, <1>3, <1>4, <1>7, SendWhere, SendExchange
  <2> QED
    BY <1>1, <2>1 DEF Inv
<1>8. CASE ReadCharacter \/ ReadSOH
  BY <1>1, <1>2, <1>5, <1>8, CharacterGoes
<1>9. CASE ReadEndOfLine
  BY <1>1, <1>2, <1>5, <1>9, LineEndGoes
<1>10. CASE ReadHeader
  BY <1>1, <1>2, <1>5, <1>10, HeaderGoes
<1>11. CASE ReadPayload
  BY <1>1, <1>2, <1>5, <1>11, PayloadGoes
<1> QED
  BY <1>6, <1>7, <1>8, <1>9, <1>10, <1>11 DEF RxNext, HandleRxData, Quiet

\* The invariant holds in every behaviour.
LEMMA InvHolds == RxSpec => []Inv
<1>1. RxInit => Inv
  BY InvInit
<1>2. Inv /\ [RxNext]_rxVars => Inv'
  BY InvStep
<1> QED
  BY <1>1, <1>2, PTL DEF RxSpec

\* The frames are those of the messages that were read.
LEMMA FramesGiven ==
  ASSUME Inv
  PROVE  /\ Len(frames) <= Len(Framed)
         /\ \A i \in 1 .. Len(frames) : FrameOf(frames[i], Framed[i])
<1>1. PICK d, n : Where(d, n)
  BY DEF Inv
<1>2. sent \in Seq(Messages) /\ rx \in Seq(Byte) /\ frames \in Seq(Frames)
  BY DEF Inv, Types, StreamTypes
<1>3. d \in 0 .. Len(sent) /\ FramesOf(frames, sent, d)
  BY <1>1, <1>2, UnreadFacts DEF Where
<1>4. Framed = Picked(sent, Framing(sent))
  BY DEF Framed, Framing
<1> QED
  BY <1>2, <1>3, <1>4, FramesFit

\* FramesAsSent for any messages: handleRxData() finds the lines and lengths that the
\* module sent, however its reads cut the stream, in whatever call they are, whatever
\* failed meanwhile and whatever the payloads contain.
THEOREM FramesFound == RxSpec => []FramesAsSent
<1>1. Inv => FramesAsSent
  BY FramesGiven DEF FramesAsSent, FrameOf
<1> QED
  BY <1>1, InvHolds, PTL

\* PayloadIntact for any messages and sizes: a URC has all of its payload, a response
\* as much as its buffer takes, and handleBinaryRx() writes nothing behind a buffer.
THEOREM PayloadsArrive == RxSpec => []PayloadIntact
<1>1. ASSUME Inv
      PROVE  Len(binaryRx.data) <= binaryRx.bufferSize
  <2>1. PICK d, n : Where(d, n)
    BY <1>1 DEF Inv
  <2>2. /\ rx \in Seq(Byte) /\ sent \in Seq(Messages)
        /\ binaryRx.bufferSize \in Nat /\ Len(binaryRx.data) \in Nat
    BY <1>1, TransferTypes DEF Inv, Types, StreamTypes
  <2>3. d \in 0 .. Len(sent) /\ n \in Nat /\ (d < Len(sent) => sent[d + 1] \in Messages)
    BY <2>1, <2>2, UnreadFacts DEF Where
  <2>4. ASSUME binaryRx = Flush
        PROVE  Len(binaryRx.data) <= binaryRx.bufferSize
    BY <2>4, FlushFacts, EmptySeq
  <2>5. CASE d = Len(sent)
    BY <2>1, <2>4, <2>5 DEF Where, ParserAt, Between
  <2>6. CASE d # Len(sent)
    <3> DEFINE m == sent[d + 1]
               l == Len(m.line)
    <3>1. d < Len(sent)
      BY <2>2, <2>3, <2>6, LenProperties
    <3>2. l \in Nat
      BY <2>3, <3>1, MessageFacts
    <3>3. Parsed(m, n)
      BY <2>1, <2>6 DEF Where, ParserAt
    <3>4. n = 0 \/ n \in 1 .. l + 1 \/ n \in l + 2 .. l + 3 \/ n > l + 3
      BY <2>3, <3>2
    <3>5. binaryRx = Flush \/ Transfer(m, n - l - 4)
      BY <3>3, <3>4 DEF Parsed, Between
    <3>6. ASSUME Transfer(m, n - l - 4)
          PROVE  Len(binaryRx.data) <= binaryRx.bufferSize
      <4>1. n - l - 4 \in Int
        BY <2>3, <3>2
      <4> QED
        BY <2>2, <3>6, <4>1 DEF Transfer
    <3> QED
      BY <2>4, <3>5, <3>6
  <2> QED
    BY <2>5, <2>6
<1>2. Inv => PayloadIntact
  BY <1>1, FramesGiven DEF PayloadIntact, FrameOf
<1> QED
  BY <1>2, InvHolds, PTL

\* BufferIsLive for any messages: as long as no command gave up and each line fits,
\* setupBinaryTransfer() finds the buffer of the command that executes.
THEOREM BufferOfCommand == RxSpec => []BufferIsLive
<1>1. ASSUME Inv, Clean, binaryRx.state = "RSP"
      PROVE  binaryRx.owner = cmd /\ cmd # 0
  <2>1. PICK d, n : Where(d, n) /\ (Clean => Exchange(d))
    BY <1>1 DEF Inv
  <2>2. Exchange(d)
    BY <1>1, <2>1
  <2>3. d < Len(sent) /\ sent[d + 1].for = "query" /\ binaryRx.owner = cmd
    BY <1>1, <2>2 DEF Exchange, Target
  <2>4. rx \in Seq(Byte) /\ sent \in Seq(Messages)
    BY <1>1 DEF Inv, Types, StreamTypes
  <2>5. d \in Nat
    BY <2>1, <2>4, UnreadFacts DEF Where
  <2>6. d + 1 \in d + 1 .. Len(sent)
    BY <2>3, <2>4, <2>5, LenProperties
  <2>7. Unanswered
    BY <2>2, <2>3, <2>6 DEF Exchange, Pending
  <2> QED
    BY <2>3, <2>7 DEF Unanswered
<1>2. Inv => BufferIsLive
  BY <1>1 DEF BufferIsLive, Clean
<1> QED
  BY <1>2, InvHolds, PTL

-----------------------------------------------------------------------------
(* Induction and recursion up to a number                                  *)

\* A set that has 0, and each number whose predecessor it has, has them all.
LEMMA UpToNumber ==
  ASSUME NEW n \in Nat, NEW P, 0 \in P, \A k \in 1 .. n : k - 1 \in P => k \in P
  PROVE  \A k \in 0 .. n : k \in P
<1> DEFINE T == {k \in 0 .. n : k \notin P}
<1> SUFFICES ASSUME T # {}
             PROVE  FALSE
  OBVIOUS
<1>1. PICK k \in T : \A y \in T : k <= y
  <2>1. T \subseteq Nat
    OBVIOUS
  <2> HIDE DEF T
  <2> QED
    BY <2>1, LeastMember
<1>2. k \in 1 .. n /\ k - 1 \in 0 .. n /\ k \notin P
  OBVIOUS
<1>3. k - 1 \in T
  BY <1>2
<1> QED
  BY <1>1, <1>2, <1>3

\* Steps that compute a value for each number up to n from the one before, in the
\* set of values that the number may have, and a function of such values.
Computable(n, U, S, a, step) ==
  /\ n \in Nat /\ S \in [0 .. n -> SUBSET U] /\ a \in S[0]
  /\ \A k \in 1 .. n : \A s \in S[k - 1] : step[k][s] \in S[k]
Computed(f, n, U, S, a, step) ==
  /\ f \in [0 .. n -> U] /\ f[0] = a
  /\ \A k \in 0 .. n : f[k] \in S[k]
  /\ \A k \in 1 .. n : f[k] = step[k][f[k - 1]]

\* Such steps compute such a function.
LEMMA Recursion ==
  ASSUME NEW n, NEW U, NEW S, NEW a, NEW step, Computable(n, U, S, a, step)
  PROVE  \E f : Computed(f, n, U, S, a, step)
<1> USE DEF Computable
<1> DEFINE Computes(f, m) == /\ f \in [0 .. m -> U] /\ f[0] = a
                             /\ \A k \in 0 .. m : f[k] \in S[k]
                             /\ \A k \in 1 .. m : f[k] = step[k][f[k - 1]]
           P == {m \in 0 .. n : \E f : Computes(f, m)}
<1>1. 0 \in P
  <2> DEFINE f == [k \in 0 .. 0 |-> a]
  <2>1. Computes(f, 0)
    <3>1. a \in U
      OBVIOUS
    <3>2. f \in [0 .. 0 -> U] /\ f[0] = a
      BY <3>1
    <3>3. \A k \in 0 .. 0 : k = 0
      OBVIOUS
    <3>4. 0 .. 0 = {0} /\ 1 .. 0 = {}
      OBVIOUS
    <3> HIDE DEF f
    <3> QED
      BY <3>2, <3>3, <3>4
  <2> HIDE DEF f
  <2> QED
    BY <2>1
<1>2. ASSUME NEW m \in 1 .. n, m - 1 \in P
      PROVE  m \in P
  <2>1. PICK f : Computes(f, m - 1)
    BY <1>2
  <2> DEFINE g == [k \in 0 .. m |-> IF k < m THEN f[k] ELSE step[m][f[m - 1]]]
  <2>2. f[m - 1] \in S[m - 1] /\ step[m][f[m - 1]] \in S[m]
    <3>1. m - 1 \in 0 .. m - 1
      OBVIOUS
    <3> QED
      BY <2>1, <3>1
  <2>3. \A k \in 0 .. m - 1 : g[k] = f[k] /\ f[k] \in S[k]
    BY <2>1
  <2>5. g[0] = a
    BY <2>1
  <2>6. \A k \in 1 .. m : g[k] = step[k][g[k - 1]]
    <3> TAKE k \in 1 .. m
    <3>1. k - 1 \in 0 .. m - 1
      OBVIOUS
    <3>2. CASE k < m
      <4>1. f[k] = step[k][f[k - 1]]
        BY <2>1, <3>2
      <4>2. g[k] = f[k] /\ g[k - 1] = f[k - 1]
        BY <3>1, <3>2
      <4> QED
        BY <4>1, <4>2
    <3>3. CASE k = m
      <4>1. g[k] = step[m][f[m - 1]] /\ g[k - 1] = f[m - 1]
        BY <3>1, <3>3
      <4> QED
        BY <3>3, <4>1
    <3> QED
      BY <3>2, <3>3
  <2>7. \A k \in 0 .. m : g[k] \in S[k]
    <3> TAKE k \in 0 .. m
    <3>1. CASE k < m
      <4>1. k \in 0 .. m - 1
        BY <3>1
      <4> HIDE DEF g
      <4> QED
        BY <2>3, <4>1
    <3>2. CASE k = m
      <4>1. g[m] = step[m][f[m - 1]]
        OBVIOUS
      <4> QED
        BY <2>2, <3>2, <4>1
    <3> QED
      BY <3>1, <3>2
  <2>8. g \in [0 .. m -> U]
    <3> HIDE DEF g
    <3>1. \A k \in 0 .. m : g[k] \in U
      BY <2>7
    <3> QED
      BY <3>1 DEF g
  <2> HIDE DEF g
  <2> QED
    BY <2>5, <2>6, <2>7, <2>8
<1> HIDE DEF P
<1>3. \A k \in 0 .. n : k \in P
  BY <1>1, <1>2, UpToNumber
<1>4. n \in P
  BY <1>3
<1> QED
  BY <1>4 DEF P, Computed

\* A function that starts with the same value and computes the same values from
\* those is the same function.
LEMMA SameRecursion ==
  ASSUME NEW n \in Nat, NEW f, NEW g, g[0] = f[0],
         \A k \in 1 .. n : g[k - 1] = f[k - 1] => g[k] = f[k]
  PROVE  \A k \in 0 .. n : g[k] = f[k]
<1> DEFINE P == {k \in 0 .. n : g[k] = f[k]}
<1>1. 0 \in P
  OBVIOUS
<1>2. \A k \in 1 .. n : k - 1 \in P => k \in P
  OBVIOUS
<1> HIDE DEF P
<1>3. \A k \in 0 .. n : k \in P
  BY <1>1, <1>2, UpToNumber
<1> QED
  BY <1>3 DEF P

-----------------------------------------------------------------------------
(* Characters and hex digits                                               *)

\* A sequence is a function of its positions,
LEMMA SeqFacts ==
  ASSUME NEW S, NEW s \in Seq(S)
  PROVE  /\ DOMAIN s = 1 .. Len(s) /\ Len(s) \in Nat /\ s \in [1 .. Len(s) -> S]
         /\ \A i \in 1 .. Len(s) : s[i] \in S
OBVIOUS

\* and such a function is a sequence.
LEMMA FunctionIsSeq ==
  ASSUME NEW S, NEW n \in Nat, NEW s \in [1 .. n -> S]
  PROVE  s \in Seq(S) /\ Len(s) = n
OBVIOUS

\* A text is a function of its positions, and each such function is a text.
LEMMA TextFacts ==
  ASSUME NEW text \in Chars
  PROVE  /\ DOMAIN text = 1 .. Len(text) /\ Len(text) \in Nat
         /\ text \in [1 .. Len(text) -> 0 .. 255]
         /\ \A i \in 1 .. Len(text) : text[i] \in 0 .. 255
<1> DEFINE S == 0 .. 255
<1>1. text \in Seq(S)
  BY DEF Chars
<1> HIDE DEF S
<1>2. /\ DOMAIN text = 1 .. Len(text) /\ Len(text) \in Nat
      /\ text \in [1 .. Len(text) -> S]
      /\ \A i \in 1 .. Len(text) : text[i] \in S
  BY <1>1, SeqFacts
<1> QED
  BY <1>2 DEF S

\* (the other way round)
LEMMA IsText ==
  ASSUME NEW n \in Nat, NEW text \in [1 .. n -> 0 .. 255]
  PROVE  text \in Chars /\ Len(text) = n
<1> DEFINE S == 0 .. 255
<1>1. text \in [1 .. n -> S]
  OBVIOUS
<1> HIDE DEF S
<1>2. text \in Seq(S) /\ Len(text) = n
  BY <1>1, FunctionIsSeq
<1> QED
  BY <1>2 DEF S, Chars

\* Texts of one and of two characters, and with one more
LEMMA ShortTexts ==
  ASSUME NEW c \in 0 .. 255, NEW d \in 0 .. 255
  PROVE  <<c>> \in Chars /\ Len(<<c>>) = 1 /\ <<c, d>> \in Chars /\ Len(<<c, d>>) = 2
<1> DEFINE S == 0 .. 255
<1>1. c \in S /\ d \in S
  OBVIOUS
<1> HIDE DEF S
<1>2. <<c>> \in Seq(S) /\ Len(<<c>>) = 1 /\ <<c, d>> \in Seq(S) /\ Len(<<c, d>>) = 2
  BY <1>1
<1> QED
  BY <1>2 DEF S, Chars

\* A text with its NUL
LEMMA WithNUL ==
  ASSUME NEW text \in Chars
  PROVE  /\ text \o <<NUL>> \in Chars /\ Len(text \o <<NUL>>) = Len(text) + 1
         /\ (text \o <<NUL>>)[Len(text) + 1] = NUL
         /\ \A i \in 1 .. Len(text) : (text \o <<NUL>>)[i] = text[i]
<1> DEFINE S == 0 .. 255
<1>1. text \in Seq(S) /\ NUL \in S
  BY DEF Chars, NUL
<1> HIDE DEF S
<1>2. /\ text \o <<NUL>> \in Seq(S) /\ Len(text \o <<NUL>>) = Len(text) + 1
      /\ (text \o <<NUL>>)[Len(text) + 1] = NUL
      /\ \A i \in 1 .. Len(text) : (text \o <<NUL>>)[i] = text[i]
  BY <1>1
<1> QED
  BY <1>2 DEF S, Chars

\* A hex digit is less than 16, no digit is -1.
LEMMA NibbleFacts ==
  ASSUME NEW c \in 0 .. 255
  PROVE  hexToNibble[c] \in -1 .. 15
<1>1. hexToNibble[c] = CASE c \in 48 .. 57 -> c - 48
                         [] c \in 97 .. 102 -> c - 97 + 10
                         [] c \in 65 .. 70 -> c - 65 + 10
                         [] OTHER -> -1
  BY DEF hexToNibble
<1> QED
  BY <1>1

\* Two hex digits are a byte, or no byte.
LEMMA HexByteFacts ==
  ASSUME NEW high \in 0 .. 255, NEW low \in 0 .. 255
  PROVE  HexToByte(high, low) \in -1 .. 255
<1>1. hexToNibble[high] \in -1 .. 15 /\ hexToNibble[low] \in -1 .. 15
  BY NibbleFacts
<1> QED
  BY <1>1 DEF HexToByte

\* There are only characters in a text, and a NUL elsewhere.
LEMMA CharFacts ==
  ASSUME NEW text \in Chars, NEW i \in Int
  PROVE  CharAt(text, i) \in 0 .. 255
<1>1. CASE i \in DOMAIN text
  <2>1. text[i] \in 0 .. 255
    BY <1>1, TextFacts
  <2> QED
    BY <1>1, <2>1 DEF CharAt
<1>2. CASE i \notin DOMAIN text
  BY <1>2 DEF CharAt, NUL
<1> QED
  BY <1>1, <1>2

\* An escape sequence is not shorter than what it stands for.
LEMMA UnescapeFacts ==
  ASSUME NEW e \in 0 .. 255, NEW high \in 0 .. 255, NEW low \in 0 .. 255
  PROVE  LET piece == Unescape(e, high, low) IN
         /\ piece.chars \in Chars
         /\ piece.read \in Nat /\ 1 <= Len(piece.chars) /\ Len(piece.chars) <= piece.read
<1> DEFINE meant == {c \in DOMAIN EscapeLetter : EscapeLetter[c] = e}
           piece == Unescape(e, high, low)
<1>1. DOMAIN EscapeLetter \subseteq 0 .. 255
  BY DEF EscapeLetter, Quote, Backslash, NUL
<1>2. CASE meant # {}
  <2>1. piece = [chars |-> <<CHOOSE c \in meant : TRUE>>, read |-> 2]
    BY <1>2 DEF Unescape
  <2>2. (CHOOSE c \in meant : TRUE) \in 0 .. 255
    BY <1>1, <1>2
  <2> HIDE DEF meant
  <2>3. <<CHOOSE c \in meant : TRUE>> \in Chars
    BY <2>2, ShortTexts
  <2> QED
    BY <2>1, <2>3
<1>3. CASE meant = {} /\ e # 120
  <2>1. piece = [chars |-> <<Backslash, e>>, read |-> 2]
    BY <1>3 DEF Unescape
  <2>2. <<Backslash, e>> \in Chars
    <3>1. Backslash \in 0 .. 255
      BY DEF Backslash
    <3> QED
      BY <3>1, ShortTexts
  <2> QED
    BY <2>1, <2>2
<1>4. CASE meant = {} /\ e = 120
  <2>1. HexToByte(high, low) \in -1 .. 255
    BY HexByteFacts
  <2>2. CASE HexToByte(high, low) >= 0
    <3>1. piece = [chars |-> <<HexToByte(high, low)>>, read |-> 4]
      BY <1>4, <2>2 DEF Unescape
    <3>2. HexToByte(high, low) \in 0 .. 255
      BY <2>1, <2>2
    <3>3. <<HexToByte(high, low)>> \in Chars
      BY <3>2, ShortTexts
    <3> QED
      BY <3>1, <3>3
  <2>3. CASE ~(HexToByte(high, low) >= 0)
    <3>1. piece = [chars |-> <<e>>, read |-> 2]
      BY <1>4, <2>3 DEF Unescape
    <3>2. <<e>> \in Chars
      BY ShortTexts
    <3> QED
      BY <3>1, <3>2
  <2> QED
    BY <2>2, <2>3
<1> QED
  BY <1>2, <1>3, <1>4

\* Memory keeps its size, and has the new characters where they were written.
LEMMA WriteFacts ==
  ASSUME NEW mem \in Chars, NEW place \in Nat \ {0}, NEW chars \in Chars
  PROVE  /\ Write(mem, place, chars) \in Chars /\ Len(Write(mem, place, chars)) = Len(mem)
         /\ \A i \in 1 .. Len(mem) : i >= place + Len(chars) => Write(mem, place, chars)[i] = mem[i]
<1> DEFINE new == Write(mem, place, chars)
<1>1. /\ DOMAIN mem = 1 .. Len(mem) /\ \A i \in 1 .. Len(mem) : mem[i] \in 0 .. 255
      /\ Len(mem) \in Nat /\ Len(chars) \in Nat
      /\ \A i \in 1 .. Len(chars) : chars[i] \in 0 .. 255
  BY TextFacts
<1>2. new = [i \in 1 .. Len(mem) |-> IF i \in place .. place + Len(chars) - 1
                                     THEN chars[i - place + 1] ELSE mem[i]]
  BY <1>1 DEF Write
<1> HIDE DEF new
<1>3. \A i \in 1 .. Len(mem) : new[i] \in 0 .. 255
  <2> TAKE i \in 1 .. Len(mem)
  <2>1. CASE i \in place .. place + Len(chars) - 1
    <3>1. i - place + 1 \in 1 .. Len(chars)
      BY <1>1, <2>1
    <3> QED
      BY <1>1, <1>2, <2>1, <3>1
  <2>2. CASE ~(i \in place .. place + Len(chars) - 1)
    BY <1>1, <1>2, <2>2
  <2> QED
    BY <2>1, <2>2
<1>4. new \in [1 .. Len(mem) -> 0 .. 255]
  BY <1>2, <1>3
<1>5. new \in Chars /\ Len(new) = Len(mem)
  BY <1>1, <1>4, IsText
<1>6. \A i \in 1 .. Len(mem) : i >= place + Len(chars) => new[i] = mem[i]
  BY <1>1, <1>2
<1> QED
  BY <1>5, <1>6 DEF new

-----------------------------------------------------------------------------
(* Unescaping in place                                                     *)

\* How a text may look while it is unescaped: what was not read is still there.
Unescaped(text) ==
  {st \in [mem : Chars, read : Nat, write : Nat] :
     /\ Len(st.mem) = Len(text)
     /\ 1 <= st.write /\ st.write <= st.read
     /\ \A i \in 1 .. Len(text) : i >= st.read => st.mem[i] = text[i]}

\* Such a text can be read instead of the one that was there.
LEMMA UnescapeStep ==
  ASSUME NEW text \in Chars, NEW st \in Unescaped(text)
  PROVE  /\ UnescapeNext(text, TRUE, st) = UnescapeNext(text, FALSE, st)
         /\ UnescapeNext(text, FALSE, st) \in Unescaped(text)
<1> DEFINE Piece(from) ==
             IF CharAt(from, st.read) = Backslash /\ CharAt(from, st.read + 1) # NUL
             THEN Unescape(CharAt(from, st.read + 1), CharAt(from, st.read + 2),
                           CharAt(from, st.read + 3))
             ELSE [chars |-> <<CharAt(from, st.read)>>, read |-> 1]
           Next(from) ==
             IF CharAt(from, st.read) = NUL THEN st
             ELSE [mem |-> Write(st.mem, st.write, Piece(from).chars),
                   read |-> st.read + Piece(from).read,
                   write |-> st.write + Len(Piece(from).chars)]
<1>1. /\ st.mem \in Chars /\ st.read \in Nat \ {0} /\ st.write \in Nat \ {0}
      /\ Len(st.mem) = Len(text) /\ st.write <= st.read
      /\ \A i \in 1 .. Len(text) : i >= st.read => st.mem[i] = text[i]
  BY DEF Unescaped
<1>2. UnescapeNext(text, TRUE, st) = Next(st.mem) /\ UnescapeNext(text, FALSE, st) = Next(text)
  <2>1. st.read + 0 = st.read
    BY <1>1
  <2> QED
    BY <2>1 DEF UnescapeNext
<1>3. \A i \in {0, 1, 2, 3} : CharAt(st.mem, st.read + i) = CharAt(text, st.read + i)
  <2>1. DOMAIN st.mem = 1 .. Len(text) /\ DOMAIN text = 1 .. Len(text)
    BY <1>1, TextFacts
  <2> QED
    BY <1>1, <2>1 DEF CharAt
<1>4. /\ CharAt(st.mem, st.read) = CharAt(text, st.read)
      /\ CharAt(st.mem, st.read + 1) = CharAt(text, st.read + 1)
      /\ CharAt(st.mem, st.read + 2) = CharAt(text, st.read + 2)
      /\ CharAt(st.mem, st.read + 3) = CharAt(text, st.read + 3)
  <2>1. st.read + 0 = st.read
    BY <1>1
  <2> QED
    BY <1>3, <2>1
<1>5. Next(st.mem) = Next(text)
  BY <1>4
<1> DEFINE piece == Piece(text)
<1>6. /\ piece.chars \in Chars
      /\ piece.read \in Nat /\ 1 <= Len(piece.chars) /\ Len(piece.chars) <= piece.read
  <2>1. /\ CharAt(text, st.read) \in 0 .. 255 /\ CharAt(text, st.read + 1) \in 0 .. 255
        /\ CharAt(text, st.read + 2) \in 0 .. 255 /\ CharAt(text, st.read + 3) \in 0 .. 255
    <3>1. \A i \in Int : CharAt(text, i) \in 0 .. 255
      BY CharFacts
    <3>2. {st.read, st.read + 1, st.read + 2, st.read + 3} \subseteq Int
      BY <1>1
    <3> QED
      BY <3>1, <3>2
  <2>2. CASE CharAt(text, st.read) = Backslash /\ CharAt(text, st.read + 1) # NUL
    <3>1. piece = Unescape(CharAt(text, st.read + 1), CharAt(text, st.read + 2),
                           CharAt(text, st.read + 3))
      BY <2>2
    <3> HIDE DEF piece
    <3> QED
      BY <2>1, <3>1, UnescapeFacts
  <2>3. CASE ~(CharAt(text, st.read) = Backslash /\ CharAt(text, st.read + 1) # NUL)
    <3>1. piece = [chars |-> <<CharAt(text, st.read)>>, read |-> 1]
      BY <2>3
    <3>2. <<CharAt(text, st.read)>> \in Chars
      BY <2>1, ShortTexts
    <3> HIDE DEF piece
    <3> QED
      BY <3>1, <3>2
  <2> QED
    BY <2>2, <2>3
<1>7. Next(text) = IF CharAt(text, st.read) = NUL THEN st
                   ELSE [mem |-> Write(st.mem, st.write, piece.chars),
                         read |-> st.read + piece.read,
                         write |-> st.write + Len(piece.chars)]
  OBVIOUS
<1> HIDE DEF piece, Piece, Next
<1>8. Next(text) \in Unescaped(text)
  <2>1. CASE CharAt(text, st.read) = NUL
    BY <1>7, <2>1
  <2>2. CASE CharAt(text, st.read) # NUL
    <3> DEFINE new == Write(st.mem, st.write, piece.chars)
    <3>1. /\ new \in Chars /\ Len(new) = Len(text)
          /\ \A i \in 1 .. Len(text) : i >= st.write + Len(piece.chars) => new[i] = st.mem[i]
      <4>1. st.mem \in Chars /\ st.write \in Nat \ {0} /\ piece.chars \in Chars
        BY <1>1, <1>6
      <4>2. /\ new \in Chars /\ Len(new) = Len(st.mem)
            /\ \A i \in 1 .. Len(st.mem) : i >= st.write + Len(piece.chars) => new[i] = st.mem[i]
        BY <4>1, WriteFacts
      <4> HIDE DEF new
      <4> QED
        BY <1>1, <4>2
    <3>2. Next(text) = [mem |-> new, read |-> st.read + piece.read,
                        write |-> st.write + Len(piece.chars)]
      BY <1>7, <2>2
    <3> HIDE DEF new
    <3>3. Len(piece.chars) \in Nat
      BY <1>6, TextFacts
    <3>4. /\ st.read + piece.read \in Nat /\ st.write + Len(piece.chars) \in Nat
          /\ 1 <= st.write + Len(piece.chars)
          /\ st.write + Len(piece.chars) <= st.read + piece.read
          /\ st.read <= st.read + piece.read
      BY <1>1, <1>6, <3>3
    <3>5. \A i \in 1 .. Len(text) : i >= st.read + piece.read => new[i] = text[i]
      <4> TAKE i \in 1 .. Len(text)
      <4> HAVE i >= st.read + piece.read
      <4>1. Len(text) \in Nat
        BY TextFacts
      <4>2. i >= st.write + Len(piece.chars) /\ i >= st.read
        BY <1>1, <1>6, <3>4, <4>1
      <4> QED
        BY <1>1, <3>1, <4>2
    <3> QED
      BY <3>1, <3>2, <3>4, <3>5 DEF Unescaped
  <2> QED
    BY <2>1, <2>2
<1> QED
  BY <1>2, <1>5, <1>8

\* All steps of the unescaping
LEMMA UnescapeRecursion ==
  ASSUME NEW text \in Chars, NEW n \in Nat, NEW first \in Unescaped(text)
  PROVE  \E f : /\ f \in [0 .. n -> Unescaped(text)] /\ f[0] = first
                /\ \A k \in 1 .. n : f[k] = UnescapeNext(text, FALSE, f[k - 1])
<1> DEFINE U == Unescaped(text)
           step == [k \in 1 .. n |-> [st \in U |-> UnescapeNext(text, FALSE, st)]]
           S == [k \in 0 .. n |-> U]
<1>1. \A k \in 1 .. n : \A s \in S[k - 1] : step[k][s] \in S[k]
  <2> TAKE k \in 1 .. n
  <2>1. S[k - 1] = U /\ S[k] = U
    OBVIOUS
  <2> QED
    BY <2>1, UnescapeStep
<1>2. first \in S[0]
  OBVIOUS
<1>3. \A k \in 1 .. n : \A s \in U : step[k][s] = UnescapeNext(text, FALSE, s)
  OBVIOUS
<1>4. S \in [0 .. n -> SUBSET U]
  OBVIOUS
<1> HIDE DEF U, S, step
<1>5. PICK f : /\ f \in [0 .. n -> U] /\ f[0] = first
               /\ \A k \in 0 .. n : f[k] \in S[k]
               /\ \A k \in 1 .. n : f[k] = step[k][f[k - 1]]
  <2>1. Computable(n, U, S, first, step)
    BY <1>1, <1>2, <1>4 DEF Computable
  <2>2. PICK f : Computed(f, n, U, S, first, step)
    BY <2>1, Recursion
  <2> QED
    BY <2>2 DEF Computed
<1>6. \A k \in 1 .. n : f[k] = UnescapeNext(text, FALSE, f[k - 1])
  <2> TAKE k \in 1 .. n
  <2>1. f[k - 1] \in U
    BY <1>5
  <2> QED
    BY <1>3, <1>5, <2>1
<1> QED
  BY <1>5, <1>6, Zenon DEF U

\* What the steps of the unescaping compute, in place or not
LEMMA UnescapingFacts ==
  ASSUME NEW text \in Chars
  PROVE  \E f : /\ f \in [0 .. Len(text) -> Unescaped(text)]
                /\ f[0] = [mem |-> text, read |-> 1, write |-> 1]
                /\ \A k \in 1 .. Len(text) : f[k] = UnescapeNext(text, FALSE, f[k - 1])
                /\ \A inPlace \in BOOLEAN : Unescaping(text, inPlace) = f[Len(text)]
<1> DEFINE n == Len(text)
           first == [mem |-> text, read |-> 1, write |-> 1]
           Of(inPlace, g) == g = [k \in 0 .. n |-> IF k = 0 THEN first
                                                  ELSE UnescapeNext(text, inPlace, g[k - 1])]
<1>1. text \in Chars
  OBVIOUS
<1>2. n \in Nat
  BY <1>1, TextFacts
<1>3. \A inPlace \in BOOLEAN : Unescaping(text, inPlace) = (CHOOSE g : Of(inPlace, g))[n]
  BY DEF Unescaping
<1> HIDE DEF n
<1>4. first \in Unescaped(text)
  BY <1>1 DEF Unescaped
<1> HIDE DEF first
<1>5. PICK f : /\ f \in [0 .. n -> Unescaped(text)] /\ f[0] = first
               /\ \A k \in 1 .. n : f[k] = UnescapeNext(text, FALSE, f[k - 1])
  BY <1>1, <1>2, <1>4, UnescapeRecursion
<1>6. ASSUME NEW inPlace \in BOOLEAN
      PROVE  (CHOOSE g : Of(inPlace, g))[n] = f[n]
  <2>1. \A k \in 1 .. n : f[k] = UnescapeNext(text, inPlace, f[k - 1])
    <3> TAKE k \in 1 .. n
    <3>1. f[k - 1] \in Unescaped(text)
      BY <1>2, <1>5
    <3> QED
      BY <1>1, <1>5, <3>1, UnescapeStep
  <2>2. Of(inPlace, f)
    <3>1. \A k \in 0 .. n : f[k] = IF k = 0 THEN first ELSE UnescapeNext(text, inPlace, f[k - 1])
      BY <1>2, <1>5, <2>1
    <3> QED
      BY <1>5, <3>1
  <2>3. PICK g : g = (CHOOSE h : Of(inPlace, h)) /\ Of(inPlace, g)
    BY <2>2
  <2>4. g[0] = f[0] /\ \A k \in 1 .. n : g[k] = UnescapeNext(text, inPlace, g[k - 1])
    <3>1. g = [k \in 0 .. n |-> IF k = 0 THEN first ELSE UnescapeNext(text, inPlace, g[k - 1])]
      BY <2>3
    <3>2. \A k \in 0 .. n : g[k] = IF k = 0 THEN first
                                   ELSE UnescapeNext(text, inPlace, g[k - 1])
      BY <3>1
    <3>3. g[0] = first
      BY <1>2, <3>2
    <3>4. \A k \in 1 .. n : k \in 0 .. n /\ k # 0
      BY <1>2
    <3> QED
      BY <1>5, <3>2, <3>3, <3>4
  <2>5. \A k \in 0 .. n : g[k] = f[k]
    <3>1. \A k \in 1 .. n : g[k - 1] = f[k - 1] => g[k] = f[k]
      BY <2>1, <2>4
    <3> QED
      BY <1>2, <2>4, <3>1, SameRecursion
  <2> QED
    BY <1>2, <2>3, <2>5
<1>7. \A inPlace \in BOOLEAN : Unescaping(text, inPlace) = f[n]
  BY <1>3, <1>6
<1> QED
  BY <1>5, <1>7 DEF n, first

\* A text that is unescaped over itself is what it is in another place.
LEMMA UnescapeInPlace ==
  ASSUME NEW str \in Chars
  PROVE  UnescapeString(str, TRUE) = UnescapeString(str, FALSE)
<1>1. str \o <<NUL>> \in Chars
  BY WithNUL
<1>2. Unescaping(str \o <<NUL>>, TRUE) = Unescaping(str \o <<NUL>>, FALSE)
  BY <1>1, UnescapingFacts
<1> QED
  BY <1>2 DEF UnescapeString

-----------------------------------------------------------------------------
(* Byte arrays in place                                                    *)

\* How a text may look when i bytes were taken from it: what is behind them is
\* still there.
Taken(text, i) ==
  {st \in [ok : BOOLEAN, mem : Chars] :
     /\ Len(st.mem) = Len(text)
     /\ \A j \in 1 .. Len(text) : j > i => st.mem[j] = text[j]}

\* Such a text has the next two digits.
LEMMA ByteStep ==
  ASSUME NEW text \in Chars, NEW i \in Nat \ {0}, 2 * i <= Len(text), NEW st \in Taken(text, i - 1)
  PROVE  /\ ByteNext(text, TRUE, st, i) = ByteNext(text, FALSE, st, i)
         /\ ByteNext(text, FALSE, st, i) \in Taken(text, i)
<1> DEFINE byte == HexToByte(text[2 * i - 1], text[2 * i])
           next == IF st.ok /\ byte >= 0 THEN [st EXCEPT !.mem[i] = byte]
                   ELSE [st EXCEPT !.ok = FALSE]
<1>1. /\ st.ok \in BOOLEAN /\ st.mem \in Chars /\ st = [ok |-> st.ok, mem |-> st.mem]
      /\ Len(st.mem) = Len(text)
      /\ \A j \in 1 .. Len(text) : j > i - 1 => st.mem[j] = text[j]
  BY DEF Taken
<1>2. Len(text) \in Nat /\ st.mem \in [1 .. Len(text) -> 0 .. 255]
      /\ \A j \in 1 .. Len(text) : text[j] \in 0 .. 255
  <2>1. st.mem \in [1 .. Len(st.mem) -> 0 .. 255]
    BY <1>1, TextFacts
  <2> QED
    BY <1>1, <2>1, TextFacts
<1>3. /\ 2 * i - 1 \in 1 .. Len(text) /\ 2 * i \in 1 .. Len(text) /\ i \in 1 .. Len(text)
      /\ 2 * i - 1 > i - 1 /\ 2 * i > i - 1
  <2>1. Len(text) \in Nat
    BY <1>2
  <2> QED
    BY <2>1
<1>4. st.mem[2 * i - 1] = text[2 * i - 1] /\ st.mem[2 * i] = text[2 * i]
  BY <1>1, <1>3
<1>5. ByteNext(text, TRUE, st, i) = next /\ ByteNext(text, FALSE, st, i) = next
  BY <1>4 DEF ByteNext
<1>6. byte \in -1 .. 255
  <2>1. text[2 * i - 1] \in 0 .. 255 /\ text[2 * i] \in 0 .. 255
    BY <1>2, <1>3
  <2> QED
    BY <2>1, HexByteFacts
<1>7. next \in Taken(text, i)
  <2>1. CASE st.ok /\ byte >= 0
    <3> DEFINE new == [st.mem EXCEPT ![i] = byte]
    <3>1. next = [ok |-> st.ok, mem |-> new]
      BY <1>1, <2>1
    <3>2. byte \in 0 .. 255
      BY <1>6, <2>1
    <3> HIDE DEF byte
    <3>3. new \in [1 .. Len(text) -> 0 .. 255]
      BY <1>2, <3>2
    <3>4. \A j \in 1 .. Len(text) : j # i => new[j] = st.mem[j]
      BY <1>2
    <3> HIDE DEF new, next
    <3>5. new \in Chars /\ Len(new) = Len(text)
      BY <1>2, <3>3, IsText
    <3>6. \A j \in 1 .. Len(text) : j > i => new[j] = text[j]
      <4> TAKE j \in 1 .. Len(text)
      <4> HAVE j > i
      <4>1. j # i /\ j > i - 1
        BY <1>2
      <4> QED
        BY <1>1, <3>4, <4>1
    <3> QED
      BY <1>1, <3>1, <3>5, <3>6 DEF Taken
  <2>2. CASE ~(st.ok /\ byte >= 0)
    <3>1. next = [ok |-> FALSE, mem |-> st.mem]
      BY <1>1, <2>2
    <3>2. \A j \in 1 .. Len(text) : j > i => st.mem[j] = text[j]
      <4> TAKE j \in 1 .. Len(text)
      <4> HAVE j > i
      <4>1. j > i - 1
        BY <1>2
      <4> QED
        BY <1>1, <4>1
    <3> HIDE DEF next
    <3> QED
      BY <1>1, <3>1, <3>2 DEF Taken
  <2> QED
    BY <2>1, <2>2
<1> HIDE DEF next
<1> QED
  BY <1>5, <1>7

\* All bytes that are taken from a text
TakesBytes(f, text, n) ==
  /\ f \in [0 .. n -> [ok : BOOLEAN, mem : Chars]]
  /\ f[0] = [ok |-> TRUE, mem |-> text]
  /\ \A k \in 0 .. n : f[k] \in Taken(text, k)
  /\ \A k \in 1 .. n : f[k] = ByteNext(text, FALSE, f[k - 1], k)

\* are computed one after the other.
LEMMA ByteRecursion ==
  ASSUME NEW text \in Chars, NEW n \in Nat, 2 * n <= Len(text)
  PROVE  \E f : TakesBytes(f, text, n)
<1> DEFINE U == [ok : BOOLEAN, mem : Chars]
           first == [ok |-> TRUE, mem |-> text]
           step == [k \in 1 .. n |-> [st \in U |-> ByteNext(text, FALSE, st, k)]]
           S == [k \in 0 .. n |-> Taken(text, k)]
<1>1. Len(text) \in Nat /\ \A k \in 1 .. n : k \in Nat \ {0} /\ k - 1 \in 0 .. n /\ 2 * k <= Len(text)
  <2>1. Len(text) \in Nat
    BY TextFacts
  <2> QED
    BY <2>1
<1>2. \A k \in 0 .. n : Taken(text, k) \subseteq U
  BY DEF Taken
<1>3. \A k \in 1 .. n : \A s \in U : step[k][s] = ByteNext(text, FALSE, s, k)
  OBVIOUS
<1>4. \A k \in 0 .. n : S[k] = Taken(text, k)
  OBVIOUS
<1>5. S \in [0 .. n -> SUBSET U]
  BY <1>2
<1> HIDE DEF S, step, U
<1>6. \A k \in 1 .. n : \A s \in S[k - 1] : step[k][s] \in S[k]
  <2> TAKE k \in 1 .. n
  <2> TAKE s \in S[k - 1]
  <2>1. s \in Taken(text, k - 1) /\ s \in U /\ S[k] = Taken(text, k)
    BY <1>1, <1>2, <1>4
  <2>2. ByteNext(text, FALSE, s, k) \in Taken(text, k)
    BY <1>1, <2>1, ByteStep
  <2> QED
    BY <1>3, <2>1, <2>2
<1>7. first \in S[0]
  <2>1. first \in Taken(text, 0)
    BY DEF Taken
  <2> QED
    BY <1>4, <2>1
<1> HIDE DEF first
<1>8. PICK f : Computed(f, n, U, S, first, step)
  <2>1. Computable(n, U, S, first, step)
    BY <1>5, <1>6, <1>7 DEF Computable
  <2> QED
    BY <2>1, Recursion
<1>9. f \in [0 .. n -> U] /\ f[0] = first /\ \A k \in 0 .. n : f[k] \in Taken(text, k)
  BY <1>4, <1>8 DEF Computed
<1>10. \A k \in 1 .. n : f[k] = ByteNext(text, FALSE, f[k - 1], k)
  <2> TAKE k \in 1 .. n
  <2>1. f[k - 1] \in U /\ f[k] = step[k][f[k - 1]]
    BY <1>1, <1>8, <1>9 DEF Computed
  <2> QED
    BY <1>3, <2>1
<1> QED
  BY <1>9, <1>10 DEF U, first, TakesBytes

\* A byte array that is put where its digits are is what it is in another place.
LEMMA BytesInPlace ==
  ASSUME NEW text \in Chars
  PROVE  ByteArray(text, TRUE) = ByteArray(text, FALSE)
<1> DEFINE n == Len(text) \div 2
           first == [ok |-> TRUE, mem |-> text]
           Result(st) == IF Len(text) % 2 = 0 /\ st.ok THEN Valid(SubSeq(st.mem, 1, n))
                         ELSE Invalid
           Of(inPlace, g) == g = [k \in 0 .. n |-> IF k = 0 THEN first
                                                  ELSE ByteNext(text, inPlace, g[k - 1], k)]
<1>1. n \in Nat /\ 2 * n <= Len(text)
  <2>1. Len(text) \in Nat
    BY TextFacts
  <2> QED
    BY <2>1
<1>2. BytesOf(text, TRUE, n) = (CHOOSE g : Of(TRUE, g))[n]
      /\ BytesOf(text, FALSE, n) = (CHOOSE g : Of(FALSE, g))[n]
  <2> HIDE DEF n
  <2> QED
    BY DEF BytesOf
<1>3. /\ ByteArray(text, TRUE) = Result(BytesOf(text, TRUE, n))
      /\ ByteArray(text, FALSE) = Result(BytesOf(text, FALSE, n))
  BY DEF ByteArray
<1> HIDE DEF n
<1>4. PICK f : TakesBytes(f, text, n)
  BY <1>1, ByteRecursion
<1>5. /\ f \in [0 .. n -> [ok : BOOLEAN, mem : Chars]] /\ f[0] = first
      /\ \A k \in 0 .. n : f[k] \in Taken(text, k)
      /\ \A k \in 1 .. n : f[k] = ByteNext(text, FALSE, f[k - 1], k)
  BY <1>4 DEF TakesBytes
<1> HIDE DEF first
<1>6. ASSUME NEW inPlace \in BOOLEAN
      PROVE  (CHOOSE g : Of(inPlace, g))[n] = f[n]
  <2>1. \A k \in 1 .. n : f[k] = ByteNext(text, inPlace, f[k - 1], k)
    <3> TAKE k \in 1 .. n
    <3>1. f[k - 1] \in Taken(text, k - 1) /\ f[k] = ByteNext(text, FALSE, f[k - 1], k)
      <4>1. k - 1 \in 0 .. n
        BY <1>1
      <4> QED
        BY <1>5, <4>1
    <3>2. k \in Nat \ {0} /\ 2 * k <= Len(text)
      <4>1. Len(text) \in Nat
        BY TextFacts
      <4> QED
        BY <1>1, <4>1
    <3>3. ByteNext(text, TRUE, f[k - 1], k) = ByteNext(text, FALSE, f[k - 1], k)
      BY <3>1, <3>2, ByteStep
    <3> QED
      BY <3>1, <3>3
  <2>2. Of(inPlace, f)
    <3>1. \A k \in 0 .. n : f[k] = IF k = 0 THEN first ELSE ByteNext(text, inPlace, f[k - 1], k)
      BY <1>1, <1>5, <2>1
    <3> QED
      BY <1>5, <3>1
  <2>3. PICK g : g = (CHOOSE h : Of(inPlace, h)) /\ Of(inPlace, g)
    BY <2>2
  <2>4. g[0] = f[0] /\ \A k \in 1 .. n : g[k] = ByteNext(text, inPlace, g[k - 1], k)
    <3>1. g = [k \in 0 .. n |-> IF k = 0 THEN first ELSE ByteNext(text, inPlace, g[k - 1], k)]
      BY <2>3
    <3>2. \A k \in 0 .. n : g[k] = IF k = 0 THEN first
                                   ELSE ByteNext(text, inPlace, g[k - 1], k)
      BY <3>1
    <3>3. g[0] = first
      BY <1>1, <3>2
    <3>4. \A k \in 1 .. n : k \in 0 .. n /\ k # 0
      BY <1>1
    <3> QED
      BY <1>5, <3>2, <3>3, <3>4
  <2>5. \A k \in 0 .. n : g[k] = f[k]
    <3>1. \A k \in 1 .. n : g[k - 1] = f[k - 1] => g[k] = f[k]
      BY <2>1, <2>4
    <3> QED
      BY <1>1, <2>4, <3>1, SameRecursion
  <2> QED
    BY <1>1, <2>3, <2>5
<1>7. BytesOf(text, TRUE, n) = BytesOf(text, FALSE, n)
  BY <1>2, <1>6
<1> HIDE DEF Result
<1> QED
  BY <1>3, <1>7

-----------------------------------------------------------------------------
(* Numbers in a text                                                       *)

\* The values of the first m digits from a position on
ReadsNumber(f, text, first, m) ==
  /\ f \in [0 .. m -> Int] /\ f[0] = 0
  /\ \A k \in 1 .. m : f[k] = 10 * f[k - 1] + hexToNibble[text[first + k - 1]]

\* A number is computed digit by digit.
LEMMA DigitsRecursion ==
  ASSUME NEW text \in Chars, NEW first \in Nat \ {0}, NEW m \in Nat, first + m - 1 <= Len(text)
  PROVE  \E f : ReadsNumber(f, text, first, m) /\ DigitsValue(text, first, m, 10) = f[m]
<1> DEFINE digit(k) == hexToNibble[text[first + k - 1]]
           step == [k \in 1 .. m |-> [s \in Int |-> 10 * s + digit(k)]]
           S == [k \in 0 .. m |-> Int]
           Of(g) == g = [k \in 0 .. m |-> IF k = 0 THEN 0 ELSE 10 * g[k - 1] + digit(k)]
<1>1. \A k \in 1 .. m : digit(k) \in Int
  <2> TAKE k \in 1 .. m
  <2>1. first + k - 1 \in 1 .. Len(text)
    <3>1. Len(text) \in Nat
      BY TextFacts
    <3> QED
      BY <3>1
  <2>2. text[first + k - 1] \in 0 .. 255
    BY <2>1, TextFacts
  <2>3. hexToNibble[text[first + k - 1]] \in -1 .. 15
    BY <2>2, NibbleFacts
  <2> QED
    BY <2>3
<1>2. DigitsValue(text, first, m, 10) = (CHOOSE g : Of(g))[m]
  BY DEF DigitsValue
<1> HIDE DEF digit
<1>3. \A k \in 1 .. m : \A s \in Int : step[k][s] = 10 * s + digit(k) /\ step[k][s] \in Int
  BY <1>1
<1>4. \A k \in 0 .. m : S[k] = Int
  OBVIOUS
<1>5. S \in [0 .. m -> SUBSET Int]
  OBVIOUS
<1>6. \A k \in 1 .. m : k \in 0 .. m /\ k - 1 \in 0 .. m
  OBVIOUS
<1> HIDE DEF S, step
<1>7. PICK f : Computed(f, m, Int, S, 0, step)
  <2>1. Computable(m, Int, S, 0, step)
    <3>1. \A k \in 1 .. m : \A s \in S[k - 1] : step[k][s] \in S[k]
      <4> TAKE k \in 1 .. m
      <4>1. S[k - 1] = Int /\ S[k] = Int
        BY <1>4, <1>6
      <4> QED
        BY <1>3, <4>1
    <3>2. 0 \in S[0]
      BY <1>4
    <3> QED
      BY <1>5, <3>1, <3>2 DEF Computable
  <2> QED
    BY <2>1, Recursion
<1>8. f \in [0 .. m -> Int] /\ f[0] = 0
  BY <1>7 DEF Computed
<1>9. \A k \in 1 .. m : f[k] = 10 * f[k - 1] + digit(k)
  <2> TAKE k \in 1 .. m
  <2>1. f[k - 1] \in Int
    BY <1>6, <1>8
  <2> QED
    BY <1>3, <1>7, <2>1 DEF Computed
<1>10. Of(f)
  <2>1. \A k \in 0 .. m : f[k] = IF k = 0 THEN 0 ELSE 10 * f[k - 1] + digit(k)
    BY <1>8, <1>9
  <2> QED
    BY <1>8, <2>1
<1>11. PICK g : g = (CHOOSE h : Of(h)) /\ Of(g)
  BY <1>10
<1>12. g[0] = 0 /\ \A k \in 1 .. m : g[k] = 10 * g[k - 1] + digit(k)
  <2>1. g = [k \in 0 .. m |-> IF k = 0 THEN 0 ELSE 10 * g[k - 1] + digit(k)]
    BY <1>11
  <2>2. \A k \in 0 .. m : g[k] = IF k = 0 THEN 0 ELSE 10 * g[k - 1] + digit(k)
    BY <2>1
  <2>3. 0 \in 0 .. m /\ \A k \in 1 .. m : k # 0
    OBVIOUS
  <2> QED
    BY <1>6, <2>2, <2>3
<1>13. \A k \in 0 .. m : g[k] = f[k]
  <2>1. \A k \in 1 .. m : g[k - 1] = f[k - 1] => g[k] = f[k]
    BY <1>9, <1>12
  <2>2. g[0] = f[0]
    BY <1>8, <1>12
  <2> QED
    BY <2>1, <2>2, SameRecursion
<1>14. ReadsNumber(f, text, first, m)
  BY <1>8, <1>9 DEF ReadsNumber, digit
<1> HIDE DEF Of
<1> QED
  BY <1>2, <1>11, <1>13, <1>14

\* The same digits are the same number.
LEMMA DigitsAgree ==
  ASSUME NEW a \in Chars, NEW b \in Chars, NEW first \in Nat \ {0}, NEW m \in Nat,
         first + m - 1 <= Len(a), Len(a) = Len(b),
         \A i \in first .. Len(a) : a[i] = b[i]
  PROVE  /\ DigitsValue(a, first, m, 10) = DigitsValue(b, first, m, 10)
         /\ DigitsValue(a, first, m, 10) \in Int
<1>1. PICK f : ReadsNumber(f, a, first, m) /\ DigitsValue(a, first, m, 10) = f[m]
  BY DigitsRecursion
<1>2. PICK g : ReadsNumber(g, b, first, m) /\ DigitsValue(b, first, m, 10) = g[m]
  BY DigitsRecursion
<1>3. \A k \in 1 .. m : a[first + k - 1] = b[first + k - 1]
  <2> TAKE k \in 1 .. m
  <2>1. first + k - 1 \in first .. Len(a)
    <3>1. Len(a) \in Nat
      BY TextFacts
    <3> QED
      BY <3>1
  <2> QED
    BY <2>1
<1>4. \A k \in 0 .. m : g[k] = f[k]
  <2>1. \A k \in 1 .. m : g[k - 1] = f[k - 1] => g[k] = f[k]
    BY <1>1, <1>2, <1>3 DEF ReadsNumber
  <2>2. g[0] = f[0]
    BY <1>1, <1>2 DEF ReadsNumber
  <2> QED
    BY <2>1, <2>2, SameRecursion
<1>5. f[m] \in Int
  BY <1>1 DEF ReadsNumber
<1> QED
  BY <1>1, <1>2, <1>4, <1>5

\* Digits end at the NUL, or before it.
LEMMA DigitsEndFacts ==
  ASSUME NEW text \in Chars, NEW first \in 1 .. Len(text), text[Len(text)] = NUL
  PROVE  DigitsEnd(text, first, 10) \in first .. Len(text)
<1> DEFINE T == {i \in first .. Len(text) + 1 : hexToNibble[CharAt(text, i)] \notin 0 .. 10 - 1}
<1>1. Len(text) \in Nat /\ DOMAIN text = 1 .. Len(text)
  BY TextFacts
<1>2. Len(text) \in T
  <2>1. CharAt(text, Len(text)) = 0
    BY <1>1 DEF CharAt, NUL
  <2>2. hexToNibble[0] = -1
    BY DEF hexToNibble
  <2>3. Len(text) \in first .. Len(text) + 1
    BY <1>1
  <2> QED
    BY <2>1, <2>2, <2>3
<1>3. T \subseteq Nat /\ \A i \in T : first <= i
  BY <1>1
<1>4. DigitsEnd(text, first, 10) = CHOOSE x \in T : \A y \in T : x <= y
  BY DEF DigitsEnd, Min
<1> HIDE DEF T
<1>5. \E x \in T : \A y \in T : x <= y
  BY <1>2, <1>3, LeastMember
<1>6. PICK x : x = DigitsEnd(text, first, 10) /\ x \in T /\ \A y \in T : x <= y
  BY <1>4, <1>5
<1>7. first <= x /\ x <= Len(text) /\ x \in Nat
  BY <1>2, <1>3, <1>6
<1> QED
  BY <1>1, <1>6, <1>7

\* A number is read from what is in a text from its position on.
LEMMA StrtolAgrees ==
  ASSUME NEW a \in Chars, NEW b \in Chars, Len(a) = Len(b), b[Len(b)] = NUL,
         NEW from \in 1 .. Len(b), \A i \in from .. Len(b) : a[i] = b[i]
  PROVE  /\ Strtol(a, from, 10) = Strtol(b, from, 10)
         /\ Strtol(b, from, 10).value \in Int /\ Strtol(b, from, 10).end \in from .. Len(b)
<1> DEFINE first(t) == IF CharAt(t, from) \in {43, 45} THEN from + 1 ELSE from
           end(t) == DigitsEnd(t, first(t), 10)
           value(t) == DigitsValue(t, first(t), end(t) - first(t), 10)
<1>1. Len(b) \in Nat /\ DOMAIN a = 1 .. Len(b) /\ DOMAIN b = 1 .. Len(b)
  <2>1. DOMAIN a = 1 .. Len(a)
    BY TextFacts
  <2> QED
    BY <2>1, TextFacts
<1>2. \A i \in Int : i >= from => CharAt(a, i) = CharAt(b, i)
  <2> TAKE i \in Int
  <2> HAVE i >= from
  <2>1. CASE i \in 1 .. Len(b)
    <3>1. i \in from .. Len(b)
      BY <1>1, <2>1
    <3> QED
      BY <1>1, <2>1, <3>1 DEF CharAt
  <2>2. CASE i \notin 1 .. Len(b)
    BY <1>1, <2>2 DEF CharAt
  <2> QED
    BY <2>1, <2>2
<1>3. \A t \in {a, b} :
        /\ Strtol(t, from, 10).value = IF CharAt(t, from) = 45 THEN -value(t) ELSE value(t)
        /\ Strtol(t, from, 10).end = IF end(t) = first(t) THEN from ELSE end(t)
        /\ Strtol(t, from, 10) = [value |-> IF CharAt(t, from) = 45 THEN -value(t) ELSE value(t),
                                  end |-> IF end(t) = first(t) THEN from ELSE end(t)]
  BY DEF Strtol
<1>4. CharAt(a, from) = CharAt(b, from)
  <2>1. from \in Int /\ from >= from
    BY <1>1
  <2> QED
    BY <1>2, <2>1
<1>5. first(a) = first(b)
  BY <1>4
<1>6. first(b) \in from .. Len(b) /\ first(b) \in 1 .. Len(b)
  <2>1. CASE CharAt(b, from) \in {43, 45}
    <3>1. from # Len(b)
      <4>1. CharAt(b, Len(b)) = 0
        BY <1>1 DEF CharAt, NUL
      <4> QED
        BY <2>1, <4>1
    <3>2. first(b) = from + 1
      BY <2>1
    <3>3. Len(b) \in Nat
      BY <1>1
    <3> HIDE DEF first
    <3> QED
      BY <3>1, <3>2, <3>3
  <2>2. CASE CharAt(b, from) \notin {43, 45}
    <3>1. first(b) = from
      BY <2>2
    <3> HIDE DEF first
    <3> QED
      BY <1>1, <3>1
  <2> QED
    BY <2>1, <2>2
<1> HIDE DEF first
<1>7. end(a) = end(b)
  <2> DEFINE T(t) == {i \in first(b) .. Len(b) + 1 : hexToNibble[CharAt(t, i)] \notin 0 .. 10 - 1}
  <2>1. T(a) = T(b)
    <3>1. \A i \in first(b) .. Len(b) + 1 : CharAt(a, i) = CharAt(b, i)
      <4> TAKE i \in first(b) .. Len(b) + 1
      <4>1. i \in Int /\ i >= from
        BY <1>1, <1>6
      <4> QED
        BY <1>2, <4>1
    <3> QED
      BY <3>1
  <2>2. end(a) = Min(T(a)) /\ end(b) = Min(T(b))
    BY <1>5 DEF DigitsEnd
  <2> HIDE DEF T, end
  <2> QED
    BY <2>1, <2>2
<1>8. end(b) \in first(b) .. Len(b)
  BY <1>6, DigitsEndFacts
<1> HIDE DEF end
<1>9. value(a) = value(b) /\ value(b) \in Int
  <2> DEFINE m == end(b) - first(b)
  <2>1. m \in Nat /\ first(b) + m - 1 <= Len(b) /\ first(b) \in Nat \ {0}
    BY <1>1, <1>6, <1>8
  <2>2. \A i \in first(b) .. Len(b) : b[i] = a[i]
    <3> TAKE i \in first(b) .. Len(b)
    <3>1. i \in from .. Len(b)
      BY <1>1, <1>6
    <3> QED
      BY <3>1
  <2>3. value(a) = DigitsValue(a, first(b), m, 10) /\ value(b) = DigitsValue(b, first(b), m, 10)
    BY <1>5, <1>7
  <2> HIDE DEF m, value
  <2>4. DigitsValue(b, first(b), m, 10) = DigitsValue(a, first(b), m, 10)
        /\ DigitsValue(b, first(b), m, 10) \in Int
    BY <2>1, <2>2, DigitsAgree
  <2> QED
    BY <2>3, <2>4
<1> HIDE DEF value
<1>10. Strtol(a, from, 10) = Strtol(b, from, 10)
  BY <1>3, <1>4, <1>5, <1>7, <1>9
<1>11. Strtol(b, from, 10).value \in Int
  BY <1>3, <1>9
<1>12. Strtol(b, from, 10).end \in from .. Len(b)
  <2>1. end(b) \in from .. Len(b) /\ from \in from .. Len(b)
    BY <1>1, <1>6, <1>8
  <2> QED
    BY <1>3, <2>1
<1> QED
  BY <1>10, <1>11, <1>12

-----------------------------------------------------------------------------
(* Integer lists in place                                                  *)

\* How a list may look when i of its values were put in place: what is behind
\* them is still there, and the next number is behind them too.
Listed(memory, count, i) ==
  {st \in [ok : BOOLEAN, mem : Chars, pos : Nat] :
     /\ Len(st.mem) = Len(memory)
     /\ st.ok => /\ st.pos \in 1 .. Len(memory) /\ st.pos > 2 * i
                 /\ i < count => st.pos > 2 * i + 1
                 /\ \A j \in 1 .. Len(memory) : j > 2 * i => st.mem[j] = memory[j]}

\* A value has two bytes.
LEMMA LowHighFacts ==
  ASSUME NEW n \in Int
  PROVE  LowHigh(n) \in Chars /\ Len(LowHigh(n)) = 2
<1> DEFINE low == n % 256
           high == (n % 65536) \div 256
<1>1. low \in 0 .. 255 /\ high \in 0 .. 255
  OBVIOUS
<1>2. LowHigh(n) = [i \in 1 .. 2 |-> CASE i = 1 -> low [] i = 2 -> high [] OTHER -> 0]
  BY DEF LowHigh, ElementSize
<1> HIDE DEF low, high
<1>3. LowHigh(n) \in [1 .. 2 -> 0 .. 255]
  <2>1. \A i \in 1 .. 2 : i = 1 \/ i = 2
    OBVIOUS
  <2> QED
    BY <1>1, <1>2, <2>1
<1> QED
  BY <1>3, IsText

\* Such a list has the next number and what is behind it.
LEMMA ListStep ==
  ASSUME NEW memory \in Chars, memory[Len(memory)] = NUL, NEW count \in Nat \ {0},
         NEW i \in 1 .. count, NEW st \in Listed(memory, count, i - 1)
  PROVE  /\ ListNext(memory, TRUE, count, st, i) = ListNext(memory, FALSE, count, st, i)
         /\ ListNext(memory, FALSE, count, st, i) \in Listed(memory, count, i)
<1> DEFINE number(t) == Strtol(t, st.pos, 10)
           written(t) == Write(st.mem, 2 * (i - 1) + 1, LowHigh(number(t).value))
           Next(t, after(_)) ==
             IF /\ st.ok /\ number(t).end # st.pos /\ number(t).value \in INT16
                /\ i < count => after(number(t).end) = Comma
             THEN [ok |-> TRUE, mem |-> written(t),
                   pos |-> IF i < count THEN number(t).end + 1 ELSE number(t).end]
             ELSE [st EXCEPT !.ok = FALSE]
           new == written(memory)
           end == number(memory).end
           failed == [ok |-> FALSE, mem |-> st.mem, pos |-> st.pos]
<1>1. /\ st = [ok |-> st.ok, mem |-> st.mem, pos |-> st.pos]
      /\ st.ok \in BOOLEAN /\ st.mem \in Chars /\ st.pos \in Nat /\ Len(st.mem) = Len(memory)
  BY DEF Listed
<1>2. ListNext(memory, TRUE, count, st, i) = Next(st.mem, LAMBDA e : written(st.mem)[e])
      /\ ListNext(memory, FALSE, count, st, i) = Next(memory, LAMBDA e : memory[e])
  BY DEF ListNext, ElementSize
<1>3. failed \in Listed(memory, count, i) /\ [st EXCEPT !.ok = FALSE] = failed
  <2>1. [st EXCEPT !.ok = FALSE] = failed
    <3>1. PICK t : t = [st EXCEPT !.ok = FALSE]
      OBVIOUS
    <3>2. t = failed
      BY <1>1, <3>1
    <3> HIDE DEF failed
    <3> QED
      BY <3>1, <3>2
  <2>2. failed \in Listed(memory, count, i)
    BY <1>1 DEF Listed
  <2> QED
    BY <2>1, <2>2
<1> HIDE DEF failed
<1>4. CASE ~st.ok
  <2>1. Next(st.mem, LAMBDA e : written(st.mem)[e]) = failed
    BY <1>3, <1>4
  <2>2. Next(memory, LAMBDA e : memory[e]) = failed
    BY <1>3, <1>4
  <2> HIDE DEF Next
  <2> QED
    BY <1>2, <1>3, <2>1, <2>2
<1>5. CASE st.ok
  <2>1. /\ st.pos \in 1 .. Len(memory) /\ st.pos > 2 * (i - 1) + 1
        /\ \A j \in 1 .. Len(memory) : j > 2 * (i - 1) => st.mem[j] = memory[j]
    <3>1. i - 1 < count
      OBVIOUS
    <3> QED
      BY <1>5, <3>1 DEF Listed
  <2>2. Len(memory) \in Nat
    BY TextFacts
  <2>3. \A j \in st.pos .. Len(memory) : st.mem[j] = memory[j]
    <3> TAKE j \in st.pos .. Len(memory)
    <3>1. j \in 1 .. Len(memory) /\ j > 2 * (i - 1)
      <4>1. st.pos \in 1 .. Len(memory) /\ st.pos > 2 * (i - 1) + 1
        BY <2>1
      <4> QED
        BY <2>2, <4>1
    <3> QED
      BY <2>1, <3>1
  <2>4. /\ number(st.mem) = number(memory)
        /\ number(memory).value \in Int /\ number(memory).end \in st.pos .. Len(memory)
    BY <1>1, <2>1, <2>3, StrtolAgrees
  <2>5. written(st.mem) = new
    BY <2>4
  <2> HIDE DEF number
  <2>6. /\ new \in Chars /\ Len(new) = Len(memory)
        /\ \A j \in 1 .. Len(memory) : j > 2 * i => new[j] = memory[j]
    <3> DEFINE place == 2 * (i - 1) + 1
               chars == LowHigh(number(memory).value)
    <3>1. chars \in Chars /\ Len(chars) = 2
      BY <2>4, LowHighFacts
    <3>2. place \in Nat \ {0} /\ place + 2 = 2 * i + 1
      OBVIOUS
    <3>3. new = Write(st.mem, place, chars)
      OBVIOUS
    <3> HIDE DEF place, chars, new
    <3>4. /\ new \in Chars /\ Len(new) = Len(st.mem)
          /\ \A j \in 1 .. Len(st.mem) : j >= place + Len(chars) => new[j] = st.mem[j]
      <4> DEFINE mem == st.mem
      <4>1. mem \in Chars /\ place \in Nat \ {0} /\ chars \in Chars
        BY <1>1, <3>1, <3>2
      <4> HIDE DEF mem
      <4>2. /\ Write(mem, place, chars) \in Chars /\ Len(Write(mem, place, chars)) = Len(mem)
            /\ \A j \in 1 .. Len(mem) : j >= place + Len(chars) => Write(mem, place, chars)[j] = mem[j]
        BY <4>1, WriteFacts
      <4> QED
        BY <3>3, <4>2 DEF mem
    <3>5. \A j \in 1 .. Len(memory) : j > 2 * i => new[j] = memory[j]
      <4> TAKE j \in 1 .. Len(memory)
      <4> HAVE j > 2 * i
      <4>1. j >= place + 2 /\ j > 2 * (i - 1)
        BY <2>2, <3>2
      <4> QED
        BY <1>1, <2>1, <3>1, <3>4, <4>1
    <3> QED
      BY <1>1, <3>4, <3>5
  <2> HIDE DEF written, new
  <2>7. end # st.pos => end > 2 * i /\ end \in 1 .. Len(memory) /\ new[end] = memory[end]
    <3> HAVE end # st.pos
    <3>1. end > 2 * i /\ end \in 1 .. Len(memory)
      <4>1. /\ st.pos \in 1 .. Len(memory) /\ st.pos > 2 * (i - 1) + 1
            /\ end \in st.pos .. Len(memory)
        BY <2>1, <2>4
      <4> HIDE DEF end
      <4> QED
        BY <2>2, <4>1
    <3> QED
      BY <2>6, <3>1
  <2> DEFINE Listing(after) == /\ end # st.pos /\ number(memory).value \in INT16
                               /\ i < count => after = Comma
             next == [ok |-> TRUE, mem |-> new, pos |-> IF i < count THEN end + 1 ELSE end]
  <2>8. Next(memory, LAMBDA e : memory[e]) = IF Listing(memory[end]) THEN next ELSE failed
    BY <1>3, <1>5 DEF new
  <2>9. Next(st.mem, LAMBDA e : written(st.mem)[e]) = IF Listing(new[end]) THEN next ELSE failed
    BY <1>3, <1>5, <2>4, <2>5
  <2> HIDE DEF Next, end
  <2>10. (Listing(new[end]) <=> Listing(memory[end]))
    BY <2>7
  <2>11. Listing(memory[end]) => next \in Listed(memory, count, i)
    <3> HAVE Listing(memory[end])
    <3>1. end > 2 * i /\ end \in 1 .. Len(memory)
      BY <2>7
    <3>2. CASE i < count
      <4>1. end # Len(memory)
        <5>1. memory[end] = Comma
          BY <3>2
        <5> QED
          BY <5>1 DEF Comma, NUL
      <4>2. next = [ok |-> TRUE, mem |-> new, pos |-> end + 1]
        BY <3>2
      <4>3. end + 1 \in 1 .. Len(memory) /\ end + 1 > 2 * i + 1 /\ end + 1 > 2 * i /\ end + 1 \in Nat
        BY <2>2, <3>1, <4>1
      <4> HIDE DEF next
      <4> QED
        BY <2>6, <4>2, <4>3 DEF Listed
    <3>3. CASE ~(i < count)
      <4>1. next = [ok |-> TRUE, mem |-> new, pos |-> end]
        BY <3>3
      <4>2. end \in Nat
        BY <2>2, <3>1
      <4> HIDE DEF next
      <4> QED
        BY <2>6, <3>1, <3>3, <4>1, <4>2 DEF Listed
    <3> QED
      BY <3>2, <3>3
  <2> HIDE DEF Listing, next
  <2> QED
    BY <1>2, <1>3, <2>8, <2>9, <2>10, <2>11
<1> QED
  BY <1>4, <1>5

\* All values of a list
TakesNumbers(f, memory, count) ==
  /\ f \in [0 .. count -> [ok : BOOLEAN, mem : Chars, pos : Nat]]
  /\ f[0] = [ok |-> TRUE, mem |-> memory, pos |-> 2]
  /\ \A k \in 0 .. count : f[k] \in Listed(memory, count, k)
  /\ \A k \in 1 .. count : f[k] = ListNext(memory, FALSE, count, f[k - 1], k)

\* are computed one after the other.
LEMMA ListRecursion ==
  ASSUME NEW memory \in Chars, Len(memory) >= 2, memory[Len(memory)] = NUL,
         NEW count \in Nat \ {0}
  PROVE  \E f : TakesNumbers(f, memory, count)
<1> DEFINE U == [ok : BOOLEAN, mem : Chars, pos : Nat]
           first == [ok |-> TRUE, mem |-> memory, pos |-> 2]
           step == [k \in 1 .. count |-> [st \in U |-> ListNext(memory, FALSE, count, st, k)]]
           S == [k \in 0 .. count |-> Listed(memory, count, k)]
<1>1. \A k \in 1 .. count : k - 1 \in 0 .. count /\ k \in 0 .. count
  OBVIOUS
<1>2. \A k \in 0 .. count : Listed(memory, count, k) \subseteq U
  BY DEF Listed
<1>3. \A k \in 1 .. count : \A s \in U : step[k][s] = ListNext(memory, FALSE, count, s, k)
  OBVIOUS
<1>4. \A k \in 0 .. count : S[k] = Listed(memory, count, k)
  OBVIOUS
<1>5. S \in [0 .. count -> SUBSET U]
  BY <1>2
<1> HIDE DEF S, step, U
<1>6. \A k \in 1 .. count : \A s \in S[k - 1] : step[k][s] \in S[k]
  <2> TAKE k \in 1 .. count
  <2> TAKE s \in S[k - 1]
  <2>1. s \in Listed(memory, count, k - 1) /\ s \in U /\ S[k] = Listed(memory, count, k)
    BY <1>1, <1>2, <1>4
  <2>2. ListNext(memory, FALSE, count, s, k) \in Listed(memory, count, k)
    BY <2>1, ListStep
  <2> QED
    BY <1>3, <2>1, <2>2
<1>7. first \in S[0]
  <2>1. first \in Listed(memory, count, 0)
    <3>1. Len(memory) \in Nat
      BY TextFacts
    <3>2. 2 \in 1 .. Len(memory) /\ 2 \in Nat /\ 2 > 2 * 0 /\ 2 > 2 * 0 + 1
      BY <3>1
    <3> QED
      BY <3>2 DEF Listed
  <2> QED
    BY <1>4, <2>1
<1> HIDE DEF first
<1>8. PICK f : Computed(f, count, U, S, first, step)
  <2>1. Computable(count, U, S, first, step)
    BY <1>5, <1>6, <1>7 DEF Computable
  <2> QED
    BY <2>1, Recursion
<1>9. f \in [0 .. count -> U] /\ f[0] = first /\ \A k \in 0 .. count : f[k] \in Listed(memory, count, k)
  BY <1>4, <1>8 DEF Computed
<1>10. \A k \in 1 .. count : f[k] = ListNext(memory, FALSE, count, f[k - 1], k)
  <2> TAKE k \in 1 .. count
  <2>1. f[k - 1] \in U /\ f[k] = step[k][f[k - 1]]
    BY <1>1, <1>8, <1>9 DEF Computed
  <2> QED
    BY <1>3, <2>1
<1> QED
  BY <1>9, <1>10 DEF U, first, TakesNumbers

\* In place and in another place they are the same.
LEMMA ListsAgree ==
  ASSUME NEW memory \in Chars, Len(memory) >= 2, memory[Len(memory)] = NUL,
         NEW count \in Nat \ {0}
  PROVE  /\ ListOf(memory, TRUE, count) = ListOf(memory, FALSE, count)
         /\ ListOf(memory, FALSE, count) \in Listed(memory, count, count)
<1> DEFINE first == [ok |-> TRUE, mem |-> memory, pos |-> 2]
           Of(inPlace, g) == g = [k \in 0 .. count |->
                                    IF k = 0 THEN first
                                    ELSE ListNext(memory, inPlace, count, g[k - 1], k)]
<1>1. ListOf(memory, TRUE, count) = (CHOOSE g : Of(TRUE, g))[count]
      /\ ListOf(memory, FALSE, count) = (CHOOSE g : Of(FALSE, g))[count]
  BY DEF ListOf
<1>2. PICK f : TakesNumbers(f, memory, count)
  BY ListRecursion
<1>3. /\ f \in [0 .. count -> [ok : BOOLEAN, mem : Chars, pos : Nat]] /\ f[0] = first
      /\ \A k \in 0 .. count : f[k] \in Listed(memory, count, k)
      /\ \A k \in 1 .. count : f[k] = ListNext(memory, FALSE, count, f[k - 1], k)
  BY <1>2 DEF TakesNumbers
<1> HIDE DEF first
<1>4. ASSUME NEW inPlace \in BOOLEAN
      PROVE  (CHOOSE g : Of(inPlace, g))[count] = f[count]
  <2>1. \A k \in 1 .. count : f[k] = ListNext(memory, inPlace, count, f[k - 1], k)
    <3> TAKE k \in 1 .. count
    <3>1. f[k - 1] \in Listed(memory, count, k - 1)
          /\ f[k] = ListNext(memory, FALSE, count, f[k - 1], k)
      <4>1. k - 1 \in 0 .. count
        OBVIOUS
      <4> QED
        BY <1>3, <4>1
    <3>2. ListNext(memory, TRUE, count, f[k - 1], k) = ListNext(memory, FALSE, count, f[k - 1], k)
      BY <3>1, ListStep
    <3> QED
      BY <3>1, <3>2
  <2>2. Of(inPlace, f)
    <3>1. \A k \in 0 .. count : f[k] = IF k = 0 THEN first
                                       ELSE ListNext(memory, inPlace, count, f[k - 1], k)
      BY <1>3, <2>1
    <3> QED
      BY <1>3, <3>1
  <2>3. PICK g : g = (CHOOSE h : Of(inPlace, h)) /\ Of(inPlace, g)
    BY <2>2
  <2>4. g[0] = f[0] /\ \A k \in 1 .. count : g[k] = ListNext(memory, inPlace, count, g[k - 1], k)
    <3>1. g = [k \in 0 .. count |-> IF k = 0 THEN first
                                    ELSE ListNext(memory, inPlace, count, g[k - 1], k)]
      BY <2>3
    <3>2. \A k \in 0 .. count : g[k] = IF k = 0 THEN first
                                       ELSE ListNext(memory, inPlace, count, g[k - 1], k)
      BY <3>1
    <3>3. g[0] = first
      BY <3>2
    <3>4. \A k \in 1 .. count : k \in 0 .. count /\ k # 0
      OBVIOUS
    <3> QED
      BY <1>3, <3>2, <3>3, <3>4
  <2>5. \A k \in 0 .. count : g[k] = f[k]
    <3>1. \A k \in 1 .. count : g[k - 1] = f[k - 1] => g[k] = f[k]
      BY <2>1, <2>4
    <3> QED
      BY <2>4, <3>1, SameRecursion
  <2> QED
    BY <2>3, <2>5
<1>5. count \in 0 .. count
  OBVIOUS
<1> QED
  BY <1>1, <1>3, <1>4, <1>5

\* An integer list that is put where its text is is what it is in another place.
LEMMA ListInPlace ==
  ASSUME NEW text \in Chars
  PROVE  StringToIntList(text, TRUE) = StringToIntList(text, FALSE)
<1> DEFINE memory == text \o <<NUL>>
           commas == {i \in 2 .. Len(text) - 1 : text[i] = Comma}
           count == 1 + Cardinality(commas)
           Values(st) == Valid([i \in 1 .. count |-> Int16(st.mem, ElementSize * (i - 1) + 1)])
           isEmpty == Len(text) >= 2 /\ text[1] = BracketOpen /\ text[2] = BracketClose
           Result(st, mem) ==
             IF isEmpty THEN Valid(<<>>)
             ELSE IF /\ Len(text) >= 3 /\ text[1] = BracketOpen
                     /\ st.ok /\ mem[st.pos] = BracketClose
             THEN Values(st)
             ELSE Invalid
           there == ListOf(memory, TRUE, count)
           elsewhere == ListOf(memory, FALSE, count)
<1>1. /\ StringToIntList(text, TRUE) = Result(there, there.mem)
      /\ StringToIntList(text, FALSE) = Result(elsewhere, memory)
  BY DEF StringToIntList
<1>2. memory \in Chars /\ Len(memory) = Len(text) + 1 /\ memory[Len(memory)] = NUL
  <2>1. memory \in Chars /\ Len(memory) = Len(text) + 1 /\ memory[Len(text) + 1] = NUL
    BY WithNUL
  <2> QED
    BY <2>1
<1>3. Len(text) \in Nat
  BY TextFacts
<1>4. count \in Nat \ {0}
  <2>1. IsFiniteSet(2 .. Len(text) - 1)
    BY <1>3, FS_Interval
  <2>2. IsFiniteSet(commas)
    BY <2>1, FS_Subset
  <2> HIDE DEF commas
  <2>3. Cardinality(commas) \in Nat
    BY <2>2, FS_CardinalityType
  <2> QED
    BY <2>3
<1> HIDE DEF memory, count, Values, isEmpty
<1>5. CASE Len(text) >= 3
  <2>1. there = elsewhere /\ elsewhere \in Listed(memory, count, count)
    <3>1. Len(memory) >= 2
      BY <1>2, <1>3, <1>5
    <3> QED
      BY <1>2, <1>4, <3>1, ListsAgree
  <2> HIDE DEF there, elsewhere
  <2>2. elsewhere.ok => elsewhere.mem[elsewhere.pos] = memory[elsewhere.pos]
    BY <2>1 DEF Listed
  <2>3. Result(elsewhere, elsewhere.mem) = Result(elsewhere, memory)
    BY <2>2
  <2> HIDE DEF Result
  <2> QED
    BY <1>1, <2>1, <2>3
<1>6. CASE ~(Len(text) >= 3)
  <2>1. /\ Result(there, there.mem) = IF isEmpty THEN Valid(<<>>) ELSE Invalid
        /\ Result(elsewhere, memory) = IF isEmpty THEN Valid(<<>>) ELSE Invalid
    <3> HIDE DEF there, elsewhere
    <3> QED
      BY <1>6
  <2> HIDE DEF Result, there, elsewhere
  <2> QED
    BY <1>1, <2>1
<1> QED
  BY <1>5, <1>6

-----------------------------------------------------------------------------
(* What is escaped, in a string or in a list                               *)

\* One element more makes an even number odd and an odd one even.
LEMMA Parity ==
  ASSUME NEW T, IsFiniteSet(T), NEW x, x \notin T
  PROVE  (Cardinality(T \union {x}) % 2 = 1) <=> ~(Cardinality(T) % 2 = 1)
<1>1. Cardinality(T \union {x}) = Cardinality(T) + 1
  BY FS_AddElement
<1>2. Cardinality(T) \in Nat
  BY FS_CardinalityType
<1>3. \A c \in Nat : ((c + 1) % 2 = 1) <=> ~(c % 2 = 1)
  OBVIOUS
<1> QED
  BY <1>1, <1>2, <1>3

\* Nothing is an even number of things.
LEMMA NoneIsEven ==
  ~(Cardinality({}) % 2 = 1)
BY FS_EmptySet

\* A part of the positions before one is a finite set.
LEMMA PositionsAreFinite ==
  ASSUME NEW i \in Nat, NEW T, T \subseteq 1 .. i - 1
  PROVE  IsFiniteSet(T)
<1>1. IsFiniteSet(1 .. i - 1)
  BY FS_Interval
<1> QED
  BY <1>1, FS_Subset

\* The first character is not escaped, and one is if a backslash that is not
\* comes before it.
LEMMA EscapedFacts ==
  ASSUME NEW t \in Chars
  PROVE  /\ ~Escaped(t, 1)
         /\ \A i \in 1 .. Len(t) : Escaped(t, i + 1) <=> t[i] = Backslash /\ ~Escaped(t, i)
<1> DEFINE run(i) == {j \in 1 .. i - 1 : \A k \in j .. i - 1 : t[k] = Backslash}
<1>1. Len(t) \in Nat
  BY TextFacts
<1>2. \A i \in Nat : Escaped(t, i) <=> Cardinality(run(i)) % 2 = 1
  BY DEF Escaped
<1>3. ~Escaped(t, 1)
  <2>1. run(1) = {}
    OBVIOUS
  <2> HIDE DEF run
  <2> QED
    BY <1>2, <2>1, NoneIsEven
<1>4. ASSUME NEW i \in 1 .. Len(t)
      PROVE  Escaped(t, i + 1) <=> t[i] = Backslash /\ ~Escaped(t, i)
  <2>1. i \in Nat /\ i + 1 \in Nat /\ i + 1 - 1 = i
    BY <1>1
  <2>2. CASE t[i] = Backslash
    <3>1. run(i + 1) = run(i) \union {i}
      <4>1. \A j \in 1 .. i - 1 :
              (\A k \in j .. i + 1 - 1 : t[k] = Backslash) <=> (\A k \in j .. i - 1 : t[k] = Backslash)
        <5> TAKE j \in 1 .. i - 1
        <5>1. \A k \in Int : k \in j .. i + 1 - 1 <=> (k \in j .. i - 1 \/ k = i)
          BY <2>1
        <5>2. \A k \in j .. i - 1 : k \in Int
          BY <2>1
        <5>3. \A k \in j .. i + 1 - 1 : k \in Int
          BY <2>1
        <5> QED
          BY <2>1, <2>2, <5>1, <5>2, <5>3
      <4>2. i \in run(i + 1)
        <5>1. \A k \in i .. i + 1 - 1 : k = i
          BY <2>1
        <5>2. i \in 1 .. i + 1 - 1
          BY <2>1
        <5> QED
          BY <2>2, <5>1, <5>2
      <4>3. \A j \in 1 .. i + 1 - 1 : j \in 1 .. i - 1 \/ j = i
        BY <2>1
      <4>4. \A j \in 1 .. i - 1 : j \in 1 .. i + 1 - 1
        BY <2>1
      <4> QED
        BY <4>1, <4>2, <4>3, <4>4
    <3>2. IsFiniteSet(run(i)) /\ i \notin run(i)
      <4>1. run(i) \subseteq 1 .. i - 1
        OBVIOUS
      <4>2. i \notin 1 .. i - 1
        BY <2>1
      <4> HIDE DEF run
      <4> QED
        BY <2>1, <4>1, <4>2, PositionsAreFinite
    <3> HIDE DEF run
    <3>3. (Cardinality(run(i) \union {i}) % 2 = 1) <=> ~(Cardinality(run(i)) % 2 = 1)
      BY <3>2, Parity
    <3>4. Escaped(t, i + 1) <=> ~Escaped(t, i)
      BY <1>2, <2>1, <3>1, <3>3
    <3> QED
      BY <2>2, <3>4
  <2>3. CASE t[i] # Backslash
    <3>1. run(i + 1) = {}
      <4>1. \A j \in 1 .. i + 1 - 1 : i \in j .. i + 1 - 1
        BY <2>1
      <4> QED
        BY <2>3, <4>1
    <3> HIDE DEF run
    <3>2. ~Escaped(t, i + 1)
      BY <1>2, <2>1, <3>1, NoneIsEven
    <3> QED
      BY <2>3, <3>2
  <2> QED
    BY <2>2, <2>3
<1> QED
  BY <1>3, <1>4

\* A string begins and ends at each quote that is not escaped.
LEMMA InStringFacts ==
  ASSUME NEW t \in Chars
  PROVE  /\ ~InString(t, 1)
         /\ \A i \in 1 .. Len(t) :
              InString(t, i + 1) <=> IF t[i] = Quote /\ ~Escaped(t, i) THEN ~InString(t, i)
                                     ELSE InString(t, i)
<1> DEFINE quotes(i) == {j \in 1 .. i - 1 : t[j] = Quote /\ ~Escaped(t, j)}
<1>1. Len(t) \in Nat
  BY TextFacts
<1>2. \A i \in Nat : InString(t, i) <=> Cardinality(quotes(i)) % 2 = 1
  BY DEF InString
<1>3. ~InString(t, 1)
  <2>1. quotes(1) = {}
    OBVIOUS
  <2> HIDE DEF quotes
  <2> QED
    BY <1>2, <2>1, NoneIsEven
<1>4. ASSUME NEW i \in 1 .. Len(t)
      PROVE  InString(t, i + 1) <=> IF t[i] = Quote /\ ~Escaped(t, i) THEN ~InString(t, i)
                                    ELSE InString(t, i)
  <2>1. i \in Nat /\ i + 1 \in Nat
    BY <1>1
  <2>2. /\ \A j \in 1 .. i + 1 - 1 : j \in 1 .. i - 1 \/ j = i
        /\ \A j \in 1 .. i - 1 : j \in 1 .. i + 1 - 1
        /\ i \in 1 .. i + 1 - 1 /\ i \notin 1 .. i - 1
    BY <2>1
  <2>3. CASE t[i] = Quote /\ ~Escaped(t, i)
    <3>1. quotes(i + 1) = quotes(i) \union {i}
      BY <2>2, <2>3
    <3>2. IsFiniteSet(quotes(i)) /\ i \notin quotes(i)
      <4>1. quotes(i) \subseteq 1 .. i - 1
        OBVIOUS
      <4> HIDE DEF quotes
      <4> QED
        BY <2>1, <2>2, <4>1, PositionsAreFinite
    <3> HIDE DEF quotes
    <3>3. (Cardinality(quotes(i) \union {i}) % 2 = 1) <=> ~(Cardinality(quotes(i)) % 2 = 1)
      BY <3>2, Parity
    <3>4. InString(t, i + 1) <=> ~InString(t, i)
      BY <1>2, <2>1, <3>1, <3>3
    <3> QED
      BY <2>3, <3>4
  <2>4. CASE ~(t[i] = Quote /\ ~Escaped(t, i))
    <3>1. quotes(i + 1) = quotes(i)
      BY <2>2, <2>4
    <3> HIDE DEF quotes
    <3>2. InString(t, i + 1) <=> InString(t, i)
      BY <1>2, <2>1, <3>1
    <3> QED
      BY <2>4, <3>2
  <2> QED
    BY <2>3, <2>4
<1> QED
  BY <1>3, <1>4

\* A list begins and ends at each bracket that is not escaped and in no string.
IsBracket(t, i) ==
  t[i] \in {BracketOpen, BracketClose} /\ ~Escaped(t, i) /\ ~InString(t, i)

\* In a list is what comes behind an opening bracket, up to the next bracket.
LEMMA InListFacts ==
  ASSUME NEW t \in Chars
  PROVE  /\ ~InList(t, 1)
         /\ \A i \in 1 .. Len(t) :
              InList(t, i + 1) <=> IF IsBracket(t, i) THEN t[i] = BracketOpen ELSE InList(t, i)
<1> DEFINE brackets(i) == {j \in 1 .. i - 1 : IsBracket(t, j)}
<1>1. Len(t) \in Nat
  BY TextFacts
<1>2. \A i \in Nat : InList(t, i) <=> (brackets(i) # {} /\ t[Max(brackets(i))] = BracketOpen)
  BY DEF InList, IsBracket
<1>3. ~InList(t, 1)
  <2>1. brackets(1) = {}
    OBVIOUS
  <2> HIDE DEF brackets
  <2> QED
    BY <1>2, <2>1
<1>4. ASSUME NEW i \in 1 .. Len(t)
      PROVE  InList(t, i + 1) <=> IF IsBracket(t, i) THEN t[i] = BracketOpen ELSE InList(t, i)
  <2>1. i \in Nat /\ i + 1 \in Nat
    BY <1>1
  <2>2. /\ \A j \in 1 .. i + 1 - 1 : j \in 1 .. i - 1 \/ j = i
        /\ \A j \in 1 .. i - 1 : j \in 1 .. i + 1 - 1
        /\ i \in 1 .. i + 1 - 1 /\ i \notin 1 .. i - 1
    BY <2>1
  <2>3. CASE IsBracket(t, i)
    <3>1. i \in brackets(i + 1) /\ brackets(i + 1) \subseteq 1 .. i
      BY <2>1, <2>2, <2>3
    <3> HIDE DEF brackets
    <3>2. \A y \in brackets(i + 1) : y \in Nat /\ i >= y
      BY <2>1, <3>1
    <3>3. Max(brackets(i + 1)) = i
      <4>1. \A x \in brackets(i + 1) : (\A y \in brackets(i + 1) : x >= y) => x = i
        BY <2>1, <3>1, <3>2
      <4>2. Max(brackets(i + 1)) = CHOOSE x \in brackets(i + 1) : \A y \in brackets(i + 1) : x >= y
        BY DEF Max
      <4> QED
        BY <3>1, <3>2, <4>1, <4>2
    <3>4. InList(t, i + 1) <=> t[i] = BracketOpen
      BY <1>2, <2>1, <3>1, <3>3
    <3> QED
      BY <2>3, <3>4
  <2>4. CASE ~IsBracket(t, i)
    <3>1. brackets(i + 1) = brackets(i)
      BY <2>2, <2>4
    <3> HIDE DEF brackets
    <3>2. InList(t, i + 1) <=> InList(t, i)
      BY <1>2, <2>1, <3>1
    <3> QED
      BY <2>4, <3>2
  <2> QED
    BY <2>3, <2>4
<1> QED
  BY <1>3, <1>4

-----------------------------------------------------------------------------
(* The end of a parameter                                                  *)

Commas(t) == {i \in 1 .. Len(t) : t[i] = Comma /\ Outside(t, i)}

\* What the scan that began at a position knows at another one: that no comma
\* outside was passed and what is open there, or the first such comma.
Flags == [escape : BOOLEAN, inString : BOOLEAN, inBracket : BOOLEAN, end : Nat]
Going(st, t, from, place) ==
  /\ st.end = 0
  /\ st.escape <=> Escaped(t, place)
  /\ st.inString <=> InString(t, place)
  /\ st.inBracket <=> InList(t, place)
  /\ \A i \in Commas(t) : ~(from <= i /\ i < place)
Ended(st, t, from, place) ==
  /\ st.end \in Commas(t) /\ from <= st.end /\ st.end < place
  /\ ~st.escape /\ ~st.inString /\ ~st.inBracket
  /\ \A i \in Commas(t) : from <= i => st.end <= i
Follows(t, from, place) ==
  {st \in Flags : Going(st, t, from, place) \/ Ended(st, t, from, place)}

\* The flags of the scan
LEMMA FlagsFacts ==
  ASSUME NEW st \in Flags
  PROVE  /\ st = [escape |-> st.escape, inString |-> st.inString,
                  inBracket |-> st.inBracket, end |-> st.end]
         /\ st.escape \in BOOLEAN /\ st.inString \in BOOLEAN /\ st.inBracket \in BOOLEAN
         /\ st.end \in Nat
BY DEF Flags

\* What one character changes
LEMMA ScanCases ==
  ASSUME NEW st \in Flags, NEW c, NEW place \in Nat
  PROVE  LET new == ScanCharacter(st, c, place) IN
         /\ st.end # 0 => new = st
         /\ st.end = 0 /\ st.escape =>
              new = [escape |-> FALSE, inString |-> st.inString,
                     inBracket |-> st.inBracket, end |-> 0]
         /\ st.end = 0 /\ ~st.escape /\ c = Backslash =>
              new = [escape |-> TRUE, inString |-> st.inString,
                     inBracket |-> st.inBracket, end |-> 0]
         /\ st.end = 0 /\ ~st.escape /\ c # Backslash /\ st.inString =>
              new = [escape |-> FALSE, inString |-> c # Quote,
                     inBracket |-> st.inBracket, end |-> 0]
         /\ st.end = 0 /\ ~st.escape /\ c # Backslash /\ ~st.inString =>
              /\ c = Quote => new = [escape |-> FALSE, inString |-> TRUE,
                                     inBracket |-> st.inBracket, end |-> 0]
              /\ c = BracketOpen => new = [escape |-> FALSE, inString |-> FALSE,
                                           inBracket |-> TRUE, end |-> 0]
              /\ c = BracketClose => new = [escape |-> FALSE, inString |-> FALSE,
                                            inBracket |-> FALSE, end |-> 0]
              /\ c = Comma /\ ~st.inBracket =>
                   new = [escape |-> FALSE, inString |-> FALSE,
                          inBracket |-> FALSE, end |-> place]
              /\ c \notin {Quote, BracketOpen, BracketClose}
                 /\ ~(c = Comma /\ ~st.inBracket) => new = st
<1>1. /\ st = [escape |-> st.escape, inString |-> st.inString,
               inBracket |-> st.inBracket, end |-> st.end]
      /\ st.escape \in BOOLEAN /\ st.inString \in BOOLEAN /\ st.inBracket \in BOOLEAN
      /\ st.end \in Nat
  BY FlagsFacts
<1> USE DEF Quote, BracketOpen, BracketClose, Comma, Backslash
<1>2. PICK new : new = ScanCharacter(st, c, place)
  OBVIOUS
<1>3. st.end # 0 => new = st
  BY <1>2 DEF ScanCharacter
<1>4. ASSUME st.end = 0, st.escape
      PROVE  new = [escape |-> FALSE, inString |-> st.inString,
                    inBracket |-> st.inBracket, end |-> 0]
  BY <1>1, <1>2, <1>4 DEF ScanCharacter
<1>5. ASSUME st.end = 0, ~st.escape, c = Backslash
      PROVE  new = [escape |-> TRUE, inString |-> st.inString,
                    inBracket |-> st.inBracket, end |-> 0]
  BY <1>1, <1>2, <1>5 DEF ScanCharacter
<1>6. ASSUME st.end = 0, ~st.escape, c # Backslash, st.inString
      PROVE  new = [escape |-> FALSE, inString |-> c # Quote,
                    inBracket |-> st.inBracket, end |-> 0]
  <2>1. new = [st EXCEPT !.inString = (c # Quote)]
    BY <1>1, <1>2, <1>6 DEF ScanCharacter
  <2>2. ~st.escape /\ st.escape \in BOOLEAN
    BY <1>1, <1>6
  <2> QED
    BY <1>1, <1>6, <2>1, <2>2
<1>7. ASSUME st.end = 0, ~st.escape, c # Backslash, ~st.inString
      PROVE  /\ c = Quote => new = [escape |-> FALSE, inString |-> TRUE,
                                     inBracket |-> st.inBracket, end |-> 0]
             /\ c = BracketOpen => new = [escape |-> FALSE, inString |-> FALSE,
                                           inBracket |-> TRUE, end |-> 0]
             /\ c = BracketClose => new = [escape |-> FALSE, inString |-> FALSE,
                                            inBracket |-> FALSE, end |-> 0]
             /\ c = Comma /\ ~st.inBracket =>
                   new = [escape |-> FALSE, inString |-> FALSE,
                          inBracket |-> FALSE, end |-> place]
             /\ c \notin {Quote, BracketOpen, BracketClose}
                /\ ~(c = Comma /\ ~st.inBracket) => new = st
  <2>1. c = Quote => new = [st EXCEPT !.inString = TRUE]
    BY <1>1, <1>2, <1>7 DEF ScanCharacter
  <2>2. c = BracketOpen => new = [st EXCEPT !.inBracket = TRUE]
    BY <1>1, <1>2, <1>7 DEF ScanCharacter
  <2>3. c = BracketClose => new = [st EXCEPT !.inBracket = FALSE]
    BY <1>1, <1>2, <1>7 DEF ScanCharacter
  <2>4. c = Comma /\ ~st.inBracket => new = [st EXCEPT !.end = place]
    BY <1>1, <1>2, <1>7 DEF ScanCharacter
  <2>5. c \notin {Quote, BracketOpen, BracketClose} /\ ~(c = Comma /\ ~st.inBracket) => new = st
    BY <1>1, <1>2, <1>7 DEF ScanCharacter
  <2>6. ASSUME c = Quote
        PROVE  new = [escape |-> FALSE, inString |-> TRUE, inBracket |-> st.inBracket, end |-> 0]
    BY <1>1, <1>7, <2>1, <2>6
  <2>7. ASSUME c = BracketOpen
        PROVE  new = [escape |-> FALSE, inString |-> FALSE, inBracket |-> TRUE, end |-> 0]
    BY <1>1, <1>7, <2>2, <2>7
  <2>8. ASSUME c = BracketClose
        PROVE  new = [escape |-> FALSE, inString |-> FALSE, inBracket |-> FALSE, end |-> 0]
    BY <1>1, <1>7, <2>3, <2>8
  <2>9. ASSUME c = Comma, ~st.inBracket
        PROVE  new = [escape |-> FALSE, inString |-> FALSE, inBracket |-> FALSE, end |-> place]
    BY <1>1, <1>7, <2>4, <2>9
  <2> QED
    BY <2>5, <2>6, <2>7, <2>8, <2>9
<1> QED
  BY <1>2, <1>3, <1>4, <1>5, <1>6, <1>7

\* after a backslash,
LEMMA ScanEscaped ==
  ASSUME NEW st \in Flags, NEW c, NEW place \in Nat, st.end = 0, st.escape
  PROVE  ScanCharacter(st, c, place) = [escape |-> FALSE, inString |-> st.inString,
                                     inBracket |-> st.inBracket, end |-> 0]
BY ScanCases

\* and in a string
LEMMA ScanInString ==
  ASSUME NEW st \in Flags, NEW c, NEW place \in Nat,
         st.end = 0, ~st.escape, c # Backslash, st.inString
  PROVE  ScanCharacter(st, c, place) = [escape |-> FALSE, inString |-> c # Quote,
                                     inBracket |-> st.inBracket, end |-> 0]
BY ScanCases

\* or outside
LEMMA ScanOutside ==
  ASSUME NEW st \in Flags, NEW c, NEW place \in Nat,
         st.end = 0, ~st.escape, c # Backslash, ~st.inString
  PROVE  LET new == ScanCharacter(st, c, place) IN
         /\ c = Quote => new = [escape |-> FALSE, inString |-> TRUE,
                                inBracket |-> st.inBracket, end |-> 0]
         /\ c = BracketOpen => new = [escape |-> FALSE, inString |-> FALSE,
                                      inBracket |-> TRUE, end |-> 0]
         /\ c = BracketClose => new = [escape |-> FALSE, inString |-> FALSE,
                                       inBracket |-> FALSE, end |-> 0]
         /\ c = Comma /\ ~st.inBracket =>
              new = [escape |-> FALSE, inString |-> FALSE,
                     inBracket |-> FALSE, end |-> place]
         /\ c \notin {Quote, BracketOpen, BracketClose}
            /\ ~(c = Comma /\ ~st.inBracket) => new = st
BY ScanCases

\* A record of flags has what the text has open at a position.
LEMMA GoingFacts ==
  ASSUME NEW t, NEW from, NEW place, NEW e \in BOOLEAN, NEW s \in BOOLEAN, NEW b \in BOOLEAN,
         e <=> Escaped(t, place), s <=> InString(t, place), b <=> InList(t, place),
         \A i \in Commas(t) : ~(from <= i /\ i < place)
  PROVE  [escape |-> e, inString |-> s, inBracket |-> b, end |-> 0] \in Follows(t, from, place)
<1> DEFINE st == [escape |-> e, inString |-> s, inBracket |-> b, end |-> 0]
<1>1. st \in Flags
  BY DEF Flags
<1>2. st.end = 0 /\ (st.escape <=> e) /\ (st.inString <=> s) /\ (st.inBracket <=> b)
  OBVIOUS
<1> HIDE DEF st
<1>3. Going(st, t, from, place)
  BY <1>2 DEF Going
<1>4. st \in Follows(t, from, place)
  BY <1>1, <1>3 DEF Follows
<1> QED
  BY <1>4 DEF st

\* Each character is scanned as the text has it.
LEMMA ScanStep ==
  ASSUME NEW t \in Chars, NEW from \in Nat \ {0}, NEW place \in from .. Len(t),
         NEW st \in Follows(t, from, place)
  PROVE  ScanCharacter(st, t[place], place) \in Follows(t, from, place + 1)
<1> DEFINE c == t[place]
           new == ScanCharacter(st, c, place)
<1>1. place \in Nat /\ place \in 1 .. Len(t) /\ Len(t) \in Nat
  <2>1. Len(t) \in Nat
    BY TextFacts
  <2> QED
    BY <2>1
<1>2. st \in Flags /\ (Going(st, t, from, place) \/ Ended(st, t, from, place))
  BY DEF Follows
<1>3. Commas(t) \subseteq Nat
  BY <1>1 DEF Commas
<1>4. CASE st.end # 0
  <2>1. new = st
    BY <1>1, <1>2, <1>4, ScanCases
  <2>2. Ended(st, t, from, place)
    BY <1>2, <1>4 DEF Going
  <2>3. Ended(st, t, from, place + 1)
    <3>1. st.end \in Nat /\ (st.end < place => st.end < place + 1)
      BY <1>1, <1>2, FlagsFacts
    <3> QED
      BY <2>2, <3>1 DEF Ended
  <2> QED
    BY <1>2, <2>1, <2>3 DEF Follows
<1>5. CASE st.end = 0
  <2>1. Going(st, t, from, place)
    <3>1. 0 \notin Commas(t)
      BY <1>1 DEF Commas
    <3> QED
      BY <1>2, <1>5, <3>1 DEF Ended
  <2>2. /\ st.escape <=> Escaped(t, place)
        /\ st.inString <=> InString(t, place)
        /\ st.inBracket <=> InList(t, place)
        /\ st.escape \in BOOLEAN /\ st.inString \in BOOLEAN /\ st.inBracket \in BOOLEAN
    BY <1>2, <2>1, FlagsFacts DEF Going
  <2>3. /\ Escaped(t, place + 1) <=> c = Backslash /\ ~Escaped(t, place)
        /\ InString(t, place + 1) <=> IF c = Quote /\ ~Escaped(t, place) THEN ~InString(t, place)
                                   ELSE InString(t, place)
        /\ InList(t, place + 1) <=> IF IsBracket(t, place) THEN c = BracketOpen ELSE InList(t, place)
    BY <1>1, EscapedFacts, InStringFacts, InListFacts
  <2>4. IsBracket(t, place) <=> c \in {BracketOpen, BracketClose} /\ ~Escaped(t, place)
                             /\ ~InString(t, place)
    BY DEF IsBracket
  <2>5. place \in Commas(t) <=> c = Comma /\ ~Escaped(t, place) /\ ~InString(t, place) /\ ~InList(t, place)
    BY <1>1 DEF Commas, Outside
  <2>6. ASSUME place \notin Commas(t)
        PROVE  \A i \in Commas(t) : ~(from <= i /\ i < place + 1)
    <3> TAKE i \in Commas(t)
    <3>1. i \in Nat /\ i # place /\ ~(from <= i /\ i < place)
      BY <1>3, <2>1, <2>6 DEF Going
    <3> QED
      BY <1>1, <3>1
  <2>7. /\ Backslash # Quote /\ Backslash \notin {BracketOpen, BracketClose, Comma}
        /\ Quote \notin {BracketOpen, BracketClose, Comma}
        /\ BracketOpen # BracketClose /\ Comma \notin {BracketOpen, BracketClose}
    BY DEF Backslash, Quote, BracketOpen, BracketClose, Comma
  <2> DEFINE R(e, s, b, n) == [escape |-> e, inString |-> s, inBracket |-> b, end |-> n]
  <2>8. st = R(st.escape, st.inString, st.inBracket, 0)
    BY <1>2, <1>5, FlagsFacts
  <2>9. CASE st.escape
    <3>1. new = R(FALSE, st.inString, st.inBracket, 0)
      BY <1>1, <1>2, <1>5, <2>9, ScanEscaped
    <3>2. /\ FALSE <=> Escaped(t, place + 1)
          /\ st.inString <=> InString(t, place + 1)
          /\ st.inBracket <=> InList(t, place + 1)
      BY <2>2, <2>3, <2>4, <2>9
    <3>3. \A i \in Commas(t) : ~(from <= i /\ i < place + 1)
      BY <2>2, <2>5, <2>6, <2>9
    <3> QED
      BY <2>2, <3>1, <3>2, <3>3, GoingFacts
  <2>10. CASE ~st.escape /\ c = Backslash
    <3>1. new = R(TRUE, st.inString, st.inBracket, 0)
      BY <1>1, <1>2, <1>5, <2>10, ScanCases
    <3>2. /\ TRUE <=> Escaped(t, place + 1)
          /\ st.inString <=> InString(t, place + 1)
          /\ st.inBracket <=> InList(t, place + 1)
      BY <2>2, <2>3, <2>4, <2>7, <2>10
    <3>3. \A i \in Commas(t) : ~(from <= i /\ i < place + 1)
      BY <2>5, <2>6, <2>7, <2>10
    <3> QED
      BY <2>2, <3>1, <3>2, <3>3, GoingFacts
  <2>11. CASE ~st.escape /\ c # Backslash /\ st.inString
    <3>1. new = R(FALSE, c # Quote, st.inBracket, 0)
      BY <1>1, <1>2, <1>5, <2>11, ScanInString
    <3>2. /\ FALSE <=> Escaped(t, place + 1)
          /\ c # Quote <=> InString(t, place + 1)
          /\ st.inBracket <=> InList(t, place + 1)
      BY <2>2, <2>3, <2>4, <2>11
    <3>3. \A i \in Commas(t) : ~(from <= i /\ i < place + 1)
      BY <2>2, <2>5, <2>6, <2>11
    <3> DEFINE s == c # Quote
    <3>4. s \in BOOLEAN /\ (s <=> InString(t, place + 1)) /\ new = R(FALSE, s, st.inBracket, 0)
      BY <3>1, <3>2
    <3> HIDE DEF s
    <3>5. R(FALSE, s, st.inBracket, 0) \in Follows(t, from, place + 1)
      BY <2>2, <3>2, <3>3, <3>4, GoingFacts
    <3> QED
      BY <3>4, <3>5
  <2>12. CASE ~st.escape /\ c # Backslash /\ ~st.inString
    <3>1. /\ c = Quote => new = R(FALSE, TRUE, st.inBracket, 0)
          /\ c = BracketOpen => new = R(FALSE, FALSE, TRUE, 0)
          /\ c = BracketClose => new = R(FALSE, FALSE, FALSE, 0)
          /\ c = Comma /\ ~st.inBracket => new = R(FALSE, FALSE, FALSE, place)
          /\ c \notin {Quote, BracketOpen, BracketClose} /\ ~(c = Comma /\ ~st.inBracket) => new = st
      BY <1>1, <1>2, <1>5, <2>12, ScanOutside
    <3>2. ~Escaped(t, place + 1) /\ ~Escaped(t, place) /\ ~InString(t, place)
      BY <2>2, <2>3, <2>12
    <3>3. CASE c = Quote
      <4>1. InString(t, place + 1) /\ (st.inBracket <=> InList(t, place + 1))
        BY <2>2, <2>3, <2>4, <2>7, <3>2, <3>3
      <4>2. \A i \in Commas(t) : ~(from <= i /\ i < place + 1)
        BY <2>5, <2>6, <2>7, <3>3
      <4>3. R(FALSE, TRUE, st.inBracket, 0) \in Follows(t, from, place + 1)
        BY <2>2, <3>2, <4>1, <4>2, GoingFacts
      <4> QED
        BY <3>1, <3>3, <4>3
    <3>4. CASE c = BracketOpen
      <4>1. ~InString(t, place + 1) /\ InList(t, place + 1)
        BY <2>3, <2>4, <2>7, <3>2, <3>4
      <4>2. \A i \in Commas(t) : ~(from <= i /\ i < place + 1)
        BY <2>5, <2>6, <2>7, <3>4
      <4>3. R(FALSE, FALSE, TRUE, 0) \in Follows(t, from, place + 1)
        BY <3>2, <4>1, <4>2, GoingFacts
      <4> QED
        BY <3>1, <3>4, <4>3
    <3>5. CASE c = BracketClose
      <4>1. ~InString(t, place + 1) /\ ~InList(t, place + 1)
        BY <2>3, <2>4, <2>7, <3>2, <3>5
      <4>2. \A i \in Commas(t) : ~(from <= i /\ i < place + 1)
        BY <2>5, <2>6, <2>7, <3>5
      <4>3. R(FALSE, FALSE, FALSE, 0) \in Follows(t, from, place + 1)
        BY <3>2, <4>1, <4>2, GoingFacts
      <4> QED
        BY <3>1, <3>5, <4>3
    <3>6. CASE c = Comma /\ ~st.inBracket
      <4> DEFINE r == R(FALSE, FALSE, FALSE, place)
      <4>1. place \in Commas(t)
        BY <2>2, <2>5, <3>2, <3>6
      <4>2. r \in Flags /\ r.end = place /\ ~r.escape /\ ~r.inString /\ ~r.inBracket
        BY <1>1 DEF Flags
      <4>3. from <= place /\ place < place + 1
        BY <1>1
      <4>4. \A i \in Commas(t) : from <= i => place <= i
        <5> TAKE i \in Commas(t)
        <5>1. i \in Nat /\ ~(from <= i /\ i < place)
          BY <1>3, <2>1 DEF Going
        <5> QED
          BY <1>1, <5>1
      <4> HIDE DEF r
      <4>5. Ended(r, t, from, place + 1)
        BY <4>1, <4>2, <4>3, <4>4 DEF Ended
      <4>6. r \in Follows(t, from, place + 1)
        BY <4>2, <4>5 DEF Follows
      <4> QED
        BY <3>1, <3>6, <4>6 DEF r
    <3>7. CASE c \notin {Quote, BracketOpen, BracketClose} /\ ~(c = Comma /\ ~st.inBracket)
      <4>1. /\ FALSE <=> Escaped(t, place + 1)
            /\ FALSE <=> InString(t, place + 1)
            /\ st.inBracket <=> InList(t, place + 1)
        BY <2>2, <2>3, <2>4, <3>2, <3>7
      <4>2. \A i \in Commas(t) : ~(from <= i /\ i < place + 1)
        BY <2>2, <2>5, <2>6, <3>7
      <4>3. R(FALSE, FALSE, st.inBracket, 0) \in Follows(t, from, place + 1)
        BY <2>2, <4>1, <4>2, GoingFacts
      <4>4. st = R(FALSE, FALSE, st.inBracket, 0)
        BY <2>2, <2>8, <2>12
      <4> QED
        BY <3>1, <3>7, <4>3, <4>4
    <3> QED
      BY <3>3, <3>4, <3>5, <3>6, <3>7
  <2> QED
    BY <2>9, <2>10, <2>11, <2>12
<1> QED
  BY <1>4, <1>5

\* A parameter begins where nothing is open.
LEMMA ScannedFollows ==
  ASSUME NEW t \in Chars, NEW from \in 1 .. Len(t) + 1, Outside(t, from)
  PROVE  Scanned(t, from) \in Follows(t, from, Len(t) + 1)
<1> DEFINE n == Len(t) - from + 1
           step == [k \in 1 .. n |->
                      [st \in Flags |-> ScanCharacter(st, t[from + k - 1], from + k - 1)]]
           S == [k \in 0 .. n |-> Follows(t, from, from + k)]
           Of(g) == g = [k \in 0 .. n |->
                           IF k = 0 THEN Scan
                           ELSE ScanCharacter(g[k - 1], t[from + k - 1], from + k - 1)]
<1>1. Scanned(t, from) = (CHOOSE g : Of(g))[n]
  <2> HIDE DEF n
  <2> QED
    BY DEF Scanned, n
<1>2. n \in Nat /\ from + n = Len(t) + 1 /\ from \in Nat \ {0} /\ from + 0 = from
  <2>1. Len(t) \in Nat
    BY TextFacts
  <2> QED
    BY <2>1
<1>3. \A k \in 1 .. n : /\ k - 1 \in 0 .. n /\ k \in 0 .. n
                        /\ from + k - 1 \in from .. Len(t)
                        /\ from + (k - 1) = from + k - 1 /\ from + k - 1 + 1 = from + k
  <2>1. Len(t) \in Nat
    BY TextFacts
  <2> QED
    BY <2>1
<1> HIDE DEF n
<1>4. \A k \in 0 .. n : Follows(t, from, from + k) \subseteq Flags
  BY DEF Follows
<1>5. \A k \in 1 .. n : \A s \in Flags :
        step[k][s] = ScanCharacter(s, t[from + k - 1], from + k - 1)
  OBVIOUS
<1>6. \A k \in 0 .. n : S[k] = Follows(t, from, from + k)
  OBVIOUS
<1>7. S \in [0 .. n -> SUBSET Flags]
  BY <1>4
<1> HIDE DEF S, step
<1>8. \A k \in 1 .. n : \A s \in S[k - 1] : step[k][s] \in S[k]
  <2> TAKE k \in 1 .. n
  <2> TAKE s \in S[k - 1]
  <2>1. s \in Follows(t, from, from + k - 1) /\ s \in Flags /\ S[k] = Follows(t, from, from + k)
    BY <1>3, <1>4, <1>6
  <2>2. ScanCharacter(s, t[from + k - 1], from + k - 1) \in Follows(t, from, from + k)
    <3> DEFINE place == from + k - 1
    <3>1. place \in from .. Len(t) /\ place + 1 = from + k /\ s \in Follows(t, from, place)
      BY <1>3, <2>1
    <3> HIDE DEF place
    <3>2. ScanCharacter(s, t[place], place) \in Follows(t, from, place + 1)
      BY <1>2, <3>1, ScanStep
    <3>3. ScanCharacter(s, t[place], place) \in Follows(t, from, from + k)
      BY <3>1, <3>2
    <3> QED
      BY <3>3 DEF place
  <2> QED
    BY <1>5, <2>1, <2>2
<1>9. Scan \in S[0]
  <2>1. Scan \in Follows(t, from, from)
    <3>1. \A i \in Commas(t) : ~(from <= i /\ i < from)
      <4>1. Commas(t) \subseteq Int
        BY DEF Commas
      <4> QED
        BY <1>2, <4>1
    <3>2. /\ FALSE <=> Escaped(t, from)
          /\ FALSE <=> InString(t, from)
          /\ FALSE <=> InList(t, from)
      BY DEF Outside
    <3>3. [escape |-> FALSE, inString |-> FALSE, inBracket |-> FALSE, end |-> 0]
            \in Follows(t, from, from)
      BY <3>1, <3>2, GoingFacts
    <3> QED
      BY <3>3 DEF Scan
  <2>2. 0 \in 0 .. n
    BY <1>2
  <2> QED
    BY <1>2, <1>6, <2>1, <2>2
<1>10. PICK f : Computed(f, n, Flags, S, Scan, step)
  <2>1. Computable(n, Flags, S, Scan, step)
    BY <1>2, <1>7, <1>8, <1>9 DEF Computable
  <2> QED
    BY <2>1, Recursion
<1>11. f \in [0 .. n -> Flags] /\ f[0] = Scan /\ f[n] \in Follows(t, from, Len(t) + 1)
  <2>1. n \in 0 .. n
    BY <1>2
  <2> QED
    BY <1>2, <1>6, <1>10, <2>1 DEF Computed
<1>12. \A k \in 1 .. n : f[k] = ScanCharacter(f[k - 1], t[from + k - 1], from + k - 1)
  <2> TAKE k \in 1 .. n
  <2>1. f[k - 1] \in Flags /\ f[k] = step[k][f[k - 1]]
    BY <1>3, <1>10, <1>11 DEF Computed
  <2> QED
    BY <1>5, <2>1
<1>13. Of(f)
  <2>1. \A k \in 0 .. n : f[k] = IF k = 0 THEN Scan
                                 ELSE ScanCharacter(f[k - 1], t[from + k - 1], from + k - 1)
    BY <1>2, <1>11, <1>12
  <2> QED
    BY <1>11, <2>1
<1>14. PICK g : g = (CHOOSE h : Of(h)) /\ Of(g)
  BY <1>13
<1>15. g[0] = Scan
       /\ \A k \in 1 .. n : g[k] = ScanCharacter(g[k - 1], t[from + k - 1], from + k - 1)
  <2>1. g = [k \in 0 .. n |-> IF k = 0 THEN Scan
                              ELSE ScanCharacter(g[k - 1], t[from + k - 1], from + k - 1)]
    BY <1>14
  <2>2. \A k \in 0 .. n : g[k] = IF k = 0 THEN Scan
                                 ELSE ScanCharacter(g[k - 1], t[from + k - 1], from + k - 1)
    BY <2>1
  <2>3. 0 \in 0 .. n /\ \A k \in 1 .. n : k # 0
    BY <1>2
  <2> QED
    BY <1>3, <2>2, <2>3
<1>16. \A k \in 0 .. n : g[k] = f[k]
  <2>1. \A k \in 1 .. n : g[k - 1] = f[k - 1] => g[k] = f[k]
    BY <1>12, <1>15
  <2>2. g[0] = f[0]
    BY <1>11, <1>15
  <2> QED
    BY <1>2, <2>1, <2>2, SameRecursion
<1>17. g[n] = f[n]
  BY <1>2, <1>16
<1> HIDE DEF Of
<1> QED
  BY <1>1, <1>11, <1>14, <1>17

\* What begins the line or follows a comma outside is outside.
LEMMA BeginsOutside ==
  ASSUME NEW t \in Chars, NEW from \in {1} \union {i + 1 : i \in Commas(t)}
  PROVE  from \in 1 .. Len(t) + 1 /\ Outside(t, from)
<1>1. Len(t) \in Nat
  BY TextFacts
<1>2. CASE from = 1
  <2>1. Outside(t, 1)
    BY EscapedFacts, InStringFacts, InListFacts DEF Outside
  <2> QED
    BY <1>1, <1>2, <2>1
<1>3. CASE from # 1
  <2>1. PICK i \in Commas(t) : from = i + 1
    BY <1>3
  <2>2. i \in 1 .. Len(t) /\ t[i] = Comma /\ Outside(t, i)
    BY DEF Commas
  <2>3. /\ Escaped(t, i + 1) <=> t[i] = Backslash /\ ~Escaped(t, i)
        /\ InString(t, i + 1) <=> IF t[i] = Quote /\ ~Escaped(t, i) THEN ~InString(t, i)
                                  ELSE InString(t, i)
        /\ InList(t, i + 1) <=> IF IsBracket(t, i) THEN t[i] = BracketOpen ELSE InList(t, i)
    BY <2>2, EscapedFacts, InStringFacts, InListFacts
  <2>4. Comma # Backslash /\ Comma # Quote /\ Comma \notin {BracketOpen, BracketClose}
    BY DEF Comma, Backslash, Quote, BracketOpen, BracketClose
  <2>5. Outside(t, i + 1)
    BY <2>2, <2>3, <2>4 DEF Outside, IsBracket
  <2>6. i + 1 \in 1 .. Len(t) + 1
    BY <1>1, <2>2
  <2> QED
    BY <2>1, <2>5, <2>6
<1> QED
  BY <1>2, <1>3

\* Where a parameter ends: at the next comma outside, or at the end of the line,
\* or nowhere.
EndOf(t, from) ==
  IF \E i \in Commas(t) : i >= from THEN Min({i \in Commas(t) : i >= from})
  ELSE IF Outside(t, Len(t) + 1) THEN Len(t) + 1
  ELSE 0

\* uCxAtUtilFindParamEnd() ends every parameter of every line where EndOf() says.
THEOREM ParametersEnd ==
  ASSUME NEW t \in Chars, NEW from \in {1} \union {i + 1 : i \in Commas(t)}
  PROVE  FindParamEnd(t, from) = EndOf(t, from)
<1> DEFINE st == Scanned(t, from)
           after == {i \in Commas(t) : i >= from}
<1>1. from \in 1 .. Len(t) + 1 /\ Outside(t, from)
  BY BeginsOutside
<1>2. st \in Follows(t, from, Len(t) + 1)
  BY <1>1, ScannedFollows
<1>3. FindParamEnd(t, from) = IF st.inString \/ st.escape \/ st.inBracket THEN 0
                              ELSE IF st.end # 0 THEN st.end ELSE Len(t) + 1
  BY DEF FindParamEnd
<1> HIDE DEF st
<1>4. st \in Flags /\ (Going(st, t, from, Len(t) + 1) \/ Ended(st, t, from, Len(t) + 1))
  BY <1>2 DEF Follows
<1>5. Len(t) \in Nat /\ Commas(t) \subseteq 1 .. Len(t)
  BY TextFacts DEF Commas
<1>6. CASE Going(st, t, from, Len(t) + 1)
  <2>1. ~ \E i \in Commas(t) : i >= from
    <3> SUFFICES ASSUME NEW i \in Commas(t), i >= from
                 PROVE  FALSE
      OBVIOUS
    <3>1. i \in 1 .. Len(t) /\ ~(from <= i /\ i < Len(t) + 1)
      BY <1>5, <1>6 DEF Going
    <3> QED
      BY <1>1, <1>5, <3>1
  <2>2. (st.inString \/ st.escape \/ st.inBracket) <=> ~Outside(t, Len(t) + 1)
    BY <1>6 DEF Going, Outside
  <2>3. st.end = 0
    BY <1>6 DEF Going
  <2> QED
    BY <1>3, <2>1, <2>2, <2>3 DEF EndOf
<1>7. CASE Ended(st, t, from, Len(t) + 1)
  <2>1. /\ st.end \in Commas(t) /\ st.end >= from /\ st.end # 0
        /\ ~st.inString /\ ~st.escape /\ ~st.inBracket
        /\ \A i \in Commas(t) : i >= from => st.end <= i
    <3>1. \A i \in Commas(t) : i \in Nat /\ i # 0 /\ (i >= from <=> from <= i)
      BY <1>1, <1>5
    <3> QED
      BY <1>7, <3>1 DEF Ended
  <2>2. st.end \in after /\ \A y \in after : st.end <= y
    BY <2>1
  <2>3. after \subseteq Nat
    BY <1>5
  <2>4. Min(after) = CHOOSE x \in after : \A y \in after : x <= y
    BY DEF Min
  <2> HIDE DEF after
  <2>5. \A x \in after : (\A y \in after : x <= y) => x = st.end
    <3> TAKE x \in after
    <3> HAVE \A y \in after : x <= y
    <3>1. x \in Nat /\ st.end \in Nat /\ x <= st.end /\ st.end <= x
      BY <2>2, <2>3
    <3> QED
      BY <3>1
  <2>6. Min(after) = st.end
    BY <2>2, <2>4, <2>5
  <2>7. FindParamEnd(t, from) = st.end
    BY <1>3, <2>1
  <2>8. EndOf(t, from) = Min(after)
    BY <2>1 DEF EndOf, after
  <2> QED
    BY <2>6, <2>7, <2>8
<1> QED
  BY <1>4, <1>6, <1>7

-----------------------------------------------------------------------------
(* Every text                                                              *)

\* A conversion over its own text gives what it gives in another place, for every
\* text: unescapeString(), uCxStringToIntList() and the byte arrays of
\* uCxAtUtilParseParamsVaList() read nothing that they wrote.
THEOREM ConversionsInPlace ==
  ASSUME NEW text \in Chars
  PROVE  /\ UnescapeString(text, TRUE) = UnescapeString(text, FALSE)
         /\ StringToIntList(text, TRUE) = StringToIntList(text, FALSE)
         /\ ByteArray(text, TRUE) = ByteArray(text, FALSE)
BY UnescapeInPlace, ListInPlace, BytesInPlace

\* The samples that are texts are sequences of characters, and a step of the
\* parser leaves the sample alone.
SampleIsText == sample.kind = "text" => sample.value \in Chars

\* The texts of the samples have characters only.
LEMMA UptoIsText ==
  ASSUME NEW S, S \subseteq 0 .. 255, NEW n \in Nat, NEW text \in Upto(S, n)
  PROVE  text \in Chars
<1>1. PICK k \in 0 .. n : text \in [1 .. k -> S]
  BY DEF Upto
<1>2. k \in Nat /\ text \in [1 .. k -> 0 .. 255]
  <2> DEFINE C == 0 .. 255
  <2>1. S \subseteq C /\ k \in Nat
    OBVIOUS
  <2> HIDE DEF C
  <2>2. text \in [1 .. k -> C]
    BY <1>1, <2>1
  <2> QED
    BY <2>1, <2>2 DEF C
<1> QED
  BY <1>2, IsText

\* A sample that is a text stays one.
LEMMA SamplesAreTexts ==
  MCSpec => []SampleIsText
<1>1. MCInit => SampleIsText
  <2> SUFFICES ASSUME MCInit, sample.kind = "text"
               PROVE  sample.value \in Chars
    BY DEF SampleIsText
  <2>1. sample.value \in Upto(TextChars, MaxText) \union Upto(ListChars, MaxListText)
    BY DEF MCInit, Samples
  <2>2. TextChars \subseteq 0 .. 255 /\ ListChars \subseteq 0 .. 255
    BY DEF TextChars, ListChars, NUL, Quote, Comma, Zero, BracketOpen, Backslash, BracketClose
  <2>3. MaxText \in Nat /\ MaxListText \in Nat
    BY TextAssumption
  <2> QED
    BY <2>1, <2>2, <2>3, UptoIsText
<1>2. SampleIsText /\ [MCNext]_<<rxVars, sample>> => SampleIsText'
  BY DEF SampleIsText, MCNext
<1> QED
  BY <1>1, <1>2, PTL DEF MCSpec

\* InPlaceIsSafe: no conversion reads what it has written over its own text.
THEOREM InPlaceSafe ==
  MCSpec => []InPlaceIsSafe
<1>1. SampleIsText => InPlaceIsSafe
  BY ConversionsInPlace DEF SampleIsText, InPlaceIsSafe
<1> QED
  BY <1>1, SamplesAreTexts, PTL

\* SplitAsDefined: parameters end at the commas that are not escaped and not in a
\* string or in a list, as counted from the beginning of the line.
THEOREM SplitsAsDefined ==
  MCSpec => []SplitAsDefined
<1>1. SampleIsText => SplitAsDefined
  <2> SUFFICES ASSUME SampleIsText, sample.kind = "text"
               PROVE  LET t == sample.value
                          commas == {i \in 1 .. Len(t) : t[i] = Comma /\ Outside(t, i)}
                          end(from) == IF \E i \in commas : i >= from
                                       THEN Min({i \in commas : i >= from})
                                       ELSE IF Outside(t, Len(t) + 1) THEN Len(t) + 1
                                       ELSE 0
                      IN  \A from \in {1} \union {i + 1 : i \in commas} :
                            FindParamEnd(t, from) = end(from)
    BY DEF SplitAsDefined
  <2> DEFINE t == sample.value
  <2>1. t \in Chars
    BY DEF SampleIsText
  <2> HIDE DEF t
  <2>2. \A from \in {1} \union {i + 1 : i \in Commas(t)} : FindParamEnd(t, from) = EndOf(t, from)
    BY <2>1, ParametersEnd
  <2> QED
    BY <2>2 DEF Commas, EndOf, t
<1> QED
  BY <1>1, SamplesAreTexts, PTL

-----------------------------------------------------------------------------
(* Texts that are put together                                              *)

\* What texts one behind the other give, the first k of them: P[k].
Flattens(P, E, n, S) ==
  /\ n \in Nat /\ E \in [1 .. n -> Seq(S)]
  /\ P \in [0 .. n -> Seq(S)] /\ P[0] = <<>>
  /\ \A k \in 1 .. n : P[k] = P[k - 1] \o E[k]

\* FlattenSeq() gives all of them.
LEMMA FlattenFacts ==
  ASSUME NEW S, NEW n \in Nat, NEW E \in [1 .. n -> Seq(S)]
  PROVE  \E P : Flattens(P, E, n, S) /\ FlattenSeq(E) = P[n]
<1> DEFINE U == Seq(S)
           step == [k \in 1 .. n |-> [s \in U |-> s \o E[k]]]
           T == [k \in 0 .. n |-> U]
<1>1. E \in Seq(Seq(S)) /\ Len(E) = n
  BY FunctionIsSeq
<1>2. PICK P : Computed(P, n, U, T, <<>>, step)
  <2>1. \A k \in 1 .. n : \A s \in T[k - 1] : step[k][s] \in T[k]
    <3> TAKE k \in 1 .. n
    <3>1. T[k - 1] = U /\ T[k] = U
      OBVIOUS
    <3>2. \A s \in U : step[k][s] = s \o E[k] /\ s \o E[k] \in U
      OBVIOUS
    <3> HIDE DEF T, step
    <3> QED
      BY <3>1, <3>2
  <2>2. <<>> \in T[0] /\ T \in [0 .. n -> SUBSET U]
    OBVIOUS
  <2>3. Computable(n, U, T, <<>>, step)
    BY <2>1, <2>2 DEF Computable
  <2> HIDE DEF U, T, step
  <2> QED
    BY <2>3, Recursion
<1>3. /\ P \in [0 .. n -> U] /\ P[0] = <<>>
      /\ \A k \in 1 .. n : P[k] = P[k - 1] \o E[k]
  <2>1. /\ P \in [0 .. n -> U] /\ P[0] = <<>>
        /\ \A k \in 1 .. n : P[k] = step[k][P[k - 1]]
    BY <1>2 DEF Computed
  <2>2. \A k \in 1 .. n : P[k] = P[k - 1] \o E[k]
    <3> TAKE k \in 1 .. n
    <3>1. P[k - 1] \in U
      BY <2>1
    <3> QED
      BY <2>1, <3>1
  <2> QED
    BY <2>1, <2>2
<1> HIDE DEF U, step, T
<1>4. Flattens(P, E, n, S)
  BY <1>3 DEF Flattens, U
<1>5. FlattenSeq(E) = P[n]
  <2> DEFINE Cat(a, b) == a \o b
  <2>3. \A k \in 1 .. n : P[k] = Cat(P[k - 1], E[k])
    BY <1>3
  <2>4. \A s \in Seq(S) : Cat(<<>>, s) = s
    OBVIOUS
  <2>1. CASE n = 0
    <3>1. E = <<>>
      BY <1>1, <2>1
    <3> QED
      BY <1>1, <1>3, <2>1, <3>1 DEF FlattenSeq
  <2>2. CASE n # 0
    <3> DEFINE Of(h) == h = [i \in 1 .. Len(E) |-> IF i = 1 THEN E[i] ELSE Cat(h[i - 1], E[i])]
    <3>1. FlattenSeq(E) = (CHOOSE h : Of(h))[n]
      BY <1>1, <2>2 DEF FlattenSeq
    <3> HIDE DEF Cat
    <3> DEFINE f == [i \in 1 .. n |-> P[i]]
    <3>2. \A i \in 1 .. n : f[i] = IF i = 1 THEN E[i] ELSE Cat(f[i - 1], E[i])
      <4> TAKE i \in 1 .. n
      <4>1. CASE i = 1
        <5>1. P[1] = Cat(<<>>, E[1]) /\ E[1] \in Seq(S)
          BY <1>3, <2>2, <2>3
        <5>2. Cat(<<>>, E[1]) = E[1]
          BY <2>4, <5>1
        <5> QED
          BY <4>1, <5>1, <5>2
      <4>2. CASE i # 1
        <5>1. i - 1 \in 1 .. n
          BY <4>2
        <5>2. f[i] = P[i] /\ f[i - 1] = P[i - 1]
          BY <5>1
        <5> QED
          BY <2>3, <4>2, <5>2
      <4> QED
        BY <4>1, <4>2
    <3>3. Of(f)
      BY <1>1, <3>2
    <3>4. PICK g : g = (CHOOSE h : Of(h)) /\ Of(g)
      BY <3>3
    <3>5. \A i \in 1 .. n : g[i] = IF i = 1 THEN E[i] ELSE Cat(g[i - 1], E[i])
      <4>1. g = [i \in 1 .. n |-> IF i = 1 THEN E[i] ELSE Cat(g[i - 1], E[i])]
        BY <1>1, <3>4
      <4> QED
        BY <4>1
    <3> DEFINE Q == {k \in 0 .. n : k = 0 \/ g[k] = P[k]}
    <3>6. 0 \in Q
      OBVIOUS
    <3>7. \A k \in 1 .. n : k - 1 \in Q => k \in Q
      <4> TAKE k \in 1 .. n
      <4> HAVE k - 1 \in Q
      <4>1. f[k] = P[k]
        OBVIOUS
      <4>2. CASE k = 1
        <5>1. f[1] = E[1] /\ f[1] = P[1]
          <6>1. 1 \in 1 .. n
            BY <2>2
          <6> QED
            BY <3>2, <6>1
        <5>2. g[1] = E[1]
          BY <2>2, <3>5
        <5> QED
          BY <4>2, <5>1, <5>2
      <4>3. CASE k # 1
        <5>1. g[k - 1] = P[k - 1] /\ g[k] = Cat(g[k - 1], E[k])
          BY <3>5, <4>3
        <5> QED
          BY <2>3, <5>1
      <4> QED
        BY <4>2, <4>3
    <3> HIDE DEF Q, Of, f
    <3>8. \A k \in 0 .. n : k \in Q
      BY <3>6, <3>7, UpToNumber
    <3>9. g[n] = P[n]
      BY <2>2, <3>8 DEF Q
    <3> QED
      BY <3>1, <3>4, <3>9
  <2> QED
    BY <2>1, <2>2
<1> QED
  BY <1>4, <1>5

\* How long one is, and the first k together
PartSize(E, k) == Len(E[k])
PartEnd(P, k) == Len(P[k])

\* Where one is: each text is behind those before it.
LEMMA PieceFacts ==
  ASSUME NEW P, NEW E, NEW n, NEW S, Flattens(P, E, n, S), NEW k \in 1 .. n
  PROVE  /\ PartEnd(P, k) = PartEnd(P, k - 1) + PartSize(E, k)
         /\ PartEnd(P, k - 1) \in Nat /\ PartSize(E, k) \in Nat /\ PartEnd(P, k) \in Nat
         /\ \A j \in 1 .. PartEnd(P, k - 1) : P[k][j] = P[k - 1][j]
         /\ \A j \in 1 .. PartSize(E, k) : P[k][PartEnd(P, k - 1) + j] = E[k][j]
<1> DEFINE U == Seq(S)
<1>1. /\ n \in Nat /\ E \in [1 .. n -> U] /\ P \in [0 .. n -> U]
      /\ \A i \in 1 .. n : P[i] = P[i - 1] \o E[i]
  BY DEF Flattens
<1> HIDE DEF U
<1>2. k - 1 \in 0 .. n
  BY <1>1
<1>3. P[k - 1] \in U /\ E[k] \in U
  BY <1>1, <1>2
<1>4. P[k] = P[k - 1] \o E[k]
  BY <1>1
<1>5. PICK a : a = P[k - 1]
  OBVIOUS
<1>6. PICK b : b = E[k]
  OBVIOUS
<1>7. a \in Seq(S) /\ b \in Seq(S)
  BY <1>3, <1>5, <1>6 DEF U
<1>8. PICK c : c = a \o b
  OBVIOUS
<1>9. /\ Len(c) = Len(a) + Len(b) /\ Len(a) \in Nat /\ Len(b) \in Nat /\ Len(c) \in Nat
      /\ \A j \in 1 .. Len(a) : c[j] = a[j]
      /\ \A j \in 1 .. Len(b) : c[Len(a) + j] = b[j]
  BY <1>7, <1>8
<1>10. /\ PartEnd(P, k - 1) = Len(a) /\ PartSize(E, k) = Len(b)
       /\ PartEnd(P, k) = Len(c) /\ P[k] = c
  BY <1>4, <1>5, <1>6, <1>8 DEF PartEnd, PartSize
<1> QED
  BY <1>5, <1>6, <1>9, <1>10

\* The first k are the beginning of all of them.
LEMMA PrefixFacts ==
  ASSUME NEW P, NEW E, NEW n, NEW S, Flattens(P, E, n, S), NEW k \in 0 .. n
  PROVE  /\ PartEnd(P, k) \in Nat /\ PartEnd(P, n) \in Nat /\ PartEnd(P, k) <= PartEnd(P, n)
         /\ \A j \in 1 .. PartEnd(P, k) : P[n][j] = P[k][j]
<1> DEFINE Begins(i) == /\ PartEnd(P, k) <= PartEnd(P, i)
                        /\ \A j \in 1 .. PartEnd(P, k) : P[i][j] = P[k][j]
           Q == {i \in 0 .. n : i < k \/ Begins(i)}
<1>1. n \in Nat /\ k \in Nat /\ k <= n
  BY DEF Flattens
<1>2. \A i \in 0 .. n : PartEnd(P, i) \in Nat
  <2> TAKE i \in 0 .. n
  <2>1. P[i] \in Seq(S)
    BY DEF Flattens
  <2> QED
    BY <2>1 DEF PartEnd
<1>3. Begins(k)
  BY <1>2
<1>4. 0 \in Q
  BY <1>1, <1>3
<1>5. \A i \in 1 .. n : i - 1 \in Q => i \in Q
  <2> TAKE i \in 1 .. n
  <2> HAVE i - 1 \in Q
  <2>1. CASE i < k
    BY <2>1
  <2>2. CASE i = k
    BY <1>3, <2>2
  <2>3. CASE i > k
    <3>1. Begins(i - 1) /\ i - 1 \in 0 .. n
      BY <1>1, <2>3
    <3>2. /\ PartEnd(P, i) = PartEnd(P, i - 1) + PartSize(E, i) /\ PartSize(E, i) \in Nat
          /\ \A j \in 1 .. PartEnd(P, i - 1) : P[i][j] = P[i - 1][j]
      BY PieceFacts
    <3>3. PartEnd(P, i - 1) \in Nat /\ PartEnd(P, k) \in Nat
      BY <1>2, <3>1
    <3>4. Begins(i)
      BY <3>1, <3>2, <3>3
    <3> QED
      BY <3>4
  <2> QED
    BY <1>1, <2>1, <2>2, <2>3
<1> HIDE DEF Q
<1>6. n \in Q
  BY <1>1, <1>4, <1>5, UpToNumber
<1>7. Begins(n)
  BY <1>1, <1>6 DEF Q
<1> QED
  BY <1>1, <1>2, <1>7

\* Where each text is in all of them together
LEMMA PlaceFacts ==
  ASSUME NEW P, NEW E, NEW n, NEW S, Flattens(P, E, n, S), NEW k \in 1 .. n
  PROVE  /\ PartEnd(P, k) = PartEnd(P, k - 1) + PartSize(E, k) /\ PartEnd(P, k) <= PartEnd(P, n)
         /\ PartEnd(P, k - 1) \in Nat /\ PartSize(E, k) \in Nat /\ PartEnd(P, n) \in Nat
         /\ \A j \in 1 .. PartSize(E, k) : P[n][PartEnd(P, k - 1) + j] = E[k][j]
<1>1. /\ PartEnd(P, k) = PartEnd(P, k - 1) + PartSize(E, k)
      /\ PartEnd(P, k - 1) \in Nat /\ PartSize(E, k) \in Nat /\ PartEnd(P, k) \in Nat
      /\ \A j \in 1 .. PartSize(E, k) : P[k][PartEnd(P, k - 1) + j] = E[k][j]
  BY PieceFacts
<1>2. k \in 0 .. n
  BY DEF Flattens
<1>3. /\ PartEnd(P, n) \in Nat /\ PartEnd(P, k) <= PartEnd(P, n)
      /\ \A j \in 1 .. PartEnd(P, k) : P[n][j] = P[k][j]
  BY <1>2, PrefixFacts
<1>4. \A j \in 1 .. PartSize(E, k) : P[n][PartEnd(P, k - 1) + j] = E[k][j]
  <2> TAKE j \in 1 .. PartSize(E, k)
  <2>1. PartEnd(P, k - 1) + j \in 1 .. PartEnd(P, k)
    BY <1>1
  <2> QED
    BY <1>1, <1>3, <2>1
<1> QED
  BY <1>1, <1>3, <1>4

-----------------------------------------------------------------------------
(* Escape sequences                                                         *)

\* Two texts one behind the other
LEMMA JoinFacts ==
  ASSUME NEW S, NEW a \in Seq(S), NEW b \in Seq(S)
  PROVE  /\ a \o b \in Seq(S) /\ Len(a \o b) = Len(a) + Len(b)
         /\ Len(a) \in Nat /\ Len(b) \in Nat
         /\ \A j \in 1 .. Len(a) : (a \o b)[j] = a[j]
         /\ \A j \in 1 .. Len(b) : (a \o b)[Len(a) + j] = b[j]
OBVIOUS

\* Texts with the same characters are the same.
LEMMA SameText ==
  ASSUME NEW S, NEW s \in Seq(S), NEW u \in Seq(S), Len(s) = Len(u),
         \A j \in 1 .. Len(u) : s[j] = u[j]
  PROVE  s = u
OBVIOUS

\* A hex digit that is written can be read.
HexDigit == (48 .. 57) \union (65 .. 70)
\* Each of the sixteen is one that hexToNibble() knows.
LEMMA DigitFacts ==
  ASSUME NEW n \in 0 .. 15
  PROVE  nibbleToHex(n) \in HexDigit /\ hexToNibble[nibbleToHex(n)] = n
<1>1. CASE n < 10
  <2>1. nibbleToHex(n) = 48 + n /\ 48 + n \in 48 .. 57 /\ 48 + n \in 0 .. 255
    BY <1>1 DEF nibbleToHex
  <2>2. hexToNibble[48 + n] = (48 + n) - 48
    BY <2>1 DEF hexToNibble
  <2> QED
    BY <2>1, <2>2 DEF HexDigit
<1>2. CASE ~(n < 10)
  <2> DEFINE d == 55 + n
  <2>1. nibbleToHex(n) = d /\ d \in 65 .. 70 /\ d \in 0 .. 255 /\ d - 65 + 10 = n
    BY <1>2 DEF nibbleToHex
  <2> HIDE DEF d
  <2>2. d \notin 48 .. 57 /\ d \notin 97 .. 102
    BY <2>1
  <2>3. hexToNibble[d] = d - 65 + 10
    BY <2>1, <2>2 DEF hexToNibble
  <2> QED
    BY <2>1, <2>3 DEF HexDigit
<1> QED
  BY <1>1, <1>2

\* Two of them are the byte.
LEMMA HexPairFacts ==
  ASSUME NEW b \in 0 .. 255
  PROVE  \E h, l \in HexDigit : ByteToHex(b) = <<h, l>> /\ HexToByte(h, l) = b
<1> DEFINE h == nibbleToHex(b \div 16)
           l == nibbleToHex(b % 16)
<1>1. b \div 16 \in 0 .. 15 /\ b % 16 \in 0 .. 15 /\ 16 * (b \div 16) + (b % 16) = b
  <2>1. b \in Nat /\ b < 256
    OBVIOUS
  <2>2. b % 16 \in 0 .. 15
    BY <2>1
  <2>3. 16 * (b \div 16) + (b % 16) = b
    BY <2>1
  <2>4. b \div 16 \in 0 .. 15
    BY <2>1
  <2> QED
    BY <2>2, <2>3, <2>4
<1>2. /\ h \in HexDigit /\ hexToNibble[h] = b \div 16
      /\ l \in HexDigit /\ hexToNibble[l] = b % 16
  BY <1>1, DigitFacts
<1>3. ByteToHex(b) = <<h, l>>
  BY DEF ByteToHex
<1> HIDE DEF h, l
<1>4. HexToByte(h, l) = b
  <2> DEFINE x == b \div 16
             y == b % 16
  <2>1. hexToNibble[h] = x /\ hexToNibble[l] = y /\ x \in 0 .. 15 /\ y \in 0 .. 15
        /\ 16 * x + y = b
    BY <1>1, <1>2
  <2> HIDE DEF x, y
  <2> QED
    BY <2>1 DEF HexToByte
<1> QED
  BY <1>2, <1>3, <1>4

\* How a character may be escaped: as it is, by a letter, or in hex.
AsItself(c, e) == /\ e = <<c>> /\ c \in 0 .. 255 /\ c \notin {NUL, Quote, Backslash}
ByLetter(c, e, x) ==
  /\ e = <<Backslash, x>> /\ x \in 1 .. 255
  /\ \A high, low \in 0 .. 255 : Unescape(x, high, low) = [chars |-> <<c>>, read |-> 2]
InHex(c, e, h, l) ==
  /\ e = <<Backslash, 120, h, l>> /\ h \in HexDigit /\ l \in HexDigit
  /\ Unescape(120, h, l) = [chars |-> <<c>>, read |-> 4]

\* Each character is escaped in one of these ways.
LEMMA EscapeCases ==
  ASSUME NEW c \in 0 .. 255
  PROVE  LET e == escapeCharacter(c) IN
         \/ AsItself(c, e)
         \/ \E x : ByLetter(c, e, x)
         \/ \E h, l : InHex(c, e, h, l)
<1> DEFINE e == escapeCharacter(c)
           Letters == {13, 10, 9, 8, 34, 92, 0}
           Meant(x) == {d \in DOMAIN EscapeLetter : EscapeLetter[d] = x}
<1>1. /\ DOMAIN EscapeLetter = Letters
      /\ EscapeLetter[13] = 114 /\ EscapeLetter[10] = 110 /\ EscapeLetter[9] = 116
      /\ EscapeLetter[8] = 98 /\ EscapeLetter[34] = 34 /\ EscapeLetter[92] = 92
      /\ EscapeLetter[0] = 48
  BY DEF EscapeLetter, Quote, Backslash, NUL, Zero
<1>2. CASE c \in Letters
  <2> DEFINE x == EscapeLetter[c]
  <2>1. e = <<Backslash, x>>
    BY <1>1, <1>2 DEF escapeCharacter
  <2>2. x \in 1 .. 255 /\ Meant(x) = {c}
    <3>1. x \in 1 .. 255
      BY <1>1, <1>2
    <3>2. \A d \in Letters : EscapeLetter[d] = x => d = c
      BY <1>1, <1>2
    <3> QED
      BY <1>1, <1>2, <3>1, <3>2
  <2> HIDE DEF x
  <2>3. ASSUME NEW high, NEW low
        PROVE  Unescape(x, high, low) = [chars |-> <<c>>, read |-> 2]
    <3> DEFINE meant == Meant(x)
    <3>1. Meant(x) # {} /\ (CHOOSE d \in meant : TRUE) = c
      BY <2>2
    <3>2. Unescape(x, high, low) = [chars |-> <<CHOOSE d \in meant : TRUE>>, read |-> 2]
      BY <3>1 DEF Unescape
    <3> HIDE DEF meant
    <3> QED
      BY <3>1, <3>2
  <2>4. ByLetter(c, e, x)
    BY <2>1, <2>2, <2>3 DEF ByLetter
  <2> QED
    BY <2>4
<1>3. CASE c \notin Letters /\ IsPrint(c)
  <2>1. e = <<c>>
    BY <1>1, <1>3 DEF escapeCharacter
  <2>2. c \notin {NUL, Quote, Backslash}
    BY <1>3 DEF NUL, Quote, Backslash
  <2>3. AsItself(c, e)
    BY <2>1, <2>2 DEF AsItself
  <2> QED
    BY <2>3
<1>4. CASE c \notin Letters /\ ~IsPrint(c)
  <2>1. PICK h \in HexDigit, l \in HexDigit : ByteToHex(c) = <<h, l>> /\ HexToByte(h, l) = c
    BY HexPairFacts
  <2>2. e = <<Backslash, 120>> \o <<h, l>>
    BY <1>1, <1>4, <2>1 DEF escapeCharacter
  <2>3. e = <<Backslash, 120, h, l>>
    <3> DEFINE a == <<Backslash, 120>>
               b == <<h, l>>
               U == {Backslash, 120, h, l}
    <3>1. /\ a \in Seq(U) /\ b \in Seq(U) /\ e = a \o b
          /\ Len(a) = 2 /\ Len(b) = 2
          /\ a[1] = Backslash /\ a[2] = 120 /\ b[1] = h /\ b[2] = l
      BY <2>2
    <3> HIDE DEF a, b, e, U
    <3>2. /\ e \in Seq(U) /\ Len(e) = 4
          /\ e[1] = Backslash /\ e[2] = 120 /\ e[3] = h /\ e[4] = l
      <4>1. /\ a \o b \in Seq(U) /\ Len(a \o b) = 2 + 2
            /\ \A j \in 1 .. 2 : (a \o b)[j] = a[j]
            /\ \A j \in 1 .. 2 : (a \o b)[2 + j] = b[j]
        <5>1. a \in Seq(U) /\ b \in Seq(U)
          BY <3>1
        <5>2. /\ a \o b \in Seq(U) /\ Len(a \o b) = Len(a) + Len(b)
              /\ \A j \in 1 .. Len(a) : (a \o b)[j] = a[j]
              /\ \A j \in 1 .. Len(b) : (a \o b)[Len(a) + j] = b[j]
          BY <5>1, JoinFacts
        <5> QED
          BY <3>1, <5>2
      <4>2. e[1] = a[1] /\ e[2] = a[2]
        BY <3>1, <4>1
      <4>3. e[2 + 1] = b[1] /\ e[2 + 2] = b[2]
        BY <3>1, <4>1
      <4>4. e[3] = b[1] /\ e[4] = b[2]
        BY <4>3
      <4> QED
        BY <3>1, <4>1, <4>2, <4>4
    <3> QED
      BY <3>2
  <2>4. Meant(120) = {}
    <3>1. \A d \in Letters : EscapeLetter[d] # 120
      BY <1>1
    <3> QED
      BY <1>1, <3>1
  <2>5. Unescape(120, h, l) = [chars |-> <<HexToByte(h, l)>>, read |-> 4]
    BY <2>1, <2>4 DEF Unescape
  <2>6. InHex(c, e, h, l)
    BY <2>1, <2>3, <2>5 DEF InHex
  <2> QED
    BY <2>6
<1> QED
  BY <1>2, <1>3, <1>4

\* What is written for a character: one to four characters, no NUL and no quote that
\* is not escaped.
LEMMA EscapedCharacter ==
  ASSUME NEW c \in 0 .. 255
  PROVE  LET e == escapeCharacter(c) IN
         /\ e \in Chars /\ Len(e) \in 1 .. 4
         /\ \A i \in 1 .. Len(e) : e[i] # NUL
<1> DEFINE e == escapeCharacter(c)
           S == 0 .. 255
<1>1. Backslash \in S /\ 120 \in S /\ Backslash # NUL /\ 120 # NUL
      /\ \A d \in HexDigit : d \in S /\ d # NUL
  BY DEF Backslash, NUL, HexDigit
<1>2. CASE AsItself(c, e)
  <2>1. e = <<c>> /\ c \in S /\ c # NUL
    BY <1>2 DEF AsItself
  <2> HIDE DEF e, S
  <2>2. e \in Seq(S) /\ Len(e) = 1 /\ \A i \in 1 .. 1 : e[i] # NUL
    BY <2>1
  <2> QED
    BY <2>2 DEF S, Chars, e
<1>3. ASSUME NEW x, ByLetter(c, e, x)
      PROVE  e \in Chars /\ Len(e) \in 1 .. 4 /\ \A i \in 1 .. Len(e) : e[i] # NUL
  <2>1. e = <<Backslash, x>> /\ x \in S /\ x # NUL
    <3>1. e = <<Backslash, x>> /\ x \in 1 .. 255
      BY <1>3 DEF ByLetter
    <3> HIDE DEF e
    <3> QED
      BY <3>1 DEF NUL
  <2> HIDE DEF e, S
  <2>2. e \in Seq(S) /\ Len(e) = 2 /\ \A i \in 1 .. 2 : e[i] # NUL
    BY <1>1, <2>1
  <2> QED
    BY <2>2 DEF S, Chars, e
<1>4. ASSUME NEW h, NEW l, InHex(c, e, h, l)
      PROVE  e \in Chars /\ Len(e) \in 1 .. 4 /\ \A i \in 1 .. Len(e) : e[i] # NUL
  <2>1. e = <<Backslash, 120, h, l>> /\ h \in S /\ l \in S /\ h # NUL /\ l # NUL
    BY <1>1, <1>4 DEF InHex
  <2> HIDE DEF e, S
  <2>2. e \in Seq(S) /\ Len(e) = 4 /\ \A i \in 1 .. 4 : e[i] # NUL
    BY <1>1, <2>1
  <2> QED
    BY <2>2 DEF S, Chars, e
<1> QED
  BY <1>2, <1>3, <1>4, EscapeCases

-----------------------------------------------------------------------------
(* What is escaped is unescaped                                             *)

\* The escaped characters of a string
Pieces(str) == [i \in 1 .. Len(str) |-> escapeCharacter(str[i])]

\* Each of them is one to four characters long.
LEMMA PiecesFacts ==
  ASSUME NEW str \in Chars
  PROVE  /\ Len(str) \in Nat /\ Pieces(str) \in [1 .. Len(str) -> Chars]
         /\ \A k \in 1 .. Len(str) :
              /\ str[k] \in 0 .. 255 /\ Pieces(str)[k] = escapeCharacter(str[k])
              /\ PartSize(Pieces(str), k) \in 1 .. 4
<1>1. Len(str) \in Nat /\ \A k \in 1 .. Len(str) : str[k] \in 0 .. 255
  BY TextFacts
<1>2. \A k \in 1 .. Len(str) : Pieces(str)[k] = escapeCharacter(str[k])
  BY DEF Pieces
<1>3. \A k \in 1 .. Len(str) : escapeCharacter(str[k]) \in Chars
                               /\ Len(escapeCharacter(str[k])) \in 1 .. 4
  BY <1>1, EscapedCharacter
<1>4. Pieces(str) \in [1 .. Len(str) -> Chars]
  BY <1>3 DEF Pieces
<1> QED
  BY <1>1, <1>2, <1>3, <1>4 DEF PartSize

\* P[k] is what is written for the first k characters of a string.
Writes(P, str) == Flattens(P, Pieces(str), Len(str), 0 .. 255)

\* A string is written so, and FlattenSeq() gives the whole of it.
LEMMA WritesFacts ==
  ASSUME NEW str \in Chars
  PROVE  \E P : /\ Writes(P, str) /\ FlattenSeq(Pieces(str)) = P[Len(str)]
                /\ P[Len(str)] \in Chars
<1> DEFINE S == 0 .. 255
<1>1. Len(str) \in Nat /\ Pieces(str) \in [1 .. Len(str) -> Seq(S)]
  BY PiecesFacts DEF Chars
<1> HIDE DEF S
<1>2. PICK P : Flattens(P, Pieces(str), Len(str), S)
               /\ FlattenSeq(Pieces(str)) = P[Len(str)]
  BY <1>1, FlattenFacts
<1>3. P[Len(str)] \in Seq(S)
  BY <1>1, <1>2 DEF Flattens
<1> QED
  BY <1>2, <1>3 DEF S, Chars, Writes

\* At least a character is written for each one, and no NUL.
LEMMA WrittenLength ==
  ASSUME NEW str \in Chars, NEW P, Writes(P, str), NEW k \in 0 .. Len(str)
  PROVE  PartEnd(P, k) \in Nat /\ k <= PartEnd(P, k) /\ PartEnd(P, 0) = 0
<1> DEFINE n == Len(str)
           Q == {i \in 0 .. n : PartEnd(P, i) \in Nat /\ i <= PartEnd(P, i)}
<1>1. n \in Nat
  BY PiecesFacts
<1>2. PartEnd(P, 0) = 0
  <2>1. P[0] = <<>>
    BY DEF Writes, Flattens
  <2> QED
    BY <2>1 DEF PartEnd
<1>3. 0 \in Q
  BY <1>1, <1>2
<1>4. \A i \in 1 .. n : i - 1 \in Q => i \in Q
  <2> TAKE i \in 1 .. n
  <2> HAVE i - 1 \in Q
  <2>1. PartEnd(P, i) = PartEnd(P, i - 1) + PartSize(Pieces(str), i)
    BY PieceFacts DEF Writes
  <2>2. PartSize(Pieces(str), i) \in 1 .. 4
    BY PiecesFacts
  <2>3. PartEnd(P, i - 1) \in Nat /\ i - 1 <= PartEnd(P, i - 1)
    OBVIOUS
  <2>4. PartEnd(P, i) \in Nat /\ i <= PartEnd(P, i)
    BY <2>1, <2>2, <2>3
  <2> QED
    BY <2>4
<1> HIDE DEF Q
<1>5. k \in Q
  BY <1>1, <1>3, <1>4, UpToNumber
<1> QED
  BY <1>2, <1>5 DEF Q

\* A place of what was written: it is in the text, and the text has it.
LEMMA WrittenPlace ==
  ASSUME NEW str \in Chars, NEW P, Writes(P, str), P[Len(str)] \in Chars, NEW k \in 1 .. Len(str)
  PROVE  LET e == escapeCharacter(str[k])
             text == P[Len(str)] \o <<NUL>>
         IN  /\ PartEnd(P, k) = PartEnd(P, k - 1) + Len(e) /\ PartEnd(P, k - 1) \in Nat
             /\ \A j \in 1 .. Len(e) : CharAt(text, PartEnd(P, k - 1) + j) = e[j]
             /\ PartEnd(P, k) <= Len(P[Len(str)])
<1> DEFINE n == Len(str)
           written == P[n]
           text == written \o <<NUL>>
           e == escapeCharacter(str[k])
           place == PartEnd(P, k - 1)
<1>1. /\ PartSize(Pieces(str), k) = Len(e) /\ Len(e) \in 1 .. 4
      /\ Pieces(str)[k] = e
  BY PiecesFacts DEF PartSize
<1>2. /\ PartEnd(P, k) = place + Len(e) /\ PartEnd(P, k) <= PartEnd(P, n)
      /\ place \in Nat /\ PartEnd(P, n) \in Nat
      /\ \A j \in 1 .. Len(e) : written[place + j] = e[j]
  <2>1. /\ PartEnd(P, k) = place + PartSize(Pieces(str), k) /\ PartEnd(P, k) <= PartEnd(P, n)
        /\ place \in Nat /\ PartEnd(P, n) \in Nat
        /\ \A j \in 1 .. PartSize(Pieces(str), k) : written[place + j] = Pieces(str)[k][j]
    BY PlaceFacts DEF Writes
  <2> HIDE DEF e, place, written
  <2> QED
    BY <1>1, <2>1
<1>3. PartEnd(P, n) = Len(written)
  BY DEF PartEnd
<1> HIDE DEF e, place, written
<1>4. /\ text \in Chars /\ Len(text) = Len(written) + 1
      /\ \A i \in 1 .. Len(written) : text[i] = written[i]
  BY WithNUL DEF written
<1>5. DOMAIN text = 1 .. Len(text)
  BY <1>4, TextFacts
<1>6. \A j \in 1 .. Len(e) : CharAt(text, place + j) = e[j]
  <2> TAKE j \in 1 .. Len(e)
  <2>1. place + j \in 1 .. Len(written)
    BY <1>1, <1>2, <1>3
  <2>2. place + j \in 1 .. Len(text)
    BY <1>2, <1>3, <1>4, <2>1
  <2> QED
    BY <1>2, <1>4, <1>5, <2>1, <2>2 DEF CharAt
<1> QED
  BY <1>2, <1>3, <1>6 DEF e, place, written

\* How a text looks when the first k characters were unescaped.
Restored(str, P, text, k) ==
  {st \in Unescaped(text) : /\ st.read = PartEnd(P, k) + 1 /\ st.write = k + 1
                            /\ \A i \in 1 .. k : st.mem[i] = str[i]}

\* What is read of a character that was escaped is this character.
LEMMA PieceIsRead ==
  ASSUME NEW c \in 0 .. 255, NEW text \in Chars, NEW st, st.read \in Nat,
         \A j \in 1 .. Len(escapeCharacter(c)) :
           CharAt(text, st.read + j - 1) = escapeCharacter(c)[j]
  PROVE  UnescapeNext(text, FALSE, st) =
           [mem |-> Write(st.mem, st.write, <<c>>),
            read |-> st.read + Len(escapeCharacter(c)), write |-> st.write + 1]
<1> DEFINE e == escapeCharacter(c)
           Char(i) == CharAt(text, st.read + i)
           piece == IF Char(0) = Backslash /\ Char(1) # NUL
                    THEN Unescape(Char(1), Char(2), Char(3))
                    ELSE [chars |-> <<Char(0)>>, read |-> 1]
<1>1. UnescapeNext(text, FALSE, st) =
        IF Char(0) = NUL THEN st
        ELSE [mem |-> Write(st.mem, st.write, piece.chars), read |-> st.read + piece.read,
              write |-> st.write + Len(piece.chars)]
  BY DEF UnescapeNext
<1>2. \A j \in 1 .. Len(e) : Char(j - 1) = e[j]
  <2> TAKE j \in 1 .. Len(e)
  <2>1. st.read + (j - 1) = st.read + j - 1
    OBVIOUS
  <2> QED
    BY <2>1
<1>3. \A i \in 0 .. 3 : Char(i) \in 0 .. 255
  <2> TAKE i \in 0 .. 3
  <2>1. st.read + i \in Int
    OBVIOUS
  <2> QED
    BY <2>1, CharFacts
<1>4. Backslash # NUL
  BY DEF Backslash, NUL
<1> HIDE DEF Char, e
<1>5. Char(0) # NUL /\ piece = [chars |-> <<c>>, read |-> Len(e)]
  <2>1. CASE AsItself(c, e)
    <3>1. Len(e) = 1 /\ e[1] = c /\ c # NUL /\ c # Backslash
      BY <2>1 DEF AsItself
    <3>2. Char(1 - 1) = c
      BY <1>2, <3>1
    <3> QED
      BY <3>1, <3>2
  <2>2. ASSUME NEW x, ByLetter(c, e, x)
        PROVE  Char(0) # NUL /\ piece = [chars |-> <<c>>, read |-> Len(e)]
    <3>1. Len(e) = 2 /\ e[1] = Backslash /\ e[2] = x /\ x # NUL
      <4>1. e = <<Backslash, x>> /\ x \in 1 .. 255
        BY <2>2 DEF ByLetter
      <4> QED
        BY <4>1 DEF NUL
    <3>2. Char(1 - 1) = Backslash /\ Char(2 - 1) = x
      BY <1>2, <3>1
    <3>3. Unescape(x, Char(2), Char(3)) = [chars |-> <<c>>, read |-> 2]
      <4>1. Char(2) \in 0 .. 255 /\ Char(3) \in 0 .. 255
        BY <1>3
      <4> QED
        BY <2>2, <4>1 DEF ByLetter
    <3> QED
      BY <1>4, <3>1, <3>2, <3>3
  <2>3. ASSUME NEW h, NEW l, InHex(c, e, h, l)
        PROVE  Char(0) # NUL /\ piece = [chars |-> <<c>>, read |-> Len(e)]
    <3>1. Len(e) = 4 /\ e[1] = Backslash /\ e[2] = 120 /\ e[3] = h /\ e[4] = l
      BY <2>3 DEF InHex
    <3>2. Char(1 - 1) = Backslash /\ Char(2 - 1) = 120 /\ Char(3 - 1) = h /\ Char(4 - 1) = l
      BY <1>2, <3>1
    <3>3. Char(0) = Backslash /\ Char(1) = 120 /\ Char(2) = h /\ Char(3) = l
      BY <3>2
    <3>4. Unescape(120, h, l) = [chars |-> <<c>>, read |-> 4]
      BY <2>3 DEF InHex
    <3> QED
      BY <1>4, <3>1, <3>3, <3>4 DEF NUL
  <2> QED
    BY <2>1, <2>2, <2>3, EscapeCases DEF e
<1> HIDE DEF piece
<1>6. Len(<<c>>) = 1
  OBVIOUS
<1> QED
  BY <1>1, <1>5, <1>6 DEF e

\* One more character is unescaped.
LEMMA RestoredStep ==
  ASSUME NEW str \in Chars, NEW P, Writes(P, str), P[Len(str)] \in Chars, NEW k \in 1 .. Len(str),
         NEW st \in Restored(str, P, P[Len(str)] \o <<NUL>>, k - 1)
  PROVE  UnescapeNext(P[Len(str)] \o <<NUL>>, FALSE, st)
           \in Restored(str, P, P[Len(str)] \o <<NUL>>, k)
<1> DEFINE text == P[Len(str)] \o <<NUL>>
           c == str[k]
           e == escapeCharacter(c)
           place == PartEnd(P, k - 1)
           new == UnescapeNext(text, FALSE, st)
<1>1. /\ PartEnd(P, k) = place + Len(e) /\ place \in Nat
      /\ \A j \in 1 .. Len(e) : CharAt(text, place + j) = e[j]
      /\ PartEnd(P, k) <= Len(P[Len(str)])
  BY WrittenPlace
<1>2. c \in 0 .. 255 /\ Len(e) \in 1 .. 4
  BY TextFacts, EscapedCharacter
<1>3. text \in Chars /\ Len(text) = Len(P[Len(str)]) + 1 /\ Len(P[Len(str)]) \in Nat
  BY WithNUL, TextFacts
<1>4. /\ st \in Unescaped(text) /\ st.read = place + 1 /\ st.write = (k - 1) + 1
      /\ \A i \in 1 .. k - 1 : st.mem[i] = str[i]
  BY DEF Restored
<1> HIDE DEF text, c, e, place
<1>5. st.mem \in Chars /\ Len(st.mem) = Len(text) /\ st.write = k /\ k <= place + 1
  BY <1>4 DEF Unescaped
<1>6. new = [mem |-> Write(st.mem, st.write, <<c>>), read |-> st.read + Len(e),
             write |-> st.write + 1]
  <2>1. \A j \in 1 .. Len(e) : CharAt(text, st.read + j - 1) = e[j]
    <3> TAKE j \in 1 .. Len(e)
    <3>1. st.read + j - 1 = place + j
      BY <1>1, <1>2, <1>4
    <3> QED
      BY <1>1, <3>1
  <2>2. st.read \in Nat
    BY <1>1, <1>4
  <2> QED
    BY <1>2, <1>3, <2>1, <2>2, PieceIsRead DEF e
<1>7. new \in Unescaped(text)
  BY <1>3, <1>4, UnescapeStep
<1>8. new.read = PartEnd(P, k) + 1 /\ new.write = k + 1
  <2> HIDE DEF new
  <2>1. new.read = st.read + Len(e) /\ new.write = st.write + 1
    BY <1>6
  <2> QED
    BY <1>1, <1>2, <1>4, <1>5, <2>1
<1>9. \A i \in 1 .. k : new.mem[i] = str[i]
  <2> TAKE i \in 1 .. k
  <2>1. new.mem = [j \in 1 .. Len(text) |-> IF j \in k .. k THEN c ELSE st.mem[j]]
    <3>1. new.mem = Write(st.mem, k, <<c>>)
      <4> HIDE DEF new
      <4> QED
        BY <1>5, <1>6
    <3>2. DOMAIN st.mem = 1 .. Len(text) /\ Len(<<c>>) = 1 /\ k + 1 - 1 = k
      BY <1>5, TextFacts
    <3>3. Write(st.mem, k, <<c>>) =
            [j \in 1 .. Len(text) |-> IF j \in k .. k THEN <<c>>[j - k + 1] ELSE st.mem[j]]
      BY <3>2 DEF Write
    <3>4. \A j \in 1 .. Len(text) : j \in k .. k => <<c>>[j - k + 1] = c
      OBVIOUS
    <3> HIDE DEF new
    <3> QED
      BY <3>1, <3>3, <3>4
  <2> HIDE DEF new
  <2>2. i \in 1 .. Len(text)
    BY <1>1, <1>2, <1>3, <1>5
  <2>3. CASE i = k
    BY <2>1, <2>2, <2>3 DEF c
  <2>4. CASE i # k
    <3>1. i \in 1 .. k - 1 /\ i \notin k .. k
      BY <2>4
    <3> QED
      BY <1>4, <2>1, <2>2, <3>1
  <2> QED
    BY <2>3, <2>4
<1> QED
  BY <1>7, <1>8, <1>9 DEF Restored, text

\* A string that is written is read as it was, whatever its characters are.
LEMMA StringIsRestored ==
  ASSUME NEW str \in Chars
  PROVE  UnescapeString(FlattenSeq(Pieces(str)), TRUE) = str
<1>1. PICK P : /\ Writes(P, str) /\ FlattenSeq(Pieces(str)) = P[Len(str)]
               /\ P[Len(str)] \in Chars
  BY WritesFacts
<1> DEFINE n == Len(str)
           written == P[n]
           text == written \o <<NUL>>
<1>2. n \in Nat /\ n <= Len(written) /\ Len(written) \in Nat
  <2>1. n \in Nat /\ n \in 0 .. n
    BY PiecesFacts
  <2>2. n <= PartEnd(P, n) /\ PartEnd(P, n) \in Nat
    BY <1>1, <2>1, WrittenLength
  <2> QED
    BY <2>1, <2>2 DEF PartEnd
<1>3. text \in Chars /\ Len(text) = Len(written) + 1 /\ text[Len(written) + 1] = NUL
  BY <1>1, WithNUL
<1> DEFINE R(k) == Restored(str, P, text, k)
<1>4. PICK f : /\ f \in [0 .. Len(text) -> Unescaped(text)]
               /\ f[0] = [mem |-> text, read |-> 1, write |-> 1]
               /\ \A k \in 1 .. Len(text) : f[k] = UnescapeNext(text, FALSE, f[k - 1])
               /\ \A inPlace \in BOOLEAN : Unescaping(text, inPlace) = f[Len(text)]
  BY <1>3, UnescapingFacts
<1>5. f[0] \in R(0)
  <2>1. PartEnd(P, 0) = 0
    BY <1>1, <1>2, WrittenLength
  <2>2. f[0] \in Unescaped(text)
    BY <1>3, <1>4
  <2> QED
    BY <1>4, <2>1, <2>2 DEF Restored
<1>6. \A k \in 1 .. n : \A st \in R(k - 1) : UnescapeNext(text, FALSE, st) \in R(k)
  BY <1>1, RestoredStep
<1>7. \A st \in R(n) : UnescapeNext(text, FALSE, st) = st
  <2> TAKE st \in R(n)
  <2>1. st.read = PartEnd(P, n) + 1 /\ PartEnd(P, n) = Len(written)
    BY DEF Restored, PartEnd
  <2>2. st.read + 0 = Len(written) + 1
    BY <1>2, <2>1
  <2>3. CharAt(text, Len(written) + 1) = NUL
    <3>1. DOMAIN text = 1 .. Len(text) /\ Len(written) + 1 \in 1 .. Len(text)
      BY <1>2, <1>3, TextFacts
    <3> QED
      BY <1>3, <3>1 DEF CharAt
  <2> HIDE DEF text, written
  <2> QED
    BY <2>2, <2>3 DEF UnescapeNext
<1> HIDE DEF R, text, n, written
<1> DEFINE Q == {k \in 0 .. Len(text) : IF k <= n THEN f[k] \in R(k) ELSE f[k] \in R(n)}
<1>8. f[Len(text)] \in R(n)
  <2>1. 0 \in Q
    BY <1>2, <1>3, <1>5
  <2>2. \A k \in 1 .. Len(text) : k - 1 \in Q => k \in Q
    <3> TAKE k \in 1 .. Len(text)
    <3> HAVE k - 1 \in Q
    <3>1. f[k] = UnescapeNext(text, FALSE, f[k - 1])
      BY <1>4
    <3>2. CASE k <= n
      <4>1. k \in 1 .. n /\ f[k - 1] \in R(k - 1)
        BY <1>2, <3>2
      <4>2. UnescapeNext(text, FALSE, f[k - 1]) \in R(k)
        BY <1>6, <4>1
      <4>3. f[k] \in R(k)
        BY <3>1, <4>2
      <4>4. k \in 0 .. Len(text)
        BY <1>2, <1>3
      <4> QED
        BY <3>2, <4>3, <4>4
    <3>3. CASE ~(k <= n)
      <4>1. f[k - 1] \in R(n)
        <5>1. CASE k - 1 <= n
          <6>1. k - 1 = n
            BY <1>2, <3>3, <5>1
          <6> QED
            BY <5>1, <6>1
        <5>2. CASE ~(k - 1 <= n)
          BY <5>2
        <5> QED
          BY <5>1, <5>2
      <4>2. f[k] = f[k - 1]
        BY <1>7, <3>1, <4>1
      <4> QED
        BY <3>3, <4>1, <4>2
    <3> QED
      BY <3>2, <3>3
  <2> HIDE DEF Q
  <2> DEFINE N == Len(text)
  <2>3. N \in Nat /\ N \in 0 .. N
    BY <1>2, <1>3
  <2>4. \A k \in 1 .. N : k - 1 \in Q => k \in Q
    BY <2>2
  <2> HIDE DEF N
  <2>5. N \in Q
    BY <2>1, <2>3, <2>4, UpToNumber
  <2> QED
    BY <1>2, <1>3, <2>5 DEF Q, N
<1>9. PICK end : end = f[Len(text)]
  OBVIOUS
<1>10. /\ Unescaping(text, TRUE) = end
       /\ end.write = n + 1 /\ end.mem \in Chars /\ Len(end.mem) = Len(text)
       /\ \A i \in 1 .. n : end.mem[i] = str[i]
  BY <1>4, <1>8, <1>9 DEF R, Restored, Unescaped
<1>11. SubSeq(end.mem, 1, n) = str
  <2> DEFINE s == SubSeq(end.mem, 1, n)
             S == 0 .. 255
             mem == end.mem
  <2>1. mem \in Seq(S) /\ n <= Len(mem) /\ str \in Seq(S) /\ Len(str) = n
        /\ \A i \in 1 .. n : mem[i] = str[i]
    BY <1>2, <1>3, <1>10 DEF Chars, n
  <2> HIDE DEF S, mem
  <2>2. SubSeq(mem, 1, n) \in Seq(S) /\ Len(SubSeq(mem, 1, n)) = n
        /\ \A i \in 1 .. n : SubSeq(mem, 1, n)[i] = mem[i]
    BY <1>2, <2>1
  <2>3. SubSeq(mem, 1, n) = str
    <3> DEFINE u == SubSeq(mem, 1, n)
    <3>1. u \in Seq(S) /\ str \in Seq(S) /\ Len(u) = Len(str) /\ \A j \in 1 .. Len(str) : u[j] = str[j]
      BY <2>1, <2>2
    <3> HIDE DEF u
    <3>2. u = str
      BY <3>1, SameText
    <3> QED
      BY <3>2 DEF u
  <2> QED
    BY <2>3 DEF mem
<1>12. UnescapeString(written, TRUE) = SubSeq(end.mem, 1, end.write - 1)
  BY <1>10 DEF UnescapeString, text
<1>13. end.write - 1 = n
  <2>1. end.write = n + 1
    BY <1>10
  <2> QED
    BY <1>2, <2>1
<1>14. UnescapeString(written, TRUE) = str
  BY <1>11, <1>12, <1>13
<1> QED
  BY <1>1, <1>14 DEF written, n

-----------------------------------------------------------------------------
(* A parameter in a line                                                    *)

\* A text that is one parameter: it has no comma outside, and nothing is open at its
\* end.
Closed(x) == x \in Chars /\ Commas(x) = {} /\ Outside(x, Len(x) + 1)

\* The text x is in the line t, behind a characters, where nothing is open.
Holds(t, a, x) ==
  /\ t \in Chars /\ x \in Chars /\ a \in Nat /\ a + Len(x) <= Len(t)
  /\ \A j \in 1 .. Len(x) : t[a + j] = x[j]
  /\ Outside(t, a + 1)

\* Whatever the line has before it, in the text the same is open as in the text alone.
SameOpen(t, a, x, j) ==
  /\ Escaped(t, a + j) <=> Escaped(x, j)
  /\ InString(t, a + j) <=> InString(x, j)
  /\ InList(t, a + j) <=> InList(x, j)

\* By induction: each character opens and closes the same in both.
LEMMA OpenAlone ==
  ASSUME NEW t, NEW a, NEW x, Holds(t, a, x), NEW j \in 1 .. Len(x) + 1
  PROVE  SameOpen(t, a, x, j)
<1> DEFINE n == Len(x)
           Q == {k \in 0 .. n : SameOpen(t, a, x, k + 1)}
<1>1. /\ t \in Chars /\ x \in Chars /\ a \in Nat /\ n \in Nat /\ Len(t) \in Nat /\ a + n <= Len(t)
      /\ \A k \in 1 .. n : t[a + k] = x[k]
  BY TextFacts DEF Holds
<1>2. 0 \in Q
  <2>1. SameOpen(t, a, x, 1)
    BY <1>1, EscapedFacts, InStringFacts, InListFacts DEF Holds, Outside, SameOpen
  <2>2. 0 + 1 = 1 /\ 0 \in 0 .. n
    BY <1>1
  <2> QED
    BY <2>1, <2>2
<1>3. \A k \in 1 .. n : k - 1 \in Q => k \in Q
  <2> TAKE k \in 1 .. n
  <2> HAVE k - 1 \in Q
  <2>1. k - 1 + 1 = k /\ a + k \in 1 .. Len(t) /\ a + (k + 1) = (a + k) + 1 /\ k \in 0 .. n
    BY <1>1
  <2>2. SameOpen(t, a, x, k) /\ t[a + k] = x[k]
    BY <1>1, <2>1
  <2> DEFINE i == a + k
  <2>3. i \in 1 .. Len(t) /\ t[i] = x[k] /\ a + (k + 1) = i + 1
        /\ (Escaped(t, i) <=> Escaped(x, k)) /\ (InString(t, i) <=> InString(x, k))
        /\ (InList(t, i) <=> InList(x, k))
    BY <2>1, <2>2 DEF SameOpen
  <2> HIDE DEF i
  <2>4. /\ Escaped(t, i + 1) <=> t[i] = Backslash /\ ~Escaped(t, i)
        /\ Escaped(x, k + 1) <=> x[k] = Backslash /\ ~Escaped(x, k)
    BY <1>1, <2>3, EscapedFacts
  <2>5. /\ InString(t, i + 1) <=> IF t[i] = Quote /\ ~Escaped(t, i) THEN ~InString(t, i)
                                  ELSE InString(t, i)
        /\ InString(x, k + 1) <=> IF x[k] = Quote /\ ~Escaped(x, k) THEN ~InString(x, k)
                                  ELSE InString(x, k)
    BY <1>1, <2>3, InStringFacts
  <2>6. /\ InList(t, i + 1) <=> IF IsBracket(t, i) THEN t[i] = BracketOpen ELSE InList(t, i)
        /\ InList(x, k + 1) <=> IF IsBracket(x, k) THEN x[k] = BracketOpen ELSE InList(x, k)
    BY <1>1, <2>3, InListFacts
  <2>7. IsBracket(t, i) <=> IsBracket(x, k)
    BY <2>3 DEF IsBracket
  <2>8. SameOpen(t, a, x, k + 1)
    BY <2>3, <2>4, <2>5, <2>6, <2>7 DEF SameOpen
  <2> QED
    BY <2>1, <2>8
<1> HIDE DEF Q
<1>4. j - 1 \in Q /\ j - 1 + 1 = j
  <2>1. j - 1 \in 0 .. n /\ j - 1 + 1 = j
    BY <1>1
  <2> QED
    BY <1>1, <1>2, <1>3, <2>1, UpToNumber
<1> QED
  BY <1>4 DEF Q

\* So a parameter in a line has no comma outside, and nothing is open behind it.
LEMMA ClosedInLine ==
  ASSUME NEW t, NEW a, NEW x, Holds(t, a, x), Closed(x)
  PROVE  /\ Outside(t, a + Len(x) + 1)
         /\ \A j \in 1 .. Len(x) : a + j \notin Commas(t)
<1>1. t \in Chars /\ x \in Chars /\ a \in Nat /\ Len(x) \in Nat
  BY TextFacts DEF Holds
<1>2. Outside(t, a + Len(x) + 1)
  <2>1. Len(x) + 1 \in 1 .. Len(x) + 1 /\ a + (Len(x) + 1) = a + Len(x) + 1
    BY <1>1
  <2>2. SameOpen(t, a, x, Len(x) + 1)
    BY <2>1, OpenAlone
  <2> QED
    BY <2>1, <2>2 DEF SameOpen, Outside, Closed
<1>3. ASSUME NEW j \in 1 .. Len(x), a + j \in Commas(t)
      PROVE  FALSE
  <2>1. j \in 1 .. Len(x) + 1
    BY <1>1
  <2>2. SameOpen(t, a, x, j)
    BY <2>1, OpenAlone
  <2>3. t[a + j] = Comma /\ Outside(t, a + j) /\ t[a + j] = x[j]
    BY <1>3 DEF Commas, Holds
  <2>4. j \in Commas(x)
    BY <2>2, <2>3 DEF Commas, SameOpen, Outside
  <2> QED
    BY <2>4 DEF Closed
<1> QED
  BY <1>2, <1>3

\* A line of parameters: texts that are closed, with a comma before each but the first.
Params(X) == X \in Seq({x \in Chars : Closed(x)}) /\ X # <<>>
Parts(X) == [i \in 1 .. Len(X) |-> IF i = 1 THEN X[i] ELSE <<Comma>> \o X[i]]
Lines(P, X) == Flattens(P, Parts(X), Len(X), 0 .. 255) /\ P[Len(X)] \in Chars

\* How many characters are before a parameter
Before(P, i) == IF i = 1 THEN 0 ELSE PartEnd(P, i - 1) + 1

\* Such a line has a parameter, and each of them is a text that is closed.
LEMMA ParamsFacts ==
  ASSUME NEW X, Params(X)
  PROVE  /\ Len(X) \in Nat /\ Len(X) >= 1
         /\ \A i \in 1 .. Len(X) : X[i] \in Chars /\ Closed(X[i]) /\ Len(X[i]) \in Nat
<1> DEFINE S == {x \in Chars : Closed(x)}
<1>1. X \in Seq(S) /\ X # <<>>
  BY DEF Params
<1>2. \A x \in S : x \in Chars /\ Closed(x)
  OBVIOUS
<1> HIDE DEF S
<1>3. Len(X) \in Nat /\ Len(X) >= 1 /\ \A i \in 1 .. Len(X) : X[i] \in S
  BY <1>1
<1> QED
  BY <1>2, <1>3, TextFacts

\* A comma before a text
LEMMA WithComma ==
  ASSUME NEW x \in Chars
  PROVE  /\ <<Comma>> \o x \in Chars /\ Len(<<Comma>> \o x) = Len(x) + 1
         /\ (<<Comma>> \o x)[1] = Comma
         /\ \A j \in 1 .. Len(x) : (<<Comma>> \o x)[1 + j] = x[j]
<1> DEFINE S == 0 .. 255
           a == <<Comma>>
<1>1. a \in Seq(S) /\ x \in Seq(S) /\ Len(a) = 1 /\ a[1] = Comma
  BY DEF Chars, Comma
<1> HIDE DEF S, a
<1>2. /\ a \o x \in Seq(S) /\ Len(a \o x) = Len(a) + Len(x) /\ Len(x) \in Nat
      /\ \A j \in 1 .. Len(a) : (a \o x)[j] = a[j]
      /\ \A j \in 1 .. Len(x) : (a \o x)[Len(a) + j] = x[j]
  <2>1. a \in Seq(S) /\ x \in Seq(S)
    BY <1>1
  <2> QED
    BY <2>1, JoinFacts
<1>3. (a \o x)[1] = Comma /\ Len(a \o x) = Len(x) + 1
  BY <1>1, <1>2
<1>4. \A j \in 1 .. Len(x) : (a \o x)[1 + j] = x[j]
  BY <1>1, <1>2
<1> QED
  BY <1>2, <1>3, <1>4 DEF S, Chars, a

\* What is put together for a parameter: its text, behind a comma if it is not the
\* first one
LEMMA PartsFacts ==
  ASSUME NEW X, Params(X)
  PROVE  /\ Parts(X) \in [1 .. Len(X) -> Chars]
         /\ \A i \in 1 .. Len(X) :
              IF i = 1
              THEN Parts(X)[i] = X[i] /\ PartSize(Parts(X), i) = Len(X[i])
              ELSE /\ PartSize(Parts(X), i) = Len(X[i]) + 1 /\ Parts(X)[i][1] = Comma
                   /\ \A j \in 1 .. Len(X[i]) : Parts(X)[i][1 + j] = X[i][j]
<1>1. \A i \in 1 .. Len(X) : X[i] \in Chars
  BY ParamsFacts
<1>2. \A i \in 1 .. Len(X) : Parts(X)[i] = IF i = 1 THEN X[i] ELSE <<Comma>> \o X[i]
  BY DEF Parts
<1>3. \A i \in 1 .. Len(X) :
        /\ <<Comma>> \o X[i] \in Chars /\ Len(<<Comma>> \o X[i]) = Len(X[i]) + 1
        /\ (<<Comma>> \o X[i])[1] = Comma
        /\ \A j \in 1 .. Len(X[i]) : (<<Comma>> \o X[i])[1 + j] = X[i][j]
  BY <1>1, WithComma
<1>4. Parts(X) \in [1 .. Len(X) -> Chars]
  BY <1>1, <1>3 DEF Parts
<1>5. ASSUME NEW i \in 1 .. Len(X)
      PROVE  IF i = 1
             THEN Parts(X)[i] = X[i] /\ PartSize(Parts(X), i) = Len(X[i])
             ELSE /\ PartSize(Parts(X), i) = Len(X[i]) + 1 /\ Parts(X)[i][1] = Comma
                  /\ \A j \in 1 .. Len(X[i]) : Parts(X)[i][1 + j] = X[i][j]
  <2>1. CASE i = 1
    BY <1>2, <2>1 DEF PartSize
  <2>2. CASE i # 1
    <3>1. Parts(X)[i] = <<Comma>> \o X[i]
      BY <1>2, <2>2
    <3> QED
      BY <1>3, <2>2, <3>1 DEF PartSize
  <2> QED
    BY <2>1, <2>2
<1> QED
  BY <1>4, <1>5

\* The line of these parameters is one of these lines.
LEMMA LineFacts ==
  ASSUME NEW X, Params(X)
  PROVE  \E P : Lines(P, X) /\ Joined(X, Comma) = P[Len(X)]
<1> DEFINE S == 0 .. 255
<1>1. Len(X) \in Nat /\ Parts(X) \in [1 .. Len(X) -> Seq(S)]
  BY ParamsFacts, PartsFacts DEF Chars
<1> HIDE DEF S
<1>2. PICK P : Flattens(P, Parts(X), Len(X), S) /\ FlattenSeq(Parts(X)) = P[Len(X)]
  BY <1>1, FlattenFacts
<1>3. P[Len(X)] \in Seq(S)
  BY <1>1, <1>2 DEF Flattens
<1>4. Lines(P, X)
  BY <1>2, <1>3 DEF Lines, Chars, S
<1>5. Joined(X, Comma) = FlattenSeq(Parts(X))
  BY DEF Joined, Parts
<1> QED
  BY <1>2, <1>4, <1>5

\* Where a parameter is in its line
LEMMA ParamPlace ==
  ASSUME NEW X, Params(X), NEW P, Lines(P, X), NEW i \in 1 .. Len(X)
  PROVE  LET whole == P[Len(X)] IN
         /\ Before(P, i) \in Nat /\ Before(P, i) + Len(X[i]) = PartEnd(P, i)
         /\ PartEnd(P, i) <= Len(whole) /\ PartEnd(P, Len(X)) = Len(whole)
         /\ \A j \in 1 .. Len(X[i]) : whole[Before(P, i) + j] = X[i][j]
         /\ i # 1 => whole[PartEnd(P, i - 1) + 1] = Comma /\ PartEnd(P, i - 1) \in Nat
<1> DEFINE n == Len(X)
           whole == P[n]
           x == X[i]
           before == PartEnd(P, i - 1)
           size == PartSize(Parts(X), i)
<1>1. /\ PartEnd(P, i) = before + size /\ PartEnd(P, i) <= PartEnd(P, n)
      /\ before \in Nat /\ size \in Nat /\ PartEnd(P, n) \in Nat
      /\ \A j \in 1 .. size : whole[before + j] = Parts(X)[i][j]
  BY PlaceFacts DEF Lines
<1>2. x \in Chars /\ Len(x) \in Nat /\ PartEnd(P, n) = Len(whole)
  BY ParamsFacts DEF PartEnd
<1>3. CASE i = 1
  <2>1. Parts(X)[i] = x /\ size = Len(x)
    BY <1>3, PartsFacts
  <2>2. before = 0 /\ Before(P, i) = 0
    <3>1. before = PartEnd(P, 0) /\ P[0] = <<>>
      BY <1>3 DEF Lines, Flattens
    <3>2. before = 0
      BY <3>1 DEF PartEnd
    <3> QED
      BY <1>3, <3>2 DEF Before
  <2> HIDE DEF before, size, whole, x, n
  <2>3. PartEnd(P, i) = Len(x) /\ \A j \in 1 .. Len(x) : whole[0 + j] = x[j]
    BY <1>1, <1>2, <2>1, <2>2
  <2> QED
    BY <1>1, <1>2, <1>3, <2>2, <2>3 DEF whole, n, x
<1>4. CASE i # 1
  <2>1. /\ size = Len(x) + 1 /\ Parts(X)[i][1] = Comma
        /\ \A j \in 1 .. Len(x) : Parts(X)[i][1 + j] = x[j]
    BY <1>4, PartsFacts
  <2>2. Before(P, i) = before + 1
    BY <1>4 DEF Before
  <2> DEFINE part == Parts(X)[i]
  <2>3. part[1] = Comma /\ \A j \in 1 .. Len(x) : part[1 + j] = x[j]
    BY <2>1
  <2>4. \A j \in 1 .. size : whole[before + j] = part[j]
    BY <1>1
  <2> HIDE DEF size, whole, x, n, part
  <2>5. whole[before + 1] = Comma
    <3>1. 1 \in 1 .. size
      BY <1>2, <2>1
    <3> QED
      BY <2>3, <2>4, <3>1
  <2>6. \A j \in 1 .. Len(x) : whole[before + 1 + j] = x[j]
    <3> TAKE j \in 1 .. Len(x)
    <3>1. 1 + j \in 1 .. size /\ before + 1 + j = before + (1 + j)
      BY <1>1, <1>2, <2>1
    <3> QED
      BY <2>3, <2>4, <3>1
  <2>7. before + 1 \in Nat /\ before + 1 + Len(x) = PartEnd(P, i)
    BY <1>1, <1>2, <2>1
  <2>8. PartEnd(P, i) <= Len(whole) /\ PartEnd(P, n) = Len(whole)
    BY <1>1, <1>2
  <2> QED
    BY <1>1, <2>2, <2>5, <2>6, <2>7, <2>8 DEF whole, n, x, before
<1> QED
  BY <1>3, <1>4

\* A parameter that begins outside ends outside, at a comma if it is not the last one.
LEMMA ParamHolds ==
  ASSUME NEW X, Params(X), NEW P, Lines(P, X), NEW i \in 1 .. Len(X),
         Outside(P[Len(X)], Before(P, i) + 1)
  PROVE  LET whole == P[Len(X)] IN
         /\ Holds(whole, Before(P, i), X[i]) /\ Outside(whole, PartEnd(P, i) + 1)
         /\ \A j \in Commas(whole) : Before(P, i) + 1 <= j => PartEnd(P, i) + 1 <= j
         /\ i < Len(X) => PartEnd(P, i) + 1 \in Commas(whole)
<1> DEFINE n == Len(X)
           whole == P[n]
           x == X[i]
           b == Before(P, i)
           end == PartEnd(P, i)
<1>1. n \in Nat /\ whole \in Chars /\ x \in Chars /\ Len(x) \in Nat /\ Len(whole) \in Nat /\ Closed(x)
  BY ParamsFacts, TextFacts DEF Lines
<1>2. /\ b \in Nat /\ b + Len(x) = end /\ end <= Len(whole)
      /\ \A j \in 1 .. Len(x) : whole[b + j] = x[j]
  BY ParamPlace
<1>3. Holds(whole, b, x)
  BY <1>1, <1>2 DEF Holds
<1>4. Outside(whole, b + Len(x) + 1) /\ \A j \in 1 .. Len(x) : b + j \notin Commas(whole)
  BY <1>1, <1>3, ClosedInLine
<1> HIDE DEF b, end, x, whole
<1>5. Outside(whole, end + 1)
  <2>1. b + Len(x) + 1 = end + 1
    BY <1>2
  <2> QED
    BY <1>4, <2>1
<1>6. \A j \in Commas(whole) : b + 1 <= j => end + 1 <= j
  <2> TAKE j \in Commas(whole)
  <2> HAVE b + 1 <= j
  <2>1. j \in 1 .. Len(whole)
    BY DEF Commas
  <2> SUFFICES ASSUME j < end + 1
               PROVE  FALSE
    BY <1>1, <1>2, <2>1
  <2>2. j - b \in 1 .. Len(x) /\ b + (j - b) = j
    BY <1>1, <1>2, <2>1
  <2> QED
    BY <1>4, <2>2
<1>7. i < n => end + 1 \in Commas(whole)
  <2> HAVE i < n
  <2>1. PICK k \in 1 .. n : k # 1 /\ k - 1 = i
    <3>1. i + 1 \in 1 .. n /\ i + 1 # 1 /\ i + 1 - 1 = i
      BY <1>1
    <3> QED
      BY <3>1
  <2>2. /\ Before(P, k) \in Nat /\ Before(P, k) + Len(X[k]) = PartEnd(P, k)
        /\ PartEnd(P, k) <= Len(whole) /\ whole[PartEnd(P, k - 1) + 1] = Comma
    <3>1. /\ Before(P, k) \in Nat /\ Before(P, k) + Len(X[k]) = PartEnd(P, k)
          /\ PartEnd(P, k) <= Len(P[Len(X)])
          /\ k # 1 => P[Len(X)][PartEnd(P, k - 1) + 1] = Comma
      BY ParamPlace
    <3> QED
      BY <2>1, <3>1 DEF whole
  <2>3. end + 1 <= Len(whole)
    <3>1. Before(P, k) = end + 1
      BY <2>1 DEF Before, end
    <3>2. Len(X[k]) \in Nat
      BY ParamsFacts
    <3> QED
      BY <1>1, <1>2, <2>2, <3>1, <3>2
  <2>4. end + 1 \in 1 .. Len(whole) /\ whole[end + 1] = Comma
    BY <1>1, <1>2, <2>1, <2>2, <2>3 DEF end
  <2> QED
    BY <1>5, <2>4 DEF Commas
<1> QED
  BY <1>3, <1>5, <1>6, <1>7 DEF b, end, x, whole

\* Each parameter begins outside,
LEMMA ParamBegins ==
  ASSUME NEW X, Params(X), NEW P, Lines(P, X), NEW i \in 1 .. Len(X)
  PROVE  /\ Before(P, i) + 1 \in {1} \union {j + 1 : j \in Commas(P[Len(X)])}
         /\ Outside(P[Len(X)], Before(P, i) + 1)
<1> DEFINE n == Len(X)
           whole == P[n]
           Starts == {1} \union {j + 1 : j \in Commas(whole)}
           Q == {k \in 0 .. n : k = 0 \/ Before(P, k) + 1 \in Starts}
<1>1. n \in Nat /\ whole \in Chars
  BY ParamsFacts DEF Lines
<1>2. 0 \in Q
  BY <1>1
<1>3. \A k \in 1 .. n : k - 1 \in Q => k \in Q
  <2> TAKE k \in 1 .. n
  <2> HAVE k - 1 \in Q
  <2>1. CASE k = 1
    <3>1. Before(P, k) + 1 = 1
      BY <2>1 DEF Before
    <3> HIDE DEF whole
    <3>2. k \in 0 .. n
      BY <1>1
    <3> QED
      BY <3>1, <3>2
  <2>2. CASE k # 1
    <3>1. k - 1 \in 1 .. n /\ k - 1 # 0 /\ k - 1 < n /\ k \in 0 .. n
      BY <1>1, <2>2
    <3>2. Before(P, k - 1) + 1 \in Starts
      BY <3>1
    <3>3. Outside(whole, Before(P, k - 1) + 1)
      BY <1>1, <3>2, BeginsOutside
    <3>4. PartEnd(P, k - 1) + 1 \in Commas(whole)
      BY <3>1, <3>3, ParamHolds
    <3>5. Before(P, k) = PartEnd(P, k - 1) + 1
      BY <2>2 DEF Before
    <3> HIDE DEF whole
    <3> QED
      BY <3>1, <3>4, <3>5
  <2> QED
    BY <2>1, <2>2
<1> HIDE DEF Q
<1>4. i \in Q /\ i # 0
  <2>1. i \in 0 .. n /\ i # 0
    BY <1>1
  <2> QED
    BY <1>1, <1>2, <1>3, <2>1, UpToNumber
<1>5. Before(P, i) + 1 \in Starts
  BY <1>4 DEF Q
<1>6. Outside(whole, Before(P, i) + 1)
  BY <1>1, <1>5, BeginsOutside
<1> QED
  BY <1>5, <1>6

\* and the scan finds where it ends.
LEMMA ParamEnds ==
  ASSUME NEW X, Params(X), NEW P, Lines(P, X), NEW i \in 1 .. Len(X)
  PROVE  LET whole == P[Len(X)] IN
         /\ FindParamEnd(whole, Before(P, i) + 1) = PartEnd(P, i) + 1
         /\ SubSeq(whole, Before(P, i) + 1, PartEnd(P, i)) = X[i]
         /\ PartEnd(P, i) \in Nat
         /\ PartEnd(P, i) + 1 = Len(whole) + 1 <=> i = Len(X)
<1> DEFINE n == Len(X)
           whole == P[n]
           x == X[i]
           b == Before(P, i)
           end == PartEnd(P, i)
<1>1. n \in Nat /\ whole \in Chars /\ x \in Chars /\ Len(x) \in Nat /\ Len(whole) \in Nat
  BY ParamsFacts, TextFacts DEF Lines
<1>2. /\ b \in Nat /\ b + Len(x) = end /\ end <= Len(whole) /\ PartEnd(P, n) = Len(whole)
      /\ \A j \in 1 .. Len(x) : whole[b + j] = x[j]
  BY ParamPlace
<1>3. b + 1 \in {1} \union {j + 1 : j \in Commas(whole)} /\ Outside(whole, b + 1)
  BY ParamBegins
<1>4. /\ Outside(whole, end + 1)
      /\ \A j \in Commas(whole) : b + 1 <= j => end + 1 <= j
      /\ i < n => end + 1 \in Commas(whole)
  BY <1>3, ParamHolds
<1>5. FindParamEnd(whole, b + 1) = EndOf(whole, b + 1)
  BY <1>1, <1>3, ParametersEnd
<1>6. Commas(whole) \subseteq 1 .. Len(whole)
  BY DEF Commas
<1>7. i = n => end = Len(whole)
  BY <1>2
<1> HIDE DEF b, end, x, whole, n
<1>8. ASSUME i < n
      PROVE  EndOf(whole, b + 1) = end + 1 /\ (end + 1 = Len(whole) + 1 <=> i = n)
  <2> DEFINE after == {j \in Commas(whole) : j >= b + 1}
  <2>1. end + 1 \in after /\ \A j \in after : end + 1 <= j
    <3>1. \A j \in Commas(whole) : j >= b + 1 => end + 1 <= j
      BY <1>1, <1>2, <1>4, <1>6
    <3>2. end + 1 \in Commas(whole) /\ end + 1 >= b + 1
      BY <1>1, <1>2, <1>4, <1>8
    <3> QED
      BY <3>1, <3>2
  <2>2. after \subseteq Int
    BY <1>6
  <2>3. EndOf(whole, b + 1) = Min(after)
    BY <2>1 DEF EndOf
  <2>4. Min(after) = CHOOSE y \in after : \A z \in after : y <= z
    BY DEF Min
  <2> HIDE DEF after
  <2>5. \A y \in after : (\A z \in after : y <= z) => y = end + 1
    <3> TAKE y \in after
    <3> HAVE \A z \in after : y <= z
    <3>1. y <= end + 1 /\ end + 1 <= y /\ y \in Int /\ end + 1 \in Int
      BY <2>1, <2>2
    <3> QED
      BY <3>1
  <2>6. Min(after) = end + 1
    BY <2>1, <2>4, <2>5
  <2>7. end + 1 # Len(whole) + 1
    BY <1>1, <1>2, <1>4, <1>6, <1>8
  <2>8. EndOf(whole, b + 1) = end + 1 /\ i # n
    BY <1>1, <1>8, <2>3, <2>6
  <2> QED
    BY <2>7, <2>8
<1>9. ASSUME ~(i < n)
      PROVE  EndOf(whole, b + 1) = end + 1 /\ (end + 1 = Len(whole) + 1 <=> i = n)
  <2>1. i = n /\ end = Len(whole)
    BY <1>1, <1>7, <1>9 DEF n
  <2>2. ~ \E j \in Commas(whole) : j >= b + 1
    <3> SUFFICES ASSUME NEW j \in Commas(whole), j >= b + 1
                 PROVE  FALSE
      OBVIOUS
    <3>1. j \in 1 .. Len(whole) /\ b + 1 <= j
      BY <1>1, <1>2, <1>6
    <3>2. end + 1 <= j
      BY <1>4, <3>1
    <3> QED
      BY <1>1, <2>1, <3>1, <3>2
  <2>3. EndOf(whole, b + 1) = Len(whole) + 1
    BY <1>4, <2>1, <2>2 DEF EndOf
  <2> QED
    BY <2>1, <2>3
<1>10. EndOf(whole, b + 1) = end + 1 /\ (end + 1 = Len(whole) + 1 <=> i = n)
  BY <1>8, <1>9
<1>11. SubSeq(whole, b + 1, end) = x
  <2> DEFINE S == 0 .. 255
             s == SubSeq(whole, b + 1, end)
  <2>1. whole \in Seq(S) /\ x \in Seq(S)
    BY <1>1 DEF Chars
  <2> HIDE DEF S
  <2>2. s \in Seq(S) /\ Len(s) = Len(x) /\ \A j \in 1 .. Len(x) : s[j] = whole[b + j]
    <3>1. b + 1 \in 1 .. Len(whole) + 1 /\ end \in b .. Len(whole) /\ end - (b + 1) + 1 = Len(x)
      BY <1>1, <1>2
    <3>2. s = [j \in 1 .. (end - (b + 1) + 1) |-> whole[j + (b + 1) - 1]]
      BY <2>1, <3>1
    <3>3. s = [j \in 1 .. Len(x) |-> whole[b + j]]
      <4>1. \A j \in 1 .. Len(x) : j + (b + 1) - 1 = b + j
        BY <1>1, <1>2
      <4> QED
        BY <3>1, <3>2, <4>1
    <3>4. \A j \in 1 .. Len(x) : whole[b + j] \in S
      BY <1>1, <1>2, <2>1
    <3> HIDE DEF s
    <3>5. s \in [1 .. Len(x) -> S]
      BY <3>3, <3>4
    <3> QED
      BY <1>1, <3>3, <3>5, FunctionIsSeq
  <2> HIDE DEF s
  <2>3. s = x
    BY <1>2, <2>1, <2>2
  <2> QED
    BY <2>3 DEF s
<1>12. end \in Nat
  BY <1>1, <1>2
<1> QED
  BY <1>5, <1>10, <1>11, <1>12 DEF b, end, x, whole, n

-----------------------------------------------------------------------------
(* A line is taken apart                                                    *)

\* What was read of a line after k parameters
ReadOf(X, format, k) == [i \in 1 .. k |-> Value(format[i], X[i])]
ParsedTo(X, P, format, k) ==
  [read |-> ReadOf(X, format, k), done |-> k = Len(X),
   pos |-> IF k = 0 THEN 1 ELSE PartEnd(P, k) + 2]

\* With the next parameter it is what was read after that one.
LEMMA ReadMore ==
  ASSUME NEW X, NEW format, NEW k \in Nat \ {0}
  PROVE  Append(ReadOf(X, format, k - 1), Value(format[k], X[k])) = ReadOf(X, format, k)
<1> DEFINE T == {Value(format[i], X[i]) : i \in 1 .. k}
           s == ReadOf(X, format, k - 1)
           v == Value(format[k], X[k])
           r == ReadOf(X, format, k)
<1>1. s \in [1 .. k - 1 -> T] /\ r \in [1 .. k -> T] /\ v \in T /\ k - 1 \in Nat
      /\ (\A i \in 1 .. k - 1 : s[i] = r[i]) /\ r[k] = v
  <2>1. \A i \in 1 .. k - 1 : i \in 1 .. k
    OBVIOUS
  <2>2. \A i \in 1 .. k : Value(format[i], X[i]) \in T
    OBVIOUS
  <2>3. k \in 1 .. k /\ k - 1 \in Nat
    OBVIOUS
  <2> HIDE DEF T
  <2> QED
    BY <2>1, <2>2, <2>3 DEF ReadOf
<1> HIDE DEF T, s, v, r
<1>2. s \in Seq(T) /\ Len(s) = k - 1 /\ r \in Seq(T) /\ Len(r) = k
  BY <1>1, FunctionIsSeq
<1>3. Append(s, v) \in Seq(T) /\ Len(Append(s, v)) = k /\ Append(s, v)[k] = v
      /\ \A i \in 1 .. k - 1 : Append(s, v)[i] = s[i]
  BY <1>1, <1>2
<1>4. \A i \in 1 .. k : Append(s, v)[i] = r[i]
  <2> TAKE i \in 1 .. k
  <2>1. CASE i = k
    BY <1>1, <1>3, <2>1
  <2>2. CASE i # k
    <3>1. i \in 1 .. k - 1
      BY <2>2
    <3> QED
      BY <1>1, <1>3, <3>1
  <2> QED
    BY <2>1, <2>2
<1>5. Append(s, v) = r
  <2> DEFINE a == Append(s, v)
  <2>1. a \in Seq(T) /\ Len(a) = k /\ \A i \in 1 .. k : a[i] = r[i]
    BY <1>3, <1>4
  <2> HIDE DEF a
  <2>2. a = r
    BY <1>2, <2>1
  <2> QED
    BY <2>2 DEF a
<1> QED
  BY <1>5 DEF s, v, r

\* One parameter more is read.
LEMMA ParsedStep ==
  ASSUME NEW X, Params(X), NEW P, Lines(P, X), NEW format, NEW k \in 1 .. Len(X),
         \A i \in 1 .. k - 1 : Value(format[i], X[i]).ok
  PROVE  ParseNext(P[Len(X)], ParsedTo(X, P, format, k - 1), format[k])
           = ParsedTo(X, P, format, k)
<1> DEFINE n == Len(X)
           whole == P[n]
           st == ParsedTo(X, P, format, k - 1)
           end == PartEnd(P, k) + 1
<1>1. n \in Nat /\ k \in Nat \ {0} /\ k - 1 # n
  BY ParamsFacts
<1>2. /\ FindParamEnd(whole, Before(P, k) + 1) = end
      /\ SubSeq(whole, Before(P, k) + 1, PartEnd(P, k)) = X[k]
      /\ PartEnd(P, k) \in Nat /\ (end = Len(whole) + 1 <=> k = n)
  BY ParamEnds
<1>3. st.pos = Before(P, k) + 1
  <2>1. CASE k = 1
    BY <2>1 DEF ParsedTo, Before
  <2>2. CASE k # 1
    <3>1. k - 1 \in 1 .. n /\ k - 1 # 0
      BY <1>1, <2>2
    <3>2. PartEnd(P, k - 1) \in Nat
      BY <3>1, ParamEnds
    <3>3. st.pos = PartEnd(P, k - 1) + 2 /\ Before(P, k) = PartEnd(P, k - 1) + 1
      BY <2>2, <3>1 DEF ParsedTo, Before
    <3> HIDE DEF st
    <3> QED
      BY <3>2, <3>3
  <2> QED
    BY <2>1, <2>2
<1>4. ~st.done /\ st.read = ReadOf(X, format, k - 1)
  BY <1>1 DEF ParsedTo
<1>5. ~ \E i \in DOMAIN st.read : ~st.read[i].ok
  BY <1>4 DEF ReadOf
<1>6. end # 0 /\ end - 1 = PartEnd(P, k) /\ end + 1 = PartEnd(P, k) + 2 /\ k # 0
  BY <1>1, <1>2
<1> HIDE DEF whole, st, n
<1>7. FindParamEnd(whole, st.pos) = end
  BY <1>2, <1>3
<1>8. ParseNext(whole, st, format[k]) =
        [read |-> Append(st.read, Value(format[k], SubSeq(whole, st.pos, end - 1))),
         done |-> end \in {0, Len(whole) + 1},
         pos |-> end + 1]
  <2> HIDE DEF end
  <2>1. ParseNext(whole, st, format[k]) =
          IF st.done \/ \E i \in DOMAIN st.read : ~st.read[i].ok THEN st
          ELSE [read |-> Append(st.read, IF end = 0 THEN Invalid
                                         ELSE Value(format[k], SubSeq(whole, st.pos, end - 1))),
                done |-> end \in {0, Len(whole) + 1},
                pos |-> end + 1]
    BY <1>7 DEF ParseNext
  <2> QED
    BY <1>4, <1>5, <1>6, <2>1
<1>9. SubSeq(whole, st.pos, end - 1) = X[k]
  BY <1>2, <1>3, <1>6
<1>10. Append(st.read, Value(format[k], X[k])) = ReadOf(X, format, k)
  BY <1>1, <1>4, ReadMore
<1>11. (end \in {0, Len(whole) + 1}) = (k = n)
  BY <1>2, <1>6
<1>12. ParsedTo(X, P, format, k) =
         [read |-> ReadOf(X, format, k), done |-> k = n, pos |-> PartEnd(P, k) + 2]
  BY <1>6 DEF ParsedTo, n
<1> HIDE DEF end
<1>13. ParseNext(whole, st, format[k]) = ParsedTo(X, P, format, k)
  BY <1>6, <1>8, <1>9, <1>10, <1>11, <1>12
<1> QED
  BY <1>13 DEF whole, st, n

\* uCxAtUtilParseParamsVaList() takes every line of parameters apart: each one that it
\* is asked for is converted from its own text, whatever the texts are, as long as
\* each of them is a parameter on its own and the ones before are valid.
THEOREM LineIsParsed ==
  ASSUME NEW X, Params(X), NEW format, Len(format) \in 1 .. Len(X),
         \A i \in 1 .. Len(format) - 1 : Value(format[i], X[i]).ok
  PROVE  ParseParams(Joined(X, Comma), format)
           = [i \in 1 .. Len(format) |-> Value(format[i], X[i])]
<1>1. PICK P : Lines(P, X) /\ Joined(X, Comma) = P[Len(X)]
  BY LineFacts
<1> DEFINE m == Len(format)
           whole == P[Len(X)]
           first == [read |-> <<>>, done |-> FALSE, pos |-> 1]
           Of(g) == g = [k \in 0 .. m |-> IF k = 0 THEN first
                                          ELSE ParseNext(whole, g[k - 1], format[k])]
<1>2. ParseParams(whole, format) = (CHOOSE g : Of(g))[m].read
  BY DEF ParseParams
<1>3. Len(X) \in Nat /\ Len(X) >= 1 /\ m \in Nat /\ m <= Len(X) /\ m >= 1
  BY ParamsFacts
<1>0. PICK f : f = [k \in 0 .. m |-> ParsedTo(X, P, format, k)]
  OBVIOUS
<1>4. f[0] = first
  <2>1. ReadOf(X, format, 0) = <<>>
    BY DEF ReadOf
  <2>2. 0 \in 0 .. m /\ 0 # Len(X)
    BY <1>3
  <2> QED
    BY <1>0, <2>1, <2>2 DEF ParsedTo
<1>5. \A k \in 1 .. m : f[k] = ParseNext(whole, f[k - 1], format[k])
  <2> TAKE k \in 1 .. m
  <2>1. k \in 1 .. Len(X) /\ k - 1 \in 0 .. m /\ k \in 0 .. m
        /\ \A i \in 1 .. k - 1 : i \in 1 .. m - 1
    BY <1>3
  <2>2. ParseNext(whole, ParsedTo(X, P, format, k - 1), format[k]) = ParsedTo(X, P, format, k)
    BY <1>1, <2>1, ParsedStep
  <2> QED
    BY <1>0, <2>1, <2>2
<1>6. f[m].read = [i \in 1 .. m |-> Value(format[i], X[i])]
  <2>1. m \in 0 .. m
    BY <1>3
  <2> QED
    BY <1>0, <2>1 DEF ParsedTo, ReadOf
<1>7. f = [k \in 0 .. m |-> f[k]]
  BY <1>0
<1> HIDE DEF first, whole, m
<1>8. Of(f)
  <2>1. \A k \in 0 .. m : f[k] = IF k = 0 THEN first ELSE ParseNext(whole, f[k - 1], format[k])
    BY <1>3, <1>4, <1>5
  <2> QED
    BY <1>7, <2>1
<1>9. PICK g : g = (CHOOSE h : Of(h)) /\ Of(g)
  BY <1>8
<1>10. g[0] = first /\ \A k \in 1 .. m : g[k] = ParseNext(whole, g[k - 1], format[k])
  <2>1. g = [k \in 0 .. m |-> IF k = 0 THEN first ELSE ParseNext(whole, g[k - 1], format[k])]
    BY <1>9
  <2>2. \A k \in 0 .. m : g[k] = IF k = 0 THEN first ELSE ParseNext(whole, g[k - 1], format[k])
    BY <2>1
  <2>3. 0 \in 0 .. m /\ \A k \in 1 .. m : k # 0 /\ k \in 0 .. m
    BY <1>3
  <2> QED
    BY <2>2, <2>3
<1>11. \A k \in 0 .. m : g[k] = f[k]
  <2>1. g[0] = f[0]
    BY <1>4, <1>10
  <2>2. \A k \in 1 .. m : g[k - 1] = f[k - 1] => g[k] = f[k]
    BY <1>5, <1>10
  <2>3. m \in Nat
    BY <1>3
  <2> DEFINE Q == {k \in 0 .. m : g[k] = f[k]}
  <2>4. 0 \in Q
    BY <2>1, <2>3
  <2>5. \A k \in 1 .. m : k - 1 \in Q => k \in Q
    BY <2>2, <2>3
  <2> HIDE DEF Q
  <2>6. \A k \in 0 .. m : k \in Q
    BY <2>3, <2>4, <2>5, UpToNumber
  <2> QED
    BY <2>6 DEF Q
<1>12. g[m] = f[m]
  BY <1>3, <1>11
<1> HIDE DEF Of
<1>13. ParseParams(whole, format) = f[m].read
  BY <1>2, <1>9, <1>12
<1> QED
  BY <1>1, <1>6, <1>13 DEF whole, m

-----------------------------------------------------------------------------
(* Strings in a line                                                        *)

\* A string as it is sent: its escaped characters between quotes
QuotedText(str) == <<Quote>> \o FlattenSeq(Pieces(str)) \o <<Quote>>

\* A text between quotes
LEMMA BetweenQuotes ==
  ASSUME NEW w \in Chars
  PROVE  LET q == <<Quote>> \o w \o <<Quote>> IN
         /\ q \in Chars /\ Len(q) = Len(w) + 2 /\ q[1] = Quote /\ q[Len(w) + 2] = Quote
         /\ \A j \in 1 .. Len(w) : q[1 + j] = w[j]
         /\ SubSeq(q, 2, Len(q) - 1) = w
<1> DEFINE S == 0 .. 255
           a == <<Quote>>
<1>1. a \in Seq(S) /\ w \in Seq(S) /\ Len(a) = 1 /\ a[1] = Quote
  BY DEF Chars, Quote
<1> HIDE DEF S, a
<1>2. PICK b : b = a \o w
  OBVIOUS
<1>3. /\ b \in Seq(S) /\ Len(b) = 1 + Len(w) /\ Len(w) \in Nat
      /\ \A j \in 1 .. 1 : b[j] = a[j]
      /\ \A j \in 1 .. Len(w) : b[1 + j] = w[j]
  <2>1. /\ a \o w \in Seq(S) /\ Len(a \o w) = Len(a) + Len(w) /\ Len(w) \in Nat
        /\ \A j \in 1 .. Len(a) : (a \o w)[j] = a[j]
        /\ \A j \in 1 .. Len(w) : (a \o w)[Len(a) + j] = w[j]
    <3>1. a \in Seq(S) /\ w \in Seq(S)
      BY <1>1
    <3> QED
      BY <3>1, JoinFacts
  <2> QED
    BY <1>1, <1>2, <2>1
<1>4. PICK q : q = b \o a
  OBVIOUS
<1>5. /\ q \in Seq(S) /\ Len(q) = Len(b) + 1
      /\ \A j \in 1 .. Len(b) : q[j] = b[j]
      /\ \A j \in 1 .. 1 : q[Len(b) + j] = a[j]
  <2>1. /\ b \o a \in Seq(S) /\ Len(b \o a) = Len(b) + Len(a)
        /\ \A j \in 1 .. Len(b) : (b \o a)[j] = b[j]
        /\ \A j \in 1 .. Len(a) : (b \o a)[Len(b) + j] = a[j]
    <3>1. a \in Seq(S) /\ b \in Seq(S)
      BY <1>1, <1>3
    <3> QED
      BY <3>1, JoinFacts
  <2> QED
    BY <1>1, <1>4, <2>1
<1>6. Len(q) = Len(w) + 2 /\ Len(b) + 1 = Len(w) + 2
  BY <1>3, <1>5
<1>7. q[1] = Quote /\ q[Len(w) + 2] = Quote
  <2>1. 1 \in 1 .. Len(b) /\ 1 \in 1 .. 1
    BY <1>3
  <2>2. q[1] = a[1] /\ q[Len(b) + 1] = a[1]
    BY <1>3, <1>5, <2>1
  <2> QED
    BY <1>1, <1>6, <2>2
<1>8. \A j \in 1 .. Len(w) : q[1 + j] = w[j]
  <2> TAKE j \in 1 .. Len(w)
  <2>1. 1 + j \in 1 .. Len(b)
    BY <1>3
  <2> QED
    BY <1>3, <1>5, <2>1
<1>9. SubSeq(q, 2, Len(q) - 1) = w
  <2> DEFINE s == SubSeq(q, 2, Len(q) - 1)
  <2>1. Len(q) - 1 = Len(w) + 1 /\ Len(w) \in Nat
    BY <1>3, <1>6
  <2>2. s = [j \in 1 .. Len(w) |-> q[1 + j]]
    <3>1. s = [j \in 1 .. (Len(w) + 1 - 2 + 1) |-> q[j + 2 - 1]]
      BY <1>5, <1>6, <2>1
    <3>2. Len(w) + 1 - 2 + 1 = Len(w)
      BY <2>1
    <3>3. \A j \in 1 .. Len(w) : j + 2 - 1 = 1 + j
      BY <2>1
    <3> HIDE DEF s
    <3> QED
      BY <3>1, <3>2, <3>3
  <2> HIDE DEF s
  <2>3. \A j \in 1 .. Len(w) : s[j] = w[j] /\ w[j] \in S
    BY <1>1, <1>8, <2>2
  <2>4. s \in [1 .. Len(w) -> S]
    BY <2>2, <2>3
  <2>5. s \in Seq(S) /\ Len(s) = Len(w)
    BY <2>1, <2>4, FunctionIsSeq
  <2>6. s = w
    BY <1>1, <2>3, <2>5
  <2> QED
    BY <2>6 DEF s
<1> QED
  BY <1>2, <1>4, <1>5, <1>6, <1>7, <1>8, <1>9 DEF S, a, Chars

\* In a string the next position is in the string, unless a quote ends it.
Inside(t, i) == InString(t, i) /\ ~InList(t, i)

\* A character of a string that is no quote, or an escaped one, stays inside.
LEMMA InsideStep ==
  ASSUME NEW t \in Chars, NEW i \in 1 .. Len(t), Inside(t, i), Escaped(t, i) \/ t[i] # Quote
  PROVE  /\ Inside(t, i + 1)
         /\ Escaped(t, i + 1) <=> t[i] = Backslash /\ ~Escaped(t, i)
<1>1. Escaped(t, i + 1) <=> t[i] = Backslash /\ ~Escaped(t, i)
  BY EscapedFacts
<1>2. InString(t, i + 1) <=> IF t[i] = Quote /\ ~Escaped(t, i) THEN ~InString(t, i)
                             ELSE InString(t, i)
  BY InStringFacts
<1>3. InList(t, i + 1) <=> IF IsBracket(t, i) THEN t[i] = BracketOpen ELSE InList(t, i)
  BY InListFacts
<1>4. ~IsBracket(t, i)
  BY DEF IsBracket, Inside
<1> QED
  BY <1>1, <1>2, <1>3, <1>4 DEF Inside

\* What is written for a character is in the string, and so is what follows it.
LEMMA InsidePiece ==
  ASSUME NEW t \in Chars, NEW c \in 0 .. 255, NEW i \in Nat \ {0},
         i + Len(escapeCharacter(c)) <= Len(t) + 1,
         \A j \in 1 .. Len(escapeCharacter(c)) : t[i + j - 1] = escapeCharacter(c)[j],
         Inside(t, i), ~Escaped(t, i)
  PROVE  /\ Inside(t, i + Len(escapeCharacter(c))) /\ ~Escaped(t, i + Len(escapeCharacter(c)))
         /\ \A j \in 1 .. Len(escapeCharacter(c)) : Inside(t, i + j - 1)
<1> DEFINE e == escapeCharacter(c)
           Good == /\ Inside(t, i + Len(e)) /\ ~Escaped(t, i + Len(e))
                   /\ \A j \in 1 .. Len(e) : Inside(t, i + j - 1)
<1>1. Len(t) \in Nat /\ Len(e) \in 1 .. 4
  BY TextFacts, EscapedCharacter
<1>2. Backslash # Quote
  BY DEF Backslash, Quote
<1>3. \A j \in 1 .. Len(e) : t[i + j - 1] = e[j]
  OBVIOUS
<1>4. i + Len(e) <= Len(t) + 1
  OBVIOUS
<1>5. i + 1 - 1 = i /\ i + 2 - 1 = i + 1 /\ i + 3 - 1 = i + 2 /\ i + 4 - 1 = i + 3
      /\ i + 1 + 1 = i + 2 /\ i + 2 + 1 = i + 3 /\ i + 3 + 1 = i + 4
  OBVIOUS
<1> HIDE DEF e
<1>6. CASE AsItself(c, e)
  <2>1. Len(e) = 1 /\ e[1] = c /\ c \notin {Quote, Backslash}
    BY <1>6 DEF AsItself
  <2>2. i \in 1 .. Len(t)
    BY <1>1, <1>4, <2>1
  <2>3. t[i] = c
    <3>1. t[i + 1 - 1] = e[1]
      BY <1>3, <2>1
    <3> QED
      BY <1>5, <2>1, <3>1
  <2>4. Inside(t, i + 1) /\ ~Escaped(t, i + 1)
    BY <2>1, <2>2, <2>3, InsideStep
  <2>5. \A j \in 1 .. 1 : Inside(t, i + j - 1)
    BY <1>5
  <2>6. Good
    BY <2>1, <2>4, <2>5
  <2> QED
    BY <2>6 DEF e
<1>7. ASSUME NEW x, ByLetter(c, e, x)
      PROVE  Good
  <2>1. Len(e) = 2 /\ e[1] = Backslash
    <3>1. e = <<Backslash, x>>
      BY <1>7 DEF ByLetter
    <3> QED
      BY <3>1
  <2>2. i \in 1 .. Len(t) /\ i + 1 \in 1 .. Len(t)
    BY <1>1, <1>4, <2>1
  <2>3. t[i] = Backslash
    <3>1. t[i + 1 - 1] = e[1]
      BY <1>3, <2>1
    <3> QED
      BY <1>5, <2>1, <3>1
  <2>4. Inside(t, i + 1) /\ Escaped(t, i + 1)
    BY <1>2, <2>2, <2>3, InsideStep
  <2>5. Inside(t, i + 1 + 1) /\ ~Escaped(t, i + 1 + 1)
    BY <2>2, <2>4, InsideStep
  <2>6. \A j \in 1 .. 2 : j = 1 \/ j = 2
    OBVIOUS
  <2>7. \A j \in 1 .. 2 : Inside(t, i + j - 1)
    BY <1>5, <2>4, <2>6
  <2> QED
    BY <1>5, <2>1, <2>5, <2>7
<1>8. ASSUME NEW h, NEW l, InHex(c, e, h, l)
      PROVE  Good
  <2>1. Len(e) = 4 /\ e[1] = Backslash /\ e[2] = 120 /\ e[3] = h /\ e[4] = l
        /\ h \in HexDigit /\ l \in HexDigit
    BY <1>8 DEF InHex
  <2>2. i \in 1 .. Len(t) /\ i + 1 \in 1 .. Len(t) /\ i + 2 \in 1 .. Len(t) /\ i + 3 \in 1 .. Len(t)
    BY <1>1, <1>4, <2>1
  <2>3. t[i] = Backslash /\ t[i + 2] = h /\ t[i + 3] = l
    <3>1. t[i + 1 - 1] = e[1] /\ t[i + 3 - 1] = e[3] /\ t[i + 4 - 1] = e[4]
      BY <1>3, <2>1
    <3> QED
      BY <1>5, <2>1, <3>1
  <2>4. \A d \in HexDigit : d # Quote /\ d # Backslash
    BY DEF HexDigit, Quote, Backslash
  <2>5. Inside(t, i + 1) /\ Escaped(t, i + 1)
    BY <1>2, <2>2, <2>3, InsideStep
  <2>6. Inside(t, i + 2) /\ ~Escaped(t, i + 2)
    BY <1>5, <2>2, <2>5, InsideStep
  <2>7. Inside(t, i + 3) /\ ~Escaped(t, i + 3)
    BY <1>5, <2>1, <2>2, <2>3, <2>4, <2>6, InsideStep
  <2>8. Inside(t, i + 4) /\ ~Escaped(t, i + 4)
    BY <1>5, <2>1, <2>2, <2>3, <2>4, <2>7, InsideStep
  <2>9. \A j \in 1 .. 4 : j = 1 \/ j = 2 \/ j = 3 \/ j = 4
    OBVIOUS
  <2>10. \A j \in 1 .. 4 : Inside(t, i + j - 1)
    BY <1>5, <2>5, <2>6, <2>7, <2>9
  <2> QED
    BY <2>1, <2>8, <2>10
<1>9. Good
  BY <1>6, <1>7, <1>8, EscapeCases DEF e
<1> QED
  BY <1>9 DEF e

\* Where the escaped characters are in the string that is sent
LEMMA QuotedPieces ==
  ASSUME NEW str \in Chars, NEW P, Writes(P, str), P[Len(str)] \in Chars,
         FlattenSeq(Pieces(str)) = P[Len(str)]
  PROVE  LET q == QuotedText(str)
             n == Len(str)
         IN  /\ q \in Chars /\ Len(q) = PartEnd(P, n) + 2 /\ PartEnd(P, n) \in Nat
             /\ q[1] = Quote /\ q[PartEnd(P, n) + 2] = Quote
             /\ SubSeq(q, 2, Len(q) - 1) = P[n]
             /\ \A k \in 1 .. n : \A j \in 1 .. Len(escapeCharacter(str[k])) :
                  q[(PartEnd(P, k - 1) + 2) + j - 1] = escapeCharacter(str[k])[j]
<1> DEFINE n == Len(str)
           w == P[n]
           q == QuotedText(str)
<1>1. w \in Chars /\ Len(w) \in Nat /\ PartEnd(P, n) = Len(w)
  BY TextFacts DEF PartEnd
<1>2. q = <<Quote>> \o w \o <<Quote>>
  BY DEF QuotedText
<1>3. /\ q \in Chars /\ Len(q) = Len(w) + 2 /\ q[1] = Quote /\ q[Len(w) + 2] = Quote
      /\ \A j \in 1 .. Len(w) : q[1 + j] = w[j]
      /\ SubSeq(q, 2, Len(q) - 1) = w
  BY <1>1, <1>2, BetweenQuotes
<1>4. ASSUME NEW k \in 1 .. n, NEW j \in 1 .. Len(escapeCharacter(str[k]))
      PROVE  q[(PartEnd(P, k - 1) + 2) + j - 1] = escapeCharacter(str[k])[j]
  <2> DEFINE place == PartEnd(P, k - 1)
             e == escapeCharacter(str[k])
  <2>1. /\ PartEnd(P, k) = place + Len(e) /\ place \in Nat
        /\ CharAt(w \o <<NUL>>, place + j) = e[j]
        /\ PartEnd(P, k) <= Len(w)
    BY WrittenPlace
  <2>2. str[k] \in 0 .. 255
    BY TextFacts
  <2>3. Len(e) \in 1 .. 4
    BY <2>2, EscapedCharacter
  <2> HIDE DEF place, e, w, q
  <2>4. place + j \in 1 .. Len(w) /\ (place + 2) + j - 1 = 1 + (place + j)
    BY <1>1, <2>1, <2>3 DEF e
  <2>5. CharAt(w \o <<NUL>>, place + j) = w[place + j]
    <3>1. /\ w \o <<NUL>> \in Chars /\ Len(w \o <<NUL>>) = Len(w) + 1
          /\ \A i \in 1 .. Len(w) : (w \o <<NUL>>)[i] = w[i]
      BY <1>1, WithNUL
    <3>2. place + j \in DOMAIN (w \o <<NUL>>)
      <4>1. DOMAIN (w \o <<NUL>>) = 1 .. Len(w \o <<NUL>>)
        BY <3>1, TextFacts
      <4>2. place + j \in 1 .. Len(w) + 1
        BY <1>1, <2>4
      <4> QED
        BY <3>1, <4>1, <4>2
    <3> QED
      BY <2>4, <3>1, <3>2 DEF CharAt
  <2>6. q[(place + 2) + j - 1] = e[j]
    BY <1>3, <2>1, <2>4, <2>5
  <2> QED
    BY <2>6 DEF place, e, q
<1> QED
  BY <1>1, <1>3, <1>4

\* No comma in a string ends it, and nothing is open behind it.
LEMMA QuotedIsClosed ==
  ASSUME NEW str \in Chars
  PROVE  Closed(QuotedText(str))
<1>1. PICK P : /\ Writes(P, str) /\ FlattenSeq(Pieces(str)) = P[Len(str)]
               /\ P[Len(str)] \in Chars
  BY WritesFacts
<1> DEFINE n == Len(str)
           q == QuotedText(str)
           In(k) == /\ ~Escaped(q, PartEnd(P, k) + 2)
                    /\ \A i \in 2 .. PartEnd(P, k) + 2 : Inside(q, i)
           Q == {k \in 0 .. n : In(k)}
<1>2. /\ q \in Chars /\ Len(q) = PartEnd(P, n) + 2 /\ PartEnd(P, n) \in Nat
      /\ q[1] = Quote /\ q[PartEnd(P, n) + 2] = Quote
      /\ \A k \in 1 .. n : \A j \in 1 .. Len(escapeCharacter(str[k])) :
           q[(PartEnd(P, k - 1) + 2) + j - 1] = escapeCharacter(str[k])[j]
  BY <1>1, QuotedPieces
<1>3. n \in Nat
  BY TextFacts
<1>4. PartEnd(P, 0) = 0
  <2>1. 0 \in 0 .. n
    BY <1>3
  <2> QED
    BY <1>1, <2>1, WrittenLength
<1>5. Backslash # Quote /\ Comma # Quote /\ Quote \notin {BracketOpen, BracketClose}
  BY DEF Backslash, Quote, Comma, BracketOpen, BracketClose
<1> HIDE DEF q
<1>6. ~Outside(q, 1) \/ q[1] # Comma
  BY <1>2, <1>5
<1>7. 0 \in Q
  <2>1. ~Escaped(q, 1) /\ ~InString(q, 1) /\ ~InList(q, 1)
    BY <1>2, EscapedFacts, InStringFacts, InListFacts
  <2>2. 1 \in 1 .. Len(q) /\ 1 + 1 = 2
    BY <1>2
  <2>3. /\ Escaped(q, 1 + 1) <=> q[1] = Backslash /\ ~Escaped(q, 1)
        /\ InString(q, 1 + 1) <=> IF q[1] = Quote /\ ~Escaped(q, 1) THEN ~InString(q, 1)
                                  ELSE InString(q, 1)
        /\ InList(q, 1 + 1) <=> IF IsBracket(q, 1) THEN q[1] = BracketOpen ELSE InList(q, 1)
    BY <1>2, <2>2, EscapedFacts, InStringFacts, InListFacts
  <2>4. ~Escaped(q, 2) /\ Inside(q, 2)
    BY <1>2, <1>5, <2>1, <2>2, <2>3 DEF Inside, IsBracket
  <2>5. PartEnd(P, 0) + 2 = 2 /\ \A i \in 2 .. 2 : i = 2
    BY <1>4
  <2>6. In(0)
    BY <2>4, <2>5
  <2> QED
    BY <1>3, <2>6
<1>8. \A k \in 1 .. n : k - 1 \in Q => k \in Q
  <2> TAKE k \in 1 .. n
  <2> HAVE k - 1 \in Q
  <2> DEFINE c == str[k]
             e == escapeCharacter(c)
             i == PartEnd(P, k - 1) + 2
  <2>1. /\ PartEnd(P, k) = PartEnd(P, k - 1) + Len(e) /\ PartEnd(P, k - 1) \in Nat
        /\ PartEnd(P, k) <= PartEnd(P, n)
    <3>1. PartEnd(P, n) = Len(P[n])
      BY DEF PartEnd
    <3> QED
      BY <1>1, <3>1, WrittenPlace
  <2>2. c \in 0 .. 255 /\ Len(e) \in 1 .. 4
    <3>1. c \in 0 .. 255
      BY TextFacts
    <3> QED
      BY <3>1, EscapedCharacter
  <2>3. In(k - 1)
    OBVIOUS
  <2>4. \A j \in 1 .. Len(e) : q[i + j - 1] = e[j]
    BY <1>2
  <2> HIDE DEF c, e
  <2>5. i \in Nat \ {0} /\ i + Len(e) = PartEnd(P, k) + 2 /\ i + Len(e) <= Len(q) + 1
        /\ i \in 2 .. i
    <3> DEFINE a == PartEnd(P, k - 1)
               b == PartEnd(P, k)
               d == PartEnd(P, n)
               l == Len(e)
    <3>1. b = a + l /\ a \in Nat /\ b <= d /\ d \in Nat /\ l \in 1 .. 4 /\ Len(q) = d + 2
      BY <1>2, <2>1, <2>2
    <3> HIDE DEF a, b, d, l
    <3>2. a + 2 \in Nat \ {0} /\ a + 2 + l = b + 2 /\ a + 2 + l <= Len(q) + 1
          /\ a + 2 \in 2 .. a + 2
      BY <3>1
    <3> QED
      BY <3>2 DEF a, b, l
  <2>6. Inside(q, i) /\ ~Escaped(q, i)
    BY <2>3, <2>5
  <2>7. /\ Inside(q, i + Len(e)) /\ ~Escaped(q, i + Len(e))
        /\ \A j \in 1 .. Len(e) : Inside(q, i + j - 1)
    BY <1>2, <2>2, <2>4, <2>5, <2>6, InsidePiece DEF e
  <2>8. \A m \in 2 .. PartEnd(P, k) + 2 : Inside(q, m)
    <3> TAKE m \in 2 .. PartEnd(P, k) + 2
    <3>1. CASE m <= i
      <4>1. m \in 2 .. PartEnd(P, k - 1) + 2
        BY <2>1, <2>2, <3>1
      <4> QED
        BY <2>3, <4>1
    <3>2. CASE m > i /\ m < i + Len(e)
      <4>1. m - i + 1 \in 1 .. Len(e) /\ i + (m - i + 1) - 1 = m
        BY <2>1, <2>2, <2>5, <3>2
      <4> HIDE DEF i
      <4> QED
        BY <2>7, <4>1
    <3>3. CASE m = i + Len(e)
      BY <2>7, <3>3
    <3> QED
      BY <2>1, <2>2, <2>5, <3>1, <3>2, <3>3
  <2>9. ~Escaped(q, PartEnd(P, k) + 2)
    BY <2>5, <2>7
  <2>10. k \in 0 .. n
    BY <1>3
  <2> QED
    BY <2>8, <2>9, <2>10
<1> HIDE DEF Q
<1>9. In(n)
  <2>1. n \in 0 .. n
    BY <1>3
  <2>2. n \in Q
    BY <1>3, <1>7, <1>8, <2>1, UpToNumber
  <2> QED
    BY <2>2 DEF Q
<1>10. Commas(q) = {}
  <2> SUFFICES ASSUME NEW i \in Commas(q)
               PROVE  FALSE
    OBVIOUS
  <2>1. i \in 1 .. Len(q) /\ q[i] = Comma /\ ~InString(q, i)
    BY DEF Commas, Outside
  <2>2. i # 1
    BY <1>2, <1>5, <2>1
  <2>3. i \in 2 .. PartEnd(P, n) + 2
    BY <1>2, <2>1, <2>2
  <2>4. Inside(q, i)
    BY <1>9, <2>3
  <2> QED
    BY <2>1, <2>4 DEF Inside
<1>11. Outside(q, Len(q) + 1)
  <2> DEFINE m == Len(q)
  <2>1. m \in 1 .. Len(q) /\ m \in 2 .. PartEnd(P, n) + 2 /\ m = PartEnd(P, n) + 2
    BY <1>2
  <2>2. Inside(q, m) /\ ~Escaped(q, m) /\ q[m] = Quote
    BY <1>2, <1>9, <2>1
  <2> HIDE DEF m
  <2>3. /\ Escaped(q, m + 1) <=> q[m] = Backslash /\ ~Escaped(q, m)
        /\ InString(q, m + 1) <=> IF q[m] = Quote /\ ~Escaped(q, m) THEN ~InString(q, m)
                                  ELSE InString(q, m)
        /\ InList(q, m + 1) <=> IF IsBracket(q, m) THEN q[m] = BracketOpen ELSE InList(q, m)
    BY <1>2, <2>1, EscapedFacts, InStringFacts, InListFacts
  <2>4. Outside(q, m + 1)
    BY <1>5, <2>2, <2>3 DEF Outside, Inside, IsBracket
  <2> QED
    BY <2>4 DEF m
<1> QED
  BY <1>2, <1>10, <1>11 DEF Closed, q

\* What a string is sent as: its escaped characters between quotes, and itself between
\* quotes if the buffer is too small for them.  It arrives if they are the same then.
Sendable(str, bufSize) ==
  \/ WriteEscString(str, bufSize) # <<>>
  \/ \A i \in 1 .. Len(str) : IsPrint(str[i]) /\ str[i] \notin {Quote, Backslash}

\* A string of which nothing is to be escaped
LEMMA NothingEscaped ==
  ASSUME NEW str \in Chars,
         \A i \in 1 .. Len(str) : IsPrint(str[i]) /\ str[i] \notin {Quote, Backslash}
  PROVE  FlattenSeq(Pieces(str)) = str
<1>1. PICK P : /\ Writes(P, str) /\ FlattenSeq(Pieces(str)) = P[Len(str)]
               /\ P[Len(str)] \in Chars
  BY WritesFacts
<1> DEFINE n == Len(str)
           w == P[n]
           Q == {k \in 0 .. n : PartEnd(P, k) = k}
<1>2. n \in Nat
  BY TextFacts
<1>3. \A k \in 1 .. n : escapeCharacter(str[k]) = <<str[k]>>
  <2> TAKE k \in 1 .. n
  <2>1. IsPrint(str[k]) /\ str[k] \notin {Quote, Backslash}
    OBVIOUS
  <2>2. DOMAIN EscapeLetter = {13, 10, 9, 8, Quote, Backslash, NUL}
    BY DEF EscapeLetter
  <2>3. str[k] \notin DOMAIN EscapeLetter
    <3>1. PICK c : c = str[k]
      OBVIOUS
    <3>2. c \in 32 .. 126 /\ c # Quote /\ c # Backslash
      BY <2>1, <3>1 DEF IsPrint
    <3>3. c \notin {13, 10, 9, 8, Quote, Backslash, NUL}
      BY <3>2 DEF NUL
    <3> QED
      BY <2>2, <3>1, <3>3
  <2> QED
    BY <2>1, <2>3 DEF escapeCharacter
<1>4. \A k \in 1 .. n : /\ PartEnd(P, k) = PartEnd(P, k - 1) + 1
                        /\ PartEnd(P, k - 1) \in Nat
                        /\ CharAt(w \o <<NUL>>, PartEnd(P, k - 1) + 1) = str[k]
  <2> TAKE k \in 1 .. n
  <2>1. LET e == escapeCharacter(str[k])
            text == P[Len(str)] \o <<NUL>>
        IN  /\ PartEnd(P, k) = PartEnd(P, k - 1) + Len(e) /\ PartEnd(P, k - 1) \in Nat
            /\ \A j \in 1 .. Len(e) : CharAt(text, PartEnd(P, k - 1) + j) = e[j]
    BY <1>1, WrittenPlace
  <2>2. escapeCharacter(str[k]) = <<str[k]>>
    BY <1>3
  <2>3. Len(<<str[k]>>) = 1 /\ <<str[k]>>[1] = str[k]
    OBVIOUS
  <2>4. /\ PartEnd(P, k) = PartEnd(P, k - 1) + 1 /\ PartEnd(P, k - 1) \in Nat
        /\ \A j \in 1 .. 1 : CharAt(w \o <<NUL>>, PartEnd(P, k - 1) + j) = <<str[k]>>[j]
    BY <2>1, <2>2, <2>3
  <2>5. 1 \in 1 .. 1
    OBVIOUS
  <2> QED
    BY <2>3, <2>4, <2>5
<1>5. 0 \in Q
  <2>1. 0 \in 0 .. n
    BY <1>2
  <2>2. PartEnd(P, 0) = 0
    BY <1>1, <2>1, WrittenLength
  <2> QED
    BY <2>1, <2>2
<1>6. \A k \in 1 .. n : k - 1 \in Q => k \in Q
  <2> TAKE k \in 1 .. n
  <2> HAVE k - 1 \in Q
  <2>1. PartEnd(P, k) = k - 1 + 1 /\ k - 1 + 1 = k /\ k \in 0 .. n
    BY <1>2, <1>4
  <2> QED
    BY <2>1
<1> HIDE DEF Q
<1>7. \A k \in 0 .. n : PartEnd(P, k) = k
  <2>1. \A k \in 0 .. n : k \in Q
    BY <1>2, <1>5, <1>6, UpToNumber
  <2> QED
    BY <2>1 DEF Q
<1>8. w \in Chars /\ Len(w) = n
  <2>1. n \in 0 .. n
    BY <1>2
  <2>2. PartEnd(P, n) = n
    BY <1>7, <2>1
  <2> QED
    BY <1>1, <2>2 DEF PartEnd
<1>9. \A k \in 1 .. n : w[k] = str[k]
  <2> TAKE k \in 1 .. n
  <2>1. k - 1 \in 0 .. n /\ k - 1 + 1 = k
    BY <1>2
  <2>2. CharAt(w \o <<NUL>>, k) = str[k]
    BY <1>4, <1>7, <2>1
  <2> HIDE DEF w
  <2>3. /\ w \o <<NUL>> \in Chars /\ Len(w \o <<NUL>>) = Len(w) + 1
        /\ \A i \in 1 .. Len(w) : (w \o <<NUL>>)[i] = w[i]
    BY <1>8, WithNUL
  <2>4. DOMAIN (w \o <<NUL>>) = 1 .. Len(w \o <<NUL>>)
    BY <2>3, TextFacts
  <2>5. k \in 1 .. Len(w) /\ k \in DOMAIN (w \o <<NUL>>)
    <3>1. k \in 1 .. Len(w) + 1
      BY <1>2, <1>8
    <3> QED
      BY <1>8, <2>3, <2>4, <3>1
  <2> QED
    BY <2>2, <2>3, <2>5 DEF CharAt
<1>10. w = str
  <2> DEFINE S == 0 .. 255
  <2>1. w \in Seq(S) /\ str \in Seq(S) /\ Len(w) = Len(str) /\ \A k \in 1 .. Len(str) : w[k] = str[k]
    BY <1>8, <1>9 DEF Chars
  <2> HIDE DEF S, w
  <2> QED
    BY <2>1
<1> QED
  BY <1>1, <1>10

\* Then it is sent as its escaped characters, which are itself if there is no room.
LEMMA SendsQuoted ==
  ASSUME NEW str \in Chars, NEW bufSize, Sendable(str, bufSize)
  PROVE  SendString(str, bufSize) = QuotedText(str)
<1> DEFINE w == FlattenSeq(Pieces(str))
           escaped == [i \in 1 .. Len(str) |-> escapeCharacter(str[i])]
           fits == ~(bufSize < 3 \/ \E i \in 1 .. Len(str) :
                                      1 + Len(FlattenSeq(SubSeq(escaped, 1, i))) + 1 >= bufSize)
<1>1. QuotedText(str) = <<Quote>> \o w \o <<Quote>>
  BY DEF QuotedText
<1>2. Pieces(str) = escaped
  BY DEF Pieces
<1>3. WriteEscString(str, bufSize) = IF fits THEN <<Quote>> \o w \o <<Quote>> ELSE <<>>
  <2>1. WriteEscString(str, bufSize) =
          IF fits THEN <<Quote>> \o FlattenSeq(escaped) \o <<Quote>> ELSE <<>>
    BY DEF WriteEscString
  <2> QED
    BY <1>2, <2>1
<1> HIDE DEF w, fits
<1>4. CASE WriteEscString(str, bufSize) # <<>>
  <2>1. WriteEscString(str, bufSize) = QuotedText(str)
    BY <1>1, <1>3, <1>4
  <2> QED
    BY <1>4, <2>1 DEF SendString
<1>5. CASE WriteEscString(str, bufSize) = <<>>
  <2>1. w = str
    BY <1>5, NothingEscaped DEF Sendable, w
  <2>2. SendString(str, bufSize) = <<Quote>> \o str \o <<Quote>>
    BY <1>5 DEF SendString
  <2> QED
    BY <1>1, <2>1, <2>2
<1> QED
  BY <1>4, <1>5

\* What is read of it: the string, and up to its first NUL with 's'
LEMMA QuotedIsRead ==
  ASSUME NEW str \in Chars
  PROVE  /\ Value("$", QuotedText(str)) = Valid(str)
         /\ Value("s", QuotedText(str)) = Valid(CString(str))
<1>1. PICK P : /\ Writes(P, str) /\ FlattenSeq(Pieces(str)) = P[Len(str)]
               /\ P[Len(str)] \in Chars
  BY WritesFacts
<1> DEFINE q == QuotedText(str)
           w == P[Len(str)]
<1>2. /\ q \in Chars /\ Len(q) = PartEnd(P, Len(str)) + 2 /\ PartEnd(P, Len(str)) \in Nat
      /\ q[1] = Quote /\ q[PartEnd(P, Len(str)) + 2] = Quote
      /\ SubSeq(q, 2, Len(q) - 1) = w
  BY <1>1, QuotedPieces
<1>3. UnescapeString(w, TRUE) = str
  BY <1>1, StringIsRestored
<1> HIDE DEF q, w
<1>4. q # <<>> /\ Len(q) > 1 /\ Last(q) = Quote
  <2>1. Last(q) = q[Len(q)]
    BY DEF Last
  <2>2. Len(q) > 1 /\ Len(q) # 0
    BY <1>2
  <2>3. q # <<>>
    BY <2>2
  <2> QED
    BY <1>2, <2>1, <2>2, <2>3
<1>5. UnquotedBinary(q) = w
  BY <1>2, <1>4 DEF UnquotedBinary
<1>6. Unquoted(q) = w
  BY <1>2, <1>4 DEF Unquoted
<1>7. Value("$", q) = Valid(UnescapeString(UnquotedBinary(q), TRUE))
  BY DEF Value
<1>8. Value("s", q) = Valid(CString(UnescapeString(Unquoted(q), TRUE)))
  BY DEF Value
<1> QED
  BY <1>3, <1>5, <1>6, <1>7, <1>8 DEF q

\* Any number of strings in a line arrive as they were sent, whatever characters they
\* have: uCxAtUtilParseParamsVaList() gives with '$' each string that writeEscString()
\* wrote, and with 's' what it has up to its first NUL.
THEOREM StringsSurvive ==
  ASSUME NEW strs \in Seq(Chars), strs # <<>>, NEW bufSize,
         \A i \in 1 .. Len(strs) : Sendable(strs[i], bufSize),
         NEW format \in Seq({"s", "$"}), Len(format) = Len(strs)
  PROVE  LET wire == Joined([i \in 1 .. Len(strs) |-> SendString(strs[i], bufSize)], Comma)
         IN  ParseParams(wire, format) =
               [i \in 1 .. Len(strs) |->
                  Valid(IF format[i] = "$" THEN strs[i] ELSE CString(strs[i]))]
<1> DEFINE n == Len(strs)
           X == [i \in 1 .. n |-> SendString(strs[i], bufSize)]
           S == {x \in Chars : Closed(x)}
           V(i) == Valid(IF format[i] = "$" THEN strs[i] ELSE CString(strs[i]))
<1>1. n \in Nat /\ n >= 1 /\ \A i \in 1 .. n : strs[i] \in Chars /\ format[i] \in {"s", "$"}
  <2> DEFINE C == Chars
             F == {"s", "$"}
  <2>1. strs \in Seq(C) /\ strs # <<>> /\ format \in Seq(F) /\ Len(format) = Len(strs)
    OBVIOUS
  <2> HIDE DEF C, F
  <2>2. n \in Nat /\ n >= 1 /\ \A i \in 1 .. n : strs[i] \in C /\ format[i] \in F
    BY <2>1
  <2> QED
    BY <2>2 DEF C, F
<1>2. \A i \in 1 .. n : X[i] = QuotedText(strs[i])
  BY <1>1, SendsQuoted
<1>3. \A i \in 1 .. n : X[i] \in S
  BY <1>1, <1>2, QuotedIsClosed DEF Closed
<1>4. X \in [1 .. n -> S]
  <2>1. X = [i \in 1 .. n |-> X[i]]
    OBVIOUS
  <2> HIDE DEF X, S
  <2> QED
    BY <1>3, <2>1
<1> HIDE DEF X, S, n
<1>5. X \in Seq(S) /\ Len(X) = n
  BY <1>1, <1>4, FunctionIsSeq
<1>6. Params(X)
  <2>1. X # <<>>
    BY <1>1, <1>5
  <2> QED
    BY <1>5, <2>1 DEF Params, S
<1>7. \A i \in 1 .. n : Value(format[i], X[i]) = V(i)
  <2> TAKE i \in 1 .. n
  <2>1. /\ Value("$", X[i]) = Valid(strs[i]) /\ Value("s", X[i]) = Valid(CString(strs[i]))
        /\ format[i] \in {"s", "$"}
    BY <1>1, <1>2, QuotedIsRead
  <2> QED
    BY <2>1
<1>8. \A i \in 1 .. n : Value(format[i], X[i]).ok
  <2> TAKE i \in 1 .. n
  <2> DEFINE v == IF format[i] = "$" THEN strs[i] ELSE CString(strs[i])
  <2>1. Value(format[i], X[i]) = Valid(v)
    BY <1>7
  <2> HIDE DEF v
  <2>2. Valid(v).ok
    BY DEF Valid
  <2> QED
    BY <2>1, <2>2
<1>9. ParseParams(Joined(X, Comma), format) = [i \in 1 .. n |-> Value(format[i], X[i])]
  <2>1. Len(format) \in 1 .. Len(X) /\ Len(format) = n
        /\ \A i \in 1 .. Len(format) - 1 : i \in 1 .. n
    BY <1>1, <1>5 DEF n
  <2>2. \A i \in 1 .. Len(format) - 1 : Value(format[i], X[i]).ok
    BY <1>8, <2>1
  <2>3. ParseParams(Joined(X, Comma), format)
          = [i \in 1 .. Len(format) |-> Value(format[i], X[i])]
    BY <1>6, <2>1, <2>2, LineIsParsed
  <2> QED
    BY <2>1, <2>3
<1>10. [i \in 1 .. n |-> Value(format[i], X[i])] = [i \in 1 .. n |-> V(i)]
  BY <1>7
<1> QED
  BY <1>9, <1>10 DEF X, n
=============================================================================
