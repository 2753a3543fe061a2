---------------------------- MODULE FmqRingProofs ----------------------------
(***************************************************************************)
(* Facts about the ring arithmetic of FmqRing, for every queue size,       *)
(* message size and counter width that RingAssumption allows.              *)
(***************************************************************************)
EXTENDS FmqRing, TLAPS

\* Division leaves a remainder below the divisor.
LEMMA DivMod ==
    ASSUME NEW a \in Int, NEW s \in Nat \ {0}
    PROVE  /\ a % s \in 0..(s - 1)
           /\ a \div s \in Int
           /\ a = s * (a \div s) + (a % s)
  OBVIOUS

\* Quotient and remainder are unique.
LEMMA ModUnique ==
    ASSUME NEW a \in Int, NEW s \in Nat \ {0}, NEW q \in Int, NEW x \in 0..(s - 1),
           a = s * q + x
    PROVE  a % s = x
<1> DEFINE p == a \div s
<1> DEFINE y == a % s
<1>1. p \in Int /\ y \in 0..(s - 1) /\ a = s * p + y
  BY DivMod
<1> HIDE DEF p, y
<1>2. y = x
  <2>1. CASE q = p
    BY <1>1, <2>1
  <2>2. CASE q - p >= 1
    <3>1. s * (q - p) >= s
      BY <1>1, <2>2
    <3>2. s * (q - p) = y - x
      BY <1>1
    <3> QED
      BY <1>1, <3>1, <3>2
  <2>3. CASE p - q >= 1
    <3>1. s * (p - q) >= s
      BY <1>1, <2>3
    <3>2. s * (p - q) = x - y
      BY <1>1
    <3> QED
      BY <1>1, <3>1, <3>2
  <2> QED
    BY <1>1, <2>1, <2>2, <2>3
<1> QED
  BY <1>2 DEF y

\* Adding a multiple of the divisor does not change the remainder.
LEMMA ModShift ==
    ASSUME NEW a \in Int, NEW s \in Nat \ {0}, NEW q \in Int
    PROVE  (a + s * q) % s = a % s
<1>1. a % s \in 0..(s - 1) /\ a \div s \in Int /\ a = s * (a \div s) + (a % s)
  BY DivMod
<1>2. a + s * q = s * ((a \div s) + q) + (a % s)
  BY <1>1
<1>3. a + s * q \in Int /\ (a \div s) + q \in Int
  BY <1>1
<1> QED
  BY <1>1, <1>2, <1>3, ModUnique

\* The remainder of a sum depends only on the remainder of one summand.
LEMMA ModAbsorb ==
    ASSUME NEW a \in Int, NEW s \in Nat \ {0}, NEW k \in Int
    PROVE  ((a % s) + k) % s = (a + k) % s
<1> DEFINE q == a \div s
           b == (a % s) + k
<1>1. a % s \in 0..(s - 1) /\ q \in Int /\ a = s * q + (a % s)
  BY DivMod
<1>2. b \in Int /\ a + k = b + s * q
  BY <1>1
<1> HIDE DEF q, b
<1>3. (b + s * q) % s = b % s
  BY <1>1, <1>2, ModShift
<1>4. b % s = (a + k) % s
  BY <1>2, <1>3
<1> QED
  BY <1>4 DEF b

\* Numbers that differ by less than the divisor have different remainders.
LEMMA ModDistinct ==
    ASSUME NEW a \in Int, NEW b \in Int, NEW s \in Nat \ {0},
           0 < a - b, a - b < s
    PROVE  a % s # b % s
<1>1. a % s \in 0..(s - 1) /\ a \div s \in Int /\ a = s * (a \div s) + (a % s)
  BY DivMod
<1>2. b % s \in 0..(s - 1) /\ b \div s \in Int /\ b = s * (b \div s) + (b % s)
  BY DivMod
<1> SUFFICES ASSUME a % s = b % s PROVE FALSE
  OBVIOUS
<1> DEFINE d == (a \div s) - (b \div s)
<1>3. d \in Int /\ a - b = s * d
  BY <1>1, <1>2
<1> HIDE DEF d
<1>4. CASE d <= 0
  BY <1>3, <1>4
<1>5. CASE d >= 1
  BY <1>3, <1>5
<1> QED
  BY <1>3, <1>4, <1>5

-----------------------------------------------------------------------------
\* A counter's offset survives the wrap of the counter when the size of the
\* ring divides CounterMod.
LEMMA OffsetSurvivesWrap ==
    ASSUME NEW a \in Int, NEW k \in Int, CounterMod % QueueSize = 0
    PROVE  ((a % CounterMod) + k) % QueueSize = (a + k) % QueueSize
<1>0. QueueSize \in Nat \ {0} /\ CounterMod \in Nat \ {0}
  BY RingAssumption
<1> DEFINE c == CounterMod \div QueueSize
           e == a \div CounterMod
           y == a % CounterMod
<1>1. c \in Int /\ CounterMod = QueueSize * c + 0
  BY <1>0, DivMod
<1>2. y \in Int /\ e \in Int /\ a = CounterMod * e + y
  BY <1>0, DivMod
<1>3. (y + k) % QueueSize = (a + k) % QueueSize
  <2> HIDE DEF c, e, y
  <2>1. a = QueueSize * (c * e) + y
    BY <1>0, <1>1, <1>2
  <2>2. c * e \in Int /\ y + k \in Int
    BY <1>1, <1>2
  <2>3. ((y + k) + QueueSize * (c * e)) % QueueSize = (y + k) % QueueSize
    BY <1>0, <2>2, ModShift
  <2>4. a + k = (y + k) + QueueSize * (c * e)
    BY <1>0, <1>2, <2>1, <2>2
  <2> QED
    BY <2>3, <2>4
<1> QED
  BY <1>3

\* The wrapping counters count: advancing one of them changes their difference
\* by as much, while the difference stays in range.
LEMMA CounterArithmetic ==
    ASSUME NEW p \in 0..(CounterMod - 1), NEW q \in 0..(CounterMod - 1), NEW b \in Nat
    PROVE  /\ CounterSub(p, q) \in 0..(CounterMod - 1)
           /\ p >= q => CounterSub(p, q) = p - q
           /\ CounterAdd(p, b) \in 0..(CounterMod - 1)
           /\ p + b < CounterMod => CounterAdd(p, b) = p + b
           /\ CounterSub(p, q) + b < CounterMod =>
                CounterSub(CounterAdd(p, b), q) = CounterSub(p, q) + b
           /\ b <= CounterSub(p, q) =>
                CounterSub(p, CounterAdd(q, b)) = CounterSub(p, q) - b
<1>0. CounterMod \in Nat \ {0}
  BY RingAssumption
<1>i. p \in Int /\ q \in Int /\ p - q \in Int /\ p + b \in Int /\ q + b \in Int
  BY <1>0
<1> USE <1>0, <1>i DEF CounterAdd, CounterSub
<1>1. (p - q) % CounterMod \in 0..(CounterMod - 1)
      /\ (p + b) % CounterMod \in 0..(CounterMod - 1)
  BY DivMod
<1>2. p >= q => (p - q) % CounterMod = p - q
  BY ModUnique, p - q = CounterMod * 0 + (p - q)
<1>3. p + b < CounterMod => (p + b) % CounterMod = p + b
  BY ModUnique, p + b = CounterMod * 0 + (p + b)
<1> DEFINE d == (p - q) \div CounterMod
<1> DEFINE x == (p - q) % CounterMod
<1>4. d \in Int /\ x \in 0..(CounterMod - 1) /\ p - q = CounterMod * d + x
  BY DivMod
<1>5. ASSUME x + b < CounterMod
      PROVE  (((p + b) % CounterMod) - q) % CounterMod = x + b
  <2> DEFINE w == (p + b) \div CounterMod
             y == (p + b) % CounterMod
  <2>1. w \in Int /\ y \in 0..(CounterMod - 1) /\ p + b = CounterMod * w + y
    BY DivMod
  <2> HIDE DEF d, x, w, y
  <2>2. y - q = CounterMod * (d - w) + (x + b) /\ x + b \in 0..(CounterMod - 1)
        /\ y - q \in Int /\ d - w \in Int
    BY <1>4, <1>5, <2>1
  <2>3. (y - q) % CounterMod = x + b
    BY <2>2, ModUnique
  <2> QED
    BY <2>3 DEF y
<1>6. ASSUME b <= x
      PROVE  (p - ((q + b) % CounterMod)) % CounterMod = x - b
  <2> DEFINE e == (q + b) \div CounterMod
  <2> DEFINE y == (q + b) % CounterMod
  <2>1. e \in Int /\ y \in 0..(CounterMod - 1) /\ q + b = CounterMod * e + y
    BY DivMod
  <2> HIDE DEF d, x, e, y
  <2>2. p - y = CounterMod * (d + e) + (x - b) /\ x - b \in 0..(CounterMod - 1)
        /\ p - y \in Int /\ d + e \in Int
    BY <1>4, <1>6, <2>1
  <2>3. (p - y) % CounterMod = x - b
    BY <2>2, ModUnique
  <2> QED
    BY <2>3 DEF y
<1> QED
  BY <1>1, <1>2, <1>3, <1>5, <1>6
\* A byte inside the ring: wrap an offset by at most one lap.
LEMMA OneLap ==
    ASSUME NEW p \in Int, NEW k \in Int
    PROVE  LET off == p % QueueSize
           IN  /\ off \in 0..(QueueSize - 1)
               /\ 0 <= off + k /\ off + k < QueueSize =>
                    (p + k) % QueueSize = off + k
               /\ QueueSize <= off + k /\ off + k < 2 * QueueSize =>
                    (p + k) % QueueSize = off + k - QueueSize
<1>0. QueueSize \in Nat \ {0}
  BY RingAssumption
<1> DEFINE off == p % QueueSize
<1>1. off \in 0..(QueueSize - 1)
  BY <1>0, DivMod
<1>2. (off + k) % QueueSize = (p + k) % QueueSize
  BY <1>0, ModAbsorb
<1> HIDE DEF off
<1>3. ASSUME 0 <= off + k, off + k < QueueSize
      PROVE  (off + k) % QueueSize = off + k
  BY <1>0, <1>1, <1>3, off + k = QueueSize * 0 + (off + k), ModUnique
<1>4. ASSUME QueueSize <= off + k, off + k < 2 * QueueSize
      PROVE  (off + k) % QueueSize = off + k - QueueSize
  BY <1>0, <1>1, <1>4, off + k = QueueSize * 1 + (off + k - QueueSize), ModUnique
<1> QED
  BY <1>1, <1>2, <1>3, <1>4 DEF off

\* From an aligned counter, the messages up to the end of the ring fill it
\* exactly: no message of type T is torn between the two regions.
LEMMA ContiguousExact ==
    ASSUME NEW p \in Nat, Aligned(p)
    PROVE  /\ Contiguous(p) \in 1..QuantumCount
           /\ Contiguous(p) * Quantum = QueueSize - (p % QueueSize)
<1>0. QueueSize \in Nat \ {0} /\ Quantum \in Nat \ {0}
  BY RingAssumption
<1> DEFINE k == p \div Quantum
           s == QuantumCount
           d == p \div QueueSize
           off == p % QueueSize
           c == s - (k - s * d)
<1>1. k \in Int /\ p = Quantum * k + 0
  BY <1>0, DivMod DEF Aligned
<1>2. s \in Int /\ QueueSize = Quantum * s + 0
  BY <1>0, RingAssumption, DivMod DEF QuantumCount
<1>3. d \in Int /\ off \in 0..(QueueSize - 1) /\ p = QueueSize * d + off
  BY <1>0, DivMod
<1>4. c \in Int /\ QueueSize - off = Quantum * c
  <2> HIDE DEF k, s, d, off
  <2>1. QueueSize * d = Quantum * (s * d)
    BY <1>0, <1>2, <1>3
  <2> QED
    BY <1>0, <1>1, <1>2, <1>3, <2>1
<1> HIDE DEF c, k, d
<1>5. (QueueSize - off) \div Quantum = c
  <2> DEFINE q == (QueueSize - off) \div Quantum
             x == (QueueSize - off) % Quantum
  <2>1. QueueSize - off \in Int
    BY <1>0, <1>3
  <2>2. q \in Int /\ QueueSize - off = Quantum * q + x
    BY <1>0, <2>1, DivMod
  <2>3. x = 0
    <3>1. QueueSize - off = Quantum * c + 0 /\ 0 \in 0..(Quantum - 1)
      BY <1>0, <1>4
    <3> HIDE DEF off
    <3> QED
      BY <1>0, <1>4, <2>1, <3>1, ModUnique
  <2> HIDE DEF q, x
  <2>4. Quantum * (q - c) = 0
    BY <1>0, <1>4, <2>1, <2>2, <2>3
  <2>5. q = c
    BY <1>0, <1>4, <2>2, <2>4
  <2> QED
    BY <2>5 DEF q
<1>6. c >= 1
  <2> HIDE DEF off
  <2> QED
    BY <1>0, <1>3, <1>4
<1>7. c <= s
  <2> HIDE DEF off, s
  <2>1. Quantum * (s - c) >= 0
    BY <1>0, <1>2, <1>3, <1>4
  <2> QED
    BY <1>0, <1>2, <1>4, <2>1
<1> QED
  BY <1>0, <1>2, <1>4, <1>5, <1>6, <1>7 DEF Contiguous

LEMMA QuantumCountBytes ==
    /\ QuantumCount \in Nat
    /\ QuantumCount * Quantum = QueueSize
    /\ \A n \in Nat : n <= QuantumCount <=> n * Quantum <= QueueSize
<1>0. QueueSize \in Nat \ {0} /\ Quantum \in Nat \ {0}
  BY RingAssumption
<1> DEFINE s == QuantumCount
<1>1. s \in Int /\ QueueSize = Quantum * s + 0
  BY <1>0, RingAssumption, DivMod DEF QuantumCount
<1> HIDE DEF s
<1>2. s >= 0
  BY <1>0, <1>1
<1>3. ASSUME NEW n \in Nat PROVE n <= s <=> n * Quantum <= QueueSize
  <2>1. ASSUME n <= s PROVE n * Quantum <= QueueSize
    <3>1. (s - n) * Quantum >= 0
      BY <1>0, <1>1, <2>1
    <3> QED
      BY <1>0, <1>1, <3>1
  <2>2. ASSUME n > s PROVE n * Quantum > QueueSize
    <3>1. (n - s) * Quantum >= Quantum
      BY <1>0, <1>1, <2>2
    <3> QED
      BY <1>0, <1>1, <3>1
  <2>3. n * Quantum \in Int
    BY <1>0
  <2> QED
    BY <1>0, <1>1, <2>1, <2>2, <2>3
<1> QED
  BY <1>0, <1>1, <1>2, <1>3 DEF s

\* A transaction of n messages from an aligned counter covers exactly the
\* n * Quantum ring bytes that follow the counter.
LEMMA TxAtCovers ==
    ASSUME NEW p \in Nat, Aligned(p), NEW n \in 0..QuantumCount
    PROVE  /\ TxAt(p, n) \in Transactions
           /\ TxLength(TxAt(p, n)) = n
           /\ TxBytes(TxAt(p, n)) = n * Quantum
           /\ n * Quantum \in 0..QueueSize
           /\ \A j \in 0..(n * Quantum - 1) :
                /\ TxAddress(TxAt(p, n), j) = (p + j) % QueueSize
                /\ TxAddress(TxAt(p, n), j) \in 0..(QueueSize - 1)
<1>0. QueueSize \in Nat \ {0} /\ Quantum \in Nat \ {0} /\ n \in Nat
      /\ QuantumCount \in Nat
  BY RingAssumption, QuantumCountBytes
<1> DEFINE off == p % QueueSize
           c == Contiguous(p)
           tx == TxAt(p, n)
<1>1. c \in 1..QuantumCount /\ c * Quantum = QueueSize - off
  BY ContiguousExact
<1>2. off \in 0..(QueueSize - 1)
  BY <1>0, DivMod
<1>3. n * Quantum \in 0..QueueSize
  BY <1>0, QuantumCountBytes
<1>4. tx = IF c < n
           THEN [first |-> Region(off, c), second |-> Region(0, n - c)]
           ELSE [first |-> Region(off, n), second |-> Region(Null, 0)]
  BY DEF TxAt
<1>w. \A j \in Int :
        /\ 0 <= off + j /\ off + j < QueueSize => (p + j) % QueueSize = off + j
        /\ QueueSize <= off + j /\ off + j < 2 * QueueSize =>
             (p + j) % QueueSize = off + j - QueueSize
  BY OneLap
<1> HIDE DEF off, c, tx
<1>5. tx \in Transactions
  BY <1>0, <1>1, <1>2, <1>4 DEF Transactions, Regions, Region, Null
<1>6. TxLength(tx) = n
  BY <1>0, <1>1, <1>4 DEF TxLength, Region
<1>7. ASSUME NEW j \in 0..(n * Quantum - 1)
      PROVE  TxAddress(tx, j) = (p + j) % QueueSize
  <2>0. TxAddress(tx, j) = CopyAddress(tx, 0, n, j)
    BY <1>6 DEF TxAddress
  <2>1. CASE c < n
    <3>1. tx.first = Region(off, c) /\ tx.second = Region(0, n - c)
      BY <1>4, <2>1
    <3>2. CopyAddress(tx, 0, n, j) =
            IF j < c * Quantum THEN off + 0 * Quantum + j
            ELSE 0 + 0 * Quantum + (j - c * Quantum)
      BY <1>0, <1>1, <1>2, <2>1, <3>1
         DEF CopyAddress, GetMemRegionInfo, Region, Advance, Null, LesserOf
    <3>3. CopyAddress(tx, 0, n, j) =
            IF j < QueueSize - off THEN off + j ELSE off + j - QueueSize
      BY <1>0, <1>1, <1>2, <1>3, <3>2
    <3>4. off + j < 2 * QueueSize
      BY <1>0, <1>2, <1>3
    <3> QED
      BY <1>0, <1>2, <1>3, <1>w, <2>0, <3>3, <3>4
  <2>2. CASE ~(c < n)
    <3>1. tx.first = Region(off, n)
      BY <1>4, <2>2
    <3>2. n # 0 /\ n * Quantum <= c * Quantum
      <4>1. (c - n) * Quantum >= 0
        BY <1>0, <1>1, <2>2
      <4> QED
        BY <1>0, <1>1, <4>1
    <3>3. CopyAddress(tx, 0, n, j) = off + 0 * Quantum + j
      BY <1>0, <1>2, <1>3, <3>1, <3>2
         DEF CopyAddress, GetMemRegionInfo, Region, Advance, Null, LesserOf
    <3>4. off + j < QueueSize
      BY <1>0, <1>1, <1>2, <1>3, <3>2
    <3> QED
      BY <1>0, <1>2, <1>3, <1>w, <2>0, <3>3, <3>4
  <2> QED
    BY <2>1, <2>2
<1>8. ASSUME NEW j \in 0..(n * Quantum - 1)
      PROVE  (p + j) % QueueSize \in 0..(QueueSize - 1)
  BY <1>0, <1>3, DivMod, p + j \in Int
<1> QED
  BY <1>3, <1>5, <1>6, <1>7, <1>8 DEF tx, TxBytes

LEMMA NullTxCovers ==
    NullTx \in Transactions /\ TxLength(NullTx) = 0 /\ TxBytes(NullTx) = 0
<1> QED
  BY RingAssumption, QuantumCountBytes
     DEF NullTx, Transactions, Regions, Region, TxLength, TxBytes, Null

\* The offset of a counter after an addition, across its wrap or short of it.
LEMMA AddedOffset ==
    ASSUME NEW p \in 0..(CounterMod - 1), NEW b \in Nat, NEW k \in Int,
           CounterMod % QueueSize = 0 \/ p + b < CounterMod
    PROVE  (CounterAdd(p, b) + k) % QueueSize = ((p + b) + k) % QueueSize
<1>1. CounterMod \in Nat \ {0} /\ p + b \in Int
  BY RingAssumption
<1>2. CASE CounterMod % QueueSize = 0
  BY <1>1, <1>2, OffsetSurvivesWrap DEF CounterAdd
<1>3. CASE p + b < CounterMod
  BY <1>1, <1>3, CounterArithmetic
<1> QED
  BY <1>2, <1>3

\* The offset of the counter behind, from the counter ahead and their distance.
LEMMA BehindOffset ==
    ASSUME NEW p \in 0..(CounterMod - 1), NEW q \in 0..(CounterMod - 1), NEW k \in Int,
           CounterMod % QueueSize = 0 \/ q <= p
    PROVE  (q + k) % QueueSize = ((p - CounterSub(p, q)) + k) % QueueSize
<1>1. CounterMod \in Nat \ {0} /\ QueueSize \in Nat \ {0} /\ p - q \in Int
  BY RingAssumption
<1>2. CASE CounterMod % QueueSize = 0
  <2> DEFINE d == (p - q) \div CounterMod
             x == (p - q) % CounterMod
             c == CounterMod \div QueueSize
  <2>1. d \in Int /\ x \in 0..(CounterMod - 1) /\ p - q = CounterMod * d + x
    BY <1>1, DivMod
  <2>2. c \in Int /\ CounterMod = QueueSize * c + 0
    BY <1>1, <1>2, DivMod
  <2>3. (q + k) % QueueSize = ((p - x) + k) % QueueSize
    <3> HIDE DEF d, x, c
    <3>1. CounterMod * d = QueueSize * (c * d) /\ c * d \in Int
      BY <1>1, <2>1, <2>2
    <3>2. (p - x) + k = (q + k) + QueueSize * (c * d) /\ q + k \in Int
      BY <1>1, <2>1, <3>1
    <3>3. ((q + k) + QueueSize * (c * d)) % QueueSize = (q + k) % QueueSize
      BY <1>1, <3>1, <3>2, ModShift
    <3> QED
      BY <3>2, <3>3
  <2> QED
    BY <2>3 DEF CounterSub
<1>3. CASE q <= p
  BY <1>1, <1>3, CounterArithmetic, 0 \in Nat, p - (p - q) = q
<1> QED
  BY <1>2, <1>3

\* n messages fit when the bytes available, divided down, are at least n.
LEMMA FitsInBytes ==
    ASSUME NEW x \in Nat, NEW n \in Nat, n <= x \div Quantum
    PROVE  n * Quantum <= x
<1>0. Quantum \in Nat \ {0}
  BY RingAssumption
<1> DEFINE d == x \div Quantum
           m == x % Quantum
<1>1. d \in Int /\ m \in 0..(Quantum - 1) /\ x = Quantum * d + m
  BY <1>0, DivMod
<1> HIDE DEF d, m
<1>2. n <= d
  BY DEF d
<1>3. (d - n) * Quantum >= 0
  BY <1>0, <1>1, <1>2
<1> QED
  BY <1>0, <1>1, <1>3

\* n times Quantum, by distribution and monotonicity.
LEMMA Scaled ==
    ASSUME NEW a \in Int, NEW b \in Int
    PROVE  /\ (a + b) * Quantum = a * Quantum + b * Quantum
           /\ (a - b) * Quantum = a * Quantum - b * Quantum
           /\ a * Quantum \in Int
           /\ a <= b => a * Quantum <= b * Quantum
           /\ a < b => a * Quantum + Quantum <= b * Quantum
<1>0. Quantum \in Nat \ {0}
  BY RingAssumption
<1>1. /\ (a + b) * Quantum = a * Quantum + b * Quantum
      /\ (a - b) * Quantum = a * Quantum - b * Quantum
      /\ a * Quantum \in Int
  BY <1>0
<1>2. ASSUME a <= b PROVE a * Quantum <= b * Quantum
  <2>1. (b - a) * Quantum >= 0
    BY <1>0, <1>2
  <2> QED
    BY <1>0, <2>1
<1>3. ASSUME a < b PROVE a * Quantum + Quantum <= b * Quantum
  <2>1. (b - a - 1) * Quantum >= 0
    BY <1>0, <1>3
  <2> QED
    BY <1>0, <2>1
<1> QED
  BY <1>1, <1>2, <1>3

\* A transaction whose regions, where they hold messages, are in the ring.
Placed(tx) ==
    /\ tx.first.length \in Nat /\ tx.second.length \in Nat
    /\ tx.first.length > 0 => tx.first.address \in Nat
    /\ tx.second.length > 0 => tx.second.address \in Nat

\* The address copyTo and copyFrom compute, for any start index, is that of
\* the slot of the byte's message.
LEMMA CopyAddressIsSlot ==
    ASSUME NEW tx, Placed(tx),
           NEW start \in Nat, NEW n \in Nat, start + n <= TxLength(tx),
           NEW k \in 0..(n - 1), NEW o \in 0..(Quantum - 1)
    PROVE  LET idx  == start + k
               addr == IF idx < tx.first.length
                       THEN tx.first.address + idx * Quantum + o
                       ELSE tx.second.address + (idx - tx.first.length) * Quantum + o
           IN  /\ CopyAddress(tx, start, n, k * Quantum + o) = addr
               /\ GetSlot(tx, idx) + o = addr
<1> DEFINE one == tx.first.length
           two == tx.second.length
           a == tx.first.address
           b == tx.second.address
           idx == start + k
           j == k * Quantum + o
           info == GetMemRegionInfo(tx, start, n)
<1>1. Quantum \in Nat \ {0} /\ one \in Nat /\ two \in Nat /\ start + n <= one + two
  BY RingAssumption DEF Placed, TxLength
<1>2. (one > 0 => a \in Nat) /\ (two > 0 => b \in Nat)
  BY DEF Placed
<1>3. /\ info.firstCount = IF start < one THEN LesserOf(n, one - start) ELSE 0
      /\ info.firstBase = Advance(a, start)
      /\ info.secondBase = Advance(b, IF start > one THEN start - one ELSE 0)
  BY DEF GetMemRegionInfo
<1>4. GetSlot(tx, idx) = IF idx < one THEN Advance(a, idx) ELSE Advance(b, idx - one)
  <2>1. ~(idx > one + two)
    BY <1>1
  <2> QED
    BY <2>1 DEF GetSlot, TxLength
<1>5. CopyAddress(tx, start, n, j) =
         IF j < info.firstCount * Quantum THEN info.firstBase + j
         ELSE info.secondBase + (j - info.firstCount * Quantum)
  BY DEF CopyAddress
<1>6. /\ \A x \in Int : x * Quantum \in Int
      /\ idx * Quantum = start * Quantum + k * Quantum
  BY <1>1, Scaled
<1> HIDE DEF one, two, a, b, info
<1>7. CASE idx < one
  <2>1. info.firstCount \in Nat /\ k < info.firstCount /\ a \in Nat /\ start < one
    BY <1>1, <1>2, <1>3, <1>7 DEF LesserOf
  <2>2. j < info.firstCount * Quantum
    <3>1. k \in Int /\ info.firstCount \in Int /\ k < info.firstCount
      BY <1>1, <2>1
    <3>2. k * Quantum + Quantum <= info.firstCount * Quantum
      BY <3>1, Scaled
    <3> QED
      BY <1>1, <1>6, <3>1, <3>2
  <2>3. info.firstBase = a + start * Quantum /\ GetSlot(tx, idx) = a + idx * Quantum
    BY <1>3, <1>4, <1>7, <2>1 DEF Advance, Null
  <2> QED
    BY <1>1, <1>5, <1>6, <1>7, <2>1, <2>2, <2>3 DEF one, a
<1>8. CASE ~(idx < one) /\ start < one
  <2>1. info.firstCount = one - start /\ one - start <= k /\ b \in Nat
    BY <1>1, <1>2, <1>3, <1>8 DEF LesserOf
  <2>2. (one - start) * Quantum <= k * Quantum
        /\ (one - start) * Quantum = one * Quantum - start * Quantum
        /\ (idx - one) * Quantum = idx * Quantum - one * Quantum
    BY <1>1, <2>1, Scaled
  <2>3. info.secondBase = b + 0 * Quantum /\ GetSlot(tx, idx) = b + (idx - one) * Quantum
    BY <1>1, <1>3, <1>4, <1>8, <2>1 DEF Advance, Null
  <2> QED
    BY <1>1, <1>5, <1>6, <1>8, <2>1, <2>2, <2>3 DEF one, b
<1>9. CASE ~(start < one)
  <2>1. info.firstCount = 0 /\ b \in Nat
    BY <1>1, <1>2, <1>3, <1>9 DEF LesserOf
  <2>2. (start - one) * Quantum = start * Quantum - one * Quantum
        /\ (idx - one) * Quantum = idx * Quantum - one * Quantum
    BY <1>1, Scaled
  <2>3. info.secondBase = b + (start - one) * Quantum
        /\ GetSlot(tx, idx) = b + (idx - one) * Quantum
    BY <1>1, <1>3, <1>4, <1>9, <2>1 DEF Advance, Null
  <2>4. ~(idx < one) /\ ~(j < 0 * Quantum)
    BY <1>1, <1>6, <1>9
  <2> QED
    BY <1>1, <1>5, <1>6, <2>1, <2>2, <2>3, <2>4 DEF one, b
<1> QED
  BY <1>1, <1>7, <1>8, <1>9

\* getMemRegionInfo, getSlot and a copy of the whole transaction agree.
LEMMA AddressesAgree ==
    ASSUME NEW tx, Placed(tx),
           NEW start \in 0..TxLength(tx), NEW n \in 0..(TxLength(tx) - start)
    PROVE  /\ GetMemRegionInfo(tx, start, n).ok
           /\ \A j \in 0..(n * Quantum - 1) :
                 /\ CopyAddress(tx, start, n, j) =
                       GetSlot(tx, start + (j \div Quantum)) + (j % Quantum)
                 /\ CopyAddress(tx, start, n, j) = TxAddress(tx, start * Quantum + j)
<1>1. Quantum \in Nat \ {0} /\ TxLength(tx) \in Nat /\ start \in Nat /\ n \in Nat
      /\ start + n <= TxLength(tx)
  BY RingAssumption DEF Placed, TxLength
<1>2. GetMemRegionInfo(tx, start, n).ok
  BY <1>1 DEF GetMemRegionInfo
<1>3. ASSUME NEW j \in 0..(n * Quantum - 1)
      PROVE  /\ CopyAddress(tx, start, n, j) =
                   GetSlot(tx, start + (j \div Quantum)) + (j % Quantum)
             /\ CopyAddress(tx, start, n, j) = TxAddress(tx, start * Quantum + j)
  <2> DEFINE k == j \div Quantum
             o == j % Quantum
  <2>1. j \in Int /\ 0 <= j /\ j < n * Quantum
    BY <1>1, Scaled
  <2>2. k \in Int /\ o \in 0..(Quantum - 1) /\ j = Quantum * k + o
    BY <1>1, <2>1, DivMod
  <2> HIDE DEF k, o
  <2>3. k \in 0..(n - 1)
    <3>1. 0 <= k
      <4>1. k < 0 => k * Quantum + Quantum <= 0 * Quantum
        BY <2>2, Scaled
      <4> QED
        BY <1>1, <2>1, <2>2, <4>1
    <3>2. k < n
      <4>1. n <= k => n * Quantum <= k * Quantum
        BY <1>1, <2>2, Scaled
      <4> QED
        BY <1>1, <2>1, <2>2, <4>1
    <3> QED
      BY <1>1, <2>2, <3>1, <3>2
  <2>4. start + k \in 0..(TxLength(tx) - 1) /\ k * Quantum + o = j
        /\ (start + k) * Quantum + o = start * Quantum + j
    BY <1>1, <2>2, <2>3, Scaled
  <2>5. CopyAddress(tx, start, n, j) = GetSlot(tx, start + k) + o
    BY <1>1, <2>2, <2>3, <2>4, CopyAddressIsSlot
  <2>6. TxAddress(tx, start * Quantum + j) = GetSlot(tx, start + k) + o
    <3> DEFINE i == start + k
               all == TxLength(tx)
    <3>1. i \in 0..(all - 1) /\ all \in Nat /\ 0 + all <= TxLength(tx) /\ 0 \in Nat
          /\ 0 + i = i
      BY <1>1, <2>4
    <3> HIDE DEF i, all
    <3>2. CopyAddress(tx, 0, all, i * Quantum + o) = GetSlot(tx, 0 + i) + o
      BY <2>2, <3>1, CopyAddressIsSlot
    <3> QED
      BY <2>4, <3>1, <3>2 DEF TxAddress, i, all
  <2> QED
    BY <2>5, <2>6 DEF k, o
<1> QED
  BY <1>2, <1>3

LEMMA OpenTxPlaced ==
    /\ Placed(NullTx)
    /\ \A p \in Nat : \A n \in 0..QuantumCount : Aligned(p) => Placed(TxAt(p, n))
<1>1. Placed(NullTx)
  BY DEF Placed, NullTx, Region
<1>2. ASSUME NEW p \in Nat, NEW n \in 0..QuantumCount, Aligned(p)
      PROVE  Placed(TxAt(p, n))
  <2>1. p % QueueSize \in Nat /\ QuantumCount \in Nat
    BY RingAssumption, DivMod, QuantumCountBytes
  <2>2. Contiguous(p) \in 1..QuantumCount
    BY <1>2, ContiguousExact
  <2> QED
    BY <2>1, <2>2 DEF Placed, TxAt, Region
<1> QED
  BY <1>1, <1>2

=============================================================================
