-------------------------- MODULE MessageQueueProofs --------------------------
(***************************************************************************)
(* Theorems about MessageQueue for every queue size, message size, counter *)
(* width, set of values and number of readers.                             *)
(***************************************************************************)
EXTENDS MessageQueue, FmqRingProofs, Sequences

\* An open transaction is the one its begin computed from the counter, which
\* its owner has not moved since; without one the private copies are blank.
WriterTx ==
    /\ wpc = "idle" => wtx = NullTx /\ wdata = Blank
    /\ wpc = "filling" =>
         Aligned(writePtr) /\ \E n \in 0..QuantumCount : wtx = TxAt(writePtr, n)

ReaderTx(r) ==
    /\ rpc[r] = "idle" => rtx[r] = NullTx /\ rdata[r] = Blank
    /\ rpc[r] = "taking" =>
         Aligned(readPtr[r]) /\ \E n \in 0..QuantumCount : rtx[r] = TxAt(readPtr[r], n)

TypeInv == TypeOK /\ WriterTx /\ \A r \in Readers : ReaderTx(r)

LEMMA Constants ==
    /\ QueueSize \in Nat \ {0} /\ Quantum \in Nat \ {0}
    /\ CounterMod \in Nat \ {0} /\ QueueSize < CounterMod
    /\ QuantumCount \in Nat
    /\ \A n \in Counts : n \in Nat /\ Bytes(n) = n * Quantum /\ Bytes(n) \in Nat
    /\ Offsets = 0..(QueueSize - 1)
    /\ Blank \in [Offsets -> Values \cup {None}]
<1>1. QueueSize \in Nat \ {0} /\ Quantum \in Nat \ {0}
      /\ CounterMod \in Nat \ {0} /\ QueueSize < CounterMod
  BY RingAssumption
<1>2. ASSUME NEW n \in Counts
      PROVE  n \in Nat /\ Bytes(n) = n * Quantum /\ Bytes(n) \in Nat
  <2>1. n \in Nat /\ n * Quantum < CounterMod
    BY QueueAssumption
  <2>2. n * Quantum \in Nat
    BY <1>1, <2>1
  <2> DEFINE b == n * Quantum
  <2>3. b = CounterMod * 0 + b /\ b \in 0..(CounterMod - 1)
    BY <1>1, <2>1, <2>2
  <2> HIDE DEF b
  <2>4. b % CounterMod = b
    BY <1>1, <2>3, ModUnique
  <2> QED
    BY <2>1, <2>2, <2>4 DEF Bytes, b
<1> QED
  BY <1>1, <1>2, QuantumCountBytes DEF Offsets, Blank

\* The bytes of the open transactions lie where the counters say.
LEMMA WriterCovers ==
    ASSUME TypeOK, WriterTx
    PROVE  /\ TxLength(wtx) \in Nat /\ TxBytes(wtx) = TxLength(wtx) * Quantum
           /\ TxBytes(wtx) \in 0..QueueSize
           /\ \A j \in 0..(TxBytes(wtx) - 1) :
                TxAddress(wtx, j) = (writePtr + j) % QueueSize
                /\ TxAddress(wtx, j) \in Offsets
<1> USE Constants DEF Offsets
<1>1. CASE wpc = "idle"
  BY <1>1, NullTxCovers DEF WriterTx, TxBytes
<1>2. CASE wpc = "filling"
  <2>1. PICK n \in 0..QuantumCount : wtx = TxAt(writePtr, n) /\ Aligned(writePtr)
    BY <1>2 DEF WriterTx
  <2>2. writePtr \in Nat
    BY DEF TypeOK
  <2> QED
    BY <2>1, <2>2, TxAtCovers
<1> QED
  BY <1>1, <1>2 DEF TypeOK

LEMMA ReaderCovers ==
    ASSUME TypeOK, NEW r \in Readers, ReaderTx(r)
    PROVE  /\ TxLength(rtx[r]) \in Nat /\ TxBytes(rtx[r]) = TxLength(rtx[r]) * Quantum
           /\ TxBytes(rtx[r]) \in 0..QueueSize
           /\ \A j \in 0..(TxBytes(rtx[r]) - 1) :
                TxAddress(rtx[r], j) = (readPtr[r] + j) % QueueSize
                /\ TxAddress(rtx[r], j) \in Offsets
<1> USE Constants DEF Offsets
<1>1. CASE rpc[r] = "idle"
  BY <1>1, NullTxCovers DEF ReaderTx, TxBytes
<1>2. CASE rpc[r] = "taking"
  <2>1. PICK n \in 0..QuantumCount :
            rtx[r] = TxAt(readPtr[r], n) /\ Aligned(readPtr[r])
    BY <1>2 DEF ReaderTx
  <2> DEFINE p == readPtr[r]
             tx == rtx[r]
  <2>2. p \in Nat
    BY DEF TypeOK
  <2>3. p \in Nat /\ Aligned(p) /\ tx = TxAt(p, n)
    BY <2>1, <2>2
  <2> HIDE DEF p, tx
  <2>4. /\ TxLength(tx) = n /\ TxBytes(tx) = n * Quantum /\ n * Quantum \in 0..QueueSize
        /\ \A j \in 0..(n * Quantum - 1) : /\ TxAddress(tx, j) = (p + j) % QueueSize
                                          /\ TxAddress(tx, j) \in Offsets
    BY <2>3, TxAtCovers
  <2> QED
    BY <2>4 DEF p, tx
<1> QED
  BY <1>1, <1>2 DEF TypeOK

\* Committing n messages commits at most the bytes of the transaction.
LEMMA CommitFits ==
    ASSUME NEW n \in Counts, NEW l \in Nat, n <= l, l * Quantum <= QueueSize
    PROVE  Bytes(n) \in 0..(l * Quantum)
<1>1. (l - n) * Quantum >= 0 /\ n * Quantum \in Nat
  BY Constants
<1>2. Bytes(n) <= l * Quantum
  BY Constants, <1>1
<1> QED
  BY Constants, <1>2

\* The backlog is a number below CounterMod.
LEMMA BacklogType ==
    ASSUME TypeOK, NEW r \in Readers
    PROVE  Backlog(r) \in 0..(CounterMod - 1)
  BY CounterArithmetic, Constants, 0 \in Nat DEF TypeOK, Backlog, AvailableToReadBytes

-----------------------------------------------------------------------------
LEMMA TypeInit == Init => TypeInv
<1> SUFFICES ASSUME Init PROVE TypeInv
  OBVIOUS
<1>1. TypeOK
  <2>1. 0 \in 0..(CounterMod - 1) /\ 0 \in 0..QueueSize
    BY Constants
  <2>2. PICK zero \in Values : ring = [a \in Offsets |-> zero] /\ recent = ring
    BY DEF Init
  <2>3. ring \in [Offsets -> Values] /\ recent \in [Offsets -> Values]
    BY <2>2
  <2> QED
    BY <2>1, <2>3, Constants, NullTxCovers DEF Init, TypeOK
<1> QED
  BY <1>1 DEF Init, TypeInv, WriterTx, ReaderTx

LEMMA TypeNext == TypeInv /\ [Next]_vars => TypeInv'
<1> SUFFICES ASSUME TypeInv, [Next]_vars PROVE TypeInv'
  OBVIOUS
<1> USE Constants DEF TypeInv
<1>u. CASE UNCHANGED vars
  BY <1>u DEF vars, shared, writer, reader, history, TypeOK, WriterTx, ReaderTx
<1>1. ASSUME NEW n \in Counts, BeginWrite(n) PROVE TypeInv'
  <2>1. n \in 0..QuantumCount /\ Aligned(writePtr) /\ writePtr \in Nat
    BY <1>1 DEF BeginWrite, WriteRefused, TypeOK
  <2>2. TxAt(writePtr, n) \in Transactions
    BY <2>1, TxAtCovers
  <2> QED
    BY <1>1, <2>1, <2>2 DEF BeginWrite, TypeOK, WriterTx, ReaderTx,
                            shared, reader, history
<1>2. ASSUME NEW n \in Counts, CommitWrite(n) PROVE TypeInv'
  <2>1. TxLength(wtx) \in Nat /\ TxLength(wtx) * Quantum <= QueueSize
    BY WriterCovers
  <2>2. Bytes(n) \in 0..QueueSize
    BY <1>2, <2>1, CommitFits DEF Filled, CommitWrite, Commits
  <2>3. CounterAdd(writePtr, Bytes(n)) \in 0..(CounterMod - 1)
    BY <2>2, CounterArithmetic DEF TypeOK
  <2>4. recent' \in [Offsets -> Values]
    <3>1. ASSUME NEW a \in Offsets
          PROVE  (IF a < Bytes(n) THEN wdata[Bytes(n) - 1 - a]
                                  ELSE recent[a - Bytes(n)]) \in Values
      <4>1. CASE a < Bytes(n)
        <5>1. Bytes(n) - 1 - a \in 0..(Bytes(n) - 1) /\ Bytes(n) - 1 - a \in Offsets
          BY <2>2, <4>1 DEF Offsets
        <5>2. wdata[Bytes(n) - 1 - a] # None
          BY <1>2, <5>1 DEF Filled, CommitWrite, Commits
        <5> QED
          BY <4>1, <5>1, <5>2 DEF TypeOK
      <4>2. CASE ~(a < Bytes(n))
        <5>1. a - Bytes(n) \in Offsets
          BY <2>2, <4>2 DEF Offsets
        <5> QED
          BY <4>2, <5>1 DEF TypeOK
      <4> QED
        BY <4>1, <4>2
    <3> QED
      BY <1>2, <3>1 DEF CommitWrite, Commits
  <2>5. scribbled' \in 0..QueueSize /\ wrapped' \in BOOLEAN
    BY <1>2, <2>2 DEF CommitWrite, Commits, TypeOK
  <2> QED
    BY <1>2, <2>3, <2>4, <2>5, NullTxCovers
       DEF CommitWrite, Commits, TypeOK, WriterTx, ReaderTx, reader
<1>3. ASSUME NEW j \in Offsets, CopyTo(j) PROVE TypeInv'
  <2>1. PICK v \in Values : /\ ring' = [ring EXCEPT ![TxAddress(wtx, j)] = v]
                            /\ wdata' = [wdata EXCEPT ![j] = v]
    BY <1>3 DEF CopyTo
  <2>2. ring' \in [Offsets -> Values] /\ wdata' \in [Offsets -> Values \cup {None}]
    BY <2>1 DEF TypeOK
  <2>3. scribbled' \in 0..QueueSize
    BY <1>3 DEF CopyTo, TypeOK, Offsets
  <2> QED
    BY <1>3, <2>2, <2>3 DEF CopyTo, TypeOK, WriterTx, ReaderTx, reader
<1>4. CASE DropWrite
  BY <1>4, NullTxCovers DEF DropWrite, TypeOK, WriterTx, ReaderTx,
                            shared, reader, history
<1>5. ASSUME NEW r \in Readers, ReaderNext(r) PROVE TypeInv'
  <2>1. ASSUME NEW n \in Counts, BeginRead(r, n) PROVE TypeInv'
    <3>1. n \in Nat /\ n * Quantum <= QueueSize
      BY <2>1, BacklogType DEF BeginRead, Overflow
    <3>a. n \in 0..QuantumCount
      BY <3>1, QuantumCountBytes
    <3>b. Aligned(readPtr[r]) /\ readPtr[r] \in 0..(CounterMod - 1)
      BY <2>1 DEF BeginRead, ReadersAligned, TypeOK
    <3>2. n \in 0..QuantumCount /\ Aligned(readPtr[r]) /\ readPtr[r] \in Nat
      BY <3>a, <3>b
    <3>3. TxAt(readPtr[r], n) \in Transactions
      BY <3>2, TxAtCovers
    <3> QED
      BY <2>1, <3>2, <3>3 DEF BeginRead, TypeOK, WriterTx, ReaderTx,
                              shared, writer, history
  <2>2. CASE BeginReadOverflow(r)
    BY <2>2 DEF BeginReadOverflow, TypeOK, WriterTx, ReaderTx,
                writer, reader, history
  <2>3. ASSUME NEW j \in Offsets, CopyFrom(r, j) PROVE TypeInv'
    <3>1. TxAddress(rtx[r], j) \in Offsets
      BY <2>3, ReaderCovers DEF CopyFrom, Offsets
    <3> QED
      BY <2>3, <3>1 DEF CopyFrom, TypeOK, WriterTx, ReaderTx,
                        shared, writer, history
  <2>4. ASSUME NEW n \in Counts, CommitRead(r, n) PROVE TypeInv'
    <3>1. CounterAdd(readPtr[r], Bytes(n)) \in 0..(CounterMod - 1)
      BY CounterArithmetic DEF TypeOK
    <3> QED
      BY <2>4, <3>1, NullTxCovers
         DEF CommitRead, ReaderDone, TypeOK, WriterTx, ReaderTx, writer
  <2>5. CASE CommitReadOverflow(r)
    BY <2>5, NullTxCovers DEF CommitReadOverflow, ReaderDone, TypeOK, WriterTx,
                              ReaderTx, writer, history
  <2>6. CASE DropRead(r)
    BY <2>6, NullTxCovers DEF DropRead, ReaderDone, TypeOK, WriterTx, ReaderTx,
                              shared, writer, history
  <2>7. CASE ReattachReader(r)
    BY <2>7, NullTxCovers DEF ReattachReader, ReaderDone, TypeOK, WriterTx,
                              ReaderTx, writer, history
  <2> QED
    BY <1>5, <1>u, <2>1, <2>2, <2>3, <2>4, <2>5, <2>6, <2>7
       DEF ReaderNext, BeginReadFails
<1> QED
  BY <1>u, <1>1, <1>2, <1>3, <1>4, <1>5 DEF Next, WriterNext, BeginWriteFails

\* Every variable keeps the range of the object it stands for, and the open
\* transactions stay those of the counters, in both flavors.
THEOREM TypeCorrect == Spec => []TypeOK
<1>1. Spec => []TypeInv
  BY TypeInit, TypeNext, PTL DEF Spec
<1> QED
  BY <1>1, PTL DEF TypeInv
-----------------------------------------------------------------------------
\* The inductive invariant behind the safety properties.

\* The synchronized writer scribbles only over free space.
SyncRoom ==
    Synchronized => \A r \in Readers : Backlog(r) + scribbled <= QueueSize

\* Before any counter wraps, no reader's counter is ahead of the writer's.
ReaderOrder == ~wrapped => \A r \in Readers : readPtr[r] <= writePtr

\* What the writer has copied into its open transaction is in the ring.
FilledInRing ==
    \A j \in 0..(TxBytes(wtx) - 1) :
        wdata[j] # None => ring[(writePtr + j) % QueueSize] = wdata[j]

SafeInv == /\ TypeInv
           /\ GrantsHold
           /\ SyncRoom
           /\ ReaderOrder
           /\ FilledInRing
           /\ RecentInRing
           /\ CopiesAreExact

\* Consequences of the type invariant that every step below uses.
LEMMA Ranges ==
    ASSUME TypeInv
    PROVE  /\ writePtr \in 0..(CounterMod - 1)
           /\ scribbled \in 0..QueueSize
           /\ TxBytes(wtx) \in 0..QueueSize
           /\ \A r \in Readers : /\ readPtr[r] \in 0..(CounterMod - 1)
                                 /\ Backlog(r) \in 0..(CounterMod - 1)
                                 /\ TxBytes(rtx[r]) \in 0..QueueSize
  BY WriterCovers, ReaderCovers, BacklogType DEF TypeInv, TypeOK

LEMMA SafeInit == Init => SafeInv
<1> SUFFICES ASSUME Init PROVE SafeInv
  OBVIOUS
<1> USE Constants
<1>1. TypeInv
  BY TypeInit
<1>2. PICK zero \in Values : ring = [a \in Offsets |-> zero] /\ recent = ring
  BY DEF Init
<1>3. ASSUME NEW r \in Readers PROVE Backlog(r) = 0
  BY CounterArithmetic, 0 \in 0..(CounterMod - 1), 0 \in Nat
     DEF Init, Backlog, AvailableToReadBytes
<1>4. GrantsHold /\ SyncRoom /\ ReaderOrder /\ FilledInRing /\ CopiesAreExact
  BY <1>3, NullTxCovers
     DEF Init, GrantsHold, SyncRoom, ReaderOrder, FilledInRing, CopiesAreExact
<1>5. RecentInRing
  <2>1. ASSUME NEW a \in Offsets
        PROVE  (writePtr + (QueueSize - 1) - a) % QueueSize \in Offsets
    BY DivMod, writePtr + (QueueSize - 1) - a \in Int DEF Init, Offsets
  <2> QED
    BY <1>2, <2>1 DEF RecentInRing
<1> QED
  BY <1>1, <1>4, <1>5 DEF SafeInv

LEMMA SafeBeginWrite ==
    ASSUME SafeInv, TypeInv', NEW n \in Counts, BeginWrite(n)
    PROVE  SafeInv'
<1> USE Constants DEF BeginWrite, shared, reader, history
<1>1. n \in 0..QuantumCount /\ Aligned(writePtr) /\ writePtr \in Nat
  BY DEF WriteRefused, SafeInv, TypeInv, TypeOK
<1>2. TxBytes(wtx') = n * Quantum /\ n * Quantum \in 0..QueueSize
  BY <1>1, TxAtCovers
<1>3. \A r \in Readers : Backlog(r)' = Backlog(r)
  BY DEF Backlog
<1>4. ASSUME Synchronized, NEW r \in Readers
      PROVE  Backlog(r) + n * Quantum <= QueueSize
  <2>1. Backlog(r) \in 0..QueueSize
    BY <1>4, Ranges DEF SafeInv, GrantsHold
  <2>2. CounterSub(QueueSize, Backlog(r)) = QueueSize - Backlog(r)
    BY <2>1, CounterArithmetic, QueueSize \in 0..(CounterMod - 1),
       Backlog(r) \in 0..(CounterMod - 1), 0 \in Nat
  <2>3. AvailableToWrite(writePtr, readPtr[r]) = (QueueSize - Backlog(r)) \div Quantum
    BY <2>2 DEF AvailableToWrite, AvailableToWriteBytes, Backlog
  <2>4. (QueueSize - Backlog(r)) \div Quantum \in Int
    BY <2>1, DivMod, QueueSize - Backlog(r) \in Int
  <2>5. n <= (QueueSize - Backlog(r)) \div Quantum
    BY <1>4, <2>3, <2>4 DEF WriteRefused
  <2> DEFINE room == QueueSize - Backlog(r)
  <2>6. room \in Nat /\ Backlog(r) + room = QueueSize /\ Backlog(r) \in Nat
    BY <2>1
  <2>7. n \in Nat /\ n <= room \div Quantum
    BY <1>1, <2>5
  <2> HIDE DEF room
  <2>8. n * Quantum <= room
    BY <2>6, <2>7, FitsInBytes
  <2> QED
    BY <1>2, <2>6, <2>8
<1>5. GrantsHold'
  BY <1>2, <1>3, <1>4 DEF SafeInv, GrantsHold, Synchronized
<1>6. FilledInRing'
  <2>1. wdata' = Blank
    BY DEF SafeInv, TypeInv, WriterTx
  <2> QED
    BY <1>2, <2>1 DEF FilledInRing, Blank, Offsets
<1> QED
  BY <1>3, <1>5, <1>6
     DEF SafeInv, SyncRoom, ReaderOrder, RecentInRing, CopiesAreExact,
         OffsetsValid, Synchronized, Intact

LEMMA SafeCopyTo ==
    ASSUME SafeInv, TypeInv', NEW j \in Offsets, CopyTo(j)
    PROVE  SafeInv'
<1> USE Constants DEF CopyTo, reader
<1>0. TypeInv /\ TypeOK /\ WriterTx
  BY DEF SafeInv, TypeInv
<1>1. PICK v \in Values : /\ ring' = [ring EXCEPT ![(writePtr + j) % QueueSize] = v]
                          /\ wdata' = [wdata EXCEPT ![j] = v]
                          /\ (writePtr + j) % QueueSize \in Offsets
  <2>1. TxAddress(wtx, j) = (writePtr + j) % QueueSize /\ TxAddress(wtx, j) \in Offsets
    BY <1>0, WriterCovers DEF Offsets
  <2> HIDE DEF Offsets
  <2> QED
    BY <2>1
<1>2. j \in 0..(TxBytes(wtx) - 1) /\ TxBytes(wtx) \in 0..QueueSize
      /\ writePtr \in Nat /\ scribbled \in Nat
  BY <1>0, Ranges DEF Offsets
<1>3. scribbled' \in Nat /\ scribbled <= scribbled' /\ j + 1 <= scribbled'
      /\ (scribbled' = scribbled \/ scribbled' = j + 1)
  BY <1>2
<1>4. \A r \in Readers : Backlog(r)' = Backlog(r) /\ Backlog(r) \in Nat
  BY <1>0, Ranges DEF Backlog
<1>5. SyncRoom'
  BY <1>2, <1>3, <1>4 DEF SafeInv, SyncRoom, GrantsHold, Synchronized
<1>6. FilledInRing'
  <2>1. ASSUME NEW k \in 0..(TxBytes(wtx) - 1), wdata'[k] # None
        PROVE  ring'[(writePtr + k) % QueueSize] = wdata'[k]
    <3>1. CASE k = j
      BY <1>0, <1>1, <1>2, <3>1 DEF TypeOK, Offsets
    <3>2. CASE k # j
      <4>1. (writePtr + k) % QueueSize # (writePtr + j) % QueueSize
        <5>1. CASE k > j
          BY <1>2, <5>1, ModDistinct, writePtr + k \in Int, writePtr + j \in Int,
             0 < (writePtr + k) - (writePtr + j),
             (writePtr + k) - (writePtr + j) < QueueSize
        <5>2. CASE j > k
          BY <1>2, <5>2, ModDistinct, writePtr + k \in Int, writePtr + j \in Int,
             0 < (writePtr + j) - (writePtr + k),
             (writePtr + j) - (writePtr + k) < QueueSize
        <5> QED
          BY <1>2, <3>2, <5>1, <5>2
      <4>2. wdata'[k] = wdata[k]
        BY <1>0, <1>1, <3>2 DEF TypeOK
      <4>3. ring'[(writePtr + k) % QueueSize] = ring[(writePtr + k) % QueueSize]
        <5>1. (writePtr + k) % QueueSize \in Offsets
          BY <1>2, DivMod, writePtr + k \in Int DEF Offsets
        <5> QED
          BY <1>0, <1>1, <4>1, <5>1 DEF TypeOK
      <4> QED
        BY <2>1, <4>2, <4>3 DEF SafeInv, FilledInRing
    <3> QED
      BY <3>1, <3>2
  <2> QED
    BY <2>1 DEF FilledInRing
<1>7. RecentInRing'
  <2>1. ASSUME OffsetsValid, NEW a \in Offsets, a + scribbled' < QueueSize
        PROVE  ring'[(writePtr + (QueueSize - 1) - a) % QueueSize] = recent[a]
    <3> DEFINE x == writePtr + (QueueSize - 1) - a
               y == writePtr + j
    <3>1. x \in Int /\ y \in Int /\ 0 < x - y /\ x - y < QueueSize
      BY <1>2, <1>3, <2>1 DEF Offsets
    <3>2. x % QueueSize # y % QueueSize
      BY <3>1, ModDistinct
    <3>3. x % QueueSize \in Offsets
      BY <3>1, DivMod DEF Offsets
    <3>4. ring'[x % QueueSize] = ring[x % QueueSize]
      BY <1>0, <1>1, <3>2, <3>3 DEF TypeOK
    <3>5. a + scribbled < QueueSize
      BY <1>2, <1>3, <2>1 DEF Offsets
    <3> QED
      BY <2>1, <3>4, <3>5 DEF SafeInv, RecentInRing
  <2> QED
    BY <2>1 DEF RecentInRing, OffsetsValid
<1>8. CopiesAreExact'
  <2>1. \A r \in Readers, k \in Int : Intact(r, k)' => Intact(r, k)
    BY <1>2, <1>3, <1>4 DEF Intact
  <2>2. ASSUME NEW r \in Readers PROVE TxBytes(rtx[r]) \in Int
    BY <1>0, Ranges
  <2> QED
    BY <1>4, <2>1, <2>2 DEF SafeInv, CopiesAreExact, OffsetsValid
<1> QED
  BY <1>4, <1>5, <1>6, <1>7, <1>8 DEF SafeInv, GrantsHold, ReaderOrder, Synchronized

LEMMA SafeCommitWrite ==
    ASSUME SafeInv, TypeInv', NEW n \in Counts, CommitWrite(n)
    PROVE  SafeInv'
<1> USE Constants DEF Filled, CommitWrite, Commits, reader
<1> DEFINE b == Bytes(n)
<1>0. TypeInv /\ TypeOK /\ WriterTx
  BY DEF SafeInv, TypeInv
<1>1. b \in 0..TxBytes(wtx) /\ TxBytes(wtx) \in 0..QueueSize /\ b \in 0..QueueSize
  <2>1. TxLength(wtx) \in Nat /\ TxBytes(wtx) = TxLength(wtx) * Quantum
        /\ TxBytes(wtx) \in 0..QueueSize
    BY <1>0, WriterCovers
  <2>2. b \in 0..TxBytes(wtx)
    BY <2>1, CommitFits
  <2> QED
    BY <2>1, <2>2
<1>2. /\ writePtr' = CounterAdd(writePtr, b)
      /\ recent' = [a \in Offsets |-> IF a < b THEN wdata[b - 1 - a] ELSE recent[a - b]]
      /\ scribbled' = IF scribbled > b THEN scribbled - b ELSE 0
      /\ wrapped' = (wrapped \/ writePtr + b >= CounterMod)
      /\ \A j \in 0..(b - 1) : wdata[j] # None
      /\ \A r \in Readers : Backlog(r) + b < CounterMod
  BY DEF NoReaderLapped
<1>3. writePtr \in 0..(CounterMod - 1) /\ scribbled \in 0..QueueSize /\ b \in Nat
      /\ scribbled' \in 0..QueueSize
  BY <1>0, <1>1, <1>2, Ranges
<1>s. /\ scribbled' \in Nat /\ scribbled' + b >= scribbled
      /\ scribbled' = 0 \/ scribbled' + b = scribbled
  BY <1>2, <1>3
<1>4. TxBytes(wtx') = 0
  BY NullTxCovers
<1>w. /\ writePtr' = CounterAdd(writePtr, b)
      /\ wrapped' = (wrapped \/ writePtr + b >= CounterMod)
  BY <1>2
<1> HIDE DEF b
<1>x. ~wrapped' => ~wrapped /\ ~(writePtr + b >= CounterMod)
  BY <1>w, Zenon
<1>n. writePtr + b < CounterMod => writePtr' = writePtr + b
  <2>1. 0 \in 0..(CounterMod - 1)
    OBVIOUS
  <2>2. writePtr + b < CounterMod => CounterAdd(writePtr, b) = writePtr + b
    BY <1>3, <2>1, CounterArithmetic
  <2> QED
    BY <1>w, <2>2
<1>5. ASSUME NEW r \in Readers
      PROVE  /\ Backlog(r)' = Backlog(r) + b
             /\ Backlog(r) \in 0..(CounterMod - 1)
             /\ TxBytes(rtx[r]) \in 0..QueueSize
  <2>1. readPtr[r] \in 0..(CounterMod - 1) /\ Backlog(r) \in 0..(CounterMod - 1)
        /\ TxBytes(rtx[r]) \in 0..QueueSize
    BY <1>0, Ranges
  <2>2. CounterSub(CounterAdd(writePtr, b), readPtr[r]) =
          CounterSub(writePtr, readPtr[r]) + b
    <3> DEFINE q == readPtr[r]
    <3>1. q \in 0..(CounterMod - 1) /\ CounterSub(writePtr, q) + b < CounterMod
      BY <1>2, <2>1 DEF Backlog, AvailableToReadBytes
    <3> HIDE DEF q
    <3>2. CounterSub(CounterAdd(writePtr, b), q) = CounterSub(writePtr, q) + b
      BY <1>3, <3>1, CounterArithmetic
    <3> QED
      BY <3>2 DEF q
  <2> QED
    BY <1>2, <2>1, <2>2 DEF Backlog, AvailableToReadBytes
<1>6. GrantsHold'
  <2>1. ASSUME NEW r \in Readers
        PROVE  /\ TxBytes(rtx[r]) <= Backlog(r)'
               /\ Synchronized => Backlog(r)' <= QueueSize
    BY <1>1, <1>5 DEF SafeInv, GrantsHold
  <2>2. ASSUME NEW r \in Readers
        PROVE  TxBytes(rtx[r]) <= QueueSize /\ Backlog(r)' + 0 = Backlog(r)'
    BY <1>3, <1>5
  <2> QED
    BY <1>4, <2>1, <2>2 DEF GrantsHold, Synchronized
<1>7. SyncRoom'
  <2>1. ASSUME Synchronized, NEW r \in Readers
        PROVE  Backlog(r)' + scribbled' <= QueueSize
    <3>1. Backlog(r) + scribbled <= QueueSize /\ Backlog(r) + b <= QueueSize
      BY <1>1, <1>5, <2>1 DEF SafeInv, SyncRoom, GrantsHold
    <3>2. Backlog(r) \in Int /\ Backlog(r)' = Backlog(r) + b
      BY <1>5
    <3> QED
      BY <1>3, <1>s, <3>1, <3>2
  <2> QED
    BY <2>1 DEF SyncRoom, Synchronized
<1>8. ReaderOrder'
  <2>1. ASSUME ~wrapped', NEW r \in Readers PROVE readPtr[r] <= writePtr'
    <3>1. ~wrapped /\ writePtr + b < CounterMod
      BY <1>x, <1>3, <2>1
    <3>2. readPtr[r] <= writePtr /\ readPtr[r] \in 0..(CounterMod - 1)
      BY <1>0, <3>1, Ranges DEF SafeInv, ReaderOrder
    <3> QED
      BY <1>3, <1>n, <3>1, <3>2
  <2> QED
    BY <2>1 DEF ReaderOrder
<1>9. FilledInRing'
  BY <1>4 DEF FilledInRing
<1>o. ASSUME OffsetsValid', NEW k \in Int
      PROVE  (writePtr' + k) % QueueSize = ((writePtr + b) + k) % QueueSize
  <2>1. CounterMod % QueueSize = 0 \/ writePtr + b < CounterMod
    BY <1>x, <1>3, <1>o DEF OffsetsValid
  <2>2. (CounterAdd(writePtr, b) + k) % QueueSize = ((writePtr + b) + k) % QueueSize
    BY <1>3, <2>1, AddedOffset
  <2> QED
    BY <1>w, <2>2
<1>v. OffsetsValid' => OffsetsValid
  BY <1>2 DEF OffsetsValid
<1>10. RecentInRing'
  <2>1. ASSUME OffsetsValid', NEW a \in Offsets, a + scribbled' < QueueSize
        PROVE  ring[(writePtr' + (QueueSize - 1) - a) % QueueSize] = recent'[a]
    <3>1. a \in 0..(QueueSize - 1)
      BY DEF Offsets
    <3>2. (writePtr' + (QueueSize - 1) - a) % QueueSize =
             ((writePtr + b) + ((QueueSize - 1) - a)) % QueueSize
      <4> DEFINE k == (QueueSize - 1) - a
      <4>1. k \in Int
        BY <3>1
      <4> HIDE DEF k
      <4>2. (writePtr' + k) % QueueSize = ((writePtr + b) + k) % QueueSize
        BY <1>o, <2>1, <4>1
      <4>3. writePtr' \in Int
        BY Ranges DEF TypeInv, TypeOK
      <4>4. writePtr' + (QueueSize - 1) - a = writePtr' + k
        BY <3>1, <4>3 DEF k
      <4> QED
        BY <4>2, <4>4 DEF k
    <3>3. CASE a < b
      <4> DEFINE j == b - 1 - a
      <4>1. j \in 0..(b - 1) /\ j \in 0..(TxBytes(wtx) - 1)
        BY <1>1, <3>1, <3>3
      <4>2. recent'[a] = wdata[j] /\ wdata[j] # None
        BY <1>2, <3>3, <4>1
      <4>3. (writePtr + b) + ((QueueSize - 1) - a) = (writePtr + j) + QueueSize * 1
        BY <1>1, <1>3, <3>1
      <4>4. ((writePtr + j) + QueueSize * 1) % QueueSize = (writePtr + j) % QueueSize
        <5> DEFINE x == writePtr + j
        <5>1. x \in Int /\ 1 \in Int
          BY <1>1, <1>3, <3>1
        <5> HIDE DEF x
        <5>2. (x + QueueSize * 1) % QueueSize = x % QueueSize
          BY <5>1, ModShift
        <5> QED
          BY <5>2 DEF x
      <4> HIDE DEF j
      <4>5. ring[(writePtr + j) % QueueSize] = wdata[j]
        BY <4>1, <4>2 DEF SafeInv, FilledInRing
      <4> QED
        BY <3>2, <4>2, <4>3, <4>4, <4>5
    <3>4. CASE ~(a < b)
      <4> DEFINE c == a - b
      <4>1. c \in Offsets /\ c + scribbled < QueueSize
        BY <1>1, <1>3, <1>s, <2>1, <3>1, <3>4 DEF Offsets
      <4>2. recent'[a] = recent[c]
        BY <1>2, <3>4
      <4>3. (writePtr + b) + ((QueueSize - 1) - a) = writePtr + (QueueSize - 1) - c
        BY <1>1, <1>3, <3>1
      <4> HIDE DEF c
      <4>4. ring[(writePtr + (QueueSize - 1) - c) % QueueSize] = recent[c]
        BY <1>v, <2>1, <4>1 DEF SafeInv, RecentInRing
      <4> QED
        BY <3>2, <4>2, <4>3, <4>4
    <3> QED
      BY <3>3, <3>4
  <2> QED
    BY <2>1 DEF RecentInRing
<1>11. CopiesAreExact'
  <2>1. ASSUME OffsetsValid', NEW r \in Readers, NEW j \in 0..(TxBytes(rtx[r]) - 1),
               rdata[r][j] # None, Intact(r, j)'
        PROVE  rdata[r][j] = recent'[Backlog(r)' - 1 - j]
    <3>1. j \in Nat /\ j + 1 <= Backlog(r)
      BY <1>5 DEF SafeInv, GrantsHold
    <3>2. Backlog(r) + b + scribbled' <= j + QueueSize
      BY <1>5, <2>1 DEF Intact
    <3>b. Backlog(r) \in Nat
      BY <1>5
    <3>i. /\ scribbled \in Nat /\ scribbled' \in Nat /\ b \in Nat
          /\ QueueSize \in Nat /\ scribbled' + b >= scribbled
      BY <1>3, <1>s
    <3>c. Backlog(r) + scribbled <= j + QueueSize
      <4> DEFINE l == Backlog(r)
      <4>1. l \in Nat /\ l + b + scribbled' <= j + QueueSize /\ j \in Nat
        BY <3>b, <3>1, <3>2
      <4> HIDE Constants
      <4> HIDE DEF l
      <4>2. l + scribbled <= j + QueueSize
        BY <3>i, <4>1
      <4> QED
        BY <4>2 DEF l
    <3>3. Intact(r, j)
      BY <3>c DEF Intact
    <3>4. rdata[r][j] = recent[Backlog(r) - 1 - j]
      BY <1>v, <2>1, <3>3 DEF SafeInv, CopiesAreExact
    <3> DEFINE a == (Backlog(r) + b) - 1 - j
    <3>5. a \in Offsets /\ ~(a < b) /\ a - b = Backlog(r) - 1 - j
      <4> DEFINE l == Backlog(r)
      <4>1. l \in Nat /\ l + b + scribbled' <= j + QueueSize /\ j \in Nat /\ j + 1 <= l
        BY <3>b, <3>1, <3>2
      <4> HIDE Constants
      <4> HIDE DEF l
      <4>2. (l + b) - 1 - j \in Offsets /\ ~((l + b) - 1 - j < b)
            /\ ((l + b) - 1 - j) - b = l - 1 - j
        BY <3>i, <4>1 DEF Offsets
      <4> QED
        BY <4>2 DEF l
    <3>6. Backlog(r)' - 1 - j = a
      BY <1>5
    <3> HIDE DEF a
    <3>7. recent'[a] = recent[a - b]
      BY <1>2, <3>5
    <3> QED
      BY <3>4, <3>5, <3>6, <3>7
  <2> QED
    BY <2>1 DEF CopiesAreExact
<1> QED
  BY <1>6, <1>7, <1>8, <1>9, <1>10, <1>11 DEF SafeInv

LEMMA SafeDropWrite ==
    ASSUME SafeInv, TypeInv', DropWrite
    PROVE  SafeInv'
<1> USE Constants DEF DropWrite, shared, reader, history
<1>1. \A r \in Readers : Backlog(r)' = Backlog(r) /\ Backlog(r) \in Nat
  BY Ranges DEF Backlog, SafeInv
<1>2. TxBytes(wtx') = 0 /\ TxBytes(wtx) \in Nat
  BY NullTxCovers, Ranges DEF SafeInv
<1>3. GrantsHold'
  BY <1>1, <1>2 DEF SafeInv, GrantsHold, Synchronized
<1> QED
  BY <1>1, <1>2, <1>3
     DEF SafeInv, SyncRoom, ReaderOrder, FilledInRing, RecentInRing, CopiesAreExact,
         OffsetsValid, Synchronized, Intact

-----------------------------------------------------------------------------
\* The readers' steps.

\* A step of reader r that moves no counter but readPtr[r], to q, leaves the
\* invariant in place when it stays behind writePtr and keeps what it copied.
LEMMA SafeReaderStep ==
    ASSUME SafeInv, TypeInv', NEW r \in Readers,
           UNCHANGED <<writePtr, ring, writer, recent, scribbled>>,
           wrapped => wrapped',
           \A s \in Readers \ {r} : /\ readPtr'[s] = readPtr[s]
                                    /\ rtx'[s] = rtx[s] /\ rdata'[s] = rdata[s],
           ~wrapped' => readPtr'[r] <= writePtr,
           Synchronized => Backlog(r)' <= Backlog(r),
           TxBytes(rtx[r])' \in 0..QueueSize, TxBytes(rtx[r])' <= Backlog(r)',
           \A j \in 0..(TxBytes(rtx[r])' - 1) :
               OffsetsValid' /\ rdata'[r][j] # None /\ Intact(r, j)' =>
                   rdata'[r][j] = recent[Backlog(r)' - 1 - j]
    PROVE  SafeInv'
<1> USE DEF writer
<1>1. \A s \in Readers \ {r} : Backlog(s)' = Backlog(s)
  BY DEF Backlog
<1>2. \A s \in Readers : /\ Backlog(s) \in Nat /\ Backlog(s)' \in Nat
                        /\ TxBytes(rtx[s])' \in 0..QueueSize
  <2>1. ASSUME NEW s \in Readers PROVE Backlog(s) \in Nat /\ Backlog(s)' \in Nat
    <3> DEFINE q == readPtr'[s]
    <3>1. writePtr \in 0..(CounterMod - 1) /\ q \in 0..(CounterMod - 1)
      BY DEF TypeInv, TypeOK
    <3> HIDE DEF q
    <3>2. CounterSub(writePtr, q) \in 0..(CounterMod - 1)
      BY <3>1, CounterArithmetic, 0 \in Nat
    <3>3. Backlog(s)' = CounterSub(writePtr, q)
      BY DEF Backlog, AvailableToReadBytes, q
    <3>4. Backlog(s) \in 0..(CounterMod - 1)
      BY Ranges DEF SafeInv
    <3> QED
      BY <3>2, <3>3, <3>4
  <2>2. ASSUME NEW s \in Readers PROVE TxBytes(rtx[s])' \in 0..QueueSize
    <3>1. CASE s = r
      BY <3>1
    <3>2. CASE s # r
      <4>1. TxBytes(rtx[s])' = TxBytes(rtx[s])
        BY <3>2
      <4> QED
        BY <4>1, Ranges DEF SafeInv
    <3> QED
      BY <3>1, <3>2
  <2> QED
    BY <2>1, <2>2
<1>3. /\ TxBytes(wtx) \in 0..QueueSize /\ TxBytes(wtx)' = TxBytes(wtx)
      /\ scribbled \in Nat /\ QueueSize \in Nat
  BY Ranges, Constants DEF SafeInv
<1>4. GrantsHold'
  <2>1. ASSUME NEW s \in Readers
        PROVE  /\ TxBytes(rtx[s])' <= QueueSize
               /\ TxBytes(rtx[s])' <= Backlog(s)'
               /\ Synchronized => Backlog(s)' + TxBytes(wtx) <= QueueSize
    <3>1. TxBytes(rtx[s])' <= QueueSize
      BY <1>2, <1>3
    <3>2. CASE s = r
      <4>1. Synchronized => Backlog(r) + TxBytes(wtx) <= QueueSize
        BY DEF SafeInv, GrantsHold
      <4> QED
        BY <1>2, <1>3, <3>1, <3>2, <4>1
    <3>3. CASE s # r
      <4>1. TxBytes(rtx[s])' = TxBytes(rtx[s])
        BY <3>3
      <4> QED
        BY <1>1, <3>1, <3>3, <4>1 DEF SafeInv, GrantsHold
    <3> QED
      BY <3>2, <3>3
  <2> QED
    BY <1>3, <2>1 DEF GrantsHold, Synchronized
<1>5. SyncRoom'
  <2>1. ASSUME Synchronized, NEW s \in Readers
        PROVE  Backlog(s)' + scribbled <= QueueSize
    <3>1. Backlog(s) + scribbled <= QueueSize /\ Backlog(s)' <= Backlog(s)
      BY <1>1, <1>2, <2>1 DEF SafeInv, SyncRoom
    <3> QED
      BY <1>2, <1>3, <3>1
  <2> QED
    BY <2>1 DEF SyncRoom, Synchronized
<1>6. ReaderOrder'
  BY DEF SafeInv, ReaderOrder
<1>7. FilledInRing' /\ RecentInRing'
  BY <1>3 DEF SafeInv, FilledInRing, RecentInRing, OffsetsValid
<1>8. CopiesAreExact'
  <2>1. ASSUME OffsetsValid', NEW s \in Readers, s # r
        PROVE  \A j \in 0..(TxBytes(rtx[s])' - 1) :
                  rdata'[s][j] # None /\ Intact(s, j)' =>
                      rdata'[s][j] = recent[Backlog(s)' - 1 - j]
    <3>1. TxBytes(rtx[s])' = TxBytes(rtx[s]) /\ rdata'[s] = rdata[s]
      BY <2>1
    <3>2. \A j \in Int : Intact(s, j)' => Intact(s, j)
      BY <1>1, <2>1 DEF Intact
    <3>3. OffsetsValid
      BY <2>1 DEF OffsetsValid
    <3>4. TxBytes(rtx[s]) \in Int
      BY <1>2, <3>1
    <3> QED
      BY <1>1, <2>1, <3>1, <3>2, <3>3, <3>4 DEF SafeInv, CopiesAreExact
  <2> QED
    BY <2>1 DEF CopiesAreExact
<1> QED
  BY <1>4, <1>5, <1>6, <1>7, <1>8 DEF SafeInv

\* The offset of byte i of reader r's backlog, seen from writePtr.
LEMMA BacklogOffset ==
    ASSUME SafeInv, OffsetsValid, NEW r \in Readers, NEW i \in Int
    PROVE  (readPtr[r] + i) % QueueSize = ((writePtr - Backlog(r)) + i) % QueueSize
<1> DEFINE q == readPtr[r]
<1>1. writePtr \in 0..(CounterMod - 1) /\ q \in 0..(CounterMod - 1)
  BY Ranges DEF SafeInv
<1>2. CounterMod % QueueSize = 0 \/ q <= writePtr
  BY DEF OffsetsValid, SafeInv, ReaderOrder
<1>3. Backlog(r) = CounterSub(writePtr, q)
  BY DEF Backlog, AvailableToReadBytes
<1> HIDE DEF q
<1>4. (q + i) % QueueSize = ((writePtr - CounterSub(writePtr, q)) + i) % QueueSize
  BY <1>1, <1>2, BehindOffset
<1> QED
  BY <1>3, <1>4 DEF q

\* An intact byte of a backlog is in the ring, where the reader looks for it.
LEMMA BacklogInRing ==
    ASSUME SafeInv, OffsetsValid, NEW r \in Readers, NEW i \in Nat,
           i < Backlog(r), Intact(r, i)
    PROVE  ring[(readPtr[r] + i) % QueueSize] = recent[Backlog(r) - 1 - i]
<1> DEFINE l == Backlog(r)
           a == l - 1 - i
<1>1. l \in Nat /\ writePtr \in Nat /\ scribbled \in Nat /\ QueueSize \in Nat \ {0}
  BY Ranges, Constants DEF SafeInv
<1>2. i < l /\ l + scribbled <= i + QueueSize
  BY DEF Intact
<1>3. (readPtr[r] + i) % QueueSize = ((writePtr - l) + i) % QueueSize
  BY BacklogOffset
<1> HIDE DEF l
<1>4. a \in Offsets /\ a + scribbled < QueueSize
  BY <1>1, <1>2 DEF Offsets
<1>5. writePtr + (QueueSize - 1) - a = ((writePtr - l) + i) + QueueSize * 1
  BY <1>1
<1>6. (((writePtr - l) + i) + QueueSize * 1) % QueueSize = ((writePtr - l) + i) % QueueSize
  <2> DEFINE x == (writePtr - l) + i
  <2>1. x \in Int /\ 1 \in Int
    BY <1>1
  <2> HIDE DEF x
  <2>2. (x + QueueSize * 1) % QueueSize = x % QueueSize
    BY <1>1, <2>1, ModShift
  <2> QED
    BY <2>2 DEF x
<1> HIDE DEF a
<1>7. ring[(writePtr + (QueueSize - 1) - a) % QueueSize] = recent[a]
  BY <1>4 DEF SafeInv, RecentInRing
<1> QED
  BY <1>3, <1>5, <1>6, <1>7 DEF a, l

LEMMA SafeBeginRead ==
    ASSUME SafeInv, TypeInv', NEW r \in Readers, NEW n \in Counts, BeginRead(r, n)
    PROVE  SafeInv'
<1> USE DEF BeginRead, shared, writer, history
<1>1. Backlog(r)' = Backlog(r) /\ Backlog(r) \in Nat
  BY Ranges DEF Backlog, SafeInv
<1>2. n \in Nat /\ n * Quantum \in 0..QueueSize /\ n * Quantum <= Backlog(r)
  BY <1>1, Constants DEF Overflow
<1>3. n \in 0..QuantumCount
  BY <1>2, QuantumCountBytes
<1>4. readPtr[r] \in 0..(CounterMod - 1) /\ Aligned(readPtr[r]) /\ rpc[r] = "idle"
  BY Ranges DEF SafeInv, ReadersAligned
<1>5. TxBytes(rtx[r])' = n * Quantum
  <2> DEFINE p == readPtr[r]
  <2>1. p \in Nat /\ Aligned(p)
    BY <1>4
  <2>2. rtx'[r] = TxAt(p, n)
    BY DEF SafeInv, TypeInv, TypeOK
  <2> HIDE DEF p
  <2>3. TxBytes(TxAt(p, n)) = n * Quantum
    BY <1>3, <2>1, TxAtCovers
  <2> QED
    BY <2>2, <2>3
<1>6. rdata[r] = Blank
  BY <1>4 DEF SafeInv, TypeInv, ReaderTx
<1>7. \A j \in 0..(TxBytes(rtx[r])' - 1) : rdata'[r][j] = None
  BY <1>2, <1>5, <1>6, Constants DEF Blank
<1>8. \A s \in Readers \ {r} : rtx'[s] = rtx[s]
  BY DEF SafeInv, TypeInv, TypeOK
<1>9. ~wrapped' => readPtr'[r] <= writePtr
  BY DEF SafeInv, ReaderOrder
<1>10. TxBytes(rtx[r])' \in 0..QueueSize /\ TxBytes(rtx[r])' <= Backlog(r)'
       /\ Backlog(r)' <= Backlog(r)
  BY <1>1, <1>2, <1>5
<1> QED
  BY <1>7, <1>8, <1>9, <1>10, SafeReaderStep

\* The three steps that close a reader's transaction and move its counter.
LEMMA ReaderDoneBlank ==
    ASSUME TypeInv, NEW r \in Readers, ReaderDone(r)
    PROVE  /\ TxBytes(rtx[r])' = 0
           /\ \A s \in Readers \ {r} : rtx'[s] = rtx[s] /\ rdata'[s] = rdata[s]
  BY NullTxCovers DEF ReaderDone, TypeInv, TypeOK

LEMMA SafeCopyFrom ==
    ASSUME SafeInv, TypeInv', NEW r \in Readers, NEW j \in Offsets, CopyFrom(r, j)
    PROVE  SafeInv'
<1> USE DEF CopyFrom, shared, writer, history
<1>1. Backlog(r)' = Backlog(r) /\ Backlog(r) \in Nat
      /\ \A k \in Int : Intact(r, k)' = Intact(r, k)
  BY Ranges DEF Backlog, SafeInv, Intact
<1>2. TxBytes(rtx[r])' = TxBytes(rtx[r]) /\ TxBytes(rtx[r]) \in 0..QueueSize
      /\ TxBytes(rtx[r]) <= Backlog(r)
  BY Ranges DEF SafeInv, GrantsHold
<1>3. j \in 0..(TxBytes(rtx[r]) - 1) /\ j \in Nat /\ j < Backlog(r)
  BY <1>1, <1>2, Constants
<1>4. rdata'[r] = [rdata[r] EXCEPT ![j] = ring[(readPtr[r] + j) % QueueSize]]
  <2>1. TxAddress(rtx[r], j) = (readPtr[r] + j) % QueueSize
    BY <1>3, ReaderCovers DEF SafeInv, TypeInv
  <2> QED
    BY <2>1 DEF SafeInv, TypeInv, TypeOK
<1>5. \A s \in Readers \ {r} : rdata'[s] = rdata[s]
  BY DEF SafeInv, TypeInv, TypeOK
<1>6. ASSUME OffsetsValid, NEW k \in 0..(TxBytes(rtx[r]) - 1),
             rdata'[r][k] # None, Intact(r, k)
      PROVE  rdata'[r][k] = recent[Backlog(r) - 1 - k]
  <2>1. k \in Offsets /\ k \in Int
    BY <1>2, Constants
  <2>2. CASE k = j
    <3>1. ring[(readPtr[r] + j) % QueueSize] = recent[Backlog(r) - 1 - j]
      BY <1>3, <1>6, <2>2, BacklogInRing
    <3>2. rdata'[r][j] = ring[(readPtr[r] + j) % QueueSize]
      BY <1>4 DEF SafeInv, TypeInv, TypeOK
    <3> QED
      BY <2>2, <3>1, <3>2
  <2>3. CASE k # j
    <3>1. rdata'[r][k] = rdata[r][k]
      BY <1>4, <2>1, <2>3 DEF SafeInv, TypeInv, TypeOK
    <3> QED
      BY <1>6, <3>1 DEF SafeInv, CopiesAreExact
  <2> QED
    BY <2>2, <2>3
<1>7. \A k \in 0..(TxBytes(rtx[r])' - 1) :
         OffsetsValid' /\ rdata'[r][k] # None /\ Intact(r, k)' =>
             rdata'[r][k] = recent[Backlog(r)' - 1 - k]
  BY <1>1, <1>2, <1>6 DEF OffsetsValid
<1>8. ~wrapped' => readPtr'[r] <= writePtr
  BY DEF SafeInv, ReaderOrder
<1>9. TxBytes(rtx[r])' \in 0..QueueSize /\ TxBytes(rtx[r])' <= Backlog(r)'
      /\ Backlog(r)' <= Backlog(r)
  BY <1>1, <1>2
<1> QED
  BY <1>5, <1>7, <1>8, <1>9, SafeReaderStep

\* A reader that has closed its transaction is safe wherever it stands behind
\* the writer.
LEMMA SafeReaderDone ==
    ASSUME SafeInv, TypeInv', NEW r \in Readers, ReaderDone(r),
           UNCHANGED <<writePtr, ring, writer, recent, scribbled>>,
           wrapped => wrapped',
           \A s \in Readers \ {r} : readPtr'[s] = readPtr[s],
           ~wrapped' => readPtr'[r] <= writePtr,
           Synchronized => Backlog(r)' <= Backlog(r), Backlog(r)' \in Nat
    PROVE  SafeInv'
<1>1. TypeInv
  BY DEF SafeInv
<1>2. /\ TxBytes(rtx[r])' = 0
      /\ \A s \in Readers \ {r} : rtx'[s] = rtx[s] /\ rdata'[s] = rdata[s]
  BY <1>1, ReaderDoneBlank
<1>3. TxBytes(rtx[r])' \in 0..QueueSize /\ TxBytes(rtx[r])' <= Backlog(r)'
  BY <1>2, Constants
<1>4. \A j \in 0..(TxBytes(rtx[r])' - 1) : FALSE
  BY <1>2
<1> QED
  BY <1>2, <1>3, <1>4, SafeReaderStep

\* A reader whose counter is writePtr has no backlog.
LEMMA CaughtUp ==
    ASSUME TypeInv, NEW r \in Readers,
           writePtr' = writePtr, readPtr'[r] = writePtr
    PROVE  Backlog(r)' = 0
<1>1. writePtr \in 0..(CounterMod - 1)
  BY Ranges
<1>2. CounterSub(writePtr, writePtr) = 0
  BY <1>1, CounterArithmetic, 0 \in Nat
<1> QED
  BY <1>2 DEF Backlog, AvailableToReadBytes

LEMMA SafeBeginReadOverflow ==
    ASSUME SafeInv, TypeInv', NEW r \in Readers, BeginReadOverflow(r)
    PROVE  SafeInv'
<1> USE DEF BeginReadOverflow, writer, reader, history
<1>1. readPtr'[r] = writePtr /\ \A s \in Readers \ {r} : readPtr'[s] = readPtr[s]
  BY DEF SafeInv, TypeInv, TypeOK
<1>2. Backlog(r)' = 0 /\ Backlog(r) \in Nat /\ writePtr \in Nat
  BY <1>1, CaughtUp, Ranges DEF SafeInv
<1>3. TxBytes(rtx[r])' = 0
  BY NullTxCovers DEF SafeInv, TypeInv, ReaderTx
<1>4. TxBytes(rtx[r])' \in 0..QueueSize /\ TxBytes(rtx[r])' <= Backlog(r)'
      /\ Backlog(r)' <= Backlog(r) /\ readPtr'[r] <= writePtr
  BY <1>1, <1>2, <1>3, Constants
<1>5. \A j \in 0..(TxBytes(rtx[r])' - 1) : FALSE
  BY <1>3
<1> QED
  BY <1>1, <1>4, <1>5, SafeReaderStep

LEMMA SafeCommitRead ==
    ASSUME SafeInv, TypeInv', NEW r \in Readers, NEW n \in Counts, CommitRead(r, n)
    PROVE  SafeInv'
<1> USE DEF CommitRead, writer
<1> DEFINE b == Bytes(n)
           q == readPtr[r]
<1>1. writePtr \in 0..(CounterMod - 1) /\ q \in 0..(CounterMod - 1)
      /\ Backlog(r) \in 0..(CounterMod - 1)
  BY Ranges DEF SafeInv
<1>2. b \in Nat /\ b <= Backlog(r)
  <2>1. TxLength(rtx[r]) \in Nat /\ TxBytes(rtx[r]) = TxLength(rtx[r]) * Quantum
        /\ TxBytes(rtx[r]) \in 0..QueueSize
    BY ReaderCovers DEF SafeInv, TypeInv
  <2>2. b \in 0..TxBytes(rtx[r])
    BY <2>1, CommitFits
  <2>3. TxBytes(rtx[r]) <= Backlog(r)
    BY DEF SafeInv, GrantsHold
  <2> HIDE DEF b
  <2> QED
    BY <1>1, <2>1, <2>2, <2>3
<1>3. /\ readPtr'[r] = CounterAdd(q, b)
      /\ \A s \in Readers \ {r} : readPtr'[s] = readPtr[s]
  BY DEF SafeInv, TypeInv, TypeOK
<1>4. Backlog(r) = CounterSub(writePtr, q)
  BY DEF Backlog, AvailableToReadBytes
<1>w. wrapped' = (wrapped \/ q + b >= CounterMod)
  OBVIOUS
<1>x. (wrapped => wrapped') /\ (~wrapped' => ~wrapped /\ ~(q + b >= CounterMod))
  BY <1>w, Zenon
<1>o. ~wrapped => q <= writePtr
  BY DEF SafeInv, ReaderOrder
<1> HIDE DEF b, q
<1>5. Backlog(r)' = Backlog(r) - b
  <2>1. CounterSub(writePtr, CounterAdd(q, b)) = CounterSub(writePtr, q) - b
    BY <1>1, <1>2, <1>4, CounterArithmetic
  <2> QED
    BY <1>3, <1>4, <2>1 DEF Backlog, AvailableToReadBytes
<1>6. ~wrapped' => readPtr'[r] <= writePtr
  <2>1. ASSUME ~wrapped' PROVE readPtr'[r] <= writePtr
    <3>1. CounterMod \in Nat
      BY Constants
    <3>2. q <= writePtr /\ q + b < CounterMod
      BY <1>x, <1>o, <1>1, <1>2, <2>1, <3>1
    <3>3. CounterSub(writePtr, q) = writePtr - q /\ CounterAdd(q, b) = q + b
      BY <1>1, <1>2, <3>2, CounterArithmetic
    <3> QED
      BY <1>1, <1>2, <1>3, <1>4, <3>3
  <2> QED
    BY <2>1
<1>7. Backlog(r)' <= Backlog(r) /\ Backlog(r)' \in Nat
  BY <1>1, <1>2, <1>5
<1> QED
  BY <1>3, <1>x, <1>6, <1>7, SafeReaderDone

LEMMA SafeReaderLeaves ==
    ASSUME SafeInv, TypeInv', NEW r \in Readers,
           CommitReadOverflow(r) \/ DropRead(r) \/ ReattachReader(r)
    PROVE  SafeInv'
<1> USE DEF writer, shared, history
<1>0. TypeInv /\ Backlog(r) \in Nat /\ writePtr \in Nat
  BY Ranges DEF SafeInv
<1>1. CASE CommitReadOverflow(r)
  <2>1. readPtr'[r] = writePtr /\ \A s \in Readers \ {r} : readPtr'[s] = readPtr[s]
    BY <1>1 DEF CommitReadOverflow, SafeInv, TypeInv, TypeOK
  <2>2. Backlog(r)' = 0
    BY <1>0, <1>1, <2>1, CaughtUp DEF CommitReadOverflow
  <2>3. Backlog(r)' <= Backlog(r) /\ Backlog(r)' \in Nat /\ readPtr'[r] <= writePtr
    BY <1>0, <2>1, <2>2
  <2> QED
    BY <1>1, <2>1, <2>3, SafeReaderDone DEF CommitReadOverflow
<1>2. ASSUME ReaderDone(r), readPtr' = readPtr, UNCHANGED <<writePtr, ring, writer, history>>
      PROVE  SafeInv'
  <2>1. Backlog(r)' = Backlog(r)
    BY <1>2 DEF Backlog
  <2>2. Backlog(r)' <= Backlog(r) /\ Backlog(r)' \in Nat
    BY <1>0, <2>1
  <2>3. ~wrapped' => readPtr'[r] <= writePtr
    BY <1>2 DEF SafeInv, ReaderOrder
  <2> QED
    BY <1>2, <2>2, <2>3, SafeReaderDone
<1>3. CASE DropRead(r)
  BY <1>2, <1>3 DEF DropRead
<1>4. CASE ReattachReader(r) /\ Synchronized
  BY <1>2, <1>4 DEF ReattachReader
<1>5. CASE ReattachReader(r) /\ ~Synchronized
  <2>1. readPtr'[r] = 0 /\ \A s \in Readers \ {r} : readPtr'[s] = readPtr[s]
    BY <1>5 DEF ReattachReader, SafeInv, TypeInv, TypeOK
  <2>2. writePtr \in 0..(CounterMod - 1) /\ 0 \in 0..(CounterMod - 1)
    BY Ranges, Constants DEF SafeInv
  <2>3. CounterSub(writePtr, 0) \in Nat
    BY <2>2, CounterArithmetic
  <2>4. Backlog(r)' \in Nat
    BY <1>5, <2>1, <2>3 DEF ReattachReader, Backlog, AvailableToReadBytes
  <2> QED
    BY <1>0, <1>5, <2>1, <2>4, SafeReaderDone DEF ReattachReader
<1> QED
  BY <1>1, <1>3, <1>4, <1>5

LEMMA SafeNext == SafeInv /\ [Next]_vars => SafeInv'
<1> SUFFICES ASSUME SafeInv, [Next]_vars PROVE SafeInv'
  OBVIOUS
<1>1. TypeInv'
  BY TypeNext DEF SafeInv
<1>2. CASE UNCHANGED vars
  BY <1>1, <1>2 DEF vars, shared, writer, reader, history, SafeInv, GrantsHold,
     SyncRoom, ReaderOrder, FilledInRing, RecentInRing, CopiesAreExact,
     OffsetsValid, Backlog, Intact, Synchronized
<1>3. ASSUME NEW r \in Readers, ReaderNext(r) PROVE SafeInv'
  BY <1>1, <1>2, <1>3, SafeBeginRead, SafeCopyFrom, SafeBeginReadOverflow,
     SafeCommitRead, SafeReaderLeaves DEF ReaderNext, BeginReadFails
<1>4. CASE WriterNext
  BY <1>1, <1>2, <1>4, SafeBeginWrite, SafeCopyTo, SafeCommitWrite, SafeDropWrite
     DEF WriterNext, BeginWriteFails
<1> QED
  BY <1>2, <1>3, <1>4 DEF Next

\* The inductive invariant holds in every state: every begin, copy and commit of
\* the writer and of the readers keeps it.
THEOREM SafeInvariant == Spec => []SafeInv
  BY SafeInit, SafeNext, PTL DEF Spec

-----------------------------------------------------------------------------
\* A granted transaction stays within the free space or the backlog until its
\* commit, whatever the peer does, in both flavors.
THEOREM GrantsAreKept == Spec => []GrantsHold
  BY SafeInvariant, PTL DEF SafeInv

\* The ring keeps the newest committed bytes but for those under an
\* uncommitted write, in both flavors, over dropped and restarted transactions.
THEOREM RecentIsKept == Spec => []RecentInRing
  BY SafeInvariant, PTL DEF SafeInv

\* A reader's copies are exact unless the writer has scribbled over them.
THEOREM CopiesStayExact == Spec => []CopiesAreExact
  BY SafeInvariant, PTL DEF SafeInv

\* A synchronized reader never takes away a wrong byte.
LEMMA ExactFromInvariant == SafeInv => SyncReadsExact
<1> SUFFICES ASSUME SafeInv, Synchronized, OffsetsValid, NEW r \in Readers,
                    NEW j \in 0..(TxBytes(rtx[r]) - 1), rdata[r][j] # None
             PROVE  rdata[r][j] = recent[Backlog(r) - 1 - j]
  BY DEF SyncReadsExact, CommittableIsExact
<1>1. Backlog(r) \in Nat /\ scribbled \in Nat /\ TxBytes(rtx[r]) \in Nat
      /\ QueueSize \in Nat
  BY Ranges, Constants DEF SafeInv
<1>2. Backlog(r) + scribbled <= QueueSize
  BY DEF SafeInv, SyncRoom
<1>3. Intact(r, j)
  BY <1>1, <1>2 DEF Intact
<1> QED
  BY <1>3 DEF SafeInv, CopiesAreExact

\* read() of the synchronized flavor hands out the bytes that were committed, and
\* no others.
THEOREM SynchronizedReadsExact == Spec => []SyncReadsExact
  BY SafeInvariant, ExactFromInvariant, PTL

\* The synchronized writer never fills a byte that is unread.
LEMMA NoRaceFromInvariant == SafeInv => NoDataRace
<1> SUFFICES ASSUME SafeInv, Synchronized, OffsetsValid, NEW r \in Readers
             PROVE  /\ TxAddresses(wtx) \cap UnreadAddresses(r) = {}
                    /\ TxAddresses(rtx[r]) \subseteq UnreadAddresses(r)
  BY DEF NoDataRace
<1>1. /\ Backlog(r) \in Nat /\ TxBytes(wtx) \in Nat /\ TxBytes(rtx[r]) \in Nat
      /\ writePtr \in Nat /\ QueueSize \in Nat \ {0}
  BY Ranges, Constants DEF SafeInv
<1>2. /\ Backlog(r) + TxBytes(wtx) <= QueueSize
      /\ TxBytes(rtx[r]) <= Backlog(r)
  BY DEF SafeInv, GrantsHold
<1>3. ASSUME NEW j \in 0..(TxBytes(wtx) - 1), NEW i \in 0..(Backlog(r) - 1)
      PROVE  TxAddress(wtx, j) # (readPtr[r] + i) % QueueSize
  <2> DEFINE x == writePtr + j
             y == (writePtr - Backlog(r)) + i
  <2>1. x \in Int /\ y \in Int /\ 0 < x - y /\ x - y < QueueSize /\ i \in Int
    BY <1>1, <1>2
  <2>2. TxAddress(wtx, j) = x % QueueSize
    BY WriterCovers DEF SafeInv, TypeInv
  <2>3. (readPtr[r] + i) % QueueSize = y % QueueSize
    BY <2>1, BacklogOffset
  <2> HIDE DEF x, y
  <2>4. x % QueueSize # y % QueueSize
    BY <1>1, <2>1, ModDistinct
  <2> QED
    BY <2>2, <2>3, <2>4
<1>4. TxAddresses(rtx[r]) \subseteq UnreadAddresses(r)
  <2>1. \A j \in 0..(TxBytes(rtx[r]) - 1) :
            TxAddress(rtx[r], j) = (readPtr[r] + j) % QueueSize
    BY ReaderCovers DEF SafeInv, TypeInv
  <2>2. \A j \in 0..(TxBytes(rtx[r]) - 1) : j \in 0..(Backlog(r) - 1)
    BY <1>1, <1>2
  <2> QED
    BY <2>1, <2>2 DEF TxAddresses, UnreadAddresses
<1> QED
  BY <1>3, <1>4 DEF TxAddresses, UnreadAddresses

\* The memcpy of a synchronized writer and the memcpy of its reader never meet in
\* one byte of the ring.
THEOREM RaceFreedom == Spec => []NoDataRace
  BY SafeInvariant, NoRaceFromInvariant, PTL

-----------------------------------------------------------------------------
\* An open transaction is null or was cut by a begin from an aligned counter.
LEMMA AgreeFromInvariant == TypeInv => AddressingAgrees
<1> SUFFICES ASSUME TypeInv, NEW tx \in OpenTransactions PROVE Placed(tx)
  BY AddressesAgree DEF AddressingAgrees
<1>1. ASSUME NEW p \in 0..(CounterMod - 1), Aligned(p),
             \E n \in 0..QuantumCount : tx = TxAt(p, n)
      PROVE  Placed(tx)
  BY <1>1, OpenTxPlaced, Constants
<1>2. CASE tx = wtx
  BY <1>1, <1>2, OpenTxPlaced DEF TypeInv, TypeOK, WriterTx
<1>3. CASE \E r \in Readers : tx = rtx[r]
  <2>1. PICK r \in Readers : tx = rtx[r]
    BY <1>3
  <2>2. readPtr[r] \in 0..(CounterMod - 1)
    BY DEF TypeInv, TypeOK
  <2> QED
    BY <1>1, <2>1, <2>2, OpenTxPlaced DEF TypeInv, TypeOK, ReaderTx
<1> QED
  BY <1>2, <1>3 DEF OpenTransactions

\* Zero-copy access (getSlot) and copyTo or copyFrom with any start index
\* address the same bytes of every transaction the queue ever hands out.
THEOREM AddressingIsConsistent == Spec => []AddressingAgrees
<1>1. Spec => []TypeInv
  BY TypeInit, TypeNext, PTL DEF Spec
<1> QED
  BY <1>1, AgreeFromInvariant, PTL

\* Once writePtr is misaligned no commit moves it and no transaction opens.
LEMMA MisalignedStep ==
    TypeInv /\ [Next]_vars =>
        (~Aligned(writePtr) => /\ writePtr' = writePtr
                               /\ \A r \in Readers : rtx'[r] \in {rtx[r], NullTx})
<1> SUFFICES ASSUME TypeInv, [Next]_vars, ~Aligned(writePtr)
             PROVE  writePtr' = writePtr /\ \A r \in Readers : rtx'[r] \in {rtx[r], NullTx}
  OBVIOUS
<1>1. wpc = "idle"
  BY DEF TypeInv, TypeOK, WriterTx
<1>2. CASE UNCHANGED vars
  BY <1>2 DEF vars, shared, reader
<1>3. CASE WriterNext
  BY <1>1, <1>3 DEF WriterNext, BeginWrite, BeginWriteFails, CommitWrite, Commits,
                    CopyTo, DropWrite, shared, vars, reader
<1>4. ASSUME NEW r \in Readers, ReaderNext(r)
      PROVE  writePtr' = writePtr /\ \A s \in Readers : rtx'[s] \in {rtx[s], NullTx}
  <2>1. CASE ReaderDone(r) /\ writePtr' = writePtr
    BY <2>1 DEF ReaderDone, TypeInv, TypeOK
  <2>2. CASE UNCHANGED <<writePtr, rtx>>
    BY <2>2
  <2> QED
    BY <1>4, <2>1, <2>2
       DEF ReaderNext, BeginRead, ReadersAligned, BeginReadFails, BeginReadOverflow,
           CommitRead, CommitReadOverflow, CopyFrom, DropRead, ReattachReader,
           shared, reader, vars
<1> QED
  BY <1>2, <1>3, <1>4 DEF Next

\* Once a counter's wrap has misaligned writePtr, beginWrite and beginRead refuse
\* for good: the counter never moves and no read begins.
THEOREM MisalignmentIsForGood == Spec => MisalignedForGood
<1>1. Spec => []TypeInv
  BY TypeInit, TypeNext, PTL DEF Spec
<1> QED
  BY <1>1, MisalignedStep, PTL DEF Spec, MisalignedForGood
-----------------------------------------------------------------------------
\* The synchronized queue implements the bounded FIFO of BoundedFifo: each step
\* of MessageQueue is a step of the FIFO or leaves it alone.

\* The unread bytes, named by their age instead of their place in the ring.
ByAge == [i \in 1..Backlog(TheReader) |-> recent[Backlog(TheReader) - i]]

LEMMA OneReader ==
    ASSUME Synchronized
    PROVE  TheReader \in Readers /\ \A r \in Readers : r = TheReader
  BY QueueAssumption DEF TheReader, Synchronized

\* The synchronized reader never overflows.
LEMMA SyncBacklog ==
    ASSUME SafeInv, Synchronized
    PROVE  Backlog(TheReader) \in 0..QueueSize /\ ~Overflow(TheReader)
<1>1. TheReader \in Readers
  BY OneReader
<1>2. /\ Backlog(TheReader) \in Nat /\ TxBytes(wtx) \in Nat /\ QueueSize \in Nat
      /\ Backlog(TheReader) + TxBytes(wtx) <= QueueSize
  BY <1>1, Ranges, Constants DEF SafeInv, GrantsHold
<1> QED
  BY <1>2 DEF Overflow

\* The contents of the FIFO are the committed and unread bytes, oldest first.
LEMMA UnreadByAge == SafeInv /\ Synchronized /\ OffsetsValid => Unread = ByAge
<1> SUFFICES ASSUME SafeInv, Synchronized, OffsetsValid PROVE Unread = ByAge
  OBVIOUS
<1> DEFINE l == Backlog(TheReader)
<1>1. TheReader \in Readers /\ l \in 0..QueueSize
  BY OneReader, SyncBacklog
<1>2. ASSUME NEW i \in 1..l
      PROVE  ring[(readPtr[TheReader] + (i - 1)) % QueueSize] = recent[l - i]
  <2>1. i - 1 \in Nat /\ i - 1 < l /\ l - 1 - (i - 1) = l - i
    BY <1>1
  <2>2. l + scribbled <= QueueSize /\ scribbled \in Nat /\ QueueSize \in Nat
    BY <1>1, Ranges, Constants DEF SafeInv, SyncRoom
  <2>3. Intact(TheReader, i - 1)
    BY <1>1, <2>1, <2>2 DEF Intact
  <2>4. ring[(readPtr[TheReader] + (i - 1)) % QueueSize] =
           recent[Backlog(TheReader) - 1 - (i - 1)]
    BY <1>1, <2>1, <2>3, BacklogInRing
  <2> QED
    BY <2>1, <2>4
<1> HIDE DEF l
<1> QED
  BY <1>2 DEF Unread, ByAge, l

LEMMA UnreadByAgeNext ==
    (SafeInv /\ Synchronized /\ OffsetsValid => Unread = ByAge)'
  BY UnreadByAge, PTL
-----------------------------------------------------------------------------
\* The steps.

\* A step that moves no counter, commits nothing and touches neither private
\* copy, or one of them in a way the FIFO knows.
LEMMA FifoKept ==
    ASSUME SafeInv, SafeInv', Synchronized, OffsetsValid, OffsetsValid',
           UNCHANGED <<writePtr, readPtr, recent>>
    PROVE  Unread' = Unread
<1>1. Unread = ByAge /\ Unread' = ByAge'
  BY UnreadByAge, UnreadByAgeNext DEF Synchronized
<1>2. ByAge' = ByAge
  BY DEF ByAge, Backlog
<1> QED
  BY <1>1, <1>2

LEMMA BlankIsBlank == Blank = Fifo!Blank
  BY DEF Blank, Fifo!Blank, Offsets

LEMMA SizesOfCounts ==
    ASSUME NEW n \in Counts, n <= QuantumCount
    PROVE  Bytes(n) \in Fifo!Sizes
<1>1. n \in 0..(QueueSize \div Quantum) /\ Bytes(n) = n * Quantum
  BY Constants DEF QuantumCount
<1> QED
  BY <1>1 DEF Fifo!Sizes

\* commitWrite puts the committed bytes at the tail.
LEMMA CommitWritePuts ==
    ASSUME SafeInv, SafeInv', Synchronized, OffsetsValid, OffsetsValid',
           NEW n \in Counts, CommitWrite(n)
    PROVE  Fifo!Put(Bytes(n)) /\ Bytes(n) \in Fifo!Sizes
<1> DEFINE b == Bytes(n)
           r == TheReader
           l == Backlog(TheReader)
<1> USE DEF CommitWrite, Commits, Filled
<1>1. r \in Readers /\ l \in 0..QueueSize
  BY OneReader, SyncBacklog
<1>2. TxLength(wtx) \in Nat /\ TxBytes(wtx) = TxLength(wtx) * Quantum
      /\ TxBytes(wtx) \in 0..QueueSize
  BY WriterCovers DEF SafeInv, TypeInv
<1>3. b \in 0..TxBytes(wtx)
  BY <1>2, Constants, CommitFits
<1>4. l + TxBytes(wtx) <= QueueSize
  BY <1>1 DEF SafeInv, GrantsHold
<1>5. QueueSize \in Nat /\ l + b <= QueueSize /\ b \in 0..QueueSize
  <2> HIDE DEF b, l, r
  <2>1. QueueSize \in Nat /\ TxBytes(wtx) \in 0..QueueSize
    BY <1>2, Constants
  <2> QED
    BY <1>1, <1>3, <1>4, <2>1
<1>6. Backlog(r)' = l + b
  <2> DEFINE q == readPtr[r]
  <2>1. writePtr \in 0..(CounterMod - 1) /\ q \in 0..(CounterMod - 1)
    BY <1>1, Ranges DEF SafeInv
  <2>2. l = CounterSub(writePtr, q) /\ l + b < CounterMod
        /\ Backlog(r)' = CounterSub(CounterAdd(writePtr, b), q)
    BY <1>1 DEF NoReaderLapped, Backlog, AvailableToReadBytes
  <2> HIDE DEF q, b, l, r
  <2>3. CounterSub(CounterAdd(writePtr, b), q) = CounterSub(writePtr, q) + b
    BY <1>5, <2>1, <2>2, CounterArithmetic
  <2> QED
    BY <2>2, <2>3
<1>7. /\ recent' = [a \in Offsets |-> IF a < b THEN wdata[b - 1 - a] ELSE recent[a - b]]
      /\ \A j \in 0..(b - 1) : wdata[j] # None
      /\ wdata' = Blank /\ rdata' = rdata
  BY DEF reader
<1>8. Unread = [i \in 1..l |-> recent[l - i]]
  BY UnreadByAge DEF ByAge
<1>9. Unread' = [i \in 1..(l + b) |-> recent'[(l + b) - i]]
  BY <1>6, UnreadByAgeNext DEF ByAge, Synchronized
<1>10. b \in Fifo!Sizes
  <2>1. n \in Nat /\ n * Quantum <= QueueSize
    BY <1>5, Constants
  <2>2. n <= QuantumCount
    BY <2>1, QuantumCountBytes
  <2> QED
    BY <2>2, SizesOfCounts
<1> HIDE DEF b, l, r, CommitWrite, Commits, Filled
<1>11. ASSUME NEW i \in 1..(l + b)
       PROVE  recent'[(l + b) - i] = IF i <= l THEN recent[l - i] ELSE wdata[(i - l) - 1]
  <2>1. (l + b) - i \in Offsets
    BY <1>1, <1>5 DEF Offsets
  <2> QED
    BY <1>1, <1>5, <1>7, <2>1
<1>12. Unread' = Unread \o [i \in 1..b |-> wdata[i - 1]]
  <2> DEFINE u == [i \in 1..l |-> recent[l - i]]
             w == [i \in 1..b |-> wdata[i - 1]]
  <2>1. Len(u) = l /\ Len(w) = b
    BY <1>1, <1>5
  <2>2. u \o w = [i \in 1..(l + b) |-> IF i <= l THEN u[i] ELSE w[i - l]]
    BY <2>1, <1>1, <1>5
  <2>3. ASSUME NEW i \in 1..(l + b)
        PROVE  (IF i <= l THEN u[i] ELSE w[i - l]) = recent'[(l + b) - i]
    <3>1. CASE i <= l
      <4>1. i \in 1..l
        BY <1>1, <3>1
      <4> QED
        BY <1>11, <3>1, <4>1
    <3>2. CASE ~(i <= l)
      <4>1. i - l \in 1..b
        BY <1>1, <1>5, <3>2
      <4> QED
        BY <1>11, <3>2, <4>1
    <3> QED
      BY <3>1, <3>2
  <2>4. Unread' = [i \in 1..(l + b) |-> IF i <= l THEN u[i] ELSE w[i - l]]
    BY <1>9, <2>3, Zenon
  <2> HIDE DEF u, w
  <2>5. Unread' = u \o w
    BY <2>2, <2>4
  <2> QED
    BY <1>8, <2>5 DEF u, w
<1>13. Len(Unread) = l
  BY <1>1, <1>8
<1> QED
  BY <1>1, <1>5, <1>7, <1>10, <1>12, <1>13, BlankIsBlank DEF Fifo!Put, b
\* commitRead takes the copied bytes from the head.
LEMMA CommitReadTakes ==
    ASSUME SafeInv, SafeInv', Synchronized, OffsetsValid, OffsetsValid',
           NEW n \in Counts, CommitRead(TheReader, n)
    PROVE  Fifo!Take(Bytes(n)) /\ Bytes(n) \in Fifo!Sizes
<1> DEFINE b == Bytes(n)
           r == TheReader
           l == Backlog(TheReader)
<1>1. r \in Readers /\ l \in 0..QueueSize
  BY OneReader, SyncBacklog
<1>2. TxLength(rtx[r]) \in Nat /\ TxBytes(rtx[r]) = TxLength(rtx[r]) * Quantum
      /\ TxBytes(rtx[r]) \in 0..QueueSize
  BY <1>1, ReaderCovers DEF SafeInv, TypeInv
<1>3. b \in 0..TxBytes(rtx[r])
  BY <1>2, Constants, CommitFits DEF CommitRead
<1>4. TxBytes(rtx[r]) <= l
  BY <1>1 DEF SafeInv, GrantsHold
<1>5. QueueSize \in Nat /\ b \in 0..l /\ b <= QueueSize
  <2> HIDE DEF b, l, r
  <2>1. QueueSize \in Nat /\ TxBytes(rtx[r]) \in 0..QueueSize
    BY <1>2, Constants
  <2> QED
    BY <1>1, <1>3, <1>4, <2>1
<1>6. Backlog(r)' = l - b
  <2> DEFINE q == readPtr[r]
  <2>1. writePtr \in 0..(CounterMod - 1) /\ q \in 0..(CounterMod - 1)
    BY <1>1, Ranges DEF SafeInv
  <2>2. l = CounterSub(writePtr, q)
        /\ Backlog(r)' = CounterSub(writePtr, CounterAdd(q, b))
    BY <1>1 DEF CommitRead, Backlog, AvailableToReadBytes, SafeInv, TypeInv, TypeOK
  <2> HIDE DEF q, b, l, r
  <2>3. CounterSub(writePtr, CounterAdd(q, b)) = CounterSub(writePtr, q) - b
    BY <1>5, <2>1, <2>2, CounterArithmetic
  <2> QED
    BY <2>2, <2>3
<1>7. Unread = [i \in 1..l |-> recent[l - i]]
  BY UnreadByAge DEF ByAge
<1>8. Unread' = [i \in 1..(l - b) |-> recent[(l - b) - i]]
  BY <1>6, UnreadByAgeNext DEF ByAge, Synchronized, CommitRead
<1>9. ASSUME NEW i \in 1..b PROVE rdata[r][i - 1] = Unread[i]
  <2>1. i - 1 \in 0..(b - 1) /\ i - 1 \in 0..(TxBytes(rtx[r]) - 1) /\ i \in 1..l
        /\ l - 1 - (i - 1) = l - i
    <3> HIDE DEF b, l, r
    <3> QED
      BY <1>1, <1>2, <1>3, <1>5
  <2>2. rdata[r][i - 1] # None
    BY <2>1 DEF CommitRead
  <2>3. rdata[r][i - 1] = recent[l - 1 - (i - 1)]
    BY <1>1, <2>1, <2>2, SyncBacklog, ExactFromInvariant
       DEF SyncReadsExact, CommittableIsExact
  <2> QED
    BY <1>7, <2>1, <2>3
<1>10. b \in Fifo!Sizes
  <2>1. n \in Nat /\ n * Quantum <= QueueSize
    BY <1>5, Constants
  <2>2. n <= QuantumCount
    BY <2>1, QuantumCountBytes
  <2> QED
    BY <2>2, SizesOfCounts
<1>11. rdata'[r] = Blank /\ wdata' = wdata
  BY <1>1 DEF CommitRead, ReaderDone, writer, SafeInv, TypeInv, TypeOK
<1> HIDE DEF b, l, r
<1>12. Len(Unread) = l
  BY <1>1, <1>7
<1>13. Unread' = SubSeq(Unread, b + 1, Len(Unread))
  <2>1. SubSeq(Unread, b + 1, l) = [i \in 1..(l - b) |-> Unread[i + b]]
    BY <1>1, <1>5, <1>7
  <2>2. ASSUME NEW i \in 1..(l - b) PROVE Unread[i + b] = recent[(l - b) - i]
    <3>1. i + b \in 1..l /\ l - (i + b) = (l - b) - i
      BY <1>1, <1>5
    <3> QED
      BY <1>7, <3>1
  <2> QED
    BY <1>8, <1>12, <2>1, <2>2
<1>14. b <= Len(Unread)
  BY <1>5, <1>12
<1>15. rdata'[r] = Fifo!Blank
  BY <1>11, BlankIsBlank
<1>16. Fifo!Take(b)
  BY <1>9, <1>11, <1>13, <1>14, <1>15 DEF Fifo!Take, r
<1> QED
  BY <1>10, <1>16 DEF b
-----------------------------------------------------------------------------
\* The copies, and the steps that give a transaction up.

LEMMA CopyToComposes ==
    ASSUME SafeInv, SafeInv', Synchronized, OffsetsValid, OffsetsValid',
           NEW j \in Offsets, CopyTo(j)
    PROVE  Fifo!Compose
<1>1. Unread' = Unread
  BY FifoKept DEF CopyTo
<1>2. PICK v \in Values : wdata' = [wdata EXCEPT ![j] = v]
  BY DEF CopyTo
<1>3. wdata[j] = None /\ rdata'[TheReader] = rdata[TheReader]
  BY DEF CopyTo, reader
<1>4. j \in DOMAIN wdata
  BY DEF SafeInv, TypeInv, TypeOK
<1> QED
  BY <1>1, <1>2, <1>3, <1>4 DEF Fifo!Compose

LEMMA CopyFromCopies ==
    ASSUME SafeInv, SafeInv', Synchronized, OffsetsValid, OffsetsValid',
           NEW j \in Offsets, CopyFrom(TheReader, j)
    PROVE  Fifo!Copy
<1> DEFINE r == TheReader
           l == Backlog(TheReader)
<1>1. r \in Readers /\ l \in 0..QueueSize
  BY OneReader, SyncBacklog
<1>2. Unread' = Unread /\ wdata' = wdata
  BY FifoKept DEF CopyFrom, shared, writer, history
<1>3. TxBytes(rtx[r]) \in 0..QueueSize /\ TxBytes(rtx[r]) <= l
  BY <1>1, Ranges DEF SafeInv, GrantsHold
<1>4. j \in Nat /\ j < TxBytes(rtx[r])
  BY <1>1, Constants DEF CopyFrom
<1>5. TxAddress(rtx[r], j) = (readPtr[r] + j) % QueueSize
  <2>1. j \in 0..(TxBytes(rtx[r]) - 1)
    <3> HIDE DEF r
    <3> QED
      BY <1>3, <1>4, Constants
  <2> QED
    BY <1>1, <2>1, ReaderCovers DEF SafeInv, TypeInv
<1>6. rdata'[r] = [rdata[r] EXCEPT ![j] = ring[(readPtr[r] + j) % QueueSize]]
  BY <1>1, <1>5 DEF CopyFrom, SafeInv, TypeInv, TypeOK
<1>7. Unread = [i \in 1..l |-> ring[(readPtr[r] + (i - 1)) % QueueSize]]
  BY DEF Unread
<1> HIDE DEF r, l
<1>8. j + 1 \in 1..l /\ (j + 1) - 1 = j /\ QueueSize \in Nat
  BY <1>1, <1>3, <1>4, Constants
<1>9. Len(Unread) = l /\ Unread[j + 1] = ring[(readPtr[r] + j) % QueueSize]
  BY <1>1, <1>7, <1>8
<1>10. rdata'[r] = [rdata[r] EXCEPT ![(j + 1) - 1] = Unread[j + 1]]
  BY <1>6, <1>8, <1>9
<1> QED
  BY <1>2, <1>8, <1>9, <1>10 DEF Fifo!Copy, r

LEMMA DropWriteWithdraws ==
    ASSUME SafeInv, SafeInv', Synchronized, OffsetsValid, OffsetsValid', DropWrite
    PROVE  Fifo!Withdraw
<1>1. Unread' = Unread
  BY FifoKept DEF DropWrite, shared, history
<1> QED
  BY <1>1, BlankIsBlank DEF DropWrite, reader, Fifo!Withdraw

LEMMA ReaderGivesUp ==
    ASSUME SafeInv, SafeInv', Synchronized, OffsetsValid, OffsetsValid',
           DropRead(TheReader) \/ ReattachReader(TheReader)
    PROVE  Fifo!Discard
<1>1. ReaderDone(TheReader) /\ wdata' = wdata
      /\ UNCHANGED <<writePtr, readPtr, recent>>
  BY DEF DropRead, ReattachReader, shared, writer, history
<1>2. Unread' = Unread
  BY <1>1, FifoKept
<1>3. rdata'[TheReader] = Blank
  BY <1>1, OneReader DEF ReaderDone, SafeInv, TypeInv, TypeOK
<1> QED
  BY <1>1, <1>2, <1>3, BlankIsBlank DEF Fifo!Discard

\* A begin hands out a transaction and touches none of its bytes.
LEMMA BeginsAreInvisible ==
    ASSUME SafeInv, SafeInv', Synchronized, OffsetsValid, OffsetsValid',
           NEW n \in Counts, BeginWrite(n) \/ BeginRead(TheReader, n)
    PROVE  UNCHANGED Fifo!vars
<1>1. Unread' = Unread
  BY FifoKept DEF BeginWrite, BeginRead, shared, history
<1> QED
  BY <1>1 DEF BeginWrite, BeginRead, reader, writer, Fifo!vars
-----------------------------------------------------------------------------
LEMMA FifoInit == SafeInv /\ Synchronized /\ Init => Fifo!Init
<1> SUFFICES ASSUME SafeInv, Synchronized, Init PROVE Fifo!Init
  OBVIOUS
<1>1. TheReader \in Readers
  BY OneReader
<1>2. Backlog(TheReader) = 0
  BY <1>1, CounterArithmetic, Constants, 0 \in 0..(CounterMod - 1), 0 \in Nat
     DEF Init, Backlog, AvailableToReadBytes
<1>3. Unread = <<>>
  BY <1>2 DEF Unread
<1> QED
  BY <1>1, <1>3, BlankIsBlank DEF Init, Fifo!Init

LEMMA FifoNext ==
    SafeInv /\ SafeInv' /\ Synchronized /\ OffsetsValid /\ OffsetsValid' /\ [Next]_vars
        => [Fifo!Next]_(Fifo!vars)
<1> SUFFICES ASSUME SafeInv, SafeInv', Synchronized, OffsetsValid, OffsetsValid',
                    [Next]_vars
             PROVE  [Fifo!Next]_(Fifo!vars)
  OBVIOUS
<1>1. CASE UNCHANGED vars
  BY <1>1 DEF vars, shared, writer, reader, history, Fifo!vars, Unread, Backlog
<1>2. CASE WriterNext
  <2>1. ASSUME NEW n \in Counts, CommitWrite(n) PROVE Fifo!Next
    BY <2>1, CommitWritePuts DEF Fifo!Next
  <2>2. ASSUME NEW j \in Offsets, CopyTo(j) PROVE Fifo!Next
    BY <2>2, CopyToComposes DEF Fifo!Next
  <2>3. CASE DropWrite
    BY <2>3, DropWriteWithdraws DEF Fifo!Next
  <2>4. ASSUME NEW n \in Counts, BeginWrite(n) PROVE UNCHANGED Fifo!vars
    BY <2>4, BeginsAreInvisible
  <2> QED
    BY <1>1, <1>2, <2>1, <2>2, <2>3, <2>4 DEF WriterNext, BeginWriteFails
<1>3. ASSUME NEW r \in Readers, ReaderNext(r) PROVE [Fifo!Next]_(Fifo!vars)
  <2>1. r = TheReader /\ ~Overflow(TheReader)
    BY OneReader, SyncBacklog
  <2>2. ASSUME NEW n \in Counts, CommitRead(TheReader, n) PROVE Fifo!Next
    BY <2>2, CommitReadTakes DEF Fifo!Next
  <2>3. ASSUME NEW j \in Offsets, CopyFrom(TheReader, j) PROVE Fifo!Next
    BY <2>3, CopyFromCopies DEF Fifo!Next
  <2>4. ASSUME DropRead(TheReader) \/ ReattachReader(TheReader) PROVE Fifo!Next
    BY <2>4, ReaderGivesUp DEF Fifo!Next
  <2>5. ASSUME NEW n \in Counts, BeginRead(TheReader, n) PROVE UNCHANGED Fifo!vars
    BY <2>5, BeginsAreInvisible
  <2> QED
    BY <1>1, <1>3, <2>1, <2>2, <2>3, <2>4, <2>5
       DEF ReaderNext, BeginReadFails, BeginReadOverflow, CommitReadOverflow
<1> QED
  BY <1>1, <1>2, <1>3 DEF Next

\* As long as the offsets of the counters are valid, what the two processes do
\* to the shared counters and the ring is a bounded first-in-first-out queue.
THEOREM ImplementsFifo ==
    ASSUME Synchronized
    PROVE  Spec /\ []OffsetsValid => RefinesFifo
<1>1. SafeInv /\ Init => Fifo!Init
  BY FifoInit
<1>2. SafeInv /\ SafeInv' /\ OffsetsValid /\ OffsetsValid' /\ [Next]_vars
        => [Fifo!Next]_(Fifo!vars)
  BY FifoNext
<1> QED
  BY <1>1, <1>2, SafeInvariant, PTL DEF Spec, Fifo!Spec, RefinesFifo

\* With a size that divides the range of the counters (a power of two) the
\* offsets are valid for ever, across any number of wraps.
THEOREM ImplementsFifoAlways ==
    ASSUME Synchronized, CounterMod % QueueSize = 0
    PROVE  Spec => RefinesFifo
<1>1. OffsetsValid
  BY DEF OffsetsValid
<1> QED
  BY <1>1, ImplementsFifo, PTL
=============================================================================
