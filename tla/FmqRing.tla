------------------------------- MODULE FmqRing -------------------------------
(***************************************************************************)
(* The arithmetic of the FMQ ring buffer (MessageQueueBase.h): the counter *)
(* differences behind availableToRead/Write, the memory regions that       *)
(* beginRead and beginWrite hand out, and the addresses getSlot, copyTo    *)
(* and copyFrom compute from them.  Addresses are byte offsets from mRing. *)
(***************************************************************************)
EXTENDS Integers

CONSTANTS QueueSize,   \* mDesc->getSize(): bytes of the data grantor
          Quantum,     \* sizeof(T)
          CounterMod   \* 2^64: the counters and size_t wrap here

\* The allocating constructor makes QueueSize numElements * sizeof(T); a queue
\* for no elements, which it does not refuse, is outside the assumption.
ASSUME RingAssumption ==
    /\ Quantum \in Nat \ {0}
    /\ QueueSize \in Nat \ {0}
    /\ QueueSize % Quantum = 0
    /\ CounterMod \in Nat
    /\ QueueSize < CounterMod

\* MQFlavor
kSynchronizedReadWrite == 1
kUnsynchronizedWrite == 2

\* Unsigned arithmetic of the std::atomic<uint64_t> counters and of size_t.
\* (Mutant of CounterAdd: a counter that does not wrap.)
CounterAddUnbounded(p, b) == p + b
CounterAdd(p, b) == (p + b) % CounterMod
CounterSub(p, q) == (p - q) % CounterMod
Bytes(n) == (n * Quantum) % CounterMod

\* (Mutant of Aligned: the misalignment check is left out.)
AlignmentUnchecked(ptr) == ptr = ptr
Aligned(ptr) == ptr % Quantum = 0
QuantumCount == QueueSize \div Quantum

AvailableToReadBytes(writePtr, readPtr) == CounterSub(writePtr, readPtr)
AvailableToWriteBytes(writePtr, readPtr) ==
    CounterSub(QueueSize, AvailableToReadBytes(writePtr, readPtr))
AvailableToWrite(writePtr, readPtr) ==
    AvailableToWriteBytes(writePtr, readPtr) \div Quantum

-----------------------------------------------------------------------------
\* MemRegion and MemTransaction.  A length counts messages, not bytes.
Null == -1
Region(address, length) == [address |-> address, length |-> length]
Regions == [address : -1..(QueueSize - 1), length : 0..QuantumCount]
Transactions == [first : Regions, second : Regions]
NullTx == [first |-> Region(Null, 0), second |-> Region(Null, 0)]

TxLength(tx) == tx.first.length + tx.second.length
TxBytes(tx) == TxLength(tx) * Quantum

\* The tail beginWrite and beginRead share: n messages from counter ptr on,
\* split in two regions when they run past the end of the ring.
Contiguous(ptr) == (QueueSize - (ptr % QueueSize)) \div Quantum
\* (Mutants of TxAt: the counter itself is taken for the offset; the second
\* region does not start at the ring's base.)
TxAtUnreduced(ptr, n) ==
    IF Contiguous(ptr) < n
    THEN [first  |-> Region(ptr, Contiguous(ptr)),
          second |-> Region(0, n - Contiguous(ptr))]
    ELSE [first |-> Region(ptr, n), second |-> Region(Null, 0)]
TxAtUnwrapped(ptr, n) ==
    IF Contiguous(ptr) < n
    THEN [first  |-> Region(ptr % QueueSize, Contiguous(ptr)),
          second |-> Region(ptr % QueueSize, n - Contiguous(ptr))]
    ELSE [first |-> Region(ptr % QueueSize, n), second |-> Region(Null, 0)]
TxAt(ptr, n) ==
    IF Contiguous(ptr) < n
    THEN [first  |-> Region(ptr % QueueSize, Contiguous(ptr)),
          second |-> Region(0, n - Contiguous(ptr))]
    ELSE [first |-> Region(ptr % QueueSize, n), second |-> Region(Null, 0)]

\* Pointer arithmetic on T*: nullptr stays out of the ring.
Advance(address, k) == IF address = Null THEN Null ELSE address + k * Quantum

GetSlot(tx, idx) ==
    IF idx > TxLength(tx) THEN Null
    ELSE IF idx < tx.first.length THEN Advance(tx.first.address, idx)
    ELSE Advance(tx.second.address, idx - tx.first.length)

LesserOf(a, b) == IF a < b THEN a ELSE b

\* (Mutant of GetMemRegionInfo: a start index in the second region is lost.)
GetMemRegionInfoFromBase(tx, startIdx, n) ==
    LET len == tx.first.length
        firstCount == IF startIdx < len THEN LesserOf(n, len - startIdx) ELSE 0
    IN  [ok |-> startIdx + n <= TxLength(tx),
         firstCount |-> firstCount, secondCount |-> n - firstCount,
         firstBase |-> Advance(tx.first.address, startIdx),
         secondBase |-> tx.second.address]
GetMemRegionInfo(tx, startIdx, n) ==
    LET len == tx.first.length
        firstCount == IF startIdx < len THEN LesserOf(n, len - startIdx) ELSE 0
    IN  [ok |-> startIdx + n <= TxLength(tx),
         firstCount  |-> firstCount,
         secondCount |-> n - firstCount,
         firstBase   |-> Advance(tx.first.address, startIdx),
         secondBase  |-> Advance(tx.second.address,
                                 IF startIdx > len THEN startIdx - len ELSE 0)]

\* The ring byte that byte j of the caller's buffer is copied to or from by
\* the two memcpy calls of copyTo/copyFrom(data, startIdx, n).
CopyAddress(tx, startIdx, n, j) ==
    LET info == GetMemRegionInfo(tx, startIdx, n)
        firstBytes == info.firstCount * Quantum
    IN  IF j < firstBytes THEN info.firstBase + j
        ELSE info.secondBase + (j - firstBytes)

\* The ring byte that holds byte j of a transaction copied whole, as read()
\* and write() copy it.
TxAddress(tx, j) == CopyAddress(tx, 0, TxLength(tx), j)
TxAddresses(tx) == {TxAddress(tx, j) : j \in 0..(TxBytes(tx) - 1)}
=============================================================================
