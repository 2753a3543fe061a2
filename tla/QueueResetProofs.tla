--------------------------- MODULE QueueResetProofs ---------------------------
(***************************************************************************)
(* Theorems about QueueReset for every queue size, message size, counter   *)
(* width, set of values and number of readers: what attaching with         *)
(* resetPointers = true, at whatever moment, leaves of the guarantees.     *)
(***************************************************************************)
EXTENDS QueueReset, MessageQueueProofs

\* An open transaction was cut from an aligned counter: the present one,
\* unless a reset has overtaken its owner since.
CutAt(tx, now, overtaken) ==
    \E p \in 0..(CounterMod - 1) : \E n \in 0..QuantumCount :
        Aligned(p) /\ (~overtaken => p = now) /\ tx = TxAt(p, n)

WriterCut ==
    /\ wpc = "idle" => wtx = NullTx /\ wdata = Blank
    /\ wpc = "filling" => CutAt(wtx, writePtr, Writer \in caught)

\* A reader in beginRead is in no transaction yet.
ReaderCut(r) ==
    /\ step[r] = "beginning" => rpc[r] = "idle"
    /\ rpc[r] = "idle" => rtx[r] = NullTx /\ rdata[r] = Blank
    /\ rpc[r] = "taking" => CutAt(rtx[r], readPtr[r], r \in caught)

CallTypes ==
    /\ step \in [Parties -> {"none", "beginning", "committing", "storing"}]
    /\ loaded \in [Parties -> 0..(CounterMod - 1)]

CutInv ==
    /\ TypeOK
    /\ CallTypes
    /\ attaching \subseteq Parties
    /\ caught \subseteq Parties /\ torn \in BOOLEAN /\ blind \in BOOLEAN
    /\ WriterCut
    /\ \A r \in Readers : ReaderCut(r)

\* No counter, stored or loaded, comes within QueueSize of its wrap, not even
\* after the commit of a transaction that a reset has overtaken.
CallCounted(r) ==
    /\ step[r] \in {"beginning", "storing"} => Counted(loaded[r])
    /\ step[r] = "committing" => Counted(loaded[r] + TxBytes(rtx[r]))

CountedInv ==
    /\ Counted(writePtr)
    /\ \A r \in Readers : Counted(readPtr[r] + TxBytes(rtx[r])) /\ CallCounted(r)

\* What is fresh was written since writePtr was 0; an overtaken writer has
\* committed nothing since, and one that is not stores what it should.
FreshCount ==
    /\ fresh = LesserOf(QueueSize, writePtr)
    /\ Writer \in caught => writePtr = 0
    /\ Writer \notin caught /\ wpc = "filling" /\ step[Writer] = "storing" =>
          loaded[Writer] = writePtr

CaughtNow ==
    /\ \A p \in caught : Remains(p)
    /\ blind => wpc = "filling"

\* A reader that no reset overtook stands behind writePtr, and so does the
\* counter it is about to store.
CallBehind(r) ==
    /\ step[r] \in {"beginning", "storing"} =>
          loaded[r] <= writePtr /\ (Synchronized => readPtr[r] <= loaded[r])
    /\ step[r] = "committing" =>
          loaded[r] = readPtr[r] /\ readPtr[r] + TxBytes(rtx[r]) <= writePtr

StandsBehind ==
    \A r \in Readers \ caught :
        /\ Synchronized => readPtr[r] <= writePtr
        /\ rpc[r] = "taking" => readPtr[r] + TxBytes(rtx[r]) <= writePtr
        /\ CallBehind(r)

\* Between resets a synchronized reader that is not caught does not overflow,
\* and what the writer was granted is free of its backlog.  A grant that was
\* not blind can share the queue with a caught reader only when a reset has
\* overtaken them both.
RoomAgain ==
    attaching = {} /\ Synchronized =>
        /\ \A r \in Readers \ caught :
              /\ Backlog(r) <= QueueSize
              /\ ~blind => Backlog(r) + TxBytes(wtx) <= QueueSize
        /\ wpc = "filling" /\ ~blind /\ caught # {} => writePtr = 0

\* What a writer that was not overtaken has copied is where its counter says.
FilledAgain == Writer \notin caught => FilledInRing

ResetInv == /\ CutInv
            /\ CountedInv
            /\ FreshCount
            /\ CaughtNow
            /\ StandsBehind
            /\ RoomAgain
            /\ FilledAgain
            /\ FreshInRing
            /\ ReadsAreFresh
-----------------------------------------------------------------------------
\* Types and transactions.

LEMMA ResetConstants ==
    /\ 2 * QueueSize < CounterMod
    /\ Writer \notin Readers /\ Writer \in Parties
    /\ \A r \in Readers : r \in Parties /\ r # Writer
    /\ 0 \in 0..(CounterMod - 1)
  BY ResetAssumption, Constants DEF Parties

\* The bytes of an open transaction, overtaken or not.
LEMMA CutCovers ==
    ASSUME NEW tx, NEW now, NEW overtaken \in BOOLEAN, CutAt(tx, now, overtaken)
    PROVE  /\ tx \in Transactions /\ Placed(tx)
           /\ TxLength(tx) \in 0..QuantumCount
           /\ TxBytes(tx) = TxLength(tx) * Quantum
           /\ TxBytes(tx) \in 0..QueueSize
           /\ ~overtaken => now \in 0..(CounterMod - 1) /\ Aligned(now)
           /\ \A j \in 0..(TxBytes(tx) - 1) :
                /\ TxAddress(tx, j) \in Offsets
                /\ ~overtaken => TxAddress(tx, j) = (now + j) % QueueSize
<1>1. PICK p \in 0..(CounterMod - 1), n \in 0..QuantumCount :
          Aligned(p) /\ (~overtaken => p = now) /\ tx = TxAt(p, n)
  BY DEF CutAt
<1>2. p \in Nat /\ n \in Nat
  BY Constants
<1>3. /\ tx \in Transactions /\ TxLength(tx) = n /\ TxBytes(tx) = n * Quantum
      /\ n * Quantum \in 0..QueueSize
      /\ \A j \in 0..(n * Quantum - 1) : /\ TxAddress(tx, j) = (p + j) % QueueSize
                                        /\ TxAddress(tx, j) \in 0..(QueueSize - 1)
  BY <1>1, <1>2, TxAtCovers
<1>4. Placed(tx)
  BY <1>1, <1>2, OpenTxPlaced
<1> QED
  BY <1>1, <1>3, <1>4 DEF Offsets

LEMMA NullCovers ==
    /\ NullTx \in Transactions /\ Placed(NullTx) /\ TxLength(NullTx) = 0
    /\ TxBytes(NullTx) = 0 /\ 0 \in 0..QuantumCount /\ 0 \in 0..QueueSize
  BY NullTxCovers, OpenTxPlaced, Constants

\* Consequences of CutInv that every step below uses.
LEMMA CutRanges ==
    ASSUME CutInv
    PROVE  /\ writePtr \in 0..(CounterMod - 1) /\ scribbled \in 0..QueueSize
           /\ TxLength(wtx) \in Nat /\ TxBytes(wtx) = TxLength(wtx) * Quantum
           /\ TxBytes(wtx) \in 0..QueueSize
           /\ \A j \in 0..(TxBytes(wtx) - 1) :
                /\ TxAddress(wtx, j) \in Offsets
                /\ Writer \notin caught => TxAddress(wtx, j) = (writePtr + j) % QueueSize
<1> USE DEF CutInv
<1>1. CASE wpc = "idle"
  <2>1. TxLength(wtx) = 0 /\ TxBytes(wtx) = 0
    BY <1>1, NullCovers DEF WriterCut
  <2>2. 0 = 0 * Quantum /\ 0 \in Nat /\ \A j \in 0..(0 - 1) : FALSE
    BY Constants
  <2> QED
    BY <2>1, <2>2, NullCovers DEF TypeOK
<1>2. CASE wpc = "filling"
  <2> DEFINE o == Writer \in caught
  <2>1. CutAt(wtx, writePtr, o) /\ o \in BOOLEAN
    BY <1>2 DEF WriterCut
  <2> HIDE DEF o
  <2>2. /\ TxLength(wtx) \in 0..QuantumCount
        /\ TxBytes(wtx) = TxLength(wtx) * Quantum
        /\ TxBytes(wtx) \in 0..QueueSize
        /\ \A j \in 0..(TxBytes(wtx) - 1) :
             /\ TxAddress(wtx, j) \in Offsets
             /\ ~o => TxAddress(wtx, j) = (writePtr + j) % QueueSize
    BY <2>1, CutCovers
  <2> QED
    BY <2>2, Constants DEF TypeOK, o
<1> QED
  BY <1>1, <1>2 DEF TypeOK

LEMMA CutRangesReader ==
    ASSUME CutInv, NEW r \in Readers
    PROVE  /\ readPtr[r] \in 0..(CounterMod - 1)
           /\ Backlog(r) \in 0..(CounterMod - 1)
           /\ TxLength(rtx[r]) \in Nat /\ TxBytes(rtx[r]) = TxLength(rtx[r]) * Quantum
           /\ TxBytes(rtx[r]) \in 0..QueueSize
           /\ \A j \in 0..(TxBytes(rtx[r]) - 1) :
                /\ TxAddress(rtx[r], j) \in Offsets
                /\ r \notin caught => TxAddress(rtx[r], j) = (readPtr[r] + j) % QueueSize
<1> USE DEF CutInv
<1> DEFINE tx == rtx[r]
           q == readPtr[r]
<1>0. q \in 0..(CounterMod - 1) /\ Backlog(r) \in 0..(CounterMod - 1)
  BY BacklogType DEF TypeOK
<1>1. CASE rpc[r] = "idle"
  <2>1. TxLength(tx) = 0 /\ TxBytes(tx) = 0
    BY <1>1, NullCovers DEF ReaderCut
  <2>2. 0 = 0 * Quantum /\ 0 \in Nat /\ \A j \in 0..(0 - 1) : FALSE
    BY Constants
  <2> QED
    BY <1>0, <2>1, <2>2, NullCovers
<1>2. CASE rpc[r] = "taking"
  <2> DEFINE o == r \in caught
  <2>1. CutAt(tx, q, o) /\ o \in BOOLEAN
    BY <1>2 DEF ReaderCut
  <2> HIDE DEF tx, q, o
  <2>2. /\ TxLength(tx) \in 0..QuantumCount
        /\ TxBytes(tx) = TxLength(tx) * Quantum
        /\ TxBytes(tx) \in 0..QueueSize
        /\ \A j \in 0..(TxBytes(tx) - 1) :
             /\ TxAddress(tx, j) \in Offsets
             /\ ~o => TxAddress(tx, j) = (q + j) % QueueSize
    BY <2>1, CutCovers
  <2> QED
    BY <1>0, <2>2, Constants DEF tx, q, o
<1> QED
  BY <1>1, <1>2 DEF TypeOK

LEMMA CutRangesAll ==
    CutInv => /\ writePtr \in 0..(CounterMod - 1) /\ TxBytes(wtx) \in 0..QueueSize
              /\ \A r \in Readers : /\ readPtr[r] \in 0..(CounterMod - 1)
                                    /\ Backlog(r) \in 0..(CounterMod - 1)
                                    /\ TxBytes(rtx[r]) \in 0..QueueSize
  BY CutRanges, CutRangesReader

LEMMA CutRangesNext ==
    (CutInv => /\ writePtr \in 0..(CounterMod - 1) /\ TxBytes(wtx) \in 0..QueueSize
               /\ \A r \in Readers : /\ readPtr[r] \in 0..(CounterMod - 1)
                                     /\ Backlog(r) \in 0..(CounterMod - 1)
                                     /\ TxBytes(rtx[r]) \in 0..QueueSize)'
  BY CutRangesAll, PTL

LEMMA LoadedRange ==
    ASSUME CutInv, NEW p \in Parties
    PROVE  loaded[p] \in 0..(CounterMod - 1) /\ loaded[p] \in Nat
  BY Constants DEF CutInv, CallTypes

\* A step of MessageQueue lets go only of parties that left their call, and
\* adds readers only when one that was caught, or granted blindly, takes it.
LEMMA StillCaught ==
    ASSUME NEW p \in Parties, Remembers(p)
    PROVE  /\ caught' \subseteq caught \cup Readers
           /\ p \notin caught /\ ~(p = Writer /\ blind) => caught' \subseteq caught
           /\ Writer \in caught' => Writer \in caught
           /\ wpc' = "filling" => (Writer \in caught' <=> Writer \in caught)
           /\ \A r \in Readers : Busy(r)' /\ r \in caught => r \in caught'
           /\ \A r \in Readers : rpc'[r] = "taking" /\ r \in caught => r \in caught'
<1>1. caught' = {q \in caught : Remains(q)'}
                \cup (IF p \in caught \/ (p = Writer /\ blind) THEN Lost' ELSE {})
  BY DEF Remembers
<1>2. Lost' \subseteq Readers
  BY DEF Lost
<1>3. wpc' = "filling" => Remains(Writer)'
  BY DEF Remains, Busy
<1>4. \A r \in Readers : (rpc'[r] = "taking" => Busy(r)') /\ (Busy(r)' => Remains(r)')
  BY ResetConstants DEF Remains, Busy
<1> QED
  BY <1>1, <1>2, <1>3, <1>4, ResetConstants

LEMMA CutHistory ==
    ASSUME CutInv, NEW p \in Parties, Remembers(p)
    PROVE  attaching' \subseteq Parties /\ caught' \subseteq Parties
           /\ torn' \in BOOLEAN /\ blind' \in BOOLEAN
<1>1. torn' = (torn \/ (Writer \in caught /\ writePtr' # writePtr))
  BY DEF Remembers
<1>2. torn' \in BOOLEAN
  BY <1>1, Zenon
<1>3. blind' = IF wpc = "idle" THEN wpc' = "filling" /\ caught # {}
                               ELSE wpc' = "filling" /\ blind
  BY DEF Remembers
<1>4. blind' \in BOOLEAN
  BY <1>3, Zenon
<1>5. attaching' = attaching
  BY DEF Remembers
<1> QED
  BY <1>2, <1>4, <1>5, StillCaught DEF CutInv, Parties

\* The bookkeeping of the calls.
LEMMA GoesTyped ==
    ASSUME CutInv, NEW p \in Parties,
           NEW s \in {"none", "beginning", "committing", "storing"},
           NEW ptr \in 0..(CounterMod - 1), Goes(p, s, ptr)
    PROVE  /\ CallTypes' /\ step'[p] = s /\ loaded'[p] = ptr
           /\ \A q \in Parties \ {p} : step'[q] = step[q] /\ loaded'[q] = loaded[q]
  BY DEF Goes, CutInv, CallTypes

LEMMA LeavesTyped ==
    ASSUME CutInv, NEW p \in Parties, Leaves(p)
    PROVE  /\ CallTypes' /\ step'[p] = "none"
           /\ \A q \in Parties \ {p} : step'[q] = step[q] /\ loaded'[q] = loaded[q]
  BY GoesTyped, ResetConstants DEF Leaves

LEMMA CallsTyped ==
    ASSUME CutInv, UNCHANGED calls
    PROVE  CallTypes' /\ \A p \in Parties : step'[p] = step[p] /\ loaded'[p] = loaded[p]
  BY DEF calls, CutInv, CallTypes

LEMMA CutWeakens ==
    ASSUME NEW tx, NEW now, NEW o, CutAt(tx, now, o)
    PROVE  \A later : CutAt(tx, later, TRUE)
  BY DEF CutAt

LEMMA WriterCutKept ==
    ASSUME CutInv, NEW p \in Parties, Remembers(p), wpc' = wpc, wtx' = wtx,
           writePtr' = writePtr, wpc = "idle" => wdata' = wdata
    PROVE  WriterCut'
  BY StillCaught DEF CutInv, WriterCut, CutAt

LEMMA ReaderCutKept ==
    ASSUME CutInv, NEW p \in Parties, Remembers(p), NEW r \in Readers,
           rpc'[r] = rpc[r], rtx'[r] = rtx[r], readPtr'[r] = readPtr[r],
           rpc[r] = "idle" => rdata'[r] = rdata[r],
           step'[r] = "beginning" => step[r] = "beginning" \/ rpc[r] = "idle"
    PROVE  ReaderCut(r)'
<1>1. rpc[r] = "taking" => (r \notin caught' => r \notin caught)
  BY StillCaught
<1>2. rpc[r] = "taking" => CutAt(rtx[r], readPtr[r], r \in caught')
  BY <1>1 DEF CutInv, ReaderCut, CutAt
<1> QED
  BY <1>2 DEF CutInv, ReaderCut, CutAt

LEMMA CutInit == InitReset => CutInv
<1> SUFFICES ASSUME InitReset PROVE CutInv
  OBVIOUS
<1>1. TypeOK
  BY TypeInit DEF InitReset, TypeInv
<1> QED
  BY <1>1, ResetConstants DEF InitReset, Init, CutInv, CallTypes, WriterCut, ReaderCut

\* A step of the writer leaves the readers alone.
LEMMA CutWriterStep ==
    ASSUME CutInv, Remembers(Writer), UNCHANGED <<reader, readPtr>>, TypeOK', WriterCut',
           CallTypes', \A r \in Readers : step'[r] = step[r]
    PROVE  CutInv'
<1>1. \A r \in Readers : ReaderCut(r)'
  BY ReaderCutKept, ResetConstants DEF reader
<1> QED
  BY <1>1, CutHistory, ResetConstants DEF CutInv

LEMMA OthersCalls ==
    ASSUME CutInv, UNCHANGED calls \/ Leaves(Writer)
    PROVE  CallTypes' /\ \A r \in Readers : step'[r] = step[r] /\ loaded'[r] = loaded[r]
<1>1. CASE UNCHANGED calls
  BY <1>1, CallsTyped, ResetConstants
<1>2. CASE Leaves(Writer)
  BY <1>2, LeavesTyped, ResetConstants
<1> QED
  BY <1>1, <1>2

LEMMA CutBeginWrite ==
    ASSUME CutInv, NEW n \in Counts, BeginWrite(n), UNCHANGED calls, Remembers(Writer)
    PROVE  CutInv' /\ n \in 0..QuantumCount /\ TxBytes(wtx)' = n * Quantum
<1> USE DEF BeginWrite
<1>1. n \in 0..QuantumCount /\ Aligned(writePtr) /\ writePtr \in 0..(CounterMod - 1)
  BY Constants DEF WriteRefused, CutInv, TypeOK
<1>2. wtx' = TxAt(writePtr, n) /\ TxAt(writePtr, n) \in Transactions
      /\ TxBytes(TxAt(writePtr, n)) = n * Quantum
  BY <1>1, TxAtCovers, Constants
<1>3. TypeOK'
  BY <1>2 DEF CutInv, TypeOK, shared, reader, history
<1>4. WriterCut'
  BY <1>1, <1>2 DEF WriterCut, CutAt, shared
<1> QED
  BY <1>1, <1>2, <1>3, <1>4, CutWriterStep, OthersCalls DEF shared

LEMMA CommitBytes ==
    ASSUME CutInv, NEW n \in Counts, n <= TxLength(wtx)
    PROVE  Bytes(n) \in 0..TxBytes(wtx) /\ Bytes(n) \in 0..QueueSize /\ Bytes(n) \in Nat
<1>1. TxLength(wtx) \in Nat /\ TxBytes(wtx) = TxLength(wtx) * Quantum
      /\ TxBytes(wtx) \in 0..QueueSize
  BY CutRanges
<1>2. Bytes(n) \in 0..TxBytes(wtx)
  BY <1>1, CommitFits
<1> QED
  BY <1>1, <1>2, Constants

LEMMA CommitReadBytes ==
    ASSUME CutInv, NEW r \in Readers, NEW n \in Counts, n <= TxLength(rtx[r])
    PROVE  Bytes(n) \in 0..TxBytes(rtx[r]) /\ Bytes(n) \in 0..QueueSize /\ Bytes(n) \in Nat
<1> DEFINE tx == rtx[r]
<1>1. TxLength(tx) \in Nat /\ TxBytes(tx) = TxLength(tx) * Quantum
      /\ TxBytes(tx) \in 0..QueueSize /\ n <= TxLength(tx)
  BY CutRangesReader
<1> HIDE DEF tx
<1>2. Bytes(n) \in 0..TxBytes(tx)
  BY <1>1, CommitFits
<1> QED
  BY <1>1, <1>2, Constants DEF tx

\* Where the committed bytes come from, and the older ones go to, in recent.
LEMMA MirrorIndex ==
    ASSUME NEW b \in 0..QueueSize, NEW a \in Offsets
    PROVE  /\ a < b => b - 1 - a \in 0..(b - 1) /\ b - 1 - a \in Offsets
           /\ ~(a < b) => a - b \in Offsets
  BY RingAssumption DEF Offsets

LEMMA CutStoreWritePtr ==
    ASSUME CutInv, NEW n \in Counts, StoreWritePtr(n), Remembers(Writer)
    PROVE  CutInv'
<1> DEFINE ptr == loaded[Writer]
<1>0. Commits(ptr, n) /\ Leaves(Writer) /\ ptr \in 0..(CounterMod - 1)
  BY LoadedRange, ResetConstants DEF StoreWritePtr
<1> HIDE DEF ptr
<1> USE DEF Commits, Filled
<1>1. Bytes(n) \in 0..QueueSize /\ Bytes(n) \in Nat
  BY <1>0, CommitBytes
<1>2. CounterAdd(ptr, Bytes(n)) \in 0..(CounterMod - 1)
  BY <1>0, <1>1, CounterArithmetic, ResetConstants
<1>3. recent' \in [Offsets -> Values]
  <2>1. ASSUME NEW a \in Offsets
        PROVE  (IF a < Bytes(n) THEN wdata[Bytes(n) - 1 - a]
                                ELSE recent[a - Bytes(n)]) \in Values
    <3>1. CASE a < Bytes(n)
      <4>1. Bytes(n) - 1 - a \in 0..(Bytes(n) - 1) /\ Bytes(n) - 1 - a \in Offsets
        BY <1>1, <3>1, MirrorIndex
      <4>2. wdata[Bytes(n) - 1 - a] # None
        BY <1>0, <4>1
      <4> QED
        BY <3>1, <4>1, <4>2 DEF CutInv, TypeOK
    <3>2. CASE ~(a < Bytes(n))
      <4>1. a - Bytes(n) \in Offsets
        BY <1>1, <3>2, MirrorIndex
      <4> QED
        BY <3>2, <4>1 DEF CutInv, TypeOK
    <3> QED
      BY <3>1, <3>2
  <2> QED
    BY <1>0, <2>1
<1>4. scribbled' \in 0..QueueSize
  BY <1>0, <1>1, Constants DEF CutInv, TypeOK
<1>5. wrapped' \in BOOLEAN
  <2>1. wrapped' = (wrapped \/ ptr + Bytes(n) >= CounterMod)
    BY <1>0
  <2> QED
    BY <2>1, Zenon
<1>6. TypeOK'
  BY <1>0, <1>2, <1>3, <1>4, <1>5, NullCovers, Constants DEF CutInv, TypeOK, reader
<1>7. WriterCut'
  BY <1>0 DEF WriterCut
<1>8. UNCHANGED <<reader, readPtr>>
  BY <1>0
<1> QED
  BY <1>0, <1>6, <1>7, <1>8, CutWriterStep, OthersCalls

LEMMA CutCopyTo ==
    ASSUME CutInv, NEW j \in Offsets, CopyTo(j), UNCHANGED calls, Remembers(Writer)
    PROVE  CutInv'
<1> USE DEF CopyTo
<1>1. TypeOK'
  <2>1. ring' \in [Offsets -> Values] /\ wdata' \in [Offsets -> Values \cup {None}]
    BY DEF CutInv, TypeOK
  <2>2. scribbled' \in 0..QueueSize
    BY Constants DEF CutInv, TypeOK
  <2> QED
    BY <2>1, <2>2 DEF CutInv, TypeOK, reader
<1>2. WriterCut'
  BY WriterCutKept, ResetConstants
<1> QED
  BY <1>1, <1>2, CutWriterStep, OthersCalls

LEMMA CutDropWrite ==
    ASSUME CutInv, DropWrite, Leaves(Writer), Remembers(Writer)
    PROVE  CutInv'
<1> USE DEF DropWrite, shared, reader, history
<1>1. TypeOK'
  BY NullCovers, Constants DEF CutInv, TypeOK
<1>2. WriterCut'
  BY DEF WriterCut
<1> QED
  BY <1>1, <1>2, CutWriterStep, OthersCalls

\* A reader's step leaves the writer and the other readers alone.
LEMMA CutReaderStep ==
    ASSUME CutInv, NEW r \in Readers, Remembers(r), UNCHANGED <<writePtr, writer>>,
           TypeOK', CallTypes', ReaderCut(r)',
           \A s \in Readers \ {r} : /\ rpc'[s] = rpc[s] /\ rtx'[s] = rtx[s]
                                    /\ rdata'[s] = rdata[s] /\ readPtr'[s] = readPtr[s]
                                    /\ step'[s] = step[s]
    PROVE  CutInv'
<1>0. r \in Parties
  BY ResetConstants
<1>1. WriterCut'
  BY <1>0, WriterCutKept DEF writer
<1>2. \A s \in Readers \ {r} : ReaderCut(s)'
  BY <1>0, ReaderCutKept
<1> QED
  BY <1>0, <1>1, <1>2, CutHistory DEF CutInv

\* A step that moves only the call along.
LEMMA CutQuiet ==
    ASSUME CutInv, NEW p \in Parties, UNCHANGED vars, Remembers(p),
           CallTypes', \A q \in Parties \ {p} : step'[q] = step[q],
           p \in Readers /\ step'[p] = "beginning" => rpc[p] = "idle"
    PROVE  CutInv'
<1> USE DEF vars, shared, writer, reader, history
<1>1. TypeOK'
  BY DEF CutInv, TypeOK
<1>2. WriterCut'
  BY WriterCutKept
<1>3. ASSUME NEW r \in Readers PROVE ReaderCut(r)'
  <2>1. step'[r] = "beginning" => step[r] = "beginning" \/ rpc[r] = "idle"
    BY ResetConstants
  <2> QED
    BY <2>1, ReaderCutKept
<1> QED
  BY <1>1, <1>2, <1>3, CutHistory DEF CutInv

\* The calls' steps that leave the queue as it is.
QuietSteps(r) ==
    \/ BeginReadLoad(r) \/ BeginReadGivesUp(r)
    \/ CommitReadLoad(r) \/ CommitReadGivesUp(r)
    \/ \E n \in Counts : BeginReadRefuses(r, n) \/ CommitReadKeeps(r, n)

LEMMA QuietCalls ==
    ASSUME CutInv, NEW r \in Readers, QuietSteps(r)
    PROVE  /\ UNCHANGED vars /\ CallTypes'
           /\ \A q \in Parties \ {r} : step'[q] = step[q] /\ loaded'[q] = loaded[q]
           /\ step'[r] = "beginning" => rpc[r] = "idle"
<1>1. /\ r \in Parties /\ writePtr \in 0..(CounterMod - 1) /\ readPtr[r] \in 0..(CounterMod - 1)
      /\ loaded[r] \in 0..(CounterMod - 1)
      /\ \A n \in Counts : CounterAdd(loaded[r], Bytes(n)) \in 0..(CounterMod - 1)
  <2>1. r \in Parties /\ writePtr \in 0..(CounterMod - 1) /\ readPtr[r] \in 0..(CounterMod - 1)
    BY ResetConstants, CutRanges, CutRangesReader
  <2> DEFINE ptr == loaded[r]
  <2>2. ptr \in 0..(CounterMod - 1)
    BY <2>1, LoadedRange
  <2> HIDE DEF ptr
  <2>3. \A n \in Counts : CounterAdd(ptr, Bytes(n)) \in 0..(CounterMod - 1)
    BY <2>2, CounterArithmetic, ResetConstants, Constants
  <2> QED
    BY <2>1, <2>2, <2>3 DEF ptr
<1>2. CASE BeginReadLoad(r)
  BY <1>1, <1>2, GoesTyped DEF BeginReadLoad
<1>3. CASE CommitReadLoad(r)
  BY <1>1, <1>3, GoesTyped DEF CommitReadLoad
<1>4. CASE BeginReadGivesUp(r)
  BY <1>1, <1>4, GoesTyped DEF BeginReadGivesUp
<1>5. CASE CommitReadGivesUp(r)
  BY <1>1, <1>5, GoesTyped DEF CommitReadGivesUp
<1>6. ASSUME NEW n \in Counts, CommitReadKeeps(r, n)
      PROVE  /\ UNCHANGED vars /\ CallTypes'
             /\ \A q \in Parties \ {r} : step'[q] = step[q] /\ loaded'[q] = loaded[q]
             /\ step'[r] = "storing"
  BY <1>1, <1>6, GoesTyped DEF CommitReadKeeps
<1>7. ASSUME NEW n \in Counts, BeginReadRefuses(r, n)
      PROVE  /\ UNCHANGED vars /\ CallTypes'
             /\ \A q \in Parties \ {r} : step'[q] = step[q] /\ loaded'[q] = loaded[q]
             /\ step'[r] = "none"
  BY <1>1, <1>7, LeavesTyped DEF BeginReadRefuses
<1> QED
  BY <1>2, <1>3, <1>4, <1>5, <1>6, <1>7 DEF QuietSteps

LEMMA CutQuietSteps ==
    ASSUME CutInv, NEW r \in Readers, QuietSteps(r), Remembers(r)
    PROVE  CutInv'
  BY QuietCalls, CutQuiet, ResetConstants

LEMMA CutLoadWritePtr ==
    ASSUME CutInv, LoadWritePtr, Remembers(Writer)
    PROVE  /\ CutInv' /\ UNCHANGED vars /\ loaded'[Writer] = writePtr
           /\ \A r \in Readers : step'[r] = step[r] /\ loaded'[r] = loaded[r]
<1>1. writePtr \in 0..(CounterMod - 1)
  BY CutRanges
<1>2. /\ CallTypes' /\ loaded'[Writer] = writePtr /\ UNCHANGED vars
      /\ \A q \in Parties \ {Writer} : step'[q] = step[q] /\ loaded'[q] = loaded[q]
  BY <1>1, GoesTyped, ResetConstants DEF LoadWritePtr
<1> QED
  BY <1>2, CutQuiet, ResetConstants

\* What beginRead decides from the two counters it loaded.
LEMMA CutBeginReadGrants ==
    ASSUME CutInv, NEW r \in Readers, NEW n \in Counts, BeginReadGrants(r, n), Remembers(r)
    PROVE  /\ CutInv' /\ TxBytes(rtx[r])' = n * Quantum /\ n * Quantum \in 0..Seen(r)
           /\ Seen(r) <= QueueSize /\ rdata'[r] = Blank /\ step'[r] = "none"
           /\ \A q \in Parties \ {r} : step'[q] = step[q] /\ loaded'[q] = loaded[q]
           /\ \A s \in Readers \ {r} : rpc'[s] = rpc[s] /\ rtx'[s] = rtx[s]
<1> USE DEF BeginReadGrants
<1> DEFINE q == readPtr[r]
           ptr == loaded[r]
<1>0. /\ q \in 0..(CounterMod - 1) /\ ptr \in 0..(CounterMod - 1)
      /\ Seen(r) = CounterSub(ptr, q) /\ Aligned(q) /\ rdata[r] = Blank
  BY CutRangesReader, LoadedRange, ResetConstants
     DEF Seen, AvailableToReadBytes, SeenAligned, CutInv, ReaderCut
<1>1. n \in Nat /\ n * Quantum \in Nat /\ n * Quantum <= Seen(r)
      /\ Seen(r) \in Nat /\ Seen(r) <= QueueSize
  <2> HIDE DEF q, ptr
  <2>1. Seen(r) \in 0..(CounterMod - 1)
    BY <1>0, CounterArithmetic, 0 \in Nat
  <2> QED
    BY <2>1, Constants
<1>2. n \in 0..QuantumCount /\ n * Quantum \in 0..Seen(r)
  BY <1>1, QuantumCountBytes, Constants
<1>4. /\ rtx' = [rtx EXCEPT ![r] = TxAt(q, n)] /\ rpc' = [rpc EXCEPT ![r] = "taking"]
      /\ rdata' = rdata /\ UNCHANGED <<shared, writer, history>> /\ Leaves(r)
  OBVIOUS
<1>5. q' = q
  BY DEF shared
<1>6. /\ CallTypes' /\ step'[r] = "none"
      /\ \A s \in Parties \ {r} : step'[s] = step[s] /\ loaded'[s] = loaded[s]
  BY LeavesTyped, ResetConstants
<1> HIDE DEF q, ptr, BeginReadGrants
<1>7. TxAt(q, n) \in Transactions /\ TxBytes(TxAt(q, n)) = n * Quantum
  BY <1>0, <1>2, TxAtCovers, Constants
<1>8. rtx'[r] = TxAt(q, n) /\ rpc'[r] = "taking"
      /\ \A s \in Readers \ {r} : rpc'[s] = rpc[s] /\ rtx'[s] = rtx[s]
  BY <1>4 DEF CutInv, TypeOK
<1>9. TypeOK'
  BY <1>4, <1>7 DEF TypeOK, CutInv, shared, writer, history
<1>10. ReaderCut(r)'
  <2>1. CutAt(rtx[r], readPtr[r], r \in caught)'
    BY <1>0, <1>2, <1>5, <1>8 DEF CutAt, q
  <2> QED
    BY <1>6, <1>8, <2>1 DEF ReaderCut
<1>11. \A s \in Readers \ {r} : /\ rpc'[s] = rpc[s] /\ rtx'[s] = rtx[s]
                                /\ rdata'[s] = rdata[s] /\ readPtr'[s] = readPtr[s]
                                /\ step'[s] = step[s]
  BY <1>4, <1>6, <1>8, ResetConstants DEF shared
<1>12. CutInv'
  BY <1>4, <1>6, <1>9, <1>10, <1>11, CutReaderStep DEF shared
<1> QED
  BY <1>0, <1>1, <1>2, <1>4, <1>6, <1>7, <1>8, <1>12

LEMMA CutCopyFrom ==
    ASSUME CutInv, NEW r \in Readers, NEW j \in Offsets, CopyFrom(r, j), UNCHANGED calls,
           Remembers(r)
    PROVE  CutInv' /\ j \in 0..(TxBytes(rtx[r]) - 1)
<1> USE DEF CopyFrom, shared, writer, history
<1>1. j \in 0..(TxBytes(rtx[r]) - 1)
  <2>1. TxBytes(rtx[r]) \in Nat /\ j \in Nat /\ j < TxBytes(rtx[r])
    BY CutRangesReader, Constants
  <2> QED
    BY <2>1
<1>2. TxAddress(rtx[r], j) \in Offsets
  BY <1>1, CutRangesReader
<1>3. TypeOK'
  BY <1>2 DEF TypeOK, CutInv
<1>4. CallTypes' /\ step' = step
  BY CallsTyped DEF calls
<1>5. ReaderCut(r)'
  BY <1>4, ReaderCutKept, ResetConstants DEF CutInv, TypeOK
<1>6. \A s \in Readers \ {r} : rdata'[s] = rdata[s]
  BY DEF CutInv, TypeOK
<1> QED
  BY <1>1, <1>3, <1>4, <1>5, <1>6, CutReaderStep

\* A closed transaction is a good one.
LEMMA DoneIsCut ==
    ASSUME CutInv, NEW r \in Readers, ReaderDone(r)
    PROVE  /\ rtx'[r] = NullTx /\ rdata'[r] = Blank
           /\ TxBytes(rtx[r])' = 0 /\ rpc'[r] = "idle"
           /\ \A s \in Readers \ {r} : rpc'[s] = rpc[s] /\ rtx'[s] = rtx[s]
                                       /\ rdata'[s] = rdata[s]
           /\ rpc' \in [Readers -> {"idle", "taking"}]
           /\ rtx' \in [Readers -> Transactions]
           /\ rdata' \in [Readers -> [Offsets -> Values \cup {None}]]
<1>1. rpc'[r] = "idle" /\ rtx'[r] = NullTx /\ rdata'[r] = Blank
  BY DEF ReaderDone, CutInv, TypeOK
<1> QED
  BY <1>1, NullCovers, Constants DEF ReaderDone, CutInv, TypeOK

\* The steps that end a reader's transaction, or a beginRead that gave up.
LEMMA CutReaderEnds ==
    ASSUME CutInv, NEW r \in Readers, Remembers(r),
           StoreReadPtr(r) \/ ((DropRead(r) \/ ReattachReader(r)) /\ Leaves(r))
    PROVE  /\ CutInv' /\ ReaderDone(r) /\ step'[r] = "none"
           /\ UNCHANGED <<writePtr, ring, writer, history>>
           /\ \A q \in Parties \ {r} : step'[q] = step[q] /\ loaded'[q] = loaded[q]
           /\ \A s \in Readers \ {r} : readPtr'[s] = readPtr[s]
           /\ \/ step[r] = "storing" /\ readPtr'[r] = loaded[r]
              \/ readPtr'[r] = readPtr[r]
              \/ ~Synchronized /\ readPtr'[r] = 0
<1>0. r \in Parties /\ loaded[r] \in 0..(CounterMod - 1)
  BY LoadedRange, ResetConstants
<1>1. /\ ReaderDone(r) /\ UNCHANGED <<writePtr, ring, writer, history>> /\ Leaves(r)
      /\ \/ step[r] = "storing" /\ readPtr' = [readPtr EXCEPT ![r] = loaded[r]]
         \/ readPtr' = readPtr
         \/ ~Synchronized /\ readPtr' = [readPtr EXCEPT ![r] = 0]
  BY DEF StoreReadPtr, DropRead, ReattachReader, shared
<1>2. /\ readPtr' \in [Readers -> 0..(CounterMod - 1)]
      /\ \A s \in Readers \ {r} : readPtr'[s] = readPtr[s]
      /\ \/ step[r] = "storing" /\ readPtr'[r] = loaded[r]
         \/ readPtr'[r] = readPtr[r]
         \/ ~Synchronized /\ readPtr'[r] = 0
  BY <1>0, <1>1, ResetConstants DEF CutInv, TypeOK
<1>3. /\ CallTypes' /\ step'[r] = "none"
      /\ \A q \in Parties \ {r} : step'[q] = step[q] /\ loaded'[q] = loaded[q]
  BY <1>0, <1>1, LeavesTyped
<1>4. TypeOK'
  BY <1>1, <1>2, DoneIsCut DEF CutInv, TypeOK, writer, history
<1>5. ReaderCut(r)'
  BY <1>1, <1>3, DoneIsCut DEF ReaderCut
<1>6. CutInv'
  BY <1>1, <1>2, <1>3, <1>4, <1>5, DoneIsCut, CutReaderStep, ResetConstants
<1> QED
  BY <1>1, <1>2, <1>3, <1>6

-----------------------------------------------------------------------------
\* The two stores of a reset.

\* Who is still in a transaction, or a call, after the first store.
LEMMA LeftBehind ==
    ASSUME CutInv, NEW p \in Parties, ResetReadPtr(p)
    PROVE  /\ CallTypes' /\ step'[p] = "none"
           /\ \A q \in Parties \ {p} : step'[q] = step[q] /\ loaded'[q] = loaded[q]
           /\ readPtr' \in [Readers -> 0..(CounterMod - 1)]
           /\ \A r \in Readers : /\ readPtr'[r] \in {0, readPtr[r]}
                                 /\ Synchronized => readPtr'[r] = 0
           /\ \A r \in Readers \ {p} :
                 /\ rpc'[r] = rpc[r] /\ rtx'[r] = rtx[r] /\ rdata'[r] = rdata[r]
                 /\ ~Synchronized => readPtr'[r] = readPtr[r]
           /\ p \in Readers => ReaderDone(p) /\ UNCHANGED writer
           /\ p = Writer => wpc' = "idle" /\ wtx' = NullTx /\ wdata' = Blank
           /\ UNCHANGED <<writePtr, ring, history, torn, fresh>>
           /\ rpc' \in [Readers -> {"idle", "taking"}]
           /\ rtx' \in [Readers -> Transactions]
           /\ rdata' \in [Readers -> [Offsets -> Values \cup {None}]]
<1>1. /\ readPtr' = [r \in Readers |-> IF Synchronized \/ r = p THEN 0 ELSE readPtr[r]]
      /\ Restarts(p) /\ Leaves(p) /\ UNCHANGED <<writePtr, ring, history, torn, fresh>>
  BY DEF ResetReadPtr
<1>2. readPtr' \in [Readers -> 0..(CounterMod - 1)]
  <2>1. \A r \in Readers : readPtr[r] \in 0..(CounterMod - 1)
    BY CutRangesReader
  <2> QED
    BY <1>1, <2>1, ResetConstants
<1>3. CASE p = Writer
  <2>1. wpc' = "idle" /\ wtx' = NullTx /\ wdata' = Blank /\ UNCHANGED reader
    BY <1>1, <1>3, ResetConstants DEF Restarts
  <2> QED
    BY <1>1, <1>2, <1>3, <2>1, LeavesTyped, ResetConstants DEF reader, CutInv, TypeOK
<1>4. CASE p \in Readers
  <2>1. ReaderDone(p) /\ UNCHANGED writer
    BY <1>1, <1>4, ResetConstants DEF Restarts
  <2>2. /\ \A r \in Readers \ {p} : rpc'[r] = rpc[r] /\ rtx'[r] = rtx[r]
                                    /\ rdata'[r] = rdata[r]
        /\ rpc' \in [Readers -> {"idle", "taking"}]
        /\ rtx' \in [Readers -> Transactions]
        /\ rdata' \in [Readers -> [Offsets -> Values \cup {None}]]
    BY <1>4, <2>1, DoneIsCut
  <2>3. p # Writer
    BY <1>4, ResetConstants
  <2> QED
    BY <1>1, <1>2, <1>4, <2>1, <2>2, <2>3, LeavesTyped
<1> QED
  BY <1>3, <1>4 DEF Parties

\* Whom the first store overtakes.
LEMMA FirstStoreCatches ==
    ASSUME CutInv, NEW p \in Parties, ResetReadPtr(p)
    PROVE  /\ attaching' \subseteq Parties /\ attaching' # {}
           /\ caught' \subseteq Parties /\ blind' \in BOOLEAN
           /\ blind' => blind /\ wpc' = "filling"
           /\ \A q \in caught' : Busy(q)'
           /\ Writer \in caught' => Writer \in caught
           /\ wpc' = "filling" => (Writer \in caught' <=> Writer \in caught)
           /\ \A r \in Readers : Busy(r)' => /\ Synchronized => r \in caught'
                                             /\ r \in caught => r \in caught'
                                             /\ r # p
<1>1. /\ attaching' = attaching \cup {p} /\ blind' = (wpc' = "filling" /\ blind)
      /\ caught' = {q \in caught \cup (IF Synchronized THEN Readers ELSE {}) : Busy(q)'}
  BY DEF ResetReadPtr
<1>2. blind' \in BOOLEAN
  BY <1>1, Zenon
<1>3. Readers \subseteq Parties /\ caught \subseteq Parties /\ attaching \subseteq Parties
  BY ResetConstants DEF CutInv
<1>4. wpc' = "filling" => Busy(Writer)'
  BY DEF Busy
<1>5. ASSUME NEW r \in Readers, Busy(r)' PROVE r # p
  <2>1. CASE r = p
    <3>1. rpc'[p] = "idle" /\ step'[p] = "none"
      BY <2>1, LeftBehind, DoneIsCut
    <3>2. Busy(p)' <=> rpc'[p] = "taking" \/ step'[p] # "none"
      BY <2>1, ResetConstants DEF Busy
    <3> QED
      BY <1>5, <2>1, <3>1, <3>2
  <2> QED
    BY <2>1
<1>6. /\ attaching' \subseteq Parties /\ attaching' # {} /\ caught' \subseteq Parties
      /\ \A q \in caught' : Busy(q)'
  BY <1>1, <1>3
<1>7. Writer \in caught' => Writer \in caught
  BY <1>1, ResetConstants
<1>8. \A r \in Readers : Busy(r)' => /\ Synchronized => r \in caught'
                                     /\ r \in caught => r \in caught'
  BY <1>1
<1> QED
  BY <1>1, <1>2, <1>4, <1>5, <1>6, <1>7, <1>8

LEMMA TakingIsBusy ==
    ASSUME NEW r \in Readers
    PROVE  /\ rpc[r] = "taking" \/ step[r] # "none" <=> Busy(r)
           /\ rpc'[r] = "taking" \/ step'[r] # "none" <=> Busy(r)'
  BY ResetConstants DEF Busy

LEMMA CutResetReadPtr ==
    ASSUME CutInv, NEW p \in Parties, ResetReadPtr(p)
    PROVE  CutInv'
<1>1. /\ attaching' \subseteq Parties /\ caught' \subseteq Parties
      /\ torn' \in BOOLEAN /\ blind' \in BOOLEAN
  BY FirstStoreCatches, LeftBehind DEF CutInv
<1>2. UNCHANGED writer \/ (wpc' = "idle" /\ wtx' = NullTx /\ wdata' = Blank)
  BY LeftBehind DEF Parties
<1>3. TypeOK'
  BY <1>2, LeftBehind, NullCovers, Constants DEF CutInv, TypeOK, writer, history
<1>4. WriterCut'
  BY <1>2, LeftBehind, FirstStoreCatches DEF CutInv, WriterCut, writer, CutAt
<1>5. ASSUME NEW r \in Readers PROVE ReaderCut(r)'
  <2>1. CASE r = p
    BY <2>1, LeftBehind, DoneIsCut DEF ReaderCut
  <2>2. CASE r # p
    <3>1. /\ rpc'[r] = rpc[r] /\ rtx'[r] = rtx[r] /\ rdata'[r] = rdata[r]
          /\ step'[r] = step[r] /\ (~Synchronized => readPtr'[r] = readPtr[r])
      BY <2>2, LeftBehind, ResetConstants
    <3>2. rpc[r] = "taking" => CutAt(rtx[r], readPtr'[r], r \in caught')
      <4>1. CASE rpc[r] = "taking" /\ Synchronized
        <5>1. r \in caught' /\ CutAt(rtx[r], readPtr[r], r \in caught)
          BY <3>1, <4>1, TakingIsBusy, FirstStoreCatches DEF CutInv, ReaderCut
        <5>2. CutAt(rtx[r], readPtr'[r], TRUE)
          BY <5>1, CutWeakens
        <5> QED
          BY <5>1, <5>2 DEF CutAt
      <4>2. CASE rpc[r] = "taking" /\ ~Synchronized
        <5>1. readPtr'[r] = readPtr[r] /\ (r \notin caught' => r \notin caught)
          BY <3>1, <4>2, TakingIsBusy, FirstStoreCatches
        <5>2. CutAt(rtx[r], readPtr[r], r \in caught)
          BY <4>2 DEF CutInv, ReaderCut
        <5> QED
          BY <5>1, <5>2 DEF CutAt
      <4> QED
        BY <4>1, <4>2
    <3>3. /\ step[r] = "beginning" => rpc[r] = "idle"
          /\ rpc[r] = "idle" => rtx[r] = NullTx /\ rdata[r] = Blank
      BY DEF CutInv, ReaderCut
    <3> QED
      BY <3>1, <3>2, <3>3 DEF ReaderCut, CutAt
  <2> QED
    BY <2>1, <2>2
<1> QED
  BY <1>1, <1>3, <1>4, <1>5, LeftBehind DEF CutInv

\* What the second store does, and whom it overtakes.
LEMMA SecondStoreCatches ==
    ASSUME CutInv, NEW p \in Parties, ResetWritePtr(p)
    PROVE  /\ UNCHANGED <<readPtr, ring, writer, reader, recent, wrapped, step, loaded>>
           /\ writePtr' = 0 /\ attaching' \subseteq Parties /\ caught' \subseteq Parties
           /\ torn' = FALSE /\ blind' = FALSE /\ fresh' = 0 /\ scribbled' = 0
           /\ \A q \in caught' : Remains(q)'
           /\ Writer \in caught' <=> wpc = "filling"
           /\ \A r \in Readers : /\ Busy(r) => r \in caught'
                                 /\ r \notin caught' => ~(Synchronized /\ Overflow(r)')
<1>1. /\ UNCHANGED <<readPtr, ring, writer, reader, recent, wrapped, step, loaded>>
      /\ writePtr' = 0 /\ attaching' = attaching \ {p}
      /\ torn' = FALSE /\ blind' = FALSE /\ fresh' = 0 /\ scribbled' = 0
      /\ caught' = {q \in Parties : Remains(q)'}
  BY DEF ResetWritePtr, calls
<1>2. Remains(Writer)' <=> wpc = "filling"
  BY <1>1, ResetConstants DEF Remains, Busy, Lost, writer
<1>3. ASSUME NEW r \in Readers
      PROVE  Remains(r)' <=> Busy(r) \/ (Synchronized /\ Overflow(r)')
  <2>1. Busy(r)' <=> Busy(r)
    BY <1>1 DEF Busy, writer, reader
  <2>2. r \in Lost' <=> Synchronized /\ Overflow(r)'
    BY DEF Lost, Synchronized
  <2> QED
    BY <2>1, <2>2 DEF Remains
<1> QED
  BY <1>1, <1>2, <1>3, ResetConstants DEF CutInv

LEMMA CutResetWritePtr ==
    ASSUME CutInv, NEW p \in Parties, ResetWritePtr(p)
    PROVE  CutInv'
<1>1. TypeOK' /\ CallTypes'
  <2>1. 0 \in 0..(CounterMod - 1) /\ 0 \in 0..QueueSize
    BY Constants
  <2>2. /\ UNCHANGED <<readPtr, ring, writer, reader, recent, wrapped, step, loaded>>
        /\ writePtr' = 0 /\ scribbled' = 0
    BY SecondStoreCatches
  <2> QED
    BY <2>1, <2>2 DEF CutInv, CallTypes, TypeOK, writer, reader
<1>2. WriterCut'
  <2>1. wpc = "filling" => Writer \in caught' /\ CutAt(wtx, writePtr', TRUE)
    BY SecondStoreCatches, CutWeakens DEF CutInv, WriterCut
  <2> QED
    BY <2>1, SecondStoreCatches DEF CutInv, WriterCut, writer, CutAt
<1>3. ASSUME NEW r \in Readers PROVE ReaderCut(r)'
  <2>1. rpc[r] = "taking" => r \in caught' /\ CutAt(rtx[r], readPtr[r], TRUE)
    BY SecondStoreCatches, TakingIsBusy, CutWeakens DEF CutInv, ReaderCut
  <2> QED
    BY <2>1, SecondStoreCatches DEF CutInv, ReaderCut, reader, CutAt
<1> QED
  BY <1>1, <1>2, <1>3, SecondStoreCatches DEF CutInv

LEMMA CutStutter ==
    ASSUME CutInv, UNCHANGED allVars
    PROVE  CutInv'
  BY DEF CutInv, CallTypes, TypeOK, WriterCut, ReaderCut, CutAt, allVars, resetVars, calls,
     vars, shared, writer, reader, history

LEMMA ReaderStepKinds ==
    ASSUME NEW r \in Readers, ReaderSteps(r)
    PROVE  \/ QuietSteps(r)
           \/ \E n \in Counts : BeginReadGrants(r, n)
           \/ \E j \in Offsets : CopyFrom(r, j) /\ UNCHANGED calls
           \/ StoreReadPtr(r) \/ ((DropRead(r) \/ ReattachReader(r)) /\ Leaves(r))
  BY DEF ReaderSteps, QuietSteps

LEMMA WriterStepKinds ==
    ASSUME WriterSteps
    PROVE  \/ \E n \in Counts : BeginWrite(n) /\ UNCHANGED calls /\ step[Writer] = "none"
           \/ UNCHANGED <<vars, calls>>
           \/ \E j \in Offsets : CopyTo(j) /\ UNCHANGED calls /\ step[Writer] = "none"
           \/ LoadWritePtr
           \/ \E n \in Counts : StoreWritePtr(n)
           \/ DropWrite /\ Leaves(Writer)
  BY DEF WriterSteps, BeginWriteFails

LEMMA CutIdle ==
    ASSUME CutInv, UNCHANGED <<vars, calls>>, Remembers(Writer)
    PROVE  CutInv'
  BY CallsTyped, CutQuiet, ResetConstants

LEMMA CutNext == CutInv /\ [NextReset]_allVars => CutInv'
<1> SUFFICES ASSUME CutInv, [NextReset]_allVars PROVE CutInv'
  OBVIOUS
<1>1. ASSUME WriterSteps, Remembers(Writer) PROVE CutInv'
  BY <1>1, WriterStepKinds, CutBeginWrite, CutIdle, CutCopyTo, CutLoadWritePtr,
     CutStoreWritePtr, CutDropWrite
<1>2. ASSUME NEW r \in Readers, ReaderSteps(r), Remembers(r) PROVE CutInv'
  BY <1>2, ReaderStepKinds, CutQuietSteps, CutBeginReadGrants, CutCopyFrom, CutReaderEnds
<1> QED
  BY <1>1, <1>2, CutStutter, CutResetReadPtr, CutResetWritePtr DEF NextReset

\* Where transactions lie holds in every state, initMemory's two stores included.
THEOREM CutInvariant == SpecReset => []CutInv
  BY CutInit, CutNext, PTL DEF SpecReset

\* What one begin hands out lies in the ring, and not twice.
LEMMA CutInRing ==
    ASSUME NEW tx, NEW now, NEW o, CutAt(tx, now, o)
    PROVE  /\ TxLength(tx) <= QuantumCount
           /\ RegionInRing(tx.first) /\ RegionInRing(tx.second)
           /\ tx.second.length > 0 =>
                 tx.second.address + tx.second.length * Quantum <= tx.first.address
<1>1. PICK p \in 0..(CounterMod - 1), n \in 0..QuantumCount :
          Aligned(p) /\ tx = TxAt(p, n)
  BY DEF CutAt
<1> DEFINE off == p % QueueSize
           c == Contiguous(p)
<1>2. p \in Nat /\ n \in Nat /\ QuantumCount \in Nat /\ QueueSize \in Nat
      /\ QuantumCount * Quantum = QueueSize /\ off \in 0..(QueueSize - 1)
  BY Constants, QuantumCountBytes, DivMod
<1>3. c \in 1..QuantumCount /\ c * Quantum = QueueSize - off
  BY <1>1, <1>2, ContiguousExact
<1>4. TxLength(tx) = n
  BY <1>1, <1>2, TxAtCovers
<1>5. tx = IF c < n
           THEN [first |-> Region(off, c), second |-> Region(0, n - c)]
           ELSE [first |-> Region(off, n), second |-> Region(Null, 0)]
  BY <1>1 DEF TxAt
<1> HIDE DEF off, c
<1>i. n \in Int /\ c \in Int /\ QuantumCount \in Int /\ n <= QuantumCount
  BY <1>2, <1>3
<1>6. n * Quantum <= QuantumCount * Quantum /\ (n - c) * Quantum = n * Quantum - c * Quantum
      /\ (n <= c => n * Quantum <= c * Quantum)
      /\ n * Quantum \in Int /\ c * Quantum \in Int
  BY <1>i, Scaled
<1>7. CASE c < n
  <2>1. tx.first = Region(off, c) /\ tx.second = Region(0, n - c)
    BY <1>5, <1>7
  <2>2. RegionInRing(tx.first)
    BY <1>2, <1>3, <2>1, Constants DEF RegionInRing, Region
  <2>3. 0 + (n - c) * Quantum <= off
    BY <1>2, <1>3, <1>6
  <2>4. RegionInRing(tx.second)
    <3>1. 0 \in Offsets /\ 0 + (n - c) * Quantum <= QueueSize
      BY <1>2, <1>3, <1>6, <2>3, Constants
    <3> QED
      BY <2>1, <3>1 DEF RegionInRing, Region
  <2> QED
    BY <1>4, <2>1, <2>2, <2>3, <2>4 DEF Region
<1>8. CASE ~(c < n)
  <2>1. tx.first = Region(off, n) /\ tx.second = Region(Null, 0)
    BY <1>5, <1>8
  <2>2. off + n * Quantum <= QueueSize
    BY <1>2, <1>3, <1>6, <1>8
  <2> QED
    BY <1>2, <1>4, <2>1, <2>2, Constants DEF RegionInRing, Region
<1> QED
  BY <1>7, <1>8

LEMMA InRingFromInvariant == CutInv => TransactionsInRing
<1> SUFFICES ASSUME CutInv, NEW tx \in OpenTransactions
             PROVE  /\ TxLength(tx) <= QuantumCount
                    /\ RegionInRing(tx.first) /\ RegionInRing(tx.second)
                    /\ tx.second.length > 0 =>
                          tx.second.address + tx.second.length * Quantum <= tx.first.address
  BY DEF TransactionsInRing
<1>1. tx = NullTx \/ \E now : \E o : CutAt(tx, now, o)
  BY DEF OpenTransactions, CutInv, WriterCut, ReaderCut, TypeOK
<1>2. CASE tx = NullTx
  BY <1>2, NullCovers, Constants DEF RegionInRing, NullTx, Region
<1> QED
  BY <1>1, <1>2, CutInRing

\* No reset, at whatever moment, lets a begin hand out memory outside the ring
\* or the same byte twice: the check of the size in beginWrite and of the
\* overflow in beginRead do not depend on where the peer's counter stands.
THEOREM ResetsKeepTransactionsInRing == SpecReset => []TransactionsInRing
  BY CutInvariant, InRingFromInvariant, PTL
-----------------------------------------------------------------------------
\* The counters between two resets.

\* Counters that stay away from their wrap: a reader is not ahead of writePtr
\* exactly when it sees no more than the size, give or take a full queue.
LEMMA Distance ==
    ASSUME NEW w \in Nat, NEW q \in Nat, Counted(w), Counted(q)
    PROVE  /\ w \in 0..(CounterMod - 1) /\ q \in 0..(CounterMod - 1)
           /\ q <= w => CounterSub(w, q) = w - q
           /\ q > w => CounterSub(w, q) > QueueSize
<1>1. QueueSize \in Nat /\ CounterMod \in Nat \ {0}
      /\ w < CounterMod - QueueSize /\ q < CounterMod - QueueSize
  BY Constants DEF Counted
<1>2. w \in 0..(CounterMod - 1) /\ q \in 0..(CounterMod - 1)
  BY <1>1
<1>3. q <= w => CounterSub(w, q) = w - q
  BY <1>2, CounterArithmetic, 0 \in Nat
<1>4. ASSUME q > w PROVE CounterSub(w, q) = CounterMod + (w - q)
  <2> DEFINE x == CounterMod + (w - q)
             d == w - q
  <2>1. x \in 0..(CounterMod - 1) /\ d \in Int /\ d = CounterMod * (-1) + x /\ -1 \in Int
    BY <1>1, <1>4
  <2> HIDE DEF x, d
  <2>2. d % CounterMod = x
    BY <1>1, <2>1, ModUnique
  <2> QED
    BY <2>2 DEF CounterSub, x, d
<1> QED
  BY <1>1, <1>2, <1>3, <1>4

LEMMA CountedAdd ==
    ASSUME NEW p \in Nat, NEW b \in Nat, Counted(p + b)
    PROVE  CounterAdd(p, b) = p + b /\ Counted(p) /\ p + b < CounterMod
           /\ p \in 0..(CounterMod - 1)
<1>1. QueueSize \in Nat /\ CounterMod \in Nat \ {0} /\ p + b < CounterMod - QueueSize
  BY Constants DEF Counted
<1>2. p \in 0..(CounterMod - 1) /\ p + b < CounterMod
  BY <1>1
<1> QED
  BY <1>1, <1>2, CounterArithmetic, ResetConstants DEF Counted

\* What the counters of one reader say.
LEMMA ReaderDistance ==
    ASSUME CutInv, CountedInv, NEW r \in Readers
    PROVE  /\ writePtr \in Nat /\ readPtr[r] \in Nat /\ Backlog(r) \in Nat
           /\ TxBytes(rtx[r]) \in 0..QueueSize /\ QueueSize \in Nat
           /\ Counted(readPtr[r]) /\ Counted(writePtr)
           /\ readPtr[r] <= writePtr => Backlog(r) = writePtr - readPtr[r]
           /\ readPtr[r] > writePtr => Overflow(r)
<1> DEFINE q == readPtr[r]
           b == TxBytes(rtx[r])
<1>1. q \in 0..(CounterMod - 1) /\ b \in 0..QueueSize /\ writePtr \in 0..(CounterMod - 1)
      /\ Backlog(r) \in 0..(CounterMod - 1)
  BY CutRanges, CutRangesReader
<1>2. Counted(q + b) /\ Counted(writePtr)
  BY DEF CountedInv
<1>3. Backlog(r) = CounterSub(writePtr, q)
  BY DEF Backlog, AvailableToReadBytes
<1> HIDE DEF q, b
<1>4. q \in Nat /\ b \in Nat /\ QueueSize \in Nat /\ writePtr \in Nat /\ Backlog(r) \in Nat
  BY <1>1, Constants
<1>5. Counted(q)
  BY <1>2, <1>4, CountedAdd
<1>6. /\ q <= writePtr => Backlog(r) = writePtr - q
      /\ q > writePtr => Backlog(r) > QueueSize
  BY <1>2, <1>3, <1>4, <1>5, Distance
<1> QED
  BY <1>1, <1>2, <1>4, <1>5, <1>6 DEF Overflow, q, b


LEMMA ReaderDistances ==
    CutInv /\ CountedInv =>
        /\ writePtr \in Nat /\ QueueSize \in Nat
        /\ \A r \in Readers :
             /\ readPtr[r] \in Nat /\ Backlog(r) \in Nat
             /\ readPtr[r] <= writePtr => Backlog(r) = writePtr - readPtr[r]
             /\ readPtr[r] > writePtr => Overflow(r)
             /\ ~Overflow(r) => readPtr[r] <= writePtr /\ Backlog(r) <= QueueSize
<1> SUFFICES ASSUME CutInv, CountedInv
             PROVE  /\ writePtr \in Nat /\ QueueSize \in Nat
                    /\ \A r \in Readers :
                         /\ readPtr[r] \in Nat /\ Backlog(r) \in Nat
                         /\ readPtr[r] <= writePtr => Backlog(r) = writePtr - readPtr[r]
                         /\ readPtr[r] > writePtr => Overflow(r)
                         /\ ~Overflow(r) => readPtr[r] <= writePtr /\ Backlog(r) <= QueueSize
  OBVIOUS
<1>1. writePtr \in Nat /\ QueueSize \in Nat
  BY CutRanges, Constants
<1>2. ASSUME NEW r \in Readers
      PROVE  /\ readPtr[r] \in Nat /\ Backlog(r) \in Nat
             /\ readPtr[r] <= writePtr => Backlog(r) = writePtr - readPtr[r]
             /\ readPtr[r] > writePtr => Overflow(r)
  BY ReaderDistance
<1>3. ASSUME NEW r \in Readers, ~Overflow(r)
      PROVE  readPtr[r] <= writePtr /\ Backlog(r) <= QueueSize
  <2>1. ~(readPtr[r] > writePtr) /\ ~(Backlog(r) > QueueSize)
    BY <1>2, <1>3 DEF Overflow
  <2> QED
    BY <1>1, <1>2, <2>1
<1> QED
  BY <1>1, <1>2, <1>3

LEMMA ReaderDistancesNext ==
    (CutInv /\ CountedInv =>
        /\ writePtr \in Nat /\ QueueSize \in Nat
        /\ \A r \in Readers :
             /\ readPtr[r] \in Nat /\ Backlog(r) \in Nat
             /\ readPtr[r] <= writePtr => Backlog(r) = writePtr - readPtr[r]
             /\ readPtr[r] > writePtr => Overflow(r)
             /\ ~Overflow(r) => readPtr[r] <= writePtr /\ Backlog(r) <= QueueSize)'
  BY ReaderDistances, PTL

\* A reader that is not caught after a step of a caught party, or after a step
\* that set it free, does not overflow; in the latter case it is in no call.
LEMMA NotLost ==
    ASSUME CutInv', NEW p \in Parties, Remembers(p), NEW r \in Readers \ caught',
           r \in caught \/ p \in caught \/ (p = Writer /\ blind)
    PROVE  /\ Synchronized => ~Overflow(r)'
           /\ r \in caught => rpc'[r] = "idle" /\ step'[r] = "none"
<1>1. caught' = {q \in caught : Remains(q)'}
                \cup (IF p \in caught \/ (p = Writer /\ blind) THEN Lost' ELSE {})
  BY DEF Remembers
<1>2. (r \in Lost)' <=> Synchronized /\ Overflow(r)'
  BY DEF Lost, Synchronized
<1>3. Remains(r)' <=> Busy(r)' \/ (r \in Lost)'
  BY DEF Remains
<1>4. r \notin Lost'
  BY <1>1, <1>3
<1>5. r \in caught => ~Busy(r)'
  BY <1>1, <1>3
<1>6. rpc'[r] \in {"idle", "taking"}
  BY DEF CutInv, TypeOK
<1> QED
  BY <1>2, <1>4, <1>5, <1>6, TakingIsBusy

LEMMA CaughtNowNext ==
    ASSUME CutInv, CaughtNow, NEW p \in Parties, Remembers(p)
    PROVE  CaughtNow'
<1>1. /\ caught' = {q \in caught : Remains(q)'}
                   \cup (IF p \in caught \/ (p = Writer /\ blind) THEN Lost' ELSE {})
      /\ blind' = IF wpc = "idle" THEN wpc' = "filling" /\ caught # {}
                                  ELSE wpc' = "filling" /\ blind
  BY DEF Remembers
<1>2. \A q \in Lost' : Remains(q)'
  BY DEF Remains
<1>3. blind' => wpc' = "filling"
  BY <1>1, Zenon
<1>4. \A q \in caught' : Remains(q)'
  BY <1>1, <1>2
<1> QED
  BY <1>3, <1>4 DEF CaughtNow

\* Steps that do not move writePtr add nothing fresh.
LEMMA HistoryKept ==
    ASSUME CutInv, FreshCount, NEW p \in Parties, Remembers(p), writePtr' = writePtr
    PROVE  /\ fresh' = LesserOf(QueueSize, writePtr) /\ fresh' = fresh /\ torn' = torn
           /\ Writer \in caught' => writePtr = 0
           /\ fresh \in 0..QueueSize /\ attaching' = attaching
<1>1. writePtr \in Nat /\ QueueSize \in Nat
  BY CutRanges, Constants
<1>2. fresh = LesserOf(QueueSize, writePtr) /\ fresh \in 0..QueueSize
  BY <1>1 DEF FreshCount, LesserOf
<1>3. fresh + (writePtr - writePtr) = fresh /\ LesserOf(QueueSize, fresh) = fresh
  BY <1>1, <1>2 DEF LesserOf
<1>4. fresh' = fresh
  BY <1>3 DEF Remembers
<1>5. torn' = (torn \/ (Writer \in caught /\ writePtr' # writePtr))
  BY DEF Remembers
<1>6. torn' = torn
  BY <1>5, Zenon DEF CutInv
<1>7. Writer \in caught' => writePtr = 0
  BY StillCaught DEF FreshCount
<1> QED
  BY <1>2, <1>4, <1>6, <1>7 DEF Remembers

\* A grant that was not blind stays so; a new one is blind if anybody is caught.
LEMMA BlindKept ==
    ASSUME NEW p \in Parties, Remembers(p)
    PROVE  /\ wpc = "filling" /\ wpc' = "filling" => (blind' <=> blind)
           /\ wpc = "idle" /\ wpc' = "filling" => (blind' <=> caught # {})
<1>1. blind' = IF wpc = "idle" THEN wpc' = "filling" /\ caught # {}
                               ELSE wpc' = "filling" /\ blind
  BY DEF Remembers
<1> QED
  BY <1>1, Zenon

\* What is owed to one reader.
FreshCopies(r) ==
    \A j \in 0..(TxBytes(rtx[r]) - 1) :
        rdata[r][j] # None /\ Intact(r, j) =>
            /\ Backlog(r) - 1 - j \in 0..(fresh - 1)
            /\ rdata[r][j] = recent[Backlog(r) - 1 - j]

\* Readers out of a transaction are owed nothing.
LEMMA IdleIsFresh ==
    CutInv => \A r \in Readers : rpc[r] # "taking" => TxBytes(rtx[r]) = 0 /\ FreshCopies(r)
<1> SUFFICES ASSUME CutInv, NEW r \in Readers, rpc[r] # "taking"
             PROVE  TxBytes(rtx[r]) = 0 /\ FreshCopies(r)
  OBVIOUS
<1>1. TxBytes(rtx[r]) = 0
  BY NullCovers DEF CutInv, TypeOK, ReaderCut
<1> QED
  BY <1>1 DEF FreshCopies

LEMMA IdleIsFreshNext ==
    (CutInv => \A r \in Readers : rpc[r] # "taking" => TxBytes(rtx[r]) = 0 /\ FreshCopies(r))'
  BY IdleIsFresh, PTL

LEMMA IdleWriter == CutInv /\ wpc # "filling" => TxBytes(wtx) = 0
  BY NullCovers DEF CutInv, TypeOK, WriterCut

LEMMA IdleWriterNext == (CutInv /\ wpc # "filling" => TxBytes(wtx) = 0)'
  BY IdleWriter, PTL

\* While the writer is overtaken nothing is fresh and nobody is granted any.
LEMMA OvertakenWriter ==
    ASSUME ResetInv, Writer \in caught
    PROVE  /\ fresh = 0 /\ writePtr = 0
           /\ \A r \in Readers \ caught : rpc[r] = "taking" => TxBytes(rtx[r]) = 0
<1>1. writePtr = 0 /\ fresh = 0
  BY Constants DEF ResetInv, FreshCount, LesserOf
<1>2. ASSUME NEW r \in Readers \ caught, rpc[r] = "taking" PROVE TxBytes(rtx[r]) = 0
  <2>1. readPtr[r] + TxBytes(rtx[r]) <= 0
    BY <1>1, <1>2 DEF ResetInv, StandsBehind
  <2>2. readPtr[r] \in Nat /\ TxBytes(rtx[r]) \in Nat
    BY ReaderDistance, Constants DEF ResetInv
  <2> QED
    BY <2>1, <2>2
<1> QED
  BY <1>1, <1>2

\* A step that leaves the ring alone leaves what is fresh there.
LEMMA FreshRingKept ==
    ASSUME ResetInv, NEW p \in Parties, Remembers(p),
           UNCHANGED <<writePtr, ring, recent, scribbled>>
    PROVE  FreshInRing'
<1>1. fresh' = fresh /\ torn' = torn
  BY HistoryKept DEF ResetInv
<1>2. CASE Writer \in caught
  BY <1>1, <1>2, OvertakenWriter DEF FreshInRing
<1>3. CASE Writer \notin caught
  BY <1>1, <1>3 DEF ResetInv, FreshInRing
<1> QED
  BY <1>2, <1>3

\* And what the writer has filled, unless it leaves its transaction.
LEMMA FilledKept ==
    ASSUME ResetInv, NEW p \in Parties, Remembers(p), UNCHANGED <<writePtr, ring, writer>>
    PROVE  FilledAgain'
<1>1. CASE wpc = "filling"
  <2>1. Writer \notin caught' => Writer \notin caught
    BY <1>1, StillCaught DEF writer
  <2> QED
    BY <2>1 DEF ResetInv, FilledAgain, FilledInRing, writer
<1>2. CASE wpc # "filling"
  <2>1. TxBytes(wtx) = 0
    BY <1>2, IdleWriter DEF ResetInv
  <2> QED
    BY <2>1 DEF FilledAgain, FilledInRing, writer
<1> QED
  BY <1>1, <1>2

\* A step that leaves writePtr alone keeps the room between resets, when the
\* readers move forward at most up to writePtr, and when a new grant of the
\* writer leaves them their backlog.
LEMMA RoomKept ==
    ASSUME ResetInv, CutInv', CountedInv', NEW p \in Parties, Remembers(p),
           writePtr' = writePtr,
           Synchronized => \A r \in Readers \ caught :
               readPtr[r] <= readPtr'[r] /\ readPtr'[r] <= writePtr,
           \/ UNCHANGED writer
           \/ wpc' # "filling"
           \/ wpc = "filling" /\ wpc' = "filling" /\ wtx' = wtx
           \/ /\ p = Writer /\ wpc = "idle" /\ wpc' = "filling" /\ UNCHANGED readPtr
              /\ attaching = {} /\ Synchronized =>
                    \A r \in Readers \ caught : Backlog(r) + TxBytes(wtx)' <= QueueSize
    PROVE  RoomAgain'
<1> SUFFICES ASSUME attaching = {}, Synchronized
             PROVE  /\ \A r \in Readers \ caught' :
                          /\ Backlog(r)' <= QueueSize
                          /\ ~blind' => Backlog(r)' + TxBytes(wtx)' <= QueueSize
                    /\ wpc' = "filling" /\ ~blind' /\ caught' # {} => writePtr = 0
  BY HistoryKept DEF ResetInv, RoomAgain, Synchronized
<1>0. /\ writePtr \in Nat /\ QueueSize \in Nat /\ TxBytes(wtx) \in 0..QueueSize
      /\ TxBytes(wtx)' \in 0..QueueSize
      /\ wpc \in {"idle", "filling"} /\ wpc' \in {"idle", "filling"}
      /\ wpc' # "filling" => TxBytes(wtx)' = 0
      /\ wpc = "filling" /\ wpc' = "filling" => TxBytes(wtx)' = TxBytes(wtx)
  BY CutRanges, CutRangesNext, IdleWriterNext, Constants
     DEF ResetInv, CutInv, TypeOK, writer
<1>i. CASE wpc' = "filling" /\ wpc = "idle"
  <2>1. p = Writer /\ UNCHANGED readPtr
        /\ \A r \in Readers \ caught : Backlog(r) + TxBytes(wtx)' <= QueueSize
    BY <1>i DEF writer
  <2>2. Writer \notin caught /\ ~blind
    BY <1>i, ResetConstants DEF ResetInv, CaughtNow, Remains, Busy, Lost
  <2>3. caught' \subseteq caught /\ (blind' <=> caught # {})
    BY <1>i, <2>1, <2>2, StillCaught, BlindKept
  <2>4. ASSUME NEW r \in Readers \ caught'
        PROVE  /\ Backlog(r)' <= QueueSize
               /\ ~blind' => Backlog(r)' + TxBytes(wtx)' <= QueueSize
    <3>1. Backlog(r)' = Backlog(r)
      BY <2>1 DEF Backlog
    <3>2. CASE r \notin caught
      <4>1. Backlog(r) <= QueueSize
        BY <3>2 DEF ResetInv, RoomAgain
      <4> QED
        BY <2>1, <3>1, <3>2, <4>1
    <3>3. CASE r \in caught
      <4>1. ~Overflow(r)' /\ blind'
        BY <2>3, <3>3, NotLost
      <4> QED
        BY <4>1, ReaderDistancesNext
    <3> QED
      BY <3>2, <3>3
  <2> QED
    BY <2>3, <2>4
<1>n. CASE ~(wpc' = "filling" /\ wpc = "idle")
  <2>1. wpc' = "filling" => wpc = "filling" /\ (blind' <=> blind)
    BY <1>0, <1>n, BlindKept
  <2>2. ASSUME wpc' = "filling", ~blind', caught' # {} PROVE writePtr = 0
    <3>1. wpc = "filling" /\ ~blind
      BY <2>1, <2>2
    <3>2. CASE caught # {}
      BY <3>1, <3>2 DEF ResetInv, RoomAgain
    <3>3. CASE caught = {}
      BY <2>2, <3>1, <3>3, StillCaught
    <3> QED
      BY <3>2, <3>3
  <2>3. ASSUME NEW r \in Readers \ caught'
        PROVE  /\ Backlog(r)' <= QueueSize
               /\ ~blind' => Backlog(r)' + TxBytes(wtx)' <= QueueSize
    <3> DEFINE l == Backlog(r)
               l1 == Backlog(r)'
               q == readPtr[r]
               q1 == readPtr'[r]
               t == TxBytes(wtx)
               t1 == TxBytes(wtx)'
    <3>0. /\ t1 \in Nat /\ t1 <= QueueSize /\ t \in Nat
          /\ wpc' # "filling" => t1 = 0
          /\ wpc = "filling" /\ wpc' = "filling" => t1 = t
          /\ l \in Nat /\ l1 \in Nat /\ q \in Nat /\ q1 \in Nat
          /\ q <= writePtr => l = writePtr - q
          /\ q1 <= writePtr => l1 = writePtr - q1
      BY <1>0, ReaderDistances, ReaderDistancesNext DEF ResetInv
    <3>1. CASE r \notin caught
      <4>1. /\ q <= q1 /\ q1 <= writePtr /\ l <= QueueSize
            /\ ~blind => l + t <= QueueSize
        BY <3>1 DEF ResetInv, RoomAgain
      <4> HIDE DEF l, l1, q, q1, t, t1
      <4>2. l1 <= l
        BY <1>0, <3>0, <4>1
      <4>3. l1 <= QueueSize
        BY <1>0, <3>0, <4>1, <4>2
      <4>4. ASSUME ~blind' PROVE l1 + t1 <= QueueSize
        <5>1. CASE wpc' = "filling"
          <6>1. ~blind
            BY <2>1, <4>4, <5>1
          <6>2. l + t <= QueueSize /\ t1 = t
            BY <2>1, <3>0, <4>1, <5>1, <6>1
          <6> QED
            BY <1>0, <3>0, <4>2, <6>2
        <5>2. CASE wpc' # "filling"
          BY <1>0, <3>0, <4>3, <5>2
        <5> QED
          BY <5>1, <5>2
      <4> QED
        BY <4>3, <4>4 DEF l1, t1
    <3>2. CASE r \in caught
      <4>1. q1 <= writePtr /\ l1 <= QueueSize
        BY <3>2, NotLost, ReaderDistancesNext
      <4>2. wpc' = "filling" /\ ~blind' => writePtr = 0
        BY <2>1, <3>2 DEF ResetInv, RoomAgain
      <4> HIDE DEF l, l1, q, q1, t, t1
      <4>3. ASSUME ~blind' PROVE l1 + t1 <= QueueSize
        <5>1. CASE wpc' = "filling"
          <6>1. writePtr = 0
            BY <4>2, <4>3, <5>1
          <6>2. l1 = 0
            BY <3>0, <4>1, <6>1
          <6> QED
            BY <1>0, <3>0, <6>2
        <5>2. CASE wpc' # "filling"
          BY <1>0, <3>0, <4>1, <5>2
        <5> QED
          BY <5>1, <5>2
      <4> QED
        BY <4>1, <4>3 DEF l1, t1
    <3> QED
      BY <3>1, <3>2
  <2> QED
    BY <2>2, <2>3
<1> QED
  BY <1>i, <1>n


\* A reader's step is safe when it is safe for that reader.
LEMMA ResetReaderStep ==
    ASSUME ResetInv, CutInv', NEW r \in Readers, Remembers(r),
           UNCHANGED <<writePtr, ring, writer, recent, scribbled>>,
           step'[Writer] = step[Writer], loaded'[Writer] = loaded[Writer],
           \A s \in Readers \ {r} : /\ rpc'[s] = rpc[s] /\ rtx'[s] = rtx[s]
                                    /\ rdata'[s] = rdata[s] /\ readPtr'[s] = readPtr[s]
                                    /\ step'[s] = step[s] /\ loaded'[s] = loaded[s],
           Counted(readPtr'[r] + TxBytes(rtx[r])'), CallCounted(r)',
           r \notin caught =>
               /\ Synchronized => readPtr[r] <= readPtr'[r] /\ readPtr'[r] <= writePtr
               /\ rpc'[r] = "taking" => readPtr'[r] + TxBytes(rtx[r])' <= writePtr
               /\ CallBehind(r)',
           ~torn /\ Writer \notin caught /\ r \notin caught => FreshCopies(r)'
    PROVE  ResetInv'
<1>0. /\ CutInv /\ CountedInv /\ FreshCount /\ CaughtNow /\ StandsBehind /\ RoomAgain
      /\ FreshInRing /\ ReadsAreFresh /\ r \in Parties /\ r # Writer
  BY ResetConstants DEF ResetInv
<1>1. /\ fresh' = LesserOf(QueueSize, writePtr) /\ fresh' = fresh /\ torn' = torn
      /\ Writer \in caught' => writePtr = 0
  BY <1>0, HistoryKept
<1>2. /\ caught' \subseteq caught \cup Readers
      /\ r \notin caught => caught' \subseteq caught
      /\ Writer \in caught' => Writer \in caught
      /\ wpc = "filling" => (Writer \in caught' <=> Writer \in caught)
      /\ \A s \in Readers : rpc'[s] = "taking" /\ s \in caught => s \in caught'
  BY <1>0, StillCaught DEF writer
<1>3. \A s \in Readers \ {r} : Backlog(s)' = Backlog(s) /\ TxBytes(rtx[s])' = TxBytes(rtx[s])
  BY DEF Backlog
<1>4. CountedInv'
  <2>1. \A s \in Readers \ {r} : CallCounted(s)'
    BY <1>0, <1>3 DEF CountedInv, CallCounted
  <2> QED
    BY <1>0, <1>3, <2>1 DEF CountedInv
<1>5. FreshCount'
  BY <1>0, <1>1, <1>2 DEF FreshCount, writer
<1>6. CaughtNow'
  BY <1>0, CaughtNowNext
<1>7. StandsBehind'
  <2> SUFFICES ASSUME NEW s \in Readers \ caught'
               PROVE  /\ Synchronized => readPtr'[s] <= writePtr
                      /\ rpc'[s] = "taking" => readPtr'[s] + TxBytes(rtx[s])' <= writePtr
                      /\ CallBehind(s)'
    BY DEF StandsBehind, Synchronized
  <2>1. CASE s \in caught
    <3>1. rpc'[s] = "idle" /\ step'[s] = "none" /\ (Synchronized => ~Overflow(s)')
      BY <1>0, <2>1, NotLost
    <3>2. Synchronized => readPtr'[s] <= writePtr
      BY <1>4, <3>1, ReaderDistancesNext
    <3> QED
      BY <3>1, <3>2 DEF CallBehind
  <2>2. CASE s \notin caught /\ s = r
    BY <2>2
  <2>3. CASE s \notin caught /\ s # r
    BY <1>0, <1>3, <2>3 DEF StandsBehind, CallBehind, Synchronized
  <2> QED
    BY <2>1, <2>2, <2>3
<1>8. RoomAgain'
  <2>1. \A s \in Readers \ caught : Synchronized =>
            readPtr[s] <= readPtr'[s] /\ readPtr'[s] <= writePtr
    <3>1. ASSUME NEW s \in Readers \ caught, s # r, Synchronized
          PROVE  readPtr[s] <= readPtr'[s] /\ readPtr'[s] <= writePtr
      <4>1. readPtr'[s] = readPtr[s] /\ readPtr[s] <= writePtr /\ readPtr[s] \in Nat
        BY <1>0, <3>1, ReaderDistances DEF StandsBehind
      <4> QED
        BY <4>1
    <3> QED
      BY <3>1
  <2> QED
    BY <1>0, <1>4, <2>1, RoomKept
<1>9. FilledAgain' /\ FreshInRing'
  BY <1>0, FilledKept, FreshRingKept
<1>10. ReadsAreFresh'
  <2>1. ASSUME ~torn, Writer \notin caught', NEW s \in Readers \ caught'
        PROVE  FreshCopies(s)'
    <3>1. CASE rpc'[s] # "taking"
      BY <3>1, IdleIsFreshNext
    <3>2. CASE rpc'[s] = "taking" /\ Writer \notin caught
      <4>1. s \notin caught
        BY <1>2, <3>2
      <4>2. CASE s # r
        <5>1. FreshCopies(s)
          BY <1>0, <2>1, <3>2, <4>1 DEF ReadsAreFresh, FreshCopies
        <5> QED
          BY <1>1, <1>3, <4>2, <5>1 DEF FreshCopies, Intact
      <4> QED
        BY <2>1, <3>2, <4>1, <4>2
    <3>3. CASE rpc'[s] = "taking" /\ Writer \in caught
      <4>1. writePtr = 0 /\ s \notin caught
        BY <1>0, <1>2, <3>3 DEF FreshCount
      <4>2. readPtr'[s] + TxBytes(rtx[s])' <= 0
        BY <1>0, <1>3, <3>3, <4>1 DEF StandsBehind
      <4>3. TxBytes(rtx[s])' \in Nat /\ readPtr'[s] \in Nat
        BY CutRangesNext, Constants
      <4>4. \A j \in 0..(TxBytes(rtx[s])' - 1) : FALSE
        BY <4>2, <4>3
      <4> QED
        BY <4>4 DEF FreshCopies
    <3> QED
      BY <3>1, <3>2, <3>3
  <2> QED
    BY <1>1, <2>1 DEF ReadsAreFresh, FreshCopies
<1> QED
  BY <1>4, <1>5, <1>6, <1>7, <1>8, <1>9, <1>10 DEF ResetInv

\* The counters that the quiet steps of a call load, or get ready to store.
LEMMA QuietCounters ==
    ASSUME ResetInv, NEW r \in Readers, QuietSteps(r)
    PROVE  CallCounted(r)' /\ (r \notin caught => CallBehind(r)')
<1>1. /\ writePtr \in Nat /\ readPtr[r] \in Nat /\ Counted(writePtr)
      /\ Counted(readPtr[r] + TxBytes(rtx[r])) /\ CallCounted(r)
      /\ r \notin caught =>
            /\ Synchronized => readPtr[r] <= writePtr
            /\ rpc[r] = "taking" => readPtr[r] + TxBytes(rtx[r]) <= writePtr
            /\ CallBehind(r)
  BY ReaderDistance DEF ResetInv, CountedInv, StandsBehind
<1>2. /\ r \in Parties /\ UNCHANGED <<readPtr, rtx, writePtr>> /\ TxBytes(rtx[r])' = TxBytes(rtx[r])
      /\ step \in [Parties -> {"none", "beginning", "committing", "storing"}]
      /\ loaded \in [Parties -> 0..(CounterMod - 1)]
  BY QuietCalls, ResetConstants DEF ResetInv, CutInv, CallTypes, vars, shared, reader
<1>3. CASE BeginReadLoad(r)
  <2>1. step'[r] = "beginning" /\ loaded'[r] = writePtr
    BY <1>2, <1>3 DEF BeginReadLoad, Goes
  <2> QED
    BY <1>1, <1>2, <2>1 DEF CallCounted, CallBehind, Synchronized
<1>4. CASE BeginReadGivesUp(r)
  <2>1. step[r] = "beginning" /\ step'[r] = "storing" /\ loaded'[r] = loaded[r]
    BY <1>2, <1>4 DEF BeginReadGivesUp, Goes
  <2> QED
    BY <1>1, <1>2, <2>1 DEF CallCounted, CallBehind, Synchronized
<1>5. CASE CommitReadLoad(r)
  <2>1. rpc[r] = "taking" /\ step'[r] = "committing" /\ loaded'[r] = readPtr[r]
    BY <1>2, <1>5 DEF CommitReadLoad, Goes
  <2> QED
    BY <1>1, <1>2, <2>1 DEF CallCounted, CallBehind, Synchronized
<1>6. CASE CommitReadGivesUp(r)
  <2>1. step'[r] = "storing" /\ loaded'[r] = writePtr
    BY <1>2, <1>6 DEF CommitReadGivesUp, Goes
  <2>2. writePtr <= writePtr
    BY <1>1
  <2> QED
    BY <1>1, <1>2, <2>1, <2>2 DEF CallCounted, CallBehind, Synchronized
<1>7. ASSUME NEW n \in Counts, CommitReadKeeps(r, n)
      PROVE  CallCounted(r)' /\ (r \notin caught => CallBehind(r)')
  <2> DEFINE b == Bytes(n)
             t == TxBytes(rtx[r])
             p == loaded[r]
             q == readPtr[r]
             p1 == loaded'[r]
  <2>1. /\ step[r] = "committing" /\ step'[r] = "storing"
        /\ p1 = CounterAdd(p, b)
    BY <1>2, <1>7 DEF CommitReadKeeps, Goes
  <2>2. b \in 0..t /\ b \in Nat
    BY <1>7, CommitReadBytes DEF CommitReadKeeps, ResetInv
  <2>3. p \in Nat /\ t \in 0..QueueSize /\ CounterMod \in Nat /\ QueueSize \in Nat
        /\ q \in Nat /\ writePtr \in Nat
    BY <1>1, <1>2, LoadedRange, CutRangesReader, Constants DEF ResetInv
  <2>4. Counted(p + t) /\ (r \notin caught => p = q /\ q + t <= writePtr)
    BY <1>1, <2>1 DEF CallCounted, CallBehind
  <2>5. /\ Counted(p1)
        /\ r \notin caught => p1 <= writePtr /\ q <= p1
    <3> HIDE DEF b, t, p, q, p1
    <3>1. Counted(p + b)
      BY <2>2, <2>3, <2>4 DEF Counted
    <3>2. p1 = p + b
      BY <2>1, <2>2, <2>3, <3>1, CountedAdd
    <3> QED
      BY <2>2, <2>3, <2>4, <3>1, <3>2
  <2> QED
    BY <1>2, <2>1, <2>5 DEF CallCounted, CallBehind, Synchronized
<1>8. ASSUME NEW n \in Counts, BeginReadRefuses(r, n)
      PROVE  CallCounted(r)' /\ (r \notin caught => CallBehind(r)')
  <2>1. step'[r] = "none"
    BY <1>2, <1>8 DEF BeginReadRefuses, Leaves, Goes
  <2> QED
    BY <2>1 DEF CallCounted, CallBehind
<1> QED
  BY <1>3, <1>4, <1>5, <1>6, <1>7, <1>8 DEF QuietSteps

LEMMA ResetQuietSteps ==
    ASSUME ResetInv, NEW r \in Readers, QuietSteps(r), Remembers(r)
    PROVE  ResetInv'
<1>1. /\ CutInv' /\ UNCHANGED vars /\ Writer \in Parties /\ r # Writer /\ Readers \subseteq Parties
      /\ \A q \in Parties \ {r} : step'[q] = step[q] /\ loaded'[q] = loaded[q]
  BY CutQuietSteps, QuietCalls, ResetConstants DEF ResetInv
<1>2. UNCHANGED <<writePtr, readPtr, ring, writer, rpc, rtx, rdata, recent, scribbled>>
  BY <1>1 DEF vars, shared, reader, history
<1>3. TxBytes(rtx[r])' = TxBytes(rtx[r]) /\ Backlog(r)' = Backlog(r)
  BY <1>2 DEF Backlog
<1>4. CallCounted(r)' /\ (r \notin caught => CallBehind(r)')
  BY QuietCounters
<1>5. /\ Counted(readPtr'[r] + TxBytes(rtx[r])')
      /\ r \notin caught => /\ Synchronized => readPtr[r] <= readPtr'[r] /\ readPtr'[r] <= writePtr
                            /\ rpc'[r] = "taking" => readPtr'[r] + TxBytes(rtx[r])' <= writePtr
  <2>1. readPtr[r] \in Nat
    BY ReaderDistance DEF ResetInv
  <2> QED
    BY <1>2, <1>3, <2>1 DEF ResetInv, CountedInv, StandsBehind
<1>6. ~torn /\ Writer \notin caught /\ r \notin caught => FreshCopies(r)'
  <2>1. fresh' = fresh
    BY <1>1, <1>2, HistoryKept, ResetConstants DEF ResetInv
  <2> QED
    BY <1>2, <1>3, <2>1 DEF ResetInv, ReadsAreFresh, FreshCopies, Intact
<1> QED
  BY <1>1, <1>2, <1>4, <1>5, <1>6, ResetReaderStep

LEMMA ResetBeginReadGrants ==
    ASSUME ResetInv, NEW r \in Readers, NEW n \in Counts, BeginReadGrants(r, n), Remembers(r)
    PROVE  ResetInv'
<1> DEFINE q == readPtr[r]
           p == loaded[r]
           b == n * Quantum
<1>0. /\ CutInv' /\ TxBytes(rtx[r])' = b /\ b \in 0..Seen(r)
      /\ Seen(r) <= QueueSize /\ rdata'[r] = Blank /\ step'[r] = "none"
      /\ \A s \in Parties \ {r} : step'[s] = step[s] /\ loaded'[s] = loaded[s]
      /\ \A s \in Readers \ {r} : rpc'[s] = rpc[s] /\ rtx'[s] = rtx[s]
      /\ Writer \in Parties /\ r # Writer /\ Readers \subseteq Parties
  BY CutBeginReadGrants, ResetConstants DEF ResetInv
<1>1. /\ UNCHANGED <<writePtr, ring, writer, recent, scribbled, readPtr, rdata>>
      /\ step[r] = "beginning" /\ Seen(r) = CounterSub(p, q)
  BY DEF BeginReadGrants, shared, history, Seen, AvailableToReadBytes
<1>2. /\ q \in Nat /\ writePtr \in Nat /\ p \in Nat /\ b \in 0..QueueSize
      /\ QueueSize \in Nat /\ CounterMod \in Nat
      /\ Counted(q) /\ Counted(p) /\ Counted(writePtr)
  <2>1. TxBytes(rtx[r])' \in 0..QueueSize
    BY <1>0, CutRangesNext
  <2> QED
    BY <1>0, <1>1, <2>1, ReaderDistance, LoadedRange, Constants
       DEF ResetInv, CountedInv, CallCounted
<1>3. r \notin caught => p <= writePtr /\ (Synchronized => q <= writePtr)
  BY <1>1 DEF ResetInv, StandsBehind, CallBehind
<1>4. Counted(q + b) /\ (r \notin caught => q + b <= writePtr)
  <2> HIDE DEF q, p, b
  <2>1. q <= p /\ CounterSub(p, q) = p - q
    <3>1. CounterSub(p, q) <= QueueSize
      BY <1>0, <1>1
    <3>2. q > p => CounterSub(p, q) > QueueSize
      BY <1>2, Distance
    <3>3. CounterSub(p, q) \in Nat
      <4>1. p \in 0..(CounterMod - 1) /\ q \in 0..(CounterMod - 1)
        BY <1>2, Distance
      <4> QED
        BY <1>2, <4>1, CounterArithmetic, 0 \in Nat, Constants
    <3>4. ~(q > p)
      BY <1>2, <3>1, <3>2, <3>3
    <3>5. q <= p
      BY <1>2, <3>4
    <3> QED
      BY <1>2, <3>5, Distance
  <2>2. b <= p - q
    BY <1>0, <1>1, <1>2, <2>1
  <2> QED
    BY <1>2, <1>3, <2>1, <2>2 DEF Counted
<1>5. CallCounted(r)' /\ CallBehind(r)'
  BY <1>0 DEF CallCounted, CallBehind
<1>6. FreshCopies(r)'
  <2>1. \A j \in 0..(TxBytes(rtx[r])' - 1) : j \in Offsets
    BY <1>0, <1>2, Constants
  <2> QED
    BY <1>0, <2>1 DEF FreshCopies, Blank
<1>7. r \notin caught =>
          /\ Synchronized => readPtr[r] <= readPtr'[r] /\ readPtr'[r] <= writePtr
          /\ rpc'[r] = "taking" => readPtr'[r] + TxBytes(rtx[r])' <= writePtr
  BY <1>0, <1>1, <1>2, <1>3, <1>4
<1>8. Counted(readPtr'[r] + TxBytes(rtx[r])')
  BY <1>0, <1>1, <1>4
<1> QED
  BY <1>0, <1>1, <1>5, <1>6, <1>7, <1>8, ResetReaderStep

\* The bytes a reader was granted are fresh, and in the ring while intact.
LEMMA FreshGrant ==
    ASSUME ResetInv, NEW r \in Readers \ caught, rpc[r] = "taking",
           ~torn, Writer \notin caught,
           NEW j \in 0..(TxBytes(rtx[r]) - 1), Intact(r, j)
    PROVE  /\ Backlog(r) - 1 - j \in 0..(fresh - 1)
           /\ ring[(readPtr[r] + j) % QueueSize] = recent[Backlog(r) - 1 - j]
<1> DEFINE l == Backlog(r)
           q == readPtr[r]
           b == TxBytes(rtx[r])
           a == l - 1 - j
<1>1. writePtr \in Nat /\ q \in Nat /\ b \in 0..QueueSize /\ QueueSize \in Nat \ {0}
      /\ (q <= writePtr => l = writePtr - q)
  BY ReaderDistance, Constants DEF ResetInv
<1>2. q + b <= writePtr
  BY DEF ResetInv, StandsBehind
<1>3. scribbled \in Nat /\ fresh = LesserOf(QueueSize, writePtr)
  BY CutRanges DEF ResetInv, FreshCount
<1>4. l + scribbled <= j + QueueSize
  BY DEF Intact
<1>5. j \in Nat /\ j < b
  BY <1>1
<1> HIDE DEF q, b, l
<1>6. l = writePtr - q /\ l \in Nat /\ j < l
  BY <1>1, <1>2, <1>5
<1>7. a \in 0..(fresh - 1) /\ a + scribbled < QueueSize
  BY <1>1, <1>3, <1>4, <1>5, <1>6 DEF LesserOf
<1>8. writePtr + (QueueSize - 1) - a = (q + j) + QueueSize * 1
  BY <1>1, <1>5, <1>6
<1>9. ((q + j) + QueueSize * 1) % QueueSize = (q + j) % QueueSize
  <2> DEFINE x == q + j
  <2>1. x \in Int /\ 1 \in Int
    BY <1>1, <1>5
  <2> HIDE DEF x
  <2>2. (x + QueueSize * 1) % QueueSize = x % QueueSize
    BY <1>1, <2>1, ModShift
  <2> QED
    BY <2>2 DEF x
<1> HIDE DEF a
<1>10. ring[(writePtr + (QueueSize - 1) - a) % QueueSize] = recent[a]
  BY <1>7 DEF ResetInv, FreshInRing
<1> QED
  BY <1>7, <1>8, <1>9, <1>10 DEF a, l, q

LEMMA ResetCopyFrom ==
    ASSUME ResetInv, NEW r \in Readers, NEW j \in Offsets, CopyFrom(r, j), UNCHANGED calls,
           Remembers(r)
    PROVE  ResetInv'
<1>1. /\ CutInv' /\ j \in 0..(TxBytes(rtx[r]) - 1) /\ UNCHANGED <<step, loaded>>
      /\ Writer \in Parties /\ r # Writer /\ Readers \subseteq Parties
  BY CutCopyFrom, ResetConstants DEF ResetInv, calls
<1>2. /\ UNCHANGED <<writePtr, ring, writer, recent, scribbled, readPtr, rpc, rtx>>
      /\ rpc[r] = "taking"
      /\ rdata' = [rdata EXCEPT ![r][j] = ring[TxAddress(rtx[r], j)]]
  BY DEF CopyFrom, shared, writer, history
<1>3. Backlog(r)' = Backlog(r) /\ TxBytes(rtx[r])' = TxBytes(rtx[r])
  BY <1>2 DEF Backlog
<1>4. /\ Counted(readPtr'[r] + TxBytes(rtx[r])') /\ CallCounted(r)'
      /\ r \notin caught =>
            /\ Synchronized => readPtr[r] <= readPtr'[r] /\ readPtr'[r] <= writePtr
            /\ rpc'[r] = "taking" => readPtr'[r] + TxBytes(rtx[r])' <= writePtr
            /\ CallBehind(r)'
  <2>1. readPtr[r] \in Nat
    BY ReaderDistance DEF ResetInv
  <2>2. CallCounted(r)' /\ (r \notin caught => CallBehind(r)')
    BY <1>1, <1>2, <1>3
       DEF ResetInv, CountedInv, StandsBehind, CallCounted, CallBehind, Synchronized
  <2> QED
    BY <1>2, <1>3, <2>1, <2>2 DEF ResetInv, CountedInv, StandsBehind
<1>5. ASSUME ~torn, Writer \notin caught, r \notin caught PROVE FreshCopies(r)'
  <2>1. fresh' = fresh
    BY <1>1, <1>2, HistoryKept, ResetConstants DEF ResetInv
  <2>2. TxAddress(rtx[r], j) = (readPtr[r] + j) % QueueSize
    BY <1>1, <1>5, CutRangesReader DEF ResetInv
  <2>3. rdata'[r] = [rdata[r] EXCEPT ![j] = ring[(readPtr[r] + j) % QueueSize]]
        /\ DOMAIN rdata[r] = Offsets
    BY <1>2, <2>2 DEF ResetInv, CutInv, TypeOK
  <2>4. ASSUME NEW k \in 0..(TxBytes(rtx[r]) - 1), rdata'[r][k] # None, Intact(r, k)
        PROVE  /\ Backlog(r) - 1 - k \in 0..(fresh - 1)
               /\ rdata'[r][k] = recent[Backlog(r) - 1 - k]
    <3>1. CASE k = j
      BY <1>2, <1>5, <2>3, <2>4, <3>1, FreshGrant
    <3>2. CASE k # j
      <4>1. rdata'[r][k] = rdata[r][k]
        BY <2>3, <3>2
      <4> QED
        BY <1>5, <2>4, <4>1 DEF ResetInv, ReadsAreFresh
    <3> QED
      BY <3>1, <3>2
  <2>5. \A k : Intact(r, k)' <=> Intact(r, k)
    BY <1>2, <1>3 DEF Intact
  <2> QED
    BY <1>2, <1>3, <2>1, <2>4, <2>5 DEF FreshCopies
<1>6. \A s \in Readers \ {r} : rdata'[s] = rdata[s]
  BY <1>2 DEF ResetInv, CutInv, TypeOK
<1> QED
  BY <1>1, <1>2, <1>4, <1>5, <1>6, ResetReaderStep

\* A reader that closes its transaction, or gives up its backlog.
LEMMA ResetReaderEnds ==
    ASSUME ResetInv, NEW r \in Readers, Remembers(r),
           StoreReadPtr(r) \/ ((DropRead(r) \/ ReattachReader(r)) /\ Leaves(r))
    PROVE  ResetInv'
<1>1. /\ CutInv' /\ ReaderDone(r) /\ step'[r] = "none"
      /\ UNCHANGED <<writePtr, ring, writer, recent, scribbled>>
      /\ \A q \in Parties \ {r} : step'[q] = step[q] /\ loaded'[q] = loaded[q]
      /\ \A s \in Readers \ {r} : readPtr'[s] = readPtr[s]
      /\ \/ step[r] = "storing" /\ readPtr'[r] = loaded[r]
         \/ readPtr'[r] = readPtr[r]
         \/ ~Synchronized /\ readPtr'[r] = 0
      /\ Writer \in Parties /\ r # Writer /\ Readers \subseteq Parties
  BY CutReaderEnds, ResetConstants DEF ResetInv, history
<1>2. /\ TxBytes(rtx[r])' = 0 /\ rpc'[r] = "idle"
      /\ \A s \in Readers \ {r} : rpc'[s] = rpc[s] /\ rtx'[s] = rtx[s]
                                  /\ rdata'[s] = rdata[s]
  BY <1>1, DoneIsCut DEF ResetInv
<1>3. FreshCopies(r)'
  BY <1>2 DEF FreshCopies
<1>4. CallCounted(r)' /\ CallBehind(r)'
  BY <1>1 DEF CallCounted, CallBehind
<1>5. /\ readPtr[r] \in Nat /\ Counted(readPtr[r]) /\ writePtr \in Nat /\ loaded[r] \in Nat
      /\ r \notin caught /\ Synchronized => readPtr[r] <= writePtr
      /\ step[r] = "storing" => Counted(loaded[r])
      /\ r \notin caught /\ Synchronized /\ step[r] = "storing" =>
            readPtr[r] <= loaded[r] /\ loaded[r] <= writePtr
      /\ Counted(0)
  BY ReaderDistance, LoadedRange, Constants, ResetConstants
     DEF ResetInv, CountedInv, CallCounted, StandsBehind, CallBehind, Counted
<1>6. readPtr'[r] \in Nat /\ Counted(readPtr'[r])
  BY <1>1, <1>5, 0 \in Nat
<1>7. Counted(readPtr'[r] + TxBytes(rtx[r])')
  <2> DEFINE q1 == readPtr'[r]
  <2>1. q1 + 0 = q1
    BY <1>6
  <2> QED
    BY <1>2, <1>6, <2>1
<1>8. r \notin caught /\ Synchronized => readPtr[r] <= readPtr'[r] /\ readPtr'[r] <= writePtr
  BY <1>1, <1>5
<1> QED
  BY <1>1, <1>2, <1>3, <1>4, <1>7, <1>8, ResetReaderStep

LEMMA ResetReaders ==
    ASSUME ResetInv, NEW r \in Readers, ReaderSteps(r), Remembers(r)
    PROVE  ResetInv'
  BY ReaderStepKinds, ResetQuietSteps, ResetBeginReadGrants, ResetCopyFrom, ResetReaderEnds
-----------------------------------------------------------------------------
\* The writer's steps between two resets.

\* A step of the writer that commits nothing.
LEMMA ResetWriterStep ==
    ASSUME ResetInv, CutInv', Remembers(Writer), writePtr' = writePtr,
           UNCHANGED <<reader, readPtr, recent>>, scribbled <= scribbled',
           \A r \in Readers : step'[r] = step[r] /\ loaded'[r] = loaded[r],
           Writer \notin caught /\ wpc' = "filling" /\ step'[Writer] = "storing" =>
               loaded'[Writer] = writePtr,
           \/ UNCHANGED writer
           \/ wpc' # "filling"
           \/ wpc = "filling" /\ wpc' = "filling" /\ wtx' = wtx
           \/ /\ wpc = "idle" /\ wpc' = "filling"
              /\ attaching = {} /\ Synchronized =>
                    \A r \in Readers \ caught : Backlog(r) + TxBytes(wtx)' <= QueueSize,
           FilledAgain', FreshInRing'
    PROVE  ResetInv'
<1>0. /\ CutInv /\ CountedInv /\ FreshCount /\ CaughtNow /\ StandsBehind /\ RoomAgain
      /\ ReadsAreFresh /\ Writer \in Parties
  BY ResetConstants DEF ResetInv
<1>1. /\ fresh' = LesserOf(QueueSize, writePtr) /\ fresh' = fresh /\ torn' = torn
      /\ Writer \in caught' => writePtr = 0
  BY <1>0, HistoryKept
<1>2. /\ wpc' = "filling" => (Writer \in caught' <=> Writer \in caught)
      /\ \A s \in Readers : rpc[s] = "taking" /\ s \in caught => s \in caught'
  BY <1>0, StillCaught DEF reader
<1>3. \A s \in Readers : Backlog(s)' = Backlog(s) /\ TxBytes(rtx[s])' = TxBytes(rtx[s])
  BY DEF Backlog, reader
<1>4. CountedInv'
  BY <1>0, <1>3 DEF CountedInv, CallCounted, reader
<1>5. FreshCount'
  BY <1>1, <1>2 DEF FreshCount
<1>6. CaughtNow'
  BY <1>0, CaughtNowNext
<1>7. StandsBehind'
  <2> SUFFICES ASSUME NEW s \in Readers \ caught'
               PROVE  /\ Synchronized => readPtr[s] <= writePtr
                      /\ rpc[s] = "taking" => readPtr[s] + TxBytes(rtx[s]) <= writePtr
                      /\ CallBehind(s)'
    BY <1>3 DEF StandsBehind, Synchronized, reader
  <2>1. CASE s \in caught
    <3>1. rpc'[s] = "idle" /\ step'[s] = "none" /\ (Synchronized => ~Overflow(s)')
      BY <1>0, <2>1, NotLost
    <3>2. Synchronized => readPtr'[s] <= writePtr
      BY <1>4, <3>1, ReaderDistancesNext
    <3> QED
      BY <3>1, <3>2 DEF CallBehind, reader
  <2>2. CASE s \notin caught
    BY <1>0, <1>3, <2>2 DEF StandsBehind, CallBehind, Synchronized, reader
  <2> QED
    BY <2>1, <2>2
<1>8. RoomAgain'
  <2>1. Synchronized => \A s \in Readers \ caught :
            readPtr[s] <= readPtr'[s] /\ readPtr'[s] <= writePtr
    <3>1. ASSUME NEW s \in Readers \ caught, Synchronized
          PROVE  readPtr[s] <= readPtr'[s] /\ readPtr'[s] <= writePtr
      <4>1. readPtr'[s] = readPtr[s] /\ readPtr[s] <= writePtr /\ readPtr[s] \in Nat
        BY <1>0, <3>1, ReaderDistances DEF StandsBehind
      <4> QED
        BY <4>1
    <3> QED
      BY <3>1
  <2>2. UNCHANGED readPtr
    OBVIOUS
  <2> QED
    BY <1>0, <1>4, <2>1, <2>2, RoomKept
<1>9. ReadsAreFresh'
  <2>1. ASSUME ~torn, Writer \notin caught', NEW s \in Readers \ caught'
        PROVE  FreshCopies(s)'
    <3>1. CASE rpc'[s] # "taking"
      BY <3>1, IdleIsFreshNext
    <3>2. CASE rpc[s] = "taking" /\ Writer \in caught
      <4>1. TxBytes(rtx[s]) = 0
        BY <1>2, <3>2, OvertakenWriter
      <4> QED
        BY <4>1 DEF FreshCopies, reader
    <3>3. CASE rpc[s] = "taking" /\ Writer \notin caught
      <4>1. FreshCopies(s)
        BY <1>0, <1>2, <2>1, <3>3 DEF ReadsAreFresh, FreshCopies
      <4>2. TxBytes(rtx[s]) \in Nat /\ Backlog(s) \in Nat /\ QueueSize \in Nat
            /\ scribbled \in Nat /\ scribbled' \in Nat
        BY <1>0, CutRanges, CutRangesReader, Constants DEF CutInv, TypeOK
      <4>3. ASSUME NEW k \in 0..(TxBytes(rtx[s]) - 1), Intact(s, k)' PROVE Intact(s, k)
        <5>1. Backlog(s) + scribbled' <= k + QueueSize /\ k \in Int
          BY <1>3, <4>3 DEF Intact
        <5> QED
          BY <4>2, <5>1 DEF Intact
      <4> QED
        BY <1>1, <1>3, <4>1, <4>3 DEF FreshCopies, reader
    <3> QED
      BY <3>1, <3>2, <3>3 DEF reader
  <2> QED
    BY <1>1, <2>1 DEF ReadsAreFresh, FreshCopies
<1> QED
  BY <1>4, <1>5, <1>6, <1>7, <1>8, <1>9 DEF ResetInv

LEMMA ResetWriterIdle ==
    ASSUME ResetInv, CutInv', UNCHANGED vars, Remembers(Writer),
           \A r \in Readers : step'[r] = step[r] /\ loaded'[r] = loaded[r],
           Writer \notin caught /\ wpc = "filling" /\ step'[Writer] = "storing" =>
               loaded'[Writer] = writePtr
    PROVE  ResetInv'
<1>1. UNCHANGED <<writePtr, readPtr, ring, writer, wpc, reader, recent, scribbled>>
  BY DEF vars, shared, writer, history
<1>2. FilledAgain' /\ FreshInRing'
  BY <1>1, FilledKept, FreshRingKept, ResetConstants
<1>3. scribbled <= scribbled'
  BY <1>1, CutRanges, Constants DEF ResetInv
<1> QED
  BY <1>1, <1>2, <1>3, ResetWriterStep

LEMMA ResetLoadWritePtr ==
    ASSUME ResetInv, Remembers(Writer), UNCHANGED <<vars, calls>> \/ LoadWritePtr
    PROVE  ResetInv'
<1>1. CASE UNCHANGED <<vars, calls>>
  BY <1>1, CutIdle, ResetWriterIdle DEF ResetInv, FreshCount, calls
<1>2. CASE LoadWritePtr
  BY <1>2, CutLoadWritePtr, ResetWriterIdle DEF ResetInv
<1> QED
  BY <1>1, <1>2

LEMMA ResetBeginWrite ==
    ASSUME ResetInv, NEW n \in Counts, BeginWrite(n), UNCHANGED calls, Remembers(Writer),
           step[Writer] = "none"
    PROVE  ResetInv'
<1>1. CutInv' /\ n \in 0..QuantumCount /\ TxBytes(wtx)' = n * Quantum
      /\ TxBytes(wtx)' \in 0..QueueSize
  BY CutBeginWrite, CutRangesNext DEF ResetInv
<1>2. /\ UNCHANGED <<writePtr, ring, readPtr, recent, scribbled, wdata, reader, step, loaded>>
      /\ ~WriteRefused(n) /\ wpc = "idle" /\ wpc' = "filling"
  BY DEF BeginWrite, shared, history, calls
<1>3. FreshInRing'
  BY <1>2, FreshRingKept, ResetConstants
<1>4. FilledAgain'
  <2>1. wdata' = Blank
    BY <1>2 DEF ResetInv, CutInv, WriterCut
  <2>2. \A j \in 0..(TxBytes(wtx)' - 1) : j \in Offsets
    BY <1>1, Constants
  <2> QED
    BY <2>1, <2>2 DEF FilledAgain, FilledInRing, Blank
<1>5. ASSUME attaching = {}, Synchronized, NEW r \in Readers \ caught
      PROVE  Backlog(r) + TxBytes(wtx)' <= QueueSize
  <2> DEFINE l == Backlog(r)
  <2>0. l <= QueueSize
    BY <1>5 DEF ResetInv, RoomAgain
  <2>1. l \in 0..QueueSize /\ l \in 0..(CounterMod - 1) /\ QueueSize \in 0..(CounterMod - 1)
    BY <2>0, CutRangesReader, Constants DEF ResetInv
  <2>2. AvailableToWrite(writePtr, readPtr[r]) = CounterSub(QueueSize, l) \div Quantum
    BY DEF AvailableToWrite, AvailableToWriteBytes, Backlog
  <2>3. ~(AvailableToWrite(writePtr, readPtr[r]) < n)
    BY <1>2, <1>5 DEF WriteRefused
  <2> HIDE DEF l
  <2>4. CounterSub(QueueSize, l) = QueueSize - l /\ QueueSize - l \in Nat
    BY <2>1, CounterArithmetic, 0 \in Nat
  <2>5. (QueueSize - l) \div Quantum \in Int
    BY <2>4, DivMod, Constants
  <2>6. n <= (QueueSize - l) \div Quantum /\ n \in Nat
    BY <1>1, <2>2, <2>3, <2>4, <2>5, Constants
  <2>7. n * Quantum <= QueueSize - l
    BY <2>4, <2>6, FitsInBytes
  <2> QED
    BY <1>1, <2>1, <2>7 DEF l
<1>6. scribbled <= scribbled'
  BY <1>2, CutRanges, Constants DEF ResetInv
<1> QED
  BY <1>1, <1>2, <1>3, <1>4, <1>5, <1>6, ResetWriterStep

LEMMA ResetDropWrite ==
    ASSUME ResetInv, DropWrite, Leaves(Writer), Remembers(Writer)
    PROVE  ResetInv'
<1>1. CutInv' /\ TxBytes(wtx)' = 0 /\ wpc' = "idle"
  BY CutDropWrite, NullCovers DEF ResetInv, DropWrite
<1>2. UNCHANGED <<writePtr, ring, readPtr, recent, scribbled, reader>>
  BY DEF DropWrite, shared, history
<1>3. FreshInRing' /\ FilledAgain'
  BY <1>1, <1>2, FreshRingKept, ResetConstants DEF FilledAgain, FilledInRing
<1>4. \A r \in Readers : step'[r] = step[r] /\ loaded'[r] = loaded[r]
  BY OthersCalls DEF ResetInv
<1>5. scribbled <= scribbled'
  BY <1>2, CutRanges, Constants DEF ResetInv
<1> QED
  BY <1>1, <1>2, <1>3, <1>4, <1>5, ResetWriterStep
\* A byte that counts as intact is not the one being copied.
LEMMA BeyondScribbles ==
    ASSUME NEW w \in Nat, NEW j \in Nat, NEW a \in Nat, NEW s \in Nat,
           j + 1 <= s, a + s < QueueSize
    PROVE  /\ w + (QueueSize - 1) - a \in Int /\ w + j \in Int
           /\ 0 < (w + (QueueSize - 1) - a) - (w + j)
           /\ (w + (QueueSize - 1) - a) - (w + j) < QueueSize
           /\ \A t \in Nat : t <= s => a + t < QueueSize
<1>1. QueueSize \in Nat
  BY Constants
<1> QED
  BY <1>1

LEMMA ResetCopyTo ==
    ASSUME ResetInv, NEW j \in Offsets, CopyTo(j), UNCHANGED calls, Remembers(Writer)
    PROVE  ResetInv'
<1>1. CutInv'
  BY CutCopyTo DEF ResetInv
<1>2. /\ UNCHANGED <<writePtr, readPtr, recent, reader, wtx, wpc>>
      /\ wpc = "filling" /\ j < TxBytes(wtx)
      /\ scribbled' = IF scribbled > j THEN scribbled ELSE j + 1
  BY DEF CopyTo
<1>3. /\ writePtr \in Nat /\ scribbled \in Nat /\ TxBytes(wtx) \in 0..QueueSize
      /\ QueueSize \in Nat \ {0} /\ j \in 0..(TxBytes(wtx) - 1) /\ j \in Nat
  BY <1>2, CutRanges, Constants DEF ResetInv
<1>4. scribbled' \in Nat /\ scribbled <= scribbled' /\ j + 1 <= scribbled'
  BY <1>2, <1>3
<1>5. Writer \in caught' <=> Writer \in caught
  BY <1>2, StillCaught, ResetConstants
<1>6. fresh' = fresh /\ torn' = torn
  BY <1>2, HistoryKept, ResetConstants DEF ResetInv
<1>7. ASSUME Writer \notin caught
      PROVE  /\ (writePtr + j) % QueueSize \in Offsets
             /\ ring' \in [Offsets -> Values] /\ wdata' \in [Offsets -> Values \cup {None}]
             /\ ring'[(writePtr + j) % QueueSize] = wdata'[j]
             /\ \A k \in Offsets \ {j} : wdata'[k] = wdata[k]
             /\ \A a \in Offsets : a # (writePtr + j) % QueueSize => ring'[a] = ring[a]
  <2>1. TxAddress(wtx, j) = (writePtr + j) % QueueSize /\ TxAddress(wtx, j) \in Offsets
    BY <1>3, <1>7, CutRanges DEF ResetInv
  <2>2. PICK v \in Values : /\ ring' = [ring EXCEPT ![(writePtr + j) % QueueSize] = v]
                            /\ wdata' = [wdata EXCEPT ![j] = v]
    BY <2>1 DEF CopyTo
  <2>3. ring \in [Offsets -> Values] /\ wdata \in [Offsets -> Values \cup {None}]
        /\ j \in Offsets
    BY DEF ResetInv, CutInv, TypeOK
  <2> DEFINE a == (writePtr + j) % QueueSize
  <2>4. a \in Offsets /\ ring' = [ring EXCEPT ![a] = v]
    BY <2>1, <2>2
  <2> HIDE DEF a
  <2> QED
    BY <2>2, <2>3, <2>4 DEF a
<1>8. FilledAgain'
  <2>1. ASSUME Writer \notin caught, NEW k \in 0..(TxBytes(wtx) - 1), wdata'[k] # None
        PROVE  ring'[(writePtr + k) % QueueSize] = wdata'[k]
    <3>1. CASE k = j
      BY <1>7, <2>1, <3>1
    <3>2. CASE k # j
      <4> DEFINE x == writePtr + k
                 y == writePtr + j
      <4>1. /\ x \in Int /\ y \in Int /\ k \in Offsets
            /\ (0 < x - y /\ x - y < QueueSize) \/ (0 < y - x /\ y - x < QueueSize)
        BY <1>3, <3>2, Constants
      <4> HIDE DEF x, y
      <4>2. x % QueueSize # y % QueueSize /\ x % QueueSize \in Offsets
        BY <1>3, <4>1, ModDistinct, DivMod, Constants
      <4>3. ring'[x % QueueSize] = ring[x % QueueSize] /\ wdata'[k] = wdata[k]
        BY <1>7, <2>1, <3>2, <4>1, <4>2 DEF y
      <4>4. ring[x % QueueSize] = wdata[k]
        BY <2>1, <4>3 DEF ResetInv, FilledAgain, FilledInRing, x
      <4> QED
        BY <4>3, <4>4 DEF x
    <3> QED
      BY <3>1, <3>2
  <2> QED
    BY <1>2, <1>5, <2>1 DEF FilledAgain, FilledInRing
<1>9. FreshInRing'
  <2>1. CASE Writer \in caught
    BY <1>6, <2>1, OvertakenWriter DEF FreshInRing
  <2>2. ASSUME Writer \notin caught, ~torn, NEW a \in 0..(fresh - 1),
               a + scribbled' < QueueSize
        PROVE  ring'[(writePtr + (QueueSize - 1) - a) % QueueSize] = recent[a]
    <3> DEFINE x == writePtr + (QueueSize - 1) - a
               y == writePtr + j
    <3>1. fresh \in Nat
      BY <1>3 DEF ResetInv, FreshCount, LesserOf
    <3>a. a \in Nat /\ a + scribbled' < QueueSize
      BY <2>2, <3>1
    <3>2. x \in Int /\ y \in Int /\ 0 < x - y /\ x - y < QueueSize
      BY <1>3, <1>4, <3>a, BeyondScribbles
    <3>b. a + scribbled < QueueSize
      BY <1>3, <1>4, <3>a, BeyondScribbles
    <3>3. ring[x % QueueSize] = recent[a]
      BY <2>2, <3>b DEF ResetInv, FreshInRing
    <3> HIDE DEF x, y
    <3>4. x % QueueSize # y % QueueSize /\ x % QueueSize \in Offsets
      BY <1>3, <3>2, ModDistinct, DivMod, Constants
    <3>5. ring'[x % QueueSize] = ring[x % QueueSize]
      BY <1>7, <2>2, <3>4 DEF y
    <3> QED
      BY <3>3, <3>5 DEF x
  <2> QED
    BY <1>2, <1>5, <1>6, <2>1, <2>2 DEF FreshInRing
<1>10. wpc' = wpc /\ step' = step /\ loaded' = loaded
  BY <1>2 DEF calls
<1>11. Writer \notin caught /\ step[Writer] = "storing" => loaded[Writer] = writePtr
  BY <1>2 DEF ResetInv, FreshCount
<1> QED
  BY <1>1, <1>2, <1>4, <1>8, <1>9, <1>10, <1>11, ResetWriterStep

\* commitWrite's store and what it leaves: the counter the writer loaded moves
\* by what is committed, and if no reset has overtaken the writer, so does
\* writePtr.
LEMMA StoreMoves ==
    ASSUME ResetInv, NEW n \in Counts, StoreWritePtr(n), Remembers(Writer)
    PROVE  /\ Bytes(n) \in 0..TxBytes(wtx) /\ TxBytes(wtx) \in 0..QueueSize
           /\ writePtr \in Nat /\ writePtr' \in Nat /\ writePtr <= writePtr'
           /\ Counted(writePtr') /\ wpc = "filling"
           /\ wpc' = "idle" /\ TxBytes(wtx)' = 0 /\ CutInv'
           /\ UNCHANGED <<ring, reader, readPtr>>
           /\ \A r \in Readers : step'[r] = step[r] /\ loaded'[r] = loaded[r]
           /\ Writer \notin caught => writePtr' = writePtr + Bytes(n)
           /\ Writer \in caught => writePtr = 0
           /\ Writer \notin caught'
<1> DEFINE b == Bytes(n)
           p == loaded[Writer]
<1>1. CutInv' /\ b \in 0..TxBytes(wtx) /\ b \in Nat /\ TxBytes(wtx) \in 0..QueueSize
      /\ writePtr \in Nat /\ p \in Nat /\ Counted(p + b)
  BY CutStoreWritePtr, CommitBytes, CutRanges, LoadedRange, ResetConstants, Constants
     DEF ResetInv, StoreWritePtr, Commits, Filled
<1>2. /\ UNCHANGED <<readPtr, ring, reader>> /\ writePtr' = CounterAdd(p, b)
      /\ wpc = "filling" /\ wpc' = "idle" /\ TxBytes(wtx)' = 0
      /\ Leaves(Writer) /\ step[Writer] = "storing"
  BY NullCovers DEF StoreWritePtr, Commits
<1>3. \A r \in Readers : step'[r] = step[r] /\ loaded'[r] = loaded[r]
  BY <1>2, OthersCalls DEF ResetInv
<1>4. Writer \notin caught => p = writePtr
  BY <1>2 DEF ResetInv, FreshCount
<1>5. Writer \in caught => writePtr = 0
  BY DEF ResetInv, FreshCount
<1>6. Writer \notin caught'
  <2>1. CaughtNow'
    BY CaughtNowNext, ResetConstants DEF ResetInv
  <2>2. ~Remains(Writer)'
    BY <1>2, ResetConstants DEF Remains, Busy, Lost
  <2> QED
    BY <2>1, <2>2 DEF CaughtNow
<1> HIDE DEF b, p
<1>7. writePtr' = p + b
  BY <1>1, <1>2, CountedAdd
<1>8. writePtr <= writePtr' /\ writePtr' \in Nat
  BY <1>1, <1>4, <1>5, <1>7
<1>9. Counted(writePtr') /\ (Writer \notin caught => writePtr' = writePtr + b)
  BY <1>1, <1>4, <1>7
<1> QED
  BY <1>1, <1>2, <1>3, <1>5, <1>6, <1>8, <1>9 DEF b

LEMMA StoreCounts ==
    ASSUME ResetInv, NEW n \in Counts, StoreWritePtr(n), Remembers(Writer)
    PROVE  FreshCount' /\ CountedInv' /\ CaughtNow' /\ FilledAgain'
<1>1. /\ writePtr \in Nat /\ writePtr' \in Nat /\ writePtr <= writePtr' /\ QueueSize \in Nat
      /\ Counted(writePtr') /\ wpc' = "idle" /\ TxBytes(wtx)' = 0
      /\ UNCHANGED <<reader, readPtr>> /\ Writer \notin caught'
      /\ \A r \in Readers : step'[r] = step[r] /\ loaded'[r] = loaded[r]
  BY StoreMoves, Constants
<1>2. FreshCount'
  <2>1. fresh = LesserOf(QueueSize, writePtr)
        /\ fresh' = LesserOf(QueueSize, fresh + (writePtr' - writePtr))
    BY DEF ResetInv, FreshCount, Remembers
  <2> DEFINE w1 == writePtr'
  <2>2. w1 \in Nat /\ writePtr <= w1
    BY <1>1
  <2> HIDE DEF w1
  <2>3. LesserOf(QueueSize, LesserOf(QueueSize, writePtr) + (w1 - writePtr)) =
           LesserOf(QueueSize, w1)
    BY <1>1, <2>2 DEF LesserOf
  <2>4. fresh' = LesserOf(QueueSize, writePtr')
    BY <2>1, <2>3 DEF w1
  <2> QED
    BY <1>1, <2>4 DEF FreshCount
<1>3. CountedInv'
  BY <1>1 DEF ResetInv, CountedInv, CallCounted, reader
<1>4. CaughtNow'
  BY CaughtNowNext, ResetConstants DEF ResetInv
<1> QED
  BY <1>1, <1>2, <1>3, <1>4 DEF FilledAgain, FilledInRing

LEMMA StoreStandsBehind ==
    ASSUME ResetInv, NEW n \in Counts, StoreWritePtr(n), Remembers(Writer)
    PROVE  StandsBehind'
<1>1. /\ writePtr \in Nat /\ writePtr' \in Nat /\ writePtr <= writePtr' /\ CutInv'
      /\ CountedInv' /\ UNCHANGED <<reader, readPtr>> /\ Writer \in Parties
      /\ \A r \in Readers : step'[r] = step[r] /\ loaded'[r] = loaded[r]
  BY StoreMoves, StoreCounts, ResetConstants
<1> SUFFICES ASSUME NEW s \in Readers \ caught'
             PROVE  /\ Synchronized => readPtr[s] <= writePtr'
                    /\ rpc[s] = "taking" => readPtr[s] + TxBytes(rtx[s]) <= writePtr'
                    /\ CallBehind(s)'
  BY <1>1 DEF StandsBehind, Synchronized, reader
<1>2. CASE s \in caught
  <2>1. rpc'[s] = "idle" /\ step'[s] = "none" /\ (Synchronized => ~Overflow(s)')
    BY <1>1, <1>2, NotLost
  <2>2. Synchronized => readPtr'[s] <= writePtr'
    BY <1>1, <2>1, ReaderDistancesNext
  <2> QED
    BY <1>1, <2>1, <2>2 DEF CallBehind, reader
<1>3. CASE s \notin caught
  <2> DEFINE w1 == writePtr'
             q == readPtr[s]
             e == readPtr[s] + TxBytes(rtx[s])
             p == loaded[s]
  <2>1. /\ q \in Nat /\ e \in Nat /\ p \in Nat
        /\ Synchronized => q <= writePtr
        /\ rpc[s] = "taking" => e <= writePtr
        /\ CallBehind(s)
    BY <1>3, ReaderDistance, LoadedRange, ResetConstants, Constants DEF ResetInv, StandsBehind
  <2>2. w1 \in Nat /\ writePtr \in Nat /\ writePtr <= w1
    BY <1>1
  <2>3. /\ step[s] \in {"beginning", "storing"} =>
              p <= writePtr /\ (Synchronized => q <= p)
        /\ step[s] = "committing" => p = q /\ e <= writePtr
    BY <2>1 DEF CallBehind
  <2>4. /\ step'[s] = step[s] /\ loaded'[s] = p /\ readPtr'[s] = q
        /\ readPtr'[s] + TxBytes(rtx[s])' = e /\ writePtr' = w1
    BY <1>1 DEF reader
  <2> HIDE DEF w1, q, e, p
  <2>5. /\ Synchronized => q <= w1
        /\ rpc[s] = "taking" => e <= w1
        /\ step[s] \in {"beginning", "storing"} => p <= w1 /\ (Synchronized => q <= p)
        /\ step[s] = "committing" => p = q /\ e <= w1
    BY <2>1, <2>2, <2>3
  <2>6. CallBehind(s)'
    BY <2>4, <2>5 DEF CallBehind, Synchronized
  <2> QED
    BY <2>5, <2>6 DEF w1, q, e
<1> QED
  BY <1>2, <1>3

\* The store fills what the writer was granted, if it was not blindly.
LEMMA StoreKeepsRoom ==
    ASSUME ResetInv, NEW n \in Counts, StoreWritePtr(n), Remembers(Writer)
    PROVE  RoomAgain'
<1>1. /\ writePtr \in Nat /\ writePtr' \in Nat /\ QueueSize \in Nat /\ CutInv'
      /\ CountedInv' /\ UNCHANGED <<reader, readPtr>> /\ Writer \in Parties
      /\ wpc' = "idle" /\ TxBytes(wtx)' = 0 /\ attaching' = attaching
      /\ Bytes(n) \in 0..TxBytes(wtx) /\ TxBytes(wtx) \in 0..QueueSize
      /\ Writer \notin caught => writePtr' = writePtr + Bytes(n)
  BY StoreMoves, StoreCounts, ResetConstants, Constants DEF Remembers
<1> SUFFICES ASSUME attaching = {}, Synchronized, NEW r \in Readers \ caught'
             PROVE  Backlog(r)' <= QueueSize
  <2>1. ASSUME attaching = {}, Synchronized, NEW r \in Readers \ caught'
        PROVE  Backlog(r)' + 0 <= QueueSize
    <3>1. Backlog(r)' \in Nat
      BY <1>1, CutRangesNext, Constants
    <3> QED
      BY <1>1, <2>1, <3>1
  <2> QED
    BY <1>1, <2>1 DEF RoomAgain, Synchronized
<1>2. CASE r \in caught \/ Writer \in caught \/ blind
  <2>1. ~Overflow(r)'
    BY <1>1, <1>2, NotLost
  <2> QED
    BY <1>1, <2>1, ReaderDistancesNext
<1>3. CASE r \notin caught /\ Writer \notin caught /\ ~blind
  <2> DEFINE q == readPtr[r]
             l == Backlog(r)
             l1 == Backlog(r)'
             t == TxBytes(wtx)
             b == Bytes(n)
  <2>1. /\ q \in Nat /\ q <= writePtr /\ l = writePtr - q
        /\ l + t <= QueueSize
    BY <1>3, ReaderDistances DEF ResetInv, RoomAgain, StandsBehind
  <2>2. q <= writePtr' => l1 = writePtr' - q
    BY <1>1, ReaderDistancesNext
  <2>3. writePtr' = writePtr + b /\ b \in 0..t /\ t \in 0..QueueSize
    BY <1>1, <1>3
  <2> HIDE DEF q, l, l1, t, b
  <2>4. l1 = (writePtr + b) - q
    BY <1>1, <2>1, <2>2, <2>3
  <2>5. l1 <= QueueSize
    BY <1>1, <2>1, <2>3, <2>4
  <2> QED
    BY <2>5 DEF l1
<1> QED
  BY <1>2, <1>3

LEMMA StoreFreshens ==
    ASSUME ResetInv, NEW n \in Counts, StoreWritePtr(n), Remembers(Writer), Writer \notin caught
    PROVE  fresh \in 0..QueueSize /\ fresh' = LesserOf(QueueSize, fresh + Bytes(n))
<1> DEFINE b == Bytes(n)
<1>1. writePtr \in Nat /\ b \in 0..TxBytes(wtx) /\ TxBytes(wtx) \in 0..QueueSize
      /\ writePtr' = writePtr + b /\ QueueSize \in Nat
  BY StoreMoves, Constants
<1>2. fresh = LesserOf(QueueSize, writePtr)
      /\ fresh' = LesserOf(QueueSize, fresh + (writePtr' - writePtr))
  BY DEF ResetInv, FreshCount, Remembers
<1> HIDE DEF b
<1>3. writePtr' - writePtr = b /\ fresh \in 0..QueueSize
  BY <1>1, <1>2 DEF LesserOf
<1> QED
  BY <1>2, <1>3 DEF b

\* The committed bytes are the freshest, and the older ones move one commit on.
LEMMA CommitRecent ==
    ASSUME ResetInv, NEW n \in Counts, StoreWritePtr(n), Remembers(Writer)
    PROVE  \A a \in Offsets :
              /\ a < Bytes(n) => recent'[a] = wdata[Bytes(n) - 1 - a]
                                 /\ wdata[Bytes(n) - 1 - a] # None
              /\ ~(a < Bytes(n)) => recent'[a] = recent[a - Bytes(n)]
<1> DEFINE b == Bytes(n)
<1>1. b \in 0..QueueSize
  BY CommitBytes DEF ResetInv, StoreWritePtr, Commits, Filled
<1>2. /\ recent' = [a \in Offsets |-> IF a < b THEN wdata[b - 1 - a] ELSE recent[a - b]]
      /\ \A j \in 0..(b - 1) : wdata[j] # None
  BY DEF StoreWritePtr, Commits, Filled
<1> HIDE DEF b
<1>3. \A a \in Offsets : a < b => b - 1 - a \in 0..(b - 1)
  BY <1>1, MirrorIndex
<1> QED
  BY <1>2, <1>3 DEF b

LEMMA ScribbledLess ==
    ASSUME ResetInv, NEW n \in Counts, StoreWritePtr(n)
    PROVE  /\ scribbled \in Nat /\ scribbled' \in Nat
           /\ scribbled <= scribbled' + Bytes(n)
<1>1. scribbled \in Nat /\ Bytes(n) \in Nat
  BY CutRanges, Constants DEF ResetInv
<1>2. scribbled' = IF scribbled > Bytes(n) THEN scribbled - Bytes(n) ELSE 0
  BY DEF StoreWritePtr, Commits
<1> QED
  BY <1>1, <1>2

\* An older byte before and after a commit of b bytes: its age, and whether it
\* is intact.
LEMMA OlderByte ==
    ASSUME NEW l \in Nat, NEW b \in Nat, NEW j \in Nat, NEW s \in Nat, NEW t \in Nat,
           s <= t + b, (l + b) + t <= j + QueueSize, j < l
    PROVE  /\ l + s <= j + QueueSize
           /\ \A f \in 0..QueueSize : l - 1 - j \in 0..(f - 1) =>
                 (l + b) - 1 - j \in 0..(LesserOf(QueueSize, f + b) - 1)
<1>1. QueueSize \in Nat
  BY Constants
<1> QED
  BY <1>1 DEF LesserOf

LEMMA OlderAge ==
    ASSUME NEW a \in Nat, NEW b \in Nat, NEW s \in Nat, NEW t \in Nat,
           s <= t + b, a + t < QueueSize, b <= a
    PROVE  (a - b) + s < QueueSize
<1>1. QueueSize \in Nat
  BY Constants
<1> QED
  BY <1>1

LEMMA FresherAge ==
    ASSUME NEW f \in 0..QueueSize, NEW b \in Nat,
           NEW a \in 0..(LesserOf(QueueSize, f + b) - 1)
    PROVE  a \in Nat /\ a \in Offsets /\ a < f + b
<1>1. QueueSize \in Nat /\ Offsets = 0..(QueueSize - 1)
  BY Constants
<1> QED
  BY <1>1 DEF LesserOf

LEMMA CommitKeepsFresh ==
    ASSUME ResetInv, NEW n \in Counts, StoreWritePtr(n), Remembers(Writer)
    PROVE  FreshInRing'
<1> DEFINE b == Bytes(n)
           w == writePtr
           s == scribbled
           t == TxBytes(wtx)
<1>1. /\ b \in 0..t /\ t \in 0..QueueSize /\ w \in Nat
      /\ Writer \in caught => w = 0
      /\ Writer \notin caught =>
            /\ writePtr' = w + b
            /\ fresh \in 0..QueueSize /\ fresh' = LesserOf(QueueSize, fresh + b)
  BY StoreMoves, StoreFreshens
<1>2. QueueSize \in Nat \ {0} /\ s \in Nat /\ scribbled' \in Nat /\ s <= scribbled' + b
  BY ScribbledLess, Constants
<1>3. ring' = ring
  BY DEF StoreWritePtr, Commits
<1>4. torn' = (torn \/ (Writer \in caught /\ writePtr' # w))
  BY DEF Remembers
<1>5. CASE Writer \in caught
  <2>1. w = 0
    BY <1>1, <1>5
  <2>2. ~torn' => writePtr' = w
    BY <1>4, <1>5, Zenon
  <2>3. ~torn' => fresh' = 0
    BY <1>2, <2>1, <2>2, StoreCounts DEF FreshCount, LesserOf
  <2> QED
    BY <2>3 DEF FreshInRing
<1>6. CASE Writer \notin caught
  <2>w. writePtr' = w + b /\ fresh \in 0..QueueSize /\ fresh' = LesserOf(QueueSize, fresh + b)
    BY <1>1, <1>6
  <2> HIDE DEF b, w, s, t
  <2>0. ~torn' => ~torn
    BY <1>4, Zenon
  <2>1. ASSUME ~torn', NEW a \in 0..(fresh' - 1), a + scribbled' < QueueSize
        PROVE  ring[((w + b) + (QueueSize - 1) - a) % QueueSize] = recent'[a]
    <3>b. b \in Nat /\ fresh \in 0..QueueSize /\ t \in Nat
      BY <1>1, <2>w
    <3>c. a \in 0..(LesserOf(QueueSize, fresh + b) - 1)
      BY <1>1, <2>w, <2>1
    <3>d. a \in Nat /\ a \in Offsets /\ a < fresh + b
      BY <3>b, <3>c, FresherAge
    <3>1. a \in Nat /\ a < fresh + b /\ a + scribbled' < QueueSize
          /\ b \in Nat /\ fresh \in Nat
      BY <2>1, <3>b, <3>d
    <3>2. a \in Offsets
      BY <3>d
    <3>3. CASE a < b
      <4> DEFINE j == b - 1 - a
                 x == w + j
      <4>1. j \in 0..(t - 1) /\ x \in Int /\ 1 \in Int
            /\ (w + b) + (QueueSize - 1) - a = x + QueueSize * 1
        BY <1>1, <2>w, <1>2, <3>1, <3>3
      <4>2. recent'[a] = wdata[j] /\ wdata[j] # None
        BY <3>2, <3>3, CommitRecent DEF b
      <4> HIDE DEF j
      <4>3. ring[x % QueueSize] = wdata[j]
        BY <1>6, <4>1, <4>2 DEF ResetInv, FilledAgain, FilledInRing, w, t
      <4> HIDE DEF x
      <4>4. (x + QueueSize * 1) % QueueSize = x % QueueSize
        BY <1>2, <4>1, ModShift
      <4> QED
        BY <4>1, <4>2, <4>3, <4>4
    <3>4. CASE ~(a < b)
      <4> DEFINE c == a - b
      <4>1. c \in 0..(fresh - 1)
            /\ (w + b) + (QueueSize - 1) - a = w + (QueueSize - 1) - c
        BY <1>1, <2>w, <1>2, <3>1, <3>4
      <4>2. c + s < QueueSize
        <5>1. b <= a
          BY <3>1, <3>4
        <5> QED
          BY <1>2, <3>1, <5>1, OlderAge
      <4>3. recent'[a] = recent[c]
        BY <3>2, <3>4, CommitRecent DEF b
      <4> HIDE DEF c
      <4>4. ring[(w + (QueueSize - 1) - c) % QueueSize] = recent[c]
        BY <1>6, <2>0, <2>1, <4>1, <4>2 DEF ResetInv, FreshInRing, w, s
      <4> QED
        BY <4>1, <4>3, <4>4
    <3> QED
      BY <3>3, <3>4
  <2> QED
    BY <1>1, <2>w, <1>3, <2>1 DEF FreshInRing
<1> QED
  BY <1>5, <1>6

LEMMA CommitKeepsReads ==
    ASSUME ResetInv, NEW n \in Counts, StoreWritePtr(n), Remembers(Writer)
    PROVE  ReadsAreFresh'
<1> DEFINE b == Bytes(n)
<1>1. /\ b \in 0..TxBytes(wtx) /\ TxBytes(wtx) \in 0..QueueSize /\ writePtr \in Nat
      /\ CutInv' /\ Counted(writePtr')
      /\ Writer \notin caught =>
            /\ writePtr' = writePtr + b
            /\ fresh \in 0..QueueSize /\ fresh' = LesserOf(QueueSize, fresh + b)
  BY StoreMoves, StoreFreshens
<1>2. QueueSize \in Nat \ {0} /\ scribbled \in Nat /\ scribbled' \in Nat
      /\ scribbled <= scribbled' + b
  BY ScribbledLess, Constants
<1>3. UNCHANGED <<reader, readPtr>>
  BY DEF StoreWritePtr, Commits
<1>4. torn' = (torn \/ (Writer \in caught /\ writePtr' # writePtr))
  BY DEF Remembers
<1>5. ~torn' => ~torn
  BY <1>4, Zenon
<1> SUFFICES ASSUME ~torn', NEW r \in Readers \ caught' PROVE FreshCopies(r)'
  BY DEF ReadsAreFresh, FreshCopies
<1>6. CASE rpc[r] # "taking"
  <2>1. TxBytes(rtx[r]) = 0
    BY <1>6, NullCovers DEF ResetInv, CutInv, TypeOK, ReaderCut
  <2> QED
    BY <1>3, <2>1 DEF FreshCopies, reader
<1>7. CASE rpc[r] = "taking" /\ Writer \notin caught
  <2> DEFINE q == readPtr[r]
             t == TxBytes(rtx[r])
             l == Backlog(r)
  <2>w. /\ writePtr' = writePtr + b /\ Counted(writePtr + b)
        /\ fresh \in 0..QueueSize /\ fresh' = LesserOf(QueueSize, fresh + b)
    BY <1>1, <1>7
  <2>1. r \notin caught
    BY <1>3, <1>7, StillCaught, ResetConstants DEF reader
  <2>2. q \in Nat /\ t \in Nat /\ q + t <= writePtr /\ Counted(q)
        /\ l = writePtr - q
    <3>1. q \in Nat /\ t \in Nat /\ Counted(q) /\ (q <= writePtr => l = writePtr - q)
      BY ReaderDistance, Constants DEF ResetInv
    <3>2. q + t <= writePtr
      BY <1>7, <2>1 DEF ResetInv, StandsBehind
    <3> HIDE DEF q, t, l
    <3> QED
      BY <1>1, <2>w, <3>1, <3>2
  <2>3. Backlog(r)' = CounterSub(writePtr + b, q)
    BY <1>1, <2>w, <1>3 DEF Backlog, AvailableToReadBytes
  <2>t. TxBytes(rtx[r])' = t /\ rdata' = rdata
    BY <1>3 DEF reader
  <2>c. Counted(writePtr + b)
    BY <2>w
  <2> HIDE DEF b, q, t, l
  <2>4. Backlog(r)' = l + b
    <3>1. writePtr + b \in Nat /\ q <= writePtr + b
      BY <1>1, <2>w, <2>2
    <3>2. CounterSub(writePtr + b, q) = (writePtr + b) - q
      BY <2>2, <2>c, <3>1, Distance
    <3> QED
      BY <1>1, <2>w, <2>2, <2>3, <3>2
  <2>6. ASSUME NEW j \in 0..(t - 1), rdata[r][j] # None, Intact(r, j)'
        PROVE  /\ (l + b) - 1 - j \in 0..(fresh' - 1)
               /\ rdata[r][j] = recent'[(l + b) - 1 - j]
    <3>1. (l + b) + scribbled' <= j + QueueSize
      BY <2>4, <2>6 DEF Intact
    <3>2. j \in Nat /\ j < l /\ l \in Nat /\ b \in Nat
      BY <1>1, <2>w, <2>2, <2>6
    <3>3. l + scribbled <= j + QueueSize
      BY <1>2, <3>1, <3>2, OlderByte
    <3>4. Intact(r, j)
      BY <3>3 DEF Intact, l
    <3>5. l - 1 - j \in 0..(fresh - 1) /\ rdata[r][j] = recent[l - 1 - j]
      BY <1>5, <1>7, <2>1, <2>6, <3>4 DEF ResetInv, ReadsAreFresh, l, t
    <3> DEFINE a == (l + b) - 1 - j
    <3>s. scribbled' \in Nat
      BY <1>2
    <3>i. a = (l + b) - 1 - j
      OBVIOUS
    <3> HIDE DEF a
    <3>6. a \in Offsets /\ ~(a < b) /\ a - b = l - 1 - j
      <4>1. b \in Nat /\ l \in Nat /\ j \in Nat /\ j < l
        BY <3>2
      <4>2. a - b = l - 1 - j /\ ~(a < b) /\ a \in Nat
        BY <3>i, <4>1
      <4> DEFINE u == scribbled'
      <4>u. u \in Nat /\ QueueSize \in Nat /\ (l + b) + u <= j + QueueSize
        BY <1>2, <3>s, <3>1
      <4> HIDE DEF u
      <4>3. a < QueueSize
        BY <4>u, <3>i, <4>1
      <4> QED
        BY <1>2, <4>2, <4>3 DEF Offsets
    <3>7. a \in 0..(LesserOf(QueueSize, fresh + b) - 1)
      BY <1>1, <2>w, <1>2, <3>1, <3>2, <3>5, <3>i, OlderByte
    <3>8. recent'[a] = recent[a - b]
      BY <3>6, CommitRecent DEF b
    <3> QED
      BY <1>1, <2>w, <3>5, <3>6, <3>7, <3>8 DEF a
  <2> QED
    BY <2>4, <2>6, <2>t DEF FreshCopies
<1>8. CASE rpc[r] = "taking" /\ Writer \in caught
  <2>1. r \notin caught
    BY <1>3, <1>8, StillCaught, ResetConstants DEF reader
  <2>2. TxBytes(rtx[r]) = 0
    BY <1>8, <2>1, OvertakenWriter
  <2> QED
    BY <1>3, <2>2 DEF FreshCopies, reader
<1> QED
  BY <1>6, <1>7, <1>8

LEMMA ResetStoreWritePtr ==
    ASSUME ResetInv, NEW n \in Counts, StoreWritePtr(n), Remembers(Writer)
    PROVE  ResetInv'
  BY StoreMoves, StoreCounts, StoreStandsBehind, StoreKeepsRoom, CommitKeepsFresh,
     CommitKeepsReads DEF ResetInv

LEMMA ResetWriters ==
    ASSUME ResetInv, WriterSteps, Remembers(Writer)
    PROVE  ResetInv'
  BY WriterStepKinds, ResetBeginWrite, ResetLoadWritePtr, ResetCopyTo, ResetStoreWritePtr,
     ResetDropWrite
-----------------------------------------------------------------------------
\* The two stores of a reset.

\* A reader that is in no call and no transaction is owed nothing.
LEMMA NotBusyNext ==
    ASSUME CutInv', NEW r \in Readers, ~Busy(r)'
    PROVE  rpc'[r] = "idle" /\ step'[r] = "none" /\ TxBytes(rtx[r])' = 0 /\ FreshCopies(r)'
<1>1. rpc'[r] # "taking" /\ step'[r] = "none"
  BY TakingIsBusy
<1>2. rpc'[r] = "idle"
  BY <1>1 DEF CutInv, TypeOK
<1> QED
  BY <1>1, <1>2, IdleIsFreshNext

LEMMA ResetResetReadPtr ==
    ASSUME ResetInv, NEW p \in Parties, ResetReadPtr(p)
    PROVE  ResetInv'
<1>1. /\ UNCHANGED <<writePtr, ring, recent, scribbled, torn, fresh>> /\ step'[p] = "none"
      /\ \A q \in Parties \ {p} : step'[q] = step[q] /\ loaded'[q] = loaded[q]
      /\ \A r \in Readers : readPtr'[r] \in {0, readPtr[r]} /\ (Synchronized => readPtr'[r] = 0)
      /\ \A r \in Readers \ {p} :
            /\ rpc'[r] = rpc[r] /\ rtx'[r] = rtx[r] /\ rdata'[r] = rdata[r]
            /\ ~Synchronized => readPtr'[r] = readPtr[r]
      /\ p = Writer => wpc' = "idle"
      /\ wpc' = "filling" => UNCHANGED writer /\ p # Writer
  BY LeftBehind DEF ResetInv, history, Parties
<1>2. /\ CutInv /\ CutInv' /\ Readers \subseteq Parties /\ Writer \in Parties
      /\ writePtr \in Nat /\ QueueSize \in Nat /\ Counted(0) /\ 0 \in Nat
  BY CutResetReadPtr, CutRanges, ResetConstants, Constants DEF ResetInv, Counted
<1>3. /\ attaching' # {} /\ \A q \in caught' : Busy(q)'
      /\ blind' => wpc' = "filling"
      /\ Writer \in caught' => Writer \in caught
      /\ wpc' = "filling" => (Writer \in caught' <=> Writer \in caught)
      /\ \A r \in Readers : Busy(r)' /\ r \notin caught' => r \notin caught /\ r # p /\ ~Synchronized
  BY <1>2, FirstStoreCatches
\* A reader that no reset overtook and that is busy is as it was.
<1>4. ASSUME NEW r \in Readers \ caught', Busy(r)'
      PROVE  /\ r \notin caught /\ ~Synchronized /\ r # p
             /\ rpc'[r] = rpc[r] /\ rtx'[r] = rtx[r] /\ rdata'[r] = rdata[r]
             /\ readPtr'[r] = readPtr[r] /\ step'[r] = step[r] /\ loaded'[r] = loaded[r]
             /\ TxBytes(rtx[r])' = TxBytes(rtx[r]) /\ Backlog(r)' = Backlog(r)
  <2>1. r \notin caught /\ ~Synchronized /\ r # p
    BY <1>3, <1>4
  <2> QED
    BY <1>1, <1>2, <2>1 DEF Backlog
<1>5. CountedInv'
  <2>1. ASSUME NEW r \in Readers
        PROVE  Counted(readPtr'[r] + TxBytes(rtx[r])') /\ CallCounted(r)'
    <3> DEFINE t == TxBytes(rtx[r])
               t1 == TxBytes(rtx[r])'
    <3>0. /\ t1 \in 0..QueueSize /\ t \in 0..QueueSize /\ Counted(readPtr[r] + t)
          /\ readPtr[r] \in Nat /\ CallCounted(r) /\ readPtr'[r] \in {0, readPtr[r]}
          /\ Counted(readPtr[r])
      BY <1>1, <1>2, CutRangesNext, ReaderDistance DEF ResetInv, CountedInv
    <3>1. CASE r = p
      <4>1. t1 = 0
        BY <1>2, <3>1, LeftBehind, DoneIsCut
      <4>2. CallCounted(r)'
        BY <1>1, <3>1 DEF CallCounted
      <4>3. Counted(readPtr'[r] + 0)
        <5>1. Counted(0 + 0) /\ Counted(readPtr[r] + 0)
          BY <1>2, <3>0
        <5> QED
          BY <3>0, <5>1
      <4> QED
        BY <4>1, <4>2, <4>3
    <3>2. CASE r # p
      <4>1. t1 = t /\ step'[r] = step[r] /\ loaded'[r] = loaded[r]
        BY <1>1, <1>2, <3>2
      <4>2. CallCounted(r)'
        BY <3>0, <4>1 DEF CallCounted
      <4>3. Counted(0 + t)
        <5> HIDE DEF t
        <5> QED
          BY <3>0, ResetConstants, Constants DEF Counted
      <4> QED
        BY <3>0, <4>1, <4>2, <4>3
    <3> QED
      BY <3>1, <3>2
  <2> QED
    BY <1>1, <2>1 DEF ResetInv, CountedInv
<1>6. FreshCount'
  <2>1. wpc' = "filling" => wpc = "filling" /\ step'[Writer] = step[Writer]
                            /\ loaded'[Writer] = loaded[Writer]
    BY <1>1, <1>2 DEF writer
  <2> QED
    BY <1>1, <1>3, <2>1 DEF ResetInv, FreshCount
<1>7. CaughtNow' /\ RoomAgain'
  BY <1>3 DEF CaughtNow, RoomAgain, Remains
<1>8. StandsBehind'
  <2>1. ASSUME NEW r \in Readers \ caught'
        PROVE  /\ Synchronized => readPtr'[r] <= writePtr
               /\ rpc'[r] = "taking" => readPtr'[r] + TxBytes(rtx[r])' <= writePtr
               /\ CallBehind(r)'
    <3>1. Synchronized => readPtr'[r] <= writePtr
      BY <1>1, <1>2
    <3>2. CASE ~Busy(r)'
      BY <1>2, <3>1, <3>2, NotBusyNext DEF CallBehind
    <3>3. CASE Busy(r)'
      <4>1. /\ rpc[r] = "taking" => readPtr[r] + TxBytes(rtx[r]) <= writePtr
            /\ CallBehind(r)
        BY <1>4, <3>3 DEF ResetInv, StandsBehind
      <4> QED
        BY <1>1, <1>4, <3>1, <3>3, <4>1 DEF CallBehind, Synchronized
    <3> QED
      BY <3>2, <3>3
  <2> QED
    BY <1>1, <2>1 DEF StandsBehind, Synchronized
<1>9. FilledAgain'
  <2>1. CASE wpc' = "filling"
    BY <1>1, <1>3, <2>1 DEF ResetInv, FilledAgain, FilledInRing, writer
  <2>2. CASE wpc' # "filling"
    <3>1. TxBytes(wtx)' = 0
      BY <1>2, <2>2, IdleWriterNext
    <3> QED
      BY <3>1 DEF FilledAgain, FilledInRing
  <2> QED
    BY <2>1, <2>2
<1>10. FreshInRing'
  <2>1. CASE Writer \in caught
    BY <1>1, <2>1, OvertakenWriter DEF FreshInRing
  <2>2. CASE Writer \notin caught
    BY <1>1, <2>2 DEF ResetInv, FreshInRing
  <2> QED
    BY <2>1, <2>2
<1>11. ReadsAreFresh'
  <2>1. ASSUME ~torn, NEW r \in Readers \ caught' PROVE FreshCopies(r)'
    <3>1. CASE ~Busy(r)' \/ rpc'[r] # "taking"
      BY <1>2, <3>1, NotBusyNext, IdleIsFreshNext
    <3>2. CASE Busy(r)' /\ rpc'[r] = "taking"
      <4>1. CASE Writer \in caught
        <5>1. TxBytes(rtx[r]) = 0
          BY <1>4, <3>2, <4>1, OvertakenWriter
        <5> QED
          BY <1>4, <3>2, <5>1 DEF FreshCopies
      <4>2. CASE Writer \notin caught
        <5>1. FreshCopies(r)
          BY <1>4, <2>1, <3>2, <4>2 DEF ResetInv, ReadsAreFresh, FreshCopies
        <5> QED
          BY <1>1, <1>4, <3>2, <5>1 DEF FreshCopies, Intact
      <4> QED
        BY <4>1, <4>2
    <3> QED
      BY <3>1, <3>2
  <2> QED
    BY <1>1, <2>1 DEF ReadsAreFresh, FreshCopies
<1> QED
  BY <1>2, <1>5, <1>6, <1>7, <1>8, <1>9, <1>10, <1>11 DEF ResetInv

LEMMA ResetResetWritePtr ==
    ASSUME ResetInv, NEW p \in Parties, ResetWritePtr(p)
    PROVE  ResetInv'
<1>1. /\ UNCHANGED <<readPtr, ring, writer, reader, recent, step, loaded>>
      /\ writePtr' = 0 /\ fresh' = 0 /\ scribbled' = 0 /\ blind' = FALSE
      /\ \A q \in caught' : Remains(q)'
      /\ Writer \in caught' <=> wpc = "filling"
      /\ \A r \in Readers : /\ Busy(r) => r \in caught'
                            /\ r \notin caught' => ~(Synchronized /\ Overflow(r)')
  BY SecondStoreCatches DEF ResetInv
<1>2. /\ CutInv /\ CutInv' /\ Counted(0) /\ 0 \in Nat /\ QueueSize \in Nat
      /\ LesserOf(QueueSize, 0) = 0
  BY CutResetWritePtr, ResetConstants, Constants DEF ResetInv, Counted, LesserOf
<1>3. CountedInv'
  BY <1>1, <1>2 DEF ResetInv, CountedInv, CallCounted, reader
<1>4. FreshCount'
  BY <1>1, <1>2 DEF FreshCount, writer
<1>5. CaughtNow'
  BY <1>1 DEF CaughtNow
\* Who is not caught is in no call, and a synchronized one at the counter 0.
<1>6. ASSUME NEW r \in Readers \ caught'
      PROVE  /\ rpc'[r] = "idle" /\ step'[r] = "none" /\ FreshCopies(r)'
             /\ Synchronized => readPtr'[r] <= 0 /\ Backlog(r)' = 0
  <2>1. ~Busy(r)'
    <3>1. Busy(r)' <=> Busy(r)
      BY <1>1 DEF Busy, writer, reader
    <3> QED
      BY <1>1, <3>1
  <2>2. Synchronized => readPtr'[r] <= 0 /\ Backlog(r)' = 0
    <3> DEFINE q1 == readPtr'[r]
               l1 == Backlog(r)'
    <3>1. /\ q1 \in Nat /\ (q1 <= 0 => l1 = 0 - q1)
          /\ Synchronized => q1 <= 0
      BY <1>1, <1>2, <1>3, ReaderDistancesNext
    <3> HIDE DEF q1, l1
    <3>2. Synchronized => q1 <= 0 /\ l1 = 0
      BY <3>1
    <3> QED
      BY <3>2 DEF q1, l1
  <2> QED
    BY <1>2, <2>1, <2>2, NotBusyNext
<1>7. StandsBehind'
  BY <1>1, <1>6 DEF StandsBehind, CallBehind, Synchronized
<1>8. RoomAgain'
  <2>1. TxBytes(wtx)' \in 0..QueueSize
    BY <1>2, CutRangesNext
  <2>2. 0 <= QueueSize /\ 0 + TxBytes(wtx)' <= QueueSize
    BY <1>2, <2>1
  <2> QED
    BY <1>1, <1>6, <2>2 DEF RoomAgain, Synchronized
<1>9. FilledAgain'
  <2>1. CASE wpc = "filling"
    BY <1>1, <2>1 DEF FilledAgain
  <2>2. CASE wpc # "filling"
    <3>1. TxBytes(wtx) = 0
      BY <1>2, <2>2, IdleWriter
    <3> QED
      BY <1>1, <3>1 DEF FilledAgain, FilledInRing, writer
  <2> QED
    BY <2>1, <2>2
<1>10. FreshInRing'
  BY <1>1 DEF FreshInRing
<1>11. ReadsAreFresh'
  BY <1>6 DEF ReadsAreFresh, FreshCopies
<1> QED
  BY <1>2, <1>3, <1>4, <1>5, <1>7, <1>8, <1>9, <1>10, <1>11 DEF ResetInv
-----------------------------------------------------------------------------
\* The invariant, and what follows from it.
LEMMA ResetInvInit == InitReset => ResetInv
<1> SUFFICES ASSUME InitReset PROVE ResetInv
  OBVIOUS
<1>1. CutInv
  BY CutInit
<1>2. /\ writePtr = 0 /\ fresh = 0 /\ caught = {} /\ attaching = {} /\ scribbled = 0
      /\ wtx = NullTx /\ wpc = "idle" /\ blind = FALSE
      /\ \A r \in Readers : readPtr[r] = 0 /\ rtx[r] = NullTx /\ rpc[r] = "idle"
                            /\ step[r] = "none"
  BY ResetConstants DEF InitReset, Init
<1>3. TxBytes(wtx) = 0 /\ \A r \in Readers : TxBytes(rtx[r]) = 0
  BY <1>2, NullCovers
<1>4. Counted(0) /\ 0 \in Nat /\ QueueSize \in Nat /\ 0 + 0 = 0 /\ 0 <= QueueSize /\ 0 <= 0
  BY ResetConstants, Constants DEF Counted
<1>5. CounterSub(0, 0) = 0
  BY <1>4, Distance
<1>6. \A r \in Readers : Backlog(r) = 0
  BY <1>2, <1>4, <1>5 DEF Backlog, AvailableToReadBytes
<1>7. CountedInv /\ FreshCount /\ CaughtNow /\ StandsBehind
  BY <1>2, <1>3, <1>4 DEF CountedInv, CallCounted, FreshCount, LesserOf, CaughtNow,
     StandsBehind, CallBehind
<1>8. RoomAgain
  BY <1>2, <1>3, <1>4, <1>6 DEF RoomAgain
<1>9. FilledAgain /\ FreshInRing /\ ReadsAreFresh
  BY <1>2, <1>3 DEF FilledAgain, FilledInRing, FreshInRing, ReadsAreFresh
<1> QED
  BY <1>1, <1>7, <1>8, <1>9 DEF ResetInv

LEMMA ResetStutter ==
    ASSUME ResetInv, UNCHANGED allVars
    PROVE  ResetInv'
<1>1. CutInv'
  BY CutStutter DEF ResetInv
<1> QED
  BY <1>1 DEF ResetInv, allVars, resetVars, calls, vars, shared, writer, reader, history,
     CountedInv, CallCounted, FreshCount, CaughtNow, Remains, Busy, Lost, StandsBehind,
     CallBehind, RoomAgain, Backlog, Overflow, Synchronized, FilledAgain, FilledInRing,
     FreshInRing, ReadsAreFresh, Intact

LEMMA ResetNext == ResetInv /\ [NextReset]_allVars => ResetInv'
  BY ResetWriters, ResetReaders, ResetStutter, ResetResetReadPtr, ResetResetWritePtr
     DEF NextReset

\* The inductive invariant holds in every state: the queue's operations and the
\* two stores of initMemory, in any order, keep it.
THEOREM ResetInvariant == SpecReset => []ResetInv
  BY ResetInvInit, ResetNext, PTL DEF SpecReset

\* Every variable keeps its range through any number of resets, and a party
\* that was caught is in its call or its transaction still, or, a reader, about
\* to see the overflow that sets it right.
LEMMA ResetTypes == ResetInv => TypeOKReset
<1> SUFFICES ASSUME ResetInv PROVE TypeOKReset
  OBVIOUS
<1>1. writePtr \in Nat /\ QueueSize \in Nat
  BY CutRanges, Constants DEF ResetInv
<1>2. fresh \in 0..QueueSize
  BY <1>1 DEF ResetInv, FreshCount, LesserOf
<1> QED
  BY <1>2 DEF ResetInv, CutInv, CallTypes, CaughtNow, TypeOKReset

\* Types through resets (initMemory's two stores, whoever attaches).
THEOREM ResetTypeCorrect == SpecReset => []TypeOKReset
  BY ResetInvariant, ResetTypes, PTL

LEMMA GrantsFromInvariant == ResetInv => GrantsHoldAgain
<1> SUFFICES ASSUME ResetInv, attaching = {}, NEW r \in Readers \ caught
             PROVE  /\ TxBytes(rtx[r]) <= Backlog(r)
                    /\ Synchronized => /\ Backlog(r) <= QueueSize
                                       /\ ~blind => Backlog(r) + TxBytes(wtx) <= QueueSize
  BY DEF GrantsHoldAgain
<1> DEFINE q == readPtr[r]
           t == TxBytes(rtx[r])
           l == Backlog(r)
<1>1. /\ writePtr \in Nat /\ q \in Nat /\ l \in Nat /\ t \in 0..QueueSize
      /\ QueueSize \in Nat /\ (q <= writePtr => l = writePtr - q)
  BY ReaderDistance DEF ResetInv
<1>2. t <= l
  <2>1. CASE rpc[r] # "taking"
    <3>1. t = 0
      BY <2>1, IdleIsFresh DEF ResetInv
    <3> HIDE DEF t, l
    <3> QED
      BY <1>1, <3>1
  <2>2. CASE rpc[r] = "taking"
    <3>1. q + t <= writePtr
      BY <2>2 DEF ResetInv, StandsBehind
    <3> HIDE DEF q, t, l
    <3> QED
      BY <1>1, <3>1
  <2> QED
    BY <2>1, <2>2
<1> QED
  BY <1>2 DEF ResetInv, RoomAgain

\* The damage of a reset does not outlive the parties it caught, although each
\* commit is a load and a store that a reset can fall between: once both
\* counters are stored, a reader that neither a reset nor a caught party's store
\* has reached holds no more than its backlog, its backlog fits the queue, and
\* the writer was granted nothing that reader has yet to read, unless it was
\* granted while some reader was caught.
THEOREM GrantsSurviveResets == SpecReset => []GrantsHoldAgain
  BY ResetInvariant, GrantsFromInvariant, PTL

LEMMA FreshFromInvariant == ResetInv => FreshInRing /\ ReadsAreFresh
  BY DEF ResetInv

\* The bytes committed since a reset lie in the ring where the new counters
\* say, unless the writer went on with a transaction from before it.
THEOREM FreshBytesAreInRing == SpecReset => []FreshInRing
  BY ResetInvariant, FreshFromInvariant, PTL

\* No reader that was out of its calls and its transaction takes a byte from
\* before the reset, nor a wrong one from after it, in either flavor.
THEOREM NoStaleReads == SpecReset => []ReadsAreFresh
  BY ResetInvariant, FreshFromInvariant, PTL
=============================================================================
