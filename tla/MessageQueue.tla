----------------------------- MODULE MessageQueue -----------------------------
(***************************************************************************)
(* The non-blocking operations of MessageQueueBase.h: beginWrite, copyTo,  *)
(* commitWrite and beginRead, copyFrom, commitRead (write() and read() are *)
(* these three in a row).  One writer and its readers share writePtr and   *)
(* the ring; with kSynchronizedReadWrite they share the one reader's       *)
(* readPtr too, with kUnsynchronizedWrite every reader has its own.  Every *)
(* access to shared memory that a peer can tell apart is a step: the       *)
(* counter loads of a begin, each byte of a memcpy (in any order), the     *)
(* counter store of a commit.                                              *)
(***************************************************************************)
EXTENDS FmqRing

CONSTANTS Flavor,    \* kSynchronizedReadWrite or kUnsynchronizedWrite
          Readers,   \* the processes that read
          Counts,    \* the nMessages arguments callers pass
          Values,    \* what a byte of a message can hold
          None       \* no value: a byte that was not copied yet

ASSUME QueueAssumption ==
    /\ Flavor \in {kSynchronizedReadWrite, kUnsynchronizedWrite}
    /\ Flavor = kSynchronizedReadWrite => \E r \in Readers : Readers = {r}
    /\ Counts \subseteq Nat
    /\ \A n \in Counts : n * Quantum < CounterMod
    /\ Values # {} /\ None \notin Values

VARIABLES
    writePtr,   \* *mWritePtr
    readPtr,    \* *mReadPtr of each reader's queue object
    ring,       \* the data grantor, byte by byte
    wpc, wtx,   \* the writer: "idle" or "filling" the transaction wtx
    wdata,      \* the bytes copied into wtx so far (None: not yet)
    rpc, rtx,   \* each reader: "idle" or "taking" the transaction rtx
    rdata,      \* the bytes copied out of rtx so far
    \* History, never read by an action:
    recent,     \* the last QueueSize committed bytes, recent[0] the newest
    scribbled,  \* bytes past writePtr that hold uncommitted data
    wrapped     \* some counter passed CounterMod

shared  == <<writePtr, readPtr, ring>>
writer  == <<wpc, wtx, wdata>>
reader  == <<rpc, rtx, rdata>>
history == <<recent, scribbled, wrapped>>
vars    == <<shared, writer, reader, history>>

Synchronized == Flavor = kSynchronizedReadWrite
Offsets == 0..(QueueSize - 1)
Blank == [j \in Offsets |-> None]
Backlog(r) == AvailableToReadBytes(writePtr, readPtr[r])

-----------------------------------------------------------------------------
\* A new queue: zero-filled memory (which value zero is does not matter) and
\* both counters reset by initMemory.
Init ==
    /\ writePtr = 0
    /\ readPtr = [r \in Readers |-> 0]
    /\ \E zero \in Values : ring = [a \in Offsets |-> zero] /\ recent = ring
    /\ wpc = "idle" /\ wtx = NullTx /\ wdata = Blank
    /\ rpc = [r \in Readers |-> "idle"]
    /\ rtx = [r \in Readers |-> NullTx]
    /\ rdata = [r \in Readers |-> Blank]
    /\ scribbled = 0 /\ wrapped = FALSE

-----------------------------------------------------------------------------
\* The writer.

\* beginWrite refuses a request that is larger than the queue, or that the
\* synchronized reader has left no room for.
\* (Mutants of WriteRefused: availableToWrite() is trusted to stay below the size;
\* one message too many.)
WriteRefusedByRoom(n) ==
    Synchronized /\ \E r \in Readers : AvailableToWrite(writePtr, readPtr[r]) < n
WriteRefusedLate(n) ==
    \/ Synchronized /\ \E r \in Readers :
                          AvailableToWrite(writePtr, readPtr[r]) + 1 < n
    \/ n > QuantumCount
WriteRefused(n) ==
    \/ Synchronized /\ \E r \in Readers :
                          AvailableToWrite(writePtr, readPtr[r]) < n
    \/ n > QuantumCount

BeginWrite(n) ==
    /\ wpc = "idle"
    /\ ~WriteRefused(n)
    /\ Aligned(writePtr)
    /\ wpc' = "filling"
    /\ wtx' = TxAt(writePtr, n)
    /\ UNCHANGED <<shared, wdata, reader, history>>

\* Both early returns: the caller's own MemTransaction stays null.
BeginWriteFails(n) ==
    /\ wpc = "idle"
    /\ WriteRefused(n) \/ ~Aligned(writePtr)
    /\ UNCHANGED vars

\* One byte of the memcpys of copyTo.
CopyTo(j) ==
    /\ wpc = "filling"
    /\ j < TxBytes(wtx)
    /\ wdata[j] = None
    /\ \E v \in Values :
         /\ ring' = [ring EXCEPT ![TxAddress(wtx, j)] = v]
         /\ wdata' = [wdata EXCEPT ![j] = v]
    /\ scribbled' = IF scribbled > j THEN scribbled ELSE j + 1
    /\ UNCHANGED <<writePtr, readPtr, wpc, wtx, reader, recent, wrapped>>

\* Bound: no reader lags CounterMod bytes behind, where the difference of the
\* counters would alias.  (In the synchronized flavor no reader ever does.)
NoReaderLapped(bytes) ==
    \A r \in Readers : Backlog(r) + bytes < CounterMod

\* commitWrite is called when the messages it commits are copied.
\* (Mutant of Filled: the counter is published before the data.)
FilledOrNot(n) == n <= TxLength(wtx)
Filled(n) == n <= TxLength(wtx) /\ \A j \in 0..(Bytes(n) - 1) : wdata[j] # None

\* commitWrite(n), for the leading n messages of the transaction or all, when
\* its load of writePtr returned ptr.
Commits(ptr, n) ==
    /\ wpc = "filling"
    /\ Filled(n)
    /\ writePtr' = CounterAdd(ptr, Bytes(n))
    /\ wpc' = "idle" /\ wtx' = NullTx /\ wdata' = Blank
    /\ recent' = [a \in Offsets |-> IF a < Bytes(n)
                                    THEN wdata[Bytes(n) - 1 - a]
                                    ELSE recent[a - Bytes(n)]]
    /\ scribbled' = IF scribbled > Bytes(n) THEN scribbled - Bytes(n) ELSE 0
    /\ wrapped' = (wrapped \/ ptr + Bytes(n) >= CounterMod)
    /\ UNCHANGED <<readPtr, ring, reader>>

\* No other store to writePtr can fall between the load and the store (resets
\* are in QueueReset), so they are one step.
CommitWrite(n) == NoReaderLapped(Bytes(n)) /\ Commits(writePtr, n)

\* The writer never commits: it drops the transaction, or its process dies
\* and a new one attaches to the queue with resetPointers = false.
DropWrite ==
    /\ wpc = "filling"
    /\ wpc' = "idle" /\ wtx' = NullTx /\ wdata' = Blank
    /\ UNCHANGED <<shared, reader, history>>

-----------------------------------------------------------------------------
\* The readers.
Overflow(r) == Backlog(r) > QueueSize

\* (Mutant of ReadersAligned: only the reader's own counter is checked.)
ReadPtrAligned(r) == Aligned(readPtr[r])
ReadersAligned(r) == Aligned(writePtr) /\ Aligned(readPtr[r])

BeginRead(r, n) ==
    /\ rpc[r] = "idle"
    /\ ReadersAligned(r)
    /\ ~Overflow(r)
    /\ Backlog(r) >= Bytes(n)
    /\ rpc' = [rpc EXCEPT ![r] = "taking"]
    /\ rtx' = [rtx EXCEPT ![r] = TxAt(readPtr[r], n)]
    /\ UNCHANGED <<shared, writer, rdata, history>>

\* The reader was too slow: it gives up its whole backlog.
\* (Mutant of BeginReadOverflow: the counter reset is shared by the readers.)
BeginReadOverflowShared(r) ==
    /\ rpc[r] = "idle" /\ ReadersAligned(r) /\ Overflow(r)
    /\ readPtr' = [s \in Readers |-> writePtr]
    /\ UNCHANGED <<writePtr, ring, writer, reader, history>>
BeginReadOverflow(r) ==
    /\ rpc[r] = "idle"
    /\ ReadersAligned(r)
    /\ Overflow(r)
    /\ readPtr' = [readPtr EXCEPT ![r] = writePtr]
    /\ UNCHANGED <<writePtr, ring, writer, reader, history>>

BeginReadFails(r, n) ==
    /\ rpc[r] = "idle"
    /\ \/ ~ReadersAligned(r)
       \/ ~Overflow(r) /\ Backlog(r) < Bytes(n)
    /\ UNCHANGED vars

\* One byte of the memcpys of copyFrom.
CopyFrom(r, j) ==
    /\ rpc[r] = "taking"
    /\ j < TxBytes(rtx[r])
    /\ rdata[r][j] = None
    /\ rdata' = [rdata EXCEPT ![r][j] = ring[TxAddress(rtx[r], j)]]
    /\ UNCHANGED <<shared, writer, rpc, rtx, history>>

ReaderDone(r) ==
    /\ rpc' = [rpc EXCEPT ![r] = "idle"]
    /\ rtx' = [rtx EXCEPT ![r] = NullTx]
    /\ rdata' = [rdata EXCEPT ![r] = Blank]

\* commitRead(n) returns true: the caller keeps the leading n messages.
CommitRead(r, n) ==
    /\ rpc[r] = "taking"
    /\ n <= TxLength(rtx[r])
    /\ \A j \in 0..(Bytes(n) - 1) : rdata[r][j] # None
    /\ ~Overflow(r)
    /\ readPtr' = [readPtr EXCEPT ![r] = CounterAdd(@, Bytes(n))]
    /\ wrapped' = (wrapped \/ readPtr[r] + Bytes(n) >= CounterMod)
    /\ ReaderDone(r)
    /\ UNCHANGED <<writePtr, ring, writer, recent, scribbled>>

\* commitRead returns false: what was copied is discarded with the backlog.
CommitReadOverflow(r) ==
    /\ rpc[r] = "taking"
    /\ Overflow(r)
    /\ readPtr' = [readPtr EXCEPT ![r] = writePtr]
    /\ ReaderDone(r)
    /\ UNCHANGED <<writePtr, ring, writer, history>>

DropRead(r) ==
    /\ rpc[r] = "taking"
    /\ ReaderDone(r)
    /\ UNCHANGED <<shared, writer, history>>

\* The reader's process dies, or a reader joins late, and attaches with
\* resetPointers = false: initMemory gives an unsynchronized reader a counter
\* of its own that starts at 0.
ReattachReader(r) ==
    /\ ReaderDone(r)
    /\ readPtr' = IF Synchronized THEN readPtr ELSE [readPtr EXCEPT ![r] = 0]
    /\ UNCHANGED <<writePtr, ring, writer, history>>

-----------------------------------------------------------------------------
WriterNext ==
    \/ \E n \in Counts : BeginWrite(n) \/ BeginWriteFails(n) \/ CommitWrite(n)
    \/ \E j \in Offsets : CopyTo(j)
    \/ DropWrite

ReaderNext(r) ==
    \/ \E n \in Counts : BeginRead(r, n) \/ BeginReadFails(r, n)
                         \/ CommitRead(r, n)
    \/ \E j \in Offsets : CopyFrom(r, j)
    \/ BeginReadOverflow(r)
    \/ CommitReadOverflow(r)
    \/ DropRead(r)
    \/ ReattachReader(r)

Next == WriterNext \/ \E r \in Readers : ReaderNext(r)

Spec == Init /\ [][Next]_vars

-----------------------------------------------------------------------------
\* Properties.

\* Type invariant: every variable keeps the range its C++ object has.
TypeOK ==
    /\ writePtr \in 0..(CounterMod - 1)
    /\ readPtr \in [Readers -> 0..(CounterMod - 1)]
    /\ ring \in [Offsets -> Values]
    /\ wpc \in {"idle", "filling"}
    /\ wtx \in Transactions
    /\ wdata \in [Offsets -> Values \cup {None}]
    /\ rpc \in [Readers -> {"idle", "taking"}]
    /\ rtx \in [Readers -> Transactions]
    /\ rdata \in [Readers -> [Offsets -> Values \cup {None}]]
    /\ recent \in [Offsets -> Values]
    /\ scribbled \in 0..QueueSize
    /\ wrapped \in BOOLEAN

\* The offset of a counter, ptr % getSize(), survives the counter's wrap only
\* when the size divides 2^64; for other sizes the properties below speak of
\* the queue until a counter first wraps.
OffsetsValid == CounterMod % QueueSize = 0 \/ ~wrapped

\* What beginWrite and beginRead granted stays granted until the commit: the
\* peer's progress, commits of part of a transaction, and dropped transactions
\* never leave a transaction larger than the free space or than the backlog,
\* so that a commit never moves a counter past its peer's.
GrantsHold ==
    /\ TxBytes(wtx) <= QueueSize
    /\ \A r \in Readers :
         /\ TxBytes(rtx[r]) <= QueueSize
         /\ TxBytes(rtx[r]) <= Backlog(r)
         /\ Synchronized => Backlog(r) + TxBytes(wtx) <= QueueSize

\* The synchronized flavor has no data race: the bytes a writer may fill are
\* none of the unread ones, nor of those a reader may be copying.
UnreadAddresses(r) == {(readPtr[r] + i) % QueueSize : i \in 0..(Backlog(r) - 1)}

NoDataRace ==
    Synchronized /\ OffsetsValid =>
        \A r \in Readers :
            /\ TxAddresses(wtx) \cap UnreadAddresses(r) = {}
            /\ TxAddresses(rtx[r]) \subseteq UnreadAddresses(r)

\* The ring holds the newest committed bytes just behind writePtr, but for
\* those an uncommitted write has scribbled over, in both flavors and also
\* after a writer dropped its transaction or died in the middle of it.
RecentInRing ==
    OffsetsValid =>
        \A age \in Offsets :
            age + scribbled < QueueSize =>
                ring[(writePtr + (QueueSize - 1) - age) % QueueSize] = recent[age]

\* Byte i of reader r's backlog is still in the ring.
Intact(r, i) == Backlog(r) + scribbled <= i + QueueSize

\* A reader's copy of a byte is the byte that was committed there, unless by
\* now the writer has scribbled over its slot.  (With kUnsynchronizedWrite
\* that is what the overflow check of commitRead is there to notice.)
CopiesAreExact ==
    OffsetsValid =>
        \A r \in Readers : \A j \in 0..(TxBytes(rtx[r]) - 1) :
            rdata[r][j] # None /\ Intact(r, j) =>
                rdata[r][j] = recent[Backlog(r) - 1 - j]

\* A synchronized reader is never handed a wrong byte: whatever it has copied
\* when its commitRead would succeed is what the writer committed.
\* commitRead's documentation promises the same of the unsynchronized flavor
\* (MessageQueueBase.h:450, "will return a failure if a write overflow happened
\* after beginRead()"), where it does not hold: CommitReadDetectsOverwrite.
CommittableIsExact ==
    \A r \in Readers : \A j \in 0..(TxBytes(rtx[r]) - 1) :
        rdata[r][j] # None /\ ~Overflow(r) =>
            rdata[r][j] = recent[Backlog(r) - 1 - j]

SyncReadsExact == Synchronized /\ OffsetsValid => CommittableIsExact

CommitReadDetectsOverwrite == OffsetsValid => CommittableIsExact

\* A counter left misaligned by its wrap stops the queue for good: no commit
\* follows, and no read begins, whoever reattaches (beginWrite and beginRead
\* log "Writing to the queue is no longer possible").
MisalignedForGood ==
    [][~Aligned(writePtr) =>
          /\ writePtr' = writePtr
          /\ \A r \in Readers : rtx'[r] \in {rtx[r], NullTx}]_vars

\* The addresses of getSlot (zero copy) and of copyTo/copyFrom with any start
\* index agree: message m of a transaction lies in one piece at its slot.
OpenTransactions == {wtx} \cup {rtx[r] : r \in Readers}

AddressingAgrees ==
    \A tx \in OpenTransactions :
        \A start \in 0..TxLength(tx) : \A n \in 0..(TxLength(tx) - start) :
            /\ GetMemRegionInfo(tx, start, n).ok
            /\ \A j \in 0..(n * Quantum - 1) :
                  /\ CopyAddress(tx, start, n, j) =
                        GetSlot(tx, start + (j \div Quantum)) + (j % Quantum)
                  /\ CopyAddress(tx, start, n, j) =
                        TxAddress(tx, start * Quantum + j)

\* The synchronized queue implements the bounded FIFO: the unread bytes of the
\* ring are its contents, the private copies of the two sides its composed
\* and copied bytes.
TheReader == CHOOSE r \in Readers : TRUE

Unread == [i \in 1..Backlog(TheReader) |->
              ring[(readPtr[TheReader] + (i - 1)) % QueueSize]]

Fifo == INSTANCE BoundedFifo WITH
            Capacity <- QueueSize, MessageSize <- Quantum,
            fifo <- Unread, offered <- wdata, copied <- rdata[TheReader]

RefinesFifo == Fifo!Spec
=============================================================================
