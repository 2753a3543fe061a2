------------------------------ MODULE QueueReset ------------------------------
(***************************************************************************)
(* Attaching with resetPointers = true, the default, to a queue in use:    *)
(* initMemory (MessageQueueBase.h) stores 0 to the two counters, one after *)
(* the other, while the other parties go on.  A reset can fall between a   *)
(* peer's load of a counter and its store, which then overwrites it: the   *)
(* loads and stores of commitWrite, commitRead and beginRead are steps of  *)
(* their own here.  beginWrite stays one step.  Between its first load and *)
(* its last only a reset moves writePtr; if none does, it decides as at    *)
(* its load of readPtr; if one does, the last load finds 0, and there it   *)
(* would grant any request that fits the queue.                            *)
(***************************************************************************)
EXTENDS MessageQueue

CONSTANT Writer   \* the party that writes

Parties == Readers \cup {Writer}

\* The counters must have room for a backlog that underflows: see Counted.
ASSUME ResetAssumption ==
    /\ Writer \notin Readers
    /\ 2 * QueueSize < CounterMod

VARIABLES
    attaching,  \* the parties between the two stores of initMemory
    step,       \* each party: "none", or what it has done of the call it is in:
                \* "beginning": beginRead has loaded writePtr
                \* "committing": commitRead has loaded readPtr
                \* "storing": the call has yet to store its own counter
    loaded,     \* the counter it has loaded; a reader "storing": what to store
    \* History, never read by an action:
    caught,     \* parties a reset overtook in a transaction, and readers that
                \* are left with a backlog that does not exist
    blind,      \* the open write was granted while a reader was caught
    torn,       \* a caught writer committed: its bytes lie elsewhere
    fresh       \* how many of the last QueueSize bytes came after the reset

calls == <<step, loaded>>
resetVars == <<attaching, calls, caught, blind, torn, fresh>>
allVars == <<vars, resetVars>>

InitReset ==
    /\ Init
    /\ attaching = {}
    /\ step = [p \in Parties |-> "none"]
    /\ loaded = [p \in Parties |-> 0]
    /\ caught = {} /\ blind = FALSE /\ torn = FALSE /\ fresh = 0

Goes(p, s, ptr) ==
    /\ step' = [step EXCEPT ![p] = s]
    /\ loaded' = [loaded EXCEPT ![p] = ptr]

Leaves(p) == Goes(p, "none", 0)

-----------------------------------------------------------------------------
\* Bound: between two resets the counters stay QueueSize away from CounterMod,
\* so that a reader ahead of writePtr sees a backlog larger than the queue.
Counted(ptr) == ptr < CounterMod - QueueSize

LoadWritePtr ==
    /\ wpc = "filling" /\ step[Writer] = "none"
    /\ Goes(Writer, "storing", writePtr)
    /\ UNCHANGED vars

StoreWritePtr(n) ==
    /\ step[Writer] = "storing"
    /\ Counted(loaded[Writer] + Bytes(n))
    /\ Commits(loaded[Writer], n)
    /\ Leaves(Writer)

WriterSteps ==
    \/ /\ step[Writer] = "none"
       /\ \/ \E n \in Counts : BeginWrite(n) \/ BeginWriteFails(n)
          \/ \E j \in Offsets : CopyTo(j)
       /\ UNCHANGED calls
    \/ LoadWritePtr
    \/ \E n \in Counts : StoreWritePtr(n)
    \/ DropWrite /\ Leaves(Writer)

-----------------------------------------------------------------------------
\* beginRead(n): its two loads, and what it decides from them.
BeginReadLoad(r) ==
    /\ rpc[r] = "idle" /\ step[r] = "none"
    /\ Goes(r, "beginning", writePtr)
    /\ UNCHANGED vars

SeenAligned(r) == Aligned(loaded[r]) /\ Aligned(readPtr[r])
Seen(r) == AvailableToReadBytes(loaded[r], readPtr[r])

BeginReadGrants(r, n) ==
    /\ step[r] = "beginning"
    /\ SeenAligned(r)
    /\ Seen(r) <= QueueSize /\ Bytes(n) <= Seen(r)
    /\ rpc' = [rpc EXCEPT ![r] = "taking"]
    /\ rtx' = [rtx EXCEPT ![r] = TxAt(readPtr[r], n)]
    /\ Leaves(r)
    /\ UNCHANGED <<shared, writer, rdata, history>>

BeginReadGivesUp(r) ==
    /\ step[r] = "beginning"
    /\ SeenAligned(r)
    /\ Seen(r) > QueueSize
    /\ Goes(r, "storing", loaded[r])
    /\ UNCHANGED vars

BeginReadRefuses(r, n) ==
    /\ step[r] = "beginning"
    /\ SeenAligned(r) => Seen(r) <= QueueSize /\ Seen(r) < Bytes(n)
    /\ Leaves(r)
    /\ UNCHANGED vars

\* commitRead(n): its two loads, and the counter it is to store.
CommitReadLoad(r) ==
    /\ rpc[r] = "taking" /\ step[r] = "none"
    /\ Goes(r, "committing", readPtr[r])
    /\ UNCHANGED vars

Passed(r) == AvailableToReadBytes(writePtr, loaded[r])

CommitReadKeeps(r, n) ==
    /\ step[r] = "committing"
    /\ n <= TxLength(rtx[r])
    /\ \A j \in 0..(Bytes(n) - 1) : rdata[r][j] # None
    /\ Passed(r) <= QueueSize
    /\ Goes(r, "storing", CounterAdd(loaded[r], Bytes(n)))
    /\ UNCHANGED vars

CommitReadGivesUp(r) ==
    /\ step[r] = "committing"
    /\ Passed(r) > QueueSize
    /\ Goes(r, "storing", writePtr)
    /\ UNCHANGED vars

\* The store at the end of either call.
StoreReadPtr(r) ==
    /\ step[r] = "storing"
    /\ readPtr' = [readPtr EXCEPT ![r] = loaded[r]]
    /\ ReaderDone(r)
    /\ Leaves(r)
    /\ UNCHANGED <<writePtr, ring, writer, history>>

ReaderSteps(r) ==
    \/ \E n \in Counts : \/ BeginReadGrants(r, n) \/ BeginReadRefuses(r, n)
                         \/ CommitReadKeeps(r, n)
    \/ BeginReadLoad(r) \/ BeginReadGivesUp(r)
    \/ CommitReadLoad(r) \/ CommitReadGivesUp(r)
    \/ StoreReadPtr(r)
    \/ step[r] = "none" /\ (\E j \in Offsets : CopyFrom(r, j)) /\ UNCHANGED calls
    \/ (DropRead(r) \/ ReattachReader(r)) /\ Leaves(r)

-----------------------------------------------------------------------------
\* Who goes on with what it read before a reset.
Busy(p) == IF p = Writer THEN wpc = "filling"
                         ELSE rpc[p] = "taking" \/ step[p] # "none"

\* A reader that sees more than the queue can hold.
Lost == {r \in Readers : Synchronized /\ Overflow(r)}

\* A caught party is itself again when its call and its transaction are over
\* and, a reader, when it is not lost.
Remains(p) == Busy(p) \/ p \in Lost

\* How the history goes along with a step of party p.
Remembers(p) ==
    /\ fresh' = LesserOf(QueueSize, fresh + (writePtr' - writePtr))
    /\ torn' = (torn \/ (Writer \in caught /\ writePtr' # writePtr))
    /\ blind' = IF wpc = "idle" THEN wpc' = "filling" /\ caught # {}
                                ELSE wpc' = "filling" /\ blind
    /\ caught' = {q \in caught : Remains(q)'}
                 \cup (IF p \in caught \/ (p = Writer /\ blind) THEN Lost' ELSE {})
    /\ UNCHANGED attaching

\* A new process in the place of p: the transaction of the old one is gone.
Restarts(p) ==
    \/ /\ p = Writer
       /\ wpc' = "idle" /\ wtx' = NullTx /\ wdata' = Blank
       /\ UNCHANGED reader
    \/ p \in Readers /\ ReaderDone(p) /\ UNCHANGED writer

\* mReadPtr is shared memory, or the attaching reader's own.
ResetReadPtr(p) ==
    /\ attaching' = attaching \cup {p}
    /\ Restarts(p) /\ Leaves(p)
    /\ readPtr' = [r \in Readers |-> IF Synchronized \/ r = p THEN 0 ELSE readPtr[r]]
    /\ caught' = {q \in caught \cup (IF Synchronized THEN Readers ELSE {}) : Busy(q)'}
    /\ blind' = (wpc' = "filling" /\ blind)
    /\ UNCHANGED <<writePtr, ring, history, torn, fresh>>

\* (Mutant of ResetWritePtr: only the reader's counter is reset.)
ResetWritePtrForgotten(p) ==
    /\ p \in attaching
    /\ attaching' = attaching \ {p}
    /\ UNCHANGED <<shared, writer, reader, recent, wrapped, calls>>
    /\ caught' = {q \in Parties : Remains(q)'}
    /\ torn' = FALSE /\ blind' = FALSE /\ fresh' = 0 /\ scribbled' = 0
ResetWritePtr(p) ==
    /\ p \in attaching
    /\ attaching' = attaching \ {p}
    /\ writePtr' = 0
    /\ UNCHANGED <<readPtr, ring, writer, reader, recent, wrapped, calls>>
    /\ caught' = {q \in Parties : Remains(q)'}
    /\ torn' = FALSE /\ blind' = FALSE /\ fresh' = 0 /\ scribbled' = 0

NextReset ==
    \/ Writer \notin attaching /\ WriterSteps /\ Remembers(Writer)
    \/ \E r \in Readers \ attaching : ReaderSteps(r) /\ Remembers(r)
    \/ \E p \in Parties : ResetReadPtr(p) \/ ResetWritePtr(p)

SpecReset == InitReset /\ [][NextReset]_allVars

-----------------------------------------------------------------------------
\* Properties.

\* Type invariant; whoever a reset has caught is in a call or a transaction or,
\* a reader, about to see an overflow.
TypeOKReset ==
    /\ TypeOK
    /\ attaching \subseteq Parties
    /\ step \in [Parties -> {"none", "beginning", "committing", "storing"}]
    /\ loaded \in [Parties -> 0..(CounterMod - 1)]
    /\ caught \subseteq Parties /\ blind \in BOOLEAN /\ torn \in BOOLEAN
    /\ fresh \in 0..QueueSize
    /\ \A p \in caught : Remains(p)

\* No reset, at whatever moment, makes beginWrite or beginRead hand out memory
\* outside the ring or the same byte twice, although availableToWrite()
\* exceeds the queue while a reader is ahead of writePtr.
RegionInRing(region) ==
    region.length = 0 \/ /\ region.address \in Offsets
                         /\ region.address + region.length * Quantum <= QueueSize

TransactionsInRing ==
    \A tx \in OpenTransactions :
        /\ TxLength(tx) <= QuantumCount
        /\ RegionInRing(tx.first) /\ RegionInRing(tx.second)
        /\ tx.second.length > 0 =>
              tx.second.address + tx.second.length * Quantum <= tx.first.address

\* The bytes committed since the reset are in the ring where their counters
\* say, unless the writer was in the middle of a transaction.
FreshInRing ==
    ~torn /\ Writer \notin caught =>
        \A age \in 0..(fresh - 1) :
            age + scribbled < QueueSize =>
                ring[(writePtr + (QueueSize - 1) - age) % QueueSize] = recent[age]

\* Whoever was not in a transaction when the counters were reset is handed
\* only bytes committed since, and the right ones: no reader takes what lay in
\* the queue before, not even one whose own counter was not reset.
ReadsAreFresh ==
    ~torn /\ Writer \notin caught =>
        \A r \in Readers \ caught : \A j \in 0..(TxBytes(rtx[r]) - 1) :
            rdata[r][j] # None /\ Intact(r, j) =>
                /\ Backlog(r) - 1 - j \in 0..(fresh - 1)
                /\ rdata[r][j] = recent[Backlog(r) - 1 - j]

\* The damage of a reset spreads only by the stores of parties it caught.  Once
\* both its own stores are done, a reader that was not caught holds no more
\* than its backlog, and the backlog is no larger than the queue, unless a
\* caught party stored its counter over the reset; the writer was granted
\* nothing such a reader has yet to read, unless it was granted blindly.
GrantsHoldAgain ==
    attaching = {} =>
        \A r \in Readers \ caught :
            /\ TxBytes(rtx[r]) <= Backlog(r)
            /\ Synchronized => /\ Backlog(r) <= QueueSize
                               /\ ~blind => Backlog(r) + TxBytes(wtx) <= QueueSize
=============================================================================
